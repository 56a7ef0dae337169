\* Two peers, one of them configured and sending keys, and pages of one record; two
\* nodes that post one message each or two of one, with a limit of one per window.
SPECIFICATION MeshSpec
CONSTANTS
    a = a
    b = b
    c = c
    ka = ka
    kb = kb
    kc = kc
    v = v
    w = w
    base = base
    wyriwe = wyriwe
    Hashes = {1, 2}
    Spaces = {base, wyriwe}
    Values = {v, w}
    Signers = {ka, kb, kc}
    Unsigned = Unsigned
    Sources = {a, b}
    NoSource = NoSource
    Times = {1, 2}
    Peers = {a, b}
    NoSigner = NoSigner
    Base = base
    Wyriwe = wyriwe
    Pool <- MCPool
    SendsKey = {a}
    Limit = 1
    DiscoverLimit = 1
    Seeds = {a}
    Keys <- MCKeys
    Syncs = {1}
    MaxTime = 2
    MaxRestarts = 1
    MaxAdmin = 1
    n1 = n1
    n2 = n2
    Members = {n1, n2}
    RateLimitMax = 1
    RateLimitWindow = 2
    StaleAfter = 1
    MaxBroadcasts = 2
    MaxInbox = 2
    MaxClock = 3
INVARIANTS WalkComplete HourlyLimit SentWereStored
PROPERTIES DiscoveryRespectsBlock SyncEnds BroadcastEnds
CHECK_DEADLOCK FALSE
