\* Two peers that serve records of themselves and of each other.
SPECIFICATION Spec
CONSTANTS
    a = a
    b = b
    c = c
    ka = ka
    kb = kb
    kc = kc
    v = v
    w = w
    base = base
    wyriwe = wyriwe
    Hashes = {1, 2}
    Spaces = {base, wyriwe}
    Values = {v, w}
    Signers = {ka, kb, kc}
    Unsigned = Unsigned
    Sources = {a, b}
    NoSource = NoSource
    Times = {1, 2}
    Peers = {a, b}
    NoSigner = NoSigner
    Base = base
    Wyriwe = wyriwe
    Pool <- MCSigned
    SendsKey = {a, b}
    Limit = 1
    DiscoverLimit = 1
    Seeds = {a}
    Keys <- MCFixedKeys
    Syncs = {1}
    MaxTime = 2
    MaxRestarts = 0
    MaxAdmin = 0
INVARIANTS PinIsPeersKey
CHECK_DEADLOCK FALSE
