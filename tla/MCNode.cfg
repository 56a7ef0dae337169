\* Each component of one node by itself.
SPECIFICATION NodeSpec
CONSTANTS
    Focuses = {"records", "migrations", "snapshot", "admin", "tsei", "join", "anchor"}
    base = base  v = v  w = w  s1 = s1  s2 = s2  p = p  q = q
    Hashes = {1}
    Spaces = {base}
    Values = {v, w}
    Signers = {s1, s2}
    Unsigned = Unsigned
    Sources = {p, q}
    NoSource = NoSource
    Times = {1, 2}
    Incoming <- MCIncoming
    Legacy <- MCLegacy
    MaxCrashes = 1
    MaxFailures = 1
    OldRows = {v, w}
    Absent = Absent
    MaxStops = 3
    p1 = p1  Other = Other
    Local = Local
    Self = Self
    NoRoot = NoRoot
    NoAddress = NoAddress
    SettlerPeriods = {p1}
    SettlerNodes = {Self, Other}
    Addresses = {Self, Other}
    Origins = {p, Local}
    Freezes = {1, 2}
    EpochCloses = {0, 2}
    MaxRecords = 1
    MaxRepins = 1
    k1 = k1  x1 = x1  A = A  B = B
    Unset = Unset
    Down = Down
    Keys = {k1}
    Secrets = {x1}
    Accounts = {A, B}
    MaxUnsaved = 1
    Environments <- MCEnvironments
    Attempts = {1, 2}
    MaxNonces = 2
    NonceTTL = 0
    SessionTTL = 0
    Receipts = {v, w}
    Gateway = Gateway
    Others = {Other}
    Malformed = Malformed
    Posts = {1, 2}
    MaxAttempts = 1
    AttemptWindow = 2
    MaxAdmitted = 2
    Applicants = {s1, s2}
    Urls = {p, q}
    NoUrl = NoUrl
    i1 = i1  c1 = c1  c2 = c2
    Attestations <- MCAttestations
    Batches = {1, 2}
    BatchLimit = 2
    NoOne = NoOne
    NoCommitment = NoCommitment
    MaxClock = 3
CHECK_DEADLOCK FALSE
INVARIANTS
    DivergenceKept CorroborationExact AttestationsFollow
    RowsSurvive
    FrozenAfterCutoff SettledIsFrozen
    MemoryFollowsFile NonceUsedOnce OneClaimant
    SlidingWindow AnswerComplete
    ApprovedWasSent
    ReportedAnchored ProofStays
PROPERTIES
    ImplementsTables ImplementsFrozenTable RowsCoverRecords SavedKeyUsed
