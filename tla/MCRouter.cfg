\* Two requests, one name, and a key that is set, or changed.
SPECIFICATION RouterSpec
CONSTANTS
    d = d  e = e  v = v  w = w  s1 = s1  s2 = s2  p = p  q1 = q1  q2 = q2
    Hashes = {1}
    Spaces = {}
    Values = {v, w}
    Signers = {s1, s2}
    Unsigned = Unsigned
    Sources = {p}
    NoSource = NoSource
    Times = {1, 2}
    GatewayKeys = {s1, s2}
    Calldata = {d, e}
    Lookups = {d}
    NameValues = {v, w}
    NoEntry = NoEntry
    Queries = {q1, q2}
    Relayed <- MCRelayed
    MaxClock = 2
INVARIANTS ReceiptFirst ReceiptsTrue AnswersShown
SYMMETRY MCSymmetry
