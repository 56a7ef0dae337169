\* One hash, two values, seven records to deliver, one crash, one error.
SPECIFICATION Spec
CONSTANTS
    base = base
    v = v
    w = w
    s1 = s1
    s2 = s2
    p = p
    q = q
    Hashes = {1}
    Spaces = {base}
    Values = {v, w}
    Signers = {s1, s2}
    Unsigned = Unsigned
    Sources = {p, q}
    NoSource = NoSource
    Times = {1, 2}
    Incoming <- MCIncoming
    Legacy <- MCLegacy
    MaxCrashes = 1
    MaxFailures = 1
INVARIANTS FlagsOneSigner
CHECK_DEADLOCK FALSE
