CONSTANTS
    EmptyStr = EmptyStr
    a = a
    b = b
    long = long
    nul = nul
    Str = {EmptyStr, a, b, long, nul}
    LongStr = {long}
    NulStr = {nul}
    s1 = s1
    s2 = s2
    Slot = {s1, s2}
    hash <- MCHash
    Addr = {p1, p2, p3}
    ListAddr = {l1, l2}
    Null = Null
    Free = Free
    PreserveMayFail = TRUE
SYMMETRY MCSymmetry
SPECIFICATION Spec
INVARIANT
    EntriesNotStale
