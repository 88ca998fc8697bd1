CONSTANTS
    Names = {n1, n2, dot}
    Hidden = {dot}
    Sessions = {s1, s2}
    Handlers = {h1, h2}
    MaxSize = 2
    MaxData = 2
    MaxRequests = 3
    Direct = Direct
    None = None
SPECIFICATION Spec
SYMMETRY Symmetry
INVARIANTS AssembledWhole QuotaKept RangeHonoured
CHECK_DEADLOCK FALSE
