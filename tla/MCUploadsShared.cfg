CONSTANTS
    Names = {n1, n2}
    Hidden = {}
    Sessions = {s1, s2}
    Handlers = {h1, h2}
    MaxSize = 2
    MaxData = 2
    MaxRequests = 4
    Direct = Direct
    None = None
SPECIFICATION Spec
SYMMETRY Symmetry
INVARIANT WholeDespiteSharing
CHECK_DEADLOCK FALSE
