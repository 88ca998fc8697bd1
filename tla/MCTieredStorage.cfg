SPECIFICATION Spec
CONSTANTS
    p1 = p1
    p2 = p2
    t1 = t1
    t2 = t2
    d1 = d1
    v1 = v1
    v2 = v2
    s1 = s1
    k1 = k1
    e1 = e1
    None = None
    Torn = Torn
    Paths = {p1, p2}
    Tmp = {t1, t2}
    Hidden = {}
    Drives = {d1}
    Data = {v1, v2}
    Sweeps = {s1}
    Tasks = {k1}
    NameReuse = FALSE
    OpenLeftovers = FALSE
    Evacs = {e1}
    EvacDrives = {}
SYMMETRY Symmetry
INVARIANTS TypeOK Inv
PROPERTIES ImplementsDrive Transparent
