SPECIFICATION FairSpec
CONSTANTS
    p1 = p1
    t1 = t1
    d1 = d1
    v1 = v1
    s1 = s1
    k1 = k1
    e1 = e1
    None = None
    Torn = Torn
    Paths = {p1}
    Tmp = {t1}
    Hidden = {}
    Drives = {d1}
    Data = {v1}
    Sweeps = {s1}
    Tasks = {k1}
    NameReuse = FALSE
    OpenLeftovers = FALSE
    Evacs = {e1}
    EvacDrives = {}
PROPERTIES OrphansReclaimed
