SPECIFICATION FairSpec
CONSTANTS
    Admins = {a1, a2}
    Readers = {c1, c2}
    MaxOps = 2
    MaxGrants = 2
    Absent = Absent
INVARIANT ToggleSticks
PROPERTIES Settles LapseEndsShell
CHECK_DEADLOCK FALSE
