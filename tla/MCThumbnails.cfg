SPECIFICATION ThumbsSpec
CONSTANTS
    Paths = {n1, n2}
    Readers = {r1}
    Writers = {w1}
    MaxVersion = 2
    Absent = Absent
INVARIANT Fresh
SYMMETRY Symmetry
VIEW Seen
CHECK_DEADLOCK FALSE
