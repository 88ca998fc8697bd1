SPECIFICATION Spec
CONSTANTS
    NServices = 2
    WithEnv = {2}
    Tested = {1}
    Broken <- BrokenLater
    Runs = {r1, r2}
    MaxCommit = 1
    Tree = Tree
    None = None
INVARIANTS OfferedIsProven Deliverable CleanedUp
SYMMETRY Symmetric
CHECK_DEADLOCK FALSE
