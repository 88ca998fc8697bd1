SPECIFICATION Spec
CONSTANTS
    NServices = 2
    WithEnv = {2}
    Tested = {1}
    Broken = {}
    Runs = {r1, r2, r3}
    MaxCommit = 0
    Tree = Tree
    None = None
INVARIANT CompleteThoughResent
SYMMETRY Symmetric
CHECK_DEADLOCK FALSE
