CONSTANTS
    Files = {f1, f2, f3}
    Ignored = {f3}
    Data = {a, b}
    None = None
    Partial = Partial
    MaxChanges = 4
    MaxFaults = 2
SPECIFICATION FairSpec
INVARIANTS TypeOK CopyConfirmed
PROPERTIES KeepsLive Converges
