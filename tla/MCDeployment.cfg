CONSTANTS
    Pipeline <- DefaultPipeline
    Handlers = {h1, h2}
    MaxAttempts = 3
    MaxQueue = 1
    None = None
    Cancels = TRUE
    FlagOff = TRUE
    Edits = TRUE
    RetryAny = FALSE
    Crashes = TRUE
SPECIFICATION Spec
SYMMETRY Symmetry
INVARIANTS TypeOK InOrder SingleRun RunOwned SuccessMeansAll
PROPERTY TicketStarts
