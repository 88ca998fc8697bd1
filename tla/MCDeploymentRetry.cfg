CONSTANTS
    Pipeline <- DefaultPipeline
    Handlers = {h1, h2}
    MaxAttempts = 3
    MaxQueue = 1
    None = None
    Cancels = FALSE
    FlagOff = FALSE
    Edits = FALSE
    RetryAny = TRUE
    Crashes = FALSE
SPECIFICATION Spec
INVARIANT SuccessMeansAll
