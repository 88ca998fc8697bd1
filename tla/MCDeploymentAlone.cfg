CONSTANTS
    Pipeline <- CommandLast
    Handlers = {h1, h2}
    MaxAttempts = 3
    MaxQueue = 1
    None = None
    Cancels = FALSE
    FlagOff = FALSE
    Edits = FALSE
    RetryAny = FALSE
    Crashes = TRUE
SPECIFICATION Spec
INVARIANT PropagationAlone
