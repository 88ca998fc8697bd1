CONSTANTS
    Pipeline <- CommandLast
    Handlers = {h1, h2}
    MaxAttempts = 3
    MaxQueue = 1
    None = None
    Cancels = TRUE
    FlagOff = FALSE
    Edits = FALSE
    RetryAny = FALSE
    Crashes = FALSE
SPECIFICATION Spec
PROPERTY CancelSticks
