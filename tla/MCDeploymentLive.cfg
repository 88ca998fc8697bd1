CONSTANTS
    Pipeline <- ShortPipeline
    Handlers = {h1, h2}
    MaxAttempts = 2
    MaxQueue = 1
    None = None
    Cancels = TRUE
    FlagOff = TRUE
    Edits = FALSE
    RetryAny = FALSE
    Crashes = TRUE
SPECIFICATION FairSpec
PROPERTIES RunEnds QueueServed
