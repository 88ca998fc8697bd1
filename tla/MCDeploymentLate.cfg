CONSTANTS
    Pipeline <- ShortPipeline
    Handlers = {h1, h2}
    MaxAttempts = 2
    MaxQueue = 1
    None = None
    Cancels = FALSE
    FlagOff = FALSE
    Edits = FALSE
    RetryAny = FALSE
    Crashes = FALSE
SPECIFICATION FairSpec
PROPERTY QueueServedThoughLate
