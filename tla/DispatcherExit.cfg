CONSTANTS
    MaxCalls = 4
    MaxQueue = 2
    BatchSize = 2
    MaxRetries = 2
    Closers = {c1, c2}
    UsesHttpSink = TRUE
SPECIFICATION Spec
PROPERTY ExitFlushes
