\* Two submits, batches of up to two, two attempts; the first event cannot be
\* stored, the second may be invalid; one worker, one fault.
CONSTANTS
    MaxCalls = 2
    MaxQueue = 2
    BatchSize = 2
    MaxRetries = 2
    Closers = {}
    UsesHttpSink = TRUE
    Workers = {w1}
    MaxFaults = 1
    MaxStops = 0
    None = None
    ReadCount = 1
    Tainted = {1}
SPECIFICATION Spec
INVARIANTS AlwaysSomewhere
PROPERTIES ImplementsLogStore KeepsDispatcher
CHECK_DEADLOCK FALSE
