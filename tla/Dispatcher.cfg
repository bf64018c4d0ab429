\* Four submits against a queue of two and batches of two: the queue fills
\* while a batch is retried, and a second batch follows a failed first one.
CONSTANTS
    MaxCalls = 4
    MaxQueue = 2
    BatchSize = 2
    MaxRetries = 2
    Closers = {c1, c2}
    UsesHttpSink = TRUE
SPECIFICATION Spec
INVARIANTS TypeOK Accounted WireOrder DrainComplete SinkNotPulled
PROPERTIES SilentOnceClosed EventResolved CloseEnds
