\* Two requests to one conversation, a window of two messages, answers of up to
\* two tokens, one failed call or crash.
CONSTANTS
    Turns = {t1, t2}
    Convs = {v}
    Window = 2
    MaxTokens = 2
    MaxFaults = 1
    None = None
SPECIFICATION Spec
INVARIANT OneOutcome
CHECK_DEADLOCK FALSE
