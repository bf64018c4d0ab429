\* Up to two sends and other operations, three in all; two requests that fail.
CONSTANTS
    None = None
    Gone = Gone
    MaxConvs = 3
    MaxSends = 2
    MaxTasks = 3
    MaxBegun = 3
    MaxFaults = 2
SPECIFICATION Spec
INVARIANTS ShownIsSelected OneAnswer AnswerStays
PROPERTY Unlocks
CHECK_DEADLOCK FALSE
