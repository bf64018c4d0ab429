\* Two messages taken one at a time, one of them malformed; two faults, one
\* SIGTERM, and traffic that pauses.
CONSTANTS
    a1 = a1
    a2 = a2
    x = x
    ra = ra
    rx = rx
    None = None
    Workers = {w1, w2}
    Msgs <- LiveMsgs
    Requests <- MCRequests
    ReqOf <- LiveReqOf
    Malformed <- JustX
    Poison <- Nothing
    BatchSize = 1
    MaxFaults = 2
    MaxStops = 1
SPECIFICATION GapSpec
PROPERTY Settles
