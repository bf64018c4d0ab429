\* Two workers, batches of two, a poison message; two faults and one SIGTERM.
CONSTANTS
    a1 = a1
    a2 = a2
    x = x
    ra = ra
    rx = rx
    None = None
    Workers = {w1, w2}
    Msgs <- MCMsgs
    Requests <- MCRequests
    ReqOf <- MCReqOf
    Malformed <- Nothing
    Poison <- JustX
    BatchSize = 2
    MaxFaults = 2
    MaxStops = 1
SPECIFICATION Spec
INVARIANTS NothingLost OneRow NoOrphanWithoutFault OnlyPoisonParked
