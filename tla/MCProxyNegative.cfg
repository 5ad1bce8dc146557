\* Proxy with jobs of priority -1: get_work reads requests[-1].
CONSTANTS
    c1 = c1
    c2 = c2
    c3 = c3
    c4 = c4
    w1 = w1
    w2 = w2
    w3 = w3
    Garbage = Garbage
    None = None
    Clients <- MCClients
    Workers <- MCWorkers
    MaxSize = 2
    MaxGetJobs = 2
    Prio <- MCPrioNegative
SPECIFICATION Spec
INVARIANT WorkersServeClients
CHECK_DEADLOCK FALSE
