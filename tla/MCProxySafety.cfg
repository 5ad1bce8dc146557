\* Proxy threads and queue under fair worker threads: conservation of jobs,
\* wakeups, dispatch order, and every accepted job answered.
CONSTANTS
    c1 = c1
    c2 = c2
    c3 = c3
    c4 = c4
    w1 = w1
    w2 = w2
    w3 = w3
    Garbage = Garbage
    None = None
    Clients <- MCClients
    Workers <- MCWorkers
    MaxSize = 3
    MaxGetJobs = 2
    Prio <- MCPrio
SPECIFICATION FairSpec
INVARIANT TypeOK
INVARIANT EachRequestOnce
INVARIANT NoIdleWhileQueued
PROPERTY HighestFirstThenFifo
PROPERTY EveryJobAnswered
\* With the finite set of clients exhausted the proxy blocks in accept() and
\* pthread_cond_wait for good: that final state is its idle state.
CHECK_DEADLOCK FALSE
