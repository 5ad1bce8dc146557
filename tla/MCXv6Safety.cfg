CONSTANTS
    p1 = p1
    p2 = p2
    f1 = f1
    f2 = f2
    Procs <- MCProcs
    Root = p1
    Frames <- MCFrames
    InitFree <- MCInitFree
    NV = 3
    NMAP = 2
    MaxCalls = 2
    Lengths = {1, 2}
    FixedAddrs = {1, 3}
    Bogus = Bogus
    None = None
SPECIFICATION Spec
INVARIANT TypeOK
INVARIANT FreedFramesUnmapped
CHECK_DEADLOCK FALSE
