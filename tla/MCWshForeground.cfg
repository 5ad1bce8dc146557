CONSTANTS
    MaxPid = 3
    NJ = 3
    NID = 4
    Lines <- MCLines
SPECIFICATION Spec
CHECK_DEADLOCK FALSE
INVARIANT ForegroundJobOwnsTerminal
