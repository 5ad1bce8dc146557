CONSTANTS
    MaxPid = 3
    NJ = 3
    NID = 4
    Lines <- MCLines
SPECIFICATION FairSpec
INVARIANT TypeOK
INVARIANT JobTableConsistent
INVARIANT TerminalReturnsToShell
PROPERTY ShellRegainsPrompt
CHECK_DEADLOCK FALSE
