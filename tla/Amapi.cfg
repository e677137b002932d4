SPECIFICATION LiveSpec
CONSTANTS
    MaxCmds = 2
    MaxCalls = 2
    PollerOn = TRUE
    MaxEnts = 2
    MaxRetries = 1
    MaxFaults = 1
INVARIANTS IInv Truthful NeverUnmanaged
PROPERTY Settles
CHECK_DEADLOCK FALSE
