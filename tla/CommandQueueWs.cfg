\* Both transports: the two missing imports supplied, one command, two handlers.
SPECIFICATION Spec
CONSTANTS
    MaxCmds = 1
    Sessions = {s1, s2}
    MaxRetries = 1
    MaxSends = 2
    MaxFaults = 1
    WsBound = TRUE
SYMMETRY SessionSymmetry
INVARIANT IInv
CHECK_DEADLOCK FALSE
