\* The build as shipped: HTTP only.  Two commands, a handler beside the watchdog.
SPECIFICATION LiveSpec
CONSTANTS
    MaxCmds = 2
    Sessions = {s1}
    MaxRetries = 1
    MaxSends = 0
    MaxFaults = 1
    WsBound = FALSE
INVARIANT OutcomesHaveCause
PROPERTIES PromiseKept EventuallySettled
CHECK_DEADLOCK FALSE
