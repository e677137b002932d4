\* One command, handed out again and again, between two coroutines that overlap.
SPECIFICATION LiveSpec
CONSTANTS
    Cmds <- OneCmd
    Workers <- TwoWorkers
    MaxRuns = 3
    MaxQueue = 2
    MaxKills = 2
CHECK_DEADLOCK FALSE
INVARIANTS HInv RerunHasCause
PROPERTY HandedIsSettled
