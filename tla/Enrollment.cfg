SPECIFICATION LiveSpec
CONSTANTS
    p1 = p1
    MaxRequests = 2
    Profiles <- MCOneProfile
    MaxDevices = 2
    MaxEvents = 1
    NamesBound = TRUE
INVARIANTS IInv TokenBudget PolicyFollowsKey StaleIsMarked
PROPERTY SyncConverges
CHECK_DEADLOCK FALSE
