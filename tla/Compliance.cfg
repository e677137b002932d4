\* One category, two connections; of failures, a policy update, reconnections,
\* restarts and checks any two, anywhere.
SPECIFICATION MCLiveSpec
CONSTANTS
    kiosk = kiosk
    first = first
    second = second
    Cats <- MCCats
    Sockets <- MCSockets
    Updates <- MCUpdates
    LoopLimit = 2
    RateLimit = 1
    MaxVersion = 2
    MaxLine = 1
    MaxInbox = 1
    MaxEvents = 2
CHECK_DEADLOCK FALSE
INVARIANTS IInv FailedListIsTrue BlockHasCause
PROPERTY Converges
