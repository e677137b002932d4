\* A queue of two places against three events, both flushers, a death, an I/O
\* error and a refusal for good.
SPECIFICATION LiveSpec
CONSTANTS
    MaxItems = 2
    Batch = 1
    MaxEvents = 3
    Kinds <- ThreeEvents
    Flushers <- TwoFlushers
    MaxKills = 1
    MaxFails = 1
    MaxRefused = 1
CHECK_DEADLOCK FALSE
INVARIANTS IInv StoredSurvives
PROPERTIES StoreKept OnlySettledLeaves QueuedIsSettled
