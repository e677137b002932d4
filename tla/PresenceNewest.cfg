SPECIFICATION PSpec
CONSTANTS
    MaxSockets = 2
    MaxSends = 0
    NamesBound = TRUE
CHECK_DEADLOCK FALSE
INVARIANT NewestIsRegistered
