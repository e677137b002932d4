\* Two connections, each of which may end while the other begins; two sends.
SPECIFICATION LiveSpec
CONSTANTS
    MaxSockets = 2
    MaxSends = 2
    NamesBound = TRUE
CHECK_DEADLOCK FALSE
INVARIANT EndedIsUnregistered
PROPERTY GoneGoesOffline
