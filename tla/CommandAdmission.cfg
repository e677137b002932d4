\* Two actions against a limit of one, two racing dispatches, two minutes.
SPECIFICATION FairSpec
CONSTANTS
    Actions = {lock, wifi}
    Dispatches = {d1, d2}
    Limit = 1
    MaxMinute = 2
    lock = lock
    wifi = wifi
    d1 = d1
    d2 = d2
CHECK_DEADLOCK FALSE
 
PROPERTY EveryDispatchReturns
