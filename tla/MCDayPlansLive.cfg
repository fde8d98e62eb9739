CONSTANTS
    Plans = {p1}
    Requests = {r1, r2, r3}
    Initial = initial
    Free = free
    MaxLost = 3
    MaxInFlight = 3
SPECIFICATION FairSpec
CHECK_DEADLOCK FALSE
PROPERTIES
    EveryRequestEnds
