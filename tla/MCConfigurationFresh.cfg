CONSTANTS
    Puts = {"p1", "p2"}
    Solves = {}
    Mixes <- FreshMixes
    Seed = "seed"
    Kind <- MCKind
    Payload <- FreshIds
    Days <- MCDays
SPECIFICATION Spec
CHECK_DEADLOCK FALSE
INVARIANTS
    NoTeacherDoubleBooked
