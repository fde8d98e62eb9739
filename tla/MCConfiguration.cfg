CONSTANTS
    Puts = {"p1", "p2", "p3", "p5", "o1", "o2", "r1", "r2", "r3"}
    Solves = {"s1"}
    Mixes <- MCMixes
    Seed = "seed"
    Kind <- MCKind
    Payload <- SharedIds
    Days <- MCDays
SPECIFICATION FairSpec
CHECK_DEADLOCK FALSE
INVARIANTS
    DanglingOnlyAfterReplacement
    TornOnlyByOverlap
    OnlyFirstImportsDeadlock
PROPERTIES
    EveryPutEnds
    ReplacesAsAWhole
