CONSTANTS
    Plans = {p1}
    Requests = {r1, r2, r3, r4}
    Initial = initial
    Free = free
    MaxLost = 1
    MaxInFlight = 2
SPECIFICATION Spec
SYMMETRY Symmetry
CONSTRAINT Bounded
CHECK_DEADLOCK FALSE
INVARIANTS
    LedgerComplete
    PlanMatchesLedger
    HistoryOfLastLegacyRun
    WrittenOnWhatWasReviewed
    AnswersMatchLedger
    StaleMeansOvertaken
PROPERTIES
    ConfirmedIsFrozen
    ImplementsLedger
