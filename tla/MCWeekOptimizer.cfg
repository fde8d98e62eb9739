CONSTANTS
    Days <- MCDays
    Engines = {"strict", "flexible"}
    Weeks <- MCWeeks
    NoWeek = NoWeek
SPECIFICATION WeekSpec
CHECK_DEADLOCK FALSE
INVARIANTS
    DayCanBeHeld
    LocksSurvive
    NeverInfeasible
    AlternativesCanBeLocked
    NobodyIdleForUncovered
    SelectedIsCheapest
    FlexibleCoversMore
    CountsAreCarried
    WeekIsShared
