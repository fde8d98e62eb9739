CONSTANTS
    Days <- MCDays
    Engines = {"strict", "flexible"}
SPECIFICATION Spec
CHECK_DEADLOCK FALSE
INVARIANTS
    UncoveredIsUnavoidable
