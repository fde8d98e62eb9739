CONSTANTS
    Inputs <- Schools
SPECIFICATION Spec
CHECK_DEADLOCK FALSE
INVARIANTS
    LoadsAddUp
    FixedDecisionsKept
    CompleteIsComplete
    InfeasibleOnlyIfFixed
    OpenForWantOfStaff
