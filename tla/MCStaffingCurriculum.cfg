CONSTANTS
    Inputs <- Schools
SPECIFICATION Spec
CHECK_DEADLOCK FALSE
INVARIANTS
    CurriculumFirst
