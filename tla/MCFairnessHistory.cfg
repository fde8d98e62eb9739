CONSTANTS
    Plans <- MCPlans
    Date <- MCDate
    Teachers = {"t1", "t2"}
    Outcomes <- MCOutcomes
    Asked = {41, 42}
    MaxVersion = 3
SPECIFICATION Spec
CHECK_DEADLOCK FALSE
INVARIANTS
    CountsAreOfFinalRuns
