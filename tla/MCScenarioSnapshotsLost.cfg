CONSTANTS
    Saves = {"r1", "r2", "r3"}
    Docs <- MCDocs
    Creates = {"c1", "c2", "c3"}
    Labels = {"a", "b"}
    Mixes <- MCMixes
    Year = "y"
    Scenario = "s"
SPECIFICATION Spec
CHECK_DEADLOCK FALSE
INVARIANTS
    SavedIsStored
