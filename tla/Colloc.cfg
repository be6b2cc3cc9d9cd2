SPECIFICATION Spec
CONSTANTS
    Problems <- MCProblems
INVARIANTS
    CountsAgree
    NamesMatchIndices
    FactorsSharedOut
    GuessComplete
    ConstraintsCounted
    CheckpointSameConstraints
    DegreesOfFreedom
    ShiftIsPlan
CHECK_DEADLOCK FALSE
