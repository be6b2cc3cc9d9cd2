SPECIFICATION Spec
CONSTANTS
    Problems <- MCProblems
INVARIANTS
    ConstantWithinFactor
CHECK_DEADLOCK FALSE
