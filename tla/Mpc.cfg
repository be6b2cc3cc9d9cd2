SPECIFICATION Spec
CONSTANTS
    Horizon = 4
    NCP = 2
    NEval = 2
    Settings <- MCSettings
    MaxAge = 9
INVARIANTS
    InputOfCurrentSample
    GuessIsAligned
    NoFailedGuess
    EstimateIsCurrent
    NoUndocumentedError
PROPERTIES
    WarmStartHasDuals
    RecedingHorizon
    FailureReported
