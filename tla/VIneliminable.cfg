SPECIFICATION Spec
CONSTANTS
    Systems <- MCSystems
    Options <- MCOptions
    Attributes <- MCAttributes
INVARIANTS
    IneliminableKept
