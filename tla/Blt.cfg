SPECIFICATION Spec
CONSTANTS
    Systems <- MCSystems
    Options <- MCOptions
    Attributes <- MCAttributes
INVARIANTS
    MatchingIsPerfect
    BlocksInOrder
    OnlyKeptUnknowns
    SquareSystem
