SPECIFICATION Spec
CONSTANTS
    Values = {d1, d2}
    States = {x1, x2}
    MaxTime = 2
    TimeEps = 2
    MaxIter = 3
    Habits = {"ordered", "stops", "keepsInfo", "readsAfter"}
    StopTimes = {1}
SYMMETRY Symmetry
INVARIANTS
    SettledBeforeExit
    CleanContinuousTime
    StateChangeReported
    NextTimeEventReported
    DueTimeEventMet
    BoundedRecursion
    TerminatedIsComputed
PROPERTIES
    TimeEventReplacedWhenMet
