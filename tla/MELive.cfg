SPECIFICATION Spec
CONSTANTS
    Values = {d1, d2}
    States = {x1}
    MaxTime = 0
    TimeEps = 1
    MaxIter = 3
    Habits = {"stops", "keepsInfo", "readsAfter"}
    StopTimes = {}
PROPERTIES
    DiscreteUpdateReturns
