SPECIFICATION Spec
CONSTANTS
    States = {0, 1}
    Inputs = {0, 1}
    Rates = {0}
    Relation <- MCTouching
    Course <- MCCourse
    EventEps = 2
    MaxTime = 3
    NoReinit = FALSE
    StrictEvents = TRUE
    Method = "euler"
    Eps = 0
    StopTimes = {2}
INVARIANTS
    StepSettled
