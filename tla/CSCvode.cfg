SPECIFICATION Spec
CONSTANTS
    States = {0, 1}
    Inputs = {0, 1}
    Rates = {0, 1}
    Relation <- MCRelation
    Course <- MCCourse
    EventEps = 2
    MaxTime = 3
    NoReinit = FALSE
    StrictEvents = FALSE
    Method = "cvode"
    Eps = 0
    StopTimes = {2}
INVARIANTS
    StepReached
    StepSettled
    EventsFirst
    EventAtItsPoint
    NoTimeEventPassed
    IntegratorCurrent
