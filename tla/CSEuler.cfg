SPECIFICATION FairSpec
CONSTANTS
    States = {0, 1}
    Inputs = {0, 1}
    Rates = {0, 1}
    Relation <- MCRelation
    Course <- MCCourse
    EventEps = 2
    MaxTime = 3
    NoReinit = FALSE
    StrictEvents = TRUE
    Method = "euler"
    Eps = 1
    StopTimes = {2}
INVARIANTS
    StepSettled
PROPERTIES
    DoStepAnswers
