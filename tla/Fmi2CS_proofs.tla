--------------------------- MODULE Fmi2CS_proofs ----------------------------
(***************************************************************************)
(* The safety of a Co-Simulation step, for every relation, every set of    *)
(* states and inputs, both integrators and both experimental modes.        *)
(*                                                                         *)
(* None of the properties is inductive.  StepInv below says where the FMU, *)
(* the problem and CVODE's copy agree at each place of the solver, and     *)
(* which flag stands for a disagreement.                                   *)
(***************************************************************************)
EXTENDS Fmi2CS, TLAPS

\* nothing has failed since the last reset
Sound == IF pc = "idle" THEN answer \in {"none", "ok"} ELSE s \in {"ok", "event"}

\* the status and the mode of the FMU at each place
PlaceInv ==
    /\ pc \in {"start", "update", "stepping"} => s = "ok"
    /\ pc \in {"loop", "return"} => s # "event"
    /\ pc = "event" => s \in {"ok", "event"}
    /\ pc = "solved" => s # "terminate"
    /\ pc # "idle" /\ Sound => fmuMode = "continuous"
    /\ pc # "idle" => fmuMode \in {"continuous", "event"}
    /\ pc = "idle" /\ answer = "ok" => fmuMode = "continuous"
    /\ fmuMode # "instantiated" => hasSolver

\* a pending event update is a pending restart, and is met before the loop
FlagInv ==
    /\ needEventUpdate => initializeSolver
    /\ pc \in {"loop", "stepping", "solved", "event"} => ~needEventUpdate
    /\ Sound /\ fmuMode = "continuous" /\ unsettled =>
          needEventUpdate /\ pc \in {"idle", "start", "update"}

\* the FMU is where the problem is, except in an integrator
PointInv ==
    /\ Sound /\ setUp /\ fmuMode = "instantiated" => t = time /\ time = point
    /\ Sound /\ fmuMode # "instantiated" /\ pc \notin {"stepping", "solved"} =>
          t = time /\ x = states
    /\ Sound /\ pc = "idle" /\ fmuMode # "instantiated" => time <= point
    /\ Sound /\ pc \in {"start", "update", "loop", "event", "return"} =>
          u = InputAt(time)
    /\ pc # "idle" /\ Sound => time <= final
    /\ pc # "idle" /\ active => tn <= time
    /\ pc = "return" /\ s = "ok" => final <= time + Eps
    /\ pc = "idle" /\ answer = "ok" => point <= time + Eps

\* CVODE's copy of the problem, seen with the input v
Fits(v) ==
    /\ mem.time = time /\ mem.states = states
    /\ NoReinit \/ SignOf(Indicator(states, v, sw)) \in {0, mem.sign}

\* CVODE's copy is current, or a restart is pending
MemInv ==
    Method = "cvode" =>
        /\ pc = "stepping" \/ (pc = "solved" /\ s = "ok") => Fits(InputAt(time))
        /\ /\ pc \in {"idle", "start", "update", "loop", "return"}
           /\ Sound /\ fmuMode = "continuous" /\ ~initializeSolver
           => Fits(u)

\* time events: the integrators stop at them, and none is left at a step's end
TimeEventInv ==
    /\ fmuMode \in {"instantiated", "initialization"} => eventTime = Never
    /\ fmuMode = "continuous" => time <= eventTime
    /\ pc = "stepping" => time <= target /\ target <= eventTime /\ target <= final
    /\ pc = "solved" /\ s = "ok" => time = target

\* what the model or the tolerance has to keep to for a time event at the end
NoLateEvent == StrictEvents \/ Eps = 0

EndInv ==
    /\ StrictEvents /\ pc = "loop" /\ s = "ok" => time < eventTime \/ time = final
    /\ NoLateEvent =>
          (Sound /\ pc \in {"idle", "start", "update", "return"} /\ time = eventTime
              => needEventUpdate)

StepInv ==
    /\ TypeOK
    /\ PlaceInv
    /\ FlagInv
    /\ PointInv
    /\ MemInv
    /\ TimeEventInv
    /\ EndInv
-----------------------------------------------------------------------------
USE DEF StepInv, TypeOK, ProblemTypeOK, SolverTypeOK, Sound, Times, Never,
        fmuVars, problemVars, inputVars, flagVars, solverVars, csVars

\* An event update leaves the switch and the history of discrete inputs Boolean
LEMMA EventUpdateSwitch ==
    ASSUME TypeOK, NEW st, EventUpdate(st)
    PROVE  sw' \in BOOLEAN /\ unsettled' \in BOOLEAN
<1>1. CASE EventRefused
  BY <1>1 DEF EventRefused
<1>2. CASE EventLeft
  BY <1>2 DEF EventLeft
<1>3. CASE EventHandled
  BY <1>3 DEF EventHandled
<1> QED
  BY <1>1, <1>2, <1>3 DEF EventUpdate

\* fmi2_do_step returns with its inputs inactive exactly if it answers fmi2OK.
LEMMA DoStepReturnsCases ==
    ASSUME TypeOK, PlaceInv, DoStepReturns
    PROVE  /\ pc = "return" /\ pc' = "idle"
           /\ UNCHANGED <<fmuVars, problemVars, tn, base, rate, flagVars, previous, mem,
                           final, target, s, stopTime, hasSolver, setUp>>
           /\ \/ s = "ok" /\ answer' = "ok" /\ active' = FALSE /\ point' = final
              \/ /\ s # "ok" /\ answer' \in {"error", "discard"}
                 /\ active' = active /\ point' = point
<1>1. active \in BOOLEAN /\ s \in {"ok", "error", "terminate"}
  BY DEF TypeOK, ProblemTypeOK, SolverTypeOK, Statuses, PlaceInv, DoStepReturns
<1>2. CASE s = "ok"
  <2>1. answer' = "ok" /\ active' = FALSE /\ point' = final
    BY <1>2 DEF DoStepReturns
  <2> QED BY <1>2, <2>1 DEF DoStepReturns
<1>3. CASE s # "ok"
  <2>1. answer' \in {"error", "discard"}
    BY <1>1, <1>3 DEF DoStepReturns
  <2>2. active' = active
    BY <1>1, <2>1 DEF DoStepReturns
  <2>3. point' = point
    BY <2>1 DEF DoStepReturns
  <2> QED BY <1>3, <2>1, <2>2, <2>3 DEF DoStepReturns
<1> QED BY <1>2, <1>3

\* The check of the event indicators that a pending restart asks for.
LEMMA StartChecksKeeps ==
    ASSUME StepInv, StartChecks, UNCHANGED csVars
    PROVE  StepInv'
<1> USE DEF StartChecks, Evaluates, Place, NeedToInitialize
<1>1. TypeOK'
  <2>1. needEventUpdate' \in BOOLEAN
    BY DEF Crossed
  <2>2. u' \in Inputs
    BY DEF PointInv, PlaceInv
  <2>3. initializeSolver' \in BOOLEAN
    OBVIOUS
  <2>4. ProblemTypeOK'
    BY <2>1, <2>2, <2>3
  <2>5. s' \in Statuses /\ pc' \in Places
    BY DEF Statuses, Places
  <2>6. SolverTypeOK'
    BY <2>5
  <2> QED BY <2>4, <2>6
<1>2. FlagInv'
  <2>1. initializeSolver' = TRUE
    OBVIOUS
  <2> QED BY <2>1 DEF FlagInv
<1>3. PointInv'
  BY DEF PointInv, InputAt
<1>4. MemInv'
  <2>1. initializeSolver' = TRUE
    OBVIOUS
  <2>2. pc' \in {"update", "return"}
    OBVIOUS
  <2> QED BY <2>1, <2>2 DEF MemInv
<1>5. PlaceInv' /\ TimeEventInv' /\ EndInv'
  BY DEF PlaceInv, TimeEventInv, EndInv
<1> QED
  BY <1>1, <1>2, <1>3, <1>4, <1>5

\* No restart is pending, or an event update will follow anyway.
LEMMA StartSkipsKeeps ==
    ASSUME StepInv, StartSkips, UNCHANGED csVars
    PROVE  StepInv'
<1> USE DEF StartSkips
<1>1. TypeOK'
  BY DEF Places
<1>2. PointInv'
  BY DEF PointInv, InputAt
<1>3. MemInv'
  BY DEF MemInv, Fits
<1>4. PlaceInv' /\ FlagInv' /\ TimeEventInv' /\ EndInv'
  BY DEF PlaceInv, FlagInv, TimeEventInv, EndInv
<1> QED
  BY <1>1, <1>2, <1>3, <1>4

\* The event update that was pending when jmi_ode_solver_solve began.
LEMMA StartUpdatesKeeps ==
    ASSUME StepInv, StartUpdates, UNCHANGED csVars
    PROVE  StepInv'
<1> USE DEF StartUpdates
<1>1. TypeOK'
  <2>1. sw' \in BOOLEAN /\ unsettled' \in BOOLEAN
    BY EventUpdateSwitch
  <2>2. x' \in States /\ states' \in States /\ fmuMode' \in FmuModes
    BY DEF FmuModes, EventUpdate, EventRefused, EventLeft, EventHandled
  <2>3. t' \in Times /\ nextTimeEvent' \in Times \cup {Never}
    BY MaxTimeAssumption DEF EventUpdate, EventRefused, EventLeft,
         EventHandled
  <2>4. time' \in Times /\ eventTime' \in Times \cup {Never} /\ u' \in Inputs
    BY <2>3 DEF EventUpdate, EventRefused, EventLeft, EventHandled
  <2>5. initializeSolver' \in BOOLEAN /\ needEventUpdate' \in BOOLEAN
    OBVIOUS
  <2>6. s' \in Statuses /\ pc' \in Places
    BY DEF Places
  <2>7. SolverTypeOK'
    BY <2>6
  <2> QED BY <2>1, <2>2, <2>3, <2>4, <2>5, <2>6, <2>7
<1>2. PlaceInv'
  BY DEF PlaceInv, EventUpdate, EventRefused, EventLeft, EventHandled
<1>3. FlagInv'
  BY DEF FlagInv, EventUpdate, EventHandled
<1>4. PointInv'
  BY DEF PointInv, InputAt, PlaceInv, EventUpdate, EventHandled
<1>5. MemInv'
  BY DEF MemInv, Fits, FlagInv
<1>6. TimeEventInv'
  BY DEF TimeEventInv, PlaceInv, PointInv, EventUpdate, EventRefused,
     EventLeft, EventHandled
<1>7. EndInv'
  BY DEF EndInv, NoLateEvent, PlaceInv, PointInv, TimeEventInv, EventUpdate,
     EventHandled
<1> QED
  BY <1>1, <1>2, <1>3, <1>4, <1>5, <1>6, <1>7

\* An integrator starts: CVODE's copy is renewed if the flag asks for it.
LEMMA IntegratesKeeps ==
    ASSUME StepInv, Integrates, UNCHANGED csVars
    PROVE  StepInv'
<1> USE DEF Integrates, CvodeStarts, EulerStarts, Evaluates, Place,
     NeedToInitialize, FinalIntegrationTime, Continues, NotFinished
<1>1. TypeOK'
  BY MaxTimeAssumption DEF PointInv, IndicatorAt, SignOf, Signs, Statuses,
     Places
<1>2. MemInv'
  BY DEF MemInv, Fits, InputAt, IndicatorAt, PlaceInv, PointInv
<1>3. TimeEventInv'
  BY DEF TimeEventInv, PlaceInv, PointInv
<1>4. PlaceInv' /\ FlagInv' /\ PointInv' /\ EndInv'
  BY DEF PlaceInv, FlagInv, PointInv, EndInv
<1> QED
  BY <1>1, <1>2, <1>3, <1>4

\* A step of CVODE, after which its copy and the problem agree unless a sign
\* changed.
LEMMA CvodeStepsKeeps ==
    ASSUME StepInv, CvodeSteps, UNCHANGED csVars
    PROVE  StepInv'
<1> USE DEF CvodeSteps, Place, StepCompletes, CvodeRoot
<1>1. TypeOK'
  BY MaxTimeAssumption, CourseAssumption DEF PointInv, MemInv, Fits, InputAt,
     IndicatorAt, SignOf, Signs, Statuses, Places
<1>2. FlagInv'
  BY DEF FlagInv, PlaceInv
<1>3. PointInv'
  BY DEF PointInv, Fits, PlaceInv, MemInv, TimeEventInv
<1>4. MemInv'
  BY DEF MemInv, Fits, InputAt, IndicatorAt
<1>5. PlaceInv' /\ TimeEventInv' /\ EndInv'
  BY DEF PlaceInv, TimeEventInv, EndInv
<1> QED
  BY <1>1, <1>2, <1>3, <1>4, <1>5

\* CVODE gives up with the FMU at a trial point; nothing is Sound until the
\* next reset.
LEMMA CvodeFailsKeeps ==
    ASSUME StepInv, CvodeFails, UNCHANGED csVars
    PROVE  StepInv'
<1> USE DEF CvodeFails, GivesUp, Place
<1>1. TypeOK'
  BY MaxTimeAssumption, CourseAssumption DEF PointInv, MemInv, Fits, InputAt,
     Statuses, Places
<1>2. PlaceInv' /\ FlagInv' /\ PointInv' /\ MemInv' /\ TimeEventInv' /\ EndInv'
  BY DEF PlaceInv, FlagInv, PointInv, MemInv, TimeEventInv, EndInv
<1> QED
  BY <1>1, <1>2

\* A step of Euler's method.
LEMMA EulerStepsKeeps ==
    ASSUME StepInv, EulerSteps, UNCHANGED csVars
    PROVE  StepInv'
<1> USE DEF EulerSteps, GivesUp, Place, StepCompletes
<1>1. TypeOK'
  BY EpsAssumption, MaxTimeAssumption, CourseAssumption DEF PointInv, InputAt,
     IndicatorAt, SignOf, Signs, Statuses, Places
<1>2. FlagInv'
  BY DEF FlagInv, PlaceInv
<1>3. PointInv'
  BY DEF PointInv, PlaceInv, TimeEventInv
<1>4. PlaceInv' /\ MemInv' /\ TimeEventInv' /\ EndInv'
  BY DEF PlaceInv, MemInv, TimeEventInv, EndInv
<1> QED
  BY <1>1, <1>2, <1>3, <1>4

\* Euler's method gives up where it stands.
LEMMA EulerFailsKeeps ==
    ASSUME StepInv, EulerFails, UNCHANGED csVars
    PROVE  StepInv'
<1> USE DEF EulerFails, GivesUp, Place
<1>1. TypeOK'
  BY MaxTimeAssumption, CourseAssumption DEF PointInv, InputAt, Statuses,
     Places
<1>2. PlaceInv' /\ FlagInv' /\ PointInv' /\ MemInv' /\ TimeEventInv' /\ EndInv'
  BY DEF PlaceInv, FlagInv, PointInv, MemInv, TimeEventInv, EndInv
<1> QED
  BY <1>1, <1>2

\* Euler's method has reached its stop time.
LEMMA EulerStandsKeeps ==
    ASSUME StepInv, EulerStands, UNCHANGED csVars
    PROVE  StepInv'
<1> USE DEF EulerStands, Place
<1>1. TypeOK'
  BY MaxTimeAssumption, CourseAssumption DEF PlaceInv, PointInv, InputAt,
     Places
<1>2. FlagInv'
  BY DEF FlagInv, PlaceInv
<1>3. PointInv'
  BY DEF PointInv, PlaceInv
<1>4. PlaceInv' /\ MemInv' /\ TimeEventInv' /\ EndInv'
  BY DEF PlaceInv, MemInv, TimeEventInv, EndInv
<1> QED
  BY <1>1, <1>2, <1>3, <1>4

\* The FMU is brought from wherever it was evaluated last to the point
\* reached.
LEMMA SolvedUpdatesKeeps ==
    ASSUME StepInv, SolvedUpdates, UNCHANGED csVars
    PROVE  StepInv'
<1> USE DEF SolvedUpdates, Evaluates, Place, NeedToInitialize, AtTimeEvent
<1>1. TypeOK'
  BY MaxTimeAssumption, CourseAssumption DEF PointInv, InputAt, Statuses,
     Places
<1>2. PointInv'
  BY DEF PointInv, InputAt
<1>3. MemInv'
  BY DEF MemInv, Fits
<1>4. EndInv'
  BY DEF EndInv, TimeEventInv
<1>5. PlaceInv' /\ FlagInv' /\ TimeEventInv'
  BY DEF PlaceInv, FlagInv, TimeEventInv
<1> QED
  BY <1>1, <1>2, <1>3, <1>4, <1>5

\* The integrator has failed.
LEMMA SolvedFailsKeeps ==
    ASSUME StepInv, SolvedFails, UNCHANGED csVars
    PROVE  StepInv'
<1> USE DEF SolvedFails
<1>1. TypeOK'
  <2>1. ProblemTypeOK'
    OBVIOUS
  <2>2. pc' \in Places
    BY DEF Places
  <2>3. SolverTypeOK'
    BY <2>2
  <2> QED BY <2>1, <2>3
<1>2. PlaceInv' /\ FlagInv' /\ PointInv' /\ MemInv' /\ TimeEventInv' /\ EndInv'
  BY DEF PlaceInv, FlagInv, PointInv, MemInv, TimeEventInv, EndInv
<1> QED
  BY <1>1, <1>2

\* The event update after an integrator: it always asks for a restart.
LEMMA EventUpdatesKeeps ==
    ASSUME StepInv, EventUpdates, UNCHANGED csVars
    PROVE  StepInv'
<1> USE DEF EventUpdates
<1>1. TypeOK'
  <2>1. sw' \in BOOLEAN /\ unsettled' \in BOOLEAN
    BY EventUpdateSwitch
  <2>2. x' \in States /\ states' \in States /\ fmuMode' \in FmuModes
    BY DEF FmuModes, EventUpdate, EventRefused, EventLeft, EventHandled
  <2>3. t' \in Times /\ nextTimeEvent' \in Times \cup {Never}
    BY MaxTimeAssumption DEF EventUpdate, EventRefused, EventLeft,
         EventHandled
  <2>4. time' \in Times /\ eventTime' \in Times \cup {Never} /\ u' \in Inputs
    BY <2>3 DEF EventUpdate, EventRefused, EventLeft, EventHandled
  <2>5. initializeSolver' \in BOOLEAN /\ needEventUpdate' \in BOOLEAN
    OBVIOUS
  <2>6. s' \in Statuses /\ pc' \in Places
    BY DEF Places
  <2>7. SolverTypeOK'
    BY <2>6
  <2> QED BY <2>1, <2>2, <2>3, <2>4, <2>5, <2>6, <2>7
<1>2. PlaceInv'
  BY DEF PlaceInv, EventUpdate, EventRefused, EventLeft, EventHandled
<1>3. FlagInv'
  BY DEF FlagInv, EventUpdate, EventHandled
<1>4. PointInv'
  BY DEF PointInv, InputAt, PlaceInv, EventUpdate, EventHandled
<1>5. TimeEventInv'
  BY DEF TimeEventInv, PlaceInv, PointInv, EventUpdate, EventRefused,
     EventLeft, EventHandled
<1>6. EndInv'
  BY DEF EndInv, PlaceInv, PointInv, EventUpdate, EventHandled
<1>7. MemInv'
  BY DEF MemInv
<1> QED
  BY <1>1, <1>2, <1>3, <1>4, <1>5, <1>6, <1>7

\* The loop is left; a time event at the final time becomes a pending update.
LEMMA FinishesKeeps ==
    ASSUME StepInv, Finishes, UNCHANGED csVars
    PROVE  StepInv'
<1> USE DEF Finishes, Evaluates, Place, NeedToInitialize, Continues,
     NotFinished
<1>1. TypeOK'
  BY MaxTimeAssumption, CourseAssumption DEF PointInv, InputAt, IndicatorAt,
     SignOf, Signs, Statuses, Places
<1>2. PointInv'
  BY EpsAssumption DEF PointInv, InputAt
<1>3. MemInv'
  BY DEF MemInv, Fits, InputAt
<1>4. EndInv'
  BY DEF EndInv, NoLateEvent, PlaceInv, PointInv
<1>5. PlaceInv' /\ FlagInv' /\ TimeEventInv'
  BY DEF PlaceInv, FlagInv, TimeEventInv
<1> QED
  BY <1>1, <1>2, <1>3, <1>4, <1>5

\* fmi2_setup_experiment moves the problem and the FMU together.
LEMMA SetupExperimentKeeps ==
    ASSUME StepInv, SetupExperiment
    PROVE  StepInv'
<1> USE DEF SetupExperiment, Calls, Fails
<1>1. TypeOK'
  BY DEF Answers
<1>2. PointInv'
  BY DEF PointInv, PlaceInv
<1>3. EndInv'
  BY MaxTimeAssumption DEF EndInv, TimeEventInv
<1>4. PlaceInv' /\ FlagInv' /\ MemInv' /\ TimeEventInv'
  BY DEF PlaceInv, FlagInv, MemInv, TimeEventInv
<1> QED
  BY <1>1, <1>2, <1>3, <1>4

\* jmi_initialize, with a new solver at the states it found.
LEMMA EnterInitializationKeeps ==
    ASSUME StepInv, EnterInitialization
    PROVE  StepInv'
<1> USE DEF EnterInitialization, Calls
<1>1. TypeOK'
  <2>1. sw' \in BOOLEAN
    OBVIOUS
  <2>2. fmuMode' \in FmuModes
    BY DEF FmuModes
  <2>3. ProblemTypeOK'
    BY <2>1, <2>2
  <2>4. mem' \in [time : Times, states : States, sign : Signs] /\ previous'
         \in Signs
    BY DEF Signs
  <2>5. SolverTypeOK'
    BY <2>4
  <2> QED BY <2>3, <2>5
<1>2. EndInv'
  BY MaxTimeAssumption DEF EndInv, TimeEventInv
<1>3. PlaceInv' /\ FlagInv' /\ PointInv' /\ MemInv' /\ TimeEventInv'
  BY DEF PlaceInv, FlagInv, PointInv, MemInv, TimeEventInv
<1> QED
  BY <1>1, <1>2, <1>3

\* A failed initialization leaves the FMU where only a reset helps.
LEMMA InitializationFailsKeeps ==
    ASSUME StepInv, InitializationFails
    PROVE  StepInv'
<1> USE DEF InitializationFails, Calls, Fails
<1>1. TypeOK'
  BY DEF Answers
<1>2. PlaceInv' /\ FlagInv' /\ PointInv' /\ MemInv' /\ TimeEventInv' /\ EndInv'
  BY DEF PlaceInv, FlagInv, PointInv, MemInv, TimeEventInv, EndInv
<1> QED
  BY <1>1, <1>2

\* The end of the initialization is an external event.
LEMMA ExitInitializationKeeps ==
    ASSUME StepInv, ExitInitialization
    PROVE  StepInv'
<1> USE DEF ExitInitialization, Calls, ExternalEvent
<1>1. TypeOK'
  BY DEF FmuModes
<1>2. TimeEventInv'
  BY MaxTimeAssumption DEF TimeEventInv
<1>3. PlaceInv' /\ FlagInv' /\ PointInv' /\ MemInv' /\ EndInv'
  BY DEF PlaceInv, FlagInv, PointInv, MemInv, EndInv
<1> QED
  BY <1>1, <1>2, <1>3

\* A real input that changes between two steps raises the restart flag.
LEMMA SetInputKeeps ==
    ASSUME StepInv, NEW v \in Inputs, SetInput(v)
    PROVE  StepInv'
<1> USE DEF SetInput, Calls, NeedToInitialize
<1>1. TypeOK'
  OBVIOUS
<1>2. MemInv'
  BY DEF MemInv, Fits, PlaceInv
<1>3. PlaceInv' /\ FlagInv' /\ PointInv' /\ TimeEventInv' /\ EndInv'
  BY DEF PlaceInv, FlagInv, PointInv, TimeEventInv, EndInv
<1> QED
  BY <1>1, <1>2, <1>3

\* A discrete input raises both flags.
LEMMA SetDiscreteInputKeeps ==
    ASSUME StepInv, SetDiscreteInput
    PROVE  StepInv'
<1> USE DEF SetDiscreteInput, Calls, ExternalEvent
<1>1. TypeOK'
  <2>1. /\ initializeSolver' \in BOOLEAN /\ needEventUpdate' \in BOOLEAN
        /\ unsettled' \in BOOLEAN
    OBVIOUS
  <2>2. ProblemTypeOK'
    BY <2>1
  <2>3. SolverTypeOK'
    OBVIOUS
  <2> QED BY <2>2, <2>3
<1>2. MemInv'
  BY DEF MemInv, PlaceInv
<1>3. PlaceInv' /\ FlagInv' /\ PointInv' /\ TimeEventInv' /\ EndInv'
  BY DEF PlaceInv, FlagInv, PointInv, TimeEventInv, EndInv
<1> QED
  BY <1>1, <1>2, <1>3

\* A slot becomes active; the solver does not look at it before the next
\* step.
LEMMA SetInputDerivativeKeeps ==
    ASSUME StepInv, NEW r \in Rates, SetInputDerivative(r)
    PROVE  StepInv'
<1> USE DEF SetInputDerivative, Calls
<1>1. TypeOK'
  BY MaxTimeAssumption, InputsAssumption
<1>2. MemInv'
  BY DEF MemInv, Fits
<1>3. PlaceInv' /\ FlagInv' /\ PointInv' /\ TimeEventInv' /\ EndInv'
  BY DEF PlaceInv, FlagInv, PointInv, TimeEventInv, EndInv
<1> QED
  BY <1>1, <1>2, <1>3

\* A step that is refused changes nothing but the answer.
LEMMA DoStepRefusedKeeps ==
    ASSUME StepInv, DoStepRefused
    PROVE  StepInv'
<1> USE DEF DoStepRefused, Calls, Refused
<1>1. TypeOK'
  BY DEF Answers
<1>2. PlaceInv' /\ FlagInv' /\ PointInv' /\ MemInv' /\ TimeEventInv' /\ EndInv'
  BY DEF PlaceInv, FlagInv, PointInv, MemInv, TimeEventInv, EndInv
<1> QED
  BY <1>1, <1>2

\* A step begins: an active input goes on from its value in the FMU.
LEMMA DoStepKeeps ==
    ASSUME StepInv, DoStep
    PROVE  StepInv'
<1> USE DEF DoStep, Calls, Refused, ActivateInput
<1>1. TypeOK'
  BY DEF Statuses, Places
<1>2. PointInv'
  BY CourseAssumption DEF PointInv, InputAt
<1>3. MemInv'
  BY DEF MemInv, Fits
<1>4. PlaceInv' /\ FlagInv' /\ TimeEventInv' /\ EndInv'
  BY DEF PlaceInv, FlagInv, TimeEventInv, EndInv
<1> QED
  BY <1>1, <1>2, <1>3, <1>4

\* A step fails before it has begun.
LEMMA DoStepInputFailsKeeps ==
    ASSUME StepInv, DoStepInputFails
    PROVE  StepInv'
<1> USE DEF DoStepInputFails, Calls, Refused
<1>1. TypeOK'
  BY DEF Answers
<1>2. PlaceInv' /\ FlagInv' /\ PointInv' /\ MemInv' /\ TimeEventInv' /\ EndInv'
  BY DEF PlaceInv, FlagInv, PointInv, MemInv, TimeEventInv, EndInv
<1> QED
  BY <1>1, <1>2

\* A step returns, and its inputs are no longer extrapolated if it succeeded.
LEMMA DoStepReturnsKeeps ==
    ASSUME StepInv, DoStepReturns
    PROVE  StepInv'
<1>0. /\ pc = "return" /\ pc' = "idle"
      /\ UNCHANGED <<fmuVars, problemVars, tn, base, rate, flagVars, previous, mem,
                      final, target, s, stopTime, hasSolver, setUp>>
      /\ \/ s = "ok" /\ answer' = "ok" /\ active' = FALSE /\ point' = final
         \/ /\ s # "ok" /\ answer' \in {"error", "discard"}
            /\ active' = active /\ point' = point
  BY DoStepReturnsCases
<1>1. TypeOK'
  <2>1. active' \in BOOLEAN /\ point' \in Times /\ answer' \in Answers
    BY <1>0 DEF Answers
  <2>2. pc' \in Places
    BY <1>0 DEF Places
  <2>3. ProblemTypeOK'
    BY <1>0, <2>1
  <2>4. SolverTypeOK'
    BY <1>0, <2>2
  <2> QED BY <1>0, <2>1, <2>3, <2>4
<1>2. PointInv'
  BY <1>0 DEF PointInv, PlaceInv
<1>3. MemInv'
  BY <1>0 DEF MemInv, Fits
<1>4. PlaceInv' /\ FlagInv' /\ TimeEventInv' /\ EndInv'
  BY <1>0 DEF PlaceInv, FlagInv, TimeEventInv, EndInv
<1> QED
  BY <1>1, <1>2, <1>3, <1>4

\* fmi2_reset clears everything but the time of the problem.
LEMMA ResetKeeps ==
    ASSUME StepInv, Reset
    PROVE  StepInv'
<1> USE DEF Reset
<1>1. TypeOK'
  <2>1. fmuMode' \in FmuModes
    BY DEF FmuModes
  <2>2. 0 \in Times /\ 0 \in Signs
    BY MaxTimeAssumption DEF Signs
  <2>3. ProblemTypeOK'
    BY <2>1, <2>2, StatesAssumption, InputsAssumption, RatesAssumption
  <2>4. mem' \in [time : Times, states : States, sign : Signs]
    BY <2>2, StatesAssumption
  <2>5. s' \in Statuses /\ pc' \in Places
    BY DEF Statuses
  <2>6. SolverTypeOK'
    BY <2>2, <2>4, <2>5
  <2>7. answer' \in Answers
    BY DEF Answers
  <2> QED BY <2>2, <2>3, <2>6, <2>7
<1>2. EndInv'
  BY MaxTimeAssumption DEF EndInv
<1>3. PlaceInv' /\ FlagInv' /\ PointInv' /\ MemInv' /\ TimeEventInv'
  BY DEF PlaceInv, FlagInv, PointInv, MemInv, TimeEventInv
<1> QED
  BY <1>1, <1>2, <1>3
-----------------------------------------------------------------------------
\* The instantiated FMU: CVODE is not set up and nothing has failed.
LEMMA InitSatisfies == Init => StepInv
<1> SUFFICES ASSUME Init PROVE StepInv
  OBVIOUS
<1> USE DEF Init
<1>1. ProblemTypeOK
  <2>1. fmuMode \in FmuModes
    BY DEF FmuModes
  <2>2. sw \in BOOLEAN /\ unsettled \in BOOLEAN /\ active \in BOOLEAN
    OBVIOUS
  <2>3. initializeSolver \in BOOLEAN /\ needEventUpdate \in BOOLEAN
    OBVIOUS
  <2> QED
    BY <2>1, <2>2, <2>3, StatesAssumption, InputsAssumption, RatesAssumption,
       MaxTimeAssumption
<1>2. SolverTypeOK
  BY StatesAssumption, MaxTimeAssumption DEF Signs, Statuses, Places
<1>3. TypeOK
  BY <1>1, <1>2, MaxTimeAssumption DEF Answers
<1>4. PlaceInv /\ FlagInv /\ PointInv
  BY MaxTimeAssumption DEF PlaceInv, FlagInv, PointInv
<1>5. MemInv /\ TimeEventInv /\ EndInv
  BY MaxTimeAssumption DEF MemInv, TimeEventInv, EndInv
<1> QED
  BY <1>3, <1>4, <1>5

\* A step of the solver.
LEMMA SolveKeeps ==
    ASSUME StepInv, Solve
    PROVE  StepInv'
<1> HIDE DEF StepInv
<1> SUFFICES ASSUME SolverStep, UNCHANGED csVars PROVE StepInv'
  BY DEF Solve
<1>1. CASE StartChecks \/ StartSkips \/ StartUpdates
  BY <1>1, StartChecksKeeps, StartSkipsKeeps, StartUpdatesKeeps
<1>2. CASE Integrates \/ CvodeSteps \/ CvodeFails
  BY <1>2, IntegratesKeeps, CvodeStepsKeeps, CvodeFailsKeeps
<1>3. CASE EulerSteps \/ EulerFails \/ EulerStands
  BY <1>3, EulerStepsKeeps, EulerFailsKeeps, EulerStandsKeeps
<1>4. CASE SolvedUpdates \/ SolvedFails \/ EventUpdates \/ Finishes
  BY <1>4, SolvedUpdatesKeeps, SolvedFailsKeeps, EventUpdatesKeeps, FinishesKeeps
<1> QED
  BY <1>1, <1>2, <1>3, <1>4 DEF SolverStep

\* A step that changes nothing.
LEMMA StutterKeeps ==
    ASSUME StepInv, UNCHANGED vars
    PROVE  StepInv'
<1> USE DEF vars
<1>1. TypeOK' /\ PlaceInv' /\ FlagInv'
  BY DEF PlaceInv, FlagInv
<1>2. PointInv' /\ MemInv'
  BY DEF PointInv, MemInv, Fits, InputAt
<1>3. TimeEventInv' /\ EndInv'
  BY DEF TimeEventInv, EndInv
<1> QED
  BY <1>1, <1>2, <1>3

\* StepInv is inductive.
LEMMA NextKeeps == StepInv /\ [Next]_vars => StepInv'
<1> HIDE DEF StepInv
<1> SUFFICES ASSUME StepInv, [Next]_vars PROVE StepInv'
  OBVIOUS
<1>1. CASE SetupExperiment \/ EnterInitialization \/ InitializationFails
           \/ ExitInitialization
  BY <1>1, SetupExperimentKeeps, EnterInitializationKeeps,
     InitializationFailsKeeps, ExitInitializationKeeps
<1>2. CASE \/ \E v \in Inputs : SetInput(v)
           \/ SetDiscreteInput
           \/ \E r \in Rates : SetInputDerivative(r)
  BY <1>2, SetInputKeeps, SetDiscreteInputKeeps, SetInputDerivativeKeeps
<1>3. CASE DoStep \/ DoStepRefused \/ DoStepInputFails
  BY <1>3, DoStepKeeps, DoStepRefusedKeeps, DoStepInputFailsKeeps
<1>4. CASE Solve \/ DoStepReturns \/ Reset
  BY <1>4, SolveKeeps, DoStepReturnsKeeps, ResetKeeps
<1>5. CASE UNCHANGED vars
  BY <1>5, StutterKeeps
<1> QED
  BY <1>1, <1>2, <1>3, <1>4, <1>5 DEF Next
-----------------------------------------------------------------------------
HIDE DEF StepInv, TypeOK, ProblemTypeOK, SolverTypeOK, Sound, Times, Never,
         fmuVars, problemVars, inputVars, flagVars, solverVars, csVars

\* The FMU, the problem and CVODE's copy agree at each place as StepInv says,
\* whatever the master calls and wherever the integrators go.
THEOREM StepInvariant == Spec => []StepInv
  BY InitSatisfies, NextKeeps, PTL DEF Spec

\* Every field keeps its type.
THEOREM StepTypeCorrect == Spec => []TypeOK
<1>1. StepInv => TypeOK
  BY DEF StepInv
<1> QED
  BY <1>1, StepInvariant, PTL

\* A call of fmi2_do_step that answers fmi2OK leaves the FMU in continuous time, at
\* the point the solver holds, within the tolerance of the communication point.
THEOREM StepIsReached == Spec => []StepReached
<1>1. StepInv => StepReached
  <2> SUFFICES ASSUME StepInv, pc = "idle", answer = "ok"
               PROVE  /\ fmuMode = "continuous" /\ t = time /\ x = states
                      /\ time <= point /\ point <= time + Eps
    BY DEF StepReached
  <2>1. Sound /\ fmuMode = "continuous"
    BY DEF StepInv, PlaceInv, Sound
  <2> QED
    BY <2>1 DEF StepInv, PointInv
<1> QED
  BY <1>1, StepInvariant, PTL

\* Every event update of the solver sees the FMU at the point it stopped at.
THEOREM EventsAreAtTheirPoint == Spec => []EventAtItsPoint
<1>1. StepInv => EventAtItsPoint
  <2> SUFFICES ASSUME StepInv, pc \in {"event", "update"}
               PROVE  t = time /\ x = states /\ u = InputAt(time)
    BY DEF EventAtItsPoint
  <2>1. Sound /\ fmuMode = "continuous"
    BY DEF StepInv, PlaceInv, Sound
  <2> QED
    BY <2>1 DEF StepInv, PointInv
<1> QED
  BY <1>1, StepInvariant, PTL

\* CVODE never takes a step from a copy that an event, an input or the master has
\* made stale: whatever changed the problem has restarted it.
THEOREM CvodeIsCurrent == Spec => []IntegratorCurrent
<1>1. StepInv => IntegratorCurrent
  BY DEF StepInv, MemInv, Fits, IndicatorAt, IntegratorCurrent
<1> QED
  BY <1>1, StepInvariant, PTL

\* The integration stops at every time event of the model; one that falls on the
\* end of a step is pending when the step returns, if the model asks for no time
\* event at the present time or the tolerance of the final time is 0.
THEOREM TimeEventsAreMet == ASSUME NoLateEvent PROVE Spec => []NoTimeEventPassed
<1>1. StepInv => NoTimeEventPassed
  <2> SUFFICES ASSUME StepInv, fmuMode = "continuous"
               PROVE  /\ time <= eventTime
                      /\ pc = "idle" /\ answer = "ok" /\ time = eventTime
                         => needEventUpdate
    BY DEF NoTimeEventPassed
  <2>1. time <= eventTime
    BY DEF StepInv, TimeEventInv
  <2>2. ASSUME pc = "idle", answer = "ok", time = eventTime PROVE needEventUpdate
    BY <2>2, NoLateEvent DEF StepInv, EndInv, Sound
  <2> QED
    BY <2>1, <2>2
<1> QED
  BY <1>1, StepInvariant, PTL
-----------------------------------------------------------------------------
(***************************************************************************)
(* Switches.  No sign change of the event indicator is lost in a step, if  *)
(* no point of the relation lies exactly on an edge of the hysteresis and  *)
(* the solver is restarted for inputs that change.                         *)
(*                                                                         *)
(* The switch may stand against the indicator only while a flag, or the    *)
(* sign the solver compares with, still shows it: SwitchInv.               *)
(***************************************************************************)
\* no point of the relation is 0 or on the far edge of its hysteresis
ZeroFree == \A p \in States \X Inputs : Relation[p] \notin {0, -EventEps}

\* a sign that the switch stands for
Agrees(sign) == (sign > 0) <=> (sw = TRUE)

\* the switch stands for the indicator, seen with the input v
Settled(v) == Agrees(SignOf(Indicator(states, v, sw)))

\* the switch is settled wherever no flag says that it may not be
SwitchInv ==
    Sound /\ fmuMode = "continuous" =>
        /\ pc \in {"idle", "start"} /\ ~initializeSolver => Settled(u)
        /\ pc \in {"idle", "start"} /\ ~needEventUpdate =>
              previous # 0 /\ Agrees(previous)
        /\ pc = "update" /\ ~needEventUpdate => Settled(u)
        /\ pc \in {"loop", "return"} => Settled(u)
        /\ pc = "return" => previous # 0 /\ Agrees(previous)
        /\ pc = "stepping" \/ (pc = "solved" /\ s = "ok") => Settled(InputAt(time))
        /\ pc = "stepping" /\ Method = "euler" => previous # 0 /\ Agrees(previous)

\* the assumptions of the theorems below
Transversal == ZeroFree /\ ~NoReinit
-----------------------------------------------------------------------------
\* Off the edges of the hysteresis an indicator has a sign, and a switch keeps its
\* value at an event exactly if it stands for that sign.
LEMMA ZeroFreeSign ==
    ASSUME ZeroFree, NEW y \in States, NEW v \in Inputs, NEW on \in BOOLEAN
    PROVE  /\ SignOf(Indicator(y, v, on)) \in {-1, 1}
           /\ Turned(y, v, on) \in BOOLEAN
           /\ Turned(y, v, on) <=> SignOf(Indicator(y, v, on)) > 0
<1> DEFINE n == Indicator(y, v, on)
<1>1. Relation[<<y, v>>] \in Int \ {0, -EventEps}
  BY RelationAssumption DEF ZeroFree
<1>2. n \in Int /\ n # 0
  <2>1. CASE on
    BY <1>1, <2>1, EventEpsAssumption DEF Indicator
  <2>2. CASE ~on
    BY <1>1, <2>2 DEF Indicator
  <2> QED
    BY <2>1, <2>2
<1>3. Turned(y, v, on) \in BOOLEAN
  <2>1. CASE on
    <3>1. Turned(y, v, on) = (n > 0)
      BY <2>1 DEF Turned
    <3> QED
      BY <3>1, <1>2
  <2>2. CASE ~on
    <3>1. Turned(y, v, on) = (n >= 0)
      BY <2>2 DEF Turned
    <3> QED
      BY <3>1, <1>2
  <2> QED
    BY <2>1, <2>2
<1>4. Turned(y, v, on) <=> n > 0
  BY <1>2 DEF Turned
<1> HIDE DEF n
<1>5. SignOf(n) = IF n > 0 THEN 1 ELSE -1
  BY <1>2 DEF SignOf
<1> QED
  BY <1>2, <1>3, <1>4, <1>5 DEF n

\* The sign of the indicator at any point is -1 or 1.
LEMMA PointSign ==
    ASSUME ZeroFree, TypeOK, NEW y \in States, NEW v \in Inputs
    PROVE  SignOf(Indicator(y, v, sw)) \in {-1, 1}
<1>1. sw \in BOOLEAN
  BY DEF TypeOK, ProblemTypeOK
<1> QED
  BY <1>1, ZeroFreeSign

\* A settled switch is one an event would leave as it is.
LEMMA SettledIsTurned ==
    ASSUME ZeroFree, TypeOK, NEW v \in Inputs, Settled(v)
    PROVE  Turned(states, v, sw) = sw
<1>1. sw \in BOOLEAN /\ states \in States
  BY DEF TypeOK, ProblemTypeOK
<1>2. Turned(states, v, sw) \in BOOLEAN
  BY <1>1, ZeroFreeSign
<1>3. Turned(states, v, sw) <=> SignOf(Indicator(states, v, sw)) > 0
  BY <1>1, ZeroFreeSign
<1>4. Turned(states, v, sw) <=> sw
  BY <1>1, <1>3 DEF Settled, Agrees
<1> QED
  BY <1>1, <1>2, <1>4

\* An event leaves the switch settled at the states and input it ended with.
LEMMA EventSettles ==
    ASSUME ZeroFree, TypeOK, TypeOK', EventHandled
    PROVE  Settled(u)'
<1>1. sw' \in BOOLEAN /\ x' \in States /\ u \in Inputs /\ u' = u /\ states' = x'
  BY DEF EventHandled, TypeOK, ProblemTypeOK
<1>2. Turned(x', u, sw') = sw'
  BY DEF EventHandled
<1>3. Turned(x', u, sw') <=> SignOf(Indicator(x', u, sw')) > 0
  BY <1>1, ZeroFreeSign
<1>4. SignOf(Indicator(x', u, sw')) > 0 <=> sw' = TRUE
  BY <1>1, <1>2, <1>3
<1> QED
  BY <1>1, <1>4 DEF Settled, Agrees
-----------------------------------------------------------------------------
\* The input at a time that is not before its slot's is an input.
LEMMA InputIsTyped ==
    ASSUME TypeOK, NEW at \in Times, active => tn <= at
    PROVE  InputAt(at) \in Inputs
<1>1. CASE active
  BY <1>1, CourseAssumption, MaxTimeAssumption DEF InputAt, TypeOK,
     ProblemTypeOK, Times
<1>2. CASE ~active
  BY <1>2 DEF InputAt, TypeOK, ProblemTypeOK
<1> QED
  BY <1>1, <1>2

\* A sign change that the check finds becomes a pending event update.
LEMMA StartChecksSettled ==
    ASSUME Transversal, StepInv, SwitchInv, StartChecks, UNCHANGED csVars
    PROVE  SwitchInv'
<1> SUFFICES ASSUME Sound', fmuMode' = "continuous"
             PROVE  pc' = "update" /\ (~needEventUpdate' => Settled(u)')
  BY DEF SwitchInv
<1> DEFINE sign == IndicatorAt(time, states)
<1>1. /\ s = "ok" /\ pc = "start" /\ pc' = "update"
      /\ needEventUpdate' = Crossed(sign, previous)
      /\ states' = states /\ sw' = sw /\ fmuMode = "continuous"
      /\ u' = InputAt(time)
  BY DEF StartChecks, Evaluates, Place, StepInv, PlaceInv, Sound, problemVars
<1>2. previous # 0 /\ Agrees(previous)
  BY <1>1 DEF SwitchInv, Sound, StartChecks
<1>3. u' = u /\ u \in Inputs /\ states \in States /\ previous \in Signs
  BY <1>1 DEF StepInv, PointInv, Sound, TypeOK, ProblemTypeOK, SolverTypeOK
<1>4. sign = SignOf(Indicator(states, u, sw)) /\ sign \in {-1, 1}
  BY <1>1, <1>3, PointSign DEF IndicatorAt, Transversal, StepInv
<1>5. ASSUME ~needEventUpdate' PROVE sign > 0 <=> previous > 0
  <2>1. ~Crossed(sign, previous)
    BY <1>1, <1>5
  <2> HIDE DEF sign
  <2>2. (sign >= 0) = (previous >= 0)
    BY <2>1 DEF Crossed
  <2> QED
    BY <1>2, <1>3, <1>4, <2>2 DEF Signs
<1>6. ASSUME ~needEventUpdate' PROVE Settled(u)'
  BY <1>1, <1>2, <1>3, <1>4, <1>5, <1>6 DEF Settled, Agrees
<1> QED
  BY <1>1, <1>6

\* Either the pending update settles the switch, or it was settled.
LEMMA StartUpdatesSettled ==
    ASSUME Transversal, StepInv, StepInv', SwitchInv, StartUpdates, UNCHANGED csVars
    PROVE  SwitchInv'
<1> SUFFICES ASSUME Sound', fmuMode' = "continuous" PROVE Settled(u)'
  BY DEF StartUpdates, SwitchInv
<1>1. pc = "update" /\ pc' = "loop" /\ s = "ok"
  BY DEF StartUpdates, StepInv, PlaceInv
<1>2. s' \in {"ok", "event"}
  BY <1>1 DEF Sound
<1>3. CASE needEventUpdate
  <2>1. EventHandled
    BY <1>2, <1>3 DEF StartUpdates, EventUpdate
  <2> QED
    BY <2>1, EventSettles DEF Transversal, StepInv
<1>4. CASE ~needEventUpdate
  <2>1. UNCHANGED <<fmuVars, problemVars>>
    BY <1>4 DEF StartUpdates
  <2> QED
    BY <1>1, <1>4, <2>1 DEF SwitchInv, Sound, Settled, Agrees, fmuVars,
       problemVars
<1> QED
  BY <1>3, <1>4

\* Euler's method begins with the sign the switch stands for.
LEMMA IntegratesSettled ==
    ASSUME Transversal, StepInv, SwitchInv, Integrates, UNCHANGED csVars
    PROVE  SwitchInv'
<1> SUFFICES ASSUME Sound', fmuMode' = "continuous"
             PROVE  /\ pc' = "stepping"
                    /\ Settled(InputAt(time))'
                    /\ Method = "euler" => previous' # 0 /\ Agrees(previous)'
  BY DEF SwitchInv
<1>1. pc = "loop" /\ s = "ok"
  BY DEF Integrates, Continues
<1>2. /\ pc' = "stepping" /\ sw' = sw /\ fmuMode = "continuous"
      /\ Method = "euler" => previous' = IndicatorAt(time, states) /\ u' = InputAt(time)
      /\ Method # "euler" => u' = u
  BY <1>1 DEF Integrates, CvodeStarts, EulerStarts, Evaluates, Place,
     Sound, fmuVars
<1>3. Settled(u) /\ u = InputAt(time)
  BY <1>1, <1>2 DEF SwitchInv, Sound, StepInv, PointInv
<1>4. states' = states /\ InputAt(time)' = InputAt(time)
  BY <1>2, <1>3 DEF Integrates, InputAt, problemVars, inputVars
<1>5. Settled(InputAt(time))'
  BY <1>2, <1>3, <1>4 DEF Settled, Agrees
<1>6. IndicatorAt(time, states) \in {-1, 1} /\ Agrees(IndicatorAt(time, states))
  BY <1>3, PointSign DEF IndicatorAt, Settled, Transversal, StepInv,
     TypeOK, ProblemTypeOK
<1> QED
  BY <1>2, <1>5, <1>6 DEF Agrees

\* If CVODE finds no root, the sign at the end of its step is the one at its start,
\* which is the one the switch stands for.
LEMMA CvodeStepsSettled ==
    ASSUME Transversal, StepInv, StepInv', SwitchInv, CvodeSteps, UNCHANGED csVars
    PROVE  SwitchInv'
<1> SUFFICES ASSUME Sound', s' = "ok" PROVE Settled(InputAt(time))'
  BY DEF CvodeSteps, StepCompletes, SwitchInv
<1>1. Method = "cvode" /\ pc = "stepping" /\ s = "ok" /\ fmuMode = "continuous"
  BY DEF CvodeSteps, StepInv, PlaceInv, Sound
<1>2. /\ Settled(InputAt(time))
      /\ SignOf(Indicator(states, InputAt(time), sw)) \in {0, mem.sign}
  BY <1>1 DEF SwitchInv, Sound, StepInv, MemInv, Fits, Transversal
<1>3. PICK at \in mem.time + 1 .. target, y \in States :
          /\ time' = at /\ states' = y
          /\ ~CvodeRoot(mem.sign, IndicatorAt(at, y))
  BY DEF CvodeSteps, StepCompletes
<1>4. InputAt(time) \in Inputs /\ InputAt(at) \in Inputs
  <2>1. TypeOK /\ time \in Times /\ target \in Times /\ (active => tn <= time)
    BY <1>1 DEF StepInv, PointInv, TypeOK, ProblemTypeOK, SolverTypeOK
  <2>2. mem.time = time
    BY <1>1 DEF StepInv, MemInv, Fits
  <2>3. at \in Times /\ time <= at /\ (active => tn <= at)
    BY <1>3, <2>1, <2>2, MaxTimeAssumption DEF Times, TypeOK, ProblemTypeOK
  <2> QED
    BY <2>1, <2>3, InputIsTyped
<1>5. mem.sign \in {-1, 1} /\ Agrees(mem.sign)
  BY <1>2, <1>4, PointSign DEF Settled, Transversal, StepInv, TypeOK,
     ProblemTypeOK
<1>6. IndicatorAt(at, y) \in {-1, 1}
  BY <1>4, PointSign DEF IndicatorAt, Transversal, StepInv
<1>7. IndicatorAt(at, y) = mem.sign
  BY <1>3, <1>5, <1>6 DEF CvodeRoot
<1>8. sw' = sw /\ InputAt(time)' = InputAt(at)
  BY <1>3 DEF CvodeSteps, Place, InputAt, inputVars
<1> QED
  BY <1>3, <1>5, <1>7, <1>8 DEF Settled, Agrees, IndicatorAt

\* Euler's method compares the two signs itself; it goes on only if they agree.
LEMMA EulerStepsSettled ==
    ASSUME Transversal, StepInv, StepInv', SwitchInv, EulerSteps, UNCHANGED csVars
    PROVE  SwitchInv'
<1> SUFFICES ASSUME s' = "ok"
             PROVE  /\ pc' = "stepping" /\ Settled(InputAt(time))'
                    /\ previous' # 0 /\ Agrees(previous)'
  BY DEF EulerSteps, StepCompletes, GivesUp, SwitchInv
<1>1. Method = "euler" /\ pc = "stepping" /\ s = "ok" /\ fmuMode = "continuous"
  BY DEF EulerSteps, StepInv, PlaceInv, Sound
<1>2. previous # 0 /\ Agrees(previous) /\ previous \in Signs
  BY <1>1 DEF SwitchInv, Sound, StepInv, TypeOK, SolverTypeOK
<1>3. PICK at \in time + 1 .. target, y \in States :
          /\ time' = at /\ states' = y
          /\ previous' = IndicatorAt(at, y)
          /\ ~(previous * previous' < 0) /\ pc' = "stepping"
  BY DEF EulerSteps, GivesUp, StepCompletes
<1>4. InputAt(at) \in Inputs
  <2>1. TypeOK /\ time \in Times /\ target \in Times /\ (active => tn <= time)
    BY <1>1 DEF StepInv, PointInv, TypeOK, ProblemTypeOK, SolverTypeOK
  <2>2. at \in Times /\ time <= at /\ (active => tn <= at)
    BY <1>3, <2>1, MaxTimeAssumption DEF Times, TypeOK, ProblemTypeOK
  <2> QED
    BY <2>1, <2>2, InputIsTyped
<1>5. IndicatorAt(at, y) \in {-1, 1}
  BY <1>4, PointSign DEF IndicatorAt, Transversal, StepInv
<1>6. previous' = previous
  BY <1>2, <1>3, <1>5 DEF Signs
<1>7. sw' = sw /\ InputAt(time)' = InputAt(at)
  BY <1>3 DEF EulerSteps, Place, GivesUp, InputAt, inputVars
<1> QED
  BY <1>2, <1>3, <1>6, <1>7 DEF Settled, Agrees, IndicatorAt

\* The event update after an integrator settles the switch.
LEMMA EventUpdatesSettled ==
    ASSUME Transversal, StepInv, StepInv', SwitchInv, EventUpdates, UNCHANGED csVars
    PROVE  SwitchInv'
<1> SUFFICES ASSUME Sound' PROVE Settled(u)'
  BY DEF EventUpdates, SwitchInv
<1>1. EventHandled
  BY DEF EventUpdates, EventUpdate, Sound
<1> QED
  BY <1>1, EventSettles DEF Transversal, StepInv

\* The last root_func keeps the sign of a settled switch.
LEMMA FinishesSettled ==
    ASSUME Transversal, StepInv, SwitchInv, Finishes, UNCHANGED csVars
    PROVE  SwitchInv'
<1> SUFFICES ASSUME Sound'
             PROVE  Settled(u)' /\ previous' # 0 /\ Agrees(previous)'
  BY DEF Finishes, SwitchInv
<1>1. /\ pc = "loop" /\ s = "ok" /\ s' = "ok" /\ fmuMode = "continuous"
      /\ previous' = IndicatorAt(time, states)
      /\ u' = InputAt(time) /\ sw' = sw /\ states' = states
  BY DEF Finishes, Evaluates, Place, Sound, StepInv, PlaceInv, problemVars
<1>2. Settled(u) /\ u = InputAt(time)
  BY <1>1 DEF SwitchInv, Sound, StepInv, PointInv
<1>3. IndicatorAt(time, states) \in {-1, 1}
  BY <1>2, PointSign DEF IndicatorAt, Transversal, StepInv, TypeOK,
     ProblemTypeOK
<1> QED
  BY <1>1, <1>2, <1>3 DEF Settled, Agrees, IndicatorAt

\* What holds when the solver returns fmi2OK holds until the next step.
LEMMA DoStepReturnsSettled ==
    ASSUME Transversal, StepInv, SwitchInv, DoStepReturns
    PROVE  SwitchInv'
<1>1. /\ pc = "return" /\ pc' = "idle"
      /\ UNCHANGED <<fmuVars, problemVars, flagVars, previous, s>>
      /\ answer' = "ok" => s = "ok"
      /\ answer' \in {"ok", "error", "discard"}
  BY DoStepReturnsCases DEF StepInv
<1> SUFFICES ASSUME Sound', fmuMode' = "continuous"
             PROVE  Settled(u)' /\ previous' # 0 /\ Agrees(previous)'
  BY <1>1 DEF SwitchInv
<1>2. s = "ok" /\ fmuMode = "continuous"
  BY <1>1 DEF Sound, fmuVars
<1>3. Settled(u) /\ previous # 0 /\ Agrees(previous)
  BY <1>1, <1>2 DEF SwitchInv, Sound
<1> QED
  BY <1>1, <1>3 DEF Settled, Agrees, fmuVars, problemVars

\* Without a pending restart nothing has moved the switch or the indicator.
LEMMA StartSkipsSettled ==
    ASSUME Transversal, StepInv, SwitchInv, StartSkips, UNCHANGED csVars
    PROVE  SwitchInv'
  BY DEF SwitchInv, Settled, Agrees, StartSkips, Sound, fmuVars,
     problemVars, flagVars

\* A failed integrator promises nothing.
LEMMA CvodeFailsSettled ==
    ASSUME Transversal, StepInv, SwitchInv, CvodeFails, UNCHANGED csVars
    PROVE  SwitchInv'
  BY DEF SwitchInv, CvodeFails, GivesUp

\* Nor does a failed step of Euler's method.
LEMMA EulerFailsSettled ==
    ASSUME Transversal, StepInv, SwitchInv, EulerFails, UNCHANGED csVars
    PROVE  SwitchInv'
  BY DEF SwitchInv, EulerFails, GivesUp

\* At its stop time Euler's method leaves the problem as it is.
LEMMA EulerStandsSettled ==
    ASSUME Transversal, StepInv, SwitchInv, EulerStands, UNCHANGED csVars
    PROVE  SwitchInv'
  BY DEF SwitchInv, Settled, Agrees, InputAt, PlaceInv, EulerStands,
     Place, Sound, problemVars, inputVars, StepInv

\* The FMU is given the input that the integrator saw last.
LEMMA SolvedUpdatesSettled ==
    ASSUME Transversal, StepInv, SwitchInv, SolvedUpdates, UNCHANGED csVars
    PROVE  SwitchInv'
  BY DEF SwitchInv, Settled, Agrees, SolvedUpdates, Evaluates, Place,
     Sound, problemVars

\* The failure reaches the loop.
LEMMA SolvedFailsSettled ==
    ASSUME Transversal, StepInv, SwitchInv, SolvedFails, UNCHANGED csVars
    PROVE  SwitchInv'
  BY DEF SwitchInv, SolvedFails, Sound
-----------------------------------------------------------------------------
\* Before the FMU is in continuous time nothing is asked of the switch.
LEMMA SetupExperimentSettled ==
    ASSUME Transversal, StepInv, SwitchInv, SetupExperiment
    PROVE  SwitchInv'
  BY DEF SwitchInv, SetupExperiment

\* The same while it initializes.
LEMMA EnterInitializationSettled ==
    ASSUME Transversal, StepInv, SwitchInv, EnterInitialization
    PROVE  SwitchInv'
  BY DEF SwitchInv, EnterInitialization

\* And after it has failed to.
LEMMA InitializationFailsSettled ==
    ASSUME Transversal, StepInv, SwitchInv, InitializationFails
    PROVE  SwitchInv'
  BY DEF SwitchInv, InitializationFails

\* The first step begins with both flags.
LEMMA ExitInitializationSettled ==
    ASSUME Transversal, StepInv, SwitchInv, ExitInitialization
    PROVE  SwitchInv'
  BY DEF SwitchInv, ExitInitialization, Calls, ExternalEvent, solverVars

\* An input that changes raises the restart flag; the last sign is still known.
LEMMA SetInputSettled ==
    ASSUME Transversal, StepInv, SwitchInv, NEW v \in Inputs, SetInput(v)
    PROVE  SwitchInv'
  BY DEF Transversal, SwitchInv, Settled, Agrees, PlaceInv, SetInput,
     Calls, NeedToInitialize, Sound, problemVars, solverVars, StepInv

\* A discrete input raises both flags.
LEMMA SetDiscreteInputSettled ==
    ASSUME Transversal, StepInv, SwitchInv, SetDiscreteInput
    PROVE  SwitchInv'
  BY DEF SwitchInv, Settled, Agrees, SetDiscreteInput, Calls,
     ExternalEvent, Sound, problemVars, flagVars, solverVars

\* A derivative moves nothing before the next step.
LEMMA SetInputDerivativeSettled ==
    ASSUME Transversal, StepInv, SwitchInv, NEW r \in Rates, SetInputDerivative(r)
    PROVE  SwitchInv'
  BY DEF SwitchInv, Settled, Agrees, SetInputDerivative, Calls, Sound,
     fmuVars, problemVars, flagVars, solverVars

\* A refused step is a failure.
LEMMA DoStepRefusedSettled ==
    ASSUME Transversal, StepInv, SwitchInv, DoStepRefused
    PROVE  SwitchInv'
  BY DEF SwitchInv, DoStepRefused, Calls, Sound, solverVars

\* A step begins with what the last one left.
LEMMA DoStepSettled ==
    ASSUME Transversal, StepInv, SwitchInv, DoStep
    PROVE  SwitchInv'
  BY DEF SwitchInv, Settled, Agrees, DoStep, Calls, Sound, fmuVars,
     problemVars, flagVars

\* A step that cannot read its inputs is a failure as well.
LEMMA DoStepInputFailsSettled ==
    ASSUME Transversal, StepInv, SwitchInv, DoStepInputFails
    PROVE  SwitchInv'
  BY DEF SwitchInv, DoStepInputFails, Calls, Sound, solverVars

\* A reset leaves continuous time.
LEMMA ResetSettled ==
    ASSUME Transversal, StepInv, SwitchInv, Reset
    PROVE  SwitchInv'
  BY DEF SwitchInv, Reset
-----------------------------------------------------------------------------
\* A step of the solver.
LEMMA SolveSettled ==
    ASSUME Transversal, StepInv, StepInv', SwitchInv, Solve
    PROVE  SwitchInv'
<1> SUFFICES ASSUME SolverStep, UNCHANGED csVars PROVE SwitchInv'
  BY DEF Solve
<1>1. CASE StartChecks \/ StartSkips \/ StartUpdates
  BY <1>1, StartChecksSettled, StartSkipsSettled, StartUpdatesSettled
<1>2. CASE Integrates \/ CvodeSteps \/ CvodeFails
  BY <1>2, IntegratesSettled, CvodeStepsSettled, CvodeFailsSettled
<1>3. CASE EulerSteps \/ EulerFails \/ EulerStands
  BY <1>3, EulerStepsSettled, EulerFailsSettled, EulerStandsSettled
<1>4. CASE SolvedUpdates \/ SolvedFails \/ EventUpdates \/ Finishes
  BY <1>4, SolvedUpdatesSettled, SolvedFailsSettled, EventUpdatesSettled,
     FinishesSettled
<1> QED
  BY <1>1, <1>2, <1>3, <1>4 DEF SolverStep

\* SwitchInv is inductive relative to StepInv.
LEMMA NextSettled ==
    ASSUME Transversal, StepInv, StepInv', SwitchInv, [Next]_vars
    PROVE  SwitchInv'
<1>1. CASE SetupExperiment \/ EnterInitialization \/ InitializationFails
           \/ ExitInitialization
  BY <1>1, SetupExperimentSettled, EnterInitializationSettled,
     InitializationFailsSettled, ExitInitializationSettled
<1>2. CASE \/ \E v \in Inputs : SetInput(v)
           \/ SetDiscreteInput
           \/ \E r \in Rates : SetInputDerivative(r)
  BY <1>2, SetInputSettled, SetDiscreteInputSettled, SetInputDerivativeSettled
<1>3. CASE DoStep \/ DoStepRefused \/ DoStepInputFails
  BY <1>3, DoStepSettled, DoStepRefusedSettled, DoStepInputFailsSettled
<1>4. CASE Solve \/ DoStepReturns \/ Reset
  BY <1>4, SolveSettled, DoStepReturnsSettled, ResetSettled
<1>5. CASE UNCHANGED vars
  BY <1>5 DEF vars, SwitchInv, Settled, Agrees, InputAt, Sound, fmuVars,
     problemVars, inputVars, flagVars, solverVars, csVars
<1> QED
  BY <1>1, <1>2, <1>3, <1>4, <1>5 DEF Next

\* Off the edges of the hysteresis, the switch is settled at each place as SwitchInv
\* says, whatever inputs the master sets and wherever the integrators step.
THEOREM SwitchInvariant == ASSUME Transversal PROVE Spec => []SwitchInv
<1>1. Init => SwitchInv
  BY DEF Init, SwitchInv
<1>2. StepInv /\ StepInv' /\ SwitchInv /\ [Next]_vars => SwitchInv'
  BY NextSettled
<1> QED
  BY <1>1, <1>2, StepInvariant, PTL DEF Spec

\* A step that succeeds hands over an FMU whose switch is the one an event would
\* give it: no sign change on the way was lost.
THEOREM NoSignChangeIsLost == ASSUME Transversal PROVE Spec => []StepSettled
<1>1. StepInv /\ SwitchInv => StepSettled
  <2> SUFFICES ASSUME StepInv, SwitchInv, pc = "return", s = "ok"
               PROVE  Turned(x, u, sw) = sw
    BY DEF StepSettled
  <2>1. Sound /\ fmuMode = "continuous" /\ u \in Inputs
    BY DEF StepInv, PlaceInv, Sound, TypeOK, ProblemTypeOK
  <2>2. Settled(u) /\ x = states
    BY <2>1 DEF SwitchInv, StepInv, PointInv
  <2> QED
    BY <2>1, <2>2, SettledIsTurned DEF Transversal, StepInv
<1> QED
  BY <1>1, StepInvariant, SwitchInvariant, PTL

\* No integration starts before the events that the master caused between two steps
\* are handled; of a real input this is said for a solver that its changes restart.
THEOREM EventsComeFirst == ASSUME ZeroFree PROVE Spec => []EventsFirst
<1>1. ASSUME StepInv, AboutToIntegrate
      PROVE  /\ Sound /\ fmuMode = "continuous"
             /\ ~unsettled /\ u = InputAt(time) /\ u \in Inputs
  <2>1. pc = "loop" /\ Sound
    BY <1>1 DEF AboutToIntegrate, Continues, Sound
  <2>2. fmuMode = "continuous"
    BY <1>1, <2>1 DEF StepInv, PlaceInv
  <2> QED
    BY <1>1, <2>1, <2>2 DEF StepInv, FlagInv, PointInv, TypeOK, ProblemTypeOK
<1>2. CASE NoReinit
  <2>1. StepInv => EventsFirst
    BY <1>1, <1>2 DEF EventsFirst
  <2> QED
    BY <2>1, StepInvariant, PTL
<1>3. CASE ~NoReinit
  <2>1. Transversal
    BY <1>3 DEF Transversal
  <2>2. StepInv /\ SwitchInv => EventsFirst
    <3> SUFFICES ASSUME StepInv, SwitchInv, AboutToIntegrate
                 PROVE  ~unsettled /\ Turned(states, InputAt(time), sw) = sw
      BY DEF EventsFirst
    <3>1. Settled(u)
      BY <1>1 DEF SwitchInv, AboutToIntegrate
    <3> QED
      BY <1>1, <3>1, SettledIsTurned DEF StepInv
  <2> QED
    BY <2>1, <2>2, StepInvariant, SwitchInvariant, PTL
<1> QED
  BY <1>2, <1>3
=============================================================================
