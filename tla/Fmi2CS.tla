------------------------------- MODULE Fmi2CS -------------------------------
(***************************************************************************)
(* The FMI 2.0 Co-Simulation interface of a generated FMU:                 *)
(* RuntimeLibrary/src/fmi2/fmi2_cs.c, the branches of fmi2_me.c for        *)
(* fmi2CoSimulation, and the inputs of jmi_cs.c, over the solver of module *)
(* OdeSolver.                                                              *)
(*                                                                         *)
(* The FMU has one caller, the master.  fmi2_do_step is the one call of    *)
(* several steps, every other one is a step.  The master is the one FMI    *)
(* describes: it sets up the experiment before it initializes, each step   *)
(* begins where the last one ended and has a length, and after a call that *)
(* did not return fmi2OK it resets the FMU.                                *)
(***************************************************************************)
EXTENDS OdeSolver

CONSTANT StopTimes      \* stop times a master may give

ASSUME StopTimesAssumption == StopTimes \subseteq Times

VARIABLES
    stopTime,
    hasSolver,  \* ode_solver is not NULL
    point,      \* history: the communication point
    setUp,      \* history: the experiment is set up
    answer      \* history: what the last fmi2_do_step returned

csVars == <<stopTime, hasSolver, point, setUp, answer>>
vars   == <<fmuVars, problemVars, inputVars, flagVars, solverVars, csVars>>

Answers == {"none", "ok", "discard", "error"}

TypeOK ==
    /\ ProblemTypeOK
    /\ SolverTypeOK
    /\ stopTime \in StopTimes \cup {Never}
    /\ hasSolver \in BOOLEAN /\ setUp \in BOOLEAN
    /\ point \in Times
    /\ answer \in Answers

\* fmi2_cs_instantiate: jmi_new_ode_problem and jmi_new_cs_data
Init ==
    /\ fmuMode = "instantiated"
    /\ t = 0 /\ x = 0 /\ u = 0
    /\ sw = FALSE /\ nextTimeEvent = Never /\ unsettled = FALSE
    /\ time = 0 /\ states = 0 /\ eventTime = Never
    /\ active = FALSE /\ tn = 0 /\ base = 0 /\ rate = 0
    /\ initializeSolver = FALSE /\ needEventUpdate = FALSE
    /\ previous = 0 /\ mem = [time |-> 0, states |-> 0, sign |-> 0]
    /\ final = 0 /\ target = 0 /\ s = "ok" /\ pc = "idle"
    /\ stopTime = Never /\ hasSolver = FALSE
    /\ point = 0 /\ setUp = FALSE /\ answer = "none"
-----------------------------------------------------------------------------
\* the master may go on
Calls == pc = "idle" /\ answer \in {"none", "ok"}

\* a call before the first step that returns fmi2Error
Fails == answer' = "error"

SetupExperiment ==
    /\ Calls /\ fmuMode = "instantiated"
    /\ \E start \in Times :
          /\ stopTime' \in {stopTime} \cup StopTimes
          /\ IF stopTime' < start
             THEN Fails /\ UNCHANGED t
             ELSE t' = start /\ UNCHANGED answer
          /\ time' = start /\ point' = start
    /\ setUp' = TRUE
    /\ UNCHANGED <<fmuMode, x, u, sw, nextTimeEvent, unsettled, states, eventTime,
                   inputVars, flagVars, solverVars, hasSolver>>

\* jmi_initialize, then a new solver for the states it found
EnterInitialization ==
    /\ Calls /\ fmuMode = "instantiated" /\ setUp
    /\ x' \in States
    /\ sw' = (Relation[<<x', u>>] >= 0)
    /\ nextTimeEvent' \in Times \cup {Never}
    /\ fmuMode' = "initialization"
    /\ states' = x'
    /\ hasSolver' = TRUE
    /\ initializeSolver' = TRUE /\ needEventUpdate' = FALSE
    /\ previous' = 0
    /\ mem' = [time |-> time, states |-> states', sign |-> 0]
    /\ UNCHANGED <<t, u, unsettled, time, eventTime, inputVars, final, target, s, pc,
                   stopTime, point, setUp, answer>>

InitializationFails ==
    /\ Calls /\ fmuMode = "instantiated" /\ setUp
    /\ x' \in States
    /\ Fails
    /\ UNCHANGED <<fmuMode, t, u, sw, nextTimeEvent, unsettled, problemVars, inputVars,
                   flagVars, solverVars, stopTime, hasSolver, point, setUp>>

\* jmi_ode_solver_external_event
ExternalEvent == initializeSolver' = TRUE /\ needEventUpdate' = TRUE

ExitInitialization ==
    /\ Calls /\ fmuMode = "initialization"
    /\ fmuMode' = "continuous"
    /\ ExternalEvent
    /\ UNCHANGED <<t, x, u, sw, nextTimeEvent, unsettled, problemVars, inputVars,
                   solverVars, csVars>>
-----------------------------------------------------------------------------
(***************************************************************************)
(* Inputs, set between the steps.                                          *)
(***************************************************************************)
\* fmi2_set_real of the real input
SetInput(v) ==
    /\ Calls
    /\ u' = v
    /\ initializeSolver' = IF hasSolver THEN NeedToInitialize(initializeSolver, v # u)
                           ELSE initializeSolver
    /\ UNCHANGED <<fmuMode, t, x, sw, nextTimeEvent, unsettled, problemVars, inputVars,
                   needEventUpdate, solverVars, csVars>>

\* fmi2_set_integer or fmi2_set_boolean of a discrete input, which changes
SetDiscreteInput ==
    /\ Calls
    /\ IF hasSolver THEN ExternalEvent /\ unsettled' = TRUE
       ELSE UNCHANGED <<flagVars, unsettled>>
    /\ UNCHANGED <<fmuMode, t, x, u, sw, nextTimeEvent, problemVars, inputVars,
                   solverVars, csVars>>

\* fmi2_set_real_input_derivatives: its slot is activated, or already was
SetInputDerivative(r) ==
    /\ Calls
    /\ active' = TRUE /\ rate' = r
    /\ IF active THEN UNCHANGED <<tn, base>> ELSE tn' = 0 /\ base' = 0
    /\ UNCHANGED <<fmuVars, problemVars, flagVars, solverVars, csVars>>
-----------------------------------------------------------------------------
(***************************************************************************)
(* fmi2_do_step to the time f.                                             *)
(***************************************************************************)
Refused(f) == fmuMode # "continuous" \/ stopTime < f - Eps

DoStepRefused ==
    /\ Calls /\ \E f \in point + 1 .. MaxTime : Refused(f)
    /\ answer' = "error"
    /\ UNCHANGED <<fmuVars, problemVars, inputVars, flagVars, solverVars, stopTime,
                   hasSolver, point, setUp>>

\* an active input goes on from its value in the FMU
ActivateInput ==
    IF active THEN tn' = time /\ base' = u ELSE UNCHANGED <<tn, base>>

DoStep ==
    /\ Calls
    /\ \E f \in point + 1 .. MaxTime : ~Refused(f) /\ final' = f
    /\ ActivateInput
    /\ s' = "ok" /\ pc' = "start"
    /\ UNCHANGED <<fmuVars, problemVars, active, rate, flagVars, previous, mem, target,
                   csVars>>

\* fmi2_get_real of an active input fails
DoStepInputFails ==
    /\ Calls /\ active
    /\ \E f \in point + 1 .. MaxTime : ~Refused(f)
    /\ tn' = time
    /\ answer' = "error"
    /\ UNCHANGED <<fmuVars, problemVars, active, base, rate, flagVars, solverVars,
                   stopTime, hasSolver, point, setUp>>

Solve ==
    /\ SolverStep
    /\ UNCHANGED csVars

DoStepReturns ==
    /\ pc = "return"
    /\ pc' = "idle"
    /\ answer' = CASE s = "error" -> "error" [] s = "terminate" -> "discard"
                   [] OTHER -> "ok"
    /\ active' = (active /\ answer' # "ok")
    /\ point' = IF answer' = "ok" THEN final ELSE point
    /\ UNCHANGED <<fmuVars, problemVars, tn, base, rate, flagVars, previous, mem, final,
                   target, s, stopTime, hasSolver, setUp>>
-----------------------------------------------------------------------------
\* fmi2_reset; jmi_reset_ode_problem leaves the time of the problem alone
Reset ==
    /\ pc = "idle"
    /\ fmuMode' = "instantiated"
    /\ t' = 0 /\ x' = 0 /\ u' = 0
    /\ sw' = FALSE /\ nextTimeEvent' = Never /\ unsettled' = FALSE
    /\ states' = 0 /\ eventTime' = Never /\ UNCHANGED time
    /\ active' = FALSE /\ tn' = 0 /\ base' = 0 /\ rate' = 0
    /\ hasSolver' = FALSE
    /\ initializeSolver' = FALSE /\ needEventUpdate' = FALSE
    /\ previous' = 0 /\ mem' = [time |-> 0, states |-> 0, sign |-> 0]
    /\ final' = 0 /\ target' = 0 /\ s' = "ok" /\ UNCHANGED pc
    /\ stopTime' = Never /\ point' = 0 /\ setUp' = FALSE /\ answer' = "none"

Next ==
    \/ SetupExperiment \/ EnterInitialization \/ InitializationFails
    \/ ExitInitialization
    \/ \E v \in Inputs : SetInput(v)
    \/ SetDiscreteInput
    \/ \E r \in Rates : SetInputDerivative(r)
    \/ DoStep \/ DoStepRefused \/ DoStepInputFails
    \/ Solve \/ DoStepReturns
    \/ Reset

Spec == Init /\ [][Next]_vars

\* a call that has begun runs to its end
FairSpec == Spec /\ WF_vars(Solve \/ DoStepReturns)
-----------------------------------------------------------------------------
(***************************************************************************)
(* Properties.                                                             *)
(***************************************************************************)
\* fmi2_do_step answers fmi2OK only with the FMU in continuous time at the point
\* the solver holds, and no further from the new communication point than the
\* tolerance of jmi_ode_not_finished.
StepReached ==
    pc = "idle" /\ answer = "ok" =>
        /\ fmuMode = "continuous"
        /\ t = time /\ x = states
        /\ time <= point /\ point <= time + Eps

\* A step that succeeds hands over an FMU whose switches are the ones an event
\* would give them: no sign change on the way was lost.
StepSettled ==
    pc = "return" /\ s = "ok" => Turned(x, u, sw) = sw

AboutToIntegrate == pc = "loop" /\ Continues

\* No integration starts before the events the master caused between two steps
\* are handled: a changed discrete input, or a real input that turned a relation
\* (unless the experimental mode says that an input does not restart the solver).
EventsFirst ==
    AboutToIntegrate =>
        /\ ~unsettled
        /\ NoReinit \/ Turned(states, InputAt(time), sw) = sw

\* Every event update happens with the FMU at the time, states and input the
\* integrator stopped at, not at a trial point.
EventAtItsPoint ==
    pc = "event" \/ (pc = "update" /\ needEventUpdate) =>
        t = time /\ x = states /\ u = InputAt(time)

\* The solver never integrates past the model's next time event, and a time
\* event at the end of a step is left to the next one, not forgotten.
NoTimeEventPassed ==
    fmuMode = "continuous" =>
        /\ time <= eventTime
        /\ pc = "idle" /\ answer = "ok" /\ time = eventTime => needEventUpdate

\* When CVODE takes a step its own copy of time and states is the problem's, and
\* the sign it compares with belongs to the present switches and input: whatever
\* changed them has restarted it.
IntegratorCurrent ==
    Method = "cvode" /\ pc = "stepping" =>
        /\ mem.time = time /\ mem.states = states
        /\ NoReinit \/ IndicatorAt(time, states) \in {0, mem.sign}

\* A call of fmi2_do_step comes back.
DoStepAnswers == (pc = "start") ~> (pc = "idle")
=============================================================================
