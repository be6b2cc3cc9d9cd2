----------------------------- MODULE OdeSolver ------------------------------
(***************************************************************************)
(* The solver of a Co-Simulation FMU: jmi_ode_solver_solve of              *)
(* RuntimeLibrary/src/jmi/jmi_ode_solver.c with its two integrators,       *)
(* jmi_ode_cvode.c and jmi_ode_euler.c.                                    *)
(*                                                                         *)
(* A step of this module is the code between two callbacks; pc is the      *)
(* place in jmi_ode_solver_solve.  CVODE is a library: a step of it may    *)
(* reach any later point up to its stop time, evaluates the problem at     *)
(* trial points on the way, keeps its own copy of where it is, and finds   *)
(* the event indicators that changed sign since.                           *)
(***************************************************************************)
EXTENDS OdeProblem

CONSTANTS
    Method,     \* "cvode" or "euler"
    Eps         \* JMI_ALMOST_EPS*final_time, in the unit of time

ASSUME MethodAssumption == Method \in {"cvode", "euler"}
ASSUME EpsAssumption    == Eps \in Nat

VARIABLES
    previous,   \* sign of event_indicators_previous
    mem,        \* of CVODE: [time, states, sign] it integrates from
    final,      \* final_time
    target,     \* integrate_stop_time
    s,          \* the status
    pc          \* the place in jmi_ode_solver_solve

solverVars == <<previous, mem, final, target, s, pc>>

Signs    == {-1, 0, 1}
Statuses == {"ok", "event", "error", "terminate"}
Places   == {"idle", "start", "update", "loop", "stepping", "solved", "event",
             "return"}

SolverTypeOK ==
    /\ previous \in Signs
    /\ mem \in [time : Times, states : States, sign : Signs]
    /\ final \in Times /\ target \in Times
    /\ s \in Statuses /\ pc \in Places

\* rhs_func or root_func at a point; a changed input may ask for a restart
Evaluates(at, y, f) ==
    /\ Place(at, y)
    /\ initializeSolver' = NeedToInitialize(f, u' # u)
-----------------------------------------------------------------------------
(***************************************************************************)
(* The beginning of jmi_ode_solver_solve.                                  *)
(***************************************************************************)
\* mutant: only a relation that turns true is found
CrossedUpwards(now, before) == now >= 0 /\ before < 0

\* jmi_ode_check_event_indicators: signs on both sides of "indicator >= 0"
Crossed(now, before) == (now >= 0) # (before >= 0)

StartChecks ==
    /\ pc = "start"
    /\ initializeSolver /\ ~needEventUpdate
    /\ Evaluates(time, states, initializeSolver)
    /\ \/ /\ needEventUpdate' = Crossed(IndicatorAt(time, states), previous)
          /\ pc' = "update" /\ UNCHANGED s
       \/ s' = "error" /\ pc' = "return" /\ UNCHANGED needEventUpdate
    /\ UNCHANGED <<problemVars, inputVars, previous, mem, final, target>>

StartSkips ==
    /\ pc = "start"
    /\ ~initializeSolver \/ needEventUpdate
    /\ pc' = "update"
    /\ UNCHANGED <<fmuVars, problemVars, inputVars, flagVars, previous, mem, final,
                   target, s>>

StartUpdates ==
    /\ pc = "update"
    /\ IF needEventUpdate
       THEN s' \in Statuses /\ EventUpdate(s')
       ELSE UNCHANGED <<fmuVars, problemVars, s>>
    /\ needEventUpdate' = FALSE
    /\ pc' = "loop"
    /\ UNCHANGED <<inputVars, initializeSolver, previous, mem, final, target>>
-----------------------------------------------------------------------------
(***************************************************************************)
(* The loop of jmi_ode_solver_solve, up to the loop of an integrator.      *)
(***************************************************************************)
\* mutant: a time event does not stop the integration
FinalTimeOnly == final

\* jmi_ode_final_integration_time
FinalIntegrationTime == IF eventTime < final THEN eventTime ELSE final

\* mutants: finished one unit too early; not finished at the final time
NotFinishedEarly == time + Eps + 1 < final
NotFinishedAtEnd == time <= final

\* jmi_ode_not_finished
NotFinished == time + Eps < final

Continues == s = "ok" /\ NotFinished

\* CVodeReInit, if the solver asks for it; of a relation that is 0 CVODE looks
\* at the sign just after
CvodeStarts ==
    /\ Method = "cvode"
    /\ IF initializeSolver
       THEN LET sign == IndicatorAt(time, states) IN
            mem' \in [time : {time}, states : {states},
                      sign : IF sign = 0 THEN Signs ELSE {sign}]
       ELSE UNCHANGED mem
    /\ pc' = "stepping"
    /\ UNCHANGED <<fmuVars, initializeSolver, previous, s>>

\* the first event indicators of jmi_ode_euler_solve
EulerStarts ==
    /\ Method = "euler"
    /\ Evaluates(time, states, initializeSolver)
    /\ \/ /\ previous' = IndicatorAt(time, states)
          /\ pc' = "stepping" /\ UNCHANGED s
       \/ s' = "error" /\ pc' = "solved" /\ UNCHANGED previous
    /\ UNCHANGED mem

Integrates ==
    /\ pc = "loop" /\ Continues
    /\ target' = FinalIntegrationTime
    /\ CvodeStarts \/ EulerStarts
    /\ UNCHANGED <<problemVars, inputVars, needEventUpdate, final>>
-----------------------------------------------------------------------------
(***************************************************************************)
(* The loops of the integrators.  jmi_ode_solver_solve clears              *)
(* initialize_solver when they return, so it is not followed in here.      *)
(***************************************************************************)
\* the integrator gives up with the FMU where it was evaluated last
GivesUp(at, y) ==
    /\ Place(at, y)
    /\ s' = "error" /\ pc' = "solved"

\* mutant: an indicator that changed its sign is not reported
StepCompletesQuietly(crossed, next) ==
    \/ s' = "error" /\ pc' = "solved"
    \/ s' = "ok" /\ pc' = next

\* complete_step_func fails, asks for an event, or neither: the loop goes on at next
StepCompletes(crossed, next) ==
    \/ s' = "error" /\ pc' = "solved"
    \/ s' = "event" /\ pc' = "solved"
    \/ ~crossed /\ s' = "ok" /\ pc' = next

\* CVODE's test for a root, from the sign at the start of its step
CvodeRoot(before, now) == now = 0 \/ before * now < 0

\* CV_ONE_STEP; the FMU is left at one of the trial points.  At a root CVODE
\* has gone on to the end of its step.
CvodeSteps ==
    /\ Method = "cvode" /\ pc = "stepping"
    /\ \E at \in mem.time + 1 .. target, y \in States :
          LET sign    == IndicatorAt(at, y)
              crossed == CvodeRoot(mem.sign, sign)
          IN /\ time' = at /\ states' = y
             /\ mem' \in IF crossed
                         THEN [time : at .. target, states : States, sign : {sign}]
                         ELSE {[time |-> at, states |-> y, sign |-> sign]}
             /\ StepCompletes(crossed, IF at = target THEN "solved" ELSE "stepping")
    /\ \E at \in mem.time .. target, y \in States : Place(at, y)
    /\ UNCHANGED <<eventTime, inputVars, flagVars, previous, final, target>>

\* no step to be had: an evaluation fails, or the stop time is too close
CvodeFails ==
    /\ Method = "cvode" /\ pc = "stepping"
    /\ \E at \in mem.time .. target, y \in States : GivesUp(at, y)
    /\ UNCHANGED <<problemVars, inputVars, flagVars, previous, mem, final, target>>

EulerSteps ==
    /\ Method = "euler" /\ pc = "stepping"
    /\ \E at \in time + 1 .. target, y \in States :
          /\ time' = at /\ states' = y
          /\ \/ /\ Place(at, y)
                /\ previous' = IndicatorAt(at, y)
                /\ StepCompletes(previous * previous' < 0, "stepping")
             \/ GivesUp(at, y) /\ UNCHANGED previous
    /\ UNCHANGED <<eventTime, inputVars, flagVars, mem, final, target>>

EulerFails ==
    /\ Method = "euler" /\ pc = "stepping"
    /\ GivesUp(time, states)
    /\ UNCHANGED <<problemVars, inputVars, flagVars, previous, mem, final, target>>

EulerStands ==
    /\ Method = "euler" /\ pc = "stepping"
    /\ target <= time
    /\ s' = "ok" /\ pc' = "solved"
    /\ Place(time, states)
    /\ UNCHANGED <<problemVars, inputVars, flagVars, previous, mem, final, target>>
-----------------------------------------------------------------------------
(***************************************************************************)
(* jmi_ode_solver_solve after the integrator.                              *)
(***************************************************************************)
\* jmi_ode_at_time_event
AtTimeEvent == s = "ok" /\ target # final

\* mutant: the model is not brought to the point the integrator reached
SolvedUpdatesNothing ==
    /\ pc = "solved" /\ s \in {"ok", "event"}
    /\ initializeSolver' = FALSE
    /\ pc' = IF s = "event" \/ AtTimeEvent THEN "event" ELSE "loop"
    /\ UNCHANGED <<fmuVars, problemVars, inputVars, needEventUpdate, previous, mem,
                   final, target, s>>

SolvedUpdates ==
    /\ pc = "solved" /\ s \in {"ok", "event"}
    /\ Evaluates(time, states, FALSE)
    /\ \/ /\ pc' = IF s = "event" \/ AtTimeEvent THEN "event" ELSE "loop"
          /\ UNCHANGED s
       \/ s' = "error" /\ pc' = "return"
    /\ UNCHANGED <<problemVars, inputVars, needEventUpdate, previous, mem, final,
                   target>>

SolvedFails ==
    /\ pc = "solved" /\ s = "error"
    /\ initializeSolver' = FALSE
    /\ pc' = "loop"
    /\ UNCHANGED <<fmuVars, problemVars, inputVars, needEventUpdate, previous, mem,
                   final, target, s>>

\* mutant: the integrator is not restarted after an event
EventUpdatesWithoutRestart ==
    /\ pc = "event"
    /\ s' \in Statuses /\ EventUpdate(s')
    /\ pc' = "loop"
    /\ UNCHANGED <<inputVars, flagVars, previous, mem, final, target>>

EventUpdates ==
    /\ pc = "event"
    /\ s' \in Statuses /\ EventUpdate(s')
    /\ initializeSolver' = TRUE
    /\ pc' = "loop"
    /\ UNCHANGED <<inputVars, needEventUpdate, previous, mem, final, target>>

\* a time event at the final time waits for the next call; the last root_func
Finishes ==
    /\ pc = "loop" /\ ~Continues
    /\ LET waits == eventTime = final IN
       /\ needEventUpdate' = (needEventUpdate \/ waits)
       /\ Evaluates(time, states, initializeSolver \/ waits)
    /\ \/ previous' = IndicatorAt(time, states) /\ UNCHANGED s
       \/ s' = "error" /\ UNCHANGED previous
    /\ pc' = "return"
    /\ UNCHANGED <<problemVars, inputVars, mem, final, target>>

SolverStep ==
    \/ StartChecks \/ StartSkips \/ StartUpdates
    \/ Integrates
    \/ CvodeSteps \/ CvodeFails
    \/ EulerSteps \/ EulerFails \/ EulerStands
    \/ SolvedUpdates \/ SolvedFails \/ EventUpdates \/ Finishes
=============================================================================
