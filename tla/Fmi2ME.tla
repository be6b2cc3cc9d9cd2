------------------------------- MODULE Fmi2ME -------------------------------
(***************************************************************************)
(* The FMI 2.0 Model Exchange interface of a generated FMU:                *)
(* RuntimeLibrary/src/fmi2/fmi2_me.c over jmi_me.c and the get/set module  *)
(* jmi_get_set.c.  Calls are synchronous and the FMU has one caller, so a  *)
(* behaviour is a sequence of calls; fmi2_new_discrete_state is the one    *)
(* call of several steps (module JmiEvents), every other one is a step.    *)
(*                                                                         *)
(* The caller is free except for the habits in Habits:                     *)
(*   "ordered"    it obeys the mode of the FMU and what a call answered;   *)
(*   "stops"      after an error it only resets or reads;                  *)
(*   "keepsInfo"  it hands back the fmi2EventInfo of the previous call;    *)
(*   "readsAfter" it reads no variable between the rounds of one event.    *)
(***************************************************************************)
EXTENDS JmiEvents

CONSTANTS
    Habits,
    StopTimes   \* stop times a caller may give

Infinite == MaxTime + 1     \* JMI_INF

ASSUME HabitsAssumption    == Habits \subseteq {"ordered", "stops", "keepsInfo", "readsAfter"}
ASSUME StopTimesAssumption == StopTimes \subseteq Times

VARIABLES
    fmuMode, stopTime,
    initialized,    \* is_initialized
    userTerminate,  \* user_terminate
    callerInfo,     \* the caller's fmi2EventInfo
    failed,         \* history: a call other than a get returned fmi2Error
    changed         \* history: the FMU changed states in the present event

fmiVars     == <<fmuMode, stopTime, initialized, userTerminate, callerInfo>>
historyVars == <<failed, changed>>
vars        == <<jmiVars, fmiVars, historyVars>>

Modes == {"instantiated", "initialization", "event", "continuous"}

TypeOK ==
    /\ JmiTypeOK
    /\ fmuMode \in Modes
    /\ stopTime \in StopTimes \cup {Infinite}
    /\ initialized \in BOOLEAN /\ userTerminate \in BOOLEAN
    /\ callerInfo \in Infos
    /\ failed \in BOOLEAN /\ changed \in BOOLEAN

Init ==
    /\ JmiInit
    /\ fmuMode = "instantiated" /\ stopTime = Infinite
    /\ initialized = FALSE /\ userTerminate = FALSE
    /\ callerInfo = FreshInfo
    /\ failed = FALSE /\ changed = FALSE
-----------------------------------------------------------------------------
Idle == pc = "idle"

\* an ordered caller makes this call only in one of the modes ms
MayCall(ms) ==
    /\ Idle
    /\ "ordered" \in Habits => fmuMode \in ms /\ ~userTerminate
    /\ "stops" \in Habits => ~failed

\* fmi2Error leaves a mark for a caller that stops
Error == failed' = TRUE
OK    == failed' = failed

TrackChange == changed' = (changed \/ x' # x \/ updatedStates')

\* a call refused for the mode the FMU is in, or for its arguments
Refuse ==
    /\ MayCall({})
    /\ Error
    /\ UNCHANGED <<jmiVars, fmiVars, changed>>
-----------------------------------------------------------------------------
\* jmi_set_time_impl, which restores z_last when time moves back
MoveTime(time) ==
    /\ t' = time
    /\ recompute' = (recompute \/ time # t)
    /\ IF time < t /\ initialized
       THEN d' = last.d /\ pre' = last.pre
       ELSE UNCHANGED <<d, pre>>
    /\ UNCHANGED <<x, last>>

\* fmi2_set_time with the stop time s
SetTimeOrFail(time, s) ==
    IF s < time \/ userTerminate
    THEN Error /\ UNCHANGED zVars
    ELSE OK /\ MoveTime(time)

SetTime(time) ==
    /\ MayCall({"continuous"})
    /\ SetTimeOrFail(time, stopTime)
    /\ UNCHANGED <<flagVars, timeVars, modelVars, iterVars, fmiVars, changed>>

SetupExperiment(start) ==
    /\ MayCall({"instantiated"}) /\ fmuMode = "instantiated"
    /\ epsilon' = 1
    /\ stopTime' \in {stopTime} \cup StopTimes
    /\ SetTimeOrFail(start, stopTime')
    /\ UNCHANGED <<atEvent, atInitial, tmpEpsilon, saveRestore, timeVars, modelVars,
                   iterVars, fmuMode, initialized, userTerminate, callerInfo, changed>>
-----------------------------------------------------------------------------
(***************************************************************************)
(* fmi2_enter_initialization_mode: jmi_initialize.                         *)
(***************************************************************************)
InitializeFailsEarly ==     \* already initialized, or dependent parameters fail
    /\ MayCall({"instantiated"}) /\ fmuMode = "instantiated"
    /\ Error
    /\ UNCHANGED <<jmiVars, fmiVars, changed>>

Initializes ==              \* jmi_ode_initialize, whatever it answers
    /\ MayCall({"instantiated"}) /\ fmuMode = "instantiated" /\ ~initialized
    /\ tmpEpsilon' = epsilon
    /\ epsilon' = 0
    /\ d' \in Values /\ x' \in States
    /\ modelTerminate' \in {modelTerminate, TRUE}
    /\ updatedStates' \in {updatedStates, TRUE}
    /\ changed' = updatedStates'
    /\ UNCHANGED <<t, recompute, reinitTriggered, atTimeEvent, eventPhase,
                   nbrConsec, iterVars, stopTime, userTerminate, callerInfo>>

InitializeFails ==
    /\ Initializes
    /\ atEvent' = TRUE /\ atInitial' = TRUE
    /\ Error
    /\ UNCHANGED <<pre, last, saveRestore, nextTimeEvent, fmuMode, initialized>>

InitializeSolves ==
    /\ Initializes
    /\ CopyPre /\ SaveLast
    /\ atEvent' = FALSE /\ atInitial' = FALSE
    /\ saveRestore' = TRUE
    /\ initialized' = TRUE

\* initializing the delays or the next time event fails
InitializeFailsLate ==
    /\ InitializeSolves
    /\ nextTimeEvent' \in {nextTimeEvent} \cup TimeEvents
    /\ Error
    /\ UNCHANGED fmuMode

EnterInitializationMode ==
    /\ InitializeSolves
    /\ nextTimeEvent' \in TimeEvents
    /\ OK
    /\ fmuMode' = "initialization"
-----------------------------------------------------------------------------
(***************************************************************************)
(* fmi2_enter_event_mode, also the second half of                          *)
(* fmi2_exit_initialization_mode, which has set continuousTimeMode by then.*)
(***************************************************************************)
EnterEvent(mode) ==
    /\ MayCall({mode}) /\ fmuMode = mode
    /\ \/ (EnterFails \/ EnterPassed) /\ Error
          /\ fmuMode' = "continuous" /\ UNCHANGED callerInfo
       \/ EnterSucceeds /\ OK
          /\ fmuMode' = "event" /\ callerInfo' = FreshInfo
    /\ TrackChange
    /\ UNCHANGED <<atEvent, iterVars, stopTime, initialized, userTerminate>>

EnterEventMode         == EnterEvent("continuous")
ExitInitializationMode == EnterEvent("initialization")

\* the structures a caller may pass: its own, or one it has just zeroed
PassedInfos ==
    {callerInfo} \cup
        (IF "keepsInfo" \in Habits THEN {} ELSE {[FreshInfo EXCEPT !.converged = TRUE]})

(***************************************************************************)
(* fmi2_new_discrete_state copies the caller's structure in, iterates, and *)
(* copies the result out when the iteration succeeded.  event_info is      *)
(* overwritten by the next call, so its value between calls is forgotten.  *)
(***************************************************************************)
NewDiscreteStates ==
    /\ MayCall({"event"})
    /\ "ordered" \in Habits => ~callerInfo.converged
    /\ \E i \in PassedInfos : StartIteration(i)
    /\ UNCHANGED <<zVars, atInitial, epsilon, tmpEpsilon, saveRestore, timeVars,
                   modelVars, nbrIter, stack, fmiVars, historyVars>>

EventIteration ==
    /\ EventIterationStep
    /\ TrackChange
    /\ UNCHANGED <<fmiVars, failed>>

NewDiscreteStatesReturns ==
    /\ \/ pc = "done" /\ OK /\ callerInfo' = info
       \/ pc = "failed" /\ Error /\ UNCHANGED callerInfo
    /\ pc' = "idle" /\ info' = FreshInfo
    /\ UNCHANGED <<zVars, flagVars, timeVars, modelVars, nbrIter, stack,
                   fmuMode, stopTime, initialized, userTerminate, changed>>

EnterContinuousTimeMode ==
    /\ MayCall({"event"}) /\ fmuMode = "event"
    /\ "ordered" \in Habits => callerInfo.converged
    /\ fmuMode' = "continuous"
    /\ callerInfo' = FreshInfo
    /\ changed' = FALSE
    /\ UNCHANGED <<jmiVars, stopTime, initialized, userTerminate, failed>>
-----------------------------------------------------------------------------
\* jmi_completed_integrator_step; sampling the delays may fail
CompletedIntegratorStep ==
    /\ MayCall({"continuous"})
    /\ \/ OK /\ last' = [d |-> d, pre |-> pre]
       \/ Error /\ UNCHANGED last
    /\ UNCHANGED <<t, x, d, pre, recompute, flagVars, timeVars, modelVars, iterVars,
                   fmiVars, changed>>

SetContinuousStates(v) ==
    /\ MayCall({"continuous"})
    /\ IF userTerminate
       THEN Error /\ UNCHANGED zVars
       ELSE /\ OK
            /\ x' = v
            /\ recompute' = (recompute \/ v # x)
            /\ UNCHANGED <<t, d, pre, last>>
    /\ UNCHANGED <<flagVars, timeVars, modelVars, iterVars, fmiVars, changed>>

\* fmi2_set_real, _integer, _boolean, _string: discrete variables, states, or
\* inputs and parameters outside the model, whose change only asks to recompute
SetVariables(dv, xv) ==
    /\ MayCall(Modes)
    /\ ~userTerminate
    /\ d' = dv /\ x' = xv
    /\ recompute' \in {recompute \/ dv # d \/ xv # x, TRUE}
    /\ OK
    /\ UNCHANGED <<t, pre, last, flagVars, timeVars, modelVars, iterVars, fmiVars,
                   changed>>
-----------------------------------------------------------------------------
(***************************************************************************)
(* The get functions evaluate the model when a set has asked for it.       *)
(***************************************************************************)
MayRead ==
    /\ Idle
    /\ "readsAfter" \in Habits => nbrIter = 0

EvaluatedByRead ==
    /\ MayRead /\ recompute /\ ~userTerminate
    /\ OdeDerivatives(modelTerminate, reinitTriggered, atEvent \/ atInitial)
    /\ TrackChange
    /\ UNCHANGED <<t, last, flagVars, timeVars, iterVars, fmiVars, failed>>

ReadSucceeds == EvaluatedByRead /\ recompute' = FALSE /\ UNCHANGED pre

\* jmi_reset_internal_variables: z_last, but for time, states and inputs
ReadFails ==
    /\ EvaluatedByRead
    /\ d' = last.d /\ pre' = last.pre
    /\ UNCHANGED recompute

\* jmi_get_derivatives_impl and jmi_get_event_indicators_impl try again after
\* a failure, with the restored values
ReadRetries == EvaluatedByRead /\ recompute' = FALSE /\ pre' = last.pre

\* jmi_get_update: fmi2_get_real, _integer, _boolean, _string
GetVariables == initialized /\ (ReadSucceeds \/ ReadFails)

\* fmi2_get_derivatives, fmi2_get_event_indicators
GetDerivatives == ReadSucceeds \/ ReadRetries \/ ReadFails
-----------------------------------------------------------------------------
\* mutant: fmi2_terminate does not compute what is out of date
TerminateAtOnce ==
    /\ MayCall(Modes)
    /\ OK /\ userTerminate' = TRUE
    /\ UNCHANGED <<t, d, x, pre, last, recompute, modelVars, changed, flagVars, timeVars,
                   iterVars, fmuMode, stopTime, initialized, callerInfo>>

\* fmi2_terminate: jmi_update_and_terminate
Terminate ==
    /\ MayCall(Modes)
    /\ IF recompute
       THEN /\ OdeDerivatives(modelTerminate, reinitTriggered, atEvent \/ atInitial)
            /\ TrackChange
            /\ \/ Error /\ UNCHANGED <<recompute, userTerminate>>
               \/ OK /\ recompute' = FALSE /\ userTerminate' = TRUE
       ELSE /\ OK /\ userTerminate' = TRUE
            /\ UNCHANGED <<d, x, modelVars, recompute, changed>>
    /\ UNCHANGED <<t, pre, last, flagVars, timeVars, iterVars, fmuMode, stopTime,
                   initialized, callerInfo>>

\* fmi2_reset: jmi_delete, then jmi_me_init from the start values
Reset ==
    /\ Idle
    /\ t' = 0 /\ x' \in States /\ d' \in Values
    /\ CopyPre
    /\ last' \in [d : Values, pre : Pres]
    /\ recompute' = TRUE /\ atEvent' = FALSE /\ atInitial' = FALSE
    /\ epsilon' = 1 /\ tmpEpsilon' = 0
    /\ nextTimeEvent' = NoTimeEvent /\ atTimeEvent' = FALSE /\ eventPhase' = "exact"
    /\ nbrIter' = 0 /\ nbrConsec' = 0
    /\ modelTerminate' = FALSE /\ reinitTriggered' = FALSE /\ updatedStates' = FALSE
    /\ saveRestore' = FALSE
    /\ fmuMode' = "instantiated" /\ stopTime' = Infinite
    /\ initialized' = FALSE /\ userTerminate' = FALSE
    /\ callerInfo' = FreshInfo /\ failed' = FALSE /\ changed' = FALSE
    /\ UNCHANGED <<info, pc, stack>>
-----------------------------------------------------------------------------
Call ==
    \/ Refuse
    \/ \E time \in Times : SetTime(time) \/ SetupExperiment(time)
    \/ InitializeFailsEarly \/ InitializeFails \/ InitializeFailsLate
    \/ EnterInitializationMode \/ ExitInitializationMode
    \/ EnterEventMode \/ NewDiscreteStates \/ EnterContinuousTimeMode
    \/ CompletedIntegratorStep
    \/ \E v \in States : SetContinuousStates(v)
    \/ \E dv \in Values, xv \in States : SetVariables(dv, xv)
    \/ GetVariables \/ GetDerivatives
    \/ Terminate \/ Reset

Running == EventIteration \/ NewDiscreteStatesReturns

Next == Call \/ Running

\* a call that has been made runs on
Fairness == WF_vars(Running)

Spec == Init /\ [][Next]_vars /\ Fairness
-----------------------------------------------------------------------------
(***************************************************************************)
(* Properties.                                                             *)
(***************************************************************************)
\* the answer of the discrete update that ended the present event
EventHandled == Idle /\ fmuMode = "event" /\ ~failed /\ callerInfo.converged

\* jmi_exit_event_mode runs only when a round has left the discrete variables
\* equal to their pre() values: the fixed point of jmi_event_iteration.
SettledBeforeExit == pc = "exit" => d = pre.d

\* In continuous time the model is never evaluated as if at an event: the
\* event and initial flags are down, the iteration counter is back at 0 for the
\* next event, the tolerance of the event indicators is no longer the 0 of the
\* initialization, and the block solvers save their state again.
CleanContinuousTime ==
    (Idle /\ fmuMode = "continuous" /\ ~failed) =>
        /\ ~atEvent /\ ~atInitial
        /\ nbrIter = 0
        /\ epsilon # 0
        /\ saveRestore

\* A change of the states that the FMU makes by reinit or by selecting other
\* dynamic states is reported when the event is over, however many rounds and
\* nested time events came after it.
StateChangeReported == (EventHandled /\ changed) => callerInfo.statesChanged

\* A time event that is due, within the tolerance, is not lost: the FMU takes
\* another one for it only at the end of an iteration that has handled this very
\* event in its phase.  The time event is noticed when the event mode is entered,
\* and several rounds, calls of the importer and nested activations may follow
\* before it is replaced; the greater-than event of an instant is an event of its
\* own after the exact one.
TimeEventReplacedWhenMet ==
    [][(initialized' /\ nextTimeEvent.defined /\ nextTimeEvent.time - t < TimeEps
           /\ nextTimeEvent' # nextTimeEvent)
        => pc = "exit" /\ atTimeEvent /\ eventPhase = nextTimeEvent.phase]_vars

\* The next time event answered to the caller is the one the FMU will check
\* itself against, and it is not in the past.
NextTimeEventReported ==
    EventHandled =>
        /\ callerInfo.nextDefined = nextTimeEvent.defined
        /\ nextTimeEvent.defined =>
              callerInfo.nextTime = nextTimeEvent.time /\ callerInfo.nextTime >= t

\* An event that is iterated while a time event is due is handled as that
\* time event, so that no time event is replaced without having been met.
DueTimeEventMet ==
    pc \in {"round", "exit"} /\ nextTimeEvent.defined /\ nextTimeEvent.time <= t
        => atTimeEvent

\* The recursion of jmi_exit_event_mode and jmi_event_iteration is bounded, and
\* so is the number of rounds.
BoundedRecursion == Len(stack) <= 2 /\ nbrConsec <= 3 /\ nbrIter <= MaxIter

\* After fmi2_terminate there is nothing left to compute: no get function
\* evaluates a model whose external objects are destructed.
TerminatedIsComputed == userTerminate => ~recompute

\* A discrete update that has been called returns.
DiscreteUpdateReturns == (~Idle) ~> Idle

-----------------------------------------------------------------------------
(***************************************************************************)
(* The inductive invariant behind the properties above, for a caller that  *)
(* is ordered, stops and keeps its event information.                      *)
(***************************************************************************)
\* the flags as jmi_exit_event_mode leaves them
OutOfEvent == ~atEvent /\ nbrIter = 0 /\ epsilon # 0 /\ saveRestore /\ ~updatedStates

\* where a change of the states that is not yet answered is kept
Pending ==
    \/ updatedStates
    \/ IF Idle THEN callerInfo.statesChanged
       ELSE info.statesChanged \/ \E k \in DOMAIN stack : stack[k]

\* what an error-free caller finds in the flags, in any mode
FlagsInv ==
    ~failed =>
        /\ ~atInitial
        /\ IF fmuMode = "instantiated" THEN epsilon = 1 ELSE tmpEpsilon = 1

\* where a discrete update is called from
CallInv ==
    /\ Idle => stack = << >>
    /\ ~Idle => ~failed /\ fmuMode = "event" /\ ~callerInfo.converged /\ ~userTerminate
    /\ callerInfo.converged => fmuMode = "event"

\* what holds at the places of the event iteration
PlaceInv ==
    /\ pc = "exit" => d = pre.d /\ info.converged
    /\ pc = "reenter" => ~atEvent /\ nbrIter = 0
    /\ (pc = "finish" /\ stack # << >>) => info.converged
    /\ (pc \in {"finish", "done"} /\ info.converged) =>
          ~atEvent /\ nbrIter = 0 /\ epsilon # 0 /\ saveRestore
    /\ pc = "done" => ~updatedStates
    /\ pc \in {"done", "failed"} => stack = << >>

OutInv ==
    (Idle /\ ~failed /\ (fmuMode = "continuous" \/ callerInfo.converged)) => OutOfEvent

EventInv == FlagsInv /\ CallInv /\ PlaceInv /\ OutInv

\* the depth of the recursion is the number of time events of one instant
RecursionInv ==
    /\ pc \in {"round", "exit"} => Len(stack) = nbrConsec /\ nbrConsec <= 2
    /\ pc = "reenter" => Len(stack) + 1 = nbrConsec /\ nbrConsec <= 2
    /\ pc = "finish" => Len(stack) <= 2
    /\ pc \in {"finish", "done"} => nbrConsec = 0
    /\ (Idle /\ ~failed) => nbrConsec = 0
    /\ nbrConsec <= 3
    /\ pc \in {"round", "exit", "reenter", "finish", "done"} => nbrIter < MaxIter
    /\ (Idle /\ ~failed) => nbrIter < MaxIter
    /\ nbrIter <= MaxIter

\* for a caller that also reads only after the rounds of an event
PendingInv ==
    /\ (changed /\ ~failed /\ pc # "failed" /\ (userTerminate => callerInfo.converged))
          => Pending
    /\ (~failed /\ fmuMode # "event") => ~callerInfo.statesChanged /\ ~atEvent
    /\ (Idle /\ ~failed /\ fmuMode = "event" /\ nbrIter = 0 /\ ~callerInfo.converged)
          => ~callerInfo.statesChanged /\ ~atEvent
    /\ (pc \in {"finish", "done"} /\ ~info.converged) => nbrIter > 0
=============================================================================
