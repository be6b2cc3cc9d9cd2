----------------------------- MODULE JmiEvents -----------------------------
(***************************************************************************)
(* Event handling of the model runtime, RuntimeLibrary/src/jmi/jmi_me.c:   *)
(* jmi_enter_event_mode, jmi_event_iteration and jmi_exit_event_mode over  *)
(* the fields of jmi_t they read and write.                                *)
(*                                                                         *)
(* jmi_event_iteration runs rounds of the model equations until the        *)
(* discrete variables equal their pre() values; jmi_exit_event_mode then   *)
(* evaluates once more and, when the model has a further "exact" time      *)
(* event at the present instant, enters the event mode again and calls     *)
(* jmi_event_iteration recursively.  One step of this module is the code   *)
(* between two evaluations of the model; pc is the place in the code and   *)
(* stack holds what each nested activation of jmi_exit_event_mode saved.   *)
(*                                                                         *)
(* The generated model (ode_derivatives, ode_next_time_event, the delay    *)
(* and equation blocks) is external: an evaluation may write any value its *)
(* position allows, may fail half way, and may ask for termination.        *)
(***************************************************************************)
EXTENDS Integers, Sequences

CONSTANTS
    Values,     \* values of the vector of discrete variables and switches
    States,     \* values of the vector of continuous states
    MaxTime,    \* time is 0 .. MaxTime
    TimeEps,    \* time_events_epsilon, in the same unit
    MaxIter     \* max_iterations of jmi_event_iteration (30 in the code)

ASSUME ValuesAssumption  == Values # {}
ASSUME StatesAssumption  == States # {}
ASSUME MaxTimeAssumption == MaxTime \in Nat
ASSUME TimeEpsAssumption == TimeEps \in Nat \ {0}
ASSUME MaxIterAssumption == MaxIter \in Nat \ {0, 1}

VARIABLES
    t,              \* the time in z
    x,              \* the continuous states in z
    d,              \* discrete variables and switches in z
    pre,            \* the pre() copies in z: [d, x]
    last,           \* z_last from offs_real_dx on: [d, pre]
    recompute,      \* recomputeVariables
    atEvent, atInitial,
    epsilon,        \* events_epsilon: 0, or 1 for the configured tolerance
    tmpEpsilon,     \* tmp_events_epsilon
    nextTimeEvent,  \* [defined, time, phase]
    atTimeEvent, eventPhase,
    nbrIter,        \* nbr_event_iter
    nbrConsec,      \* nbr_consec_time_events
    modelTerminate, reinitTriggered, updatedStates,
    saveRestore,    \* save_restore_solver_state_mode
    info,           \* the event_info structure handed to jmi_event_iteration
    pc,             \* where the event iteration is
    stack           \* state_values_changed saved by nested exits

zVars     == <<t, x, d, pre, last, recompute>>
flagVars  == <<atEvent, atInitial, epsilon, tmpEpsilon, saveRestore>>
timeVars  == <<nextTimeEvent, atTimeEvent, eventPhase, nbrConsec>>
modelVars == <<modelTerminate, reinitTriggered, updatedStates>>
iterVars  == <<nbrIter, info, pc, stack>>
jmiVars   == <<zVars, flagVars, timeVars, modelVars, iterVars>>
-----------------------------------------------------------------------------
Times  == 0 .. MaxTime
Phases == {"exact", "greater"}
Near(a, b) == a - b < TimeEps /\ b - a < TimeEps

NoTimeEvent == [defined |-> FALSE, time |-> 0, phase |-> "exact"]
TimeEvents  == [defined : {TRUE}, time : Times, phase : Phases] \cup {NoTimeEvent}

Infos == [converged : BOOLEAN, terminate : BOOLEAN, statesChanged : BOOLEAN,
          nextDefined : BOOLEAN, nextTime : Times]
\* the values jmi_event_iteration gives event_info in the first round
FreshInfo == [converged |-> FALSE, terminate |-> FALSE, statesChanged |-> FALSE,
              nextDefined |-> FALSE, nextTime |-> 0]

Places == {"idle", "round", "exit", "reenter", "finish", "done", "failed"}
Pres   == [d : Values, x : States]

ZTypeOK ==
    /\ t \in Times /\ x \in States /\ d \in Values
    /\ pre \in Pres
    /\ last \in [d : Values, pre : Pres]
    /\ recompute \in BOOLEAN

FlagTypeOK ==
    /\ atEvent \in BOOLEAN /\ atInitial \in BOOLEAN /\ saveRestore \in BOOLEAN
    /\ epsilon \in {0, 1} /\ tmpEpsilon \in {0, 1}

TimeTypeOK ==
    /\ nextTimeEvent \in TimeEvents
    /\ atTimeEvent \in BOOLEAN
    /\ eventPhase \in Phases
    /\ nbrConsec \in Nat

ModelTypeOK ==
    modelTerminate \in BOOLEAN /\ reinitTriggered \in BOOLEAN /\ updatedStates \in BOOLEAN

IterTypeOK == nbrIter \in Nat /\ info \in Infos /\ pc \in Places /\ stack \in Seq(BOOLEAN)

JmiTypeOK == ZTypeOK /\ FlagTypeOK /\ TimeTypeOK /\ ModelTypeOK /\ IterTypeOK

\* jmi_init and jmi_me_init: start values, flags, pre values copied; z_last
\* holds zeros, which may or may not be the start values
JmiInit ==
    /\ t = 0 /\ x \in States /\ d \in Values
    /\ pre = [d |-> d, x |-> x]
    /\ last \in [d : Values, pre : Pres]
    /\ recompute = TRUE /\ atEvent = FALSE /\ atInitial = FALSE
    /\ epsilon = 1 /\ tmpEpsilon = 0
    /\ nextTimeEvent = NoTimeEvent /\ atTimeEvent = FALSE /\ eventPhase = "exact"
    /\ nbrIter = 0 /\ nbrConsec = 0
    /\ modelTerminate = FALSE /\ reinitTriggered = FALSE /\ updatedStates = FALSE
    /\ saveRestore = FALSE
    /\ info = FreshInfo /\ pc = "idle" /\ stack = << >>
-----------------------------------------------------------------------------
\* jmi_copy_pre_values, with the values evaluated by this step
CopyPre == pre' = [d |-> d', x |-> x']

\* jmi_save_last_successful_values
SaveLast == last' = [d |-> d', pre |-> pre']

(***************************************************************************)
(* jmi_ode_derivatives: one evaluation of the generated equations, which   *)
(* may be left by a longjmp at any point, so a failed one writes too.      *)
(* Only at an event (atEv) do when-equations run, so that a reinit gives a *)
(* state a new value and sets its flag, and may the selection of dynamic   *)
(* states change.                                                          *)
(***************************************************************************)
OdeDerivatives(terminate, reinit, atEv) ==
    /\ d' \in Values
    /\ modelTerminate' \in {terminate, TRUE}
    /\ \/ x' = x /\ reinitTriggered' = reinit
       \/ atEv /\ x' \in States \ {x} /\ reinitTriggered' = TRUE
    /\ updatedStates' \in {updatedStates, updatedStates \/ atEv}

\* every activation returns -1; each restores what it saved on the way out
Unwind(i) ==
    /\ info' = [i EXCEPT !.statesChanged = @ \/ \E k \in DOMAIN stack : stack[k]]
    /\ stack' = << >>
    /\ pc' = "failed"
-----------------------------------------------------------------------------
(***************************************************************************)
(* jmi_enter_event_mode.                                                   *)
(***************************************************************************)
EnterEvaluates ==
    /\ OdeDerivatives(FALSE, reinitTriggered, atEvent \/ atInitial)
    /\ UNCHANGED <<t, last, recompute, epsilon, tmpEpsilon, atInitial,
                   nextTimeEvent, nbrConsec>>

\* the model or the completed step of an equation block fails
EnterFails ==
    /\ EnterEvaluates
    /\ UNCHANGED <<pre, saveRestore, atTimeEvent, eventPhase>>

\* mutant: a time event met within an event keeps the phase of the first one
EnterReachesKeepsPhase ==
    /\ EnterEvaluates
    /\ saveRestore' = FALSE
    /\ atTimeEvent' = (nextTimeEvent.defined /\ Near(t, nextTimeEvent.time))
    /\ eventPhase' = IF ~atTimeEvent' THEN "greater"
                     ELSE IF pc = "reenter" THEN eventPhase ELSE nextTimeEvent.phase

EnterReaches ==
    /\ EnterEvaluates
    /\ saveRestore' = FALSE
    /\ atTimeEvent' = (nextTimeEvent.defined /\ Near(t, nextTimeEvent.time))
    /\ eventPhase' = IF atTimeEvent' THEN nextTimeEvent.phase ELSE "greater"

\* mutant: a time event that the step went past is not noticed
PassedUnnoticed == FALSE

Passed == nextTimeEvent.defined /\ t - nextTimeEvent.time >= TimeEps

EnterPassed   == EnterReaches /\ Passed /\ UNCHANGED pre
EnterSucceeds == EnterReaches /\ ~Passed /\ CopyPre

(***************************************************************************)
(* jmi_event_iteration: the entry, given the caller's event_info i.        *)
(***************************************************************************)
StartIteration(i) ==
    /\ atEvent' = TRUE
    /\ info' = IF nbrIter = 0 THEN FreshInfo ELSE i
    /\ pc' = IF info'.converged THEN "exit" ELSE "round"

(***************************************************************************)
(* One pass of its while loop.                                             *)
(***************************************************************************)
\* mutant: every pass restarts the count of the iterations
RoundEvaluatesRestarts ==
    /\ pc = "round"
    /\ nbrIter' = 1
    /\ pre' = IF nbrIter > 0 THEN [d |-> d, x |-> x] ELSE pre
    /\ OdeDerivatives(modelTerminate, FALSE, TRUE)
    /\ UNCHANGED <<t, last, recompute, flagVars, timeVars>>

RoundEvaluates ==
    /\ pc = "round"
    /\ nbrIter' = nbrIter + 1
    /\ pre' = IF nbrIter' > 1 THEN [d |-> d, x |-> x] ELSE pre
    /\ OdeDerivatives(modelTerminate, FALSE, TRUE)
    /\ UNCHANGED <<t, last, recompute, flagVars, timeVars>>

RoundFails == RoundEvaluates /\ Unwind(info)

\* mutant: the discrete variables are not compared
ComparedReinitOnly ==
    [info EXCEPT !.converged = ~reinitTriggered',
                 !.statesChanged = @ \/ reinitTriggered']

\* event_info after the comparison with pre() and the check for a reinit
Compared ==
    [info EXCEPT !.converged = (d' = pre'.d) /\ ~reinitTriggered',
                 !.statesChanged = @ \/ reinitTriggered']

\* a reinit that changed no state, or no convergence in max_iterations
RoundRejected == (reinitTriggered' /\ x' = pre'.x) \/ nbrIter' >= MaxIter

RoundGivesUp == RoundEvaluates /\ RoundRejected /\ Unwind(Compared)

\* intermediate_results is TRUE in the outermost activation only
RoundCompletes ==
    /\ RoundEvaluates
    /\ ~RoundRejected
    /\ info' = Compared
    /\ pc' = IF info'.converged THEN "exit"
             ELSE IF stack = << >> THEN "finish" ELSE "round"
    /\ UNCHANGED stack
-----------------------------------------------------------------------------
(***************************************************************************)
(* jmi_exit_event_mode.                                                    *)
(***************************************************************************)
\* mutant: nbr_event_iter is not reset
ExitEvaluatesKeepsCount ==
    /\ pc = "exit"
    /\ nbrIter' = nbrIter
    /\ epsilon' = IF epsilon = 0 THEN tmpEpsilon ELSE epsilon
    /\ atEvent' = FALSE
    /\ OdeDerivatives(modelTerminate, reinitTriggered, atInitial)
    /\ UNCHANGED <<t, pre, tmpEpsilon, atInitial, atTimeEvent, eventPhase>>

ExitEvaluates ==
    /\ pc = "exit"
    /\ nbrIter' = 0
    /\ epsilon' = IF epsilon = 0 THEN tmpEpsilon ELSE epsilon
    /\ atEvent' = FALSE
    /\ OdeDerivatives(modelTerminate, reinitTriggered, atInitial)
    /\ UNCHANGED <<t, pre, tmpEpsilon, atInitial, atTimeEvent, eventPhase>>

ExitEvaluationFails ==
    /\ ExitEvaluates
    /\ Unwind(info)
    /\ UNCHANGED <<last, recompute, saveRestore, nextTimeEvent, nbrConsec>>

\* sampling the delays or computing the next time event fails
ExitSamplingFails ==
    /\ ExitEvaluates
    /\ recompute' = FALSE
    /\ nextTimeEvent' \in {nextTimeEvent} \cup TimeEvents
    /\ Unwind(info)
    /\ UNCHANGED <<last, saveRestore, nbrConsec>>

\* jmi_next_time_event, and its result in event_info
ExitFindsNextTimeEvent ==
    /\ recompute' = FALSE
    /\ nextTimeEvent' \in TimeEvents

\* mutant: the time of the event is not copied
NextReportedWithoutTime == [info EXCEPT !.nextDefined = nextTimeEvent'.defined]

NextReported ==
    [info EXCEPT !.nextDefined = nextTimeEvent'.defined,
                 !.nextTime = IF nextTimeEvent'.defined THEN nextTimeEvent'.time ELSE @]

InThePast == nextTimeEvent'.defined /\ nextTimeEvent'.time < t

ExitTimeEventInPast ==
    /\ ExitEvaluates /\ ExitFindsNextTimeEvent
    /\ InThePast
    /\ Unwind(NextReported)
    /\ UNCHANGED <<last, saveRestore, nbrConsec>>

ExitSaves ==
    /\ ExitEvaluates /\ ExitFindsNextTimeEvent
    /\ ~InThePast
    /\ SaveLast
    /\ saveRestore' = TRUE

\* jmi_block_completed_integrator_step fails
ExitBlocksFail == ExitSaves /\ Unwind(NextReported) /\ UNCHANGED nbrConsec

\* jmi_exists_grt_than_time_event
ExistsGrtThanTimeEvent ==
    /\ ~modelTerminate' /\ atTimeEvent /\ eventPhase = "exact"
    /\ nextTimeEvent'.defined /\ Near(t, nextTimeEvent'.time)

ExitCompletes ==
    /\ ExitSaves
    /\ ~ExistsGrtThanTimeEvent
    /\ nbrConsec' = 0
    /\ info' = NextReported
    /\ pc' = "finish"
    /\ UNCHANGED stack

\* mutant: one consecutive time event too many
ExitFindsAnotherEventLate ==
    /\ ExitSaves
    /\ ExistsGrtThanTimeEvent
    /\ nbrConsec' = nbrConsec + 1
    /\ \/ nbrConsec' > 3 /\ Unwind(NextReported)
       \/ nbrConsec' <= 3 /\ info' = NextReported /\ pc' = "reenter" /\ UNCHANGED stack

ExitFindsAnotherEvent ==
    /\ ExitSaves
    /\ ExistsGrtThanTimeEvent
    /\ nbrConsec' = nbrConsec + 1
    /\ \/ nbrConsec' > 2 /\ Unwind(NextReported)
       \/ nbrConsec' <= 2 /\ info' = NextReported /\ pc' = "reenter" /\ UNCHANGED stack

\* the recursive jmi_enter_event_mode and jmi_event_iteration
ReenterFails ==
    /\ pc = "reenter"
    /\ EnterFails
    /\ Unwind(info)
    /\ UNCHANGED <<atEvent, nbrIter>>

\* mutant: state_values_changed is not kept across the nested event
ReenterForgets ==
    /\ pc = "reenter"
    /\ EnterSucceeds
    /\ StartIteration(info)
    /\ stack' = Append(stack, FALSE)
    /\ UNCHANGED nbrIter

Reenter ==
    /\ pc = "reenter"
    /\ EnterSucceeds
    /\ StartIteration(info)
    /\ stack' = Append(stack, info.statesChanged)
    /\ UNCHANGED nbrIter

(***************************************************************************)
(* The end of jmi_event_iteration, then the return into the                *)
(* jmi_exit_event_mode that called it, if any.                             *)
(***************************************************************************)
Finished ==
    [info EXCEPT !.terminate = modelTerminate,
                 !.statesChanged = @ \/ updatedStates]

FinishNested ==
    /\ pc = "finish" /\ stack # << >>
    /\ info' = [Finished EXCEPT !.statesChanged = @ \/ stack[Len(stack)]]
    /\ stack' = SubSeq(stack, 1, Len(stack) - 1)
    /\ updatedStates' = FALSE
    /\ UNCHANGED <<zVars, flagVars, timeVars, modelTerminate, reinitTriggered,
                   nbrIter, pc>>

FinishOutermost ==
    /\ pc = "finish" /\ stack = << >>
    /\ info' = Finished
    /\ pc' = "done"
    /\ updatedStates' = FALSE
    /\ UNCHANGED <<zVars, flagVars, timeVars, modelTerminate, reinitTriggered,
                   nbrIter, stack>>

EventIterationStep ==
    \/ RoundFails \/ RoundGivesUp \/ RoundCompletes
    \/ ExitEvaluationFails \/ ExitSamplingFails \/ ExitTimeEventInPast
    \/ ExitBlocksFail \/ ExitCompletes \/ ExitFindsAnotherEvent
    \/ ReenterFails \/ Reenter
    \/ FinishNested \/ FinishOutermost
=============================================================================
