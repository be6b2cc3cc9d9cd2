------------------------ MODULE Fmi2ME_event_proofs ------------------------
(***************************************************************************)
(* The safety of the event handling of Fmi2ME, for every value of the      *)
(* constants and, where a theorem says so, for callers with given habits.  *)
(***************************************************************************)
EXTENDS Fmi2ME_proofs, SequenceTheorems
-----------------------------------------------------------------------------
(***************************************************************************)
(* After fmi2_terminate.                                                   *)
(***************************************************************************)
\* No step of the event iteration asks to recompute.
LEMMA IterationComputes ==
    ASSUME EventIterationStep PROVE recompute' \in {recompute, FALSE}
<1>1. RoundEvaluates => recompute' = recompute
  BY DEF RoundEvaluates
<1>2. ExitSaves => recompute' = FALSE
  BY DEF ExitSaves, ExitFindsNextTimeEvent
<1>3. EnterEvaluates => recompute' = recompute
  BY DEF EnterEvaluates
<1>4. ExitEvaluationFails \/ ExitSamplingFails \/ ExitTimeEventInPast
        => recompute' \in {recompute, FALSE}
  BY DEF ExitEvaluationFails, ExitSamplingFails, ExitTimeEventInPast, ExitFindsNextTimeEvent
<1>5. FinishNested \/ FinishOutermost => recompute' = recompute
  BY DEF FinishNested, FinishOutermost, zVars
<1> QED
  BY <1>1, <1>2, <1>3, <1>4, <1>5
     DEF EventIterationStep, RoundFails, RoundGivesUp, RoundCompletes, ExitBlocksFail,
         ExitCompletes, ExitFindsAnotherEvent, ReenterFails, Reenter, EnterFails,
         EnterSucceeds, EnterReaches

\* A step either leaves what a terminated model has computed, or terminates a
\* model that it has computed.
LEMMA TerminatedStep ==
    ASSUME TypeOK, TerminatedIsComputed, [Next]_vars PROVE TerminatedIsComputed'
<1> USE DEF TerminatedIsComputed
<1>1. CASE UNCHANGED vars
  BY <1>1 DEF vars, jmiVars, zVars, fmiVars
<1>2. CASE Running
  BY <1>2, IterationComputes
     DEF Running, EventIteration, NewDiscreteStatesReturns, fmiVars, zVars
<1>3. CASE Call
  <2>1. ASSUME NEW time \in Times, SetTime(time) \/ SetupExperiment(time)
        PROVE  TerminatedIsComputed'
    <3>1. userTerminate' = userTerminate
      BY <2>1 DEF SetTime, SetupExperiment, fmiVars
    <3>2. userTerminate => UNCHANGED recompute
      BY <2>1 DEF SetTime, SetupExperiment, SetTimeOrFail, zVars
    <3> QED
      BY <3>1, <3>2
  <2>2. CASE \/ Refuse \/ InitializeFailsEarly \/ InitializeFails \/ InitializeFailsLate
             \/ EnterInitializationMode
    BY <2>2 DEF Refuse, InitializeFailsEarly, InitializeFails, InitializeFailsLate,
                EnterInitializationMode, InitializeSolves, Initializes, jmiVars, zVars, fmiVars
  <2>3. CASE ExitInitializationMode \/ EnterEventMode
    BY <2>3 DEF ExitInitializationMode, EnterEventMode, EnterEvent, EnterFails, EnterPassed,
                EnterSucceeds, EnterReaches, EnterEvaluates
  <2>4. CASE NewDiscreteStates \/ EnterContinuousTimeMode \/ CompletedIntegratorStep
    BY <2>4 DEF NewDiscreteStates, EnterContinuousTimeMode, CompletedIntegratorStep,
                jmiVars, zVars, fmiVars
  <2>5. ASSUME NEW v \in States, SetContinuousStates(v) PROVE TerminatedIsComputed'
    BY <2>5 DEF SetContinuousStates, fmiVars, zVars
  <2>6. ASSUME NEW dv \in Values, NEW xv \in States, SetVariables(dv, xv)
        PROVE  TerminatedIsComputed'
    BY <2>6 DEF SetVariables, fmiVars
  <2>7. CASE GetVariables \/ GetDerivatives
    BY <2>7 DEF GetVariables, GetDerivatives, ReadSucceeds, ReadFails, ReadRetries,
                EvaluatedByRead, fmiVars
  <2>8. CASE Terminate
    BY <2>8 DEF Terminate
  <2>9. CASE Reset
    BY <2>9 DEF Reset
  <2> QED
    BY <1>3, <2>1, <2>2, <2>3, <2>4, <2>5, <2>6, <2>7, <2>8, <2>9 DEF Call
<1> QED
  BY <1>1, <1>2, <1>3 DEF Next

\* After fmi2_terminate no get function evaluates the model, whatever the
\* caller does (jmi_update_and_terminate, jmi_get_update).
THEOREM TerminatedComputed == Spec => []TerminatedIsComputed
<1>1. Init => TerminatedIsComputed
  BY DEF Init, TerminatedIsComputed
<1> QED
  BY <1>1, TerminatedStep, TypeCorrect, PTL DEF Spec
-----------------------------------------------------------------------------
(***************************************************************************)
(* The event handling, for a caller that obeys the modes and the answers   *)
(* of the FMU, stops after an error and keeps its fmi2EventInfo.           *)
(***************************************************************************)
Disciplined == {"ordered", "stops", "keepsInfo"} \subseteq Habits

\* A disciplined caller makes a call with no error behind it, in a mode that
\* the call is meant for.
LEMMA DisciplinedCall ==
    ASSUME Disciplined, NEW ms, MayCall(ms)
    PROVE  Idle /\ ~failed /\ fmuMode \in ms /\ ~userTerminate
  BY DEF Disciplined, MayCall

\* The calls that leave the mode of the FMU and the flags of the event handling
\* as they are, whether they evaluate the model or not.
LEMMA QuietCall ==
    ASSUME TypeOK, EventInv, Idle,
           failed' \in {failed, TRUE},
           updatedStates' \in {updatedStates, updatedStates \/ atEvent \/ atInitial},
           UNCHANGED <<atEvent, atInitial, epsilon, tmpEpsilon, saveRestore, nbrIter, pc,
                       stack, info, fmuMode, callerInfo>>
    PROVE  EventInv'
<1>1. failed' \in BOOLEAN /\ failed \in BOOLEAN /\ (failed => failed')
  BY DEF TypeOK
<1>2. FlagsInv' /\ CallInv' /\ PlaceInv'
  BY <1>1 DEF EventInv, FlagsInv, CallInv, PlaceInv, Idle
<1>3. OutInv'
  <2>1. SUFFICES ASSUME ~failed, fmuMode = "continuous" \/ callerInfo.converged
                 PROVE  OutOfEvent'
    BY <1>1 DEF OutInv, Idle
  <2>2. OutOfEvent /\ ~atInitial
    BY <2>1 DEF EventInv, OutInv, FlagsInv
  <2>3. ~updatedStates'
    BY <2>2 DEF OutOfEvent
  <2> QED
    BY <2>2, <2>3 DEF OutOfEvent
<1> QED
  BY <1>2, <1>3 DEF EventInv

\* Which calls these are.
LEMMA QuietCalls ==
    ASSUME Disciplined, TypeOK, EventInv,
           \/ Refuse \/ InitializeFailsEarly
           \/ \E time \in Times : SetTime(time)
           \/ CompletedIntegratorStep
           \/ \E v \in States : SetContinuousStates(v)
           \/ \E dv \in Values, xv \in States : SetVariables(dv, xv)
           \/ GetVariables \/ GetDerivatives \/ Terminate
    PROVE  EventInv'
<1> USE DEF jmiVars, flagVars, modelVars, iterVars, fmiVars, Error, OK
<1>1. CASE \/ Refuse \/ InitializeFailsEarly \/ CompletedIntegratorStep
           \/ \E time \in Times : SetTime(time)
           \/ \E v \in States : SetContinuousStates(v)
           \/ \E dv \in Values, xv \in States : SetVariables(dv, xv)
  BY <1>1, QuietCall
     DEF Refuse, InitializeFailsEarly, CompletedIntegratorStep, SetTime, SetTimeOrFail,
         SetContinuousStates, SetVariables, MayCall
<1>2. CASE GetVariables \/ GetDerivatives
  BY <1>2, QuietCall DEF GetVariables, GetDerivatives, ReadSucceeds, ReadFails, ReadRetries,
                         EvaluatedByRead, MayRead, OdeDerivatives
<1>3. CASE Terminate
  BY <1>3, QuietCall DEF Terminate, MayCall, OdeDerivatives
<1> QED
  BY <1>1, <1>2, <1>3

\* The calls that set up an experiment, initialize the model or reset it.
LEMMA SetupCalls ==
    ASSUME Disciplined, TypeOK, EventInv,
           \/ \E time \in Times : SetupExperiment(time)
           \/ InitializeFails \/ InitializeFailsLate \/ EnterInitializationMode
           \/ Reset
    PROVE  EventInv'
<1> USE DEF EventInv, FlagsInv, CallInv, PlaceInv, OutInv, Idle, Error, OK, iterVars
<1>1. ASSUME NEW time \in Times, SetupExperiment(time) PROVE EventInv'
  BY <1>1, DisciplinedCall DEF SetupExperiment, SetTimeOrFail
<1>2. CASE InitializeFails \/ InitializeFailsLate
  BY <1>2, DisciplinedCall DEF InitializeFails, InitializeFailsLate, InitializeSolves, Initializes
<1>3. CASE EnterInitializationMode
  <2>1. ~failed /\ fmuMode = "instantiated" /\ Idle
    BY <1>3, DisciplinedCall DEF EnterInitializationMode, InitializeSolves, Initializes
  <2> QED
    BY <1>3, <2>1 DEF EnterInitializationMode, InitializeSolves, Initializes
<1>4. CASE Reset
  BY <1>4 DEF Reset, FreshInfo
<1> QED
  BY <1>1, <1>2, <1>3, <1>4

\* The calls that move between continuous time and an event.
LEMMA ModeCalls ==
    ASSUME Disciplined, TypeOK, EventInv,
           \/ EnterEventMode \/ ExitInitializationMode
           \/ EnterContinuousTimeMode \/ NewDiscreteStates
    PROVE  EventInv'
<1> USE DEF EventInv, FlagsInv, CallInv, PlaceInv, OutInv, Idle, FreshInfo
<1>1. ASSUME NEW mode \in {"continuous", "initialization"}, EnterEvent(mode) PROVE EventInv'
  <2>1. ~failed /\ fmuMode = mode /\ Idle
    BY <1>1, DisciplinedCall DEF EnterEvent
  <2>2. UNCHANGED <<atInitial, tmpEpsilon, pc, stack>>
    BY <1>1 DEF EnterEvent, EnterFails, EnterPassed, EnterSucceeds, EnterReaches,
                EnterEvaluates, iterVars
  <2>3. CASE Error
    BY <1>1, <2>1, <2>2, <2>3 DEF EnterEvent, Error
  <2>4. CASE OK /\ fmuMode' = "event" /\ callerInfo' = FreshInfo
    BY <2>1, <2>2, <2>4 DEF OK
  <2> QED
    BY <1>1, <2>3, <2>4 DEF EnterEvent
<1>2. CASE EnterContinuousTimeMode
  <2>1. ~failed /\ callerInfo.converged /\ Idle
    BY <1>2, DisciplinedCall DEF EnterContinuousTimeMode, Disciplined
  <2> QED
    BY <1>2, <2>1 DEF EnterContinuousTimeMode, jmiVars, zVars, flagVars, modelVars, iterVars,
                      OutOfEvent
<1>3. CASE NewDiscreteStates
  <2>1. ~failed /\ fmuMode = "event" /\ Idle /\ ~callerInfo.converged /\ ~userTerminate
    BY <1>3, DisciplinedCall DEF NewDiscreteStates, Disciplined
  <2>2. StartIteration(callerInfo)
    BY <1>3 DEF NewDiscreteStates, PassedInfos, Disciplined
  <2>3. pc' = "round"
    BY <2>1, <2>2 DEF StartIteration
  <2> QED
    BY <1>3, <2>1, <2>3 DEF NewDiscreteStates, fmiVars, historyVars, zVars
<1> QED
  BY <1>1, <1>2, <1>3 DEF EnterEventMode, ExitInitializationMode

\* The loop of jmi_event_iteration.
LEMMA RoundSteps ==
    ASSUME TypeOK, EventInv, EventIteration, RoundFails \/ RoundGivesUp \/ RoundCompletes
    PROVE  EventInv'
<1> USE DEF EventInv, FlagsInv, CallInv, PlaceInv, OutInv, Idle
<1>1. /\ pc = "round" /\ ~failed
      /\ UNCHANGED <<failed, fmuMode, callerInfo, userTerminate, atInitial, epsilon,
                     tmpEpsilon>>
  BY DEF EventIteration, RoundFails, RoundGivesUp, RoundCompletes, RoundEvaluates,
         fmiVars, flagVars
<1>2. CASE pc' = "failed" /\ stack' = << >>
  BY <1>1, <1>2
<1>3. CASE RoundCompletes
  <2>1. info'.converged => d' = pre'.d
    BY <1>3 DEF RoundCompletes, Compared, TypeOK, JmiTypeOK, IterTypeOK, Infos
  <2> QED
    BY <1>1, <1>3, <2>1 DEF RoundCompletes
<1> QED
  BY <1>2, <1>3 DEF RoundFails, RoundGivesUp, Unwind

\* jmi_exit_event_mode, up to where it returns or looks for another event.
LEMMA ExitSteps ==
    ASSUME TypeOK, EventInv, EventIteration,
           \/ ExitEvaluationFails \/ ExitSamplingFails \/ ExitTimeEventInPast
           \/ ExitBlocksFail \/ ExitCompletes \/ ExitFindsAnotherEvent
    PROVE  EventInv'
<1> USE DEF EventInv, FlagsInv, CallInv, PlaceInv, OutInv, Idle
<1>1. ExitEvaluates
  BY DEF ExitEvaluationFails, ExitSamplingFails, ExitTimeEventInPast, ExitBlocksFail,
         ExitCompletes, ExitFindsAnotherEvent, ExitSaves
<1>2. /\ pc = "exit" /\ ~failed /\ fmuMode = "event" /\ info.converged
      /\ UNCHANGED <<failed, fmuMode, callerInfo, userTerminate, atInitial, tmpEpsilon>>
      /\ tmpEpsilon = 1 /\ ~atEvent' /\ nbrIter' = 0 /\ epsilon' # 0
  BY <1>1 DEF EventIteration, ExitEvaluates, fmiVars
<1>3. CASE pc' = "failed" /\ stack' = << >>
  BY <1>2, <1>3
<1>4. CASE /\ pc' \in {"finish", "reenter"} /\ info' = NextReported
           /\ UNCHANGED stack /\ saveRestore'
  <2>1. info'.converged
    BY <1>2, <1>4 DEF NextReported, TypeOK, JmiTypeOK, IterTypeOK, Infos
  <2> QED
    BY <1>2, <1>4, <2>1
<1> QED
  BY <1>3, <1>4
     DEF ExitEvaluationFails, ExitSamplingFails, ExitTimeEventInPast, ExitBlocksFail,
         ExitCompletes, ExitFindsAnotherEvent, ExitSaves, Unwind

\* The recursive event, and the return from it.
LEMMA RecursionSteps ==
    ASSUME TypeOK, EventInv, EventIteration,
           ReenterFails \/ Reenter \/ FinishNested \/ FinishOutermost
    PROVE  EventInv'
<1> USE DEF EventInv, FlagsInv, CallInv, PlaceInv, OutInv, Idle
<1>1. /\ ~Idle /\ ~failed /\ fmuMode = "event"
      /\ UNCHANGED <<failed, fmuMode, callerInfo, userTerminate, atInitial, tmpEpsilon>>
  BY DEF EventIteration, ReenterFails, Reenter, FinishNested, FinishOutermost,
         fmiVars, flagVars, EnterFails, EnterSucceeds, EnterReaches, EnterEvaluates
<1>2. CASE ReenterFails
  BY <1>1, <1>2 DEF ReenterFails, Unwind
<1>3. CASE Reenter
  <2>1. pc' = "round"
    BY <1>3 DEF Reenter, StartIteration, FreshInfo
  <2> QED
    BY <1>1, <2>1
<1>4. CASE FinishNested
  <2>1. info'.converged = info.converged
    <3> DEFINE s == Finished.statesChanged \/ stack[Len(stack)]
    <3>1. Finished \in Infos /\ Finished.converged = info.converged
      BY DEF Finished, TypeOK, JmiTypeOK, IterTypeOK, ModelTypeOK, Infos
    <3>2. info' = [Finished EXCEPT !.statesChanged = s]
      BY <1>4 DEF FinishNested
    <3> HIDE DEF s
    <3> QED
      BY <3>1, <3>2 DEF Infos
  <2> QED
    BY <1>1, <1>4, <2>1 DEF FinishNested, flagVars
<1>5. CASE FinishOutermost
  <2>1. info'.converged = info.converged
    BY <1>5 DEF FinishOutermost, Finished, TypeOK, JmiTypeOK, IterTypeOK, ModelTypeOK, Infos
  <2> QED
    BY <1>1, <1>5, <2>1 DEF FinishOutermost, flagVars
<1> QED
  BY <1>2, <1>3, <1>4, <1>5

\* fmi2_new_discrete_state hands the result to the caller.
LEMMA ReturnStep ==
    ASSUME TypeOK, EventInv, NewDiscreteStatesReturns PROVE EventInv'
<1> USE DEF EventInv, FlagsInv, CallInv, PlaceInv, OutInv, Idle
<1>1. /\ pc' = "idle" /\ stack' = << >> /\ fmuMode' = "event"
      /\ fmuMode = "event" /\ ~failed /\ tmpEpsilon = 1 /\ ~atInitial
      /\ UNCHANGED <<fmuMode, flagVars, nbrIter, updatedStates>>
  BY DEF NewDiscreteStatesReturns, modelVars
<1>2. CASE pc = "done" /\ OK /\ callerInfo' = info
  BY <1>1, <1>2 DEF flagVars, OK, OutOfEvent
<1>3. CASE Error
  BY <1>1, <1>3 DEF flagVars, Error
<1> QED
  BY <1>2, <1>3 DEF NewDiscreteStatesReturns

\* EventInv is inductive: the lemmas above, one per group of steps.
LEMMA EventStep ==
    ASSUME Disciplined, TypeOK, EventInv, [Next]_vars PROVE EventInv'
<1>1. CASE Call
  BY <1>1, QuietCalls, SetupCalls, ModeCalls DEF Call
<1>2. CASE Running
  BY <1>2, RoundSteps, ExitSteps, RecursionSteps, ReturnStep
     DEF Running, EventIteration, EventIterationStep
<1>3. CASE UNCHANGED vars
  BY <1>3 DEF vars, jmiVars, zVars, flagVars, modelVars, iterVars, fmiVars, historyVars,
              EventInv, FlagsInv, CallInv, PlaceInv, OutInv, OutOfEvent, Idle
<1> QED
  BY <1>1, <1>2, <1>3 DEF Next

\* The inductive invariant of the event handling.
THEOREM EventInvariant == ASSUME Disciplined PROVE Spec => []EventInv
<1>1. Init => EventInv
  BY DEF Init, JmiInit, EventInv, FlagsInv, CallInv, PlaceInv, OutInv, Idle, FreshInfo
<1>2. TypeOK /\ EventInv /\ [Next]_vars => EventInv'
  BY EventStep
<1> QED
  BY <1>1, <1>2, TypeCorrect, PTL DEF Spec

\* jmi_exit_event_mode runs only at a fixed point of the event iteration.
THEOREM SettledExit == ASSUME Disciplined PROVE Spec => []SettledBeforeExit
<1>1. EventInv => SettledBeforeExit
  BY DEF EventInv, PlaceInv, SettledBeforeExit
<1> QED
  BY <1>1, EventInvariant, PTL

\* Continuous time is never evaluated with a flag of the event or of the
\* initialization left behind.
THEOREM ContinuousTimeIsClean == ASSUME Disciplined PROVE Spec => []CleanContinuousTime
<1>1. EventInv => CleanContinuousTime
  BY DEF EventInv, FlagsInv, OutInv, OutOfEvent, CleanContinuousTime
<1> QED
  BY <1>1, EventInvariant, PTL
-----------------------------------------------------------------------------
(***************************************************************************)
(* The recursion through the time events of one instant.                   *)
(***************************************************************************)
\* A call, and the return of one, leaves the counters or resets them.
LEMMA RecursionCalls ==
    ASSUME Disciplined, TypeOK, EventInv, RecursionInv,
           Call \/ NewDiscreteStatesReturns \/ UNCHANGED vars
    PROVE  RecursionInv'
<1> USE DEF RecursionInv, Idle
<1>0. nbrIter \in Nat /\ nbrConsec \in Nat /\ failed \in BOOLEAN
  BY DEF TypeOK, JmiTypeOK, IterTypeOK, TimeTypeOK
<1>1. CASE NewDiscreteStates
  <2>1. ~failed /\ Idle /\ stack = << >>
    BY <1>1, DisciplinedCall DEF NewDiscreteStates, EventInv, CallInv
  <2>2. pc' \in {"exit", "round"} /\ UNCHANGED <<nbrIter, nbrConsec, stack, failed>>
    BY <1>1 DEF NewDiscreteStates, StartIteration, timeVars, historyVars
  <2> QED
    BY <1>0, <2>1, <2>2
<1>2. CASE NewDiscreteStatesReturns
  BY <1>0, <1>2, MaxIterAssumption DEF NewDiscreteStatesReturns, timeVars, OK, Error
<1>3. CASE Reset
  BY <1>3, MaxIterAssumption DEF Reset
<1>4. ASSUME UNCHANGED <<nbrIter, nbrConsec, pc, stack>>, failed' \in {failed, TRUE}
      PROVE  RecursionInv'
  BY <1>0, <1>4
<1>5. ASSUME Call, ~NewDiscreteStates, ~Reset PROVE RecursionInv'
  <2> USE DEF jmiVars, timeVars, iterVars, fmiVars, historyVars, Error, OK
  <2>1. CASE \/ Refuse \/ InitializeFailsEarly
             \/ EnterContinuousTimeMode \/ CompletedIntegratorStep
    BY <1>4, <2>1
       DEF Refuse, InitializeFailsEarly, EnterContinuousTimeMode, CompletedIntegratorStep
  <2>2. CASE InitializeFails \/ InitializeFailsLate \/ EnterInitializationMode
    BY <1>4, <2>2
       DEF InitializeFails, InitializeFailsLate, EnterInitializationMode, InitializeSolves,
           Initializes
  <2>3. CASE ExitInitializationMode \/ EnterEventMode
    BY <1>4, <2>3
       DEF ExitInitializationMode, EnterEventMode, EnterEvent, EnterFails, EnterPassed,
           EnterSucceeds, EnterReaches, EnterEvaluates
  <2>4. ASSUME NEW time \in Times, SetTime(time) \/ SetupExperiment(time)
        PROVE  RecursionInv'
    BY <1>4, <2>4 DEF SetTime, SetupExperiment, SetTimeOrFail
  <2>5. ASSUME NEW v \in States, SetContinuousStates(v) PROVE RecursionInv'
    BY <1>4, <2>5 DEF SetContinuousStates
  <2>6. ASSUME NEW dv \in Values, NEW xv \in States, SetVariables(dv, xv) PROVE RecursionInv'
    BY <1>4, <2>6 DEF SetVariables
  <2>7. CASE GetVariables \/ GetDerivatives
    BY <1>4, <2>7
       DEF GetVariables, GetDerivatives, ReadSucceeds, ReadFails, ReadRetries, EvaluatedByRead
  <2>8. CASE Terminate
    BY <1>4, <2>8 DEF Terminate
  <2> QED
    BY <1>5, <2>1, <2>2, <2>3, <2>4, <2>5, <2>6, <2>7, <2>8 DEF Call
<1>6. CASE UNCHANGED vars
  BY <1>4, <1>6 DEF vars, jmiVars, timeVars, iterVars, historyVars
<1> QED
  BY <1>1, <1>2, <1>3, <1>5, <1>6

\* What is left of a stack when a nested activation returns.
LEMMA PoppedStack ==
    ASSUME NEW S, NEW s \in Seq(S), s # << >>
    PROVE  /\ Len(s) \in Nat \ {0}
           /\ SubSeq(s, 1, Len(s) - 1) \in Seq(S)
           /\ Len(SubSeq(s, 1, Len(s) - 1)) = Len(s) - 1
           /\ \A k \in 1 .. Len(s) - 1 : SubSeq(s, 1, Len(s) - 1)[k] = s[k]
<1>1. Len(s) \in Nat \ {0}
  BY EmptySeq
<1>2. \A k \in 1 .. Len(s) - 1 : s[k] \in S
  BY <1>1, ElementOfSeq
<1> DEFINE n == Len(s) - 1
<1>3. n \in Nat /\ \A k \in 1 .. n : s[k] \in S
  BY <1>1, <1>2
<1> HIDE DEF n
<1>4. /\ SubSeq(s, 1, n) \in Seq(S)
      /\ Len(SubSeq(s, 1, n)) = IF 1 <= n THEN n - 1 + 1 ELSE 0
      /\ \A k \in 1 .. n - 1 + 1 : SubSeq(s, 1, n)[k] = s[1 + k - 1]
  BY <1>3, SubSeqProperties, SMT
<1>5. Len(SubSeq(s, 1, n)) = n /\ \A k \in 1 .. n : SubSeq(s, 1, n)[k] = s[k]
  BY <1>3, <1>4
<1> QED
  BY <1>1, <1>4, <1>5 DEF n

\* A step of the event iteration.
LEMMA RecursionIteration ==
    ASSUME TypeOK, EventInv, RecursionInv, EventIteration
    PROVE  RecursionInv'
<1> USE DEF RecursionInv, Idle
<1>0. /\ nbrIter \in Nat /\ nbrConsec \in Nat /\ stack \in Seq(BOOLEAN) /\ MaxIter \in Nat
      /\ ~failed /\ failed' = failed /\ ~Idle
  <2>1. ~Idle
    BY DEF EventIteration, EventIterationStep, RoundFails, RoundGivesUp, RoundCompletes,
           RoundEvaluates, ExitEvaluationFails, ExitSamplingFails, ExitTimeEventInPast,
           ExitBlocksFail, ExitCompletes, ExitFindsAnotherEvent, ExitSaves, ExitEvaluates,
           ReenterFails, Reenter, FinishNested, FinishOutermost
  <2> QED
    BY <2>1, MaxIterAssumption
       DEF TypeOK, JmiTypeOK, IterTypeOK, TimeTypeOK, EventInv, CallInv, EventIteration
<1>1. CASE RoundFails \/ RoundGivesUp \/ RoundCompletes
  <2>1. pc = "round" /\ nbrIter' = nbrIter + 1 /\ nbrConsec' = nbrConsec
    BY <1>1 DEF RoundFails, RoundGivesUp, RoundCompletes, RoundEvaluates, timeVars
  <2>2. CASE pc' = "failed"
    BY <1>0, <2>1, <2>2
  <2>3. CASE RoundCompletes
    <3>1. nbrIter' < MaxIter /\ stack' = stack /\ pc' \in {"exit", "finish", "round"}
      BY <1>0, <2>1, <2>3 DEF RoundCompletes, RoundRejected
    <3>2. pc' = "finish" => stack = << >>
      BY <2>3 DEF RoundCompletes
    <3> QED
      BY <1>0, <2>1, <3>1, <3>2
  <2> QED
    BY <1>1, <2>2, <2>3 DEF RoundFails, RoundGivesUp, Unwind
<1>2. CASE \/ ExitEvaluationFails \/ ExitSamplingFails \/ ExitTimeEventInPast
           \/ ExitBlocksFail \/ ExitCompletes \/ ExitFindsAnotherEvent
  <2>1. pc = "exit" /\ nbrIter' = 0
    BY <1>2 DEF ExitEvaluationFails, ExitSamplingFails, ExitTimeEventInPast, ExitBlocksFail,
                ExitCompletes, ExitFindsAnotherEvent, ExitSaves, ExitEvaluates
  <2>2. CASE pc' = "failed" /\ nbrConsec' \in {nbrConsec, nbrConsec + 1}
    BY <1>0, <2>1, <2>2
  <2>3. CASE pc' = "finish" /\ nbrConsec' = 0 /\ stack' = stack
    BY <1>0, <2>1, <2>3, MaxIterAssumption
  <2>4. CASE pc' = "reenter" /\ nbrConsec' = nbrConsec + 1 /\ nbrConsec' <= 2 /\ stack' = stack
    BY <1>0, <2>1, <2>4, MaxIterAssumption
  <2> QED
    BY <1>2, <2>2, <2>3, <2>4
       DEF ExitEvaluationFails, ExitSamplingFails, ExitTimeEventInPast, ExitBlocksFail,
           ExitCompletes, ExitFindsAnotherEvent, Unwind
<1>3. CASE ReenterFails
  BY <1>0, <1>3 DEF ReenterFails, Unwind, EnterFails, EnterEvaluates
<1>4. CASE Reenter
  <2>1. UNCHANGED <<nbrIter, nbrConsec>> /\ pc = "reenter" /\ pc' \in {"round", "exit"}
    BY <1>4 DEF Reenter, EnterSucceeds, EnterReaches, EnterEvaluates, StartIteration
  <2>2. Len(stack') = Len(stack) + 1
    BY <1>0, <1>4 DEF Reenter
  <2> QED
    BY <1>0, <2>1, <2>2
<1>5. CASE FinishNested \/ FinishOutermost
  <2>1. UNCHANGED <<nbrIter, nbrConsec>> /\ pc = "finish"
    BY <1>5 DEF FinishNested, FinishOutermost, timeVars
  <2>2. CASE FinishNested
    <3>1. pc' = pc /\ stack # << >> /\ stack' = SubSeq(stack, 1, Len(stack) - 1)
      BY <2>2 DEF FinishNested
    <3>2. Len(stack) \in Nat \ {0} /\ Len(stack') = Len(stack) - 1
      BY <1>0, <3>1, PoppedStack
    <3> QED
      BY <1>0, <2>1, <3>1, <3>2
  <2>3. CASE FinishOutermost
    <3>1. pc' = "done" /\ stack' = << >>
      BY <2>3 DEF FinishOutermost
    <3> QED
      BY <1>0, <2>1, <3>1
  <2> QED
    BY <1>5, <2>2, <2>3
<1> QED
  BY <1>1, <1>2, <1>3, <1>4, <1>5 DEF EventIteration, EventIterationStep

\* jmi_exit_event_mode and jmi_event_iteration call each other at most twice
\* within one discrete update, and a loop runs at most max_iterations rounds.
THEOREM RecursionIsBounded == ASSUME Disciplined PROVE Spec => []BoundedRecursion
<1>1. Init => RecursionInv
  BY MaxIterAssumption DEF Init, JmiInit, RecursionInv, Idle
<1>2. TypeOK /\ EventInv /\ RecursionInv /\ [Next]_vars => RecursionInv'
  BY RecursionCalls, RecursionIteration DEF Next, Running
<1>3. TypeOK /\ EventInv /\ RecursionInv => BoundedRecursion
  <2> SUFFICES ASSUME TypeOK, EventInv, RecursionInv PROVE BoundedRecursion
    OBVIOUS
  <2>1. nbrIter <= MaxIter /\ nbrConsec <= 3
    BY DEF RecursionInv
  <2>2. Len(stack) <= 2
    <3>1. pc \in {"idle", "done", "failed"} => stack = << >>
      BY DEF EventInv, CallInv, PlaceInv, Idle
    <3>2. pc \in Places /\ stack \in Seq(BOOLEAN) /\ nbrConsec \in Nat
      BY DEF TypeOK, JmiTypeOK, IterTypeOK, TimeTypeOK
    <3> QED
      BY <3>1, <3>2 DEF RecursionInv, Places
  <2> QED
    BY <2>1, <2>2 DEF BoundedRecursion
<1> QED
  BY <1>1, <1>2, <1>3, TypeCorrect, EventInvariant, PTL DEF Spec
-----------------------------------------------------------------------------
(***************************************************************************)
(* State changes are reported to a caller that also reads no variable      *)
(* between the rounds of an event.                                         *)
(***************************************************************************)
Attentive == Disciplined /\ "readsAfter" \in Habits

\* Outside an iterated event no evaluation is made as if at an event.
LEMMA NotAtEvent ==
    ASSUME EventInv, PendingInv, Idle, ~failed,
           nbrIter = 0 \/ fmuMode # "event" \/ callerInfo.converged
    PROVE  ~atEvent /\ ~atInitial
  BY DEF EventInv, FlagsInv, OutInv, OutOfEvent, PendingInv

\* The calls that keep the mode, the answer and the place of a state change.
LEMMA PendingKept ==
    ASSUME TypeOK, PendingInv, Idle,
           failed' \in {failed, TRUE},
           userTerminate => userTerminate',
           ~failed' => \/ changed' \in {changed, changed \/ updatedStates}
                          /\ updatedStates' = updatedStates
                       \/ userTerminate' /\ ~callerInfo.converged,
           UNCHANGED <<atEvent, nbrIter, pc, fmuMode, callerInfo>>
    PROVE  PendingInv'
<1>1. /\ failed \in BOOLEAN /\ failed' \in BOOLEAN /\ changed \in BOOLEAN
      /\ updatedStates \in BOOLEAN /\ pc = "idle" /\ pc' = "idle"
  BY DEF TypeOK, JmiTypeOK, ModelTypeOK, Idle
<1>2. ASSUME changed', ~failed', userTerminate' => callerInfo'.converged
      PROVE  Pending'
  <2>1. changed' \in {changed, changed \/ updatedStates} /\ updatedStates' = updatedStates
    BY <1>2
  <2>2. CASE updatedStates
    BY <2>1, <2>2 DEF Pending
  <2>3. CASE ~updatedStates
    <3>1. changed /\ ~failed /\ pc # "failed" /\ (userTerminate => callerInfo.converged)
      BY <1>1, <1>2, <2>1, <2>3
    <3>2. callerInfo.statesChanged
      BY <1>1, <2>3, <3>1 DEF PendingInv, Pending, Idle
    <3> QED
      BY <1>1, <3>2 DEF Pending, Idle
  <2> QED
    BY <2>2, <2>3
<1>3. (~failed' /\ fmuMode' # "event") => ~callerInfo'.statesChanged /\ ~atEvent'
  BY <1>1 DEF PendingInv
<1>4. (Idle' /\ ~failed' /\ fmuMode' = "event" /\ nbrIter' = 0 /\ ~callerInfo'.converged)
        => ~callerInfo'.statesChanged /\ ~atEvent'
  BY <1>1 DEF PendingInv, Idle
<1> QED
  BY <1>1, <1>2, <1>3, <1>4 DEF PendingInv

\* The calls that do not touch the event keep what is known of a state change.
LEMMA PendingQuietCalls ==
    ASSUME Attentive, TypeOK, EventInv, PendingInv,
           \/ Refuse \/ InitializeFailsEarly \/ CompletedIntegratorStep
           \/ \E time \in Times : SetTime(time) \/ SetupExperiment(time)
           \/ \E v \in States : SetContinuousStates(v)
           \/ \E dv \in Values, xv \in States : SetVariables(dv, xv)
           \/ GetVariables \/ GetDerivatives \/ Terminate
    PROVE  PendingInv'
<1> USE DEF Attentive
<1> USE DEF jmiVars, flagVars, modelVars, iterVars, fmiVars, Error, OK
<1>1. CASE \/ Refuse \/ InitializeFailsEarly \/ CompletedIntegratorStep
           \/ \E time \in Times : SetTime(time) \/ SetupExperiment(time)
           \/ \E v \in States : SetContinuousStates(v)
           \/ \E dv \in Values, xv \in States : SetVariables(dv, xv)
  <2>1. /\ Idle /\ failed' \in {failed, TRUE}
        /\ UNCHANGED <<atEvent, nbrIter, pc, updatedStates, fmuMode, callerInfo,
                       userTerminate, changed>>
    <3>1. CASE Refuse
      BY <3>1 DEF Refuse, MayCall
    <3>2. CASE InitializeFailsEarly
      BY <3>2 DEF InitializeFailsEarly, MayCall
    <3>3. CASE CompletedIntegratorStep
      BY <3>3 DEF CompletedIntegratorStep, MayCall
    <3>4. ASSUME NEW time \in Times, NEW s, SetTimeOrFail(time, s)
          PROVE  failed' \in {failed, TRUE}
      BY <3>4 DEF SetTimeOrFail
    <3>5. CASE \E time \in Times : SetTime(time)
      BY <3>4, <3>5 DEF SetTime, MayCall
    <3>6. CASE \E time \in Times : SetupExperiment(time)
      BY <3>4, <3>6 DEF SetupExperiment, MayCall
    <3>7. CASE \E v \in States : SetContinuousStates(v)
      BY <3>7 DEF SetContinuousStates, MayCall
    <3>8. CASE \E dv \in Values, xv \in States : SetVariables(dv, xv)
      BY <3>8 DEF SetVariables, MayCall
    <3> QED
      BY <1>1, <3>1, <3>2, <3>3, <3>5, <3>6, <3>7, <3>8
  <2> QED
    BY <2>1, PendingKept
<1>2. CASE GetVariables \/ GetDerivatives
  <2>1. EvaluatedByRead /\ Idle /\ nbrIter = 0
    BY <1>2 DEF GetVariables, GetDerivatives, ReadSucceeds, ReadFails, ReadRetries,
                EvaluatedByRead, MayRead
  <2>2. /\ failed' = failed
        /\ UNCHANGED <<atEvent, nbrIter, pc, fmuMode, callerInfo, userTerminate>>
    BY <2>1 DEF EvaluatedByRead
  <2>3. ASSUME ~failed
        PROVE  changed' = (changed \/ updatedStates) /\ updatedStates' = updatedStates
    <3>1. ~atEvent /\ ~atInitial
      BY <2>1, <2>3, NotAtEvent
    <3>2. updatedStates \in BOOLEAN
      BY DEF TypeOK, JmiTypeOK, ModelTypeOK
    <3>3. x' = x /\ updatedStates' = updatedStates
      BY <2>1, <3>1, <3>2 DEF EvaluatedByRead, OdeDerivatives
    <3> QED
      BY <2>1, <3>3 DEF EvaluatedByRead, TrackChange
  <2> QED
    BY <2>1, <2>2, <2>3, PendingKept
<1>3. CASE Terminate
  <2>1. Idle /\ ~userTerminate /\ ~failed
    BY <1>3, DisciplinedCall DEF Terminate
  <2>2. UNCHANGED <<atEvent, nbrIter, pc, fmuMode, callerInfo>> /\ failed' \in {failed, TRUE}
    BY <1>3 DEF Terminate
  <2>3. ASSUME ~failed', callerInfo.converged
        PROVE  changed' \in {changed, changed \/ updatedStates} /\ updatedStates' = updatedStates
    <3>1. CASE recompute
      <4>1. ~atEvent /\ ~atInitial
        BY <2>1, <2>3, NotAtEvent
      <4>2. updatedStates \in BOOLEAN
        BY DEF TypeOK, JmiTypeOK, ModelTypeOK
      <4>3. x' = x /\ updatedStates' = updatedStates
        BY <1>3, <3>1, <4>1, <4>2 DEF Terminate, OdeDerivatives
      <4> QED
        BY <1>3, <3>1, <4>3 DEF Terminate, TrackChange
    <3>2. CASE ~recompute
      BY <1>3, <3>2 DEF Terminate
    <3> QED
      BY <3>1, <3>2
  <2>4. ~failed' => userTerminate'
    BY <1>3 DEF Terminate
  <2> QED
    BY <2>1, <2>2, <2>3, <2>4, PendingKept
<1> QED
  BY <1>1, <1>2, <1>3

\* The calls that begin an event, end it or reset the FMU.
LEMMA PendingModeCalls ==
    ASSUME Attentive, TypeOK, EventInv, PendingInv,
           \/ InitializeFails \/ InitializeFailsLate \/ EnterInitializationMode \/ Reset
           \/ EnterEventMode \/ ExitInitializationMode
           \/ EnterContinuousTimeMode \/ NewDiscreteStates
    PROVE  PendingInv'
<1> USE DEF Attentive, PendingInv, Idle, FreshInfo
<1>1. CASE InitializeFails \/ InitializeFailsLate
  BY <1>1 DEF InitializeFails, InitializeFailsLate, InitializeSolves, Initializes, Error,
              MayCall, iterVars
<1>2. CASE EnterInitializationMode
  <2>1. ~failed /\ pc = "idle" /\ fmuMode = "instantiated"
    BY <1>2, DisciplinedCall DEF EnterInitializationMode, InitializeSolves, Initializes
  <2>2. /\ pc' = "idle" /\ callerInfo' = callerInfo /\ changed' = updatedStates'
        /\ fmuMode' = "initialization" /\ ~atEvent'
    BY <1>2, <2>1 DEF EnterInitializationMode, InitializeSolves, Initializes, iterVars
  <2> QED
    BY <2>1, <2>2 DEF Pending
<1>3. CASE Reset
  BY <1>3 DEF Reset
<1>4. ASSUME NEW mode \in {"continuous", "initialization"}, EnterEvent(mode) PROVE PendingInv'
  <2>1. ~failed /\ pc = "idle" /\ fmuMode = mode /\ ~userTerminate
    BY <1>4, DisciplinedCall DEF EnterEvent
  <2>2. ~atEvent /\ ~atInitial
    BY <2>1, NotAtEvent
  <2>3. pc' = "idle" /\ UNCHANGED <<nbrIter, atEvent>>
    BY <1>4, <2>1 DEF EnterEvent, iterVars
  <2>4. CASE Error
    BY <2>3, <2>4 DEF Error
  <2>5. CASE OK /\ fmuMode' = "event" /\ callerInfo' = FreshInfo
    <3>1. x' = x /\ updatedStates' = updatedStates
      BY <1>4, <2>2 DEF EnterEvent, EnterFails, EnterPassed, EnterSucceeds, EnterReaches,
                        EnterEvaluates, OdeDerivatives, TypeOK, JmiTypeOK, ModelTypeOK
    <3>2. changed' = (changed \/ updatedStates)
      BY <1>4, <3>1 DEF EnterEvent, TrackChange
    <3>3. changed => updatedStates
      BY <2>1 DEF Pending
    <3> QED
      BY <2>2, <2>3, <2>5, <3>1, <3>2, <3>3 DEF Pending
  <2> QED
    BY <1>4, <2>4, <2>5 DEF EnterEvent
<1>5. CASE EnterContinuousTimeMode
  <2>1. ~failed /\ pc = "idle" /\ callerInfo.converged
    BY <1>5, DisciplinedCall DEF EnterContinuousTimeMode, Disciplined
  <2>2. ~atEvent
    BY <2>1, NotAtEvent
  <2> QED
    BY <1>5, <2>1, <2>2 DEF EnterContinuousTimeMode, jmiVars, flagVars, iterVars
<1>6. CASE NewDiscreteStates
  <2>1. ~failed /\ pc = "idle" /\ fmuMode = "event" /\ ~callerInfo.converged /\ ~userTerminate
    BY <1>6, DisciplinedCall DEF NewDiscreteStates, Disciplined
  <2>2. StartIteration(callerInfo)
    BY <1>6 DEF NewDiscreteStates, PassedInfos, Disciplined
  <2>3. pc' = "round" /\ info'.statesChanged = callerInfo.statesChanged
    <3>1. callerInfo.statesChanged \in BOOLEAN
      BY DEF TypeOK, Infos
    <3>2. nbrIter = 0 => callerInfo.statesChanged = FALSE
      BY <2>1, <3>1
    <3> QED
      BY <2>1, <2>2, <3>2 DEF StartIteration
  <2>4. UNCHANGED <<failed, changed, fmuMode, userTerminate, callerInfo, updatedStates>>
    BY <1>6 DEF NewDiscreteStates, fmiVars, historyVars, modelVars
  <2> QED
    BY <2>1, <2>3, <2>4 DEF Pending
<1> QED
  BY <1>1, <1>2, <1>3, <1>4, <1>5, <1>6 DEF EnterEventMode, ExitInitializationMode

\* A round of the iteration that goes on, or ends at its fixed point.
LEMMA PendingRound ==
    ASSUME TypeOK, EventInv, PendingInv, EventIteration, RoundCompletes
    PROVE  PendingInv'
<1>1. /\ pc = "round" /\ ~failed /\ fmuMode = "event" /\ ~callerInfo.converged
      /\ UNCHANGED <<failed, fmuMode, callerInfo, userTerminate, stack>>
      /\ pc' \in {"exit", "finish", "round"} /\ nbrIter \in Nat /\ nbrIter' = nbrIter + 1
  BY DEF RoundCompletes, RoundEvaluates, EventIteration, fmiVars, EventInv, CallInv, Idle,
         TypeOK, JmiTypeOK, IterTypeOK
<1>2. /\ info.statesChanged => info'.statesChanged
      /\ reinitTriggered' => info'.statesChanged
  BY DEF RoundCompletes, Compared, TypeOK, JmiTypeOK, IterTypeOK, Infos
<1>3. /\ x' = x \/ reinitTriggered'
      /\ updatedStates => updatedStates'
  BY DEF RoundCompletes, RoundEvaluates, OdeDerivatives, TypeOK, JmiTypeOK, ModelTypeOK
<1>4. changed' = (changed \/ x' # x \/ updatedStates')
  BY DEF EventIteration, TrackChange
<1>5. Pending => Pending'
  BY <1>1, <1>2, <1>3 DEF Pending, Idle
<1>6. (x' # x \/ updatedStates') => Pending'
  BY <1>1, <1>2, <1>3 DEF Pending, Idle
<1>7. (changed /\ (userTerminate => callerInfo.converged)) => Pending
  BY <1>1 DEF PendingInv
<1>8. (changed' /\ (userTerminate' => callerInfo'.converged)) => Pending'
  BY <1>1, <1>4, <1>5, <1>6, <1>7
<1>9. nbrIter' > 0
  BY <1>1
<1> QED
  BY <1>1, <1>8, <1>9 DEF PendingInv, Idle

\* The evaluation of jmi_exit_event_mode changes no state.
LEMMA PendingExit ==
    ASSUME TypeOK, EventInv, PendingInv, EventIteration,
           ExitCompletes \/ ExitFindsAnotherEvent, pc' # "failed"
    PROVE  PendingInv'
<1>1. ExitEvaluates /\ info' = NextReported /\ stack' = stack /\ pc' \in {"finish", "reenter"}
  BY DEF ExitCompletes, ExitFindsAnotherEvent, ExitSaves, Unwind
<1>2. /\ pc = "exit" /\ ~failed /\ fmuMode = "event" /\ ~callerInfo.converged
      /\ ~atInitial /\ info.converged
      /\ UNCHANGED <<failed, fmuMode, callerInfo, userTerminate>>
  BY <1>1 DEF ExitEvaluates, EventIteration, fmiVars, EventInv, CallInv, FlagsInv, PlaceInv, Idle
<1>3. info'.statesChanged = info.statesChanged /\ info'.converged
  BY <1>1, <1>2 DEF NextReported, TypeOK, JmiTypeOK, IterTypeOK, Infos
<1>4. x' = x /\ updatedStates' = updatedStates
  BY <1>1, <1>2 DEF ExitEvaluates, OdeDerivatives, TypeOK, JmiTypeOK, ModelTypeOK
<1>5. changed' = (changed \/ updatedStates)
  BY <1>4 DEF EventIteration, TrackChange
<1>6. Pending' = Pending
  BY <1>1, <1>2, <1>3, <1>4 DEF Pending, Idle
<1>7. (changed /\ (userTerminate => callerInfo.converged)) => Pending
  BY <1>2 DEF PendingInv
<1>8. updatedStates => Pending
  BY DEF Pending
<1> QED
  BY <1>1, <1>2, <1>3, <1>5, <1>6, <1>7, <1>8 DEF PendingInv, Idle

\* A nested event starts with a fresh event_info and stacks the answer so far.
LEMMA PendingReenter ==
    ASSUME TypeOK, EventInv, PendingInv, EventIteration, Reenter
    PROVE  PendingInv'
<1>1. /\ pc = "reenter" /\ ~failed /\ fmuMode = "event" /\ ~callerInfo.converged
      /\ ~atInitial /\ ~atEvent
      /\ UNCHANGED <<failed, fmuMode, callerInfo, userTerminate>>
  BY DEF Reenter, EventIteration, fmiVars, EventInv, CallInv, FlagsInv, PlaceInv, Idle
<1>2. pc' \in {"exit", "round"}
  BY DEF Reenter, StartIteration
<1>3. x' = x /\ updatedStates' = updatedStates
  BY <1>1 DEF Reenter, EnterSucceeds, EnterReaches, EnterEvaluates, OdeDerivatives,
              TypeOK, JmiTypeOK, ModelTypeOK
<1>4. changed' = (changed \/ updatedStates)
  BY <1>3 DEF EventIteration, TrackChange
<1>5. stack \in Seq(BOOLEAN) /\ info.statesChanged \in BOOLEAN
      /\ stack' = Append(stack, info.statesChanged)
  BY DEF Reenter, TypeOK, JmiTypeOK, IterTypeOK, Infos
<1>6. Pending => Pending'
  <2>1. CASE updatedStates
    BY <1>3, <2>1 DEF Pending
  <2>2. CASE info.statesChanged
    <3>1. Len(stack') \in DOMAIN stack' /\ stack'[Len(stack')] = info.statesChanged
      BY <1>5, AppendProperties
    <3> QED
      BY <1>2, <2>2, <3>1 DEF Pending, Idle
  <2>3. ASSUME NEW k \in DOMAIN stack, stack[k] PROVE Pending'
    <3>1. k \in 1 .. Len(stack) /\ Len(stack) \in Nat
      BY <1>5, <2>3, LenProperties
    <3>2. stack' \in Seq(BOOLEAN) /\ Len(stack') = Len(stack) + 1 /\ stack'[k] = stack[k]
      BY <1>5, <3>1, AppendProperties
    <3>3. k \in DOMAIN stack'
      BY <3>1, <3>2, LenProperties
    <3> QED
      BY <1>2, <2>3, <3>2, <3>3 DEF Pending, Idle
  <2> QED
    BY <1>1, <2>1, <2>2, <2>3 DEF Pending, Idle
<1>7. (changed /\ (userTerminate => callerInfo.converged)) => Pending
  BY <1>1 DEF PendingInv
<1>8. updatedStates => Pending
  BY DEF Pending
<1> QED
  BY <1>1, <1>2, <1>4, <1>6, <1>7, <1>8 DEF PendingInv, Idle

\* The end of an activation adds what it found to what was stacked.
LEMMA PendingFinish ==
    ASSUME TypeOK, EventInv, PendingInv, EventIteration, FinishNested \/ FinishOutermost
    PROVE  PendingInv'
<1>1. /\ pc = "finish" /\ pc' \in {"finish", "done"} /\ ~failed /\ fmuMode = "event"
      /\ ~callerInfo.converged /\ nbrIter' = nbrIter /\ x' = x /\ updatedStates' = FALSE
      /\ UNCHANGED <<failed, fmuMode, callerInfo, userTerminate>>
  BY DEF FinishNested, FinishOutermost, EventIteration, fmiVars, zVars, EventInv, CallInv, Idle
<1>2. changed' = changed
  BY <1>1 DEF EventIteration, TrackChange, TypeOK
<1>3. /\ Finished \in Infos /\ Finished.converged = info.converged
      /\ (updatedStates \/ info.statesChanged) => Finished.statesChanged
  BY DEF Finished, TypeOK, JmiTypeOK, IterTypeOK, ModelTypeOK, Infos
<1>4. info'.converged = info.converged /\ (Pending => Pending')
  <2>1. CASE FinishOutermost
    <3>1. info' = Finished /\ stack = << >>
      BY <2>1 DEF FinishOutermost
    <3>2. Pending => info'.statesChanged
      BY <1>1, <1>3, <3>1 DEF Pending, Idle
    <3> QED
      BY <1>1, <1>3, <3>1, <3>2 DEF Pending, Idle
  <2>2. CASE FinishNested
    <3> DEFINE s == Finished.statesChanged \/ stack[Len(stack)]
    <3>1. s \in BOOLEAN /\ (stack[Len(stack)] => s) /\ (Finished.statesChanged => s)
      OBVIOUS
    <3>2. info' = [Finished EXCEPT !.statesChanged = s]
      BY <2>2 DEF FinishNested
    <3> HIDE DEF s
    <3>3. info'.converged = info.converged /\ info'.statesChanged = s
      BY <1>3, <3>1, <3>2 DEF Infos
    <3>4. stack \in Seq(BOOLEAN) /\ stack # << >> /\ stack' = SubSeq(stack, 1, Len(stack) - 1)
      BY <2>2 DEF FinishNested, TypeOK, JmiTypeOK, IterTypeOK
    <3>5. CASE updatedStates \/ info.statesChanged \/ stack[Len(stack)]
      BY <1>1, <1>3, <3>1, <3>3, <3>5 DEF Pending, Idle
    <3>6. ASSUME NEW k \in DOMAIN stack, stack[k], k # Len(stack) PROVE Pending'
      <4>1. k \in 1 .. Len(stack) - 1 /\ DOMAIN stack' = 1 .. Len(stack) - 1
        BY <3>4, <3>6, PoppedStack, LenProperties
      <4>2. stack'[k] = stack[k]
        BY <3>4, <4>1, PoppedStack
      <4> QED
        BY <1>1, <3>6, <4>1, <4>2 DEF Pending, Idle
    <3> QED
      BY <1>1, <3>3, <3>5, <3>6 DEF Pending, Idle
  <2> QED
    BY <2>1, <2>2
<1>5. (changed /\ (userTerminate => callerInfo.converged)) => Pending
  BY <1>1 DEF PendingInv
<1> QED
  BY <1>1, <1>2, <1>4, <1>5 DEF PendingInv, Idle

\* What the update found becomes the answer of the call.
LEMMA PendingReturn ==
    ASSUME TypeOK, EventInv, PendingInv, NewDiscreteStatesReturns
    PROVE  PendingInv'
<1>1. /\ pc' = "idle" /\ ~failed /\ fmuMode = "event" /\ ~callerInfo.converged
      /\ ~userTerminate /\ stack = << >> /\ nbrIter \in Nat
      /\ UNCHANGED <<changed, fmuMode, userTerminate, updatedStates, nbrIter>>
  BY DEF NewDiscreteStatesReturns, modelVars, EventInv, CallInv, PlaceInv, Idle,
         TypeOK, JmiTypeOK, IterTypeOK
<1>2. CASE pc = "done" /\ OK /\ callerInfo' = info
  <2>1. ~updatedStates
    BY <1>2 DEF EventInv, PlaceInv
  <2>2. ~info.converged => nbrIter > 0
    BY <1>2 DEF PendingInv
  <2>3. changed => info.statesChanged
    BY <1>1, <1>2, <2>1 DEF PendingInv, Pending, Idle
  <2> QED
    BY <1>1, <1>2, <2>2, <2>3 DEF PendingInv, Pending, Idle
<1>3. CASE Error
  BY <1>1, <1>3 DEF PendingInv, Error, Idle
<1> QED
  BY <1>2, <1>3 DEF NewDiscreteStatesReturns

\* PendingInv is preserved by every step of an attentive caller.
LEMMA PendingStep ==
    ASSUME Attentive, TypeOK, EventInv, PendingInv, [Next]_vars PROVE PendingInv'
<1>1. CASE Call
  BY <1>1, PendingQuietCalls, PendingModeCalls DEF Call
<1>2. CASE EventIteration
  <2>1. CASE pc' = "failed"
    <3>1. ~failed /\ fmuMode = "event" /\ UNCHANGED <<failed, fmuMode>>
      <4>1. ~Idle
        BY <1>2, <2>1
           DEF EventIteration, EventIterationStep, RoundFails, RoundGivesUp, RoundCompletes,
               RoundEvaluates, ExitEvaluationFails, ExitSamplingFails, ExitTimeEventInPast,
               ExitBlocksFail, ExitCompletes, ExitFindsAnotherEvent, ExitSaves, ExitEvaluates,
               ReenterFails, Reenter, FinishNested, FinishOutermost, Idle
      <4> QED
        BY <1>2, <4>1 DEF EventIteration, fmiVars, EventInv, CallInv
    <3> QED
      BY <2>1, <3>1 DEF PendingInv, Idle
  <2>2. CASE pc' # "failed"
    BY <1>2, <2>2, PendingRound, PendingExit, PendingReenter, PendingFinish
       DEF EventIteration, EventIterationStep, RoundFails, RoundGivesUp, ExitEvaluationFails,
           ExitSamplingFails, ExitTimeEventInPast, ExitBlocksFail, ReenterFails, Unwind
  <2> QED
    BY <2>1, <2>2
<1>3. CASE NewDiscreteStatesReturns
  BY <1>3, PendingReturn
<1>4. CASE UNCHANGED vars
  BY <1>4 DEF vars, jmiVars, zVars, flagVars, modelVars, iterVars, fmiVars, historyVars,
              PendingInv, Pending, Idle
<1> QED
  BY <1>1, <1>2, <1>3, <1>4 DEF Next, Running

\* Whatever changes the states within an event, in whichever round or nested
\* time event, the answer that ends the event reports it.
THEOREM StateChangesAreReported == ASSUME Attentive PROVE Spec => []StateChangeReported
<1>1. Init => PendingInv
  BY DEF Init, JmiInit, PendingInv, Pending, Idle, FreshInfo
<1>2. TypeOK /\ EventInv /\ PendingInv /\ [Next]_vars => PendingInv'
  BY PendingStep
<1>3. TypeOK /\ EventInv /\ PendingInv => StateChangeReported
  BY DEF TypeOK, EventInv, OutInv, OutOfEvent, PendingInv, Pending, StateChangeReported,
         EventHandled, Idle
<1>4. Disciplined
  BY DEF Attentive
<1>5. Spec => []EventInv
  BY <1>4, EventInvariant
<1> QED
  BY <1>1, <1>2, <1>3, <1>5, TypeCorrect, PTL DEF Spec
-----------------------------------------------------------------------------
(***************************************************************************)
(* Time events.                                                            *)
(***************************************************************************)
\* a time event that is due, within the tolerance
Due == nextTimeEvent.defined /\ nextTimeEvent.time - t < TimeEps
\* it has been noticed, with its phase
Noticed == Due => atTimeEvent /\ eventPhase = nextTimeEvent.phase
\* the event information i answers the next time event
Answered(i) ==
    /\ i.nextDefined = nextTimeEvent.defined
    /\ nextTimeEvent.defined => i.nextTime = nextTimeEvent.time /\ i.nextTime >= t

\* A time event is noticed from the beginning of an event until the iteration
\* exits; after the last exit the next one is answered.
TimeInv ==
    /\ \/ pc \in {"round", "exit"}
       \/ pc \in {"finish", "done"} /\ ~info.converged
       \/ Idle /\ ~failed /\ fmuMode = "event" /\ ~callerInfo.converged
       => Noticed
    /\ pc \in {"finish", "done"} /\ info.converged => Answered(info)
    /\ EventHandled => Answered(callerInfo)

\* The calls that leave the time, the time events, the mode and the answer.
LEMMA TimeKept ==
    ASSUME TypeOK, TimeInv, Idle, failed' \in {failed, TRUE},
           UNCHANGED <<t, timeVars, pc, fmuMode, callerInfo>>
    PROVE  TimeInv'
<1>1. failed \in BOOLEAN /\ (~failed' => ~failed) /\ pc' = "idle"
  BY DEF TypeOK, Idle
<1>2. (Noticed' <=> Noticed) /\ (Answered(callerInfo)' <=> Answered(callerInfo))
  BY DEF Noticed, Due, Answered, timeVars
<1> QED
  BY <1>1, <1>2 DEF TimeInv, EventHandled, Idle

\* The calls that an ordered importer does not make within an event, or that end
\* it, or fail.
LEMMA TimeOutside ==
    ASSUME Idle', failed' \/ fmuMode' # "event"
    PROVE  TimeInv'
  BY DEF TimeInv, EventHandled, Idle

LEMMA TimesAreNumbers ==
    /\ \A u \in Times : u \in Int
    /\ \A n \in TimeEvents : n.defined \in BOOLEAN /\ n.time \in Int
<1>1. \A u \in Times : u \in Int
  BY MaxTimeAssumption DEF Times
<1>2. ASSUME NEW n \in TimeEvents PROVE n.defined \in BOOLEAN /\ n.time \in Int
  <2>1. CASE n = NoTimeEvent
    BY <2>1 DEF NoTimeEvent
  <2>2. CASE n \in [defined : {TRUE}, time : Times, phase : Phases]
    BY <1>1, <2>2
  <2> QED
    BY <2>1, <2>2 DEF TimeEvents
<1> QED
  BY <1>1, <1>2

\* What jmi_enter_event_mode notices: a time event that is due, unless the step
\* went past it, which is an error.
LEMMA EnterNotices ==
    ASSUME TypeOK, EnterSucceeds
    PROVE  Noticed'
<1>1. t \in Int /\ TimeEps \in Nat \ {0} /\ (nextTimeEvent.defined => nextTimeEvent.time \in Int)
  BY TimeEpsAssumption, TimesAreNumbers DEF TypeOK, JmiTypeOK, ZTypeOK, TimeTypeOK
<1>2. /\ t' = t /\ nextTimeEvent' = nextTimeEvent
      /\ atTimeEvent' = (nextTimeEvent.defined /\ Near(t, nextTimeEvent.time))
      /\ atTimeEvent' => eventPhase' = nextTimeEvent.phase
  BY DEF EnterSucceeds, EnterReaches, EnterEvaluates
<1>3. ~(nextTimeEvent.defined /\ t - nextTimeEvent.time >= TimeEps)
  BY DEF EnterSucceeds, Passed
<1>4. Due => Near(t, nextTimeEvent.time)
  BY <1>1, <1>3 DEF Due, Near
<1> QED
  BY <1>2, <1>4 DEF Noticed, Due

LEMMA TimeCalls ==
    ASSUME Disciplined, TypeOK, EventInv, TimeInv, Call
    PROVE  TimeInv'
<1> USE DEF Error, OK
<1>1. CASE \/ Refuse \/ InitializeFailsEarly \/ CompletedIntegratorStep
           \/ \E v \in States : SetContinuousStates(v)
           \/ \E dv \in Values, xv \in States : SetVariables(dv, xv)
  BY <1>1, TimeKept
     DEF Refuse, InitializeFailsEarly, CompletedIntegratorStep, SetContinuousStates,
         SetVariables, MayCall, jmiVars, zVars, iterVars, fmiVars
<1>2. CASE GetVariables \/ GetDerivatives \/ Terminate
  BY <1>2, TimeKept
     DEF GetVariables, GetDerivatives, ReadSucceeds, ReadFails, ReadRetries, EvaluatedByRead,
         MayRead, Terminate, MayCall, iterVars, fmiVars
<1>3. ASSUME NEW time \in Times, SetTime(time) \/ SetupExperiment(time) PROVE TimeInv'
  <2>1. Idle /\ fmuMode \in {"continuous", "instantiated"}
    BY <1>3, DisciplinedCall DEF SetTime, SetupExperiment
  <2>2. UNCHANGED <<pc, fmuMode>>
    BY <1>3 DEF SetTime, SetupExperiment, iterVars, fmiVars
  <2> QED
    BY <2>1, <2>2, TimeOutside DEF Idle
<1>4. CASE InitializeFails \/ InitializeFailsLate \/ EnterInitializationMode \/ Reset
  <2>1. Idle'
    BY <1>4 DEF InitializeFails, InitializeFailsLate, EnterInitializationMode,
                InitializeSolves, Initializes, Reset, MayCall, iterVars, Idle
  <2>2. failed' \/ fmuMode' # "event"
    BY <1>4 DEF InitializeFails, InitializeFailsLate, EnterInitializationMode, Reset
  <2> QED
    BY <2>1, <2>2, TimeOutside
<1>5. ASSUME NEW mode, EnterEvent(mode) PROVE TimeInv'
  <2>1. Idle'
    BY <1>5 DEF EnterEvent, MayCall, iterVars, Idle
  <2>2. CASE failed'
    BY <2>1, <2>2, TimeOutside
  <2>3. CASE EnterSucceeds /\ callerInfo' = FreshInfo
    <3>1. Noticed' /\ ~callerInfo'.converged
      BY <2>3, EnterNotices DEF FreshInfo
    <3> QED
      BY <2>1, <3>1 DEF TimeInv, EventHandled, Idle
  <2> QED
    BY <1>5, <2>2, <2>3 DEF EnterEvent
<1>6. CASE EnterContinuousTimeMode
  BY <1>6, TimeOutside DEF EnterContinuousTimeMode, MayCall, jmiVars, iterVars, Idle
<1>7. CASE NewDiscreteStates
  <2>1. ~failed /\ fmuMode = "event" /\ Idle /\ ~callerInfo.converged
    BY <1>7, DisciplinedCall DEF NewDiscreteStates, Disciplined
  <2>2. StartIteration(callerInfo)
    BY <1>7 DEF NewDiscreteStates, PassedInfos, Disciplined
  <2>3. pc' = "round"
    BY <2>1, <2>2 DEF StartIteration, FreshInfo
  <2>4. Noticed'
    BY <1>7, <2>1 DEF NewDiscreteStates, TimeInv, Noticed, Due, zVars, timeVars
  <2> QED
    BY <2>3, <2>4 DEF TimeInv, EventHandled, Idle
<1> QED
  BY <1>1, <1>2, <1>3, <1>4, <1>5, <1>6, <1>7
     DEF Call, EnterEventMode, ExitInitializationMode

LEMMA TimeIteration ==
    ASSUME TypeOK, EventInv, TimeInv, EventIteration
    PROVE  TimeInv'
<1>1. CASE pc' = "failed"
  BY <1>1 DEF TimeInv, EventHandled, Idle
<1>2. CASE RoundCompletes
  <2>1. Noticed /\ UNCHANGED <<t, nextTimeEvent, atTimeEvent, eventPhase>>
        /\ info' = Compared
        /\ pc' \in {"exit", "finish", "round"} /\ (info'.converged => pc' = "exit")
    BY <1>2 DEF RoundCompletes, RoundEvaluates, timeVars, TimeInv
  <2> QED
    BY <2>1 DEF TimeInv, Noticed, Due, EventHandled, Idle
<1>3. CASE ExitCompletes
  <2>1. /\ pc' = "finish" /\ info' = NextReported /\ UNCHANGED t
        /\ ~InThePast /\ info.converged
        /\ nextTimeEvent' \in TimeEvents
    BY <1>3 DEF ExitCompletes, ExitSaves, ExitEvaluates, ExitFindsNextTimeEvent, EventInv,
                PlaceInv
  <2>2. info \in Infos /\ t \in Int /\ (nextTimeEvent'.defined => nextTimeEvent'.time \in Int)
    BY <2>1, TimesAreNumbers DEF TypeOK, JmiTypeOK, IterTypeOK, ZTypeOK
  <2>3. /\ info'.converged /\ info'.nextDefined = nextTimeEvent'.defined
        /\ nextTimeEvent'.defined => info'.nextTime = nextTimeEvent'.time
    BY <2>1, <2>2 DEF NextReported, Infos
  <2>4. Answered(info)'
    BY <2>1, <2>2, <2>3 DEF Answered, InThePast
  <2> QED
    BY <2>1, <2>3, <2>4 DEF TimeInv, EventHandled, Idle
<1>4. CASE ExitFindsAnotherEvent /\ pc' # "failed"
  <2>1. pc' = "reenter"
    BY <1>4 DEF ExitFindsAnotherEvent, Unwind
  <2> QED
    BY <2>1 DEF TimeInv, EventHandled, Idle
<1>5. CASE Reenter
  <2>1. EnterSucceeds /\ pc' \in {"round", "exit"}
    BY <1>5 DEF Reenter, StartIteration
  <2> QED
    BY <2>1, EnterNotices DEF TimeInv, EventHandled, Idle
<1>6. CASE FinishNested \/ FinishOutermost
  <2>1. /\ pc = "finish" /\ pc' \in {"finish", "done"} /\ (pc' = "done" => FinishOutermost)
        /\ UNCHANGED <<t, nextTimeEvent, atTimeEvent, eventPhase>>
    BY <1>6 DEF FinishNested, FinishOutermost, zVars, timeVars
  <2>2. /\ info'.converged = info.converged /\ info'.nextDefined = info.nextDefined
        /\ info'.nextTime = info.nextTime
    <3>1. /\ Finished \in Infos /\ Finished.converged = info.converged
          /\ Finished.nextDefined = info.nextDefined /\ Finished.nextTime = info.nextTime
      BY DEF Finished, TypeOK, JmiTypeOK, IterTypeOK, ModelTypeOK, Infos
    <3>2. CASE FinishOutermost
      BY <3>1, <3>2 DEF FinishOutermost
    <3>3. CASE FinishNested
      <4> DEFINE s == Finished.statesChanged \/ stack[Len(stack)]
      <4>1. info' = [Finished EXCEPT !.statesChanged = s]
        BY <3>3 DEF FinishNested
      <4> HIDE DEF s
      <4> QED
        BY <3>1, <4>1 DEF Infos
    <3> QED
      BY <1>6, <3>2, <3>3
  <2>3. (Noticed' <=> Noticed) /\ (Answered(info)' <=> Answered(info))
    BY <2>1, <2>2 DEF Noticed, Due, Answered
  <2> QED
    BY <2>1, <2>2, <2>3 DEF TimeInv, EventHandled, Idle
<1> QED
  BY <1>1, <1>2, <1>3, <1>4, <1>5, <1>6
     DEF EventIteration, EventIterationStep, RoundFails, RoundGivesUp, ExitEvaluationFails,
         ExitSamplingFails, ExitTimeEventInPast, ExitBlocksFail, ReenterFails, Unwind

LEMMA TimeReturns ==
    ASSUME TypeOK, EventInv, TimeInv, NewDiscreteStatesReturns
    PROVE  TimeInv'
<1>1. /\ Idle' /\ ~Idle /\ fmuMode' = "event"
      /\ UNCHANGED <<t, nextTimeEvent, atTimeEvent, eventPhase>>
  BY DEF NewDiscreteStatesReturns, EventInv, CallInv, zVars, timeVars, Idle
<1>2. CASE failed'
  BY <1>1, <1>2, TimeOutside
<1>3. CASE pc = "done" /\ callerInfo' = info
  <2>1. (Noticed' <=> Noticed) /\ (Answered(callerInfo)' <=> Answered(info))
    BY <1>1, <1>3 DEF Noticed, Due, Answered
  <2> QED
    BY <1>1, <1>3, <2>1 DEF TimeInv, EventHandled, Idle
<1> QED
  BY <1>2, <1>3 DEF NewDiscreteStatesReturns, Error

\* The invariant of time events.
THEOREM TimeInvariant == ASSUME Disciplined PROVE Spec => []TimeInv
<1>1. Init => TimeInv
  BY DEF Init, JmiInit, TimeInv, EventHandled, Idle
<1>2. TypeOK /\ EventInv /\ TimeInv /\ [Next]_vars => TimeInv'
  <2> SUFFICES ASSUME TypeOK, EventInv, TimeInv, [Next]_vars PROVE TimeInv'
    OBVIOUS
  <2>1. CASE UNCHANGED vars
    BY <2>1 DEF vars, jmiVars, zVars, timeVars, modelVars, iterVars, fmiVars, historyVars,
                TimeInv, Noticed, Due, Answered, EventHandled, Idle
  <2> QED
    BY <2>1, TimeCalls, TimeIteration, TimeReturns DEF Next, Running
<1> QED
  BY <1>1, <1>2, TypeCorrect, EventInvariant, PTL DEF Spec

\* The next time event that the importer is told is the one the FMU checks itself
\* against, and not in the past.
THEOREM NextTimeEventIsReported == ASSUME Disciplined PROVE Spec => []NextTimeEventReported
<1>1. TimeInv => NextTimeEventReported
  BY DEF TimeInv, NextTimeEventReported, Answered
<1> QED
  BY <1>1, TimeInvariant, PTL

\* A time event that is due is noticed before the event is iterated, in a nested
\* event too, so that none is replaced before it is met.
THEOREM DueTimeEventIsMet == ASSUME Disciplined PROVE Spec => []DueTimeEventMet
<1>1. TypeOK /\ TimeInv => DueTimeEventMet
  <2> SUFFICES ASSUME TypeOK, TimeInv, pc \in {"round", "exit"},
                      nextTimeEvent.defined, nextTimeEvent.time <= t
               PROVE  atTimeEvent
    BY DEF DueTimeEventMet
  <2>1. t \in Int /\ nextTimeEvent.time \in Int /\ TimeEps \in Nat \ {0}
    BY TimeEpsAssumption, TimesAreNumbers DEF TypeOK, JmiTypeOK, ZTypeOK, TimeTypeOK
  <2>2. Due
    BY <2>1 DEF Due
  <2> QED
    BY <2>2 DEF TimeInv, Noticed
<1> QED
  BY <1>1, TimeInvariant, TypeCorrect, PTL
-----------------------------------------------------------------------------
\* Before the model is initialized it has no time event.
StartInv == ~initialized => fmuMode = "instantiated" /\ ~nextTimeEvent.defined

\* Where the next time event changes: jmi_initialize, the reset of the FMU, and
\* the end of an iteration.
LEMMA NextTimeEventChanges ==
    ASSUME Next, nextTimeEvent' # nextTimeEvent
    PROVE  \/ InitializeSolves
           \/ Reset
           \/ EventIteration /\ pc = "exit"
<1>1. CASE Call
  <2>1. ASSUME \E time \in Times : SetTime(time) \/ SetupExperiment(time)
        PROVE  UNCHANGED nextTimeEvent
    BY <2>1 DEF SetTime, SetupExperiment, timeVars
  <2>2. \/ Refuse \/ InitializeFailsEarly \/ InitializeFails \/ CompletedIntegratorStep
        \/ NewDiscreteStates \/ EnterContinuousTimeMode \/ Terminate
        => UNCHANGED nextTimeEvent
    BY DEF Refuse, InitializeFailsEarly, InitializeFails, CompletedIntegratorStep,
           NewDiscreteStates, EnterContinuousTimeMode, Terminate, jmiVars, timeVars
  <2>3. EnterEventMode \/ ExitInitializationMode => UNCHANGED nextTimeEvent
    BY DEF EnterEventMode, ExitInitializationMode, EnterEvent, EnterFails, EnterPassed,
           EnterSucceeds, EnterReaches, EnterEvaluates
  <2>4. ASSUME \/ \E v \in States : SetContinuousStates(v)
               \/ \E dv \in Values, xv \in States : SetVariables(dv, xv)
        PROVE  UNCHANGED nextTimeEvent
    BY <2>4 DEF SetContinuousStates, SetVariables, timeVars
  <2>5. GetVariables \/ GetDerivatives => UNCHANGED nextTimeEvent
    BY DEF GetVariables, GetDerivatives, ReadSucceeds, ReadFails, ReadRetries, EvaluatedByRead,
           timeVars
  <2> QED
    BY <1>1, <2>1, <2>2, <2>3, <2>4, <2>5
       DEF Call, InitializeFailsLate, EnterInitializationMode
<1>2. CASE EventIteration
  <2>1. RoundEvaluates => UNCHANGED nextTimeEvent
    BY DEF RoundEvaluates, timeVars
  <2>2. ReenterFails \/ Reenter => UNCHANGED nextTimeEvent
    BY DEF ReenterFails, Reenter, EnterFails, EnterSucceeds, EnterReaches, EnterEvaluates
  <2>3. FinishNested \/ FinishOutermost => UNCHANGED nextTimeEvent
    BY DEF FinishNested, FinishOutermost, timeVars
  <2>4. \/ ExitEvaluationFails \/ ExitSamplingFails \/ ExitTimeEventInPast
        \/ ExitBlocksFail \/ ExitCompletes \/ ExitFindsAnotherEvent
        => pc = "exit"
    BY DEF ExitEvaluationFails, ExitSamplingFails, ExitTimeEventInPast, ExitBlocksFail,
           ExitCompletes, ExitFindsAnotherEvent, ExitSaves, ExitEvaluates
  <2> QED
    BY <1>2, <2>1, <2>2, <2>3, <2>4
       DEF EventIteration, EventIterationStep, RoundFails, RoundGivesUp, RoundCompletes
<1>3. CASE NewDiscreteStatesReturns
  BY <1>3 DEF NewDiscreteStatesReturns, timeVars
<1> QED
  BY <1>1, <1>2, <1>3 DEF Next, Running

LEMMA StartStep ==
    ASSUME Disciplined, EventInv, StartInv, [Next]_vars PROVE StartInv'
<1>1. CASE UNCHANGED vars
  BY <1>1 DEF vars, jmiVars, timeVars, fmiVars, StartInv
<1>2. CASE InitializeSolves \/ Reset
  BY <1>2 DEF InitializeSolves, Reset, NoTimeEvent, StartInv
<1>3. CASE Next /\ ~InitializeSolves /\ ~Reset
  <2>1. UNCHANGED initialized
    <3>1. CASE Call
      <4>1. ASSUME \E time \in Times : SetTime(time) \/ SetupExperiment(time)
            PROVE  UNCHANGED initialized
        BY <4>1 DEF SetTime, SetupExperiment, fmiVars
      <4>2. ASSUME \/ \E v \in States : SetContinuousStates(v)
                   \/ \E dv \in Values, xv \in States : SetVariables(dv, xv)
            PROVE  UNCHANGED initialized
        BY <4>2 DEF SetContinuousStates, SetVariables, fmiVars
      <4>3. \/ Refuse \/ InitializeFailsEarly \/ InitializeFails \/ CompletedIntegratorStep
            \/ NewDiscreteStates \/ EnterContinuousTimeMode \/ Terminate
            \/ EnterEventMode \/ ExitInitializationMode
            => UNCHANGED initialized
        BY DEF Refuse, InitializeFailsEarly, InitializeFails, CompletedIntegratorStep,
               NewDiscreteStates, EnterContinuousTimeMode, Terminate, EnterEventMode,
               ExitInitializationMode, EnterEvent, fmiVars
      <4>4. GetVariables \/ GetDerivatives => UNCHANGED initialized
        BY DEF GetVariables, GetDerivatives, ReadSucceeds, ReadFails, ReadRetries,
               EvaluatedByRead, fmiVars
      <4> QED
        BY <1>3, <3>1, <4>1, <4>2, <4>3, <4>4
           DEF Call, InitializeFailsLate, EnterInitializationMode
    <3>2. CASE Running
      BY <3>2 DEF Running, EventIteration, NewDiscreteStatesReturns, fmiVars
    <3> QED
      BY <1>3, <3>1, <3>2 DEF Next
  <2>2. SUFFICES ASSUME ~initialized, fmuMode = "instantiated"
                 PROVE  fmuMode' = "instantiated" /\ UNCHANGED nextTimeEvent
    BY <2>1, <2>2 DEF StartInv
  <2>3. Idle
    BY <2>2 DEF EventInv, CallInv
  <2>4. UNCHANGED nextTimeEvent
    BY <1>3, <2>3, NextTimeEventChanges DEF Idle
  <2>5. fmuMode' = "instantiated"
    <3>1. ASSUME \E time \in Times : SetTime(time) \/ SetupExperiment(time)
          PROVE  UNCHANGED fmuMode
      BY <3>1 DEF SetTime, SetupExperiment, fmiVars
    <3>2. ASSUME \/ \E v \in States : SetContinuousStates(v)
                 \/ \E dv \in Values, xv \in States : SetVariables(dv, xv)
          PROVE  UNCHANGED fmuMode
      BY <3>2 DEF SetContinuousStates, SetVariables, fmiVars
    <3>3. \/ Refuse \/ InitializeFailsEarly \/ InitializeFails \/ CompletedIntegratorStep
          \/ NewDiscreteStates \/ Terminate \/ EventIteration \/ NewDiscreteStatesReturns
          => UNCHANGED fmuMode
      BY DEF Refuse, InitializeFailsEarly, InitializeFails, CompletedIntegratorStep,
             NewDiscreteStates, Terminate, EventIteration, NewDiscreteStatesReturns, fmiVars
    <3>4. GetVariables \/ GetDerivatives => UNCHANGED fmuMode
      BY DEF GetVariables, GetDerivatives, ReadSucceeds, ReadFails, ReadRetries,
             EvaluatedByRead, fmiVars
    <3>5. ~EnterEventMode /\ ~ExitInitializationMode /\ ~EnterContinuousTimeMode
      BY <2>2 DEF EnterEventMode, ExitInitializationMode, EnterEvent, EnterContinuousTimeMode
    <3> QED
      BY <1>3, <2>2, <3>1, <3>2, <3>3, <3>4, <3>5
         DEF Next, Call, Running, InitializeFailsLate, EnterInitializationMode
  <2> QED
    BY <2>4, <2>5
<1> QED
  BY <1>1, <1>2, <1>3

\* A time event that is due is replaced only at the end of an iteration that has
\* handled it, in its phase, in nested activations too (jmi_enter_event_mode,
\* jmi_exit_event_mode).
THEOREM TimeEventIsReplacedWhenMet ==
    ASSUME Disciplined PROVE Spec => TimeEventReplacedWhenMet
<1>1. Init => StartInv
  BY DEF Init, JmiInit, StartInv, NoTimeEvent
<1>2. EventInv /\ StartInv /\ [Next]_vars => StartInv'
  BY StartStep
<1>3. StartInv /\ TimeInv /\ [Next]_vars =>
        [(initialized' /\ nextTimeEvent.defined /\ nextTimeEvent.time - t < TimeEps
             /\ nextTimeEvent' # nextTimeEvent)
           => pc = "exit" /\ atTimeEvent /\ eventPhase = nextTimeEvent.phase]_vars
  <2> SUFFICES ASSUME StartInv, TimeInv, Next, initialized', Due,
                      nextTimeEvent' # nextTimeEvent
               PROVE  pc = "exit" /\ atTimeEvent /\ eventPhase = nextTimeEvent.phase
    BY DEF Due
  <2>1. ~Reset
    BY DEF Reset
  <2>2. ~InitializeSolves
    BY DEF InitializeSolves, Initializes, StartInv, Due
  <2>3. pc = "exit"
    BY <2>1, <2>2, NextTimeEventChanges
  <2> QED
    BY <2>3 DEF TimeInv, Noticed
<1> QED
  BY <1>1, <1>2, <1>3, TimeInvariant, EventInvariant, PTL DEF Spec, TimeEventReplacedWhenMet
=============================================================================
