--------------------------- MODULE Fmi2ME_proofs ---------------------------
(***************************************************************************)
(* Theorems about Fmi2ME, for every value of its constants.                *)
(***************************************************************************)
EXTENDS Fmi2ME, TLAPS

USE ValuesAssumption, StatesAssumption, MaxTimeAssumption, TimeEpsAssumption,
    MaxIterAssumption, StopTimesAssumption
-----------------------------------------------------------------------------
(***************************************************************************)
(* Type correctness.                                                       *)
(***************************************************************************)
\* An evaluation of the model leaves values of the right types in z.
LEMMA OdeDerivativesType ==
    ASSUME JmiTypeOK, NEW a \in BOOLEAN, NEW b \in BOOLEAN, NEW c \in BOOLEAN,
           OdeDerivatives(a, b, c)
    PROVE  d' \in Values /\ x' \in States /\ ModelTypeOK'
<1>1. d' \in Values /\ x' \in States
  BY DEF JmiTypeOK, ZTypeOK, OdeDerivatives
<1>2. modelTerminate' \in BOOLEAN
  BY DEF OdeDerivatives
<1>3. reinitTriggered' \in BOOLEAN
  BY DEF OdeDerivatives
<1>4. updatedStates' \in BOOLEAN
  BY DEF OdeDerivatives, JmiTypeOK, ModelTypeOK
<1>5. ModelTypeOK'
  BY <1>2, <1>3, <1>4 DEF ModelTypeOK
<1> QED
  BY <1>1, <1>5

\* Whatever activation fails, an event_info is left and the stack is empty.
LEMMA UnwindType ==
    ASSUME JmiTypeOK, NEW i \in Infos, Unwind(i)
    PROVE  info' \in Infos /\ stack' \in Seq(BOOLEAN) /\ pc' \in Places
<1> DEFINE s == i.statesChanged \/ \E k \in DOMAIN stack : stack[k]
<1>1. s \in BOOLEAN
  OBVIOUS
<1>2. info' = [i EXCEPT !.statesChanged = s]
  BY DEF Unwind
<1> HIDE DEF s
<1>3. info' \in Infos
  BY <1>1, <1>2 DEF Infos
<1> QED
  BY <1>3 DEF Unwind, Places

\* The structures the code starts from have the types of their variables.
LEMMA ConstantTypes ==
    /\ FreshInfo \in Infos
    /\ NoTimeEvent \in TimeEvents
  BY DEF FreshInfo, Infos, NoTimeEvent, TimeEvents, Times

\* What a known next time event consists of.
LEMMA TimeEventFields ==
    ASSUME NEW e \in TimeEvents
    PROVE  e.defined \in BOOLEAN /\ e.time \in Times /\ e.phase \in Phases
<1>1. CASE e = NoTimeEvent
  BY <1>1 DEF NoTimeEvent, Times, Phases
<1>2. CASE e \in [defined : {TRUE}, time : Times, phase : Phases]
  BY <1>2
<1> QED
  BY <1>1, <1>2 DEF TimeEvents

\* The start of jmi_event_iteration on any event_info.
LEMMA StartIterationType ==
    ASSUME NEW i \in Infos, StartIteration(i)
    PROVE  atEvent' = TRUE /\ info' \in Infos /\ pc' \in {"exit", "round"}
  BY ConstantTypes DEF StartIteration

\* jmi_init and jmi_me_init leave every field with its type.
LEMMA JmiInitType == JmiInit => JmiTypeOK
<1> SUFFICES ASSUME JmiInit PROVE JmiTypeOK
  OBVIOUS
<1>1. ZTypeOK
  BY DEF JmiInit, ZTypeOK, Times, Pres
<1>2. FlagTypeOK
  BY DEF JmiInit, FlagTypeOK
<1>3. TimeTypeOK
  BY ConstantTypes DEF JmiInit, TimeTypeOK, Phases
<1>4. ModelTypeOK
  BY DEF JmiInit, ModelTypeOK
<1>5. IterTypeOK
  BY ConstantTypes DEF JmiInit, IterTypeOK, Places
<1> QED
  BY <1>1, <1>2, <1>3, <1>4, <1>5 DEF JmiTypeOK

\* jmi_enter_event_mode, for the two places that call it.
LEMMA EnterType ==
    ASSUME JmiTypeOK, EnterFails \/ EnterPassed \/ EnterSucceeds
    PROVE  /\ ZTypeOK' /\ TimeTypeOK' /\ ModelTypeOK'
           /\ saveRestore' \in BOOLEAN
           /\ UNCHANGED <<atInitial, epsilon, tmpEpsilon>>
<1>1. EnterEvaluates
  BY DEF EnterFails, EnterPassed, EnterSucceeds, EnterReaches
<1>2. d' \in Values /\ x' \in States /\ ModelTypeOK'
  <2>1. reinitTriggered \in BOOLEAN /\ (atEvent \/ atInitial) \in BOOLEAN
    BY DEF JmiTypeOK, ModelTypeOK
  <2> QED
    BY <1>1, <2>1, OdeDerivativesType DEF EnterEvaluates
<1>3. pre' \in Pres
  BY <1>2 DEF JmiTypeOK, ZTypeOK, EnterFails, EnterPassed, EnterSucceeds, CopyPre, Pres
<1>4. ZTypeOK'
  BY <1>1, <1>2, <1>3 DEF JmiTypeOK, ZTypeOK, EnterEvaluates
<1>5. CASE EnterFails
  BY <1>1, <1>2, <1>4, <1>5
     DEF EnterFails, EnterEvaluates, JmiTypeOK, TimeTypeOK, FlagTypeOK
<1>6. CASE EnterReaches
  <2>1. atTimeEvent' \in BOOLEAN /\ saveRestore' \in BOOLEAN
    BY <1>6 DEF EnterReaches
  <2>2. eventPhase' \in Phases
    <3>1. nextTimeEvent.phase \in Phases
      BY TimeEventFields DEF JmiTypeOK, TimeTypeOK
    <3>2. "greater" \in Phases
      BY DEF Phases
    <3> QED
      BY <1>6, <3>1, <3>2 DEF EnterReaches
  <2> QED
    BY <1>1, <1>2, <1>4, <2>1, <2>2 DEF EnterEvaluates, JmiTypeOK, TimeTypeOK
<1> QED
  BY <1>5, <1>6 DEF EnterPassed, EnterSucceeds

\* One pass of the loop of jmi_event_iteration.
LEMMA RoundType ==
    ASSUME JmiTypeOK, RoundEvaluates
    PROVE  /\ ZTypeOK' /\ FlagTypeOK' /\ TimeTypeOK' /\ ModelTypeOK'
           /\ nbrIter' \in Nat
           /\ Compared \in Infos
<1>1. d' \in Values /\ x' \in States /\ ModelTypeOK'
  <2>1. modelTerminate \in BOOLEAN
    BY DEF JmiTypeOK, ModelTypeOK
  <2> QED
    BY <2>1, OdeDerivativesType DEF RoundEvaluates
<1>2. ZTypeOK'
  BY <1>1 DEF JmiTypeOK, ZTypeOK, RoundEvaluates, Pres
<1>3. FlagTypeOK' /\ TimeTypeOK'
  BY DEF JmiTypeOK, FlagTypeOK, TimeTypeOK, flagVars, timeVars, RoundEvaluates
<1>4. nbrIter' \in Nat
  BY DEF JmiTypeOK, IterTypeOK, RoundEvaluates
<1>5. Compared \in Infos
  <2>1. info \in Infos /\ reinitTriggered' \in BOOLEAN
    BY <1>1 DEF JmiTypeOK, IterTypeOK, ModelTypeOK
  <2> QED
    BY <2>1 DEF Compared, Infos
<1> QED
  BY <1>1, <1>2, <1>3, <1>4, <1>5

\* The evaluation of jmi_exit_event_mode, and what it finds next.
LEMMA ExitType ==
    ASSUME JmiTypeOK, ExitEvaluates
    PROVE  /\ t' \in Times /\ x' \in States /\ d' \in Values /\ pre' \in Pres
           /\ ModelTypeOK' /\ nbrIter' \in Nat
           /\ atEvent' \in BOOLEAN /\ atInitial' \in BOOLEAN
           /\ epsilon' \in {0, 1} /\ tmpEpsilon' \in {0, 1}
           /\ atTimeEvent' \in BOOLEAN /\ eventPhase' \in Phases
           /\ nextTimeEvent' \in TimeEvents => NextReported \in Infos
<1>1. d' \in Values /\ x' \in States /\ ModelTypeOK'
  <2>1. modelTerminate \in BOOLEAN /\ reinitTriggered \in BOOLEAN /\ atInitial \in BOOLEAN
    BY DEF JmiTypeOK, ModelTypeOK, FlagTypeOK
  <2> QED
    BY <2>1, OdeDerivativesType DEF ExitEvaluates
<1>2. ASSUME nextTimeEvent' \in TimeEvents PROVE NextReported \in Infos
  <2>1. info \in Infos /\ nextTimeEvent'.defined \in BOOLEAN /\ nextTimeEvent'.time \in Times
    BY <1>2, TimeEventFields DEF JmiTypeOK, IterTypeOK
  <2>2. info.nextTime \in Times
    BY <2>1 DEF Infos
  <2> DEFINE time == IF nextTimeEvent'.defined THEN nextTimeEvent'.time ELSE info.nextTime
  <2>3. time \in Times
    BY <2>1, <2>2
  <2> HIDE DEF time
  <2>4. [info EXCEPT !.nextDefined = nextTimeEvent'.defined, !.nextTime = time] \in Infos
    BY <2>1, <2>3 DEF Infos
  <2> QED
    BY <2>4 DEF NextReported, time
<1>3. t' \in Times /\ pre' \in Pres /\ nbrIter' \in Nat
  BY DEF JmiTypeOK, ZTypeOK, ExitEvaluates
<1>4. epsilon' \in {0, 1} /\ tmpEpsilon' \in {0, 1}
  BY DEF JmiTypeOK, FlagTypeOK, ExitEvaluates
<1>5. atEvent' \in BOOLEAN /\ atInitial' \in BOOLEAN
  BY DEF JmiTypeOK, FlagTypeOK, ExitEvaluates
<1>6. atTimeEvent' \in BOOLEAN /\ eventPhase' \in Phases
  BY DEF JmiTypeOK, TimeTypeOK, ExitEvaluates
<1> QED
  BY <1>1, <1>2, <1>3, <1>4, <1>5, <1>6

\* What jmi_exit_event_mode saves before it looks for another time event.
LEMMA ExitSavesType ==
    ASSUME JmiTypeOK, ExitSaves
    PROVE  /\ ZTypeOK' /\ FlagTypeOK' /\ ModelTypeOK'
           /\ nextTimeEvent' \in TimeEvents
           /\ NextReported \in Infos
<1>1. ExitEvaluates /\ recompute' = FALSE /\ nextTimeEvent' \in TimeEvents
  BY DEF ExitSaves, ExitFindsNextTimeEvent
<1>2. last' \in [d : Values, pre : Pres]
  BY <1>1, ExitType DEF ExitSaves, SaveLast
<1>3. ZTypeOK'
  BY <1>1, <1>2, ExitType DEF ZTypeOK
<1>4. FlagTypeOK'
  BY <1>1, ExitType DEF FlagTypeOK, ExitSaves
<1> QED
  BY <1>1, <1>3, <1>4, ExitType

\* A step of the event iteration preserves the types of jmi_t.
LEMMA EventIterationType ==
    ASSUME JmiTypeOK, EventIterationStep PROVE JmiTypeOK'
<1> USE DEF IterTypeOK
<1>0. info \in Infos /\ stack \in Seq(BOOLEAN) /\ nbrIter \in Nat
  BY DEF JmiTypeOK
<1>1. CASE RoundFails
  BY <1>0, <1>1, RoundType, UnwindType DEF RoundFails, JmiTypeOK
<1>2. CASE RoundGivesUp
  BY <1>0, <1>2, RoundType, UnwindType DEF RoundGivesUp, JmiTypeOK
<1>3. CASE RoundCompletes
  <2>1. pc' \in Places /\ stack' = stack /\ info' \in Infos
    BY <1>3, RoundType DEF RoundCompletes, Places
  <2> QED
    BY <1>0, <1>3, <2>1, RoundType DEF RoundCompletes, JmiTypeOK
<1>4. ASSUME ExitEvaluationFails \/ ExitSamplingFails \/ ExitTimeEventInPast
      PROVE  JmiTypeOK'
  <2>1. ExitEvaluates /\ last' = last /\ saveRestore' = saveRestore /\ nbrConsec' = nbrConsec
    BY <1>4 DEF ExitEvaluationFails, ExitSamplingFails, ExitTimeEventInPast
  <2>2. recompute' \in BOOLEAN
    BY <1>4 DEF ExitEvaluationFails, ExitSamplingFails, ExitTimeEventInPast,
                ExitFindsNextTimeEvent, JmiTypeOK, ZTypeOK
  <2>3. nextTimeEvent' \in TimeEvents
    BY <1>4 DEF ExitEvaluationFails, ExitSamplingFails, ExitTimeEventInPast,
                ExitFindsNextTimeEvent, JmiTypeOK, TimeTypeOK
  <2>4. ZTypeOK'
    BY <2>1, <2>2, ExitType DEF JmiTypeOK, ZTypeOK
  <2>5. FlagTypeOK'
    BY <2>1, ExitType DEF JmiTypeOK, FlagTypeOK
  <2>6. TimeTypeOK'
    BY <2>1, <2>3, ExitType DEF JmiTypeOK, TimeTypeOK
  <2>7. IterTypeOK'
    BY <1>0, <1>4, <2>1, <2>3, ExitType, UnwindType
       DEF ExitEvaluationFails, ExitSamplingFails, ExitTimeEventInPast
  <2> QED
    BY <2>1, <2>4, <2>5, <2>6, <2>7, ExitType DEF JmiTypeOK
<1>5. ASSUME ExitBlocksFail \/ ExitCompletes \/ ExitFindsAnotherEvent
      PROVE  JmiTypeOK'
  <2>1. ExitSaves /\ ExitEvaluates
    BY <1>5 DEF ExitBlocksFail, ExitCompletes, ExitFindsAnotherEvent, ExitSaves
  <2>2. nbrConsec' \in Nat
    BY <1>5 DEF ExitBlocksFail, ExitCompletes, ExitFindsAnotherEvent, JmiTypeOK, TimeTypeOK
  <2>3. TimeTypeOK'
    BY <2>1, <2>2, ExitType, ExitSavesType DEF TimeTypeOK
  <2>4. info' \in Infos /\ stack' \in Seq(BOOLEAN) /\ pc' \in Places
    <3>1. CASE Unwind(NextReported)
      BY <2>1, <3>1, ExitSavesType, UnwindType
    <3>2. CASE info' = NextReported /\ UNCHANGED stack /\ pc' \in {"finish", "reenter"}
      BY <1>0, <2>1, <3>2, ExitSavesType DEF Places
    <3> QED
      BY <1>5, <3>1, <3>2 DEF ExitBlocksFail, ExitCompletes, ExitFindsAnotherEvent
  <2> QED
    BY <2>1, <2>3, <2>4, ExitType, ExitSavesType DEF JmiTypeOK
<1>6. CASE ReenterFails
  <2>1. FlagTypeOK'
    BY <1>6, EnterType DEF ReenterFails, JmiTypeOK, FlagTypeOK
  <2> QED
    BY <1>0, <1>6, <2>1, EnterType, UnwindType DEF ReenterFails, JmiTypeOK
<1>7. CASE Reenter
  <2>1. atEvent' = TRUE /\ info' \in Infos /\ pc' \in {"exit", "round"}
    BY <1>0, <1>7, StartIterationType DEF Reenter
  <2>2. FlagTypeOK'
    BY <1>7, <2>1, EnterType DEF Reenter, JmiTypeOK, FlagTypeOK
  <2>3. stack' \in Seq(BOOLEAN)
    BY <1>0, <1>7 DEF Reenter, Infos
  <2> QED
    BY <1>0, <1>7, <2>1, <2>2, <2>3, EnterType DEF Reenter, JmiTypeOK, Places
<1>8. ASSUME FinishNested \/ FinishOutermost PROVE JmiTypeOK'
  <2>1. Finished \in Infos
    BY <1>0 DEF Finished, Infos, JmiTypeOK, ModelTypeOK
  <2>2. info' \in Infos
    <3>1. CASE FinishOutermost
      BY <2>1, <3>1 DEF FinishOutermost
    <3>2. CASE FinishNested
      <4> DEFINE s == Finished.statesChanged \/ stack[Len(stack)]
      <4>1. s \in BOOLEAN
        OBVIOUS
      <4>2. info' = [Finished EXCEPT !.statesChanged = s]
        BY <3>2 DEF FinishNested
      <4> HIDE DEF s
      <4> QED
        BY <2>1, <4>1, <4>2 DEF Infos
    <3> QED
      BY <1>8, <3>1, <3>2
  <2>3. stack' \in Seq(BOOLEAN) /\ pc' \in Places
    BY <1>0, <1>8 DEF FinishNested, FinishOutermost, Places, JmiTypeOK
  <2>4. ZTypeOK' /\ FlagTypeOK' /\ TimeTypeOK'
    BY <1>8 DEF FinishNested, FinishOutermost, JmiTypeOK, zVars, flagVars, timeVars,
                ZTypeOK, FlagTypeOK, TimeTypeOK
  <2>5. ModelTypeOK' /\ nbrIter' \in Nat
    BY <1>8 DEF FinishNested, FinishOutermost, JmiTypeOK, ModelTypeOK
  <2> QED
    BY <2>2, <2>3, <2>4, <2>5 DEF JmiTypeOK
<1> QED
  BY <1>1, <1>2, <1>3, <1>4, <1>5, <1>6, <1>7, <1>8 DEF EventIterationStep
-----------------------------------------------------------------------------
\* The fields of the wrapper, as TypeOK has them.
FmiTypeOK ==
    /\ fmuMode \in Modes
    /\ stopTime \in StopTimes \cup {Infinite}
    /\ initialized \in BOOLEAN /\ userTerminate \in BOOLEAN
    /\ callerInfo \in Infos

HistoryTypeOK == failed \in BOOLEAN /\ changed \in BOOLEAN

\* TypeOK after a step, split as the lemmas below need it.
LEMMA TypeOKPartsNext == TypeOK' <=> JmiTypeOK' /\ FmiTypeOK' /\ HistoryTypeOK'
  BY DEF TypeOK, FmiTypeOK, HistoryTypeOK

\* A step that leaves a group of variables alone keeps its types.
LEMMA SameTypes ==
    ASSUME TypeOK
    PROVE  /\ UNCHANGED zVars => ZTypeOK'
           /\ UNCHANGED flagVars => FlagTypeOK'
           /\ UNCHANGED timeVars => TimeTypeOK'
           /\ UNCHANGED modelVars => ModelTypeOK'
           /\ UNCHANGED iterVars => IterTypeOK'
           /\ UNCHANGED fmiVars => FmiTypeOK'
<1>1. UNCHANGED zVars => ZTypeOK'
  BY DEF TypeOK, JmiTypeOK, ZTypeOK, zVars
<1>2. UNCHANGED flagVars => FlagTypeOK'
  BY DEF TypeOK, JmiTypeOK, FlagTypeOK, flagVars
<1>3. UNCHANGED timeVars => TimeTypeOK'
  BY DEF TypeOK, JmiTypeOK, TimeTypeOK, timeVars
<1>4. UNCHANGED modelVars => ModelTypeOK'
  BY DEF TypeOK, JmiTypeOK, ModelTypeOK, modelVars
<1>5. UNCHANGED iterVars => IterTypeOK'
  BY DEF TypeOK, JmiTypeOK, IterTypeOK, iterVars
<1>6. UNCHANGED fmiVars => FmiTypeOK'
  BY DEF TypeOK, FmiTypeOK, fmiVars
<1> QED
  BY <1>1, <1>2, <1>3, <1>4, <1>5, <1>6

\* The history variables keep their type through every way a step sets them.
LEMMA HistoryTypes ==
    ASSUME TypeOK
    PROVE  /\ Error => failed' \in BOOLEAN
           /\ OK => failed' \in BOOLEAN
           /\ UNCHANGED failed => failed' \in BOOLEAN
           /\ TrackChange => changed' \in BOOLEAN
           /\ UNCHANGED changed => changed' \in BOOLEAN
<1>1. (Error => failed' \in BOOLEAN) /\ (OK => failed' \in BOOLEAN)
  BY DEF TypeOK, Error, OK
<1>2. TrackChange => changed' \in BOOLEAN
  BY DEF TrackChange
<1> QED
  BY <1>1, <1>2 DEF TypeOK

\* fmi2_set_time, from SetTime and SetupExperiment.
LEMMA SetTimeType ==
    ASSUME TypeOK, NEW time \in Times, NEW s, SetTimeOrFail(time, s)
    PROVE  ZTypeOK' /\ failed' \in BOOLEAN
<1>1. CASE MoveTime(time) /\ OK
  BY <1>1, HistoryTypes DEF MoveTime, TypeOK, JmiTypeOK, ZTypeOK
<1>2. CASE UNCHANGED zVars /\ Error
  BY <1>2, SameTypes, HistoryTypes
<1> QED
  BY <1>1, <1>2 DEF SetTimeOrFail

\* jmi_initialize, up to the solution of the initial equations.
LEMMA InitializesType ==
    ASSUME TypeOK, Initializes
    PROVE  /\ t' \in Times /\ x' \in States /\ d' \in Values /\ recompute' \in BOOLEAN
           /\ epsilon' \in {0, 1} /\ tmpEpsilon' \in {0, 1}
           /\ atTimeEvent' \in BOOLEAN /\ eventPhase' \in Phases /\ nbrConsec' \in Nat
           /\ ModelTypeOK' /\ IterTypeOK' /\ changed' \in BOOLEAN
           /\ stopTime' \in StopTimes \cup {Infinite}
           /\ userTerminate' \in BOOLEAN /\ callerInfo' \in Infos
<1>1. ModelTypeOK' /\ changed' \in BOOLEAN
  <2>1. modelTerminate' \in BOOLEAN
    BY DEF Initializes, TypeOK, JmiTypeOK, ModelTypeOK
  <2>2. updatedStates' \in BOOLEAN /\ reinitTriggered' \in BOOLEAN
    BY DEF Initializes, TypeOK, JmiTypeOK, ModelTypeOK
  <2> QED
    BY <2>1, <2>2 DEF ModelTypeOK, Initializes
<1>2. t' \in Times /\ x' \in States /\ d' \in Values /\ recompute' \in BOOLEAN
  BY DEF Initializes, TypeOK, JmiTypeOK, ZTypeOK
<1>3. epsilon' \in {0, 1} /\ tmpEpsilon' \in {0, 1}
  BY DEF Initializes, TypeOK, JmiTypeOK, FlagTypeOK
<1>4. atTimeEvent' \in BOOLEAN /\ eventPhase' \in Phases /\ nbrConsec' \in Nat
  BY DEF Initializes, TypeOK, JmiTypeOK, TimeTypeOK
<1>5. IterTypeOK'
  BY SameTypes DEF Initializes
<1>6. stopTime' \in StopTimes \cup {Infinite} /\ userTerminate' \in BOOLEAN /\ callerInfo' \in Infos
  BY DEF Initializes, TypeOK
<1> QED
  BY <1>1, <1>2, <1>3, <1>4, <1>5, <1>6

\* A get function, whatever the evaluation it needs does.
LEMMA ReadType ==
    ASSUME TypeOK, ReadSucceeds \/ ReadFails \/ ReadRetries
    PROVE  TypeOK'
<1>1. EvaluatedByRead
  BY DEF ReadSucceeds, ReadFails, ReadRetries
<1>2. d' \in Values /\ x' \in States /\ ModelTypeOK'
  <2>1. modelTerminate \in BOOLEAN /\ reinitTriggered \in BOOLEAN /\ (atEvent \/ atInitial) \in BOOLEAN
    BY DEF TypeOK, JmiTypeOK, ModelTypeOK
  <2> QED
    BY <1>1, <2>1, OdeDerivativesType DEF EvaluatedByRead, TypeOK
<1>3. pre' \in Pres /\ recompute' \in BOOLEAN
  BY DEF ReadSucceeds, ReadFails, ReadRetries, TypeOK, JmiTypeOK, ZTypeOK
<1>4. ZTypeOK'
  BY <1>1, <1>2, <1>3 DEF EvaluatedByRead, TypeOK, JmiTypeOK, ZTypeOK
<1>5. JmiTypeOK' /\ FmiTypeOK'
  BY <1>1, <1>2, <1>4, SameTypes DEF EvaluatedByRead, JmiTypeOK
<1>6. HistoryTypeOK'
  BY <1>1, HistoryTypes DEF EvaluatedByRead, HistoryTypeOK
<1> QED
  BY <1>5, <1>6, TypeOKPartsNext

\* fmi2_enter_event_mode and fmi2_exit_initialization_mode.
LEMMA EnterEventType ==
    ASSUME TypeOK, NEW mode, EnterEvent(mode)
    PROVE  TypeOK'
<1>1. ZTypeOK' /\ TimeTypeOK' /\ ModelTypeOK' /\ FlagTypeOK'
  <2>1. EnterFails \/ EnterPassed \/ EnterSucceeds
    BY DEF EnterEvent
  <2> QED
    BY <2>1, EnterType DEF EnterEvent, TypeOK, JmiTypeOK, FlagTypeOK
<1>2. IterTypeOK'
  BY SameTypes DEF EnterEvent
<1>3. FmiTypeOK'
  BY ConstantTypes DEF EnterEvent, TypeOK, FmiTypeOK, Modes
<1>4. HistoryTypeOK'
  BY HistoryTypes DEF EnterEvent, HistoryTypeOK
<1> QED
  BY <1>1, <1>2, <1>3, <1>4, TypeOKPartsNext DEF JmiTypeOK

\* fmi2_enter_initialization_mode, in each way it may end.
LEMMA InitializeType ==
    ASSUME TypeOK, InitializeFails \/ InitializeFailsLate \/ EnterInitializationMode
    PROVE  TypeOK'
<1>1. Initializes
  BY DEF InitializeFails, InitializeFailsLate, EnterInitializationMode, InitializeSolves
<1>2. ASSUME InitializeSolves PROVE ZTypeOK' /\ FlagTypeOK' /\ initialized' \in BOOLEAN
  <2>1. pre' \in Pres
    BY <1>1, <1>2, InitializesType DEF InitializeSolves, CopyPre, Pres
  <2>2. last' \in [d : Values, pre : Pres]
    BY <1>1, <1>2, <2>1, InitializesType DEF InitializeSolves, SaveLast
  <2>3. ZTypeOK'
    BY <1>1, <2>1, <2>2, InitializesType DEF ZTypeOK
  <2>4. FlagTypeOK' /\ initialized' \in BOOLEAN
    BY <1>1, <1>2, InitializesType DEF InitializeSolves, FlagTypeOK
  <2> QED
    BY <2>3, <2>4
<1>3. ASSUME InitializeFails PROVE ZTypeOK' /\ FlagTypeOK' /\ initialized' \in BOOLEAN
  <2>1. ZTypeOK'
    BY <1>1, <1>3, InitializesType DEF InitializeFails, TypeOK, JmiTypeOK, ZTypeOK
  <2>2. FlagTypeOK' /\ initialized' \in BOOLEAN
    BY <1>1, <1>3, InitializesType DEF InitializeFails, TypeOK, JmiTypeOK, FlagTypeOK
  <2> QED
    BY <2>1, <2>2
<1>4. ZTypeOK' /\ FlagTypeOK' /\ initialized' \in BOOLEAN
  BY <1>2, <1>3 DEF InitializeFailsLate, EnterInitializationMode
<1>5. nextTimeEvent' \in TimeEvents
  BY DEF InitializeFails, InitializeFailsLate, EnterInitializationMode,
         TypeOK, JmiTypeOK, TimeTypeOK
<1>6. fmuMode' \in Modes /\ failed' \in BOOLEAN
  BY DEF InitializeFails, InitializeFailsLate, EnterInitializationMode, TypeOK,
         Modes, Error, OK
<1>7. JmiTypeOK'
  BY <1>1, <1>4, <1>5, InitializesType DEF JmiTypeOK, TimeTypeOK
<1>8. FmiTypeOK' /\ HistoryTypeOK'
  BY <1>1, <1>4, <1>6, InitializesType DEF FmiTypeOK, HistoryTypeOK
<1> QED
  BY <1>7, <1>8, TypeOKPartsNext

\* fmi2_terminate, with the evaluation it may run.
LEMMA TerminateType ==
    ASSUME TypeOK, Terminate PROVE TypeOK'
<1>1. CASE recompute
  <2>1. modelTerminate \in BOOLEAN /\ reinitTriggered \in BOOLEAN /\ (atEvent \/ atInitial) \in BOOLEAN
    BY DEF TypeOK, JmiTypeOK, ModelTypeOK
  <2>2. d' \in Values /\ x' \in States /\ ModelTypeOK'
    BY <1>1, <2>1, OdeDerivativesType DEF Terminate, TypeOK
  <2>3. ZTypeOK' /\ userTerminate' \in BOOLEAN
    BY <1>1, <2>2 DEF Terminate, TypeOK, JmiTypeOK, ZTypeOK
  <2>4. JmiTypeOK'
    BY <2>2, <2>3, SameTypes DEF Terminate, JmiTypeOK
  <2>5. FmiTypeOK'
    BY <2>3 DEF Terminate, FmiTypeOK, TypeOK
  <2>6. HistoryTypeOK'
    BY <1>1, HistoryTypes DEF Terminate, HistoryTypeOK
  <2> QED
    BY <2>4, <2>5, <2>6, TypeOKPartsNext
<1>2. CASE ~recompute
  <2>1. ZTypeOK'
    BY <1>2 DEF Terminate, TypeOK, JmiTypeOK, ZTypeOK
  <2>2. JmiTypeOK'
    BY <1>2, <2>1, SameTypes DEF Terminate, JmiTypeOK
  <2>3. FmiTypeOK'
    BY <1>2 DEF Terminate, FmiTypeOK, TypeOK
  <2>4. HistoryTypeOK'
    BY <1>2, HistoryTypes DEF Terminate, HistoryTypeOK
  <2> QED
    BY <2>2, <2>3, <2>4, TypeOKPartsNext
<1> QED
  BY <1>1, <1>2

\* fmi2_reset.
LEMMA ResetType ==
    ASSUME TypeOK, Reset PROVE TypeOK'
<1>1. ZTypeOK'
  BY DEF Reset, CopyPre, ZTypeOK, Pres, Times
<1>2. FlagTypeOK' /\ ModelTypeOK'
  BY DEF Reset, FlagTypeOK, ModelTypeOK
<1>3. TimeTypeOK'
  BY ConstantTypes DEF Reset, TimeTypeOK, Phases
<1>4. IterTypeOK'
  BY DEF Reset, TypeOK, JmiTypeOK, IterTypeOK
<1>5. FmiTypeOK' /\ HistoryTypeOK'
  BY ConstantTypes DEF Reset, FmiTypeOK, HistoryTypeOK, Modes
<1> QED
  BY <1>1, <1>2, <1>3, <1>4, <1>5, TypeOKPartsNext DEF JmiTypeOK

\* The calls that touch only z: set_time and the sets of values.
LEMMA SetType ==
    ASSUME TypeOK,
           \/ \E time \in Times : SetTime(time)
           \/ \E v \in States : SetContinuousStates(v)
           \/ \E dv \in Values, xv \in States : SetVariables(dv, xv)
           \/ CompletedIntegratorStep
    PROVE  TypeOK'
<1>1. ZTypeOK' /\ failed' \in BOOLEAN
  <2>1. ASSUME NEW time \in Times, SetTime(time) PROVE ZTypeOK' /\ failed' \in BOOLEAN
    BY <2>1, SetTimeType DEF SetTime
  <2>2. ASSUME NEW v \in States, SetContinuousStates(v)
        PROVE  ZTypeOK' /\ failed' \in BOOLEAN
    <3>1. CASE userTerminate
      BY <2>2, <3>1, SameTypes, HistoryTypes DEF SetContinuousStates
    <3>2. CASE ~userTerminate
      BY <2>2, <3>2, HistoryTypes DEF SetContinuousStates, TypeOK, JmiTypeOK, ZTypeOK
    <3> QED
      BY <3>1, <3>2
  <2>3. ASSUME NEW dv \in Values, NEW xv \in States, SetVariables(dv, xv)
        PROVE  ZTypeOK' /\ failed' \in BOOLEAN
    <3>1. recompute' \in BOOLEAN
      BY <2>3 DEF SetVariables
    <3> QED
      BY <2>3, <3>1, HistoryTypes DEF SetVariables, TypeOK, JmiTypeOK, ZTypeOK
  <2>4. ASSUME CompletedIntegratorStep PROVE ZTypeOK' /\ failed' \in BOOLEAN
    BY <2>4, HistoryTypes DEF CompletedIntegratorStep, TypeOK, JmiTypeOK, ZTypeOK
  <2> QED
    BY <2>1, <2>2, <2>3, <2>4
<1>2. UNCHANGED <<flagVars, timeVars, modelVars, iterVars, fmiVars, changed>>
  BY DEF SetTime, SetContinuousStates, SetVariables, CompletedIntegratorStep
<1>3. JmiTypeOK' /\ FmiTypeOK'
  BY <1>1, <1>2, SameTypes DEF JmiTypeOK
<1>4. HistoryTypeOK'
  BY <1>1, <1>2, HistoryTypes DEF HistoryTypeOK
<1> QED
  BY <1>3, <1>4, TypeOKPartsNext

\* The steps of fmi2_new_discrete_state, from the call to the return.
LEMMA DiscreteUpdateType ==
    ASSUME TypeOK, NewDiscreteStates \/ EventIteration \/ NewDiscreteStatesReturns
    PROVE  TypeOK'
<1>1. CASE NewDiscreteStates
  <2>1. PICK i \in PassedInfos : StartIteration(i)
    BY <1>1 DEF NewDiscreteStates
  <2>2. i \in Infos
    BY ConstantTypes DEF PassedInfos, TypeOK, FreshInfo, Infos
  <2>3. atEvent' = TRUE /\ info' \in Infos /\ pc' \in Places
    BY <2>1, <2>2, StartIterationType DEF Places
  <2>4. FlagTypeOK' /\ IterTypeOK'
    BY <1>1, <2>3 DEF NewDiscreteStates, TypeOK, JmiTypeOK, FlagTypeOK, IterTypeOK
  <2>5. ZTypeOK' /\ TimeTypeOK' /\ ModelTypeOK' /\ FmiTypeOK'
    BY <1>1, SameTypes DEF NewDiscreteStates
  <2>6. HistoryTypeOK'
    BY <1>1 DEF NewDiscreteStates, TypeOK, historyVars, HistoryTypeOK
  <2> QED
    BY <2>4, <2>5, <2>6, TypeOKPartsNext DEF JmiTypeOK
<1>2. CASE EventIteration
  <2>1. JmiTypeOK'
    BY <1>2, EventIterationType DEF EventIteration, TypeOK
  <2>2. FmiTypeOK' /\ HistoryTypeOK'
    BY <1>2, SameTypes, HistoryTypes DEF EventIteration, HistoryTypeOK
  <2> QED
    BY <2>1, <2>2, TypeOKPartsNext
<1>3. CASE NewDiscreteStatesReturns
  <2>1. callerInfo' \in Infos
    BY <1>3 DEF NewDiscreteStatesReturns, TypeOK, JmiTypeOK, IterTypeOK
  <2>2. IterTypeOK'
    BY <1>3, ConstantTypes DEF NewDiscreteStatesReturns, TypeOK, JmiTypeOK, IterTypeOK, Places
  <2>3. ZTypeOK' /\ FlagTypeOK' /\ TimeTypeOK' /\ ModelTypeOK'
    BY <1>3, SameTypes DEF NewDiscreteStatesReturns
  <2>4. FmiTypeOK'
    BY <1>3, <2>1 DEF NewDiscreteStatesReturns, FmiTypeOK, TypeOK
  <2>5. HistoryTypeOK'
    BY <1>3, HistoryTypes DEF NewDiscreteStatesReturns, HistoryTypeOK
  <2> QED
    BY <2>2, <2>3, <2>4, <2>5, TypeOKPartsNext DEF JmiTypeOK
<1> QED
  BY <1>1, <1>2, <1>3

\* The calls that move the FMU from one mode to another.
LEMMA ModeChangeType ==
    ASSUME TypeOK,
           \/ \E time \in Times : SetupExperiment(time)
           \/ EnterContinuousTimeMode
           \/ Refuse \/ InitializeFailsEarly
           \/ UNCHANGED vars
    PROVE  TypeOK'
<1>1. ASSUME NEW time \in Times, SetupExperiment(time) PROVE TypeOK'
  <2>1. ZTypeOK' /\ failed' \in BOOLEAN
    BY <1>1, SetTimeType DEF SetupExperiment
  <2>2. FlagTypeOK'
    BY <1>1 DEF SetupExperiment, TypeOK, JmiTypeOK, FlagTypeOK
  <2>3. TimeTypeOK' /\ ModelTypeOK' /\ IterTypeOK'
    BY <1>1, SameTypes DEF SetupExperiment
  <2>4. FmiTypeOK'
    BY <1>1 DEF SetupExperiment, TypeOK, FmiTypeOK
  <2>5. HistoryTypeOK'
    BY <1>1, <2>1 DEF SetupExperiment, TypeOK, HistoryTypeOK
  <2> QED
    BY <2>1, <2>2, <2>3, <2>4, <2>5, TypeOKPartsNext DEF JmiTypeOK
<1>2. CASE EnterContinuousTimeMode
  <2>1. JmiTypeOK'
    BY <1>2, SameTypes DEF EnterContinuousTimeMode, jmiVars, JmiTypeOK
  <2>2. FmiTypeOK'
    BY <1>2, ConstantTypes DEF EnterContinuousTimeMode, FmiTypeOK, TypeOK, Modes
  <2>3. HistoryTypeOK'
    BY <1>2 DEF EnterContinuousTimeMode, TypeOK, HistoryTypeOK
  <2> QED
    BY <2>1, <2>2, <2>3, TypeOKPartsNext
<1>3. ASSUME UNCHANGED <<jmiVars, fmiVars, changed>>, failed' \in BOOLEAN PROVE TypeOK'
  <2>1. JmiTypeOK' /\ FmiTypeOK'
    BY <1>3, SameTypes DEF jmiVars, JmiTypeOK
  <2> QED
    BY <1>3, <2>1, TypeOKPartsNext DEF HistoryTypeOK, TypeOK
<1>4. CASE Refuse \/ InitializeFailsEarly
  BY <1>3, <1>4, HistoryTypes DEF Refuse, InitializeFailsEarly
<1>5. CASE UNCHANGED vars
  BY <1>3, <1>5 DEF vars, historyVars, TypeOK
<1> QED
  BY <1>1, <1>2, <1>4, <1>5

\* TypeOK is inductive.
LEMMA NextType == TypeOK /\ [Next]_vars => TypeOK'
<1> SUFFICES ASSUME TypeOK, [Next]_vars PROVE TypeOK'
  OBVIOUS
<1>1. CASE Running
  BY <1>1, DiscreteUpdateType DEF Running
<1>2. CASE Call
  <2>1. CASE GetVariables \/ GetDerivatives
    BY <2>1, ReadType DEF GetVariables, GetDerivatives
  <2>2. CASE ExitInitializationMode \/ EnterEventMode
    BY <2>2, EnterEventType DEF ExitInitializationMode, EnterEventMode
  <2>3. CASE InitializeFails \/ InitializeFailsLate \/ EnterInitializationMode
    BY <2>3, InitializeType
  <2> QED
    BY <1>2, <2>1, <2>2, <2>3, SetType, ModeChangeType, TerminateType, ResetType,
       DiscreteUpdateType DEF Call
<1>3. CASE UNCHANGED vars
  BY <1>3, ModeChangeType
<1> QED
  BY <1>1, <1>2, <1>3 DEF Next

\* Every field keeps its type under every sequence of calls of any caller.
THEOREM TypeCorrect == Spec => []TypeOK
<1>1. Init => TypeOK
  BY JmiInitType, ConstantTypes DEF Init, TypeOK, Modes
<1> QED
  BY <1>1, NextType, PTL DEF Spec
=============================================================================
