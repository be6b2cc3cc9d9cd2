-------------------------------- MODULE Mpc --------------------------------
(***************************************************************************)
(* MPC (pyjmi/optimization/mpc.py): update_state, sample, set_inittraj and *)
(* get_results_this_sample, called in turn by the loop that controls a     *)
(* process.  The start time advances in sample periods, and all times are  *)
(* kept as ages, the number of samples since (at most MaxAge).             *)
(*                                                                         *)
(* A vector of NLP variables is [of, age, shift]: what it is made of (the  *)
(* attributes of the model, a plan, a failed solve, a user's trajectory),  *)
(* the age of the start time it was computed for, and the number of        *)
(* samples its entries were shifted by since.  It is a guess for the       *)
(* present problem if it was shifted by its age.                           *)
(***************************************************************************)
EXTENDS MpcShift

CONSTANTS
    Horizon,        \* samples on the horizon
    NCP,            \* collocation points per element
    NEval,          \* n_eval_points of the results "element_interpolation"
    Settings,       \* what the constructor and the control loop may choose: the
                    \* initial_guess ("shift" | "trajectory" | "prev"), whether
                    \* set_inittraj is called, and update_state given the states,
                    \* the elements in a sample and the result_mode
    MaxAge          \* bound of the ages

ASSUME MpcAssumption ==
    /\ Horizon \in Nat \ {0} /\ NCP \in Nat \ {0} /\ NEval \in Nat \ {0}
    /\ Settings \subseteq
          [initialGuess : {"shift", "trajectory", "prev"}, userTraj : BOOLEAN,
           measured : BOOLEAN, nes : Nat \ {0},
           resultMode : {"collocation_points", "mesh_points", "element_interpolation"}]
    /\ MaxAge \in Nat /\ \A s \in Settings : MaxAge > Horizon * s.nes

VARIABLES
    setting,        \* one of Settings, which stays
    sampleNbr,      \* _sample_nbr, counted up to 3
    moved,          \* startTime is not the one of the transcription any more
    result,         \* age of the plan in self.result, or None
    resultObject,   \* _result_object: a vector, or NoVector
    fails,          \* consec_fails
    found,          \* found_solution
    primal, xxInit, shiftedXX,  \* collocator.primal_opt, .xx_init, shifted_xx
    initTraj,       \* _init_traj, a vector
    trajSet,        \* _init_traj_set_by_user
    guess,          \* the vector the last solve started from
    warm,           \* collocator.warm_start
    input,          \* the sample of the plan whose input was returned last
    estimate,       \* the states' estimate is for this many samples before now
    place           \* where the control loop is, or the exception raised

vars == <<setting, sampleNbr, moved, result, resultObject, fails, found, primal, xxInit,
          shiftedXX, initTraj, trajSet, guess, warm, input, estimate, place>>
vectors == <<primal, xxInit, shiftedXX, initTraj, resultObject>>

InitialGuess == setting.initialGuess
UserTraj == setting.userTraj
Measured == setting.measured
NES == setting.nes
ResultMode == setting.resultMode

None == -1
NoVector == [of |-> "none", age |-> 0, shift |-> 0]
Vector(of) == [of |-> of, age |-> 0, shift |-> 0]
Vectors == [of : {"none", "model", "plan", "failure", "user"},
            age : 0..MaxAge, shift : (-1)..MaxAge]

NE == Horizon * NES
Problem == [ne |-> NE, ncp |-> NCP, gauss |-> FALSE, nx |-> 1, nw |-> 0, nu |-> 1,
            npopt |-> 0, free |-> FALSE, blocked |-> TRUE, bf |-> << >>]

Capped(n) == IF n <= MaxAge THEN n ELSE MaxAge
Older(v) == IF v.of \in {"plan", "failure"} THEN [v EXCEPT !.age = Capped(@ + 1)] ELSE v

Init ==
    /\ setting \in Settings
    /\ sampleNbr = 0 /\ moved = FALSE /\ result = None /\ resultObject = NoVector
    /\ fails = 0 /\ found = FALSE /\ trajSet = FALSE /\ warm = FALSE
    /\ primal = NoVector /\ xxInit = Vector("model") /\ shiftedXX = NoVector
    /\ initTraj = NoVector /\ guess = NoVector
    /\ input = None /\ estimate = None /\ place = "idle"

-----------------------------------------------------------------------------
(* update_state                                                            *)

\* The start time stays for the first sample and advances by one after it.
Advance ==
    IF sampleNbr = 0 THEN UNCHANGED <<moved, result, vectors>>
    ELSE /\ moved' = TRUE
         /\ result' = IF result = None THEN None ELSE Capped(result + 1)
         /\ resultObject' = Older(resultObject)
         /\ primal' = Older(primal)
         /\ xxInit' = Older(xxInit)
         /\ shiftedXX' = Older(shiftedXX)
         /\ initTraj' = Older(initTraj)

\* _extract_estimates_prev_opt takes the states at the end of the first
\* sample of _result_object.
UpdateState ==
    /\ place = "idle"
    /\ ~ Measured /\ sampleNbr > 0 => resultObject # NoVector
    /\ place' = "updated"
    /\ sampleNbr' = IF sampleNbr < 3 THEN sampleNbr + 1 ELSE 3
    /\ estimate' = IF Measured \/ sampleNbr = 0 THEN None ELSE resultObject.age
    /\ Advance
    /\ UNCHANGED <<setting, fails, found, trajSet, guess, warm, input>>

\* Without a result object the attribute does not exist.
UpdateStateFails ==
    /\ place = "idle"
    /\ ~ Measured /\ sampleNbr > 0 /\ resultObject = NoVector
    /\ sampleNbr' = IF sampleNbr < 3 THEN sampleNbr + 1 ELSE 3
    /\ place' = "AttributeError"
    /\ UNCHANGED <<setting, moved, result, vectors, fails, found, trajSet, guess, warm,
                   input, estimate>>

SetInitTraj ==
    /\ UserTraj /\ place \in {"idle", "updated"} /\ ~ trajSet
    /\ initTraj' = Vector("user") /\ trajSet' = TRUE
    /\ UNCHANGED <<setting, sampleNbr, moved, result, resultObject, fails, found, primal,
                   xxInit, shiftedXX, guess, warm, input, estimate, place>>

-----------------------------------------------------------------------------
(* sample: the guess                                                       *)

\* _set_inittraj evaluates the trajectory at the time points of the first
\* problem, which _compute_time_points made when it was transcribed.
TrajectoryGuess(traj) == [traj EXCEPT !.shift = IF moved THEN -1 ELSE 0]

\* A variant that shifts whatever the solver left, and the definition.
ShiftSourcePrimal == primal
ShiftSource == IF found THEN primal ELSE shiftedXX
Shifted(v) == [v EXCEPT !.shift = Capped(@ + 1)]

\* 'prev' takes the last solution; a variant takes it from a failed solve too.
PrevUsableAlways == primal # NoVector
PrevUsable == found

\* The sample in which the warm start begins, and a variant.
FirstWarmSampleOne == 1
FirstWarmSample == 2

\* The next guess, and whether there is one: shifted_xx does not exist before
\* the first shift.
NextGuess ==
    IF trajSet THEN TrajectoryGuess(initTraj)
    ELSE IF sampleNbr <= 1 THEN xxInit
    ELSE IF InitialGuess = "shift" THEN Shifted(ShiftSource)
    ELSE IF InitialGuess = "trajectory" THEN TrajectoryGuess(resultObject)
    ELSE IF InitialGuess = "prev" /\ PrevUsable THEN primal
    ELSE xxInit
Shifts == ~ trajSet /\ sampleNbr > 1 /\ InitialGuess = "shift"
NoGuess == Shifts /\ ShiftSource = NoVector

SetGuess ==
    /\ ~ NoGuess
    /\ xxInit' = NextGuess /\ guess' = NextGuess
    /\ shiftedXX' = IF Shifts THEN NextGuess ELSE shiftedXX
    /\ initTraj' = IF ~ trajSet /\ sampleNbr > 1 /\ InitialGuess = "trajectory"
                   THEN resultObject ELSE initTraj
    /\ warm' = (warm \/ sampleNbr = FirstWarmSample)

SampleNoGuess ==
    /\ place = "updated" /\ NoGuess
    /\ place' = "AttributeError"
    /\ UNCHANGED <<setting, sampleNbr, moved, result, vectors, fails, found, trajSet, guess,
                   warm, input, estimate>>

-----------------------------------------------------------------------------
(* sample: the result of the solve                                         *)

\* _get_opt_input after so many failures: the sample of the row it reads.
Rows == ResultRows(Problem, ResultMode, NEval)
RowAfter(f) == InputRow(Problem, NES, ResultMode, NEval, f) + 1
\* A variant that reads the first input again, and the definition.
InputSampleFirst(f) == 0
InputSample(f) == (Rows[RowAfter(f)][1] - 1) \div NES
RowExists(f) == RowAfter(f) \in DOMAIN Rows

SolveSucceeds ==
    /\ place = "updated"
    /\ SetGuess
    /\ primal' = Vector("plan") /\ found' = TRUE /\ result' = 0 /\ fails' = 0
    /\ resultObject' = IF InitialGuess = "trajectory" THEN Vector("plan")
                       ELSE resultObject
    /\ trajSet' = FALSE
    /\ input' = InputSample(0) /\ place' = "idle"
    /\ UNCHANGED <<setting, sampleNbr, moved, estimate>>

\* A failed solve overwrites primal_opt but not the result.
SolveFails ==
    /\ place = "updated"
    /\ SetGuess
    /\ primal' = Vector("failure") /\ found' = FALSE
    /\ UNCHANGED <<setting, sampleNbr, moved, result, resultObject, estimate>>

FirstFailure ==
    /\ SolveFails /\ sampleNbr = 1
    /\ place' = "RuntimeError"
    /\ UNCHANGED <<fails, trajSet, input>>

\* A variant that does not count failures, and the definition.
NotCounted(f) == f
Counted(f) == f + 1
\* A variant that tries one sample more, and the definition.
UsedUpLate(f) == f > NE
UsedUp(f) == f >= NE

GivesUp ==
    /\ SolveFails /\ sampleNbr # 1
    /\ fails' = Counted(fails) /\ UsedUp(fails')
    /\ place' = "RuntimeError"
    /\ UNCHANGED <<trajSet, input>>

UsesOldPlan ==
    /\ SolveFails /\ sampleNbr # 1
    /\ fails' = Counted(fails) /\ ~ UsedUp(fails')
    /\ trajSet' = FALSE
    /\ IF RowExists(fails')
       THEN input' = InputSample(fails') /\ place' = "idle"
       ELSE place' = "IndexError" /\ UNCHANGED input

Sample == SampleNoGuess \/ SolveSucceeds \/ FirstFailure \/ GivesUp \/ UsesOldPlan

\* get_results_this_sample makes the result object of the last solve.
GetResultsThisSample ==
    /\ place = "idle" /\ primal # NoVector
    /\ InitialGuess # "trajectory"
    /\ resultObject' = primal
    /\ UNCHANGED <<setting, sampleNbr, moved, result, fails, found, primal, xxInit, shiftedXX,
                   initTraj, trajSet, guess, warm, input, estimate, place>>

\* The exceptions end the control loop.
Exceptions == {"RuntimeError", "AttributeError", "IndexError"}
Ended == place \in Exceptions /\ UNCHANGED vars

Next == UpdateState \/ UpdateStateFails \/ SetInitTraj \/ Sample
        \/ GetResultsThisSample \/ Ended
\* The control loop goes on; nothing makes the solver succeed.
Spec == Init /\ [][Next]_vars
        /\ WF_vars(UpdateState \/ UpdateStateFails) /\ WF_vars(Sample)

-----------------------------------------------------------------------------
(* Properties                                                              *)

TypeOK ==
    /\ setting \in Settings /\ sampleNbr \in 0..3 /\ moved \in BOOLEAN /\ result \in (-1)..MaxAge
    /\ fails \in 0..NE /\ found \in BOOLEAN /\ trajSet \in BOOLEAN
    /\ {primal, xxInit, shiftedXX, initTraj, resultObject, guess} \subseteq Vectors
    /\ warm \in BOOLEAN /\ input \in (-1)..(Horizon - 1) /\ estimate \in (-1)..MaxAge
    /\ place \in {"idle", "updated"} \cup Exceptions

\* The rows of the result are those of the samples (with element_interpolation
\* there are two rows for each time at which an element begins).
RowsOfSamples == ResultMode # "element_interpolation"

\* sample returns the input of the current sample: also after failures it is
\* the input that the last successful plan has for the present time.
InputOfCurrentSample ==
    RowsOfSamples /\ place = "idle" /\ sampleNbr > 0 => input = result

\* A shifted guess that no trajectory of the user replaces is made of the last
\* successful plan and stands for the times of the present problem, also after
\* several failures in a row.
GuessIsAligned ==
    (/\ InitialGuess = "shift" /\ ~ UserTraj
     /\ place # "AttributeError" /\ place # "updated" /\ sampleNbr > 1)
    => guess.of = "plan" /\ guess.shift = guess.age

\* A failed iterate is never what the next solve starts from.
NoFailedGuess == guess.of # "failure"

\* When every successful solve makes the result object, the states estimated
\* "from the previous optimization" are those of the last plan one sample
\* after its start: at the present start time, unless solves have failed since.
EstimateIsCurrent ==
    InitialGuess = "trajectory" /\ place = "updated" /\ estimate # None =>
        resultObject.of = "plan" /\ resultObject.age = fails + 1

\* A warm start has multipliers of an earlier solve.
WarmStartHasDuals == [][warm' => primal # NoVector]_vars

\* The settings that give every sample what it needs: states that are measured
\* or the result object of every solve, a vector to shift that no trajectory of
\* the user took the place of, and a row for each sample.
Provided ==
    /\ Measured \/ InitialGuess = "trajectory"
    /\ InitialGuess = "shift" => ~ UserTraj
    /\ RowsOfSamples

\* With these, sample returns an input or raises the error it documents; the
\* other ones are raised only beyond the end of a plan, and only with several
\* elements in a sample, where the failures are counted against the elements.
NoUndocumentedError ==
    Provided => /\ place # "AttributeError"
                /\ place = "IndexError" => NES > 1 /\ fails >= Horizon

\* A solver that fails for good is reported, by an exception: the controller
\* does not go on with an old plan for ever.
FailureReported == []<><<SolveSucceeds>>_vars \/ <>(place \in Exceptions)

\* MPC implements the receding horizon controller, with the settings above; of
\* the others the mapping shows a controller at rest.
RH == INSTANCE RecedingHorizon WITH
        age <- IF Provided THEN result ELSE None,
        answer <- IF Provided THEN input ELSE None,
        place <- IF ~ Provided \/ place = "idle" THEN "answered"
                 ELSE IF place = "updated" THEN "asked" ELSE "failed"
RecedingHorizon == RH!RHSpec
=============================================================================
