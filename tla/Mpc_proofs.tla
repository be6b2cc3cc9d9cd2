----------------------------- MODULE Mpc_proofs -----------------------------
(***************************************************************************)
(* Proofs about Mpc: for every horizon, number of collocation points and   *)
(* set of settings, with any number of elements in a sample, the control   *)
(* loop has the properties stated in Mpc and implements RecedingHorizon.   *)
(***************************************************************************)
EXTENDS Mpc, SequenceTheorems, TLAPS

\* A multiple divided by its factor.
LEMMA MultipleDivided ==
    ASSUME NEW a \in Nat, NEW b \in Nat \ {0}
    PROVE  (b * a) \div b = a
  BY SMT

\* A plan has as many elements as samples or more.
LEMMA ElementsPerSample ==
    ASSUME setting \in Settings
    PROVE  /\ NES \in Nat \ {0}
           /\ NE \in Nat /\ NE >= Horizon /\ NES * Horizon = NE
           /\ \A f \in 0..(Horizon - 1) : NES * f \in Nat /\ NES * f < NE
  <1>1. Horizon \in Nat \ {0} /\ NES \in Nat \ {0}
    BY MpcAssumption DEF NES
  <1>2. NE = Horizon * NES
    BY DEF NE
  <1>3. ASSUME NEW f \in 0..(Horizon - 1)
        PROVE  NES * f \in Nat /\ NES * f < Horizon * NES
    BY <1>1, SMT
  <1>4. Horizon * NES >= Horizon /\ Horizon * NES \in Nat /\ NES * Horizon = Horizon * NES
    BY <1>1, SMT
  <1> QED
    BY <1>1, <1>2, <1>3, <1>4

-----------------------------------------------------------------------------
(* The rows of the result.                                                 *)

\* The points inside the elements, in order: row n is in element
\* (n - 1) div NCP + 1.
LEMMA InnerRows ==
    ASSUME setting \in Settings
    PROVE
    LET E == ElementPoints(Problem, 1, NCP)
    IN  /\ E = [j \in 1..(NE * NCP) |-> << (j - 1) \div NCP + 1, 1 + ((j - 1) % NCP) >>]
        /\ NE * NCP \in Nat
  <1>1. NCP \in Nat \ {0} /\ NE \in Nat
    BY MpcAssumption, ElementsPerSample
  <1>2. NCP - 1 + 1 = NCP /\ NE * NCP \in Nat
    BY <1>1, SMT
  <1>3. Problem.ne = NE
    BY DEF Problem
  <1> QED
    BY <1>2, <1>3 DEF ElementPoints

\* A result at the collocation points: the initial point, then the points
\* inside the elements.
LEMMA CollocationRows ==
    ASSUME setting \in Settings, ResultMode = "collocation_points"
    PROVE  /\ DOMAIN Rows = 1..(1 + NE * NCP)
           /\ \A n \in 1..(NE * NCP) : Rows[n + 1][1] = (n - 1) \div NCP + 1
  <1> DEFINE E == ElementPoints(Problem, 1, NCP)
             F == << <<1, 0>> >>
  <1>1. Rows = F \o E \o << >>
    BY DEF Rows, ResultRows, TimePoints, Problem
  <1>2. /\ E = [j \in 1..(NE * NCP) |-> << (j - 1) \div NCP + 1, 1 + ((j - 1) % NCP) >>]
        /\ NE * NCP \in Nat
    BY InnerRows
  <1>3. NCP \in Nat \ {0}
    BY MpcAssumption
  <1>4. \A j \in 1..(NE * NCP) : << (j - 1) \div NCP + 1, 1 + ((j - 1) % NCP) >> \in Int \X Int
    BY <1>2, <1>3, SMT
  <1>5. E \in Seq(Int \X Int) /\ Len(E) = NE * NCP
    BY <1>2, <1>4
  <1>6. F \in Seq(Int \X Int) /\ Len(F) = 1
    OBVIOUS
  <1> HIDE DEF E, F
  <1>7. F \o E \o << >> = F \o E
    BY <1>5, <1>6
  <1>8. /\ F \o E \in Seq(Int \X Int) /\ Len(F \o E) = Len(F) + Len(E)
        /\ \A i \in 1..(Len(F) + Len(E)) :
               (F \o E)[i] = IF i <= Len(F) THEN F[i] ELSE E[i - Len(F)]
    BY <1>5, <1>6, ConcatProperties
  <1>9. DOMAIN Rows = 1..(1 + NE * NCP)
    BY <1>1, <1>5, <1>6, <1>7, <1>8
  <1>10. ASSUME NEW n \in 1..(NE * NCP) PROVE Rows[n + 1] = E[n]
    <2>1. n + 1 \in 1..(Len(F) + Len(E)) /\ ~ (n + 1 <= Len(F)) /\ (n + 1) - Len(F) = n
      BY <1>2, <1>5, <1>6
    <2> QED
      BY <1>1, <1>7, <1>8, <2>1
  <1>11. \A n \in 1..(NE * NCP) : E[n][1] = (n - 1) \div NCP + 1
    BY <1>2 DEF E
  <1> QED
    BY <1>9, <1>10, <1>11

\* A result at the mesh points: the initial point, then the element ends.
LEMMA MeshRows ==
    ASSUME setting \in Settings, ResultMode = "mesh_points"
    PROVE  /\ DOMAIN Rows = 1..(1 + NE)
           /\ \A n \in 1..NE : Rows[n + 1][1] = n
  <1> DEFINE M == [i \in 1..NE |-> <<i, NCP>>]
             F == << <<1, 0>> >>
  <1>1. Rows = F \o M
    BY DEF Rows, ResultRows, LastPoint, Problem
  <1>2. NE \in Nat /\ NCP \in Int
    BY MpcAssumption, ElementsPerSample
  <1>3. M \in Seq(Int \X Int) /\ Len(M) = NE
    BY <1>2
  <1>4. F \in Seq(Int \X Int) /\ Len(F) = 1
    OBVIOUS
  <1>5. \A n \in 1..NE : M[n][1] = n
    OBVIOUS
  <1> HIDE DEF M, F
  <1>6. /\ F \o M \in Seq(Int \X Int) /\ Len(F \o M) = Len(F) + Len(M)
        /\ \A i \in 1..(Len(F) + Len(M)) :
               (F \o M)[i] = IF i <= Len(F) THEN F[i] ELSE M[i - Len(F)]
    BY <1>3, <1>4, ConcatProperties
  <1>7. DOMAIN Rows = 1..(1 + NE)
    BY <1>1, <1>3, <1>4, <1>6
  <1>8. ASSUME NEW n \in 1..NE PROVE Rows[n + 1] = M[n]
    <2>1. n + 1 \in 1..(Len(F) + Len(M)) /\ ~ (n + 1 <= Len(F)) /\ (n + 1) - Len(F) = n
      BY <1>2, <1>3, <1>4
    <2> QED
      BY <1>1, <1>6, <2>1
  <1> QED
    BY <1>5, <1>7, <1>8

LEMMA ModeOfRows ==
    ASSUME setting \in Settings, RowsOfSamples
    PROVE  ResultMode = "collocation_points" \/ ResultMode = "mesh_points"
  BY MpcAssumption DEF RowsOfSamples, ResultMode

\* What _get_opt_input reads after f failures is the input of the sample f
\* of the plan, and the row is there, as long as the plan reaches so far.
LEMMA RowOfSample ==
    ASSUME setting \in Settings, RowsOfSamples, NEW f \in 0..(Horizon - 1)
    PROVE  RowExists(f) /\ InputSample(f) = f
  <1>1. /\ NES \in Nat \ {0} /\ NCP \in Nat \ {0} /\ NE \in Nat
        /\ NES * f \in Nat /\ NES * f < NE /\ f \in Nat
    BY MpcAssumption, ElementsPerSample
  <1>2. (NES * f) \div NES = f
    BY <1>1, MultipleDivided
  <1>3. CASE ResultMode = "collocation_points"
    <2>1. RowAfter(f) = (NES * NCP) * f + 2
      BY <1>1, <1>3, SMT DEF RowAfter, InputRow, ValuesPerSample, Problem
    <2>2. (NES * NCP) * f = NCP * (NES * f)
      BY <1>1, SMT
    <2>3. NCP * (NES * f) \in Nat /\ NCP * (NES * f) + 1 <= NE * NCP
      BY <1>1, SMT
    <2>4. (NCP * (NES * f)) \div NCP = NES * f
      BY <1>1, MultipleDivided
    <2> DEFINE n == NCP * (NES * f) + 1
    <2>5. n \in 1..(NE * NCP) /\ RowAfter(f) = n + 1 /\ n - 1 = NCP * (NES * f)
      BY <1>1, <2>1, <2>2, <2>3, SMT
    <2>6. Rows[n + 1][1] = (n - 1) \div NCP + 1 /\ DOMAIN Rows = 1..(1 + NE * NCP)
      BY <1>3, <2>5, CollocationRows
    <2>7. NE * NCP \in Nat
      BY <1>1, SMT
    <2> HIDE DEF n
    <2>8. n + 1 \in 1..(1 + NE * NCP)
      BY <2>5, <2>7, SMT
    <2>9. Rows[RowAfter(f)][1] - 1 = NES * f
      BY <1>1, <2>4, <2>5, <2>6
    <2> QED
      BY <1>2, <2>5, <2>6, <2>8, <2>9 DEF RowExists, InputSample
  <1>4. CASE ResultMode = "mesh_points"
    <2>1. RowAfter(f) = NES * f + 2
      BY <1>1, <1>4, SMT DEF RowAfter, InputRow, ValuesPerSample
    <2> DEFINE n == NES * f + 1
    <2>2. n \in 1..NE /\ RowAfter(f) = n + 1
      BY <1>1, <2>1
    <2>3. Rows[n + 1][1] = n /\ DOMAIN Rows = 1..(1 + NE)
      BY <1>4, <2>2, MeshRows
    <2>4. Rows[RowAfter(f)][1] - 1 = NES * f /\ n + 1 \in 1..(1 + NE)
      BY <1>1, <2>2, <2>3
    <2> QED
      BY <1>2, <2>2, <2>3, <2>4 DEF RowExists, InputSample
  <1> QED
    BY <1>3, <1>4, ModeOfRows

\* There is no row for a later sample.
LEMMA NoRowBeyond ==
    ASSUME setting \in Settings, RowsOfSamples, NEW f \in Nat, f >= Horizon
    PROVE  ~ RowExists(f)
  <1>1. /\ NES \in Nat \ {0} /\ NCP \in Nat \ {0} /\ NE \in Nat
        /\ NES * Horizon = NE /\ Horizon \in Nat
    BY MpcAssumption, ElementsPerSample
  <1>2. NES * f \in Nat /\ NES * f >= NE
    BY <1>1, SMT
  <1>3. CASE ResultMode = "collocation_points"
    <2>1. RowAfter(f) = (NES * NCP) * f + 2
      BY <1>1, <1>3, SMT DEF RowAfter, InputRow, ValuesPerSample, Problem
    <2>2. (NES * NCP) * f = NCP * (NES * f) /\ NCP * (NES * f) >= NE * NCP
          /\ NCP * (NES * f) \in Nat /\ NE * NCP \in Nat
      BY <1>1, <1>2, SMT
    <2>3. DOMAIN Rows = 1..(1 + NE * NCP)
      BY <1>3, CollocationRows
    <2>4. \A a, b \in Nat : a >= b => a + 2 \notin 1..(1 + b)
      BY SMT
    <2> QED
      BY <2>1, <2>2, <2>3, <2>4 DEF RowExists
  <1>4. CASE ResultMode = "mesh_points"
    <2>1. RowAfter(f) = NES * f + 2
      BY <1>1, <1>4, SMT DEF RowAfter, InputRow, ValuesPerSample
    <2>2. DOMAIN Rows = 1..(1 + NE)
      BY <1>4, MeshRows
    <2> QED
      BY <1>1, <1>2, <2>1, <2>2 DEF RowExists
  <1> QED
    BY <1>3, <1>4, ModeOfRows

-----------------------------------------------------------------------------
(* The inductive invariant: while the control loop runs, the failures in a *)
(* row are the age of the plan, and the input returned is the plan's for   *)
(* this age.  It is needed because the code keeps no age: _get_opt_input   *)
(* counts failures and the promise is about the start time.                *)

Waiting ==
    place = "idle" =>
        IF sampleNbr = 0 THEN result = -1 /\ input = -1 /\ fails = 0
        ELSE result = fails /\ input = fails /\ fails < Horizon
Asked ==
    place = "updated" =>
        /\ sampleNbr > 0
        /\ IF sampleNbr = 1 THEN result = -1 /\ fails = 0
           ELSE result = fails + 1 /\ fails < Horizon
\* A guess can be shifted from the second sample on, unless the user sets
\* trajectories: then shifted_xx may not exist.
Shifting == InitialGuess = "shift" /\ ~ UserTraj
Vecs == [of : {"none", "model", "plan", "failure", "user"}, age : Int, shift : Int]
ShiftInv ==
    Shifting =>
        /\ trajSet = FALSE /\ primal \in Vecs /\ shiftedXX \in Vecs
        /\ found => primal.of # "none"
        /\ (sampleNbr > 1 \/ (sampleNbr = 1 /\ place = "idle")) /\ ~ found
             => shiftedXX.of # "none"
LoopInv ==
    /\ setting \in Settings
    /\ sampleNbr \in 0..3 /\ fails \in Nat /\ result \in Int /\ input \in Int
    /\ place \in {"idle", "updated", "RuntimeError", "AttributeError", "IndexError"}
    /\ found \in BOOLEAN /\ trajSet \in BOOLEAN
    /\ Waiting /\ Asked /\ ShiftInv

\* Settings stay.
LEMMA SettingStays ==
    ASSUME [Next]_vars
    PROVE  setting' = setting
  BY DEF Next, Sample, vars, UpdateState, UpdateStateFails, SetInitTraj, SampleNoGuess,
         SolveSucceeds, FirstFailure, GivesUp, UsesOldPlan, SolveFails,
         GetResultsThisSample, Ended
LEMMA ChoicesStay ==
    ASSUME setting' = setting
    PROVE  /\ Shifting' = Shifting /\ RowsOfSamples' = RowsOfSamples
           /\ Provided' = Provided /\ InitialGuess' = InitialGuess
           /\ UserTraj' = UserTraj /\ NES' = NES /\ NE' = NE
  BY DEF Shifting, RowsOfSamples, Provided, InitialGuess, UserTraj, Measured, ResultMode,
         NES, NE
LEMMA ShiftingStays ==
    ASSUME setting' = setting
    PROVE  Shifting' = Shifting
  BY ChoicesStay

LEMMA Bounds == MaxAge \in Nat /\ Horizon \in Nat \ {0}
  BY MpcAssumption
LEMMA Sizes ==
    ASSUME setting \in Settings
    PROVE  NE \in Nat /\ NE >= Horizon /\ MaxAge > NE /\ MaxAge > Horizon
  <1>1. MaxAge > NE
    BY MpcAssumption DEF NE, NES
  <1> QED
    BY <1>1, Bounds, ElementsPerSample

LEMMA InitLoop == Init => LoopInv
  <1> SUFFICES ASSUME Init PROVE LoopInv
    OBVIOUS
  <1>1. ShiftInv
    BY DEF Init, ShiftInv, Vecs, NoVector
  <1>2. found \in BOOLEAN /\ trajSet \in BOOLEAN /\ setting \in Settings
    BY ZenonT(30) DEF Init
  <1>3. /\ sampleNbr = 0 /\ fails = 0 /\ result = -1 /\ input = -1 /\ place = "idle"
    BY DEF Init, None
  <1>4. Waiting /\ Asked
    BY <1>3 DEF Waiting, Asked
  <1> QED
    BY <1>1, <1>2, <1>3, <1>4 DEF LoopInv

\* A guess whenever the loop samples.
LEMMA HasGuess ==
    ASSUME Provided, LoopInv, place = "updated"
    PROVE  ~ NoGuess
  <1>1. CASE Shifts
    <2>1. Shifting /\ sampleNbr > 1
      BY <1>1 DEF Shifts, Shifting, LoopInv, Provided
    <2>2. ShiftSource.of # "none"
      BY <2>1 DEF LoopInv, ShiftInv, ShiftSource
    <2> QED
      BY <2>2 DEF NoGuess, NoVector
  <1>2. CASE ~ Shifts
    BY <1>2 DEF NoGuess
  <1> QED
    BY <1>1, <1>2

LEMMA OlderIsVector ==
    ASSUME NEW v \in Vecs
    PROVE  Older(v) \in Vecs /\ Older(v).of = v.of
  <1>1. Capped(v.age + 1) \in Int
    BY Bounds DEF Capped, Vecs
  <1> QED
    BY <1>1 DEF Older, Vecs

LEMMA UpdateKeepsLoop ==
    ASSUME LoopInv, UpdateState
    PROVE  LoopInv'
  <1> USE DEF UpdateState, Advance, None
  <1>1. sampleNbr' \in 0..3 /\ sampleNbr' > 0 /\ place' = "updated"
        /\ fails' \in Nat /\ input' \in Int /\ found' \in BOOLEAN /\ trajSet' \in BOOLEAN
    BY DEF LoopInv
  <1>2. result' \in Int /\ Asked'
    <2>1. CASE sampleNbr = 0
      BY <2>1 DEF LoopInv, Waiting, Asked
    <2>2. CASE sampleNbr # 0
      <3>1. result = fails /\ fails < Horizon /\ sampleNbr' # 1 /\ fails \in Nat
        BY <2>2 DEF LoopInv, Waiting
      <3>2. result' = fails + 1
        BY <2>2, <3>1, Bounds, Sizes DEF Capped, LoopInv
      <3> QED
        BY <1>1, <3>1, <3>2 DEF Asked
    <2> QED
      BY <2>1, <2>2
  <1>3. ShiftInv'
    <2> SUFFICES ASSUME Shifting
                 PROVE  /\ trajSet' = FALSE /\ primal' \in Vecs /\ shiftedXX' \in Vecs
                        /\ found' => primal'.of # "none"
                        /\ sampleNbr' > 1 /\ ~ found' => shiftedXX'.of # "none"
      BY <1>1, ShiftingStays DEF ShiftInv
    <2>1. CASE sampleNbr = 0
      BY <2>1 DEF LoopInv, ShiftInv, vectors
    <2>2. CASE sampleNbr # 0
      <3>1. /\ trajSet = FALSE /\ primal \in Vecs /\ shiftedXX \in Vecs
            /\ found => primal.of # "none"
            /\ ~ found => shiftedXX.of # "none"
        BY <2>2 DEF LoopInv, ShiftInv
      <3> QED
        BY <2>2, <3>1, OlderIsVector
    <2> QED
      BY <2>1, <2>2
  <1> QED
    BY <1>1, <1>2, <1>3 DEF LoopInv, Waiting

\* The new guess of a controller that shifts.
LEMMA ShiftedGuessIsVector ==
    ASSUME LoopInv, SetGuess, Shifting, place = "updated", sampleNbr > 1
    PROVE  shiftedXX' \in Vecs /\ shiftedXX'.of # "none"
  <1>1. trajSet = FALSE /\ Shifts /\ InitialGuess = "shift" /\ ~ (sampleNbr <= 1)
    BY DEF LoopInv, ShiftInv, Shifts, Shifting
  <1>2. ShiftSource \in Vecs /\ ShiftSource.of # "none"
    BY DEF LoopInv, ShiftInv, ShiftSource
  <1>3. shiftedXX' = Shifted(ShiftSource)
    BY <1>1 DEF SetGuess, NextGuess, Shifts, LoopInv
  <1>4. Capped(ShiftSource.shift + 1) \in Int
    BY <1>2, Bounds DEF Capped, Vecs
  <1> QED
    BY <1>2, <1>3, <1>4 DEF Shifted, Vecs

LEMMA SuccessKeepsLoop ==
    ASSUME RowsOfSamples, LoopInv, SolveSucceeds
    PROVE  LoopInv'
  <1>1. InputSample(0) = 0
    BY Bounds, RowOfSample DEF LoopInv
  <1>2. sampleNbr' \in 0..3 /\ sampleNbr' # 0 /\ place' = "idle" /\ result' = 0 /\ fails' = 0
        /\ input' = 0 /\ found' = TRUE /\ trajSet' = FALSE
    BY <1>1 DEF LoopInv, Asked, SolveSucceeds
  <1>3. ShiftInv'
    <2> SUFFICES ASSUME Shifting
                 PROVE  primal' \in Vecs /\ shiftedXX' \in Vecs /\ primal'.of # "none"
      BY <1>2, ShiftingStays DEF ShiftInv, SolveSucceeds
    <2>1. primal' \in Vecs /\ primal'.of # "none"
      <3>1. primal' = [of |-> "plan", age |-> 0, shift |-> 0]
        BY DEF SolveSucceeds, Vector
      <3> QED
        BY <3>1 DEF Vecs
    <2>2. CASE sampleNbr > 1
      BY <2>1, <2>2, ShiftedGuessIsVector DEF SolveSucceeds
    <2>3. CASE ~ (sampleNbr > 1)
      BY <2>1, <2>3 DEF SolveSucceeds, SetGuess, Shifts, LoopInv, ShiftInv
    <2> QED
      BY <2>2, <2>3
  <1>4. Waiting' /\ Asked'
    BY <1>2, Bounds DEF Waiting, Asked
  <1>5. found' \in BOOLEAN /\ trajSet' \in BOOLEAN
    BY <1>2, ZenonT(30)
  <1>6. fails' \in Nat /\ result' \in Int /\ input' \in Int
    BY <1>2
  <1> QED
    BY <1>2, <1>3, <1>4, <1>5, <1>6 DEF LoopInv, SolveSucceeds

LEMMA OldPlanKeepsLoop ==
    ASSUME RowsOfSamples, LoopInv, UsesOldPlan
    PROVE  LoopInv'
  <1>1. /\ place = "updated" /\ sampleNbr \in 2..3 /\ sampleNbr' = sampleNbr
        /\ fails \in Nat /\ fails' = fails + 1
        /\ result' = fails + 1 /\ found' = FALSE /\ trajSet' = FALSE
    BY DEF UsesOldPlan, SolveFails, LoopInv, Asked, Counted, UsedUp
  <1>2. place' = "idle" => fails' < Horizon /\ input' = fails'
    <2>1. CASE fails + 1 < Horizon
      <3>1. fails' \in 0..(Horizon - 1)
        BY <1>1, <2>1, Bounds
      <3> QED
        BY <1>1, <2>1, <3>1, RowOfSample DEF LoopInv, UsesOldPlan, UsedUp
    <2>2. CASE ~ (fails + 1 < Horizon)
      <3>1. fails' \in Nat /\ fails' >= Horizon
        BY <1>1, <2>2, Bounds
      <3>2. ~ RowExists(fails')
        BY <3>1, NoRowBeyond DEF LoopInv
      <3> QED
        BY <3>2 DEF UsesOldPlan
    <2> QED
      BY <2>1, <2>2
  <1>3. input' \in Int /\ place' \in {"idle", "IndexError"}
    <2>1. CASE RowExists(fails')
      BY <1>1, <1>2, <2>1 DEF UsesOldPlan
    <2>2. CASE ~ RowExists(fails')
      BY <2>2 DEF UsesOldPlan, LoopInv
    <2> QED
      BY <2>1, <2>2
  <1>4. ShiftInv'
    <2> SUFFICES ASSUME Shifting
                 PROVE  primal' \in Vecs /\ shiftedXX' \in Vecs /\ shiftedXX'.of # "none"
      BY <1>1, ShiftingStays DEF ShiftInv, UsesOldPlan, SolveFails
    <2>1. primal' = [of |-> "failure", age |-> 0, shift |-> 0] /\ SetGuess
      BY DEF UsesOldPlan, SolveFails, Vector
    <2>2. primal' \in Vecs
      BY <2>1 DEF Vecs
    <2> QED
      BY <1>1, <2>1, <2>2, ShiftedGuessIsVector
  <1>5. Waiting' /\ Asked'
    BY <1>1, <1>2, <1>3 DEF Waiting, Asked
  <1>6. found' \in BOOLEAN /\ trajSet' \in BOOLEAN
    BY <1>1, ZenonT(30)
  <1>7. fails' \in Nat /\ result' \in Int /\ sampleNbr' \in 0..3
    BY <1>1
  <1> QED
    BY <1>3, <1>4, <1>5, <1>6, <1>7 DEF LoopInv, UsesOldPlan, SolveFails

\* Steps that end the control loop, and those that leave it where it is.
LEMMA OthersKeepLoop ==
    ASSUME LoopInv,
           UpdateStateFails \/ SetInitTraj \/ SampleNoGuess \/ FirstFailure \/ GivesUp
           \/ GetResultsThisSample \/ Ended \/ UNCHANGED vars
    PROVE  LoopInv'
  <1>1. CASE UpdateStateFails
    <2>1. /\ place' = "AttributeError" /\ place = "idle" /\ sampleNbr \in 1..3
          /\ sampleNbr' \in 0..3 /\ setting' = setting /\ trajSet' = trajSet
          /\ found' = found /\ primal' = primal /\ shiftedXX' = shiftedXX
      BY <1>1 DEF UpdateStateFails, vectors, LoopInv
    <2>2. ShiftInv'
      <3> SUFFICES ASSUME Shifting
                   PROVE  /\ trajSet' = FALSE /\ primal' \in Vecs /\ shiftedXX' \in Vecs
                          /\ found' => primal'.of # "none"
                          /\ ~ found' => shiftedXX'.of # "none"
        BY <2>1, ShiftingStays DEF ShiftInv
      <3>1. /\ trajSet = FALSE /\ primal \in Vecs /\ shiftedXX \in Vecs
            /\ found => primal.of # "none"
            /\ ~ found => shiftedXX.of # "none"
        BY <2>1 DEF LoopInv, ShiftInv
      <3> QED
        BY <2>1, <3>1
    <2> QED
      BY <1>1, <2>1, <2>2 DEF UpdateStateFails, LoopInv, Waiting, Asked
  <1>2. CASE SetInitTraj
    <2>1. ~ Shifting
      BY <1>2, ZenonT(30) DEF SetInitTraj, Shifting
    <2>2. trajSet' \in BOOLEAN
      BY <1>2, ZenonT(30) DEF SetInitTraj
    <2>3. ShiftInv'
      BY <1>2, <2>1, ShiftingStays DEF ShiftInv, SetInitTraj
    <2> QED
      BY <1>2, <2>2, <2>3 DEF SetInitTraj, LoopInv, Waiting, Asked
  <1>3. CASE SampleNoGuess
    BY <1>3, ShiftingStays DEF SampleNoGuess, vectors, LoopInv, Waiting, Asked, ShiftInv
  <1>4. CASE FirstFailure \/ GivesUp
    <2>1. /\ place' = "RuntimeError" /\ sampleNbr' = sampleNbr /\ result' = result
          /\ input' = input /\ found' = FALSE /\ trajSet' = trajSet /\ SetGuess
          /\ place = "updated" /\ primal' = [of |-> "failure", age |-> 0, shift |-> 0]
      BY <1>4 DEF FirstFailure, GivesUp, SolveFails, Vector
    <2>2. fails' \in Nat
      BY <1>4 DEF FirstFailure, GivesUp, Counted, LoopInv
    <2>3. found' \in BOOLEAN
      BY <2>1, ZenonT(30)
    <2>4. ShiftInv'
      <3> SUFFICES ASSUME Shifting
                   PROVE  /\ trajSet' = FALSE /\ primal' \in Vecs /\ shiftedXX' \in Vecs
                          /\ sampleNbr > 1 => shiftedXX'.of # "none"
        BY <1>4, <2>1, ShiftingStays DEF ShiftInv, FirstFailure, GivesUp, SolveFails
      <3>1. primal' \in Vecs
        BY <2>1 DEF Vecs
      <3>2. CASE sampleNbr > 1
        BY <2>1, <3>1, <3>2, ShiftedGuessIsVector DEF LoopInv, ShiftInv
      <3>3. CASE ~ (sampleNbr > 1)
        BY <2>1, <3>1, <3>3 DEF SetGuess, Shifts, LoopInv, ShiftInv
      <3> QED
        BY <3>2, <3>3
    <2> QED
      BY <1>4, <2>1, <2>2, <2>3, <2>4 DEF LoopInv, Waiting, Asked, FirstFailure, GivesUp, SolveFails
  <1>5. CASE GetResultsThisSample
    BY <1>5, ShiftingStays DEF GetResultsThisSample, LoopInv, Waiting, Asked, ShiftInv
  <1>6. CASE Ended \/ UNCHANGED vars
    BY <1>6, ShiftingStays DEF Ended, vars, vectors, LoopInv, Waiting, Asked, ShiftInv
  <1> QED
    BY <1>1, <1>2, <1>3, <1>4, <1>5, <1>6

LEMMA NextKeepsLoop ==
    ASSUME RowsOfSamples, LoopInv, [Next]_vars
    PROVE  LoopInv'
  BY UpdateKeepsLoop, SuccessKeepsLoop, OldPlanKeepsLoop, OthersKeepLoop DEF Next, Sample

\* So for every setting whose results have a row for each sample.
RowsInv == RowsOfSamples => LoopInv
LEMMA RowsStay ==
    ASSUME RowsInv, [Next]_vars
    PROVE  RowsInv'
  BY NextKeepsLoop, SettingStays, ChoicesStay DEF RowsInv

\* sample returns the input that the last successful plan has for the present
\* sample, after any number of failures (mpc.py:561-581), for every horizon and
\* every setting with results at collocation or mesh points.
THEOREM InputIsCurrent == Spec => []InputOfCurrentSample
  <1>1. Init => RowsInv
    BY InitLoop DEF RowsInv
  <1>2. RowsInv /\ [Next]_vars => RowsInv'
    BY RowsStay
  <1>3. RowsInv => InputOfCurrentSample
    BY DEF RowsInv, LoopInv, Waiting, InputOfCurrentSample
  <1> QED
    BY <1>1, <1>2, <1>3, PTL DEF Spec

-----------------------------------------------------------------------------
(* What the guesses are made of.  These invariants need no bound on the    *)
(* failures and hold for every setting.                                    *)

\* Every vector but the last solution is clear of failed solves, and so is the
\* last solution when the code takes it for one.
Clean(v) == v \in Vecs /\ v.of # "failure"
VectorInv ==
    /\ Clean(guess) /\ Clean(xxInit) /\ Clean(shiftedXX) /\ Clean(initTraj)
    /\ primal \in Vecs /\ (found => Clean(primal))
    /\ resultObject \in Vecs
    /\ InitialGuess = "trajectory" => Clean(resultObject)

LEMMA OlderIsClean ==
    ASSUME NEW v, Clean(v)
    PROVE  Clean(Older(v))
  BY OlderIsVector DEF Clean

LEMMA MadeVectors ==
    /\ Clean(NoVector) /\ Clean(Vector("model")) /\ Clean(Vector("plan"))
    /\ Clean(Vector("user")) /\ Vector("failure") \in Vecs
  BY DEF Clean, NoVector, Vector, Vecs

LEMMA ShiftedIsClean ==
    ASSUME NEW v, Clean(v)
    PROVE  Clean(Shifted(v)) /\ Shifted(v).of = v.of /\ Shifted(v).age = v.age
           /\ Shifted(v).shift = Capped(v.shift + 1)
  <1>1. Capped(v.shift + 1) \in Int
    BY Bounds DEF Capped, Clean, Vecs
  <1> QED
    BY <1>1 DEF Shifted, Clean, Vecs

LEMMA TrajectoryIsClean ==
    ASSUME NEW v, Clean(v)
    PROVE  Clean(TrajectoryGuess(v))
  <1>1. (IF moved THEN -1 ELSE 0) \in Int
    OBVIOUS
  <1> QED
    BY <1>1 DEF TrajectoryGuess, Clean, Vecs

\* sample starts the solver from a clean vector, and keeps only clean ones.
LEMMA NewGuessIsClean ==
    ASSUME VectorInv, SetGuess
    PROVE  Clean(guess') /\ Clean(xxInit') /\ Clean(shiftedXX') /\ Clean(initTraj')
  <1>1. Clean(NextGuess)
    <2>1. Clean(ShiftSource)
      BY DEF VectorInv, ShiftSource
    <2>2. Clean(TrajectoryGuess(initTraj)) /\ Clean(Shifted(ShiftSource))
      BY <2>1, TrajectoryIsClean, ShiftedIsClean DEF VectorInv
    <2>3. InitialGuess = "trajectory" => Clean(TrajectoryGuess(resultObject))
      BY TrajectoryIsClean DEF VectorInv
    <2> QED
      BY <2>2, <2>3 DEF NextGuess, VectorInv, PrevUsable
  <1>2. Clean(initTraj')
    BY DEF SetGuess, VectorInv
  <1> QED
    BY <1>1, <1>2 DEF SetGuess, VectorInv

LEMMA VectorsStay ==
    ASSUME VectorInv, [Next]_vars
    PROVE  VectorInv'
  <1>0. InitialGuess' = InitialGuess
    BY SettingStays, ChoicesStay
  <1> USE DEF VectorInv
  <1>1. CASE UpdateState
    <2>1. CASE sampleNbr = 0
      BY <1>0, <1>1, <2>1 DEF UpdateState, Advance, vectors
    <2>2. CASE sampleNbr # 0
      <3>1. /\ guess' = guess /\ found' = found
            /\ xxInit' = Older(xxInit) /\ shiftedXX' = Older(shiftedXX)
            /\ initTraj' = Older(initTraj) /\ primal' = Older(primal)
            /\ resultObject' = Older(resultObject)
        BY <1>1, <2>2 DEF UpdateState, Advance
      <3>2. primal' \in Vecs /\ resultObject' \in Vecs
        BY <3>1, OlderIsVector
      <3> QED
        BY <1>0, <3>1, <3>2, OlderIsClean
    <2> QED
      BY <2>1, <2>2
  <1>2. CASE SetInitTraj
    BY <1>0, <1>2, MadeVectors DEF SetInitTraj
  <1>3. CASE SolveSucceeds
    <2>1. primal' = Vector("plan") /\ SetGuess
          /\ resultObject' = IF InitialGuess = "trajectory" THEN Vector("plan")
                             ELSE resultObject
      BY <1>3 DEF SolveSucceeds
    <2>2. Clean(primal') /\ resultObject' \in Vecs
          /\ (InitialGuess = "trajectory" => Clean(resultObject'))
      BY <2>1, MadeVectors DEF Clean
    <2> QED
      BY <1>0, <2>1, <2>2, NewGuessIsClean DEF Clean
  <1>4. CASE FirstFailure \/ GivesUp \/ UsesOldPlan
    <2>1. primal' = Vector("failure") /\ found' = FALSE /\ SetGuess
          /\ resultObject' = resultObject
      BY <1>4 DEF FirstFailure, GivesUp, UsesOldPlan, SolveFails
    <2>2. primal' \in Vecs
      BY <2>1, MadeVectors
    <2> QED
      BY <1>0, <2>1, <2>2, NewGuessIsClean
  <1>5. CASE GetResultsThisSample
    BY <1>0, <1>5 DEF GetResultsThisSample
  <1>6. CASE UpdateStateFails \/ SampleNoGuess \/ Ended \/ UNCHANGED vars
    BY <1>0, <1>6 DEF UpdateStateFails, SampleNoGuess, Ended, vars, vectors
  <1> QED
    BY <1>1, <1>2, <1>3, <1>4, <1>5, <1>6 DEF Next, Sample

LEMMA VectorsBegin == Init => VectorInv
  BY MadeVectors DEF Init, VectorInv, Clean

\* The solver never starts from a failed iterate (mpc.py:614-619 shifts the last
\* successful solution, 829-831 asks for the status), whatever the guesses,
\* the user's trajectories and the failures.
THEOREM FailedGuessIsNotUsed == Spec => []NoFailedGuess
  <1>1. VectorInv => NoFailedGuess
    BY DEF VectorInv, Clean, NoFailedGuess
  <1> QED
    BY <1>1, VectorsBegin, VectorsStay, PTL DEF Spec

-----------------------------------------------------------------------------
(* The shifted guess: by as many samples as the plan is old.               *)

Aligned(v) == v.of = "plan" /\ v.shift = v.age
\* What the next shift starts from stands for the present times while the
\* loop is idle, and for one sample ago when update_state has been called.
AlignInv ==
    /\ setting \in Settings /\ sampleNbr \in 0..3 /\ trajSet = FALSE
    /\ found \in BOOLEAN
    /\ place = "idle" /\ sampleNbr > 0 => Aligned(ShiftSource)
    /\ place = "updated" /\ sampleNbr > 1 =>
          ShiftSource.of = "plan" /\ ShiftSource.age = Capped(ShiftSource.shift + 1)
    /\ place = "updated" => sampleNbr > 0
    /\ place # "AttributeError" /\ place # "updated" /\ sampleNbr > 1 => Aligned(guess)

\* A sample after the first one starts from an aligned guess, which is kept.
LEMMA NewGuessIsAligned ==
    ASSUME Shifting, AlignInv, VectorInv, SetGuess, place = "updated", sampleNbr > 1
    PROVE  Aligned(guess') /\ Aligned(shiftedXX')
  <1>0. trajSet = FALSE /\ sampleNbr \in 0..3 /\ InitialGuess = "shift"
    BY DEF AlignInv, Shifting
  <1>1. trajSet = FALSE /\ ~ (sampleNbr <= 1) /\ InitialGuess = "shift" /\ Shifts
    BY <1>0 DEF Shifts
  <1>2. guess' = Shifted(ShiftSource) /\ shiftedXX' = Shifted(ShiftSource)
    BY <1>1 DEF SetGuess, NextGuess
  <1>3. Clean(ShiftSource)
    BY DEF VectorInv, ShiftSource
  <1> QED
    BY <1>2, <1>3, ShiftedIsClean DEF Aligned, AlignInv

LEMMA OlderPlan ==
    ASSUME NEW v \in Vecs, Aligned(v)
    PROVE  Older(v).of = "plan" /\ Older(v).age = Capped(Older(v).shift + 1)
  BY DEF Older, Aligned, Vecs

LEMMA AlignStays ==
    ASSUME Shifting, AlignInv, VectorInv, [Next]_vars
    PROVE  AlignInv'
  <1>0. /\ setting \in Settings /\ sampleNbr \in 0..3 /\ trajSet = FALSE
        /\ found \in BOOLEAN
    BY DEF AlignInv
  <1>a. ~ UserTraj
    BY DEF Shifting
  <1>1. CASE UpdateState
    <2>1. /\ place = "idle" /\ place' = "updated" /\ setting' = setting
          /\ sampleNbr' = (IF sampleNbr < 3 THEN sampleNbr + 1 ELSE 3)
          /\ trajSet' = trajSet /\ found' = found /\ guess' = guess
      BY <1>1 DEF UpdateState
    <2>2. ASSUME sampleNbr' > 1
          PROVE  ShiftSource'.of = "plan" /\ ShiftSource'.age = Capped(ShiftSource'.shift + 1)
      <3>1. sampleNbr # 0
        BY <1>0, <2>1, <2>2
      <3>2. primal' = Older(primal) /\ shiftedXX' = Older(shiftedXX)
        BY <1>1, <3>1 DEF UpdateState, Advance
      <3>3. ShiftSource' = Older(ShiftSource)
        BY <2>1, <3>2 DEF ShiftSource
      <3>4. Aligned(ShiftSource) /\ ShiftSource \in Vecs
        BY <1>0, <2>1, <3>1 DEF AlignInv, VectorInv, Clean, ShiftSource
      <3> QED
        BY <3>3, <3>4, OlderPlan
    <2> QED
      BY <1>0, <2>1, <2>2 DEF AlignInv
  <1>2. CASE SolveSucceeds
    <2>1. /\ place = "updated" /\ SetGuess /\ setting' = setting /\ sampleNbr' = sampleNbr
          /\ place' = "idle" /\ trajSet' = FALSE /\ found' = TRUE
          /\ primal' = Vector("plan")
      BY <1>2 DEF SolveSucceeds
    <2>2. Aligned(ShiftSource')
      BY <2>1 DEF ShiftSource, Aligned, Vector
    <2>3. sampleNbr > 1 => Aligned(guess')
      BY <2>1, NewGuessIsAligned
    <2>4. found' \in BOOLEAN
      BY <2>1, Zenon
    <2> QED
      BY <1>0, <2>1, <2>2, <2>3, <2>4 DEF AlignInv
  <1>3. CASE FirstFailure \/ GivesUp \/ UsesOldPlan
    <2>1. /\ place = "updated" /\ SetGuess /\ setting' = setting /\ sampleNbr' = sampleNbr
          /\ trajSet' = FALSE /\ found' = FALSE
      BY <1>0, <1>3 DEF FirstFailure, GivesUp, UsesOldPlan, SolveFails
    <2>2. place' \in {"idle", "RuntimeError", "IndexError"}
          /\ (sampleNbr = 1 => place' = "RuntimeError")
      BY <1>3 DEF FirstFailure, GivesUp, UsesOldPlan
    <2>3. sampleNbr > 0
      BY <2>1 DEF AlignInv
    <2>4. place' = "idle" => Aligned(ShiftSource')
      BY <1>0, <2>1, <2>2, <2>3, NewGuessIsAligned DEF ShiftSource
    <2>5. sampleNbr > 1 => Aligned(guess')
      BY <2>1, NewGuessIsAligned
    <2>6. found' \in BOOLEAN
      BY <2>1, Zenon
    <2> QED
      BY <1>0, <2>1, <2>2, <2>4, <2>5, <2>6 DEF AlignInv
  <1>4. CASE SetInitTraj
    BY <1>a, <1>4, Zenon DEF SetInitTraj
  <1>5. CASE GetResultsThisSample \/ Ended \/ UNCHANGED vars
    BY <1>5 DEF GetResultsThisSample, Ended, vars, vectors, AlignInv, ShiftSource
  <1>6. CASE UpdateStateFails \/ SampleNoGuess
    <2>1. /\ place' = "AttributeError" /\ setting' = setting /\ trajSet' = trajSet
          /\ found' = found /\ sampleNbr' \in 0..3
      BY <1>0, <1>6 DEF UpdateStateFails, SampleNoGuess
    <2> QED
      BY <1>0, <2>1 DEF AlignInv
  <1> QED
    BY <1>1, <1>2, <1>3, <1>4, <1>5, <1>6 DEF Next, Sample

LEMMA AlignBegins == Init => AlignInv
  <1> SUFFICES ASSUME Init PROVE AlignInv
    OBVIOUS
  <1>1. found \in BOOLEAN /\ trajSet = FALSE
    BY Zenon DEF Init
  <1> QED
    BY <1>1 DEF Init, AlignInv

\* With the guess "shift", and no trajectories of the user, the guess stands for
\* the times of the present problem, after any number of failures in a row:
\* shifted_xx is shifted on (mpc.py:616-619) by one sample per call.
THEOREM GuessesAreAligned == Spec => []GuessIsAligned
  <1> DEFINE I == Shifting => AlignInv
  <1>1. Init => I
    BY AlignBegins
  <1>2. I /\ VectorInv /\ [Next]_vars => I'
    BY AlignStays, SettingStays, ChoicesStay
  <1>3. I => GuessIsAligned
    BY DEF AlignInv, Aligned, GuessIsAligned, Shifting
  <1> QED
    BY <1>1, <1>2, <1>3, VectorsBegin, VectorsStay, PTL DEF Spec

-----------------------------------------------------------------------------
(* What the states are estimated from.                                     *)

\* Used only when every successful solve makes the result object: it is as old
\* as there have been failures since.
EstimateInv ==
    /\ setting \in Settings
    /\ sampleNbr \in 0..3 /\ fails \in Nat /\ resultObject \in Vecs
    /\ place = "idle" => (sampleNbr = 0 => fails = 0) /\ fails <= NE
    /\ place = "updated" =>
          sampleNbr > 0 /\ (sampleNbr = 1 => estimate = None /\ fails = 0) /\ fails <= NE
    /\ InitialGuess = "trajectory" =>
          /\ place = "idle" /\ sampleNbr > 0 =>
                resultObject.of = "plan" /\ resultObject.age = fails
          /\ place = "updated" /\ sampleNbr > 1 =>
                resultObject.of = "plan" /\ resultObject.age = fails + 1

LEMMA EstimateStays ==
    ASSUME EstimateInv, VectorInv, [Next]_vars
    PROVE  EstimateInv'
  <1>0. /\ sampleNbr \in 0..3 /\ fails \in Nat /\ resultObject \in Vecs
        /\ InitialGuess' = InitialGuess /\ NE \in Nat /\ MaxAge \in Nat /\ MaxAge > NE
        /\ setting \in Settings /\ setting' = setting /\ NE' = NE
    BY SettingStays, ChoicesStay, Bounds, Sizes DEF EstimateInv
  <1>1. CASE UpdateState
    <2>1. /\ place = "idle" /\ place' = "updated" /\ fails' = fails
          /\ sampleNbr' = (IF sampleNbr < 3 THEN sampleNbr + 1 ELSE 3)
          /\ sampleNbr = 0 => estimate' = None
      BY <1>1 DEF UpdateState
    <2>2. resultObject' \in Vecs
      BY <1>0, <1>1, OlderIsVector DEF UpdateState, Advance, vectors
    <2>3. ASSUME InitialGuess = "trajectory", sampleNbr' > 1
          PROVE  resultObject'.of = "plan" /\ resultObject'.age = fails + 1
      <3>1. sampleNbr # 0
        BY <1>0, <2>1, <2>3
      <3>2. resultObject' = Older(resultObject)
        BY <1>1, <3>1 DEF UpdateState, Advance
      <3>3. resultObject.of = "plan" /\ resultObject.age = fails /\ fails <= NE
        BY <1>0, <2>1, <2>3, <3>1 DEF EstimateInv
      <3>4. Capped(fails + 1) = fails + 1
        BY <1>0, <3>3 DEF Capped
      <3> QED
        BY <1>0, <3>2, <3>3, <3>4 DEF Older, Vecs
    <2> QED
      BY <1>0, <2>1, <2>2, <2>3 DEF EstimateInv
  <1>2. CASE SolveSucceeds
    <2>1. /\ place = "updated" /\ place' = "idle" /\ sampleNbr' = sampleNbr /\ fails' = 0
          /\ resultObject' = (IF InitialGuess = "trajectory" THEN Vector("plan")
                              ELSE resultObject)
      BY <1>2 DEF SolveSucceeds
    <2>2. resultObject' \in Vecs
      BY <1>0, <2>1, MadeVectors DEF Clean
    <2> QED
      BY <1>0, <2>1, <2>2 DEF EstimateInv, Vector
  <1>3. CASE FirstFailure \/ GivesUp
    <2>1. /\ place' = "RuntimeError" /\ sampleNbr' = sampleNbr /\ resultObject' = resultObject
          /\ fails' \in Nat
      BY <1>0, <1>3 DEF FirstFailure, GivesUp, SolveFails, Counted
    <2> QED
      BY <1>0, <2>1 DEF EstimateInv
  <1>4. CASE UsesOldPlan
    <2>1. /\ place = "updated" /\ place' \in {"idle", "IndexError"} /\ sampleNbr' = sampleNbr
          /\ resultObject' = resultObject /\ fails' = fails + 1 /\ ~ (fails' >= NE)
          /\ sampleNbr # 1
      BY <1>4 DEF UsesOldPlan, SolveFails, Counted, UsedUp
    <2>2. sampleNbr > 1
      BY <1>0, <2>1 DEF EstimateInv
    <2> QED
      BY <1>0, <2>1, <2>2 DEF EstimateInv
  <1>5. CASE SetInitTraj
    BY <1>0, <1>5 DEF SetInitTraj, EstimateInv
  <1>6. CASE GetResultsThisSample
    BY <1>0, <1>6 DEF GetResultsThisSample, EstimateInv, VectorInv
  <1>7. CASE UpdateStateFails \/ SampleNoGuess
    BY <1>0, <1>7 DEF UpdateStateFails, SampleNoGuess, EstimateInv, vectors
  <1>8. CASE Ended \/ UNCHANGED vars
    BY <1>0, <1>8 DEF Ended, vars, vectors, EstimateInv
  <1> QED
    BY <1>1, <1>2, <1>3, <1>4, <1>5, <1>6, <1>7, <1>8 DEF Next, Sample

LEMMA EstimateBegins == Init => EstimateInv
  <1> SUFFICES ASSUME Init PROVE EstimateInv
    OBVIOUS
  <1>1. setting \in Settings
    BY DEF Init
  <1> QED
    BY <1>1, MadeVectors, Sizes DEF Init, EstimateInv, Clean

\* With the guess "trajectory", which makes a result object of every successful
\* solve, the states are estimated (mpc.py:583-605) from the last plan, as many
\* samples back as solves have failed since, for all settings beside it.
THEOREM EstimatesAreCurrent == Spec => []EstimateIsCurrent
  <1>1. EstimateInv => EstimateIsCurrent
    BY DEF EstimateInv, EstimateIsCurrent
  <1> QED
    BY <1>1, EstimateBegins, EstimateStays, VectorsBegin, VectorsStay, PTL DEF Spec

-----------------------------------------------------------------------------
(* The refinement.                                                         *)

\* The states can be estimated whenever they are not measured.
LEMMA AlwaysEstimated ==
    ASSUME Provided, EstimateInv, place = "idle"
    PROVE  Measured \/ ~ (sampleNbr > 0) \/ resultObject # NoVector
  BY DEF Provided, EstimateInv, NoVector

\* Every step of the controller is one of the promise, or none.
LEMMA StepRefines ==
    ASSUME RowsInv, EstimateInv, [Next]_vars
    PROVE  [RH!RHNext]_(RH!rhVars)
  <1>a. setting' = setting /\ Provided' = Provided
    BY SettingStays, ChoicesStay
  <1>b. CASE ~ Provided
    BY <1>a, <1>b DEF RH!rhVars
  <1> SUFFICES ASSUME Provided PROVE [RH!RHNext]_(RH!rhVars)
    BY <1>b
  <1>c. LoopInv /\ Provided' /\ RowsOfSamples
    BY <1>a DEF RowsInv, Provided
  <1> USE <1>c DEF RH!RHNext, RH!rhVars
  <1>1. CASE UpdateState
    <2>1. place = "idle" /\ place' = "updated" /\ input' = input
      BY <1>1 DEF UpdateState
    <2>2. result' = IF result = -1 THEN -1 ELSE IF result < MaxAge THEN result + 1 ELSE result
      <3>1. CASE sampleNbr = 0
        BY <1>1, <2>1, <3>1 DEF UpdateState, Advance, LoopInv, Waiting
      <3>2. CASE sampleNbr # 0
        <4>1. result = fails /\ fails < Horizon /\ fails \in Nat
          BY <2>1, <3>2 DEF LoopInv, Waiting
        <4>2. result' = Capped(result + 1)
          BY <1>1, <3>2, <4>1 DEF UpdateState, Advance, None
        <4> QED
          BY <4>1, <4>2, Bounds, Sizes DEF Capped, LoopInv
      <3> QED
        BY <3>1, <3>2
    <2> QED
      BY <2>1, <2>2 DEF RH!Elapse
  <1>2. CASE SolveSucceeds
    <2>1. InputSample(0) = 0
      BY Bounds, RowOfSample DEF LoopInv
    <2> QED
      BY <1>2, <2>1 DEF SolveSucceeds, RH!Plan
  <1>3. CASE UsesOldPlan
    <2>1. /\ place = "updated" /\ fails \in Nat /\ fails' = fails + 1
          /\ result = fails + 1 /\ result' = result /\ fails < Horizon
      BY <1>3 DEF UsesOldPlan, SolveFails, LoopInv, Asked, Counted, UsedUp
    <2>2. CASE fails + 1 < Horizon
      <3>1. fails' \in 0..(Horizon - 1)
        BY <2>1, <2>2, Bounds
      <3>2. place' = "idle" /\ input' = result
        BY <1>3, <2>1, <3>1, RowOfSample DEF LoopInv, UsesOldPlan, UsedUp
      <3> QED
        BY <2>1, <3>1, <3>2 DEF RH!Follow
    <2>3. CASE ~ (fails + 1 < Horizon)
      <3>1. fails' \in Nat /\ fails' >= Horizon
        BY <2>1, <2>3, Bounds
      <3>2. place' = "IndexError" /\ input' = input
        BY <1>3, <3>1, NoRowBeyond DEF LoopInv, UsesOldPlan, UsedUp
      <3>3. result \notin 0..(Horizon - 1)
        BY <2>1, <3>1, Bounds
      <3> QED
        BY <2>1, <3>2, <3>3 DEF RH!GiveUp
    <2> QED
      BY <2>2, <2>3
  <1>4. CASE FirstFailure
    BY <1>4, Bounds DEF FirstFailure, SolveFails, RH!GiveUp, LoopInv, Asked
  <1>5. CASE GivesUp
    <2>1. /\ place = "updated" /\ place' = "RuntimeError" /\ result' = result
          /\ input' = input /\ result = fails + 1 /\ fails + 1 >= NE /\ fails \in Nat
      BY <1>5 DEF GivesUp, SolveFails, LoopInv, Asked, Counted, UsedUp
    <2>2. result \notin 0..(Horizon - 1)
      BY <2>1, Bounds, Sizes DEF LoopInv
    <2> QED
      BY <2>1, <2>2 DEF RH!GiveUp
  <1>6. CASE SampleNoGuess
    BY <1>6, HasGuess DEF SampleNoGuess
  <1>7. CASE UpdateStateFails
    BY <1>7, AlwaysEstimated DEF UpdateStateFails
  <1>8. CASE SetInitTraj \/ GetResultsThisSample \/ Ended \/ UNCHANGED vars
    BY <1>8 DEF SetInitTraj, GetResultsThisSample, Ended, vars, vectors
  <1> QED
    BY <1>1, <1>2, <1>3, <1>4, <1>5, <1>6, <1>7, <1>8 DEF Next, Sample

\* MPC keeps the promise of a receding horizon controller: update_state lets a
\* sample pass, and sample answers it with a new plan, with the old plan's
\* input for the present sample, or gives up when the plan ends here: for every
\* setting that provides what a sample needs.
THEOREM MpcImplements == Spec => RecedingHorizon
  <1>1. Init => RH!RHInit
    BY DEF Init, RH!RHInit, None
  <1>2. RowsInv /\ EstimateInv /\ [Next]_vars => [RH!RHNext]_(RH!rhVars)
    BY StepRefines
  <1>3. Init => RowsInv
    BY InitLoop DEF RowsInv
  <1>4. RowsInv /\ [Next]_vars => RowsInv'
    BY RowsStay
  <1> QED
    BY <1>1, <1>2, <1>3, <1>4, EstimateBegins, EstimateStays, VectorsBegin, VectorsStay,
       PTL DEF Spec, RecedingHorizon, RH!RHSpec

-----------------------------------------------------------------------------
(* The warm start.                                                         *)

\* From the second sample on the solver has left something.
SolvedInv ==
    /\ sampleNbr \in 0..3 /\ primal \in Vecs
    /\ sampleNbr > 1 \/ (sampleNbr = 1 /\ place # "updated") => primal.of # "none"
    /\ warm => sampleNbr > 1
    /\ warm \in BOOLEAN

LEMMA SolvedStays ==
    ASSUME SolvedInv, [Next]_vars
    PROVE  SolvedInv' /\ (warm' => primal # NoVector)
  <1>0. /\ sampleNbr \in 0..3 /\ primal \in Vecs /\ warm \in BOOLEAN
        /\ primal.of # "none" => primal # NoVector
    BY DEF SolvedInv, NoVector
  <1>1. CASE UpdateState
    <2>1. /\ place = "idle" /\ place' = "updated" /\ warm' = warm
          /\ sampleNbr' = (IF sampleNbr < 3 THEN sampleNbr + 1 ELSE 3)
      BY <1>1 DEF UpdateState
    <2>2. primal' \in Vecs /\ primal'.of = primal.of
      BY <1>0, <1>1, OlderIsVector DEF UpdateState, Advance, vectors
    <2> QED
      BY <1>0, <2>1, <2>2 DEF SolvedInv
  <1>2. CASE UpdateStateFails
    <2>1. /\ place = "idle" /\ place' = "AttributeError" /\ warm' = warm
          /\ sampleNbr' = (IF sampleNbr < 3 THEN sampleNbr + 1 ELSE 3) /\ sampleNbr > 0
          /\ primal' = primal
      BY <1>2 DEF UpdateStateFails, vectors
    <2> QED
      BY <1>0, <2>1 DEF SolvedInv
  <1>3. CASE SolveSucceeds \/ FirstFailure \/ GivesUp \/ UsesOldPlan
    <2>1. /\ sampleNbr' = sampleNbr /\ SetGuess
          /\ primal' = Vector("plan") \/ primal' = Vector("failure")
      BY <1>3 DEF SolveSucceeds, FirstFailure, GivesUp, UsesOldPlan, SolveFails
    <2>2. primal' \in Vecs /\ primal'.of # "none"
      BY <2>1, MadeVectors DEF Clean, Vector
    <2>3. warm' \in BOOLEAN
      BY <2>1, ZenonT(30) DEF SetGuess
    <2>4. warm' => sampleNbr > 1
      BY <1>0, <2>1 DEF SetGuess, FirstWarmSample, SolvedInv
    <2> QED
      BY <1>0, <2>1, <2>2, <2>3, <2>4 DEF SolvedInv
  <1>4. CASE SetInitTraj \/ GetResultsThisSample \/ Ended \/ UNCHANGED vars
    BY <1>0, <1>4 DEF SetInitTraj, GetResultsThisSample, Ended, vars, vectors, SolvedInv
  <1>5. CASE SampleNoGuess
    BY <1>0, <1>5 DEF SampleNoGuess, NoGuess, Shifts, vectors, SolvedInv
  <1> QED
    BY <1>1, <1>2, <1>3, <1>4, <1>5 DEF Next, Sample

LEMMA SolvedBegins == Init => SolvedInv
  <1> SUFFICES ASSUME Init PROVE SolvedInv
    OBVIOUS
  <1>1. warm \in BOOLEAN /\ ~ warm
    BY ZenonT(30) DEF Init
  <1> QED
    BY <1>1, MadeVectors DEF Init, SolvedInv, Clean

\* A warm start (mpc.py:836-841, in the second sample) takes multipliers that a
\* solve has left, for every setting.
THEOREM WarmStartsHaveDuals == Spec => WarmStartHasDuals
  <1>1. SolvedInv /\ [Next]_vars => [warm' => primal # NoVector]_vars
    BY SolvedStays
  <1>2. SolvedInv /\ [Next]_vars => SolvedInv'
    BY SolvedStays
  <1> QED
    BY <1>1, <1>2, SolvedBegins, PTL DEF Spec, WarmStartHasDuals

-----------------------------------------------------------------------------
(* The exceptions.                                                         *)

\* The rows of the result end with the plan, and with one element per sample
\* the failures are used up no later than they, so that of all exceptions only
\* the documented one is left.
LEMMA OnlyBeyondPlan ==
    ASSUME Provided, LoopInv, EstimateInv, NoUndocumentedError, [Next]_vars
    PROVE  NoUndocumentedError'
  <1> USE DEF NoUndocumentedError
  <1>a. setting' = setting /\ Provided' = Provided /\ NES' = NES
    BY SettingStays, ChoicesStay
  <1>b. setting \in Settings /\ RowsOfSamples
    BY DEF LoopInv, Provided
  <1>1. CASE UsesOldPlan
    <2>1. fails \in Nat /\ fails' = fails + 1 /\ ~ (fails' >= NE)
          /\ place' \in {"idle", "IndexError"}
      BY <1>1 DEF UsesOldPlan, SolveFails, LoopInv, Counted, UsedUp
    <2>2. CASE fails' < Horizon
      <3>1. fails' \in 0..(Horizon - 1)
        BY <2>1, <2>2, Bounds
      <3> QED
        BY <1>1, <1>b, <2>1, <3>1, RowOfSample DEF UsesOldPlan
    <2>3. CASE ~ (fails' < Horizon)
      <3>1. NES \in Nat \ {0} /\ NES # 1
        BY <1>b, <2>1, <2>3, Bounds, ElementsPerSample
      <3> QED
        BY <1>a, <2>1, <2>3, <3>1, Bounds
    <2> QED
      BY <2>2, <2>3
  <1>2. CASE SampleNoGuess
    BY <1>2, HasGuess DEF SampleNoGuess
  <1>3. CASE UpdateStateFails
    BY <1>3, AlwaysEstimated DEF UpdateStateFails
  <1>4. CASE UpdateState \/ SetInitTraj \/ SolveSucceeds \/ FirstFailure \/ GivesUp
             \/ GetResultsThisSample
    <2>1. place' \in {"idle", "updated", "RuntimeError"}
      BY <1>4 DEF UpdateState, SetInitTraj, SolveSucceeds, FirstFailure, GivesUp,
                  GetResultsThisSample
    <2> QED
      BY <2>1
  <1>5. CASE Ended \/ UNCHANGED vars
    BY <1>5, <1>a DEF Ended, vars
  <1> QED
    BY <1>1, <1>2, <1>3, <1>4, <1>5 DEF Next, Sample

\* For every horizon, and every setting that provides what a sample needs, the
\* controller returns inputs until it raises the error it documents, or reads
\* beyond the end of a plan of several elements in a sample.
THEOREM ErrorsAreDocumented == Spec => []NoUndocumentedError
  <1>1. Init => NoUndocumentedError
    BY DEF Init, NoUndocumentedError
  <1>2. RowsInv /\ EstimateInv /\ NoUndocumentedError /\ [Next]_vars => NoUndocumentedError'
    <2>1. ASSUME ~ Provided, [Next]_vars
          PROVE  NoUndocumentedError'
      BY <2>1, SettingStays, ChoicesStay DEF NoUndocumentedError
    <2> QED
      BY <2>1, OnlyBeyondPlan DEF RowsInv, Provided
  <1>3. RowsInv /\ [Next]_vars => RowsInv'
    BY RowsStay
  <1>4. Init => RowsInv
    BY InitLoop DEF RowsInv
  <1> QED
    BY <1>1, <1>2, <1>3, <1>4, EstimateBegins, EstimateStays, VectorsBegin, VectorsStay,
       PTL DEF Spec
=============================================================================
