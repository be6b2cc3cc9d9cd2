---------------------------- MODULE MHE_proofs ----------------------------
(***************************************************************************)
(* Proofs about MHE: for every horizon and any number of calls the moving  *)
(* horizon estimator answers as an estimator with full information.        *)
(***************************************************************************)
EXTENDS MHE, SequenceTheorems, TLAPS

\* The samples from time s to time n - 1, and the estimates for s to n made
\* from all samples before them.
Between(s, n) == [i \in 1..(n - s) |-> s + i - 1]
Upto(n) == Between(0, n)
Estimates(s, n) == [i \in 1..(n - s + 1) |-> Column(s + i - 1, Upto(s + i - 1))]

\* As long as no call has raised an exception: n estimates have been made, the
\* filter has taken over s samples, and everything stands at its time.
Healthy(s, n) ==
  /\ n = next_time_index - 1
  /\ calls = n
  /\ n <= horizon => s = 0
  /\ ~(n <= horizon) => s = n - horizon
  /\ time_vector = Between(s, n + 1)
  /\ uy = Between(s, n)
  /\ x_est = Estimates(s, n)
  /\ x_0_guess = Column(s, Upto(s))
  /\ P0inv = P
  /\ Len(P) = s
  /\ \A i \in 1..s : P[i].t = i - 1 /\ P[i].x = i - 1 /\ P[i].uy = i - 1
  /\ answer.at = n

\* After an exception: there are more times than data, for good, or no
\* estimate to go on from.
Stuck ==
  \/ Len(time_vector) > Len(uy) + 1
  \/ x_est = << >> /\ Moves

AnswerInv == answer.from = Upto(answer.at) /\ PriorMatchesWindow

IInv ==
  /\ TypeOK
  /\ Stuck \/ \E s, n \in Nat : Healthy(s, n)
  /\ AnswerInv

-----------------------------------------------------------------------------
(* Windows of samples and of estimates                                     *)

LEMMA SameSequence ==
    ASSUME NEW S, NEW s \in Seq(S), NEW t \in Seq(S), NEW k,
           Len(s) = k, Len(t) = k, \A i \in 1..k : s[i] = t[i]
    PROVE  s = t
  BY SeqEqual

LEMMA BetweenProperties ==
    ASSUME NEW s \in Nat, NEW n \in Nat, s <= n
    PROVE  /\ Between(s, n) \in Seq(Nat)
           /\ Len(Between(s, n)) = n - s
           /\ \A i \in 1..(n - s) : Between(s, n)[i] = s + i - 1
  <1>1. n - s \in Nat /\ \A i \in 1..(n - s) : s + i - 1 \in Nat
    OBVIOUS
  <1> QED
    BY <1>1 DEF Between

LEMMA UptoProperties ==
    ASSUME NEW s \in Nat
    PROVE  /\ Upto(s) \in Seq(Nat)
           /\ Len(Upto(s)) = s
           /\ \A i \in 1..s : Upto(s)[i] = i - 1
  <1>1. 0 \in Nat /\ 0 <= s
    OBVIOUS
  <1>2. /\ Between(0, s) \in Seq(Nat)
        /\ Len(Between(0, s)) = s - 0
        /\ \A i \in 1..(s - 0) : Between(0, s)[i] = 0 + i - 1
    BY <1>1, BetweenProperties
  <1> QED
    BY <1>2 DEF Upto

LEMMA BetweenAppend ==
    ASSUME NEW s \in Nat, NEW n \in Nat, s <= n
    PROVE  Append(Between(s, n), n) = Between(s, n + 1)
  <1>1. /\ Between(s, n) \in Seq(Nat) /\ Len(Between(s, n)) = n - s
        /\ \A i \in 1..(n - s) : Between(s, n)[i] = s + i - 1
    BY BetweenProperties
  <1>2. /\ Between(s, n + 1) \in Seq(Nat) /\ Len(Between(s, n + 1)) = n + 1 - s
        /\ \A i \in 1..(n + 1 - s) : Between(s, n + 1)[i] = s + i - 1
    BY BetweenProperties
  <1>3. /\ Append(Between(s, n), n) \in Seq(Nat)
        /\ Len(Append(Between(s, n), n)) = n - s + 1
        /\ \A i \in 1..(n - s + 1) : Append(Between(s, n), n)[i]
             = IF i <= n - s THEN Between(s, n)[i] ELSE n
    BY <1>1, AppendProperties
  <1>4. \A i \in 1..(n - s + 1) : Append(Between(s, n), n)[i] = Between(s, n + 1)[i]
    BY <1>1, <1>2, <1>3
  <1> QED
    <2>1. Len(Between(s, n + 1)) = n - s + 1
      BY <1>2
    <2> QED
      BY <1>2, <1>3, <1>4, <2>1, SameSequence

LEMMA BetweenNext ==
    ASSUME NEW s \in Nat, NEW n \in Nat, s <= n
    PROVE  /\ Between(s, n + 1) \in Seq(Nat)
           /\ Len(Between(s, n + 1)) = n + 1 - s
           /\ \A i \in 1..(n + 1 - s) : Between(s, n + 1)[i] = s + i - 1
           /\ Between(s, n + 1)[1] = s
           /\ \A i \in 1..(n - s) : Between(s, n)[i] = Between(s, n + 1)[i]
  <1>1. /\ Between(s, n + 1) \in Seq(Nat)
        /\ Len(Between(s, n + 1)) = n + 1 - s
        /\ \A i \in 1..(n + 1 - s) : Between(s, n + 1)[i] = s + i - 1
    BY BetweenProperties
  <1>2. \A i \in 1..(n - s) : Between(s, n)[i] = s + i - 1
    BY BetweenProperties
  <1>3. \A i \in 1..(n - s) : i \in 1..(n + 1 - s)
    OBVIOUS
  <1>4. 1 \in 1..(n + 1 - s) /\ s + 1 - 1 = s
    OBVIOUS
  <1>5. \A i \in 1..(n - s) : Between(s, n)[i] = Between(s, n + 1)[i]
    BY <1>1, <1>2, <1>3
  <1>6. Between(s, n + 1)[1] = s
    BY <1>1, <1>4
  <1> QED
    BY <1>1, <1>5, <1>6

LEMMA BetweenTail ==
    ASSUME NEW s \in Nat, NEW n \in Nat, s < n
    PROVE  /\ Tail(Between(s, n)) = Between(s + 1, n)
           /\ Between(s, n)[1] = s
  <1>1. /\ Between(s, n) \in Seq(Nat) /\ Len(Between(s, n)) = n - s
        /\ \A i \in 1..(n - s) : Between(s, n)[i] = s + i - 1
    BY BetweenProperties
  <1>2. /\ Between(s + 1, n) \in Seq(Nat) /\ Len(Between(s + 1, n)) = n - s - 1
        /\ \A i \in 1..(n - s - 1) : Between(s + 1, n)[i] = s + i
    <2>1. s + 1 \in Nat /\ s + 1 <= n
      OBVIOUS
    <2>2. /\ Between(s + 1, n) \in Seq(Nat) /\ Len(Between(s + 1, n)) = n - (s + 1)
          /\ \A i \in 1..(n - (s + 1)) : Between(s + 1, n)[i] = (s + 1) + i - 1
      BY <2>1, BetweenProperties
    <2> QED
      BY <2>2
  <1>3. /\ Tail(Between(s, n)) \in Seq(Nat)
        /\ Len(Tail(Between(s, n))) = n - s - 1
        /\ \A i \in 1..(n - s - 1) : Tail(Between(s, n))[i] = Between(s, n)[i + 1]
    BY <1>1, HeadTailProperties
  <1>4. \A i \in 1..(n - s - 1) : Tail(Between(s, n))[i] = Between(s + 1, n)[i]
    BY <1>1, <1>2, <1>3
  <1> QED
    <2>1. Tail(Between(s, n)) = Between(s + 1, n)
      BY <1>2, <1>3, <1>4, SameSequence
    <2>2. Between(s, n)[1] = s
      BY <1>1
    <2> QED
      BY <2>1, <2>2

LEMMA BetweenConcat ==
    ASSUME NEW s \in Nat, NEW n \in Nat, s <= n
    PROVE  Upto(s) \o Between(s, n) = Upto(n)
  <1>1. /\ Upto(s) \in Seq(Nat) /\ Len(Upto(s)) = s
        /\ \A i \in 1..s : Upto(s)[i] = i - 1
    BY BetweenProperties DEF Upto
  <1>2. /\ Upto(n) \in Seq(Nat) /\ Len(Upto(n)) = n
        /\ \A i \in 1..n : Upto(n)[i] = i - 1
    BY BetweenProperties DEF Upto
  <1>3. /\ Between(s, n) \in Seq(Nat) /\ Len(Between(s, n)) = n - s
        /\ \A i \in 1..(n - s) : Between(s, n)[i] = s + i - 1
    BY BetweenProperties
  <1>4. /\ Upto(s) \o Between(s, n) \in Seq(Nat)
        /\ Len(Upto(s) \o Between(s, n)) = n
        /\ \A i \in 1..n : (Upto(s) \o Between(s, n))[i]
             = IF i <= s THEN Upto(s)[i] ELSE Between(s, n)[i - s]
    <2>1. Len(Upto(s)) + Len(Between(s, n)) = n
      BY <1>1, <1>3
    <2>2. /\ Upto(s) \o Between(s, n) \in Seq(Nat)
          /\ Len(Upto(s) \o Between(s, n)) = Len(Upto(s)) + Len(Between(s, n))
          /\ \A i \in 1..(Len(Upto(s)) + Len(Between(s, n))) :
               (Upto(s) \o Between(s, n))[i]
                 = IF i <= Len(Upto(s)) THEN Upto(s)[i]
                                        ELSE Between(s, n)[i - Len(Upto(s))]
      BY <1>1, <1>3, ConcatProperties
    <2> QED
      BY <2>1, <2>2, <1>1
  <1>5. \A i \in 1..n : (Upto(s) \o Between(s, n))[i] = Upto(n)[i]
    BY <1>1, <1>2, <1>3, <1>4
  <1> QED
    BY <1>2, <1>4, <1>5, SameSequence
LEMMA EstimatesProperties ==
    ASSUME NEW s \in Nat, NEW n \in Nat, s <= n + 1
    PROVE  /\ Estimates(s, n) \in Seq(Columns)
           /\ Len(Estimates(s, n)) = n - s + 1
           /\ \A i \in 1..(n - s + 1) :
                Estimates(s, n)[i] = Column(s + i - 1, Upto(s + i - 1))
  <1>1. n - s + 1 \in Nat
    OBVIOUS
  <1>2. ASSUME NEW i \in 1..(n - s + 1)
        PROVE  Column(s + i - 1, Upto(s + i - 1)) \in Columns
    <2>1. s + i - 1 \in Nat
      OBVIOUS
    <2>2. Upto(s + i - 1) \in Seq(Nat)
      BY <2>1, BetweenProperties DEF Upto
    <2> QED
      BY <2>1, <2>2 DEF Column, Columns
  <1> QED
    BY <1>1, <1>2 DEF Estimates

LEMMA EstimatesAppend ==
    ASSUME NEW s \in Nat, NEW n \in Nat, s <= n + 1
    PROVE  Append(Estimates(s, n), Column(n + 1, Upto(n + 1))) = Estimates(s, n + 1)
  <1> DEFINE E == Estimates(s, n)
             new == Column(n + 1, Upto(n + 1))
  <1>1. /\ E \in Seq(Columns) /\ Len(E) = n - s + 1
        /\ \A i \in 1..(n - s + 1) : E[i] = Column(s + i - 1, Upto(s + i - 1))
    BY EstimatesProperties
  <1>2. /\ Estimates(s, n + 1) \in Seq(Columns)
        /\ Len(Estimates(s, n + 1)) = n - s + 2
        /\ \A i \in 1..(n - s + 2) :
             Estimates(s, n + 1)[i] = Column(s + i - 1, Upto(s + i - 1))
    <2>1. n + 1 \in Nat /\ s <= (n + 1) + 1 /\ (n + 1) - s + 1 = n - s + 2
      OBVIOUS
    <2>2. /\ Estimates(s, n + 1) \in Seq(Columns)
          /\ Len(Estimates(s, n + 1)) = (n + 1) - s + 1
          /\ \A i \in 1..((n + 1) - s + 1) :
               Estimates(s, n + 1)[i] = Column(s + i - 1, Upto(s + i - 1))
      BY <2>1, EstimatesProperties
    <2>3. 1..((n + 1) - s + 1) = 1..(n - s + 2)
      BY <2>1
    <2> QED
      BY <2>1, <2>2, <2>3, Zenon
  <1>3. new \in Columns
    BY BetweenProperties DEF Upto, Column, Columns
  <1> HIDE DEF E, new
  <1>4. /\ Append(E, new) \in Seq(Columns)
        /\ Len(Append(E, new)) = n - s + 2
        /\ \A i \in 1..(n - s + 1) : Append(E, new)[i] = E[i]
        /\ Append(E, new)[n - s + 2] = new
    <2>1. Len(E) + 1 = n - s + 2
      BY <1>1
    <2> QED
      BY <1>1, <1>3, <2>1, AppendProperties
  <1>5. \A i \in 1..(n - s + 2) : Append(E, new)[i] = Estimates(s, n + 1)[i]
    <2> TAKE i \in 1..(n - s + 2)
    <2>0. i = n - s + 2 \/ i \in 1..(n - s + 1)
      OBVIOUS
    <2>1. CASE i = n - s + 2
      <3>1. s + i - 1 = n + 1
        BY <2>1
      <3>2. Estimates(s, n + 1)[i] = Column(n + 1, Upto(n + 1))
        BY <1>2, <3>1
      <3> QED
        BY <1>4, <2>1, <3>2 DEF new
    <2>2. CASE i \in 1..(n - s + 1)
      BY <1>1, <1>2, <1>4, <2>2
    <2> QED
      BY <2>0, <2>1, <2>2, Zenon
  <1>6. Append(E, new) = Estimates(s, n + 1)
    BY <1>2, <1>4, <1>5, SameSequence
  <1> QED
    BY <1>6 DEF E, new

LEMMA EstimatesTail ==
    ASSUME NEW s \in Nat, NEW n \in Nat, s <= n
    PROVE  /\ Tail(Estimates(s, n)) = Estimates(s + 1, n)
           /\ Estimates(s, n)[1] = Column(s, Upto(s))
  <1> DEFINE E == Estimates(s, n)
  <1>1. /\ E \in Seq(Columns) /\ Len(E) = n - s + 1
        /\ \A i \in 1..(n - s + 1) : E[i] = Column(s + i - 1, Upto(s + i - 1))
    BY EstimatesProperties
  <1>2. /\ Estimates(s + 1, n) \in Seq(Columns)
        /\ Len(Estimates(s + 1, n)) = n - s
        /\ \A i \in 1..(n - s) : Estimates(s + 1, n)[i] = Column(s + i, Upto(s + i))
    <2>1. s + 1 \in Nat /\ s + 1 <= n + 1 /\ n - (s + 1) + 1 = n - s
      OBVIOUS
    <2>2. \A i \in 1..(n - s) : (s + 1) + i - 1 = s + i
      OBVIOUS
    <2>3. /\ Estimates(s + 1, n) \in Seq(Columns)
          /\ Len(Estimates(s + 1, n)) = n - (s + 1) + 1
          /\ \A i \in 1..(n - (s + 1) + 1) : Estimates(s + 1, n)[i]
               = Column((s + 1) + i - 1, Upto((s + 1) + i - 1))
      BY <2>1, EstimatesProperties
    <2> QED
      BY <2>1, <2>2, <2>3
  <1> HIDE DEF E
  <1>3. /\ Tail(E) \in Seq(Columns) /\ Len(Tail(E)) = n - s
        /\ \A i \in 1..(n - s) : Tail(E)[i] = E[i + 1]
    <2>1. E # << >> /\ Len(E) - 1 = n - s
      BY <1>1
    <2> QED
      BY <1>1, <2>1, HeadTailProperties
  <1>4. \A i \in 1..(n - s) : Tail(E)[i] = Estimates(s + 1, n)[i]
    <2> TAKE i \in 1..(n - s)
    <2>1. i + 1 \in 1..(n - s + 1) /\ s + (i + 1) - 1 = s + i
      OBVIOUS
    <2>2. E[i + 1] = Column(s + i, Upto(s + i))
      BY <1>1, <2>1
    <2> QED
      BY <1>2, <1>3, <2>2
  <1>5. Tail(E) = Estimates(s + 1, n)
    BY <1>2, <1>3, <1>4, SameSequence
  <1>6. E[1] = Column(s, Upto(s))
    <2>1. 1 \in 1..(n - s + 1) /\ s + 1 - 1 = s
      OBVIOUS
    <2> QED
      BY <1>1, <2>1
  <1> QED
    BY <1>5, <1>6 DEF E

-----------------------------------------------------------------------------
(* Types                                                                   *)

LEMMA StepTypes ==
    ASSUME TypeOK, Called
    PROVE  /\ calls' \in Nat
           /\ Times \in Seq(Nat) /\ Len(Times) = Len(time_vector) + 1
           /\ Tail(Times) \in Seq(Nat) /\ Tail(Times) # << >>
           /\ Len(Tail(Times)) = Len(time_vector)
           /\ Data \in Seq(Nat) /\ Data # << >>
           /\ Tail(Data) \in Seq(Nat) /\ Len(Tail(Data)) = Len(Data) - 1
           /\ Jacobians \in Nat
  <1>1. calls \in Nat /\ calls' = calls + 1
    BY DEF Called, TypeOK
  <1>2. /\ Times \in Seq(Nat) /\ Len(Times) = Len(time_vector) + 1
        /\ Len(time_vector) \in Nat \ {0}
    <2>1. time_vector \in Seq(Nat) /\ next_time_index \in Nat /\ time_vector # << >>
      BY DEF TypeOK
    <2>2. Times \in Seq(Nat) /\ Len(Times) = Len(time_vector) + 1
      BY <2>1, AppendProperties DEF Times
    <2>3. Len(time_vector) \in Nat \ {0}
      BY <2>1, EmptySeq
    <2> QED
      BY <2>2, <2>3, Zenon
  <1>3. /\ Tail(Times) \in Seq(Nat) /\ Len(Tail(Times)) = Len(time_vector)
        /\ Tail(Times) # << >>
    <2>1. Times # << >>
      BY <1>2
    <2>2. Tail(Times) \in Seq(Nat) /\ Len(Tail(Times)) = Len(Times) - 1
      BY <1>2, <2>1, HeadTailProperties
    <2>3. Len(Tail(Times)) # 0
      BY <1>2, <2>2
    <2>4. Tail(Times) # << >>
      BY <2>3, EmptySeq
    <2> QED
      BY <1>2, <2>2, <2>4
  <1>4. Data \in Seq(Nat) /\ Data # << >>
    <2>1. uy \in Seq(Nat)
      BY DEF TypeOK
    <2>2. <<calls>> \in Seq(Nat) /\ <<calls>> # << >>
      BY <1>1
    <2>3. Append(uy, calls) \in Seq(Nat) /\ Append(uy, calls) # << >>
      BY <1>1, <2>1, AppendProperties
    <2> QED
      BY <2>2, <2>3 DEF Data
  <1>5. Tail(Data) \in Seq(Nat) /\ Len(Tail(Data)) = Len(Data) - 1
    BY <1>4, HeadTailProperties
  <1>6. Jacobians \in Nat
    BY DEF Jacobians, TypeOK
  <1> QED
    BY <1>1, <1>2, <1>3, <1>4, <1>5, <1>6

LEMMA SolveTypes ==
    ASSUME NEW times \in Seq(Nat), times # << >>, NEW data \in Seq(Nat),
           NEW columns \in Seq(Columns), NEW guess \in Columns,
           NEW cov \in Seq(Updates)
    PROVE  /\ Append(columns, Estimated(times, data, guess)) \in Seq(Columns)
           /\ Answered(times, data, guess, cov)
                \in [at : Nat, from : Seq(Nat), guess : Columns,
                     P : Seq(Updates), times : Seq(Nat), uy : Seq(Nat)]
  <1>1. Last(times) \in Nat
    <2>1. Len(times) \in Nat \ {0} /\ \A i \in 1..Len(times) : times[i] \in Nat
      BY EmptySeq, ElementOfSeq
    <2> QED
      BY <2>1 DEF Last
  <1>2. guess.from \o data \in Seq(Nat)
    <2>1. guess.from \in Seq(Nat)
      BY DEF Columns
    <2> QED
      BY <2>1, ConcatProperties
  <1>3. Estimated(times, data, guess) \in Columns
    BY <1>1, <1>2 DEF Estimated, Column, Columns
  <1>4. Append(columns, Estimated(times, data, guess)) \in Seq(Columns)
    BY <1>3, AppendProperties
  <1> QED
    BY <1>3, <1>4 DEF Answered, Columns

LEMMA MoveTypes ==
    ASSUME TypeOK, Called, x_est # << >>
    PROVE  /\ Update \in Updates
           /\ Append(P, Update) \in Seq(Updates)
           /\ Len(Append(P, Update)) = Len(P) + 1
           /\ Tail(x_est) \in Seq(Columns)
           /\ Len(x_est) \in Nat \ {0}
           /\ Len(Tail(x_est)) = Len(x_est) - 1
           /\ Len(x_est) > 1 => NextGuess \in Columns
  <1>1. /\ Times \in Seq(Nat) /\ Len(Times) = Len(time_vector) + 1
        /\ Data \in Seq(Nat) /\ Data # << >> /\ Jacobians \in Nat
    BY StepTypes
  <1>2. /\ x_est \in Seq(Columns) /\ P \in Seq(Updates)
        /\ filterWeights \in [Matrices -> Nat]
        /\ time_vector \in Seq(Nat)
    BY DEF TypeOK
  <1>3. Len(x_est) \in Nat \ {0} /\ \A i \in 1..Len(x_est) : x_est[i] \in Columns
    BY <1>2, EmptySeq, ElementOfSeq
  <1>4. x_est[1].at \in Nat
    <2>1. x_est[1] \in Columns
      BY <1>3
    <2> QED
      BY <2>1 DEF Columns
  <1>5. Times[1] \in Nat
    <2>1. 1 \in 1..Len(Times)
      BY <1>1, <1>2, LenProperties
    <2> QED
      BY <1>1, <2>1, ElementOfSeq
  <1>6. Data[1] \in Nat
    <2>1. 1 \in 1..Len(Data)
      BY <1>1, EmptySeq
    <2> QED
      BY <1>1, <2>1, ElementOfSeq
  <1>7. Update \in Updates
    BY <1>1, <1>2, <1>4, <1>5, <1>6 DEF Update, Updates
  <1>8. Append(P, Update) \in Seq(Updates) /\ Len(Append(P, Update)) = Len(P) + 1
    BY <1>2, <1>7, AppendProperties
  <1>9. Tail(x_est) \in Seq(Columns) /\ Len(Tail(x_est)) = Len(x_est) - 1
    BY <1>2, HeadTailProperties
  <1>10. Len(x_est) > 1 => NextGuess \in Columns
    BY <1>3 DEF NextGuess
  <1> QED
    BY <1>3, <1>7, <1>8, <1>9, <1>10

LEMMA SettingsTypes ==
    ASSUME TypeOK, NEW m \in Matrices,
           SetParameter \/ SetDirty \/ SetCovariance(m) \/ SetCovarianceFails(m)
    PROVE  TypeOK'
  <1> USE DEF estimates, window, arrival
  <1>1. CASE SetParameter
    BY <1>1 DEF SetParameter, TypeOK
  <1>2. CASE SetDirty
    BY <1>2 DEF SetDirty, TypeOK
  <1>3. filterWeights[m] + 1 \in Nat /\ weights[m] \in SUBSET Nat
    BY DEF TypeOK
  <1>4. CASE SetCovariance(m)
    <2>1. /\ weights' = [weights EXCEPT ![m] = {filterWeights[m] + 1}]
          /\ filterWeights' = [filterWeights EXCEPT ![m] = filterWeights[m] + 1]
          /\ setFailed' = setFailed \ {m}
          /\ UNCHANGED <<estimates, dirty, jacobians, parameters, announced>>
      BY <1>4 DEF SetCovariance
    <2>2. filterWeights' \in [Matrices -> Nat] /\ weights' \in [Matrices -> SUBSET Nat]
      BY <1>3, <2>1 DEF TypeOK
    <2> QED
      BY <2>1, <2>2 DEF TypeOK
  <1>5. CASE SetCovarianceFails(m)
    <2>1. /\ weights' = [weights EXCEPT ![m] = weights[m] \cup {filterWeights[m] + 1}]
          /\ setFailed' = setFailed \cup {m}
          /\ UNCHANGED <<estimates, dirty, jacobians, filterWeights, parameters,
                         announced>>
      BY <1>5 DEF SetCovarianceFails
    <2>2. weights' \in [Matrices -> SUBSET Nat]
      BY <1>3, <2>1 DEF TypeOK
    <2> QED
      BY <2>1, <2>2 DEF TypeOK
  <1> QED
    BY <1>1, <1>2, <1>4, <1>5

LEMMA TypeStep ==
    ASSUME TypeOK, Next
    PROVE  TypeOK'
  <1> USE DEF window, filter, arrival, settings
  <1>0. ASSUME Called
        PROVE  /\ calls' \in Nat
               /\ Times \in Seq(Nat) /\ Times # << >>
               /\ Tail(Times) \in Seq(Nat) /\ Tail(Times) # << >>
               /\ Data \in Seq(Nat) /\ Tail(Data) \in Seq(Nat)
               /\ Jacobians \in Nat
    <2>1. /\ calls' \in Nat
          /\ Times \in Seq(Nat) /\ Len(Times) = Len(time_vector) + 1
          /\ Tail(Times) \in Seq(Nat) /\ Tail(Times) # << >>
          /\ Data \in Seq(Nat) /\ Tail(Data) \in Seq(Nat)
          /\ Jacobians \in Nat
      BY <1>0, StepTypes
    <2>2. Len(time_vector) \in Nat
      BY LenProperties DEF TypeOK
    <2> QED
      BY <2>1, <2>2
  <1>1. CASE StepGrows
    <2>1. Called /\ Solve(Times, Data, x_est, x_0_guess, P0inv)
      BY <1>1 DEF StepGrows
    <2>2. /\ x_est' \in Seq(Columns)
          /\ answer' \in [at : Nat, from : Seq(Nat), guess : Columns,
                           P : Seq(Updates), times : Seq(Nat), uy : Seq(Nat)]
      BY <1>0, <2>1, SolveTypes DEF TypeOK, Solve
    <2>3. /\ time_vector' = Times /\ uy' = Data
          /\ UNCHANGED <<horizon, dirty, filter, arrival, settings>>
      BY <1>1 DEF StepGrows
    <2>4. next_time_index' \in Nat \ {0}
      BY <2>1 DEF Solve, TypeOK
    <2> QED
      BY <1>0, <2>1, <2>2, <2>3, <2>4 DEF TypeOK
  <1>2. CASE StepMoves
    <2>1. /\ Called /\ Len(x_est) > 1 /\ RecalculateJacobians /\ MoveWindow
          /\ x_0_guess' = NextGuess
          /\ Solve(time_vector', uy', Tail(x_est), x_0_guess', P0inv')
          /\ UNCHANGED <<horizon, settings>>
      BY <1>2 DEF StepMoves
    <2>2. x_est # << >>
      BY <2>1
    <2>3. /\ P' \in Seq(Updates) /\ P0inv' \in Seq(Updates)
          /\ x_0_guess' \in Columns /\ Tail(x_est) \in Seq(Columns)
      BY <2>1, <2>2, MoveTypes DEF MoveWindow
    <2>4. /\ time_vector' \in Seq(Nat) /\ time_vector' # << >> /\ uy' \in Seq(Nat)
      BY <1>0, <2>1 DEF MoveWindow
    <2>5. /\ x_est' \in Seq(Columns)
          /\ answer' \in [at : Nat, from : Seq(Nat), guess : Columns,
                           P : Seq(Updates), times : Seq(Nat), uy : Seq(Nat)]
      BY <2>1, <2>3, <2>4, SolveTypes DEF Solve
    <2>6. jacobians' \in Nat /\ dirty' \in BOOLEAN /\ calls' \in Nat
      BY <1>0, <2>1 DEF RecalculateJacobians
    <2>7. next_time_index' \in Nat \ {0}
      BY <2>1 DEF Solve, TypeOK
    <2> QED
      BY <2>1, <2>3, <2>4, <2>5, <2>6, <2>7 DEF TypeOK
  <1>3. CASE StepRejected
    BY <1>0, <1>3 DEF StepRejected, TypeOK
  <1>4. CASE StepGrowsRaises
    BY <1>0, <1>4 DEF StepGrowsRaises, TypeOK
  <1>5. CASE StepMovesRaises
    <2>1. /\ Called /\ Len(x_est) > 1 /\ RecalculateJacobians /\ MoveWindow
          /\ x_est' = Tail(x_est) /\ x_0_guess' = NextGuess
          /\ UNCHANGED <<horizon, next_time_index, answer, settings>>
      BY <1>5 DEF StepMovesRaises
    <2>2. x_est # << >>
      BY <2>1
    <2>3. /\ P' \in Seq(Updates) /\ P0inv' \in Seq(Updates)
          /\ x_0_guess' \in Columns /\ x_est' \in Seq(Columns)
      BY <2>1, <2>2, MoveTypes DEF MoveWindow
    <2>4. /\ time_vector' \in Seq(Nat) /\ time_vector' # << >> /\ uy' \in Seq(Nat)
          /\ jacobians' \in Nat /\ dirty' \in BOOLEAN /\ calls' \in Nat
      BY <1>0, <2>1 DEF MoveWindow, RecalculateJacobians
    <2> QED
      BY <2>1, <2>3, <2>4 DEF TypeOK
  <1>6. CASE StepRemovesLast
    <2>1. /\ Called /\ Len(x_est) = 1 /\ RecalculateJacobians /\ MoveWindow
          /\ x_est' = << >>
          /\ UNCHANGED <<horizon, next_time_index, x_0_guess, answer, settings>>
      BY <1>6 DEF StepRemovesLast
    <2>2. x_est # << >>
      BY <2>1
    <2>3. P' \in Seq(Updates) /\ P0inv' \in Seq(Updates)
      BY <2>1, <2>2, MoveTypes DEF MoveWindow
    <2>4. /\ time_vector' \in Seq(Nat) /\ time_vector' # << >> /\ uy' \in Seq(Nat)
          /\ jacobians' \in Nat /\ dirty' \in BOOLEAN /\ calls' \in Nat
      BY <1>0, <2>1 DEF MoveWindow, RecalculateJacobians
    <2> QED
      BY <2>1, <2>3, <2>4, EmptySeq DEF TypeOK
  <1>7. CASE StepHasNoEstimate
    BY <1>0, <1>7 DEF StepHasNoEstimate, RecalculateJacobians, TypeOK
  <1>8. ASSUME NEW m \in Matrices,
               SetParameter \/ SetDirty \/ SetCovariance(m) \/ SetCovarianceFails(m)
        PROVE  TypeOK'
    BY <1>8, SettingsTypes
  <1>9. "Q" \in Matrices
    BY DEF Matrices
  <1> QED
    BY <1>1, <1>2, <1>3, <1>4, <1>5, <1>6, <1>7, <1>8, <1>9 DEF Next, Step

LEMMA TypeInit ==
    ASSUME Init
    PROVE  TypeOK
  <1>1. Column(0, << >>) \in Columns
    BY EmptySeq DEF Column, Columns
  <1>2. <<Column(0, << >>)>> \in Seq(Columns)
    BY <1>1
  <1>3. /\ << >> \in Seq(Nat) /\ << >> \in Seq(Updates)
        /\ <<0>> \in Seq(Nat) /\ <<0>> # << >>
    BY EmptySeq
  <1>4. answer \in [at : Nat, from : Seq(Nat), guess : Columns,
                    P : Seq(Updates), times : Seq(Nat), uy : Seq(Nat)]
    BY <1>1, <1>3 DEF Init
  <1>5. /\ [m \in Matrices |-> 0] \in [Matrices -> Nat]
        /\ [m \in Matrices |-> {0}] \in [Matrices -> SUBSET Nat]
    OBVIOUS
  <1>6. /\ calls \in Nat /\ next_time_index \in Nat \ {0}
        /\ jacobians \in Nat /\ parameters \in Nat /\ announced \in Nat
    BY DEF Init
  <1>8. horizon \in Horizons /\ setFailed \subseteq Matrices
    BY DEF Init
  <1>9. dirty \in BOOLEAN
    BY DEF Init
  <1>7. /\ time_vector \in Seq(Nat) /\ time_vector # << >> /\ uy \in Seq(Nat)
        /\ x_est \in Seq(Columns) /\ P \in Seq(Updates) /\ P0inv \in Seq(Updates)
        /\ x_0_guess \in Columns
        /\ filterWeights \in [Matrices -> Nat]
        /\ weights \in [Matrices -> SUBSET Nat]
    BY <1>1, <1>2, <1>3, <1>5 DEF Init
  <1> QED
    BY <1>4, <1>6, <1>7, <1>8, <1>9 DEF TypeOK

LEMMA TypeKept == TypeOK /\ [Next]_vars => TypeOK'
  <1>1. TypeOK /\ UNCHANGED vars => TypeOK'
    BY DEF TypeOK, vars, window, filter, arrival
  <1> QED
    BY <1>1, TypeStep

\* Every variable keeps its type.
THEOREM TypeCorrect == Spec => []TypeOK
  BY TypeInit, TypeKept, PTL DEF Spec

-----------------------------------------------------------------------------
(* The invariant                                                           *)

Taken(n) == IF n <= horizon THEN 0 ELSE n - horizon

Aligned(cov, s) ==
  /\ Len(cov) = s
  /\ \A i \in 1..s : cov[i].t = i - 1 /\ cov[i].x = i - 1 /\ cov[i].uy = i - 1

LEMMA HorizonIsNat == ASSUME TypeOK PROVE horizon \in Nat
  BY HorizonsAssumption DEF TypeOK

\* An estimate made from an aligned window is for the final time and uses all
\* samples before it.
LEMMA RightEstimate ==
    ASSUME NEW s \in Nat, NEW n \in Nat, s <= n
    PROVE  Estimated(Between(s, n + 1), Between(s, n), Column(s, Upto(s)))
             = Column(n, Upto(n))
  <1>1. /\ Len(Between(s, n + 1)) = n + 1 - s
        /\ \A i \in 1..(n + 1 - s) : Between(s, n + 1)[i] = s + i - 1
    BY BetweenProperties
  <1>2. Last(Between(s, n + 1)) = n
    <2>1. n + 1 - s \in 1..(n + 1 - s) /\ s + (n + 1 - s) - 1 = n
      OBVIOUS
    <2> QED
      BY <1>1, <2>1 DEF Last
  <1>3. Upto(s) \o Between(s, n) = Upto(n)
    BY BetweenConcat
  <1> QED
    BY <1>2, <1>3 DEF Estimated, Column

LEMMA RightAnswer ==
    ASSUME TypeOK, NEW s \in Nat, NEW n \in Nat, s <= n, s = Taken(n),
           NEW cov \in Seq(Updates), Aligned(cov, s),
           answer' = Answered(Between(s, n + 1), Between(s, n),
                              Column(s, Upto(s)), cov),
           horizon' = horizon
    PROVE  AnswerInv' /\ answer'.at = n
  <1>1. Estimated(Between(s, n + 1), Between(s, n), Column(s, Upto(s)))
          = Column(n, Upto(n))
    BY RightEstimate
  <1>2. /\ answer'.at = n /\ answer'.from = Upto(n)
        /\ answer'.guess = Column(s, Upto(s)) /\ answer'.P = cov
        /\ answer'.times = Between(s, n + 1) /\ answer'.uy = Between(s, n)
    BY <1>1 DEF Answered, Column
  <1>3. answer'.guess.at = s /\ answer'.guess.from = Upto(s)
    BY <1>2 DEF Column
  <1>4. /\ Len(Upto(s)) = s /\ \A i \in 1..s : Upto(s)[i] = i - 1
    BY UptoProperties
  <1>5. /\ Between(s, n) \in Seq(Nat) /\ Len(Between(s, n)) = n - s
        /\ \A i \in 1..(n - s) : Between(s, n)[i] = s + i - 1
    BY BetweenProperties
  <1>6. /\ \A i \in 1..(n - s) : Between(s, n)[i] = Between(s, n + 1)[i]
        /\ Between(s, n + 1)[1] = s
    BY BetweenNext
  <1>7. DOMAIN cov = 1..s /\ DOMAIN Between(s, n) = 1..(n - s)
    BY <1>5, LenProperties DEF Aligned
  <1>8. Len(answer'.P) = Len(answer'.guess.from)
    BY <1>2, <1>3, <1>4 DEF Aligned
  <1>9. \A i \in DOMAIN answer'.P :
          /\ answer'.P[i].t = i - 1 /\ answer'.P[i].x = i - 1
          /\ answer'.P[i].uy = answer'.guess.from[i]
    BY <1>2, <1>3, <1>4, <1>7 DEF Aligned
  <1>10. answer'.times[1] = answer'.guess.at
    BY <1>2, <1>3, <1>6
  <1>11. \A i \in DOMAIN answer'.uy : answer'.uy[i] = answer'.times[i]
    BY <1>2, <1>6, <1>7
  <1>12. Len(answer'.uy) = IF answer'.at < horizon THEN answer'.at ELSE horizon
    BY <1>2, <1>5, HorizonIsNat DEF Taken
  <1> QED
    BY <1>2, <1>8, <1>9, <1>10, <1>11, <1>12 DEF AnswerInv, PriorMatchesWindow

LEMMA HealthyCall ==
    ASSUME TypeOK, NEW s \in Nat, NEW n \in Nat, Healthy(s, n), Called
    PROVE  /\ s <= n /\ next_time_index = n + 1
           /\ Times = Between(s, n + 2)
           /\ Data = Between(s, n + 1)
           /\ Len(Times) = Len(Data) + 1
           /\ x_est # << >> /\ Len(x_est) = n - s + 1
           /\ Moves <=> n >= horizon
           /\ Tail(Times) = Between(s + 1, n + 2)
           /\ Tail(Data) = Between(s + 1, n + 1)
           /\ Len(Tail(Times)) = Len(Tail(Data)) + 1
           /\ Times[1] = s /\ Data[1] = s
  <1>1. s <= n /\ next_time_index = n + 1 /\ calls = n
    <2>1. next_time_index \in Nat
      BY DEF TypeOK
    <2> QED
      BY <2>1, HorizonIsNat DEF Healthy
  <1>2. Times = Between(s, n + 2)
    <2>1. time_vector = Between(s, n + 1)
      BY DEF Healthy
    <2>0. n + 1 \in Nat /\ s <= n + 1
      BY <1>1
    <2>2. Append(Between(s, n + 1), n + 1) = Between(s, (n + 1) + 1)
      BY <2>0, BetweenAppend
    <2>3. (n + 1) + 1 = n + 2
      OBVIOUS
    <2> QED
      BY <1>1, <2>1, <2>2, <2>3 DEF Times
  <1>3. Data = Between(s, n + 1)
    <2>1. uy = Between(s, n)
      BY DEF Healthy
    <2>2. Append(Between(s, n), n) = Between(s, n + 1)
      BY <1>1, BetweenAppend
    <2>3. CASE n = 0
      <3>1. s = 0
        BY <1>1, <2>3
      <3>2. Between(0, 1) \in Seq(Nat) /\ Len(Between(0, 1)) = 1 /\ Between(0, 1)[1] = 0
        <4>1. /\ Between(0, 1) \in Seq(Nat) /\ Len(Between(0, 1)) = 1 - 0
              /\ \A i \in 1..(1 - 0) : Between(0, 1)[i] = 0 + i - 1
          <5>1. 0 \in Nat /\ 1 \in Nat /\ 0 <= 1
            OBVIOUS
          <5> QED
            BY <5>1, BetweenProperties
        <4> QED
          BY <4>1
      <3>3. <<0>> \in Seq(Nat) /\ Len(<<0>>) = 1 /\ <<0>>[1] = 0
        OBVIOUS
      <3>4. <<0>> = Between(0, 1)
        <4>1. \A i \in 1..1 : <<0>>[i] = Between(0, 1)[i]
          BY <3>2, <3>3
        <4> QED
          BY <3>2, <3>3, <4>1, SameSequence
      <3>5. Data = <<0>>
        BY <1>1, <2>3 DEF Data
      <3> QED
        BY <2>3, <3>1, <3>4, <3>5
    <2>4. CASE n # 0
      BY <1>1, <2>1, <2>2, <2>4 DEF Data
    <2> QED
      BY <2>3, <2>4
  <1>4. Len(Times) = n + 2 - s /\ Len(Data) = n + 1 - s
    <2>1. n + 1 \in Nat /\ s <= n + 1 /\ (n + 1) + 1 = n + 2
      BY <1>1
    <2>2. Len(Between(s, (n + 1) + 1)) = (n + 1) + 1 - s
      BY <2>1, BetweenNext
    <2>3. Len(Between(s, n + 1)) = n + 1 - s
      BY <1>1, BetweenNext
    <2> QED
      BY <1>2, <1>3, <2>1, <2>2, <2>3
  <1>5. x_est # << >> /\ Len(x_est) = n - s + 1
    <2>1. x_est = Estimates(s, n)
      BY DEF Healthy
    <2>2. Len(x_est) = n - s + 1
      <3>1. s <= n + 1
        BY <1>1
      <3> QED
        BY <2>1, <3>1, EstimatesProperties
    <2>3. Len(x_est) # 0
      BY <1>1, <2>2
    <2> QED
      BY <2>2, <2>3, EmptySeq
  <1>6. Moves <=> n >= horizon
    BY <1>1, HorizonIsNat DEF Moves
  <1>7. Tail(Times) = Between(s + 1, n + 2) /\ Times[1] = s
    BY <1>1, <1>2, BetweenTail
  <1>8. Tail(Data) = Between(s + 1, n + 1) /\ Data[1] = s
    BY <1>1, <1>3, BetweenTail
  <1>9. Len(Tail(Times)) = Len(Tail(Data)) + 1
    <2>1. /\ Len(Tail(Times)) = Len(time_vector) /\ Len(Times) = Len(time_vector) + 1
          /\ Len(Tail(Data)) = Len(Data) - 1
      BY StepTypes
    <2>2. Len(time_vector) \in Nat
      BY LenProperties DEF TypeOK
    <2> QED
      BY <1>1, <1>4, <2>1, <2>2
  <1> QED
    BY <1>1, <1>2, <1>3, <1>4, <1>5, <1>6, <1>7, <1>8, <1>9

LEMMA HealthyGrows ==
    ASSUME TypeOK, NEW s \in Nat, NEW n \in Nat, Healthy(s, n), StepGrows
    PROVE  Healthy(s, n + 1)' /\ AnswerInv'
  <1>1. /\ Called /\ ~Moves /\ time_vector' = Times /\ uy' = Data
        /\ Solve(Times, Data, x_est, x_0_guess, P0inv)
        /\ UNCHANGED <<horizon, P, P0inv, x_0_guess>>
    BY DEF StepGrows, filter, arrival
  <1>2. /\ s <= n /\ next_time_index = n + 1
        /\ Times = Between(s, n + 2) /\ Data = Between(s, n + 1)
        /\ Moves <=> n >= horizon
    BY <1>1, HealthyCall
  <1>3. s = 0 /\ s = Taken(n + 1) /\ n + 1 <= horizon
    BY <1>1, <1>2, HorizonIsNat DEF Healthy, Taken
  <1>4. /\ x_0_guess = Column(s, Upto(s)) /\ P0inv = P /\ x_est = Estimates(s, n)
        /\ calls = n /\ Aligned(P, s)
    BY DEF Healthy, Aligned
  <1>5. n + 1 \in Nat /\ s <= n + 1 /\ (n + 1) + 1 = n + 2
    BY <1>2
  <1>6. Estimated(Times, Data, x_0_guess) = Column(n + 1, Upto(n + 1))
    BY <1>2, <1>4, <1>5, RightEstimate
  <1>7. x_est' = Estimates(s, n + 1)
    BY <1>1, <1>4, <1>5, <1>6, EstimatesAppend DEF Solve
  <1>8. AnswerInv' /\ answer'.at = n + 1
    <2>1. answer' = Answered(Between(s, (n + 1) + 1), Between(s, n + 1),
                             Column(s, Upto(s)), P)
      BY <1>1, <1>2, <1>4, <1>5 DEF Solve
    <2>2. P \in Seq(Updates) /\ horizon' = horizon
      BY <1>1 DEF TypeOK
    <2> QED
      BY <1>3, <1>4, <1>5, <2>1, <2>2, RightAnswer
  <1>9. next_time_index' = n + 2 /\ calls' = n + 1
    BY <1>1, <1>2, <1>4 DEF Solve, Called
  <1>10. n + 1 = next_time_index' - 1
    BY <1>2, <1>9
  <1>11. /\ n + 1 <= horizon' => s = 0
         /\ ~(n + 1 <= horizon') => s = (n + 1) - horizon'
    BY <1>1, <1>3
  <1>12. time_vector' = Between(s, (n + 1) + 1) /\ uy' = Between(s, n + 1)
    BY <1>1, <1>2, <1>5
  <1>13. /\ x_0_guess' = Column(s, Upto(s)) /\ P0inv' = P' /\ Len(P') = s
         /\ \A i \in 1..s : P'[i].t = i - 1 /\ P'[i].x = i - 1 /\ P'[i].uy = i - 1
    BY <1>1, <1>4, Zenon DEF Aligned
  <1> QED
    <2>1. Healthy(s, n + 1)'
      BY <1>7, <1>8, <1>9, <1>10, <1>11, <1>12, <1>13, Zenon DEF Healthy
    <2> QED
      BY <1>8, <2>1, Zenon

LEMMA HealthyMoves ==
    ASSUME TypeOK, NEW s \in Nat, NEW n \in Nat, Healthy(s, n), StepMoves
    PROVE  Healthy(s + 1, n + 1)' /\ AnswerInv'
  <1>1. /\ Called /\ Moves /\ Len(x_est) > 1
        /\ MoveWindow /\ x_0_guess' = NextGuess
        /\ Solve(time_vector', uy', Tail(x_est), x_0_guess', P0inv')
        /\ horizon' = horizon
    BY DEF StepMoves
  <1>2. /\ s <= n /\ next_time_index = n + 1
        /\ x_est # << >> /\ Len(x_est) = n - s + 1
        /\ Moves <=> n >= horizon
        /\ Tail(Times) = Between(s + 1, n + 2) /\ Tail(Data) = Between(s + 1, n + 1)
        /\ Times[1] = s /\ Data[1] = s
    BY <1>1, HealthyCall
  <1>3. /\ x_est = Estimates(s, n) /\ calls = n /\ Len(P) = s
        /\ \A i \in 1..s : P[i].t = i - 1 /\ P[i].x = i - 1 /\ P[i].uy = i - 1
    BY DEF Healthy
  <1>4. s + 1 <= n /\ s + 1 = Taken(n + 1)
    BY <1>1, <1>2, HorizonIsNat DEF Healthy, Taken
  <1>5. /\ s + 1 \in Nat /\ n + 1 \in Nat /\ s + 1 <= n + 1 /\ (n + 1) + 1 = n + 2
    BY <1>4
  <1>6. time_vector' = Between(s + 1, (n + 1) + 1) /\ uy' = Between(s + 1, n + 1)
    BY <1>1, <1>2, <1>5 DEF MoveWindow
  <1>7. Tail(x_est) = Estimates(s + 1, n) /\ x_est[1] = Column(s, Upto(s))
    BY <1>2, <1>3, EstimatesTail
  <1>8. x_0_guess' = Column(s + 1, Upto(s + 1))
    <2>1. 2 \in 1..(n - s + 1) /\ s + 2 - 1 = s + 1
      BY <1>4
    <2>2. \A i \in 1..(n - s + 1) : Estimates(s, n)[i] = Column(s + i - 1, Upto(s + i - 1))
      BY <1>5, EstimatesProperties
    <2> QED
      BY <1>1, <1>3, <2>1, <2>2 DEF NextGuess
  <1>9. P' \in Seq(Updates) /\ P0inv' = P' /\ Aligned(P', s + 1)
    <2>1. Update \in Updates /\ P \in Seq(Updates)
      BY <1>1, <1>2, MoveTypes DEF TypeOK
    <2>2. Update.t = s /\ Update.x = s /\ Update.uy = s
      BY <1>2, <1>7 DEF Update, Column
    <2>3. P' = Append(P, Update) /\ P0inv' = P'
      BY <1>1 DEF MoveWindow
    <2>4. /\ P' \in Seq(Updates) /\ Len(P') = s + 1
          /\ \A i \in 1..s : P'[i] = P[i]
          /\ P'[s + 1] = Update
      BY <1>3, <2>1, <2>3, AppendProperties
    <2>5. ASSUME NEW i \in 1..(s + 1)
          PROVE  P'[i].t = i - 1 /\ P'[i].x = i - 1 /\ P'[i].uy = i - 1
      <3>1. i \in 1..s \/ i = s + 1
        OBVIOUS
      <3>2. CASE i \in 1..s
        BY <1>3, <2>4, <3>2
      <3>3. CASE i = s + 1
        BY <2>2, <2>4, <3>3
      <3> QED
        BY <3>1, <3>2, <3>3
    <2> QED
      BY <2>3, <2>4, <2>5 DEF Aligned
  <1>10. Estimated(time_vector', uy', x_0_guess') = Column(n + 1, Upto(n + 1))
    BY <1>5, <1>6, <1>8, RightEstimate
  <1>11. x_est' = Estimates(s + 1, n + 1)
    <2>1. s + 1 <= n + 1
      BY <1>5
    <2>2. Append(Estimates(s + 1, n), Column(n + 1, Upto(n + 1))) = Estimates(s + 1, n + 1)
      BY <1>5, EstimatesAppend
    <2> QED
      BY <1>1, <1>7, <1>10, <2>2 DEF Solve
  <1>12. AnswerInv' /\ answer'.at = n + 1
    <2>1. answer' = Answered(Between(s + 1, (n + 1) + 1), Between(s + 1, n + 1),
                             Column(s + 1, Upto(s + 1)), P')
      BY <1>1, <1>6, <1>8, <1>9 DEF Solve
    <2> QED
      BY <1>1, <1>4, <1>5, <1>9, <2>1, RightAnswer
  <1>13. next_time_index' = n + 2 /\ calls' = n + 1
    BY <1>1, <1>2, <1>3 DEF Solve, Called
  <1>14. n + 1 = next_time_index' - 1
    BY <1>3, <1>13
  <1>15. /\ n + 1 <= horizon' => s + 1 = 0
         /\ ~(n + 1 <= horizon') => s + 1 = (n + 1) - horizon'
    <2>1. n \in Nat /\ horizon \in Nat /\ n >= horizon
      BY <1>1, <1>2, HorizonIsNat
    <2>2. s + 1 = (n + 1) - horizon /\ ~(n + 1 <= horizon)
      BY <1>4, <2>1 DEF Taken
    <2> QED
      BY <1>1, <2>2
  <1>16. /\ P0inv' = P' /\ Len(P') = s + 1
         /\ \A i \in 1..(s + 1) : P'[i].t = i - 1 /\ P'[i].x = i - 1 /\ P'[i].uy = i - 1
    BY <1>9, Zenon DEF Aligned
  <1> QED
    <2>1. Healthy(s + 1, n + 1)'
      BY <1>6, <1>8, <1>11, <1>12, <1>13, <1>14, <1>15, <1>16, Zenon DEF Healthy
    <2> QED
      BY <1>12, <2>1, Zenon

LEMMA StuckStep ==
    ASSUME TypeOK, Stuck, Step
    PROVE  Stuck' /\ UNCHANGED <<answer, horizon>>
  <1>1. /\ Called
        /\ UNCHANGED <<horizon>>
    BY DEF Step, StepGrows, StepMoves, StepRejected, StepGrowsRaises,
           StepMovesRaises, StepRemovesLast, StepHasNoEstimate
  <1>2. /\ Len(Times) = Len(time_vector) + 1 /\ Len(Tail(Times)) = Len(time_vector)
        /\ Len(Tail(Data)) = Len(Data) - 1
    BY <1>1, StepTypes
  <1>3. /\ Len(time_vector) \in Nat /\ Len(uy) \in Nat /\ Len(Data) \in Nat
        /\ Len(Data) <= Len(uy) + 1
    <2>1. Len(time_vector) \in Nat /\ uy \in Seq(Nat) /\ Len(uy) \in Nat /\ calls \in Nat
      BY LenProperties DEF TypeOK
    <2>2. Len(Append(uy, calls)) = Len(uy) + 1
      BY <2>1, AppendProperties
    <2>3. Len(<<calls>>) = 1
      OBVIOUS
    <2> QED
      BY <2>1, <2>2, <2>3 DEF Data
  <1>4. x_est = << >> => Len(x_est) = 0
    BY EmptySeq
  <1>5. CASE Len(time_vector) > Len(uy) + 1
    <2>1. ~Fit(Times, Data) /\ ~Fit(Tail(Times), Tail(Data))
      BY <1>2, <1>3, <1>5 DEF Fit
    <2>2. ~StepGrows /\ ~StepMoves
      BY <2>1 DEF StepGrows, StepMoves
    <2>3. CASE StepRejected
      BY <1>2, <1>3, <1>5, <2>3 DEF StepRejected, Stuck
    <2>4. CASE StepGrowsRaises
      BY <1>2, <1>3, <1>5, <2>4 DEF StepGrowsRaises, Stuck
    <2>5. CASE StepMovesRaises
      BY <1>2, <1>3, <1>5, <2>5 DEF StepMovesRaises, MoveWindow, Stuck
    <2>6. CASE StepRemovesLast
      BY <1>2, <1>3, <1>5, <2>6 DEF StepRemovesLast, MoveWindow, Stuck
    <2>7. CASE StepHasNoEstimate
      BY <1>2, <1>3, <1>5, <2>7 DEF StepHasNoEstimate, Stuck
    <2> QED
      BY <2>2, <2>3, <2>4, <2>5, <2>6, <2>7 DEF Step
  <1>6. CASE x_est = << >> /\ Moves
    <2>1. Len(x_est) = 0
      BY <1>4, <1>6
    <2>2. StepRejected \/ StepHasNoEstimate
      BY <1>6, <2>1 DEF Step, StepGrows, StepMoves, StepGrowsRaises,
                        StepMovesRaises, StepRemovesLast
    <2> QED
      BY <1>6, <2>2 DEF StepRejected, StepHasNoEstimate, Stuck, Moves
  <1> QED
    BY <1>5, <1>6 DEF Stuck

LEMMA HealthyRaises ==
    ASSUME TypeOK, NEW s \in Nat, NEW n \in Nat, Healthy(s, n), Step,
           ~StepGrows, ~StepMoves
    PROVE  Stuck' /\ UNCHANGED <<answer, horizon>>
  <1>1. Called
    BY DEF Step, StepRejected, StepGrowsRaises, StepMovesRaises,
           StepRemovesLast, StepHasNoEstimate
  <1>2. /\ s <= n /\ Fit(Times, Data) /\ Fit(Tail(Times), Tail(Data)) /\ x_est # << >>
    BY <1>1, HealthyCall DEF Fit
  <1>3. CASE StepRejected
    <2>1. Len(time_vector) = n + 1 - s /\ Len(uy) = n - s
      <3>1. time_vector = Between(s, n + 1) /\ uy = Between(s, n)
        BY DEF Healthy
      <3>2. Len(Between(s, n + 1)) = n + 1 - s
        BY <1>2, BetweenNext
      <3>3. Len(Between(s, n)) = n - s
        BY <1>2, BetweenProperties
      <3> QED
        BY <3>1, <3>2, <3>3
    <2>2. Len(time_vector') = Len(time_vector) + 1 /\ UNCHANGED <<uy, answer, horizon>>
      BY <1>1, <1>3, StepTypes DEF StepRejected
    <2> QED
      BY <1>2, <2>1, <2>2 DEF Stuck
  <1>4. CASE StepRemovesLast
    BY <1>4 DEF StepRemovesLast, Stuck, Moves
  <1> QED
    BY <1>2, <1>3, <1>4 DEF Step, StepGrowsRaises, StepMovesRaises, StepHasNoEstimate

-----------------------------------------------------------------------------
(* The estimator answers as one with full information                      *)

Unmoved == UNCHANGED <<estimates>>

LEMMA NextCases ==
    ASSUME [Next]_vars
    PROVE  Step \/ Unmoved
  BY DEF Next, Unmoved, estimates, SetParameter, SetDirty, SetCovariance,
         SetCovarianceFails, vars, window, filter, arrival

LEMMA UnmovedKeeps ==
    ASSUME Unmoved, IInv
    PROVE  /\ Stuck' \/ \E s, n \in Nat : Healthy(s, n)'
           /\ AnswerInv'
  <1>1. UNCHANGED <<calls, horizon, next_time_index, time_vector, uy, x_est, P,
                    P0inv, x_0_guess, answer>>
    BY DEF Unmoved, estimates, window, arrival
  <1>2. AnswerInv'
    BY <1>1 DEF IInv, AnswerInv, PriorMatchesWindow
  <1>3. CASE Stuck
    BY <1>1, <1>2, <1>3 DEF Stuck, Moves
  <1>4. ASSUME NEW s \in Nat, NEW n \in Nat, Healthy(s, n)
        PROVE  Healthy(s, n)'
    BY <1>1, <1>4 DEF Healthy
  <1> QED
    BY <1>2, <1>3, <1>4 DEF IInv

LEMMA AnswerKept ==
    ASSUME AnswerInv, UNCHANGED <<answer, horizon>>
    PROVE  AnswerInv'
  BY DEF AnswerInv, PriorMatchesWindow

\* A call of step leaves the estimator healthy or stuck.
LEMMA StepKeeps ==
    ASSUME IInv, Step
    PROVE  /\ Stuck' \/ \E s, n \in Nat : Healthy(s, n)'
           /\ AnswerInv'
  <1>1. TypeOK /\ AnswerInv
    BY DEF IInv
  <1>2. CASE Stuck
    <2>1. Stuck' /\ UNCHANGED <<answer, horizon>>
      BY <1>1, <1>2, StuckStep
    <2> QED
      BY <1>1, <2>1, AnswerKept
  <1>3. ASSUME NEW s \in Nat, NEW n \in Nat, Healthy(s, n)
        PROVE  /\ Stuck' \/ \E t, m \in Nat : Healthy(t, m)'
               /\ AnswerInv'
    <2>1. s + 1 \in Nat /\ n + 1 \in Nat
      OBVIOUS
    <2>2. CASE StepGrows
      <3>1. Healthy(s, n + 1)' /\ AnswerInv'
        BY <1>1, <1>3, <2>2, HealthyGrows
      <3> QED
        BY <2>1, <3>1
    <2>3. CASE StepMoves
      <3>1. Healthy(s + 1, n + 1)' /\ AnswerInv'
        BY <1>1, <1>3, <2>3, HealthyMoves
      <3> QED
        BY <2>1, <3>1
    <2>4. CASE ~StepGrows /\ ~StepMoves
      <3>1. Stuck' /\ UNCHANGED <<answer, horizon>>
        BY <1>1, <1>3, <2>4, HealthyRaises
      <3> QED
        BY <1>1, <3>1, AnswerKept
    <2> QED
      BY <2>2, <2>3, <2>4
  <1> QED
    BY <1>2, <1>3 DEF IInv

LEMMA InitInv == Init => IInv
  <1> SUFFICES ASSUME Init PROVE IInv
    OBVIOUS
  <1>1. TypeOK
    BY TypeInit
  <1>2. /\ calls = 0 /\ next_time_index = 1 /\ horizon \in Nat
        /\ time_vector = <<0>> /\ uy = << >> /\ x_est = <<Column(0, << >>)>>
        /\ x_0_guess = Column(0, << >>) /\ P = << >> /\ P0inv = << >>
        /\ answer = [at |-> 0, from |-> << >>, guess |-> Column(0, << >>),
                     P |-> << >>, times |-> <<0>>, uy |-> << >>]
    BY <1>1, HorizonIsNat DEF Init
  <1>3. Upto(0) = << >> /\ Between(0, 1) = <<0>>
    <2>1. Upto(0) \in Seq(Nat) /\ Len(Upto(0)) = 0
      BY UptoProperties
    <2>2. Upto(0) = << >>
      BY <2>1, EmptySeq
    <2>3. Append(Between(0, 0), 0) = Between(0, 1)
      <3>1. 0 \in Nat /\ 0 <= 0 /\ 0 + 1 = 1
        OBVIOUS
      <3>2. Append(Between(0, 0), 0) = Between(0, 0 + 1)
        BY <3>1, BetweenAppend
      <3> QED
        BY <3>1, <3>2, Zenon
    <2>4. Between(0, 0) = << >>
      BY <2>2 DEF Upto
    <2>5. Append(<< >>, 0) = <<0>>
      OBVIOUS
    <2> QED
      BY <2>2, <2>3, <2>4, <2>5, Zenon
  <1>4. Estimates(0, 0) = <<Column(0, << >>)>>
    <2>1. /\ Estimates(0, 0) \in Seq(Columns) /\ Len(Estimates(0, 0)) = 1
          /\ Estimates(0, 0)[1] = Column(0, Upto(0))
      <3>1. 0 \in Nat /\ 0 <= 0 + 1
        OBVIOUS
      <3>2. /\ Estimates(0, 0) \in Seq(Columns)
            /\ Len(Estimates(0, 0)) = 0 - 0 + 1
            /\ \A i \in 1..(0 - 0 + 1) :
                 Estimates(0, 0)[i] = Column(0 + i - 1, Upto(0 + i - 1))
        BY <3>1, EstimatesProperties
      <3>3. 0 - 0 + 1 = 1 /\ 1 \in 1..1 /\ 0 + 1 - 1 = 0
        OBVIOUS
      <3> QED
        BY <3>2, <3>3
    <2>2. Column(0, << >>) \in Columns
      BY DEF Column, Columns
    <2>3. <<Column(0, << >>)>> \in Seq(Columns) /\ Len(<<Column(0, << >>)>>) = 1
      BY <2>2
    <2> QED
      BY <1>3, <2>1, <2>3, SameSequence
  <1>5. Healthy(0, 0)
    <2>1. Len(P) = 0 /\ \A i \in 1..0 : FALSE
      BY <1>2, EmptySeq
    <2>2. 0 = next_time_index - 1 /\ calls = 0 /\ answer.at = 0
      BY <1>2
    <2>3. (0 <= horizon => 0 = 0) /\ (~(0 <= horizon) => 0 = 0 - horizon)
      BY <1>2
    <2>4. time_vector = Between(0, 0 + 1) /\ uy = Between(0, 0)
      BY <1>2, <1>3 DEF Upto
    <2>5. x_est = Estimates(0, 0) /\ x_0_guess = Column(0, Upto(0)) /\ P0inv = P
      BY <1>2, <1>3, <1>4
    <2> QED
      BY <2>1, <2>2, <2>3, <2>4, <2>5 DEF Healthy
  <1>6. AnswerInv
    <2>1. answer.from = Upto(answer.at)
      BY <1>2, <1>3
    <2>2. /\ Len(answer.P) = 0 /\ Len(answer.guess.from) = 0 /\ Len(answer.uy) = 0
          /\ DOMAIN answer.P = {} /\ DOMAIN answer.uy = {}
      BY <1>2 DEF Column
    <2>3. answer.times[1] = answer.guess.at
      BY <1>2 DEF Column
    <2>4. Len(answer.uy) = IF answer.at < horizon THEN answer.at ELSE horizon
      <3>1. answer.at = 0 /\ horizon \in Nat
        BY <1>2
      <3> QED
        BY <2>2, <3>1
    <2> QED
      BY <2>1, <2>2, <2>3, <2>4 DEF AnswerInv, PriorMatchesWindow
  <1> QED
    BY <1>1, <1>5, <1>6 DEF IInv

LEMMA NextKeepsInv == IInv /\ [Next]_vars => IInv'
  <1> SUFFICES ASSUME IInv, [Next]_vars PROVE IInv'
    OBVIOUS
  <1>1. TypeOK'
    BY TypeKept DEF IInv
  <1>2. /\ Stuck' \/ \E s, n \in Nat : Healthy(s, n)'
        /\ AnswerInv'
    BY NextCases, StepKeeps, UnmovedKeeps
  <1> QED
    BY <1>1, <1>2 DEF IInv

THEOREM Invariance == Spec => []IInv
  BY InitInv, NextKeepsInv, PTL DEF Spec

\* The two halves of every arrival cost belong together and to the window.
THEOREM PriorCorrect == Spec => []PriorMatchesWindow
  <1>1. IInv => PriorMatchesWindow
    BY DEF IInv, AnswerInv
  <1> QED
    BY <1>1, Invariance, PTL

\* While the estimator is healthy a call answers for the next time.
LEMMA NextAnswer ==
    ASSUME IInv, Step
    PROVE  answer'.at = answer.at + 1 \/ UNCHANGED answer
  <1>1. TypeOK
    BY DEF IInv
  <1>2. CASE Stuck
    BY <1>1, <1>2, StuckStep
  <1>3. ASSUME NEW s \in Nat, NEW n \in Nat, Healthy(s, n)
        PROVE  answer'.at = answer.at + 1 \/ UNCHANGED answer
    <2>1. answer.at = n
      BY <1>3 DEF Healthy
    <2>2. CASE StepGrows
      <3>1. Healthy(s, n + 1)'
        BY <1>1, <1>3, <2>2, HealthyGrows
      <3> QED
        BY <2>1, <3>1 DEF Healthy
    <2>3. CASE StepMoves
      <3>1. Healthy(s + 1, n + 1)'
        BY <1>1, <1>3, <2>3, HealthyMoves
      <3> QED
        BY <2>1, <3>1 DEF Healthy
    <2>4. CASE ~StepGrows /\ ~StepMoves
      BY <1>1, <1>3, <2>4, HealthyRaises
    <2> QED
      BY <2>2, <2>3, <2>4
  <1> QED
    BY <1>2, <1>3 DEF IInv

LEMMA StepRefines ==
    ASSUME IInv, [Next]_vars, AnswerInv'
    PROVE  [Full!Estimate]_(Full!vars)
  <1>1. answer'.at = answer.at + 1 \/ UNCHANGED answer
    <2>1. Unmoved => UNCHANGED answer
      BY DEF Unmoved, estimates
    <2> QED
      BY <2>1, NextCases, NextAnswer
  <1>2. CASE UNCHANGED answer
    BY <1>2 DEF Full!vars
  <1>3. CASE answer'.at = answer.at + 1
    <2>1. answer.at \in Nat /\ 0 \in Nat /\ 0 <= answer.at
      BY DEF IInv, TypeOK
    <2>2. answer.from = Upto(answer.at) /\ answer'.from = Upto(answer.at + 1)
      BY <1>3 DEF IInv, AnswerInv
    <2>3. Append(Between(0, answer.at), answer.at) = Between(0, answer.at + 1)
      BY <2>1, BetweenAppend
    <2>4. answer'.from = Append(answer.from, answer.at)
      BY <2>2, <2>3, Zenon DEF Upto
    <2> QED
      BY <1>3, <2>4 DEF Full!Estimate
  <1> QED
    BY <1>1, <1>2, <1>3

\* Every estimate is made from the samples of all earlier times, each once, for
\* every horizon, through any calls that raise exceptions.
THEOREM MheImplements == Spec => FullInformation
  <1>1. Init => Full!Init
    BY DEF Init, Full!Init
  <1>2. IInv /\ IInv' /\ [Next]_vars => [Full!Estimate]_(Full!vars)
    BY StepRefines DEF IInv
  <1> QED
    BY <1>1, <1>2, Invariance, PTL DEF Spec, FullInformation, Full!Spec

-----------------------------------------------------------------------------
(* The filter and the optimization weigh the same model                    *)

\* What makes the next update current: the flag is up until the Jacobians are
\* made with the announced parameters, and the blocks of a covariance agree with
\* the filter unless the last change of it failed.
Current ==
  /\ announced <= parameters
  /\ dirty \/ jacobians >= announced
  /\ \A m \in Matrices \ setFailed : weights[m] = {filterWeights[m]}

LEMMA InitCurrent == Init => Current
  BY DEF Init, Current

LEMMA StepKeepsCurrent ==
    ASSUME TypeOK, Current, Step
    PROVE  Current'
  <1>1. UNCHANGED <<parameters, weights, filterWeights, announced, setFailed>>
    BY DEF Step, StepGrows, StepMoves, StepRejected, StepGrowsRaises,
           StepMovesRaises, StepRemovesLast, StepHasNoEstimate, settings, filter
  <1>2. UNCHANGED <<dirty, jacobians>> \/ RecalculateJacobians
    BY DEF Step, StepGrows, StepMoves, StepRejected, StepGrowsRaises,
           StepMovesRaises, StepRemovesLast, StepHasNoEstimate, filter
  <1>3. dirty' \/ jacobians' >= announced'
    BY <1>1, <1>2 DEF Current, RecalculateJacobians, Jacobians, TypeOK
  <1> QED
    BY <1>1, <1>3 DEF Current

LEMMA SettingsKeepCurrent ==
    ASSUME TypeOK, Current, NEW m \in Matrices,
           SetParameter \/ SetDirty \/ SetCovariance(m) \/ SetCovarianceFails(m)
    PROVE  Current'
  <1>1. CASE SetParameter
    BY <1>1 DEF SetParameter, Current, TypeOK
  <1>2. CASE SetDirty
    BY <1>2 DEF SetDirty, Current, TypeOK
  <1>3. CASE SetCovariance(m)
    <2>1. ASSUME NEW k \in Matrices \ setFailed'
          PROVE  weights'[k] = {filterWeights'[k]}
      BY <1>3, <2>1 DEF SetCovariance, Current, TypeOK
    <2> QED
      BY <1>3, <2>1 DEF SetCovariance, Current, estimates
  <1>4. CASE SetCovarianceFails(m)
    <2>1. ASSUME NEW k \in Matrices \ setFailed'
          PROVE  weights'[k] = {filterWeights'[k]}
      BY <1>4, <2>1 DEF SetCovarianceFails, Current, TypeOK
    <2> QED
      BY <1>4, <2>1 DEF SetCovarianceFails, Current, estimates
  <1> QED
    BY <1>1, <1>2, <1>3, <1>4

LEMMA NextKeepsCurrent == TypeOK /\ Current /\ [Next]_vars => Current'
  <1> SUFFICES ASSUME TypeOK, Current, [Next]_vars PROVE Current'
    OBVIOUS
  <1>1. CASE UNCHANGED vars
    BY <1>1 DEF Current, vars, filter
  <1>2. "Q" \in Matrices
    BY DEF Matrices
  <1> QED
    BY <1>1, <1>2, StepKeepsCurrent, SettingsKeepCurrent DEF Next

LEMMA UpdateCurrent ==
    ASSUME TypeOK, Current, Step, P' # P
    PROVE  /\ Last(P').jacobians >= announced
           /\ \A m \in Matrices \ setFailed : weights[m] = {Last(P').weights[m]}
  <1>1. Called /\ MoveWindow /\ x_est # << >>
    <2>1. StepMoves \/ StepMovesRaises \/ StepRemovesLast
      BY DEF Step, StepGrows, StepRejected, StepGrowsRaises, StepHasNoEstimate,
             filter
    <2>2. Len(x_est) > 1 \/ Len(x_est) = 1
      BY <2>1 DEF StepMoves, StepMovesRaises, StepRemovesLast
    <2> QED
      BY <2>1, <2>2, EmptySeq DEF StepMoves, StepMovesRaises, StepRemovesLast
  <1>2. P \in Seq(Updates) /\ Update \in Updates /\ P' = Append(P, Update)
    BY <1>1, MoveTypes DEF TypeOK, MoveWindow
  <1>3. Last(P') = Update
    <2>1. /\ Len(Append(P, Update)) = Len(P) + 1
          /\ Append(P, Update)[Len(P) + 1] = Update
      BY <1>2, AppendProperties
    <2> QED
      BY <1>2, <2>1 DEF Last
  <1>4. Update.jacobians = Jacobians /\ Update.weights = filterWeights
    BY DEF Update
  <1>5. Jacobians >= announced
    BY DEF Jacobians, Current, TypeOK
  <1> QED
    BY <1>3, <1>4, <1>5 DEF Current

\* Every update of the covariance is made with Jacobians no older than the
\* parameters set_dirty announced, and with the optimization's covariances.
THEOREM CurrentCorrect == Spec => CurrentModel
  <1>1. TypeOK /\ Current /\ [Next]_vars =>
          [P' # P =>
             /\ Last(P').jacobians >= announced
             /\ \A m \in Matrices \ setFailed :
                  weights[m] = {Last(P').weights[m]}]_vars
    <2> SUFFICES ASSUME TypeOK, Current, Next, P' # P
                 PROVE  /\ Last(P').jacobians >= announced
                        /\ \A m \in Matrices \ setFailed :
                             weights[m] = {Last(P').weights[m]}
      OBVIOUS
    <2>1. Step
      BY NextCases DEF Unmoved, estimates
    <2> QED
      BY <2>1, UpdateCurrent
  <1> QED
    BY <1>1, InitCurrent, NextKeepsCurrent, TypeCorrect, PTL DEF Spec, CurrentModel
=============================================================================
