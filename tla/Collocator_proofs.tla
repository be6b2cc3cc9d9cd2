-------------------------- MODULE Collocator_proofs --------------------------
(***************************************************************************)
(* Proofs about Collocator, for every set of problems that satisfies       *)
(* ProblemsAssumption: the numbers that the code computes in advance (the  *)
(* variables, the split of xx into groups, the constraints) are those of   *)
(* what it makes; the index of a variable is that of its entry, except     *)
(* that inputs with blocking factors may be exchanged; every list of       *)
(* factors is followed by an input of its own; every entry gets a guess;   *)
(* checkpointing gives the same constraints; and what MPC shifts is the    *)
(* plan for later times.                                                   *)
(*                                                                         *)
(* The layout is one concatenation in another.  A sum is reasoned about    *)
(* with the function that counts it up (Sums), a concatenation with the    *)
(* sum of the lengths (Joined): FlattenJoins says where an entry of a part *)
(* ends up in the whole.  EntryIs says which entry an index leads to, and  *)
(* VariableEntry that of every variable at every point in time.  Lemmas    *)
(* about products are stated through a predicate (IsProduct, Spread, ...)  *)
(* that hides the product from the steps that only need linear arithmetic. *)
(***************************************************************************)
EXTENDS Collocator, FiniteSetTheorems, FunctionTheorems, SequenceTheorems, TLAPS

-----------------------------------------------------------------------------
(* Induction over the numbers, from the least number of a set.             *)

LEMMA LeastNumber ==
    ASSUME NEW T, T \subseteq Nat, T # {}
    PROVE  \E x \in T : \A y \in T : x <= y
  <1>1. IsWellFoundedOn(OpToRel(<, Nat), Nat)
    BY NatLessThanWellFounded
  <1>2. PICK x \in T : \A y \in T : <<y, x>> \notin OpToRel(<, Nat)
    BY <1>1, WFMin
  <1>3. \A y \in T : ~ (y < x)
    BY <1>2 DEF OpToRel
  <1> QED
    BY <1>3

LEMMA Induct ==
    ASSUME NEW T, 0 \in T, \A n \in Nat : n \in T => n + 1 \in T
    PROVE  Nat \subseteq T
  <1> SUFFICES ASSUME Nat \ T # {} PROVE FALSE
    OBVIOUS
  <1>1. Nat \ T \subseteq Nat
    OBVIOUS
  <1>2. PICK x \in Nat \ T : \A y \in Nat \ T : x <= y
    BY <1>1, LeastNumber, Zenon
  <1>3. x - 1 \in Nat /\ x - 1 \notin Nat \ T
    BY <1>2
  <1> QED
    BY <1>2, <1>3

-----------------------------------------------------------------------------
(* Totals.                                                                 *)

\* f counts up the entries of s.
Sums(f, s) == f[0] = 0 /\ \A n \in 1..Len(s) : f[n] = f[n - 1] + s[n]

LEMMA SumsExist ==
    ASSUME NEW s, Len(s) \in Nat
    PROVE  \E f : Sums(f, s) /\ Total(s) = f[Len(s)]
  <1> DEFINE N == Len(s)
             In(f, n) == f[0] = 0 /\ \A i \in 1..n : f[i] = f[i - 1] + s[i]
             T == {n \in Nat : n <= N => \E f : In(f, n)}
  <1>1. 0 \in T
    <2>1. In([i \in {0} |-> 0], 0)
      OBVIOUS
    <2> QED
      BY <2>1
  <1>2. ASSUME NEW n \in Nat, n \in T PROVE n + 1 \in T
    <2> SUFFICES ASSUME n + 1 <= N PROVE \E f : In(f, n + 1)
      OBVIOUS
    <2>1. PICK f : In(f, n)
      BY <1>2
    <2> DEFINE g == [i \in 0..(n + 1) |-> IF i = n + 1 THEN f[n] + s[n + 1] ELSE f[i]]
    <2>2. g[0] = 0
      BY <2>1
    <2>3. ASSUME NEW i \in 1..(n + 1) PROVE g[i] = g[i - 1] + s[i]
      <3>1. CASE i = n + 1
        BY <3>1
      <3>2. CASE i # n + 1
        <4>1. i \in 1..n /\ i - 1 \in 0..n
          BY <3>2
        <4>2. g[i] = f[i] /\ g[i - 1] = f[i - 1]
          BY <4>1
        <4> QED
          BY <2>1, <4>1, <4>2
      <3> QED
        BY <3>1, <3>2
    <2> QED
      BY <2>2, <2>3
  <1>3. N \in T
    <2> HIDE DEF T
    <2> QED
      BY <1>1, <1>2, Induct
  <1>4. PICK f : In(f, N)
    BY <1>3
  <1> DEFINE Fcn(m) == m = [i \in 0..N |-> IF i = 0 THEN 0 ELSE m[i - 1] + s[i]]
             h == [i \in 0..N |-> f[i]]
             c == CHOOSE m : Fcn(m)
  <1>5. Fcn(h)
    <2>1. ASSUME NEW i \in 0..N PROVE f[i] = IF i = 0 THEN 0 ELSE h[i - 1] + s[i]
      <3>1. CASE i = 0
        BY <1>4, <3>1
      <3>2. CASE i # 0
        <4>1. i \in 1..N /\ i - 1 \in 0..N
          BY <3>2
        <4> QED
          BY <1>4, <4>1
      <3> QED
        BY <3>1, <3>2
    <2> QED
      BY <2>1
  <1>6. Fcn(c)
    <2> HIDE DEF h, Fcn
    <2> QED
      BY <1>5
  <1>7. Total(s) = c[N]
    BY DEF Total
  <1>8. Sums(c, s)
    <2> HIDE DEF c
    <2> QED
      BY <1>6 DEF Sums
  <1> HIDE DEF c
  <1> QED
    BY <1>7, <1>8

\* There is one way to count up.
LEMMA SumsAgree ==
    ASSUME NEW s, Len(s) \in Nat, NEW f, NEW g, Sums(f, s), Sums(g, s)
    PROVE  \A n \in 0..Len(s) : f[n] = g[n]
  <1> DEFINE T == {n \in Nat : n <= Len(s) => f[n] = g[n]}
  <1>1. 0 \in T
    BY DEF Sums
  <1>2. ASSUME NEW n \in Nat, n \in T PROVE n + 1 \in T
    <2> SUFFICES ASSUME n + 1 <= Len(s) PROVE f[n + 1] = g[n + 1]
      OBVIOUS
    <2>1. n + 1 \in 1..Len(s) /\ (n + 1) - 1 = n
      OBVIOUS
    <2> QED
      BY <1>2, <2>1 DEF Sums
  <1>3. Nat \subseteq T
    <2> HIDE DEF T
    <2> QED
      BY <1>1, <1>2, Induct
  <1> QED
    BY <1>3

LEMMA TotalIs ==
    ASSUME NEW s, Len(s) \in Nat, NEW f, Sums(f, s)
    PROVE  Total(s) = f[Len(s)]
  BY SumsExist, SumsAgree

\* The sums of sequences of numbers are numbers.
LEMMA SumsAreNumbers ==
    ASSUME NEW s \in Seq(Int), NEW f, Sums(f, s)
    PROVE  /\ \A n \in 0..Len(s) : f[n] \in Int
           /\ s \in Seq(Nat) => \A n \in 0..Len(s) : f[n] \in Nat
  <1> DEFINE T == {n \in Nat : n <= Len(s) => f[n] \in Int}
             U == {n \in Nat : n <= Len(s) => f[n] \in Nat}
  <1>0. Len(s) \in Nat
    OBVIOUS
  <1>1. 0 \in T /\ 0 \in U
    BY DEF Sums
  <1>2. ASSUME NEW n \in Nat, n + 1 <= Len(s)
        PROVE  f[n + 1] = f[n] + s[n + 1] /\ s[n + 1] \in Int
               /\ (s \in Seq(Nat) => s[n + 1] \in Nat)
    <2>1. n + 1 \in 1..Len(s) /\ (n + 1) - 1 = n
      BY <1>0, <1>2
    <2>2. s[n + 1] \in Int /\ (s \in Seq(Nat) => s[n + 1] \in Nat)
      BY <2>1
    <2> QED
      BY <2>1, <2>2 DEF Sums
  <1>3. ASSUME NEW n \in Nat, n \in T PROVE n + 1 \in T
    BY <1>0, <1>2, <1>3
  <1>4. ASSUME s \in Seq(Nat), NEW n \in Nat, n \in U PROVE n + 1 \in U
    BY <1>0, <1>2, <1>4
  <1>5. Nat \subseteq T
    <2> HIDE DEF T
    <2> QED
      BY <1>1, <1>3, Induct
  <1>6. s \in Seq(Nat) => Nat \subseteq U
    <2> HIDE DEF U
    <2> QED
      BY <1>1, <1>4, Induct
  <1> QED
    BY <1>0, <1>5, <1>6

LEMMA TotalType ==
    ASSUME NEW s \in Seq(Int)
    PROVE  Total(s) \in Int /\ (s \in Seq(Nat) => Total(s) \in Nat)
  <1>1. Len(s) \in Nat
    OBVIOUS
  <1>2. PICK f : Sums(f, s) /\ Total(s) = f[Len(s)]
    BY <1>1, SumsExist
  <1> QED
    BY <1>1, <1>2, SumsAreNumbers

\* The total of the first entries.
LEMMA TotalOfFirst ==
    ASSUME NEW s \in Seq(Int), NEW f, Sums(f, s), NEW n \in 0..Len(s), NEW r,
           r = SubSeq(s, 1, n) \/ r = [j \in 1..n |-> s[j]]
    PROVE  Total(r) = f[n]
  <1>1. r = [j \in 1..n |-> s[j]] /\ Len(r) = n
    OBVIOUS
  <1>2. \A j \in 1..n : r[j] = s[j] /\ j \in 1..Len(s)
    BY <1>1
  <1>3. Sums(f, r)
    BY <1>1, <1>2 DEF Sums
  <1> QED
    BY <1>1, <1>3, TotalIs

LEMMA TotalOfSame ==
    ASSUME NEW s, NEW c \in Int, Len(s) \in Nat, \A j \in 1..Len(s) : s[j] = c
    PROVE  Total(s) = Len(s) * c
  <1> DEFINE f == [n \in 0..Len(s) |-> n * c]
  <1>1. ASSUME NEW n \in 1..Len(s) PROVE f[n] = f[n - 1] + s[n]
    <2>1. n - 1 \in 0..Len(s) /\ n \in 0..Len(s) /\ n \in Int
      OBVIOUS
    <2>2. n * c = (n - 1) * c + c
      BY <2>1
    <2> QED
      BY <2>1, <2>2
  <1>2. f[0] = 0 * c /\ 0 * c = 0
    OBVIOUS
  <1>3. Sums(f, s)
    BY <1>1, <1>2 DEF Sums
  <1> QED
    BY <1>3, TotalIs

LEMMA TotalOfTwo ==
    ASSUME NEW s \in Seq(Int), NEW t \in Seq(Int)
    PROVE  Total(s \o t) = Total(s) + Total(t)
  <1> DEFINE M == Len(s)  N == Len(t)
  <1>1. M \in Nat /\ N \in Nat /\ Len(s \o t) = M + N
    OBVIOUS
  <1>2. PICK f : Sums(f, s) /\ Total(s) = f[M]
    BY <1>1, SumsExist
  <1>3. PICK g : Sums(g, t) /\ Total(t) = g[N]
    BY <1>1, SumsExist
  <1>4. (\A n \in 0..M : f[n] \in Int) /\ \A n \in 0..N : g[n] \in Int
    BY <1>2, <1>3, SumsAreNumbers
  <1> DEFINE h == [n \in 0..(M + N) |-> IF n <= M THEN f[n] ELSE f[M] + g[n - M]]
  <1>5. ASSUME NEW n \in 1..(M + N) PROVE h[n] = h[n - 1] + (s \o t)[n]
    <2>1. CASE n <= M
      <3>1. n \in 1..M /\ n - 1 \in 0..(M + N) /\ n - 1 <= M /\ (s \o t)[n] = s[n]
        BY <1>1, <2>1
      <3> QED
        BY <1>1, <1>2, <2>1, <3>1 DEF Sums
    <2>2. CASE n > M
      <3>1. n - M \in 1..N /\ n - 1 \in 0..(M + N) /\ (s \o t)[n] = t[n - M]
        BY <1>1, <2>2
      <3>2. g[n - M] = g[(n - M) - 1] + t[n - M] /\ t[n - M] \in Int
        BY <1>3, <3>1 DEF Sums
      <3>3. f[M] \in Int /\ g[(n - M) - 1] \in Int /\ g[0] = 0
        BY <1>1, <1>3, <1>4, <3>1 DEF Sums
      <3>4. h[n - 1] = f[M] + g[(n - M) - 1]
        <4>1. CASE n - 1 = M
          BY <3>1, <3>3, <4>1
        <4>2. CASE n - 1 > M
          <5>1. (n - 1) - M = (n - M) - 1 /\ ~ (n - 1 <= M)
            BY <1>1, <4>2
          <5> QED
            BY <3>1, <5>1
        <4>3. n - 1 = M \/ n - 1 > M
          BY <1>1, <2>2
        <4> QED
          BY <4>1, <4>2, <4>3
      <3> QED
        BY <1>1, <2>2, <3>1, <3>2, <3>3, <3>4, SMTT(30)
    <2> QED
      BY <1>1, <2>1, <2>2
  <1>6. h[0] = 0
    BY <1>1, <1>2 DEF Sums
  <1>7. Sums(h, s \o t)
    <2> HIDE DEF h, M, N
    <2> QED
      BY <1>1, <1>5, <1>6 DEF Sums
  <1>8. h[M + N] = f[M] + g[N]
    <2>1. CASE N = 0
      BY <1>1, <1>3, <1>4, <2>1 DEF Sums
    <2>2. CASE N > 0
      <3>1. ~ (M + N <= M) /\ (M + N) - M = N
        BY <1>1, <2>2
      <3> QED
        BY <1>1, <3>1
    <2> QED
      BY <1>1, <2>1, <2>2
  <1>9. Total(s \o t) = h[M + N]
    <2>1. Len(s \o t) \in Nat
      BY <1>1
    <2>2. Total(s \o t) = h[Len(s \o t)]
      <3> HIDE DEF h, M, N
      <3> QED
        BY <1>7, <2>1, TotalIs
    <2> QED
      BY <1>1, <2>2
  <1> QED
    BY <1>2, <1>3, <1>8, <1>9
-----------------------------------------------------------------------------
(* Sequences joined.                                                       *)

Lengths(ss) == [j \in DOMAIN ss |-> Len(ss[j])]

LEMMA JoinsExist ==
    ASSUME NEW ss, Len(ss) \in Nat \ {0}
    PROVE  \E f : /\ f[1] = ss[1] /\ FlattenSeq(ss) = f[Len(ss)]
                  /\ \A n \in 2..Len(ss) : f[n] = f[n - 1] \o ss[n]
  <1> DEFINE N == Len(ss)
             In(f, n) == f[1] = ss[1] /\ \A i \in 2..n : f[i] = f[i - 1] \o ss[i]
             T == {n \in Nat : n <= N => \E f : In(f, n)}
  <1>1. 0 \in T
    <2>1. In([i \in {1} |-> ss[1]], 0)
      OBVIOUS
    <2> QED
      BY <2>1
  <1>2. ASSUME NEW n \in Nat, n \in T PROVE n + 1 \in T
    <2>0. (n + 1 <= N => n <= N) /\ n + 1 \in Nat
      OBVIOUS
    <2> SUFFICES ASSUME n + 1 <= N PROVE \E f : In(f, n + 1)
      <3> HIDE DEF In, N
      <3> QED
        BY <2>0
    <2>1. PICK f : In(f, n)
      <3> HIDE DEF In, N
      <3> QED
        BY <1>2, <2>0
    <2> DEFINE last == f[n] \o ss[n + 1]
               g == [i \in 1..(n + 1) |-> IF i = 1 THEN ss[1] ELSE IF i = n + 1 THEN last ELSE f[i]]
    <2>2. g[1] = ss[1]
      OBVIOUS
    <2>3. ASSUME NEW i \in 2..(n + 1) PROVE g[i] = g[i - 1] \o ss[i]
      <3>0. i - 1 \in 1..n /\ i - 1 \in 1..(n + 1) /\ i \in 1..(n + 1) /\ i # 1
            /\ i - 1 # n + 1
        OBVIOUS
      <3>1. g[i - 1] = f[i - 1]
        BY <2>1, <3>0
      <3>2. CASE i = n + 1
        <4>1. g[i] = last /\ i - 1 = n
          <5> HIDE DEF last
          <5> QED
            BY <3>0, <3>2
        <4> HIDE DEF g
        <4> QED
          BY <3>1, <3>2, <4>1
      <3>3. CASE i # n + 1
        <4>1. i \in 2..n
          BY <3>3
        <4>2. g[i] = f[i]
          BY <3>0, <3>3
        <4> QED
          BY <2>1, <3>1, <4>1, <4>2
      <3> QED
        BY <3>2, <3>3
    <2> HIDE DEF g
    <2> QED
      BY <2>2, <2>3
  <1>3. N \in T
    <2> HIDE DEF T
    <2> QED
      BY <1>1, <1>2, Induct
  <1>4. PICK f : In(f, N)
    <2>1. N \in Nat /\ N <= N
      OBVIOUS
    <2> HIDE DEF In, N
    <2> QED
      BY <1>3, <2>1
  <1> DEFINE Fcn(m) == m = [i \in 1..N |-> IF i = 1 THEN ss[i] ELSE m[i - 1] \o ss[i]]
             h == [i \in 1..N |-> f[i]]
             c == CHOOSE m : Fcn(m)
  <1>5. Fcn(h)
    <2>1. ASSUME NEW i \in 1..N PROVE f[i] = IF i = 1 THEN ss[i] ELSE h[i - 1] \o ss[i]
      <3>1. CASE i = 1
        BY <1>4, <3>1
      <3>2. CASE i # 1
        <4>1. i \in 2..N /\ i - 1 \in 1..N
          BY <3>2
        <4> QED
          BY <1>4, <4>1
      <3> QED
        BY <3>1, <3>2
    <2> QED
      BY <2>1
  <1>6. Fcn(c)
    <2> HIDE DEF h, Fcn
    <2> QED
      BY <1>5
  <1>7. FlattenSeq(ss) = c[N]
    BY DEF FlattenSeq
  <1>8. c[1] = ss[1] /\ \A n \in 2..N : c[n] = c[n - 1] \o ss[n]
    <2>1. 1 \in 1..N /\ \A n \in 2..N : n \in 1..N /\ n # 1
      OBVIOUS
    <2> HIDE DEF c
    <2> QED
      BY <1>6, <2>1
  <1> HIDE DEF c
  <1> QED
    BY <1>7, <1>8

LEMMA LengthsType ==
    ASSUME NEW S, NEW ss \in Seq(Seq(S))
    PROVE  Lengths(ss) \in Seq(Nat) /\ Len(Lengths(ss)) = Len(ss)
           /\ \A j \in 1..Len(ss) : Lengths(ss)[j] = Len(ss[j]) /\ Len(ss[j]) \in Nat
  <1>1. \A j \in 1..Len(ss) : ss[j] \in Seq(S)
    OBVIOUS
  <1>2. \A j \in 1..Len(ss) : Len(ss[j]) \in Nat
    BY <1>1
  <1>3. DOMAIN ss = 1..Len(ss) /\ Len(ss) \in Nat
    OBVIOUS
  <1> QED
    BY <1>2, <1>3 DEF Lengths

\* Where the entries of each sequence are in all of them joined: k counts up
\* their lengths.
Joined(all, ss, k, n) ==
    /\ Len(all) = k[n]
    /\ \A j \in 1..n : \A r \in 1..Len(ss[j]) :
          k[j - 1] + r \in 1..k[n] /\ all[k[j - 1] + r] = ss[j][r]
    /\ \A m \in 1..k[n] : \E j \in 1..n : \E r \in 1..Len(ss[j]) : m = k[j - 1] + r

LEMMA JoinOneMore ==
    ASSUME NEW S, NEW ss \in Seq(Seq(S)), NEW k, Sums(k, Lengths(ss)),
           NEW n \in Nat, n + 1 <= Len(ss),
           NEW all \in Seq(S), Joined(all, ss, k, n)
    PROVE  Joined(all \o ss[n + 1], ss, k, n + 1)
  <1> DEFINE t == ss[n + 1]  both == all \o t
  <1>1. n + 1 \in 1..Len(ss) /\ (n + 1) - 1 = n /\ n \in 0..Len(ss) /\ Len(ss) \in Nat
    OBVIOUS
  <1>2. t \in Seq(S)
    BY <1>1
  <1>3. Len(t) \in Nat /\ Len(all) \in Nat /\ Len(both) = Len(all) + Len(t)
    BY <1>2
  <1>4. k[n + 1] = k[n] + Len(t) /\ Len(all) = k[n]
    BY <1>1, LengthsType DEF Sums, Joined
  <1>5. \A j \in 0..Len(ss) : k[j] \in Nat
    <2>1. Lengths(ss) \in Seq(Int) /\ Lengths(ss) \in Seq(Nat) /\ Len(Lengths(ss)) = Len(ss)
      BY LengthsType
    <2> QED
      BY <2>1, SumsAreNumbers
  <1>6. \A i \in 1..k[n] : both[i] = all[i]
    BY <1>2, <1>3, <1>4
  <1>7. \A r \in 1..Len(t) : both[k[n] + r] = t[r]
    BY <1>2, <1>3, <1>4, SMTT(30)
  <1>8. ASSUME NEW j \in 1..(n + 1), NEW r \in 1..Len(ss[j])
        PROVE  k[j - 1] + r \in 1..k[n + 1] /\ both[k[j - 1] + r] = ss[j][r]
    <2>1. CASE j = n + 1
      BY <1>1, <1>3, <1>4, <1>7, <2>1, SMTT(30)
    <2>2. CASE j # n + 1
      <3>1. j \in 1..n
        BY <2>2
      <3>2. k[j - 1] + r \in 1..k[n] /\ all[k[j - 1] + r] = ss[j][r]
        BY <3>1 DEF Joined
      <3>3. k[n] \in Nat /\ k[n + 1] >= k[n]
        BY <1>1, <1>3, <1>4, <1>5
      <3>4. k[j - 1] + r \in 1..k[n + 1]
        <4>1. k[n + 1] \in Nat
          BY <1>1, <1>5
        <4> QED
          BY <3>2, <3>3, <4>1, SMTT(30)
      <3> QED
        BY <1>6, <3>2, <3>4
    <2> QED
      BY <2>1, <2>2
  <1>9. ASSUME NEW m \in 1..k[n + 1]
        PROVE  \E j \in 1..(n + 1) : \E r \in 1..Len(ss[j]) : m = k[j - 1] + r
    <2>0. k[n] \in Nat
      BY <1>1, <1>5
    <2>1. CASE m <= k[n]
      <3>1. PICK j \in 1..n : \E r \in 1..Len(ss[j]) : m = k[j - 1] + r
        <4>1. m \in 1..k[n]
          BY <1>1, <1>5, <2>0, <2>1
        <4> HIDE DEF t, both
        <4> QED
          BY <4>1 DEF Joined
      <3>2. j \in 1..(n + 1)
        OBVIOUS
      <3> QED
        BY <3>1, <3>2
    <2>2. CASE ~ (m <= k[n])
      <3>1. m - k[n] \in 1..Len(t) /\ m = k[n] + (m - k[n])
        BY <1>3, <1>4, <2>0, <2>2
      <3>2. n + 1 \in 1..(n + 1)
        OBVIOUS
      <3> QED
        BY <1>1, <3>1, <3>2
    <2> QED
      BY <2>1, <2>2
  <1> QED
    BY <1>3, <1>4, <1>8, <1>9 DEF Joined

LEMMA FlattenJoins ==
    ASSUME NEW S, NEW ss \in Seq(Seq(S)), NEW k, Sums(k, Lengths(ss))
    PROVE  FlattenSeq(ss) \in Seq(S) /\ Joined(FlattenSeq(ss), ss, k, Len(ss))
  <1>0. Len(ss) \in Nat /\ k[0] = 0 /\ Len(Lengths(ss)) = Len(ss)
    BY LengthsType DEF Sums
  <1>1. CASE Len(ss) = 0
    <2>1. FlattenSeq(ss) = ss /\ ss = << >>
      BY <1>1 DEF FlattenSeq
    <2> QED
      BY <1>0, <1>1, <2>1 DEF Joined
  <1>2. CASE Len(ss) # 0
    <2>0. Len(ss) \in Nat \ {0}
      BY <1>0, <1>2
    <2>1. PICK f : /\ f[1] = ss[1] /\ FlattenSeq(ss) = f[Len(ss)]
                   /\ \A n \in 2..Len(ss) : f[n] = f[n - 1] \o ss[n]
      BY <2>0, JoinsExist
    <2> DEFINE T == {n \in Nat : n + 1 <= Len(ss) =>
                        f[n + 1] \in Seq(S) /\ Joined(f[n + 1], ss, k, n + 1)}
    <2>2. 0 \in T
      <3>1. ss[1] \in Seq(S) /\ << >> \in Seq(S) /\ << >> \o ss[1] = ss[1]
        BY <2>0
      <3>2. Joined(<< >>, ss, k, 0)
        BY <1>0 DEF Joined
      <3>3. Joined(<< >> \o ss[0 + 1], ss, k, 0 + 1)
        <4>1. 0 \in Nat /\ 0 + 1 <= Len(ss)
          BY <2>0
        <4> QED
          BY <3>1, <3>2, <4>1, JoinOneMore
      <3> QED
        BY <2>1, <3>1, <3>3
    <2>3. ASSUME NEW n \in Nat, n \in T PROVE n + 1 \in T
      <3> SUFFICES ASSUME (n + 1) + 1 <= Len(ss)
                   PROVE  f[(n + 1) + 1] \in Seq(S) /\ Joined(f[(n + 1) + 1], ss, k, (n + 1) + 1)
        OBVIOUS
      <3>1. n + 1 \in Nat /\ (n + 1) + 1 \in 2..Len(ss) /\ ((n + 1) + 1) - 1 = n + 1
            /\ (n + 1) + 1 \in 1..Len(ss) /\ n + 1 <= Len(ss)
        BY <1>0
      <3>2. f[n + 1] \in Seq(S) /\ Joined(f[n + 1], ss, k, n + 1)
        BY <2>3, <3>1
      <3>3. f[(n + 1) + 1] = f[n + 1] \o ss[(n + 1) + 1]
        BY <2>1, <3>1
      <3>4. ss[(n + 1) + 1] \in Seq(S)
        BY <3>1
      <3>5. Joined(f[n + 1] \o ss[(n + 1) + 1], ss, k, (n + 1) + 1)
        BY <3>1, <3>2, JoinOneMore
      <3> QED
        BY <3>2, <3>3, <3>4, <3>5
    <2>4. Nat \subseteq T
      <3> HIDE DEF T
      <3> QED
        BY <2>2, <2>3, Induct
    <2>5. Len(ss) - 1 \in Nat /\ (Len(ss) - 1) + 1 = Len(ss)
      BY <2>0
    <2>6. Len(ss) - 1 \in T
      <3> HIDE DEF T
      <3> QED
        BY <2>4, <2>5
    <2> QED
      BY <1>0, <2>1, <2>5, <2>6
  <1> QED
    BY <1>1, <1>2

LEMMA FlattenLength ==
    ASSUME NEW S, NEW ss \in Seq(Seq(S))
    PROVE  FlattenSeq(ss) \in Seq(S) /\ Len(FlattenSeq(ss)) = Total(Lengths(ss))
  <1>1. Len(Lengths(ss)) \in Nat /\ Len(Lengths(ss)) = Len(ss)
    BY LengthsType
  <1>2. PICK k : Sums(k, Lengths(ss)) /\ Total(Lengths(ss)) = k[Len(ss)]
    BY <1>1, SumsExist
  <1> QED
    BY <1>2, FlattenJoins DEF Joined
-----------------------------------------------------------------------------
(* The inputs of a set, in order.                                          *)

\* How many members of S are up to v.
Rank(S, v) == Cardinality({w \in 1..v : w \in S})

LEMMA RankFacts ==
    ASSUME NEW S
    PROVE  /\ Rank(S, 0) = 0
           /\ \A v \in Nat : Rank(S, v) \in Nat
           /\ \A v \in Nat : Rank(S, v + 1) = IF v + 1 \in S THEN Rank(S, v) + 1 ELSE Rank(S, v)
  <1> DEFINE upTo(v) == {w \in 1..v : w \in S}
  <1>1. upTo(0) = {}
    OBVIOUS
  <1>2. ASSUME NEW v \in Nat PROVE IsFiniteSet(upTo(v)) /\ Cardinality(upTo(v)) \in Nat
    <2>1. IsFiniteSet(1..v)
      BY FS_Interval
    <2>2. upTo(v) \subseteq 1..v
      OBVIOUS
    <2> HIDE DEF upTo
    <2> QED
      BY <2>1, <2>2, FS_Subset, FS_CardinalityType
  <1>3. ASSUME NEW v \in Nat
        PROVE  Cardinality(upTo(v + 1))
                 = IF v + 1 \in S THEN Cardinality(upTo(v)) + 1 ELSE Cardinality(upTo(v))
    <2>1. CASE v + 1 \in S
      <3>1. upTo(v + 1) = upTo(v) \cup {v + 1} /\ v + 1 \notin upTo(v)
        BY <2>1
      <3> HIDE DEF upTo
      <3> QED
        BY <1>2, <2>1, <3>1, FS_AddElement
    <2>2. CASE v + 1 \notin S
      <3>1. upTo(v + 1) = upTo(v)
        BY <2>2
      <3> HIDE DEF upTo
      <3> QED
        BY <2>2, <3>1
    <2> QED
      BY <2>1, <2>2
  <1>4. Cardinality(upTo(0)) = 0
    <2> HIDE DEF upTo
    <2> QED
      BY <1>1, FS_EmptySet
  <1>5. \A v : Rank(S, v) = Cardinality(upTo(v))
    BY DEF Rank
  <1> HIDE DEF upTo
  <1> QED
    BY <1>2, <1>3, <1>4, <1>5

LEMMA PickExists ==
    ASSUME NEW q, q.nu \in Nat, NEW S
    PROVE  \E f : /\ f[0] = << >> /\ InputsIn(q, S) = f[q.nu]
                  /\ \A v \in 1..q.nu :
                        f[v] = IF v \in S THEN Append(f[v - 1], v) ELSE f[v - 1]
  <1> DEFINE N == q.nu
             One(s, v) == IF v \in S THEN Append(s, v) ELSE s
             In(f, n) == f[0] = << >> /\ \A v \in 1..n : f[v] = One(f[v - 1], v)
             T == {n \in Nat : n <= N => \E f : In(f, n)}
  <1> HIDE DEF One
  <1>1. 0 \in T
    <2>1. In([v \in {0} |-> << >>], 0)
      OBVIOUS
    <2> QED
      BY <2>1
  <1>2. ASSUME NEW n \in Nat, n \in T PROVE n + 1 \in T
    <2>0. (n + 1 <= N => n <= N) /\ n + 1 \in Nat
      OBVIOUS
    <2> SUFFICES ASSUME n + 1 <= N PROVE \E f : In(f, n + 1)
      <3> HIDE DEF In, N
      <3> QED
        BY <2>0
    <2>1. PICK f : In(f, n)
      <3> HIDE DEF In, N
      <3> QED
        BY <1>2, <2>0
    <2> DEFINE g == [v \in 0..(n + 1) |-> IF v = n + 1 THEN One(f[n], n + 1) ELSE f[v]]
    <2>2. g[0] = << >>
      BY <2>1
    <2>3. ASSUME NEW v \in 1..(n + 1) PROVE g[v] = One(g[v - 1], v)
      <3>0. v - 1 \in 0..n /\ v - 1 \in 0..(n + 1) /\ v \in 0..(n + 1) /\ v - 1 # n + 1
        OBVIOUS
      <3>1. g[v - 1] = f[v - 1]
        BY <3>0
      <3>2. CASE v = n + 1
        <4>1. g[v] = One(f[n], n + 1) /\ v - 1 = n
          BY <3>0, <3>2
        <4> HIDE DEF g
        <4> QED
          BY <3>1, <3>2, <4>1
      <3>3. CASE v # n + 1
        <4>1. v \in 1..n /\ g[v] = f[v]
          BY <3>0, <3>3
        <4> HIDE DEF g
        <4> QED
          BY <2>1, <3>1, <4>1
      <3> QED
        BY <3>2, <3>3
    <2> HIDE DEF g
    <2> QED
      BY <2>2, <2>3
  <1>3. N \in T
    <2>1. N \in Nat
      OBVIOUS
    <2> HIDE DEF T, N
    <2> QED
      BY <1>1, <1>2, <2>1, Induct
  <1>4. PICK f : In(f, N)
    <2>1. N \in Nat /\ N <= N
      OBVIOUS
    <2> HIDE DEF In, N
    <2> QED
      BY <1>3, <2>1
  <1> DEFINE Fcn(m) == m = [v \in 0..N |-> IF v = 0 THEN << >> ELSE One(m[v - 1], v)]
             h == [v \in 0..N |-> f[v]]
             c == CHOOSE m : Fcn(m)
  <1>5. Fcn(h)
    <2>1. ASSUME NEW v \in 0..N PROVE f[v] = IF v = 0 THEN << >> ELSE One(h[v - 1], v)
      <3>1. CASE v = 0
        BY <1>4, <3>1
      <3>2. CASE v # 0
        <4>1. v \in 1..N /\ v - 1 \in 0..N
          BY <3>2
        <4> QED
          BY <1>4, <4>1
      <3> QED
        BY <3>1, <3>2
    <2> QED
      BY <2>1
  <1>6. Fcn(c)
    <2> HIDE DEF h, Fcn
    <2> QED
      BY <1>5
  <1>7. InputsIn(q, S) = c[N]
    BY DEF InputsIn, One
  <1>8. c[0] = << >> /\ \A v \in 1..N : c[v] = One(c[v - 1], v)
    <2> HIDE DEF c
    <2> QED
      BY <1>6
  <1> HIDE DEF c
  <1> QED
    BY <1>7, <1>8 DEF One

\* s lists the members of S up to n, in order.
Lists(s, S, n) ==
    /\ Len(s) = Rank(S, n)
    /\ \A j \in 1..Len(s) : s[j] \in S /\ s[j] \in 1..n /\ Rank(S, s[j]) = j
    /\ \A v \in 1..n : v \in S => Rank(S, v) \in 1..Len(s) /\ s[Rank(S, v)] = v

LEMMA InputsAreListed ==
    ASSUME NEW q, q.nu \in Nat, NEW S
    PROVE  InputsIn(q, S) \in Seq(1..q.nu) /\ Lists(InputsIn(q, S), S, q.nu)
  <1> DEFINE N == q.nu
  <1>1. PICK f : /\ f[0] = << >> /\ InputsIn(q, S) = f[N]
                 /\ \A v \in 1..N : f[v] = IF v \in S THEN Append(f[v - 1], v) ELSE f[v - 1]
    BY PickExists
  <1> DEFINE T == {n \in Nat : n <= N => f[n] \in Seq(1..N) /\ Lists(f[n], S, n)}
  <1>2. 0 \in T
    <2>1. Len(<< >>) = 0 /\ << >> \in Seq(1..N)
      OBVIOUS
    <2>2. Lists(<< >>, S, 0)
      BY <2>1, RankFacts DEF Lists
    <2> QED
      BY <1>1, <2>1, <2>2
  <1>3. ASSUME NEW n \in Nat, n \in T, n + 1 <= N
        PROVE  f[n + 1] \in Seq(1..N) /\ Lists(f[n + 1], S, n + 1)
    <2>1. f[n] \in Seq(1..N) /\ Lists(f[n], S, n) /\ n + 1 \in 1..N /\ (n + 1) - 1 = n
      BY <1>3
    <2>2. Rank(S, n) \in Nat /\ Len(f[n]) = Rank(S, n)
      BY <2>1, RankFacts DEF Lists
    <2>3. CASE n + 1 \in S
      <3> DEFINE s == Append(f[n], n + 1)
      <3>1. f[n + 1] = s
        BY <1>1, <2>1, <2>3
      <3>2. s \in Seq(1..N) /\ Len(s) = Len(f[n]) + 1 /\ s[Len(f[n]) + 1] = n + 1
            /\ \A j \in 1..Len(f[n]) : s[j] = f[n][j]
        BY <2>1
      <3>3. Rank(S, n + 1) = Rank(S, n) + 1
        BY <2>3, RankFacts
      <3> HIDE DEF s
      <3>4. ASSUME NEW j \in 1..Len(s)
            PROVE  s[j] \in S /\ s[j] \in 1..(n + 1) /\ Rank(S, s[j]) = j
        <4>1. CASE j = Len(f[n]) + 1
          BY <2>2, <2>3, <3>2, <3>3, <4>1
        <4>2. CASE j # Len(f[n]) + 1
          <5>1. j \in 1..Len(f[n])
            BY <2>2, <3>2, <4>2
          <5>2. f[n][j] \in S /\ f[n][j] \in 1..n /\ Rank(S, f[n][j]) = j
            BY <2>1, <5>1 DEF Lists
          <5>3. s[j] = f[n][j]
            BY <3>2, <5>1
          <5>4. n \in Nat /\ 1..n \subseteq 1..(n + 1)
            BY <2>1
          <5> QED
            BY <5>2, <5>3, <5>4
        <4> QED
          BY <4>1, <4>2
      <3>5. ASSUME NEW v \in 1..(n + 1), v \in S
            PROVE  Rank(S, v) \in 1..Len(s) /\ s[Rank(S, v)] = v
        <4>1. CASE v = n + 1
          BY <2>2, <3>2, <3>3, <4>1
        <4>2. CASE v # n + 1
          <5>1. v \in 1..n
            BY <4>2
          <5>2. Rank(S, v) \in 1..Len(f[n]) /\ f[n][Rank(S, v)] = v
            BY <2>1, <3>5, <5>1 DEF Lists
          <5> QED
            BY <2>2, <3>2, <5>2
        <4> QED
          BY <4>1, <4>2
      <3> QED
        BY <2>2, <3>1, <3>2, <3>3, <3>4, <3>5 DEF Lists
    <2>4. CASE n + 1 \notin S
      <3>1. f[n + 1] = f[n] /\ Rank(S, n + 1) = Rank(S, n)
        BY <1>1, <2>1, <2>4, RankFacts
      <3>2. Lists(f[n], S, n + 1)
        <4>1. \A v \in 1..(n + 1) : v \in S => v \in 1..n
          BY <2>4
        <4>2. \A v \in 1..n : v \in 1..(n + 1)
          OBVIOUS
        <4> QED
          BY <2>1, <3>1, <4>1, <4>2 DEF Lists
      <3> QED
        BY <2>1, <3>1, <3>2
    <2> QED
      BY <2>3, <2>4
  <1>4. Nat \subseteq T
    <2>1. \A n \in Nat : n \in T => n + 1 \in T
      BY <1>3
    <2> HIDE DEF T
    <2> QED
      BY <1>2, <2>1, Induct
  <1> QED
    BY <1>1, <1>4

\* The inputs are listed once each.
LEMMA AllInputs ==
    ASSUME NEW q, q.nu \in Nat, NEW S, 1..q.nu \subseteq S
    PROVE  InputsIn(q, S) = Seq1(q.nu)
  <1> DEFINE T == {n \in Nat : n <= q.nu => Rank(S, n) = n}
  <1>1. 0 \in T
    BY RankFacts
  <1>2. ASSUME NEW n \in Nat, n \in T PROVE n + 1 \in T
    <2> SUFFICES ASSUME n + 1 <= q.nu PROVE Rank(S, n + 1) = n + 1
      OBVIOUS
    <2>1. n + 1 \in S /\ Rank(S, n) = n
      BY <1>2
    <2> QED
      BY <2>1, RankFacts
  <1>3. Nat \subseteq T
    <2> HIDE DEF T
    <2> QED
      BY <1>1, <1>2, Induct
  <1>4. \A n \in 0..q.nu : Rank(S, n) = n
    BY <1>3
  <1> DEFINE s == InputsIn(q, S)
  <1>5. s \in Seq(1..q.nu) /\ Len(s) = q.nu /\ \A j \in 1..q.nu : s[j] = j
    BY <1>4, InputsAreListed DEF Lists
  <1> HIDE DEF s
  <1> QED
    BY <1>5 DEF Seq1, s
-----------------------------------------------------------------------------
(* Grids of variables and points.                                          *)

Points  == Int \X Int
Kinds   == {"x", "dx", "w", "u", "p", "h"}
Entries == Kinds \X Int \X Points

LEMMA EntryType ==
    ASSUME NEW kind \in Kinds, NEW v \in Int, NEW pt \in Points
    PROVE  <<kind, v, pt>> \in Entries
  BY DEF Entries

LEMMA DivideOffset ==
    ASSUME NEW n \in Nat, NEW m \in Nat \ {0}, NEW r \in 0..(m - 1)
    PROVE  (n * m + r) \div m = n /\ (n * m + r) % m = r
  OBVIOUS

LEMMA DivideIndex ==
    ASSUME NEW n \in Nat, NEW m \in Nat \ {0}, NEW j \in 1..(n * m)
    PROVE  /\ (j - 1) \div m \in 0..(n - 1) /\ (j - 1) % m \in 0..(m - 1)
           /\ j = ((j - 1) \div m) * m + ((j - 1) % m) + 1
  <1> DEFINE d == (j - 1) \div m  r == (j - 1) % m
  <1>1. j - 1 \in Nat /\ n * m \in Nat /\ j - 1 < n * m
    OBVIOUS
  <1>2. d \in Int /\ r \in 0..(m - 1) /\ j - 1 = d * m + r
    BY <1>1
  <1>3. d >= 0
    BY <1>1, <1>2
  <1>4. d < n
    <2> SUFFICES ASSUME d >= n PROVE FALSE
      BY <1>2
    <2>1. d * m >= n * m
      BY <1>2
    <2> HIDE DEF d, r
    <2> QED
      BY <1>1, <1>2, <2>1
  <1> HIDE DEF d, r
  <1>5. j = d * m + r + 1
    BY <1>1, <1>2
  <1> QED
    BY <1>2, <1>3, <1>4, <1>5 DEF d, r

LEMMA OffsetInside ==
    ASSUME NEW n \in Nat, NEW m \in Nat, NEW j \in 1..n, NEW r \in 1..m
    PROVE  (j - 1) * m + r \in 1..(n * m)
  <1>1. (j - 1) * m >= 0 /\ (j - 1) * m \in Int
    OBVIOUS
  <1>2. (j - 1) * m + m = j * m /\ j * m <= n * m /\ j * m \in Int /\ n * m \in Int
    OBVIOUS
  <1> QED
    BY <1>1, <1>2

\* pts are the points first to last, m of them, in each element up to ne.
ArePoints(pts, ne, first, last, m) ==
    /\ pts \in Seq((1..ne) \X (first..last)) /\ pts \in Seq(Points) /\ Len(pts) = ne * m
    /\ \A i \in 1..ne : \A k \in first..last :
          /\ (i - 1) * m + (k - first) + 1 \in 1..Len(pts)
          /\ pts[(i - 1) * m + (k - first) + 1] = <<i, k>>

LEMMA ElementPointsAre ==
    ASSUME NEW q, q.ne \in Nat, NEW first \in Nat, NEW last \in Nat, first <= last
    PROVE  ArePoints(ElementPoints(q, first, last), q.ne, first, last, last - first + 1)
  <1> DEFINE pts == ElementPoints(q, first, last)
             m == last - first + 1
             at(j) == << (j - 1) \div m + 1, first + ((j - 1) % m) >>
  <1>1. m \in Nat \ {0} /\ q.ne * m \in Nat
    OBVIOUS
  <1>2. pts = [j \in 1..(q.ne * m) |-> at(j)]
    BY DEF ElementPoints
  <1>3. ASSUME NEW j \in 1..(q.ne * m)
        PROVE  at(j) \in (1..q.ne) \X (first..last) /\ at(j) \in Points
    <2> HIDE DEF m
    <2>1. (j - 1) \div m \in 0..(q.ne - 1) /\ (j - 1) % m \in 0..(m - 1)
      BY <1>1, DivideIndex
    <2>2. ((j - 1) \div m) + 1 \in 1..q.ne
      BY <2>1
    <2>3. first + ((j - 1) % m) \in first..last
      BY <2>1 DEF m
    <2> QED
      BY <2>2, <2>3 DEF Points
  <1>4. ASSUME NEW i \in 1..q.ne, NEW k \in first..last
        PROVE  /\ (i - 1) * m + (k - first) + 1 \in 1..(q.ne * m)
               /\ at((i - 1) * m + (k - first) + 1) = <<i, k>>
    <2> DEFINE r == k - first
    <2>1. r \in 0..(m - 1) /\ r + 1 \in 1..m /\ i - 1 \in Nat /\ first + r = k
      OBVIOUS
    <2> HIDE DEF m, r
    <2>2. (i - 1) * m + (r + 1) \in 1..(q.ne * m)
      BY <1>1, <2>1, OffsetInside
    <2>3. (i - 1) * m \in Int
      BY <1>1
    <2>4. (i - 1) * m + (r + 1) = (i - 1) * m + r + 1
          /\ ((i - 1) * m + r + 1) - 1 = (i - 1) * m + r
      BY <2>1, <2>3
    <2>5. ((i - 1) * m + r) \div m = i - 1 /\ ((i - 1) * m + r) % m = r
      BY <1>1, <2>1, DivideOffset
    <2>6. (i - 1) * m + r + 1 \in 1..(q.ne * m)
      BY <2>2, <2>4
    <2>7. at((i - 1) * m + r + 1) = <<i, k>>
      BY <2>1, <2>4, <2>5
    <2> QED
      BY <2>6, <2>7 DEF r
  <1> HIDE DEF m, at
  <1>5. pts \in Seq((1..q.ne) \X (first..last)) /\ pts \in Seq(Points) /\ Len(pts) = q.ne * m
    <2> DEFINE N == q.ne * m  Inner == (1..q.ne) \X (first..last)
    <2>1. N \in Nat /\ pts = [j \in 1..N |-> at(j)]
          /\ \A j \in 1..N : at(j) \in Inner /\ at(j) \in Points
      BY <1>1, <1>2, <1>3
    <2> HIDE DEF N, Inner, pts
    <2>2. pts \in Seq(Inner) /\ Len(pts) = N
      BY <2>1
    <2>3. pts \in Seq(Points)
      BY <2>1
    <2> QED
      BY <2>2, <2>3 DEF N, Inner, pts
  <1>6. ASSUME NEW i \in 1..q.ne, NEW k \in first..last
        PROVE  /\ (i - 1) * m + (k - first) + 1 \in 1..Len(pts)
               /\ pts[(i - 1) * m + (k - first) + 1] = <<i, k>>
    BY <1>2, <1>4, <1>5
  <1> QED
    BY <1>5, <1>6 DEF m, ArePoints

\* Counting up sequences of one length.
LEMMA SumsOfSame ==
    ASSUME NEW S, NEW ss \in Seq(Seq(S)), NEW c \in Nat, \A j \in 1..Len(ss) : Len(ss[j]) = c
    PROVE  Sums([n \in 0..Len(ss) |-> n * c], Lengths(ss))
  <1>1. Len(Lengths(ss)) = Len(ss) /\ Len(ss) \in Nat
        /\ \A j \in 1..Len(ss) : Lengths(ss)[j] = c
    BY LengthsType
  <1> DEFINE f == [n \in 0..Len(ss) |-> n * c]
  <1>2. ASSUME NEW n \in 1..Len(ss) PROVE f[n] = f[n - 1] + Lengths(ss)[n]
    <2>1. n - 1 \in 0..Len(ss) /\ n \in 0..Len(ss) /\ n \in Int
      BY <1>1
    <2>2. n * c = (n - 1) * c + c
      BY <2>1
    <2> QED
      BY <1>1, <2>1, <2>2
  <1>3. f[0] = 0 * c /\ 0 * c = 0
    BY <1>1
  <1> HIDE DEF f
  <1>4. Sums(f, Lengths(ss))
    BY <1>1, <1>2, <1>3 DEF Sums
  <1> QED
    BY <1>4 DEF f

LEMMA FlattenSame ==
    ASSUME NEW S, NEW ss \in Seq(Seq(S)), NEW c \in Nat, \A j \in 1..Len(ss) : Len(ss[j]) = c
    PROVE  LET all == FlattenSeq(ss)
           IN  /\ all \in Seq(S) /\ Len(all) = Len(ss) * c
               /\ \A j \in 1..Len(ss) : \A r \in 1..c :
                     /\ (j - 1) * c + r \in 1..Len(all)
                     /\ all[(j - 1) * c + r] = ss[j][r]
               /\ \A m \in 1..Len(all) : \E j \in 1..Len(ss) : \E r \in 1..c :
                     m = (j - 1) * c + r
  <1> DEFINE all == FlattenSeq(ss)
             f == [n \in 0..Len(ss) |-> n * c]
  <1>1. Sums(f, Lengths(ss))
    BY SumsOfSame
  <1>2. Len(ss) \in Nat /\ f[Len(ss)] = Len(ss) * c
        /\ \A j \in 1..Len(ss) : f[j - 1] = (j - 1) * c
    <2>1. Len(ss) \in Nat /\ \A j \in 1..Len(ss) : j - 1 \in 0..Len(ss)
      OBVIOUS
    <2> QED
      BY <2>1
  <1> HIDE DEF f
  <1>3. all \in Seq(S) /\ Joined(all, ss, f, Len(ss))
    BY <1>1, FlattenJoins
  <1>4. Len(all) = Len(ss) * c
    BY <1>2, <1>3 DEF Joined
  <1>5. \A j \in 1..Len(ss) : \A r \in 1..c :
           (j - 1) * c + r \in 1..Len(all) /\ all[(j - 1) * c + r] = ss[j][r]
    BY <1>2, <1>3, <1>4 DEF Joined
  <1>6. ASSUME NEW m \in 1..Len(all)
        PROVE  \E j \in 1..Len(ss) : \E r \in 1..c : m = (j - 1) * c + r
    <2>1. m \in 1..f[Len(ss)]
      BY <1>2, <1>4
    <2>2. PICK j \in 1..Len(ss) : \E r \in 1..Len(ss[j]) : m = f[j - 1] + r
      BY <1>3, <2>1 DEF Joined
    <2> QED
      BY <1>2, <2>2
  <1> QED
    BY <1>3, <1>4, <1>5, <1>6

LEMMA AtPointIs ==
    ASSUME NEW kind \in Kinds, NEW vs \in Seq(Int), NEW pt \in Points
    PROVE  /\ AtPoint(kind, vs, pt) \in Seq(Entries) /\ Len(AtPoint(kind, vs, pt)) = Len(vs)
           /\ \A r \in 1..Len(vs) : AtPoint(kind, vs, pt)[r] = <<kind, vs[r], pt>>
  <1>1. DOMAIN vs = 1..Len(vs) /\ Len(vs) \in Nat /\ \A r \in 1..Len(vs) : vs[r] \in Int
    OBVIOUS
  <1> DEFINE e(r) == <<kind, vs[r], pt>>
  <1>2. AtPoint(kind, vs, pt) = [r \in 1..Len(vs) |-> e(r)]
    BY <1>1 DEF AtPoint
  <1>3. \A r \in 1..Len(vs) : e(r) \in Entries
    BY <1>1 DEF Entries
  <1>4. \A r \in 1..Len(vs) : e(r) = <<kind, vs[r], pt>>
    OBVIOUS
  <1> DEFINE a == AtPoint(kind, vs, pt)
  <1> HIDE DEF a, e
  <1>5. a = [r \in 1..Len(vs) |-> e(r)]
    BY <1>2 DEF a
  <1>6. a \in Seq(Entries) /\ Len(a) = Len(vs) /\ \A r \in 1..Len(vs) : a[r] = e(r)
    BY <1>1, <1>3, <1>5
  <1> QED
    BY <1>4, <1>6 DEF a

\* g has an entry for each of the variables vs at each of the points.
IsGrid(g, kind, vs, pts) ==
    /\ g \in Seq(Entries) /\ Len(g) = Len(pts) * Len(vs)
    /\ \A j \in 1..Len(pts) : \A r \in 1..Len(vs) :
          /\ (j - 1) * Len(vs) + r \in 1..Len(g)
          /\ g[(j - 1) * Len(vs) + r] = <<kind, vs[r], pts[j]>>
    /\ \A m \in 1..Len(g) : \E j \in 1..Len(pts) : \E r \in 1..Len(vs) :
          m = (j - 1) * Len(vs) + r

LEMMA GridIs ==
    ASSUME NEW kind \in Kinds, NEW vs \in Seq(Int), NEW pts \in Seq(Points)
    PROVE  IsGrid(Grid(kind, vs, pts), kind, vs, pts)
  <1> DEFINE ss == [j \in DOMAIN pts |-> AtPoint(kind, vs, pts[j])]
             c  == Len(vs)
  <1>1. DOMAIN pts = 1..Len(pts) /\ Len(pts) \in Nat /\ \A j \in 1..Len(pts) : pts[j] \in Points
    OBVIOUS
  <1>2. c \in Nat
    OBVIOUS
  <1>3. ss \in Seq(Seq(Entries)) /\ Len(ss) = Len(pts)
    <2> DEFINE at(j) == AtPoint(kind, vs, pts[j])
    <2>1. ss = [j \in 1..Len(pts) |-> at(j)] /\ \A j \in 1..Len(pts) : at(j) \in Seq(Entries)
      BY <1>1, AtPointIs
    <2> HIDE DEF ss, at
    <2> QED
      BY <1>1, <2>1
  <1>4. \A j \in 1..Len(ss) : Len(ss[j]) = c
    BY <1>1, <1>3, AtPointIs
  <1>5. \A j \in 1..Len(pts) : \A r \in 1..c : ss[j][r] = <<kind, vs[r], pts[j]>>
    BY <1>1, AtPointIs
  <1>6. Grid(kind, vs, pts) = FlattenSeq(ss)
    BY DEF Grid
  <1> HIDE DEF ss, c
  <1> DEFINE g == FlattenSeq(ss)
  <1>7. /\ g \in Seq(Entries) /\ Len(g) = Len(ss) * c
        /\ \A j \in 1..Len(ss) : \A r \in 1..c :
              (j - 1) * c + r \in 1..Len(g) /\ g[(j - 1) * c + r] = ss[j][r]
        /\ \A m \in 1..Len(g) : \E j \in 1..Len(ss) : \E r \in 1..c : m = (j - 1) * c + r
    BY <1>2, <1>3, <1>4, FlattenSame, ZenonT(40)
  <1> HIDE DEF g
  <1>8. \A j \in 1..Len(pts) : \A r \in 1..c :
           (j - 1) * c + r \in 1..Len(g) /\ g[(j - 1) * c + r] = <<kind, vs[r], pts[j]>>
    BY <1>3, <1>5, <1>7
  <1>9. Grid(kind, vs, pts) = g
    BY <1>6 DEF g
  <1> QED
    BY <1>3, <1>7, <1>8, <1>9 DEF c, IsGrid
-----------------------------------------------------------------------------
(* The groups of xx.                                                       *)

LEMMA Seq1Is ==
    ASSUME NEW n \in Nat
    PROVE  /\ Seq1(n) \in Seq(1..n) /\ Seq1(n) \in Seq(Int) /\ Len(Seq1(n)) = n
           /\ \A j \in 1..n : Seq1(n)[j] = j
  BY DEF Seq1

\* The inputs without blocking factors.
FreeInputs(q) == {v \in 1..q.nu : ~ (q.blocked /\ Blocked(q, v))}

LEMMA FreeIs ==
    ASSUME NEW q, q.nu \in Nat
    PROVE  /\ Free(q) \in Seq(1..q.nu) /\ Free(q) \in Seq(Int) /\ Len(Free(q)) \in Nat
           /\ Lists(Free(q), FreeInputs(q), q.nu)
           /\ q.blocked = FALSE => Free(q) = Seq1(q.nu) /\ Len(Free(q)) = q.nu
  <1>1. Free(q) = InputsIn(q, FreeInputs(q))
    BY DEF Free, FreeInputs
  <1>2. Free(q) \in Seq(1..q.nu) /\ Lists(Free(q), FreeInputs(q), q.nu)
    BY <1>1, InputsAreListed
  <1>3. ASSUME NEW s \in Seq(1..q.nu) PROVE s \in Seq(Int) /\ Len(s) \in Nat
    OBVIOUS
  <1>4. ASSUME q.blocked = FALSE PROVE Free(q) = Seq1(q.nu) /\ Len(Free(q)) = q.nu
    <2>1. 1..q.nu \subseteq FreeInputs(q)
      BY <1>4 DEF FreeInputs
    <2> QED
      BY <1>1, <2>1, AllInputs, Seq1Is
  <1> QED
    BY <1>2, <1>3, <1>4

LEMMA InnerPointsAre ==
    ASSUME NEW q \in Problems
    PROVE  /\ InnerPoints(q) \in Seq((1..q.ne) \X (1..q.ncp)) /\ InnerPoints(q) \in Seq(Points)
           /\ Len(InnerPoints(q)) = q.ne * q.ncp
           /\ \A i \in 1..q.ne : \A k \in 1..q.ncp :
                 /\ (i - 1) * q.ncp + k \in 1..Len(InnerPoints(q))
                 /\ InnerPoints(q)[(i - 1) * q.ncp + k] = <<i, k>>
  <1>1. q.ne \in Nat /\ q.ncp \in Nat /\ 1 <= q.ncp /\ 1 \in Nat
    <2>1. q.ne \in Nat /\ q.ncp \in Nat \ {0}
      BY ProblemsAssumption
    <2> QED
      BY <2>1
  <1>2. q.ncp - 1 + 1 = q.ncp
    BY <1>1
  <1>3. ArePoints(InnerPoints(q), q.ne, 1, q.ncp, q.ncp)
    BY <1>1, <1>2, ElementPointsAre DEF InnerPoints
  <1>4. ASSUME NEW i \in 1..q.ne, NEW k \in 1..q.ncp
        PROVE  (i - 1) * q.ncp + (k - 1) + 1 = (i - 1) * q.ncp + k
    <2>1. (i - 1) * q.ncp \in Int
      BY <1>1
    <2> QED
      BY <2>1
  <1> QED
    BY <1>3, <1>4 DEF ArePoints

StatePoints(q) == ElementPoints(q, 0, LastPoint(q))

LEMMA StatePointsAre ==
    ASSUME NEW q \in Problems
    PROVE  /\ LastPoint(q) \in Nat \ {0}
           /\ StatePoints(q) \in Seq(Points)
           /\ StatePoints(q) \in Seq((1..q.ne) \X (0..LastPoint(q)))
           /\ Len(StatePoints(q)) = q.ne * (LastPoint(q) + 1)
           /\ \A i \in 1..q.ne : \A k \in 0..LastPoint(q) :
                 /\ (i - 1) * (LastPoint(q) + 1) + k + 1 \in 1..Len(StatePoints(q))
                 /\ StatePoints(q)[(i - 1) * (LastPoint(q) + 1) + k + 1] = <<i, k>>
  <1>1. q.ne \in Nat /\ q.ncp \in Nat \ {0}
    BY ProblemsAssumption
  <1>2. LastPoint(q) \in Nat \ {0} /\ 0 \in Nat /\ 0 <= LastPoint(q)
    BY <1>1 DEF LastPoint
  <1> DEFINE L == LastPoint(q)
  <1>3. L - 0 + 1 = L + 1 /\ \A k \in 0..L : k - 0 = k
    BY <1>2
  <1>4. ArePoints(StatePoints(q), q.ne, 0, L, L + 1)
    <2> HIDE DEF L
    <2>1. L \in Nat
      BY <1>2 DEF L
    <2>2. ArePoints(ElementPoints(q, 0, L), q.ne, 0, L, L + 1)
      BY <1>1, <1>2, <1>3, <2>1, ElementPointsAre
    <2> QED
      BY <2>2 DEF StatePoints, L
  <1> HIDE DEF L
  <1> QED
    BY <1>2, <1>3, <1>4 DEF ArePoints, L

BlockedPart(q) == FlattenSeq([b \in DOMAIN q.bf |-> BlockedEntries(q, b)])
InputPart(q) ==
    Grid("u", Free(q), InnerPoints(q))
    \o (IF q.blocked THEN BlockedPart(q) \o AtPoint("u", Free(q), <<1, 0>>) ELSE << >>)
EndEntries(q, pt) ==
    AtPoint("dx", Seq1(q.nx), pt) \o AtPoint("w", Seq1(q.nw), pt)
    \o (IF q.blocked THEN << >> ELSE AtPoint("u", Free(q), pt))
EndPart(q) == FlattenSeq([e \in DOMAIN Ends(q) |-> EndEntries(q, Ends(q)[e])])
MeshPart(q) == IF q.free THEN [i \in 1..q.ne |-> <<"h", 1, <<i, -1>>>>] ELSE << >>

LEMMA GroupsAre ==
    ASSUME NEW q
    PROVE  Groups(q) = << Grid("x", Seq1(q.nx), StatePoints(q)),
                          Grid("dx", Seq1(q.nx), InnerPoints(q)),
                          Grid("w", Seq1(q.nw), InnerPoints(q)),
                          InputPart(q), EndPart(q),
                          AtPoint("p", Seq1(q.npopt), NoPoint), MeshPart(q) >>
  BY DEF Groups, StatePoints, InnerPoints, InputPart, BlockedPart, EndEntries, EndPart, MeshPart

FactorLengths(q) == [b \in DOMAIN q.bf |-> Len(q.bf[b][2])]

LEMMA FactorsAre ==
    ASSUME NEW q \in Problems, NEW b \in DOMAIN q.bf
    PROVE  /\ q.bf[b][1] \in 1..q.nu /\ q.bf[b][2] \in Seq(Nat \ {0})
           /\ q.bf[b][2] \in Seq(Int) /\ Len(q.bf[b][2]) \in Nat
           /\ \A f \in DOMAIN q.bf[b][2] : FirstElement(q.bf[b][2], f) \in Int
  <1>1. q.bf \in Seq((1..q.nu) \X Seq(Nat \ {0}))
    BY ProblemsAssumption
  <1>2. q.bf[b] \in (1..q.nu) \X Seq(Nat \ {0})
    BY <1>1
  <1>3. ASSUME NEW fs \in Seq(Nat \ {0})
        PROVE  /\ fs \in Seq(Int) /\ Len(fs) \in Nat
               /\ \A f \in DOMAIN fs : SubSeq(fs, 1, f - 1) \in Seq(Int)
    OBVIOUS
  <1>4. ASSUME NEW fs \in Seq(Nat \ {0}), NEW f \in DOMAIN fs PROVE FirstElement(fs, f) \in Int
    <2>1. Total(SubSeq(fs, 1, f - 1)) \in Int
      BY <1>3, TotalType
    <2> QED
      BY <2>1 DEF FirstElement
  <1> QED
    BY <1>2, <1>3, <1>4

LEMMA BlockedEntriesAre ==
    ASSUME NEW q \in Problems, NEW b \in DOMAIN q.bf
    PROVE  /\ BlockedEntries(q, b) \in Seq(Entries) /\ Len(BlockedEntries(q, b)) = Len(q.bf[b][2])
           /\ \A f \in 1..Len(q.bf[b][2]) :
                 BlockedEntries(q, b)[f] = <<"u", q.bf[b][1], <<FirstElement(q.bf[b][2], f), -1>>>>
  <1> DEFINE fs == q.bf[b][2]
             e(f) == <<"u", q.bf[b][1], <<FirstElement(fs, f), -1>>>>
             a == BlockedEntries(q, b)
  <1>1. DOMAIN fs = 1..Len(fs) /\ Len(fs) \in Nat /\ q.bf[b][1] \in Int
    BY FactorsAre
  <1>2. a = [f \in 1..Len(fs) |-> e(f)]
    BY <1>1 DEF BlockedEntries
  <1>3. ASSUME NEW f \in 1..Len(fs) PROVE e(f) \in Entries
    <2>1. FirstElement(fs, f) \in Int
      BY <1>1, FactorsAre
    <2>2. <<FirstElement(fs, f), -1>> \in Points
      BY <2>1 DEF Points
    <2>3. <<FirstElement(fs, f), -1>> \in Points => e(f) \in Entries
      <3>1. "u" \in Kinds
        BY DEF Kinds
      <3> HIDE DEF fs
      <3> QED
        BY <1>1, <3>1, EntryType
    <2> QED
      BY <2>2, <2>3
  <1>4. \A f \in 1..Len(fs) : e(f) = <<"u", q.bf[b][1], <<FirstElement(fs, f), -1>>>>
    OBVIOUS
  <1> HIDE DEF e, a, fs
  <1>5. a \in Seq(Entries) /\ Len(a) = Len(fs) /\ \A f \in 1..Len(fs) : a[f] = e(f)
    BY <1>1, <1>2, <1>3
  <1> QED
    BY <1>4, <1>5 DEF a, fs

LEMMA BlockedPartIs ==
    ASSUME NEW q \in Problems, NEW k, Sums(k, FactorLengths(q))
    PROVE  /\ BlockedPart(q) \in Seq(Entries)
           /\ Joined(BlockedPart(q), [b \in DOMAIN q.bf |-> BlockedEntries(q, b)], k, Len(q.bf))
           /\ k[Len(q.bf)] = FactorCount(q) /\ FactorCount(q) \in Nat
           /\ Len(BlockedPart(q)) = FactorCount(q)
           /\ \A n \in 0..Len(q.bf) : k[n] \in Nat
  <1> DEFINE ss == [b \in DOMAIN q.bf |-> BlockedEntries(q, b)]
             N == Len(q.bf)
  <1>1. DOMAIN q.bf = 1..N /\ N \in Nat
    BY ProblemsAssumption
  <1>2. ss \in Seq(Seq(Entries)) /\ Len(ss) = N
    <2>1. \A b \in 1..N : BlockedEntries(q, b) \in Seq(Entries)
      BY <1>1, BlockedEntriesAre
    <2>2. ss = [b \in 1..N |-> BlockedEntries(q, b)]
      BY <1>1
    <2> HIDE DEF ss, N
    <2> QED
      BY <1>1, <2>1, <2>2
  <1>3. Lengths(ss) = FactorLengths(q)
    BY BlockedEntriesAre DEF Lengths, FactorLengths
  <1>4. FactorLengths(q) \in Seq(Nat) /\ FactorLengths(q) \in Seq(Int) /\ Len(FactorLengths(q)) = N
    <2>1. Lengths(ss) \in Seq(Nat) /\ Len(Lengths(ss)) = Len(ss)
      BY <1>2, LengthsType
    <2>2. \A s : s \in Seq(Nat) => s \in Seq(Int)
      OBVIOUS
    <2> QED
      BY <1>2, <1>3, <2>1, <2>2
  <1> HIDE DEF ss, N
  <1>5. FlattenSeq(ss) \in Seq(Entries) /\ Joined(FlattenSeq(ss), ss, k, N)
    BY <1>2, <1>3, FlattenJoins
  <1>6. FactorCount(q) = k[N]
    BY <1>1, <1>4, TotalIs DEF FactorCount, FactorLengths
  <1>7. \A n \in 0..N : k[n] \in Nat
    BY <1>4, SumsAreNumbers
  <1>8. N \in 0..N
    BY <1>1
  <1>9. Len(FlattenSeq(ss)) = k[N]
    BY <1>5 DEF Joined
  <1> QED
    BY <1>5, <1>6, <1>7, <1>8, <1>9 DEF BlockedPart, ss, N

LEMMA FactorSumsExist ==
    ASSUME NEW q \in Problems
    PROVE  \E k : Sums(k, FactorLengths(q))
  <1>1. DOMAIN q.bf = 1..Len(q.bf) /\ Len(q.bf) \in Nat
    BY ProblemsAssumption
  <1>2. Len(FactorLengths(q)) \in Nat
    BY <1>1 DEF FactorLengths
  <1> QED
    BY <1>2, SumsExist

LEMMA TwoJoined ==
    ASSUME NEW S, NEW a \in Seq(S), NEW b \in Seq(S)
    PROVE  /\ a \o b \in Seq(S) /\ Len(a \o b) = Len(a) + Len(b)
           /\ \A r \in 1..Len(a) : (a \o b)[r] = a[r]
           /\ \A r \in 1..Len(b) : (a \o b)[Len(a) + r] = b[r]
  OBVIOUS

\* Three sequences in a row.
Row(all, a, b, c) ==
    /\ Len(all) = Len(a) + Len(b) + Len(c)
    /\ \A r \in 1..Len(a) : r \in 1..Len(all) /\ all[r] = a[r]
    /\ \A r \in 1..Len(b) : Len(a) + r \in 1..Len(all) /\ all[Len(a) + r] = b[r]
    /\ \A r \in 1..Len(c) : /\ Len(a) + Len(b) + r \in 1..Len(all)
                            /\ all[Len(a) + Len(b) + r] = c[r]

LEMMA ThreeJoined ==
    ASSUME NEW S, NEW a \in Seq(S), NEW b \in Seq(S), NEW c \in Seq(S)
    PROVE  a \o b \o c \in Seq(S) /\ Row(a \o b \o c, a, b, c)
  <1> DEFINE ab == a \o b
  <1>0. Len(a) \in Nat /\ Len(b) \in Nat /\ Len(c) \in Nat
    OBVIOUS
  <1>1. /\ ab \in Seq(S) /\ Len(ab) = Len(a) + Len(b)
        /\ \A r \in 1..Len(a) : ab[r] = a[r]
        /\ \A r \in 1..Len(b) : ab[Len(a) + r] = b[r]
    BY TwoJoined
  <1> HIDE DEF ab
  <1> DEFINE all == ab \o c
  <1>2. /\ all \in Seq(S) /\ Len(all) = Len(ab) + Len(c)
        /\ \A r \in 1..Len(ab) : all[r] = ab[r]
        /\ \A r \in 1..Len(c) : all[Len(ab) + r] = c[r]
    <2>1. ab \in Seq(S)
      BY <1>1
    <2> QED
      BY <2>1, TwoJoined
  <1> HIDE DEF all
  <1>3. \A r \in 1..Len(a) : r \in 1..Len(all) /\ r \in 1..Len(ab) /\ all[r] = a[r]
    BY <1>0, <1>1, <1>2
  <1>4. \A r \in 1..Len(b) : Len(a) + r \in 1..Len(all) /\ Len(a) + r \in 1..Len(ab)
    BY <1>0, <1>1, <1>2
  <1>5. \A r \in 1..Len(b) : all[Len(a) + r] = b[r]
    BY <1>1, <1>2, <1>4
  <1>6. \A r \in 1..Len(c) : Len(a) + Len(b) + r \in 1..Len(all) /\ all[Len(a) + Len(b) + r] = c[r]
    BY <1>0, <1>1, <1>2
  <1>7. Row(all, a, b, c)
    BY <1>1, <1>2, <1>3, <1>4, <1>5, <1>6 DEF Row
  <1> QED
    BY <1>2, <1>7 DEF all, ab

LEMMA NothingIsSeq == \A S : << >> \in Seq(S) /\ Len(<< >>) = 0
  OBVIOUS

LEMMA InputPartIs ==
    ASSUME NEW q \in Problems
    PROVE  LET nf == Len(Free(q))
               n  == q.ne * q.ncp * nf
           IN  /\ InputPart(q) \in Seq(Entries)
               /\ Len(InputPart(q)) = IF q.blocked THEN n + FactorCount(q) + nf ELSE n
               /\ \A r \in 1..n : InputPart(q)[r] = Grid("u", Free(q), InnerPoints(q))[r]
               /\ q.blocked => \A r \in 1..FactorCount(q) : InputPart(q)[n + r] = BlockedPart(q)[r]
               /\ q.blocked => \A r \in 1..nf :
                     InputPart(q)[n + FactorCount(q) + r] = <<"u", Free(q)[r], <<1, 0>>>>
  <1> DEFINE nf == Len(Free(q))  n == q.ne * q.ncp * nf  g == Grid("u", Free(q), InnerPoints(q))
             fc == FactorCount(q)  bp == BlockedPart(q)  at == AtPoint("u", Free(q), <<1, 0>>)
  <1>0. q.nu \in Nat /\ q.ne \in Nat /\ q.ncp \in Nat /\ q.blocked \in BOOLEAN
    BY ProblemsAssumption
  <1>1. Free(q) \in Seq(Int) /\ nf \in Nat
    BY <1>0, FreeIs
  <1>2. InnerPoints(q) \in Seq(Points) /\ Len(InnerPoints(q)) = q.ne * q.ncp
    BY InnerPointsAre
  <1>3. "u" \in Kinds /\ <<1, 0>> \in Points
    BY DEF Kinds, Points
  <1>4. g \in Seq(Entries) /\ Len(g) = n
    BY <1>1, <1>2, <1>3, GridIs DEF IsGrid
  <1>5. /\ at \in Seq(Entries) /\ Len(at) = nf
        /\ \A r \in 1..nf : at[r] = <<"u", Free(q)[r], <<1, 0>>>>
    BY <1>1, <1>3, AtPointIs
  <1>6. bp \in Seq(Entries) /\ Len(bp) = fc
    <2>1. PICK k : Sums(k, FactorLengths(q))
      BY FactorSumsExist
    <2> QED
      BY <2>1, BlockedPartIs
  <1> HIDE DEF g, at, bp, fc, n, nf
  <1>7. g \o (bp \o at) = g \o bp \o at
    BY <1>4, <1>5, <1>6
  <1>8. CASE q.blocked
    <2>1. InputPart(q) = g \o bp \o at
      BY <1>7, <1>8 DEF InputPart, g, bp, at
    <2>2. /\ InputPart(q) \in Seq(Entries) /\ Len(InputPart(q)) = n + fc + nf
          /\ \A r \in 1..n : InputPart(q)[r] = g[r]
          /\ \A r \in 1..fc : InputPart(q)[n + r] = bp[r]
          /\ \A r \in 1..nf : InputPart(q)[n + fc + r] = at[r]
        <3>1. InputPart(q) \in Seq(Entries) /\ Row(InputPart(q), g, bp, at)
        BY <1>4, <1>5, <1>6, <2>1, ThreeJoined
      <3> QED
        BY <1>4, <1>5, <1>6, <3>1 DEF Row
    <2> QED
      BY <1>5, <1>8, <2>2 DEF g, bp, fc, n, nf
  <1>9. CASE ~ q.blocked
    <2>1. InputPart(q) = g \o << >> /\ g \o << >> = g
      BY <1>4, <1>9 DEF InputPart, g
    <2> QED
      BY <1>4, <1>9, <2>1 DEF g, n, nf
  <1> QED
    BY <1>8, <1>9

\* The variables at an end of the horizon.
PointSize(q) == q.nx + q.nw + (IF q.blocked THEN 0 ELSE q.nu)

LEMMA EndEntriesAre ==
    ASSUME NEW q \in Problems, NEW pt \in Points
    PROVE  LET e == EndEntries(q, pt)
           IN  /\ e \in Seq(Entries) /\ Len(e) = PointSize(q)
               /\ \A r \in 1..q.nx : e[r] = <<"dx", r, pt>>
               /\ \A r \in 1..q.nw : e[q.nx + r] = <<"w", r, pt>>
               /\ q.blocked = FALSE => \A r \in 1..q.nu : e[q.nx + q.nw + r] = <<"u", r, pt>>
  <1> DEFINE a == AtPoint("dx", Seq1(q.nx), pt)  b == AtPoint("w", Seq1(q.nw), pt)
             c == IF q.blocked THEN << >> ELSE AtPoint("u", Free(q), pt)
  <1>0. q.nu \in Nat /\ q.nx \in Nat /\ q.nw \in Nat /\ q.blocked \in BOOLEAN
    BY ProblemsAssumption
  <1>1. "u" \in Kinds /\ "dx" \in Kinds /\ "w" \in Kinds
    BY DEF Kinds
  <1>2. a \in Seq(Entries) /\ Len(a) = q.nx /\ \A r \in 1..q.nx : a[r] = <<"dx", r, pt>>
    <2>1. Seq1(q.nx) \in Seq(Int) /\ Len(Seq1(q.nx)) = q.nx /\ \A r \in 1..q.nx : Seq1(q.nx)[r] = r
      BY <1>0, Seq1Is
    <2> QED
      BY <1>1, <2>1, AtPointIs
  <1>3. b \in Seq(Entries) /\ Len(b) = q.nw /\ \A r \in 1..q.nw : b[r] = <<"w", r, pt>>
    <2>1. Seq1(q.nw) \in Seq(Int) /\ Len(Seq1(q.nw)) = q.nw /\ \A r \in 1..q.nw : Seq1(q.nw)[r] = r
      BY <1>0, Seq1Is
    <2> QED
      BY <1>1, <2>1, AtPointIs
  <1>4. /\ c \in Seq(Entries) /\ Len(c) = IF q.blocked THEN 0 ELSE q.nu
        /\ q.blocked = FALSE => \A r \in 1..q.nu : c[r] = <<"u", r, pt>>
    <2>1. CASE q.blocked = TRUE
      BY <2>1, NothingIsSeq
    <2>2. CASE q.blocked = FALSE
      <3>1. Seq1(q.nu) \in Seq(Int) /\ Len(Seq1(q.nu)) = q.nu
            /\ \A r \in 1..q.nu : Seq1(q.nu)[r] = r
        BY <1>0, Seq1Is
      <3>2. Free(q) = Seq1(q.nu)
        BY <1>0, <2>2, FreeIs
      <3>3. c = AtPoint("u", Seq1(q.nu), pt)
        BY <2>2, <3>2
      <3>4. c \in Seq(Entries) /\ Len(c) = q.nu /\ \A r \in 1..q.nu : c[r] = <<"u", r, pt>>
        BY <1>1, <3>1, <3>3, AtPointIs
      <3> QED
        BY <2>2, <3>4
    <2> QED
      BY <1>0, <2>1, <2>2
  <1>5. EndEntries(q, pt) = a \o b \o c
    BY DEF EndEntries
  <1> HIDE DEF a, b, c
  <1> DEFINE e == a \o b \o c
  <1>6. /\ e \in Seq(Entries) /\ Len(e) = Len(a) + Len(b) + Len(c)
        /\ \A r \in 1..Len(a) : e[r] = a[r]
        /\ \A r \in 1..Len(b) : e[Len(a) + r] = b[r]
        /\ \A r \in 1..Len(c) : e[Len(a) + Len(b) + r] = c[r]
    <2>1. a \in Seq(Entries) /\ b \in Seq(Entries) /\ c \in Seq(Entries)
      BY <1>2, <1>3, <1>4
    <2>2. e \in Seq(Entries) /\ Row(e, a, b, c)
      BY <2>1, ThreeJoined
    <2> HIDE DEF e
    <2> QED
      BY <2>2 DEF Row
  <1> HIDE DEF e
  <1>7. Len(e) = PointSize(q)
    BY <1>2, <1>3, <1>4, <1>6 DEF PointSize
  <1>8. EndEntries(q, pt) = e
    BY <1>5 DEF e
  <1> QED
    BY <1>2, <1>3, <1>4, <1>6, <1>7, <1>8

LEMMA EndPartIs ==
    ASSUME NEW q \in Problems
    PROVE  /\ PointSize(q) \in Nat
           /\ EndPart(q) \in Seq(Entries)
           /\ Len(EndPart(q)) = (IF q.gauss THEN 2 ELSE 1) * PointSize(q)
           /\ \A r \in 1..PointSize(q) : EndPart(q)[r] = EndEntries(q, <<1, 0>>)[r]
           /\ q.gauss => \A r \in 1..PointSize(q) :
                 EndPart(q)[PointSize(q) + r] = EndEntries(q, <<q.ne, q.ncp + 1>>)[r]
  <1> DEFINE c == PointSize(q)  ss == [e \in DOMAIN Ends(q) |-> EndEntries(q, Ends(q)[e])]
             n == IF q.gauss THEN 2 ELSE 1
  <1>0. /\ q.nu \in Nat /\ q.nx \in Nat /\ q.nw \in Nat /\ q.gauss \in BOOLEAN
        /\ q.blocked \in BOOLEAN /\ q.ne \in Nat /\ q.ncp \in Nat
    BY ProblemsAssumption
  <1>1. c \in Nat
    BY <1>0 DEF PointSize
  <1>2. <<1, 0>> \in Points /\ <<q.ne, q.ncp + 1>> \in Points
    BY <1>0 DEF Points
  <1>3. /\ DOMAIN Ends(q) = 1..n /\ Ends(q)[1] = <<1, 0>>
        /\ q.gauss => Ends(q)[2] = <<q.ne, q.ncp + 1>>
    <2>1. CASE q.gauss = TRUE
      <3>1. Ends(q) = << <<1, 0>>, <<q.ne, q.ncp + 1>> >> /\ n = 2
        BY <2>1 DEF Ends
      <3>2. DOMAIN << <<1, 0>>, <<q.ne, q.ncp + 1>> >> = 1..2
        OBVIOUS
      <3> HIDE DEF n
      <3> QED
        BY <3>1, <3>2
    <2>2. CASE q.gauss = FALSE
      <3>1. Ends(q) = << <<1, 0>> >> /\ n = 1
        BY <2>2 DEF Ends
      <3>2. DOMAIN << <<1, 0>> >> = 1..1
        OBVIOUS
      <3> HIDE DEF n
      <3> QED
        BY <2>2, <3>1, <3>2
    <2> QED
      BY <1>0, <2>1, <2>2
  <1>4. \A e \in 1..n : Ends(q)[e] \in Points
    BY <1>0, <1>2, <1>3
  <1>5. ss \in Seq(Seq(Entries)) /\ Len(ss) = n /\ \A e \in 1..Len(ss) : Len(ss[e]) = c
    <2>1. \A e \in 1..n : EndEntries(q, Ends(q)[e]) \in Seq(Entries)
                          /\ Len(EndEntries(q, Ends(q)[e])) = c
      BY <1>4, EndEntriesAre
    <2>2. ss = [e \in 1..n |-> EndEntries(q, Ends(q)[e])] /\ n \in Nat
      BY <1>3
    <2> HIDE DEF ss, n, c
    <2> QED
      BY <2>1, <2>2
  <1>6. /\ EndPart(q) \in Seq(Entries) /\ Len(EndPart(q)) = n * c
        /\ \A e \in 1..n : \A r \in 1..c : EndPart(q)[(e - 1) * c + r] = ss[e][r]
    <2>1. EndPart(q) = FlattenSeq(ss)
      BY DEF EndPart
    <2> HIDE DEF ss, n, c
    <2>2. /\ FlattenSeq(ss) \in Seq(Entries) /\ Len(FlattenSeq(ss)) = Len(ss) * c
          /\ \A e \in 1..Len(ss) : \A r \in 1..c :
                /\ (e - 1) * c + r \in 1..Len(FlattenSeq(ss))
                /\ FlattenSeq(ss)[(e - 1) * c + r] = ss[e][r]
      BY <1>1, <1>5, FlattenSame
    <2> QED
      BY <1>5, <2>1, <2>2
  <1>7. ss[1] = EndEntries(q, <<1, 0>>) /\ (q.gauss => ss[2] = EndEntries(q, <<q.ne, q.ncp + 1>>))
    BY <1>3
  <1>8. (1 - 1) * c = 0 /\ (2 - 1) * c = c
    BY <1>1
  <1> HIDE DEF c, ss
  <1>9. \A r \in 1..c : EndPart(q)[r] = ss[1][r]
    <2>1. 1 \in 1..n /\ \A r \in 1..c : (1 - 1) * c + r = r
      BY <1>1, <1>8
    <2> QED
      BY <1>6, <2>1
  <1>10. q.gauss => \A r \in 1..c : EndPart(q)[c + r] = ss[2][r]
    <2>1. q.gauss => 2 \in 1..n
      OBVIOUS
    <2> HIDE DEF n
    <2> QED
      BY <1>6, <1>8, <2>1
  <1> QED
    BY <1>1, <1>6, <1>7, <1>9, <1>10 DEF c

-----------------------------------------------------------------------------
(* The layout.                                                             *)

LEMMA Products ==
    ASSUME NEW a \in Nat, NEW b \in Nat, NEW c \in Nat
    PROVE  /\ a * b \in Nat /\ a * b * c \in Nat /\ a * b = b * a
           /\ a * b * c = c * b * a /\ (1 + a * b) * c = a * b * c + c
           /\ a * b * c = b * a * c /\ a * b * c = a * (b * c)
  OBVIOUS

LEMMA SplitSizesType ==
    ASSUME NEW q \in Problems
    PROVE  SplitSizes(q) \in Seq(Nat) /\ SplitSizes(q) \in Seq(Int) /\ Len(SplitSizes(q)) = 7
  <1>0. /\ q.nu \in Nat /\ q.nx \in Nat /\ q.nw \in Nat /\ q.npopt \in Nat /\ q.gauss \in BOOLEAN
        /\ q.blocked \in BOOLEAN /\ q.free \in BOOLEAN /\ q.ne \in Nat /\ q.ncp \in Nat
    BY ProblemsAssumption
  <1>1. LastPoint(q) \in Nat /\ LastPoint(q) + 1 \in Nat /\ Len(Free(q)) \in Nat
        /\ 1 + q.ne * q.ncp \in Nat
    <2>1. LastPoint(q) \in Nat \ {0}
      BY StatePointsAre
    <2>2. Len(Free(q)) \in Nat
      BY <1>0, FreeIs
    <2>3. q.ne * q.ncp \in Nat
      BY <1>0
    <2> QED
      BY <2>1, <2>2, <2>3
  <1>2. FactorCount(q) \in Nat
    <2>1. PICK k : Sums(k, FactorLengths(q))
      BY FactorSumsExist
    <2> QED
      BY <2>1, BlockedPartIs
  <1> DEFINE atPoint == q.nx + q.nw + (IF q.blocked THEN 0 ELSE q.nu)
             s1 == q.nx * (LastPoint(q) + 1) * q.ne
             s2 == q.nx * q.ncp * q.ne
             s3 == q.nw * q.ncp * q.ne
             s4 == IF q.blocked THEN (1 + q.ne * q.ncp) * Len(Free(q)) + FactorCount(q)
                   ELSE q.nu * q.ncp * q.ne
             s5 == IF q.gauss THEN 2 * atPoint ELSE atPoint
             s7 == IF q.free THEN q.ne ELSE 0
  <1>3. s1 \in Nat /\ s2 \in Nat /\ s3 \in Nat
    BY <1>0, <1>1, Products
  <1>4. s4 \in Nat
    <2>1. (1 + q.ne * q.ncp) * Len(Free(q)) \in Nat /\ q.nu * q.ncp * q.ne \in Nat
      BY <1>0, <1>1, Products
    <2> QED
      BY <1>2, <2>1
  <1>5. s5 \in Nat /\ s7 \in Nat /\ q.npopt \in Nat
    BY <1>0
  <1>6. SplitSizes(q) = <<s1, s2, s3, s4, s5, q.npopt, s7>>
    BY DEF SplitSizes
  <1> HIDE DEF s1, s2, s3, s4, s5, s7
  <1> QED
    BY <1>3, <1>4, <1>5, <1>6

LEMMA ElementsAre ==
    ASSUME NEW S, NEW t \in Seq(S), NEW n \in 1..Len(t)
    PROVE  t[n] \in S
  OBVIOUS

LEMMA SplitIndicesAre ==
    ASSUME NEW q \in Problems
    PROVE  /\ SplitIndices(q)[1] = 0 /\ \A g \in 1..8 : SplitIndices(q)[g] \in Nat
           /\ \A g \in 1..7 : SplitIndices(q)[g + 1] = SplitIndices(q)[g] + SplitSizes(q)[g]
           /\ SplitIndices(q)[8] = Total(SplitSizes(q))
           /\ Sums([n \in 0..7 |-> SplitIndices(q)[n + 1]], SplitSizes(q))
           /\ SplitIndices(q) \in [1..8 -> 0..SplitIndices(q)[8]]
  <1> DEFINE s == SplitSizes(q)  si == SplitIndices(q)
  <1>1. s \in Seq(Nat) /\ s \in Seq(Int) /\ Len(s) = 7
    BY SplitSizesType
  <1>2. PICK f : Sums(f, s) /\ Total(s) = f[7]
    <2>1. Len(s) \in Nat /\ Len(s) = 7
      BY <1>1
    <2> HIDE DEF s
    <2> QED
      BY <2>1, SumsExist
  <1>3. \A n \in 0..7 : f[n] \in Nat
    BY <1>1, <1>2, SumsAreNumbers
  <1>4. ASSUME NEW g \in 1..8 PROVE si[g] = f[g - 1]
    <2>1. g - 1 \in 0..Len(s)
      BY <1>1
    <2>2. Total(SubSeq(s, 1, g - 1)) = f[g - 1]
      BY <1>1, <1>2, <2>1, TotalOfFirst, ZenonT(40)
    <2> QED
      BY <2>2 DEF SplitIndices
  <1>5. DOMAIN si = 1..8 /\ si = [g \in 1..8 |-> si[g]]
    BY DEF SplitIndices
  <1> HIDE DEF s, si
  <1>6. \A n \in 0..7 : n + 1 \in 1..8 /\ (n + 1) - 1 = n
    OBVIOUS
  <1>7. \A n \in 1..7 : f[n] = f[n - 1] + s[n] /\ s[n] \in Nat /\ n - 1 \in 0..7 /\ n \in 1..8
    <2>1. \A n \in 1..7 : n - 1 \in 0..7 /\ n \in 1..8 /\ n \in 1..Len(s)
      BY <1>1
    <2>2. \A n \in 1..7 : s[n] \in Nat
      BY <1>1, <2>1, ElementsAre
    <2>3. \A n \in 1..7 : f[n] = f[n - 1] + s[n]
      BY <1>2, <2>1 DEF Sums
    <2> QED
      BY <2>1, <2>2, <2>3
  <1>8. f[0] = 0
    BY <1>2 DEF Sums
  <1>9. \A n \in 0..7 : si[n + 1] = f[n]
    BY <1>4, <1>6
  <1>10. \A g \in 1..7 : si[g + 1] = si[g] + s[g]
    BY <1>4, <1>7, <1>9
  <1>11. \A g \in 1..8 : si[g] \in Nat
    BY <1>3, <1>4
  <1>12. si[1] = 0 /\ si[8] = f[7]
    BY <1>4, <1>8
  <1>13. Sums([n \in 0..7 |-> si[n + 1]], s)
    <2> DEFINE k == [n \in 0..7 |-> si[n + 1]]
    <2>1. \A n \in 0..7 : k[n] = f[n]
      BY <1>9
    <2> HIDE DEF k
    <2>2. k[0] = 0
      BY <1>8, <2>1
    <2>3. \A n \in 1..7 : k[n] = k[n - 1] + s[n]
      BY <1>7, <2>1
    <2>4. Sums(k, s)
      BY <1>1, <2>2, <2>3 DEF Sums
    <2> QED
      BY <2>4 DEF k
  <1>14. ASSUME NEW g \in 1..8 PROVE si[g] <= si[8]
    <2>1. /\ si[1] <= si[2] /\ si[2] <= si[3] /\ si[3] <= si[4] /\ si[4] <= si[5]
          /\ si[5] <= si[6] /\ si[6] <= si[7] /\ si[7] <= si[8]
      <3>1. \A n \in 1..7 : si[n] <= si[n + 1]
        BY <1>7, <1>10, <1>11
      <3> QED
        BY <3>1
    <2>2. g = 1 \/ g = 2 \/ g = 3 \/ g = 4 \/ g = 5 \/ g = 6 \/ g = 7 \/ g = 8
      OBVIOUS
    <2>3. /\ si[1] \in Nat /\ si[2] \in Nat /\ si[3] \in Nat /\ si[4] \in Nat
          /\ si[5] \in Nat /\ si[6] \in Nat /\ si[7] \in Nat /\ si[8] \in Nat
      BY <1>11
    <2> QED
      BY <2>1, <2>2, <2>3
  <1>15. si \in [1..8 -> 0..si[8]]
    BY <1>5, <1>11, <1>14
  <1> QED
    BY <1>2, <1>10, <1>11, <1>12, <1>13, <1>15 DEF s, si

LEMMA GroupSizes ==
    ASSUME NEW q \in Problems
    PROVE  /\ Groups(q) \in Seq(Seq(Entries)) /\ Len(Groups(q)) = 7
           /\ Lengths(Groups(q)) = SplitSizes(q)
           /\ \A g \in 1..7 : Len(Groups(q)[g]) = SplitSizes(q)[g]
  <1>0. /\ q.nu \in Nat /\ q.nx \in Nat /\ q.nw \in Nat /\ q.npopt \in Nat /\ q.gauss \in BOOLEAN
        /\ q.blocked \in BOOLEAN /\ q.free \in BOOLEAN /\ q.ne \in Nat /\ q.ncp \in Nat
    BY ProblemsAssumption
  <1>1. /\ LastPoint(q) + 1 \in Nat /\ StatePoints(q) \in Seq(Points)
        /\ Len(StatePoints(q)) = q.ne * (LastPoint(q) + 1)
        /\ InnerPoints(q) \in Seq(Points) /\ Len(InnerPoints(q)) = q.ne * q.ncp
    <2>1. /\ LastPoint(q) \in Nat \ {0} /\ StatePoints(q) \in Seq(Points)
          /\ Len(StatePoints(q)) = q.ne * (LastPoint(q) + 1)
      BY StatePointsAre
    <2>2. InnerPoints(q) \in Seq(Points) /\ Len(InnerPoints(q)) = q.ne * q.ncp
      BY InnerPointsAre
    <2> QED
      BY <2>1, <2>2
  <1>2. Len(Free(q)) \in Nat /\ (q.blocked = FALSE => Len(Free(q)) = q.nu)
    BY <1>0, FreeIs
  <1>3. /\ Seq1(q.nx) \in Seq(Int) /\ Len(Seq1(q.nx)) = q.nx
        /\ Seq1(q.nw) \in Seq(Int) /\ Len(Seq1(q.nw)) = q.nw
        /\ Seq1(q.npopt) \in Seq(Int) /\ Len(Seq1(q.npopt)) = q.npopt
    BY <1>0, Seq1Is
  <1>4. "x" \in Kinds /\ "dx" \in Kinds /\ "w" \in Kinds /\ "p" \in Kinds /\ "h" \in Kinds
    BY DEF Kinds
  <1>5. NoPoint \in Points /\ \A i \in 1..q.ne : <<i, -1>> \in Points
    BY <1>0 DEF NoPoint, Points
  <1> DEFINE g1 == Grid("x", Seq1(q.nx), StatePoints(q))
             g2 == Grid("dx", Seq1(q.nx), InnerPoints(q))
             g3 == Grid("w", Seq1(q.nw), InnerPoints(q))
             g4 == InputPart(q)
             g5 == EndPart(q)
             g6 == AtPoint("p", Seq1(q.npopt), NoPoint)
             g7 == MeshPart(q)
             s == SplitSizes(q)
  <1>11. g1 \in Seq(Entries) /\ Len(g1) = s[1]
    <2>1. g1 \in Seq(Entries) /\ Len(g1) = q.ne * (LastPoint(q) + 1) * q.nx
      <3>1. IsGrid(g1, "x", Seq1(q.nx), StatePoints(q))
        BY <1>1, <1>3, <1>4, GridIs
      <3>2. Len(StatePoints(q)) = q.ne * (LastPoint(q) + 1) /\ Len(Seq1(q.nx)) = q.nx
        BY <1>1, <1>3
      <3> QED
        BY <3>1, <3>2 DEF IsGrid
    <2>2. s[1] = q.nx * (LastPoint(q) + 1) * q.ne
      BY DEF SplitSizes
    <2> QED
      BY <1>0, <1>1, <2>1, <2>2, Products
  <1>12. g2 \in Seq(Entries) /\ Len(g2) = s[2]
    <2>1. g2 \in Seq(Entries) /\ Len(g2) = q.ne * q.ncp * q.nx
      <3>1. IsGrid(g2, "dx", Seq1(q.nx), InnerPoints(q))
        BY <1>1, <1>3, <1>4, GridIs
      <3>2. Len(InnerPoints(q)) = q.ne * q.ncp /\ Len(Seq1(q.nx)) = q.nx
        BY <1>1, <1>3
      <3> QED
        BY <3>1, <3>2 DEF IsGrid
    <2>2. s[2] = q.nx * q.ncp * q.ne
      BY DEF SplitSizes
    <2> QED
      BY <1>0, <2>1, <2>2, Products
  <1>13. g3 \in Seq(Entries) /\ Len(g3) = s[3]
    <2>1. g3 \in Seq(Entries) /\ Len(g3) = q.ne * q.ncp * q.nw
      <3>1. IsGrid(g3, "w", Seq1(q.nw), InnerPoints(q))
        BY <1>1, <1>3, <1>4, GridIs
      <3>2. Len(InnerPoints(q)) = q.ne * q.ncp /\ Len(Seq1(q.nw)) = q.nw
        BY <1>1, <1>3
      <3> QED
        BY <3>1, <3>2 DEF IsGrid
    <2>2. s[3] = q.nw * q.ncp * q.ne
      BY DEF SplitSizes
    <2> QED
      BY <1>0, <2>1, <2>2, Products
  <1>14. g4 \in Seq(Entries) /\ Len(g4) = s[4]
    <2> DEFINE nf == Len(Free(q))  fc == FactorCount(q)
    <2>1. /\ g4 \in Seq(Entries)
          /\ Len(g4) = IF q.blocked THEN q.ne * q.ncp * nf + fc + nf ELSE q.ne * q.ncp * nf
      BY InputPartIs
    <2>2. s[4] = IF q.blocked THEN (1 + q.ne * q.ncp) * nf + fc ELSE q.nu * q.ncp * q.ne
      BY DEF SplitSizes
    <2>3. fc \in Nat
      <3>1. PICK k : Sums(k, FactorLengths(q))
        BY FactorSumsExist
      <3> QED
        BY <3>1, BlockedPartIs
    <2>4. (1 + q.ne * q.ncp) * nf = q.ne * q.ncp * nf + nf /\ q.ne * q.ncp * nf \in Nat
      BY <1>0, <1>2, Products
    <2>5. q.ne * q.ncp * q.nu = q.nu * q.ncp * q.ne
      BY <1>0, Products
    <2> HIDE DEF nf, fc, g4, s
    <2>6. CASE q.blocked = TRUE
      <3>1. nf \in Nat
        BY <1>2 DEF nf
      <3> QED
        BY <2>1, <2>2, <2>3, <2>4, <2>6, <3>1
    <2>7. CASE q.blocked = FALSE
      <3>1. nf = q.nu
        BY <1>2, <2>7 DEF nf
      <3> QED
        BY <2>1, <2>2, <2>5, <2>7, <3>1
    <2> QED
      BY <1>0, <2>6, <2>7
  <1>15. g5 \in Seq(Entries) /\ Len(g5) = s[5]
    <2>1. /\ g5 \in Seq(Entries) /\ PointSize(q) \in Nat
          /\ Len(g5) = (IF q.gauss THEN 2 ELSE 1) * PointSize(q)
      BY EndPartIs
    <2>2. s[5] = IF q.gauss THEN 2 * PointSize(q) ELSE PointSize(q)
      BY DEF SplitSizes, PointSize
    <2> HIDE DEF g5, s
    <2> QED
      BY <1>0, <2>1, <2>2
  <1>16. g6 \in Seq(Entries) /\ Len(g6) = s[6]
    <2>1. g6 \in Seq(Entries) /\ Len(g6) = q.npopt
      BY <1>3, <1>4, <1>5, AtPointIs
    <2> QED
      BY <2>1 DEF SplitSizes
  <1>17. g7 \in Seq(Entries) /\ Len(g7) = s[7]
    <2>1. s[7] = IF q.free THEN q.ne ELSE 0
      BY DEF SplitSizes
    <2>2. CASE q.free = FALSE
      BY <2>1, <2>2, NothingIsSeq DEF MeshPart
    <2>3. CASE q.free = TRUE
      <3> DEFINE e(i) == <<"h", 1, <<i, -1>>>>
      <3>1. \A i \in 1..q.ne : e(i) \in Entries
        BY <1>4, <1>5, EntryType
      <3>2. g7 = [i \in 1..q.ne |-> e(i)]
        BY <2>3 DEF MeshPart
      <3> HIDE DEF e, g7
      <3>3. g7 \in Seq(Entries) /\ Len(g7) = q.ne
        BY <1>0, <3>1, <3>2
      <3> QED
        BY <2>1, <2>3, <3>3
    <2> QED
      BY <1>0, <2>2, <2>3
  <1>2a. Groups(q) = <<g1, g2, g3, g4, g5, g6, g7>>
    BY GroupsAre
  <1>2b. Len(s) = 7 /\ DOMAIN s = 1..7 /\ s = [g \in 1..7 |-> s[g]]
    BY DEF SplitSizes
  <1> HIDE DEF g1, g2, g3, g4, g5, g6, g7, s
  <1>2c. Groups(q) \in Seq(Seq(Entries)) /\ Len(Groups(q)) = 7 /\ DOMAIN Groups(q) = 1..7
    BY <1>2a, <1>11, <1>12, <1>13, <1>14, <1>15, <1>16, <1>17
  <1>2d. ASSUME NEW g \in 1..7 PROVE Len(Groups(q)[g]) = s[g]
    <2>1. g = 1 \/ g = 2 \/ g = 3 \/ g = 4 \/ g = 5 \/ g = 6 \/ g = 7
      OBVIOUS
    <2>2. /\ Groups(q)[1] = g1 /\ Groups(q)[2] = g2 /\ Groups(q)[3] = g3 /\ Groups(q)[4] = g4
          /\ Groups(q)[5] = g5 /\ Groups(q)[6] = g6 /\ Groups(q)[7] = g7
      BY <1>2a
    <2> QED
      BY <1>11, <1>12, <1>13, <1>14, <1>15, <1>16, <1>17, <2>1, <2>2
  <1>2e. Lengths(Groups(q)) = s
    BY <1>2b, <1>2c, <1>2d DEF Lengths
  <1> QED
    BY <1>2c, <1>2d, <1>2e DEF s

\* Where the entries of each group are in xx.
LEMMA LayoutIs ==
    ASSUME NEW q \in Problems
    PROVE  LET si == SplitIndices(q)
           IN  /\ Layout(q) \in Seq(Entries) /\ Len(Layout(q)) = si[8]
               /\ \A g \in 1..7 : \A r \in 1..SplitSizes(q)[g] :
                     /\ si[g] + r \in 1..Len(Layout(q))
                     /\ Layout(q)[si[g] + r] = Groups(q)[g][r]
               /\ \A m \in 1..Len(Layout(q)) : \E g \in 1..7 : \E r \in 1..SplitSizes(q)[g] :
                     m = si[g] + r
  <1> DEFINE si == SplitIndices(q)  k == [n \in 0..7 |-> si[n + 1]]  ss == Groups(q)
             all == Layout(q)
  <1>1. ss \in Seq(Seq(Entries)) /\ Len(ss) = 7 /\ Sums(k, Lengths(ss))
        /\ \A g \in 1..7 : Len(ss[g]) = SplitSizes(q)[g]
    BY GroupSizes, SplitIndicesAre
  <1>2. k[7] = si[8] /\ \A g \in 1..7 : k[g - 1] = si[g]
    <2>1. \A g \in 1..7 : g - 1 \in 0..7 /\ (g - 1) + 1 = g
      OBVIOUS
    <2> QED
      BY <2>1
  <1>3. all = FlattenSeq(ss)
    BY DEF Layout
  <1> HIDE DEF k, ss, all, si
  <1>4. all \in Seq(Entries) /\ Joined(all, ss, k, 7)
    BY <1>1, <1>3, FlattenJoins
  <1>5. Len(all) = si[8]
    BY <1>2, <1>4 DEF Joined
  <1>6. ASSUME NEW g \in 1..7, NEW r \in 1..SplitSizes(q)[g]
        PROVE  si[g] + r \in 1..Len(all) /\ all[si[g] + r] = ss[g][r]
    <2>1. r \in 1..Len(ss[g]) /\ k[g - 1] = si[g]
      BY <1>1, <1>2
    <2> QED
      BY <1>2, <1>4, <1>5, <2>1 DEF Joined
  <1>7. ASSUME NEW m \in 1..Len(all)
        PROVE  \E g \in 1..7 : \E r \in 1..SplitSizes(q)[g] : m = si[g] + r
    <2>1. PICK g \in 1..7 : \E r \in 1..Len(ss[g]) : m = k[g - 1] + r
      BY <1>2, <1>4, <1>5 DEF Joined
    <2>2. k[g - 1] = si[g] /\ Len(ss[g]) = SplitSizes(q)[g]
      BY <1>1, <1>2
    <2>3. PICK r \in 1..Len(ss[g]) : m = k[g - 1] + r
      BY <2>1
    <2> QED
      BY <2>2, <2>3
  <1> QED
    BY <1>4, <1>5, <1>6, <1>7 DEF si, ss, all

-----------------------------------------------------------------------------
(* The number of variables.                                                *)

LEMMA ProductsOfSums ==
    ASSUME NEW a \in Nat, NEW b \in Nat, NEW x \in Nat
    PROVE  /\ x * (b + 1) * a = a * b * x + a * x
           /\ x * ((b + 1) + 1) * a = a * b * x + 2 * (a * x)
           /\ (a - 1) * x = a * x - x
           /\ (1 + a * b) * x = x + a * b * x
           /\ x * b * a = a * b * x
  OBVIOUS

Spread(a, x, y, z) ==
    (1 + a) * (2 * x + y + z) = 2 * x + y + z + 2 * (a * x) + a * y + a * z

LEMMA ProductOfSum ==
    ASSUME NEW a \in Nat, NEW x \in Nat, NEW y \in Nat, NEW z \in Nat
    PROVE  Spread(a, x, y, z)
  BY DEF Spread

\* The variables that were counted in advance are those of the seven groups.
LEMMA VariablesAreCounted ==
    ASSUME NEW q \in Problems
    PROVE  NXX(q) = SplitIndices(q)[8] /\ NXX(q) \in Nat
  <1> DEFINE s == SplitSizes(q)  nf == Len(Free(q))  fc == FactorCount(q)
             u == IF q.blocked THEN 0 ELSE q.nu
             a == q.ne * q.ncp
             atPoint == q.nx + q.nw + u
             perPoint == 2 * q.nx + q.nw + u
  <1>0. /\ q.nu \in Nat /\ q.nx \in Nat /\ q.nw \in Nat /\ q.npopt \in Nat /\ q.gauss \in BOOLEAN
        /\ q.blocked \in BOOLEAN /\ q.free \in BOOLEAN /\ q.ne \in Nat /\ q.ncp \in Nat
    BY ProblemsAssumption
  <1>1. SplitIndices(q)[8] = s[1] + s[2] + s[3] + s[4] + s[5] + s[6] + s[7]
    <2>1. SplitIndices(q)[1] = 0 /\ \A g \in 1..7 :
             SplitIndices(q)[g + 1] = SplitIndices(q)[g] + s[g]
      BY SplitIndicesAre
    <2>2. \A g \in 1..7 : s[g] \in Nat
      BY SplitSizesType, ElementsAre
    <2> HIDE DEF s
    <2> DEFINE si == SplitIndices(q)
    <2> HIDE DEF si
    <2>3. si[1] = 0 /\ \A g \in 1..7 : si[g + 1] = si[g] + s[g]
      BY <2>1 DEF si
    <2>4. /\ si[2] = si[1] + s[1] /\ si[3] = si[2] + s[2] /\ si[4] = si[3] + s[3]
          /\ si[5] = si[4] + s[4] /\ si[6] = si[5] + s[5] /\ si[7] = si[6] + s[6]
          /\ si[8] = si[7] + s[7]
      BY <2>3
    <2> QED
      BY <2>2, <2>3, <2>4 DEF si
  <1>2. /\ s[1] = q.nx * (LastPoint(q) + 1) * q.ne /\ s[2] = q.nx * q.ncp * q.ne
        /\ s[3] = q.nw * q.ncp * q.ne
        /\ s[4] = (IF q.blocked THEN (1 + a) * nf + fc ELSE q.nu * q.ncp * q.ne)
        /\ s[5] = (IF q.gauss THEN 2 * atPoint ELSE atPoint)
        /\ s[6] = q.npopt /\ s[7] = (IF q.free THEN q.ne ELSE 0)
    BY DEF SplitSizes
  <1>3. NXX(q) = q.npopt + (1 + a) * perPoint
                 + (IF q.blocked THEN (1 + a) * nf + fc ELSE 0)
                 + (q.ne - 1) * q.nx
                 + (IF q.gauss THEN (q.ne - 1) * q.nx + perPoint ELSE 0)
                 + (IF q.free THEN q.ne ELSE 0)
    BY DEF NXX, MeshVariables
  <1>4. LastPoint(q) = IF q.gauss THEN q.ncp + 1 ELSE q.ncp
    BY DEF LastPoint
  <1>5. nf \in Nat /\ fc \in Nat
    <2>1. nf \in Nat
      BY <1>0, FreeIs
    <2>2. PICK k : Sums(k, FactorLengths(q))
      BY FactorSumsExist
    <2> QED
      BY <2>1, <2>2, BlockedPartIs
  <1>6. u \in Nat /\ a \in Nat
    BY <1>0, Products
  <1> DEFINE mx == a * q.nx  mw == a * q.nw  mu == a * q.nu  mz == a * u  ex == q.ne * q.nx
  <1>7. mx \in Nat /\ mw \in Nat /\ mu \in Nat /\ ex \in Nat /\ mz \in Nat
    BY <1>0, <1>6, Products
  <1>8. /\ (1 + a) * perPoint = 2 * q.nx + q.nw + u + 2 * mx + mw + mz
        /\ (q.ne - 1) * q.nx = ex - q.nx
        /\ q.nx * q.ncp * q.ne = mx /\ q.nw * q.ncp * q.ne = mw /\ q.nu * q.ncp * q.ne = mu
        /\ q.nx * (q.ncp + 1) * q.ne = mx + ex
        /\ q.nx * ((q.ncp + 1) + 1) * q.ne = mx + 2 * ex
    <2> HIDE DEF u
    <2>1. /\ (1 + q.ne * q.ncp) * (2 * q.nx + q.nw + u)
               = 2 * q.nx + q.nw + u + 2 * (q.ne * q.ncp * q.nx)
                 + q.ne * q.ncp * q.nw + q.ne * q.ncp * u
          /\ (q.ne - 1) * q.nx = q.ne * q.nx - q.nx
          /\ q.nx * q.ncp * q.ne = q.ne * q.ncp * q.nx
          /\ q.nw * q.ncp * q.ne = q.ne * q.ncp * q.nw
          /\ q.nx * (q.ncp + 1) * q.ne = q.ne * q.ncp * q.nx + q.ne * q.nx
          /\ q.nx * ((q.ncp + 1) + 1) * q.ne = q.ne * q.ncp * q.nx + 2 * (q.ne * q.nx)
      <3>1. q.ne \in Nat /\ q.ncp \in Nat /\ q.nx \in Nat /\ q.nw \in Nat /\ u \in Nat
        BY <1>0, <1>6
      <3>2. (1 + q.ne * q.ncp) * (2 * q.nx + q.nw + u)
               = 2 * q.nx + q.nw + u + 2 * (q.ne * q.ncp * q.nx)
                 + q.ne * q.ncp * q.nw + q.ne * q.ncp * u
        <4> HIDE DEF a
        <4>1. Spread(a, q.nx, q.nw, u)
          BY <1>6, <3>1, ProductOfSum
        <4> QED
          BY <4>1 DEF a, Spread
      <3>3. q.nw * q.ncp * q.ne = q.ne * q.ncp * q.nw
        BY <3>1, ProductsOfSums
      <3> QED
        BY <3>1, <3>2, <3>3, ProductsOfSums
    <2>2. q.nu * q.ncp * q.ne = mu
      BY <1>0, Products
    <2> QED
      BY <2>1, <2>2
  <1>9. s[1] = IF q.gauss THEN mx + 2 * ex ELSE mx + ex
    <2>1. CASE q.gauss = TRUE
      BY <1>2, <1>4, <1>8, <2>1
    <2>2. CASE q.gauss = FALSE
      BY <1>2, <1>4, <1>8, <2>2
    <2> QED
      BY <1>0, <2>1, <2>2
  <1> DEFINE fr == (1 + a) * nf
  <1>10. fr \in Nat
    BY <1>0, <1>5, <1>6, Products
  <1>11. u = IF q.blocked THEN 0 ELSE q.nu
    OBVIOUS
  <1>12. mz = IF q.blocked THEN 0 ELSE mu
    BY <1>0, <1>6
  <1>13. /\ s[4] = (IF q.blocked THEN fr + fc ELSE mu)
         /\ s[2] = mx /\ s[3] = mw
         /\ NXX(q) = q.npopt + (2 * q.nx + q.nw + u + 2 * mx + mw + mz)
                 + (IF q.blocked THEN fr + fc ELSE 0) + (ex - q.nx)
                 + (IF q.gauss THEN (ex - q.nx) + perPoint ELSE 0)
                 + (IF q.free THEN q.ne ELSE 0)
    BY <1>2, <1>3, <1>8
  <1>14. perPoint = 2 * q.nx + q.nw + u /\ atPoint = q.nx + q.nw + u
    OBVIOUS
  <1>15. s[5] = (IF q.gauss THEN 2 * atPoint ELSE atPoint)
        /\ s[6] = q.npopt /\ s[7] = (IF q.free THEN q.ne ELSE 0)
    BY <1>2
  <1> HIDE DEF fr, mx, mw, mu, mz, ex, a, s, nf, fc, u, perPoint, atPoint
  <1>16. CASE q.blocked = TRUE
    BY <1>0, <1>1, <1>5, <1>6, <1>7, <1>9, <1>10, <1>11, <1>12, <1>13, <1>14, <1>15, <1>16
  <1>17. CASE q.blocked = FALSE
    <2>1. CASE q.gauss = TRUE
      BY <1>0, <1>1, <1>5, <1>6, <1>7, <1>9, <1>10, <1>11, <1>12, <1>13, <1>14, <1>15, <1>17, <2>1
    <2>2. CASE q.gauss = FALSE
      BY <1>0, <1>1, <1>5, <1>6, <1>7, <1>9, <1>10, <1>11, <1>12, <1>13, <1>14, <1>15, <1>17, <2>2
    <2> QED
      BY <1>0, <2>1, <2>2
  <1>18. NXX(q) = SplitIndices(q)[8]
    BY <1>0, <1>16, <1>17
  <1>19. SplitIndices(q)[8] \in Nat
    <2>1. \A g \in 1..8 : SplitIndices(q)[g] \in Nat
      BY SplitIndicesAre
    <2> QED
      BY <2>1
  <1> QED
    BY <1>18, <1>19

-----------------------------------------------------------------------------
(* The shifted vector.                                                     *)

IsSlice(t, s, a, b) == Len(t) = b - a /\ \A r \in 1..(b - a) : t[r] = s[a + r]
LEMMA SliceIs ==
    ASSUME NEW S, NEW s \in Seq(S), NEW a \in Nat, NEW b \in Nat, a <= b, b <= Len(s)
    PROVE  Slice(s, a, b) \in Seq(S) /\ IsSlice(Slice(s, a, b), s, a, b)
  <1>1. Slice(s, a, b) = SubSeq(s, a + 1, b)
    <2>1. (IF b < Len(s) THEN b ELSE Len(s)) = b
      OBVIOUS
    <2> QED
      BY <2>1 DEF Slice
  <1>2. ASSUME NEW r \in 1..(b - a) PROVE SubSeq(s, a + 1, b)[r] = s[a + r]
    OBVIOUS
  <1>3. SubSeq(s, a + 1, b) \in Seq(S) /\ Len(SubSeq(s, a + 1, b)) = b - a
    OBVIOUS
  <1> QED
    BY <1>1, <1>2, <1>3 DEF IsSlice

IsPair(all, a, b) ==
    /\ Len(all) = Len(a) + Len(b)
    /\ \A r \in 1..Len(a) : all[r] = a[r]
    /\ \A r \in 1..Len(b) : all[Len(a) + r] = b[r]
LEMMA PairIs ==
    ASSUME NEW S, NEW a \in Seq(S), NEW b \in Seq(S)
    PROVE  a \o b \in Seq(S) /\ IsPair(a \o b, a, b)
  BY TwoJoined DEF IsPair

LEMMA RepeatIs ==
    ASSUME NEW S, NEW s \in Seq(S), NEW n \in Nat
    PROVE  /\ Repeat(s, n) \in Seq(S) /\ Len(Repeat(s, n)) = n * Len(s)
           /\ \A j \in 1..n : \A r \in 1..Len(s) : Repeat(s, n)[(j - 1) * Len(s) + r] = s[r]
  <1> DEFINE ss == [j \in 1..n |-> s]
  <1>1. ss \in Seq(Seq(S)) /\ Len(ss) = n /\ \A j \in 1..n : ss[j] = s
    OBVIOUS
  <1>2. Repeat(s, n) = FlattenSeq(ss)
    BY DEF Repeat
  <1>3. Len(s) \in Nat
    OBVIOUS
  <1> HIDE DEF ss
  <1>4. /\ FlattenSeq(ss) \in Seq(S) /\ Len(FlattenSeq(ss)) = Len(ss) * Len(s)
        /\ \A j \in 1..Len(ss) : \A r \in 1..Len(s) :
              FlattenSeq(ss)[(j - 1) * Len(s) + r] = ss[j][r]
    BY <1>1, <1>3, FlattenSame, ZenonT(40)
  <1> QED
    BY <1>1, <1>2, <1>4

\* A group of n variables at m points, of which the first so many are dropped.
Later1(j, m, points) == IF j + points <= m THEN j + points ELSE m
IsShifted(g, s, start, n, m, points) ==
    /\ Len(g) = m * n
    /\ \A j \in 1..m : \A r \in 1..n :
          /\ (j - 1) * n + r \in 1..Len(g)
          /\ start + (Later1(j, m, points) - 1) * n + r \in 1..Len(s)
          /\ g[(j - 1) * n + r] = s[start + (Later1(j, m, points) - 1) * n + r]

LEMMA ShiftGroupIs ==
    ASSUME NEW S, NEW s \in Seq(S), NEW start \in Nat, NEW n \in Nat, NEW m \in Nat,
           NEW points \in Nat, 1 <= points, points <= m, start + m * n <= Len(s)
    PROVE  LET g == ShiftGroup(s, start, start + m * n, n, points)
           IN  g \in Seq(S) /\ IsShifted(g, s, start, n, m, points)
  <1> DEFINE end == start + m * n  lo == start + n * points
             a == Slice(s, lo, end)  c == Slice(s, end - n, end)  b == Repeat(c, points)
             g == ShiftGroup(s, start, end, n, points)
  <1>1. /\ m * n \in Nat /\ n * points \in Nat /\ points * n = n * points
        /\ points * n <= m * n /\ n <= m * n
    <2>1. m * n \in Nat /\ n * points \in Nat /\ points * n = n * points
      OBVIOUS
    <2>2. PICK d \in Nat : m = points + d
      <3>1. m - points \in Nat /\ m = points + (m - points)
        OBVIOUS
      <3> QED
        BY <3>1
    <2>3. m * n = points * n + d * n /\ d * n \in Nat
      BY <2>2
    <2>4. PICK e \in Nat : points = e + 1
      <3>1. points - 1 \in Nat /\ points = (points - 1) + 1
        OBVIOUS
      <3> QED
        BY <3>1
    <2>5. points * n = e * n + n /\ e * n \in Nat
      BY <2>4
    <2> QED
      BY <2>1, <2>3, <2>5
  <1> DEFINE mn == m * n  pn == n * points
  <1>2. /\ end \in Nat /\ lo \in Nat /\ end - n \in Nat /\ lo <= end /\ end - n <= end
        /\ end <= Len(s) /\ end - lo = mn - pn /\ end - (end - n) = n
    <2> HIDE DEF mn, pn
    <2>1. mn \in Nat /\ pn \in Nat /\ pn <= mn /\ n <= mn /\ end = start + mn /\ lo = start + pn
          /\ start + mn <= Len(s)
      BY <1>1 DEF mn, pn
    <2> HIDE DEF end, lo
    <2> QED
      BY <2>1
  <1> HIDE DEF end, lo
  <1>3. a \in Seq(S) /\ Len(a) = mn - pn /\ \A r \in 1..(mn - pn) : a[r] = s[lo + r]
    <2>1. a \in Seq(S) /\ IsSlice(a, s, lo, end)
      BY <1>2, SliceIs
    <2> QED
      BY <1>2, <2>1 DEF IsSlice
  <1>4. c \in Seq(S) /\ Len(c) = n /\ \A r \in 1..n : c[r] = s[(end - n) + r]
    <2>1. c \in Seq(S) /\ IsSlice(c, s, end - n, end)
      BY <1>2, SliceIs
    <2> QED
      BY <1>2, <2>1 DEF IsSlice
  <1> HIDE DEF a, c
  <1>5. /\ b \in Seq(S) /\ Len(b) = points * n
        /\ \A j \in 1..points : \A r \in 1..n : b[(j - 1) * n + r] = c[r]
    BY <1>4, RepeatIs
  <1>6. g = a \o b
    BY DEF ShiftGroup, a, b, c, lo
  <1> HIDE DEF b, g
  <1>7. /\ g \in Seq(S) /\ Len(g) = mn
        /\ \A r \in 1..(mn - pn) : g[r] = a[r]
        /\ \A r \in 1..(points * n) : g[mn - pn + r] = b[r]
    <2>1. g \in Seq(S) /\ IsPair(g, a, b)
      BY <1>3, <1>5, <1>6, PairIs
    <2>2. Len(a) + Len(b) = mn
      <3>1. points * n = pn /\ mn \in Nat /\ pn \in Nat
        BY <1>1
      <3> HIDE DEF mn, pn
      <3> QED
        BY <1>3, <1>5, <3>1
    <2> QED
      BY <1>3, <1>5, <2>1, <2>2 DEF IsPair
  <1>8. ASSUME NEW j \in 1..m, NEW r \in 1..n
        PROVE  /\ (j - 1) * n + r \in 1..Len(g)
               /\ start + (Later1(j, m, points) - 1) * n + r \in 1..Len(s)
               /\ g[(j - 1) * n + r] = s[start + (Later1(j, m, points) - 1) * n + r]
    <2>1. (j - 1) * n + r \in 1..mn
      BY OffsetInside
    <2>2. Later1(j, m, points) \in 1..m
      BY DEF Later1
    <2>3. (Later1(j, m, points) - 1) * n + r \in 1..mn
      BY <2>2, OffsetInside
    <2>4. start + (Later1(j, m, points) - 1) * n + r \in 1..Len(s)
      <3> DEFINE o == (Later1(j, m, points) - 1) * n
      <3>1. o \in Int
        BY <2>2
      <3>2. mn \in Nat /\ start + mn <= Len(s) /\ Len(s) \in Nat
        BY <1>1
      <3> HIDE DEF o, mn
      <3> QED
        BY <2>3, <3>1, <3>2 DEF o
    <2>5. CASE j + points <= m
      <3>1. Later1(j, m, points) = j + points
        BY <2>5 DEF Later1
      <3>2. (j - 1) * n + r \in 1..(mn - pn)
        <4>1. j \in 1..(m - points) /\ m - points \in Nat
          BY <2>5
        <4>2. (j - 1) * n + r \in 1..((m - points) * n)
          BY <4>1, OffsetInside
        <4>3. (m - points) * n = mn - pn
          OBVIOUS
        <4> QED
          BY <4>2, <4>3
      <3>3. g[(j - 1) * n + r] = s[lo + ((j - 1) * n + r)]
        BY <1>3, <1>7, <3>2
      <3>4. lo + ((j - 1) * n + r) = start + ((j + points) - 1) * n + r
        BY DEF lo
      <3> QED
        BY <1>7, <2>1, <2>4, <3>1, <3>3, <3>4
    <2>6. CASE ~ (j + points <= m)
      <3>1. Later1(j, m, points) = m
        BY <2>6 DEF Later1
      <3> DEFINE i == j - (m - points)
      <3>2. i \in 1..points
        BY <2>6
      <3>3. (i - 1) * n + r \in 1..(points * n)
        BY <3>2, OffsetInside
      <3>4. (j - 1) * n + r = mn - pn + ((i - 1) * n + r)
        OBVIOUS
      <3>5. g[(j - 1) * n + r] = c[r]
        BY <1>5, <1>7, <3>2, <3>3, <3>4
      <3>6. c[r] = s[(end - n) + r]
        BY <1>4
      <3>7. (end - n) + r = start + (m - 1) * n + r
        BY DEF end
      <3> QED
        BY <1>7, <2>1, <2>4, <3>1, <3>5, <3>6, <3>7
    <2> QED
      BY <2>5, <2>6
  <1>9. Len(g) = m * n
    BY <1>7
  <1>10. IsShifted(g, s, start, n, m, points)
    BY <1>8, <1>9 DEF IsShifted
  <1> QED
    BY <1>7, <1>10 DEF g, end

\* Where the factors of each input begin among those of all inputs.
FactorsBegin(q, k) ==
    /\ Sums(k, FactorLengths(q)) /\ Len(q.bf) \in Nat /\ DOMAIN q.bf = 1..Len(q.bf)
    /\ FactorCount(q) \in Nat
    /\ \A b \in DOMAIN q.bf :
          /\ Len(q.bf[b][2]) \in Nat \ {0} /\ k[b - 1] \in Nat /\ k[b] \in Nat
          /\ k[b] = k[b - 1] + Len(q.bf[b][2]) /\ k[b] <= FactorCount(q)
          /\ Total([c \in 1..(b - 1) |-> Len(q.bf[c][2])]) = k[b - 1]

LEMMA FactorsBeginSomewhere ==
    ASSUME NEW q \in Problems
    PROVE  \E k : FactorsBegin(q, k)
  <1> DEFINE N == Len(q.bf)  t == FactorLengths(q)
  <1>1. DOMAIN q.bf = 1..N /\ N \in Nat
    BY ProblemsAssumption
  <1>2. PICK k : Sums(k, t)
    BY FactorSumsExist
  <1>3. /\ Joined(BlockedPart(q), [b \in DOMAIN q.bf |-> BlockedEntries(q, b)], k, N)
        /\ FactorCount(q) \in Nat /\ \A n \in 0..N : k[n] \in Nat
        /\ k[N] = FactorCount(q)
    BY <1>2, BlockedPartIs
  <1>4. DOMAIN t = 1..N /\ Len(t) = N /\ \A b \in 1..N : t[b] = Len(q.bf[b][2])
    BY <1>1 DEF FactorLengths
  <1>5. ASSUME NEW b \in 1..N PROVE Len(q.bf[b][2]) \in Nat \ {0}
    <2> DEFINE fs == q.bf[b][2]
    <2>1. Len(fs) \in Nat
      BY <1>1, FactorsAre
    <2>2. Total(fs) = q.ne /\ q.ne \in Nat \ {0}
      BY <1>1, ProblemsAssumption
    <2>3. Len(fs) = 0 => Total(fs) = 0
      <3> HIDE DEF fs
      <3>1. SUFFICES ASSUME Len(fs) = 0 PROVE Total(fs) = 0
        OBVIOUS
      <3>2. Total(fs) = Len(fs) * 0
        BY <3>1, TotalOfSame
      <3> QED
        BY <3>1, <3>2
    <2> QED
      BY <2>1, <2>2, <2>3
  <1>6. t \in Seq(Int)
    <2>1. \A b \in 1..N : t[b] \in Int
      BY <1>4, <1>5
    <2>2. t = [b \in 1..N |-> t[b]]
      BY <1>1 DEF FactorLengths
    <2> HIDE DEF t, N
    <2> QED
      BY <1>1, <2>1, <2>2
  <1>7. ASSUME NEW b \in 1..N
        PROVE  /\ k[b - 1] \in Nat /\ k[b] \in Nat /\ k[b] = k[b - 1] + Len(q.bf[b][2])
               /\ k[b] <= FactorCount(q)
               /\ Total([c \in 1..(b - 1) |-> Len(q.bf[c][2])]) = k[b - 1]
    <2>1. b - 1 \in 0..N /\ b \in 0..N
      BY <1>1
    <2>2. k[b] = k[b - 1] + Len(q.bf[b][2])
      BY <1>2, <1>4 DEF Sums
    <2>3. k[b] <= FactorCount(q)
      <3> DEFINE ss == [c \in DOMAIN q.bf |-> BlockedEntries(q, c)]  L == Len(q.bf[b][2])
      <3>1. Len(ss[b]) = L
        BY <1>1, BlockedEntriesAre
      <3>2. L \in 1..L
        BY <1>5
      <3> HIDE DEF ss, L
      <3>3. k[b - 1] + L \in 1..k[N]
        BY <1>3, <3>1, <3>2 DEF Joined, ss
      <3> QED
        BY <1>3, <2>2, <3>3 DEF L
    <2>4. Total([c \in 1..(b - 1) |-> Len(q.bf[c][2])]) = k[b - 1]
      <3>1. [c \in 1..(b - 1) |-> Len(q.bf[c][2])] = [c \in 1..(b - 1) |-> t[c]]
        BY <1>1, <1>4
      <3>2. b - 1 \in 0..Len(t)
        BY <1>4, <2>1
      <3> HIDE DEF t
      <3>3. Total([c \in 1..(b - 1) |-> t[c]]) = k[b - 1]
        BY <1>2, <1>6, <3>2, TotalOfFirst
      <3> QED
        BY <3>1, <3>3
    <2> QED
      BY <1>3, <2>1, <2>2, <2>3, <2>4
  <1>8. FactorsBegin(q, k)
    BY <1>1, <1>2, <1>3, <1>5, <1>7 DEF FactorsBegin
  <1> QED
    BY <1>8

\* How many inputs have blocking factors.
BlockedCount(q) == q.nu - Len(Free(q))

LEMMA RankBounds ==
    ASSUME NEW S, NEW n \in Nat
    PROVE  Rank(S, n) \in 0..n
  <1>1. IsFiniteSet(1..n) /\ Cardinality(1..n) = n
    BY FS_Interval
  <1>2. {w \in 1..n : w \in S} \subseteq 1..n
    OBVIOUS
  <1>3. Cardinality({w \in 1..n : w \in S}) <= Cardinality(1..n)
    BY <1>1, <1>2, FS_Subset
  <1>4. Rank(S, n) \in Nat
    BY RankFacts
  <1> QED
    BY <1>1, <1>3, <1>4 DEF Rank

LEMMA BlockedCountType ==
    ASSUME NEW q \in Problems
    PROVE  BlockedCount(q) \in Nat
  <1>1. q.nu \in Nat
    BY ProblemsAssumption
  <1>2. Len(Free(q)) = Rank(FreeInputs(q), q.nu)
    BY <1>1, FreeIs DEF Lists
  <1> QED
    BY <1>1, <1>2, RankBounds DEF BlockedCount

\* ShiftBlocked moves each value to the place so many factors earlier.
NextFactor(q, b, f) ==
    IF f + BlockedCount(q) <= Len(q.bf[b][2]) THEN f + BlockedCount(q) ELSE f
BlockedShifted(all, q, s, start, k) ==
    /\ Len(all) = FactorCount(q)
    /\ \A b \in DOMAIN q.bf : \A f \in 1..Len(q.bf[b][2]) :
          /\ k[b - 1] + f \in 1..Len(all)
          /\ all[k[b - 1] + f] = s[start + k[b - 1] + NextFactor(q, b, f)]

LEMMA ShiftBlockedIs ==
    ASSUME NEW q \in Problems, NEW S, NEW s \in Seq(S), NEW start \in Nat,
           NEW k, FactorsBegin(q, k), start + FactorCount(q) <= Len(s),
           \A b \in DOMAIN q.bf : BlockedCount(q) <= Len(q.bf[b][2])
    PROVE  /\ ShiftBlocked(q, s, start) \in Seq(S)
           /\ BlockedShifted(ShiftBlocked(q, s, start), q, s, start, k)
  <1> DEFINE N == Len(q.bf)  nbf == BlockedCount(q)
             L(b) == Len(q.bf[b][2])
             from(b) == start + Total([c \in 1..(b - 1) |-> Len(q.bf[c][2])])
             to(b) == from(b) + L(b)
             piece(b) == Slice(s, from(b) + nbf, to(b)) \o Slice(s, to(b) - nbf, to(b))
             ss == [b \in DOMAIN q.bf |-> piece(b)]
  <1>1. nbf \in Nat
    BY BlockedCountType
  <1>2. N \in Nat /\ DOMAIN q.bf = 1..N /\ Sums(k, FactorLengths(q)) /\ FactorCount(q) \in Nat
    BY DEF FactorsBegin
  <1>3. ASSUME NEW b \in 1..N
        PROVE  /\ from(b) = start + k[b - 1] /\ from(b) \in Nat /\ to(b) = start + k[b]
               /\ to(b) \in Nat /\ L(b) \in Nat /\ nbf <= L(b) /\ to(b) <= Len(s)
               /\ k[b - 1] \in Nat /\ to(b) = from(b) + L(b)
    <2>1. /\ L(b) \in Nat \ {0} /\ k[b - 1] \in Nat /\ k[b] = k[b - 1] + L(b)
          /\ k[b] <= FactorCount(q) /\ k[b] \in Nat
          /\ Total([c \in 1..(b - 1) |-> Len(q.bf[c][2])]) = k[b - 1]
      BY <1>2 DEF FactorsBegin
    <2>2. nbf <= L(b)
      BY <1>2
    <2>3. from(b) = start + k[b - 1]
      BY <2>1
    <2>4. Len(s) \in Nat /\ start + FactorCount(q) <= Len(s)
      OBVIOUS
    <2> HIDE DEF L, from, nbf
    <2>5. to(b) = start + k[b] /\ to(b) = from(b) + L(b)
      BY <2>1, <2>3
    <2>6. from(b) \in Nat /\ to(b) \in Nat /\ to(b) <= Len(s)
      <3>1. FactorCount(q) \in Nat
        BY <1>2
      <3> HIDE DEF to
      <3> QED
        BY <2>1, <2>3, <2>4, <2>5, <3>1, SMTT(30)
    <2> QED
      BY <2>1, <2>2, <2>3, <2>5, <2>6
  <1> HIDE DEF from, nbf, L, to
  <1>4. ASSUME NEW b \in 1..N
        PROVE  /\ piece(b) \in Seq(S) /\ Len(piece(b)) = L(b)
               /\ \A f \in 1..L(b) : piece(b)[f] = s[start + k[b - 1] + NextFactor(q, b, f)]
    <2> DEFINE a1 == Slice(s, from(b) + nbf, to(b))  a2 == Slice(s, to(b) - nbf, to(b))
    <2>0. /\ from(b) \in Nat /\ to(b) = from(b) + L(b)
          /\ to(b) \in Nat /\ L(b) \in Nat /\ nbf <= L(b) /\ to(b) <= Len(s)
      BY <1>3
    <2>k. from(b) = start + k[b - 1] /\ k[b - 1] \in Nat
      BY <1>3
    <2>1. /\ from(b) + nbf \in Nat /\ to(b) - nbf \in Nat /\ from(b) + nbf <= to(b)
          /\ to(b) - nbf <= to(b) /\ to(b) \in Nat /\ to(b) <= Len(s)
          /\ to(b) - (from(b) + nbf) = L(b) - nbf /\ to(b) - (to(b) - nbf) = nbf
      <3>1. from(b) + nbf \in Nat /\ to(b) - nbf \in Nat
        BY <1>1, <2>0
      <3>2. from(b) + nbf <= to(b) /\ to(b) - nbf <= to(b)
        BY <1>1, <2>0
      <3>3. to(b) - (from(b) + nbf) = L(b) - nbf
        BY <1>1, <2>0
      <3>4. to(b) - (to(b) - nbf) = nbf
        BY <1>1, <2>0
      <3> QED
        BY <2>0, <3>1, <3>2, <3>3, <3>4
    <2>2. a1 \in Seq(S) /\ IsSlice(a1, s, from(b) + nbf, to(b))
      BY <2>1, SliceIs
    <2>3. a2 \in Seq(S) /\ IsSlice(a2, s, to(b) - nbf, to(b))
      BY <2>1, SliceIs
    <2>4. Len(a1) = L(b) - nbf /\ \A r \in 1..(L(b) - nbf) : a1[r] = s[(from(b) + nbf) + r]
      BY <2>1, <2>2 DEF IsSlice
    <2>5. Len(a2) = nbf /\ \A r \in 1..nbf : a2[r] = s[(to(b) - nbf) + r]
      BY <2>1, <2>3 DEF IsSlice
    <2> HIDE DEF a1, a2
    <2>6. a1 \o a2 \in Seq(S) /\ IsPair(a1 \o a2, a1, a2)
      BY <2>2, <2>3, PairIs
    <2>7. piece(b) = a1 \o a2
      BY DEF a1, a2
    <2> HIDE DEF piece
    <2>8. /\ Len(piece(b)) = (L(b) - nbf) + nbf
          /\ \A r \in 1..(L(b) - nbf) : piece(b)[r] = s[(from(b) + nbf) + r]
          /\ \A r \in 1..nbf : piece(b)[(L(b) - nbf) + r] = s[(to(b) - nbf) + r]
      BY <2>4, <2>5, <2>6, <2>7 DEF IsPair
    <2>9. ASSUME NEW f \in 1..L(b)
          PROVE  piece(b)[f] = s[start + k[b - 1] + NextFactor(q, b, f)]
      <3>1. NextFactor(q, b, f) = IF f + nbf <= L(b) THEN f + nbf ELSE f
        BY DEF NextFactor, nbf, L
      <3>2. CASE f + nbf <= L(b)
        <4>1. f \in 1..(L(b) - nbf) /\ (from(b) + nbf) + f = start + k[b - 1] + (f + nbf)
          BY <1>1, <2>0, <2>k, <3>2, SMTT(30)
        <4> QED
          BY <2>8, <3>1, <3>2, <4>1
      <3>3. CASE ~ (f + nbf <= L(b))
        <4> DEFINE r == f - (L(b) - nbf)
        <4>1. r \in 1..nbf /\ (L(b) - nbf) + r = f /\ (to(b) - nbf) + r = start + k[b - 1] + f
          <5>1. r \in 1..nbf
            BY <1>1, <2>0, <3>3
          <5>2. (L(b) - nbf) + r = f
            BY <1>1, <2>0
          <5>3. (to(b) - nbf) + r = start + k[b - 1] + f
            <6>1. (to(b) - nbf) + r = from(b) + f
              BY <1>1, <2>0
            <6> QED
              BY <2>k, <6>1
          <5> QED
            BY <5>1, <5>2, <5>3
        <4> QED
          BY <2>8, <3>1, <3>3, <4>1
      <3> QED
        BY <3>2, <3>3
    <2>10. (L(b) - nbf) + nbf = L(b)
      BY <1>1, <2>0
    <2> QED
      BY <2>6, <2>7, <2>8, <2>9, <2>10
  <1> HIDE DEF piece
  <1>5. /\ ss \in Seq(Seq(S)) /\ Len(ss) = N /\ DOMAIN ss = 1..N
        /\ \A b \in 1..N : ss[b] = piece(b)
    BY <1>2, <1>4
  <1>6. Lengths(ss) = FactorLengths(q)
    <2>1. Lengths(ss) = [b \in 1..N |-> Len(ss[b])]
      BY <1>5 DEF Lengths
    <2>2. FactorLengths(q) = [b \in 1..N |-> L(b)]
      BY <1>2 DEF FactorLengths, L
    <2> HIDE DEF ss
    <2> QED
      BY <1>4, <1>5, <2>1, <2>2
  <1>7. ShiftBlocked(q, s, start) = FlattenSeq(ss)
    BY DEF ShiftBlocked, ss, piece, from, to, L, nbf, BlockedCount
  <1> HIDE DEF ss
  <1>8. FlattenSeq(ss) \in Seq(S) /\ Joined(FlattenSeq(ss), ss, k, N)
    BY <1>2, <1>5, <1>6, FlattenJoins
  <1>9. k[N] = FactorCount(q)
    <2>1. Total(FactorLengths(q)) = FactorCount(q)
      BY DEF FactorLengths, FactorCount
    <2>2. Len(FactorLengths(q)) = N
      BY <1>2 DEF FactorLengths
    <2> QED
      BY <1>2, <2>1, <2>2, TotalIs
  <1>10. BlockedShifted(FlattenSeq(ss), q, s, start, k)
    <2>1. ASSUME NEW b \in 1..N, NEW f \in 1..L(b)
          PROVE  /\ k[b - 1] + f \in 1..k[N]
                 /\ FlattenSeq(ss)[k[b - 1] + f] = s[start + k[b - 1] + NextFactor(q, b, f)]
      <3>1. Len(ss[b]) = L(b) /\ ss[b][f] = s[start + k[b - 1] + NextFactor(q, b, f)]
        BY <1>4, <1>5
      <3>2. f \in 1..Len(ss[b])
        BY <3>1
      <3> QED
        BY <1>8, <3>1, <3>2 DEF Joined
    <2>2. Len(FlattenSeq(ss)) = k[N]
      BY <1>8 DEF Joined
    <2> QED
      BY <1>2, <1>9, <2>1, <2>2 DEF BlockedShifted, L
  <1> QED
    BY <1>7, <1>8, <1>10

-----------------------------------------------------------------------------
(* The parts of the shifted vector, for a sample of MPC.                   *)

Concatenated(all, ss) ==
    all = ss[1] \o ss[2] \o ss[3] \o ss[4] \o ss[5] \o ss[6] \o ss[7] \o ss[8] \o ss[9]
LEMMA NineJoined ==
    ASSUME NEW ss, Len(ss) = 9
    PROVE  Concatenated(FlattenSeq(ss), ss)
  <1>1. PICK f : /\ f[1] = ss[1] /\ FlattenSeq(ss) = f[9]
                 /\ \A n \in 2..9 : f[n] = f[n - 1] \o ss[n]
    <2>1. Len(ss) \in Nat \ {0}
      OBVIOUS
    <2>2. \E f : /\ f[1] = ss[1] /\ FlattenSeq(ss) = f[Len(ss)]
                 /\ \A n \in 2..Len(ss) : f[n] = f[n - 1] \o ss[n]
      BY <2>1, JoinsExist
    <2>3. Len(ss) = 9
      OBVIOUS
    <2> QED
      BY ONLY <2>2, <2>3
  <1>2. /\ f[2] = f[1] \o ss[2] /\ f[3] = f[2] \o ss[3] /\ f[4] = f[3] \o ss[4]
        /\ f[5] = f[4] \o ss[5] /\ f[6] = f[5] \o ss[6] /\ f[7] = f[6] \o ss[7]
        /\ f[8] = f[7] \o ss[8] /\ f[9] = f[8] \o ss[9]
    <2>1. \A n \in 2..9 : f[n] = f[n - 1] \o ss[n]
      BY <1>1
    <2>2. /\ 2 \in 2..9 /\ 3 \in 2..9 /\ 4 \in 2..9 /\ 5 \in 2..9 /\ 6 \in 2..9
          /\ 7 \in 2..9 /\ 8 \in 2..9 /\ 9 \in 2..9
      OBVIOUS
    <2>3. /\ 2 - 1 = 1 /\ 3 - 1 = 2 /\ 4 - 1 = 3 /\ 5 - 1 = 4 /\ 6 - 1 = 5 /\ 7 - 1 = 6
          /\ 8 - 1 = 7 /\ 9 - 1 = 8
      OBVIOUS
    <2> DEFINE g(n) == f[n - 1] \o ss[n]
    <2>4. \A n \in 2..9 : f[n] = g(n)
      BY <2>1
    <2> HIDE DEF g
    <2>5. /\ f[2] = g(2) /\ f[3] = g(3) /\ f[4] = g(4) /\ f[5] = g(5) /\ f[6] = g(6)
          /\ f[7] = g(7) /\ f[8] = g(8) /\ f[9] = g(9)
      BY <2>2, <2>4
    <2> QED
      BY <2>3, <2>5 DEF g
  <1> QED
    BY <1>1, <1>2, SMTT(30) DEF Concatenated

\* A problem that MPC solves for each sample, with no more inputs that have
\* blocking factors than each of them has factors.
Shiftable(q) ==
    /\ q.nes > 0
    /\ \A b \in DOMAIN q.bf : BlockedCount(q) <= Len(q.bf[b][2])

\* The numbers a sample is made of, and where the groups begin.
ContPart(q) == q.ne * q.ncp * Len(Free(q))
EndCont(q)  == SplitIndices(q)[4] + ContPart(q)
Starts(q) ==
    LET si == SplitIndices(q)
    IN  /\ \A g \in 1..8 : si[g] \in Nat
        /\ q.ne * (q.ncp + 1) * q.nx \in Nat /\ q.ne * q.ncp * q.nx \in Nat
        /\ q.ne * q.ncp * q.nw \in Nat /\ ContPart(q) \in Nat /\ FactorCount(q) \in Nat
        /\ Len(Free(q)) \in Nat
        /\ si[1] = 0 /\ si[2] = q.ne * (q.ncp + 1) * q.nx
        /\ si[3] = si[2] + q.ne * q.ncp * q.nx /\ si[4] = si[3] + q.ne * q.ncp * q.nw
        /\ si[5] = si[4] + ContPart(q) + FactorCount(q) + Len(Free(q))
        /\ si[6] = si[5] + q.nx + q.nw /\ si[7] = si[6] + q.npopt /\ si[8] = si[7]

LEMMA SampleNumbers ==
    ASSUME NEW q \in Problems, q.nes > 0
    PROVE  /\ q.nx \in Nat /\ q.nw \in Nat /\ q.nu \in Nat /\ q.npopt \in Nat
           /\ q.ne \in Nat \ {0} /\ q.ncp \in Nat \ {0} /\ q.nes \in Nat \ {0}
           /\ q.nes <= q.ne /\ q.blocked = TRUE /\ q.free = FALSE /\ q.gauss = FALSE
           /\ q.ncp * q.nes \in Nat \ {0} /\ q.nes * (q.ncp + 1) \in Nat \ {0}
           /\ q.ncp * q.nes <= q.ne * q.ncp /\ q.nes * (q.ncp + 1) <= q.ne * (q.ncp + 1)
           /\ q.ne * q.ncp \in Nat /\ q.ne * (q.ncp + 1) \in Nat
  <1>1. /\ q.nx \in Nat /\ q.nw \in Nat /\ q.nu \in Nat /\ q.npopt \in Nat
        /\ q.ne \in Nat \ {0} /\ q.ncp \in Nat \ {0} /\ q.nes \in Nat \ {0}
        /\ q.ne % q.nes = 0 /\ q.blocked = TRUE /\ q.free = FALSE /\ q.gauss = FALSE
    <2>1. /\ q.nx \in Nat /\ q.nw \in Nat /\ q.nu \in Nat /\ q.npopt \in Nat
          /\ q.ne \in Nat \ {0} /\ q.ncp \in Nat \ {0} /\ q.nes \in Nat
      BY ProblemsAssumption
    <2>2. q.ne % q.nes = 0 /\ q.blocked /\ ~ q.free /\ ~ q.gauss
      BY ProblemsAssumption
    <2>3. q.blocked \in BOOLEAN /\ q.free \in BOOLEAN /\ q.gauss \in BOOLEAN
      BY ProblemsAssumption
    <2>4. q.nes \in Nat \ {0}
      BY <2>1
    <2>5. q.blocked = TRUE /\ q.free = FALSE /\ q.gauss = FALSE
      BY <2>2, <2>3
    <2> QED
      BY <2>1, <2>2, <2>4, <2>5
  <1>2. q.nes <= q.ne
    <2>1. \A a, b \in Nat \ {0} : a < b => a % b # 0
      OBVIOUS
    <2> QED
      BY <1>1, <2>1
  <1>3. \A a, b, c \in Nat : a <= b => a * c <= b * c
    <2> SUFFICES ASSUME NEW a \in Nat, NEW b \in Nat, NEW c \in Nat, a <= b
                 PROVE  a * c <= b * c
      OBVIOUS
    <2>1. PICK d \in Nat : b = a + d
      <3>1. b - a \in Nat /\ b = a + (b - a)
        OBVIOUS
      <3> QED
        BY <3>1
    <2>2. b * c = a * c + d * c /\ d * c \in Nat
      BY <2>1
    <2> QED
      BY <2>2
  <1>4. \A a, b \in Nat \ {0} : a * b \in Nat \ {0} /\ a * b = b * a
    OBVIOUS
  <1>5. q.ncp + 1 \in Nat \ {0} /\ q.nes \in Nat /\ q.ne \in Nat /\ q.ncp \in Nat
        /\ q.ncp + 1 \in Nat
    BY <1>1
  <1>6. q.nes * q.ncp <= q.ne * q.ncp /\ q.nes * (q.ncp + 1) <= q.ne * (q.ncp + 1)
    BY <1>2, <1>3, <1>5
  <1>7. /\ q.ncp * q.nes \in Nat \ {0} /\ q.nes * (q.ncp + 1) \in Nat \ {0}
        /\ q.ncp * q.nes = q.nes * q.ncp
        /\ q.ne * q.ncp \in Nat /\ q.ne * (q.ncp + 1) \in Nat
    BY <1>1, <1>4, <1>5
  <1>8. q.ncp * q.nes <= q.ne * q.ncp
    BY <1>6, <1>7
  <1> QED
    BY <1>1, <1>2, <1>6, <1>7, <1>8

Reordered(a, b, c) ==
    a * b * c \in Nat /\ c * b * a = a * b * c /\ (1 + a * b) * c = a * b * c + c
LEMMA ReorderedProduct ==
    ASSUME NEW a \in Nat, NEW b \in Nat, NEW c \in Nat
    PROVE  Reordered(a, b, c)
  BY Products DEF Reordered

LEMMA StartsAre ==
    ASSUME NEW q \in Problems, q.nes > 0
    PROVE  Starts(q)
  <1> DEFINE s == SplitSizes(q)  si == SplitIndices(q)  nf == Len(Free(q))
  <1>0. /\ q.nx \in Nat /\ q.nw \in Nat /\ q.nu \in Nat /\ q.npopt \in Nat /\ q.ne \in Nat
        /\ q.ncp \in Nat /\ q.blocked = TRUE /\ q.free = FALSE /\ q.gauss = FALSE
    BY SampleNumbers, ProblemsAssumption
  <1>1. nf \in Nat /\ FactorCount(q) \in Nat
    <2>1. PICK k : FactorsBegin(q, k)
      BY FactorsBeginSomewhere
    <2> QED
      BY <1>0, <2>1, FreeIs DEF FactorsBegin
  <1>2. /\ s[1] = q.nx * (q.ncp + 1) * q.ne /\ s[2] = q.nx * q.ncp * q.ne
        /\ s[3] = q.nw * q.ncp * q.ne
        /\ s[4] = (1 + q.ne * q.ncp) * nf + FactorCount(q)
        /\ s[5] = q.nx + q.nw + 0 /\ s[6] = q.npopt /\ s[7] = 0
    BY <1>0 DEF SplitSizes, LastPoint
  <1>4. q.ncp + 1 \in Nat
    BY <1>0
  <1>5. /\ q.ne * (q.ncp + 1) * q.nx \in Nat /\ q.ne * q.ncp * q.nx \in Nat
        /\ q.ne * q.ncp * q.nw \in Nat /\ ContPart(q) \in Nat
        /\ s[1] = q.ne * (q.ncp + 1) * q.nx /\ s[2] = q.ne * q.ncp * q.nx
        /\ s[3] = q.ne * q.ncp * q.nw /\ (1 + q.ne * q.ncp) * nf = ContPart(q) + nf
    <2>1. /\ Reordered(q.ne, q.ncp + 1, q.nx) /\ Reordered(q.ne, q.ncp, q.nx)
          /\ Reordered(q.ne, q.ncp, q.nw) /\ Reordered(q.ne, q.ncp, nf)
      BY <1>0, <1>1, <1>4, ReorderedProduct
    <2>2. /\ q.ne * (q.ncp + 1) * q.nx \in Nat
          /\ q.nx * (q.ncp + 1) * q.ne = q.ne * (q.ncp + 1) * q.nx
      BY <2>1 DEF Reordered
    <2>3. /\ q.ne * q.ncp * q.nx \in Nat /\ q.nx * q.ncp * q.ne = q.ne * q.ncp * q.nx
          /\ q.ne * q.ncp * q.nw \in Nat /\ q.nw * q.ncp * q.ne = q.ne * q.ncp * q.nw
          /\ ContPart(q) \in Nat /\ (1 + q.ne * q.ncp) * nf = ContPart(q) + nf
      BY <2>1 DEF Reordered, ContPart
    <2> QED
      BY <1>2, <2>2, <2>3
  <1>6. /\ si[1] = 0 /\ \A g \in 1..7 : si[g + 1] = si[g] + s[g]
        /\ \A g \in 1..8 : si[g] \in Nat
    BY SplitIndicesAre
  <1> HIDE DEF s, si
  <1>7. /\ si[2] = si[1] + s[1] /\ si[3] = si[2] + s[2] /\ si[4] = si[3] + s[3]
        /\ si[5] = si[4] + s[4] /\ si[6] = si[5] + s[5] /\ si[7] = si[6] + s[6]
        /\ si[8] = si[7] + s[7]
    BY <1>6
  <1>8. s[4] = ContPart(q) + nf + FactorCount(q) /\ s[5] = q.nx + q.nw
    <2> HIDE DEF nf
    <2> QED
      BY <1>0, <1>1, <1>2, <1>5
  <1>9. si[5] = si[4] + ContPart(q) + FactorCount(q) + nf
    <2>1. si[4] \in Nat
      BY <1>6
    <2> HIDE DEF nf
    <2> QED
      BY <1>1, <1>5, <1>7, <1>8, <2>1
  <1>10. si[6] = si[5] + q.nx + q.nw /\ si[7] = si[6] + q.npopt /\ si[8] = si[7]
    <2>1. si[5] \in Nat /\ si[7] \in Nat
      BY <1>6
    <2>2. si[6] = si[5] + q.nx + q.nw
      <3>1. si[6] = si[5] + (q.nx + q.nw)
        BY <1>7, <1>8
      <3> QED
        BY <1>0, <2>1, <3>1
    <2>3. si[7] = si[6] + q.npopt
      BY <1>2, <1>7
    <2>4. si[8] = si[7]
      BY <1>2, <1>7, <2>1
    <2> QED
      BY <2>2, <2>3, <2>4
  <1>11. si[2] = q.ne * (q.ncp + 1) * q.nx
    BY <1>5, <1>6, <1>7
  <1> QED
    BY <1>1, <1>2, <1>5, <1>6, <1>7, <1>9, <1>10, <1>11 DEF Starts, si

\* What shifting does to each part of xx.
GroupMoves(y, s, start, n, m, points) ==
    \A j \in 1..m : \A r \in 1..n :
        /\ start + (j - 1) * n + r \in 1..Len(y)
        /\ y[start + (j - 1) * n + r] = s[start + (Later1(j, m, points) - 1) * n + r]
EndMoves(y, s, start, n, from, points) ==
    \A r \in 1..n :
        /\ start + r \in 1..Len(y)
        /\ y[start + r] = s[from + (points - 1) * n + r]
BlockedMoves(y, q, s, k) ==
    \A b \in DOMAIN q.bf : \A f \in 1..Len(q.bf[b][2]) :
        /\ EndCont(q) + k[b - 1] + f \in 1..Len(y)
        /\ y[EndCont(q) + k[b - 1] + f] = s[EndCont(q) + k[b - 1] + NextFactor(q, b, f)]
Moved(y, q, s, k) ==
    LET si == SplitIndices(q)  points == q.ncp * q.nes  nf == Len(Free(q))
    IN  /\ Len(y) = si[8]
        /\ GroupMoves(y, s, 0, q.nx, q.ne * (q.ncp + 1), q.nes * (q.ncp + 1))
        /\ GroupMoves(y, s, si[2], q.nx, q.ne * q.ncp, points)
        /\ GroupMoves(y, s, si[3], q.nw, q.ne * q.ncp, points)
        /\ GroupMoves(y, s, si[4], nf, q.ne * q.ncp, points)
        /\ BlockedMoves(y, q, s, k)
        /\ EndMoves(y, s, EndCont(q) + FactorCount(q), nf, si[4], points)
        /\ EndMoves(y, s, si[5], q.nx, si[2], points)
        /\ EndMoves(y, s, si[5] + q.nx, q.nw, si[3], points)
        /\ \A r \in 1..q.npopt : si[6] + r \in 1..Len(y) /\ y[si[6] + r] = s[si[6] + r]

IsEndOfSample(e, s, start, n, points) ==
    Len(e) = n /\ \A r \in 1..n : e[r] = s[start + (points - 1) * n + r]
LEMMA EndOfSampleIs ==
    ASSUME NEW S, NEW s \in Seq(S), NEW start \in Nat, NEW n \in Nat, NEW points \in Nat \ {0},
           NEW m \in Nat, points <= m, start + m * n <= Len(s)
    PROVE  /\ EndOfSample(s, start, n, points) \in Seq(S)
           /\ IsEndOfSample(EndOfSample(s, start, n, points), s, start, n, points)
  <1> DEFINE a == start + (points - 1) * n  b == start + points * n
             e == EndOfSample(s, start, n, points)
  <1>1. a \in Nat /\ b \in Nat /\ a <= b /\ b <= Len(s) /\ b - a = n
    <2>1. PICK d \in Nat : m = points + d
      <3>1. m - points \in Nat /\ m = points + (m - points)
        OBVIOUS
      <3> QED
        BY <3>1
    <2>2. m * n = points * n + d * n /\ d * n \in Nat
      BY <2>1
    <2>3. PICK c \in Nat : points = c + 1
      <3>1. points - 1 \in Nat /\ points = (points - 1) + 1
        OBVIOUS
      <3> QED
        BY <3>1
    <2>4. points * n = c * n + n /\ c * n \in Nat /\ (points - 1) * n = c * n
      BY <2>3
    <2> QED
      BY <2>2, <2>4
  <1>2. e = Slice(s, a, b)
    BY DEF EndOfSample
  <1> HIDE DEF a, b, e
  <1>3. e \in Seq(S) /\ IsSlice(e, s, a, b)
    BY <1>1, <1>2, SliceIs
  <1>4. Len(e) = n /\ \A r \in 1..n : e[r] = s[a + r]
    BY <1>1, <1>3 DEF IsSlice
  <1>5. \A r \in 1..n : a + r = start + (points - 1) * n + r
    BY DEF a
  <1> QED
    BY <1>3, <1>4, <1>5 DEF e, IsEndOfSample

\* The nine parts of the shifted vector.
MovedParts(q, s) ==
    LET si == SplitIndices(q)  points == q.ncp * q.nes  nf == Len(Free(q))
    IN  << ShiftGroup(s, si[1], si[2], q.nx, q.nes * (q.ncp + 1)),
           ShiftGroup(s, si[2], si[3], q.nx, points),
           ShiftGroup(s, si[3], si[4], q.nw, points),
           ShiftGroup(s, si[4], si[4] + nf * q.ncp * q.ne, nf, points),
           ShiftBlocked(q, s, si[4] + nf * q.ncp * q.ne),
           EndOfSample(s, si[4], nf, points),
           EndOfSample(s, si[2], q.nx, points),
           EndOfSample(s, si[3], q.nw, points),
           Slice(s, si[6], si[7]) >>

LEMMA ShiftJoinsParts ==
    ASSUME NEW q, NEW s
    PROVE  ShiftXX(q, q.nes, s) = FlattenSeq(MovedParts(q, s))
  <1> DEFINE ss == MovedParts(q, s)
  <1>1. ShiftXX(q, q.nes, s) = ss[1] \o ss[2] \o ss[3] \o ss[4] \o ss[5] \o ss[6] \o ss[7]
                                 \o ss[8] \o ss[9]
    BY DEF ShiftXX, MovedParts
  <1>2. Len(ss) = 9
    BY DEF MovedParts
  <1> HIDE DEF ss
  <1>3. Concatenated(FlattenSeq(ss), ss)
    BY <1>2, NineJoined
  <1> QED
    BY <1>1, <1>3 DEF Concatenated, ss

LEMMA PartsAre ==
    ASSUME NEW q \in Problems, Shiftable(q), NEW S, NEW s \in Seq(S),
           Len(s) = SplitIndices(q)[8], NEW k, FactorsBegin(q, k)
    PROVE  LET si == SplitIndices(q)  points == q.ncp * q.nes  nf == Len(Free(q))
               ss == MovedParts(q, s)
           IN  /\ ss \in Seq(Seq(S)) /\ Len(ss) = 9
               /\ IsShifted(ss[1], s, 0, q.nx, q.ne * (q.ncp + 1), q.nes * (q.ncp + 1))
               /\ IsShifted(ss[2], s, si[2], q.nx, q.ne * q.ncp, points)
               /\ IsShifted(ss[3], s, si[3], q.nw, q.ne * q.ncp, points)
               /\ IsShifted(ss[4], s, si[4], nf, q.ne * q.ncp, points)
               /\ BlockedShifted(ss[5], q, s, EndCont(q), k)
               /\ IsEndOfSample(ss[6], s, si[4], nf, points)
               /\ IsEndOfSample(ss[7], s, si[2], q.nx, points)
               /\ IsEndOfSample(ss[8], s, si[3], q.nw, points)
               /\ Len(ss[9]) = q.npopt /\ \A r \in 1..q.npopt : ss[9][r] = s[si[6] + r]
  <1> DEFINE si == SplitIndices(q)  points == q.ncp * q.nes  nf == Len(Free(q))
             m == q.ne * q.ncp  mx == q.ne * (q.ncp + 1)  px == q.nes * (q.ncp + 1)
             fc == FactorCount(q)
             t1 == ShiftGroup(s, si[1], si[2], q.nx, px)
             t2 == ShiftGroup(s, si[2], si[3], q.nx, points)
             t3 == ShiftGroup(s, si[3], si[4], q.nw, points)
             t4 == ShiftGroup(s, si[4], EndCont(q), nf, points)
             t5 == ShiftBlocked(q, s, EndCont(q))
             t6 == EndOfSample(s, si[4], nf, points)
             t7 == EndOfSample(s, si[2], q.nx, points)
             t8 == EndOfSample(s, si[3], q.nw, points)
             t9 == Slice(s, si[6], si[7])
  <1>1. /\ q.nx \in Nat /\ q.nw \in Nat /\ q.npopt \in Nat
        /\ points \in Nat \ {0} /\ px \in Nat \ {0} /\ points <= m /\ px <= mx
        /\ m \in Nat /\ mx \in Nat /\ q.ne \in Nat /\ q.ncp \in Nat
    BY SampleNumbers DEF Shiftable
  <1>1a. q.nx \in Nat /\ q.nw \in Nat /\ q.npopt \in Nat
    BY <1>1
  <1>2. Starts(q)
    BY StartsAre DEF Shiftable
  <1>3. /\ \A g \in 1..8 : si[g] \in Nat
        /\ nf \in Nat /\ fc \in Nat /\ ContPart(q) \in Nat
        /\ mx * q.nx \in Nat /\ m * q.nx \in Nat /\ m * q.nw \in Nat /\ m * nf \in Nat
        /\ si[1] = 0 /\ si[2] = mx * q.nx /\ si[3] = si[2] + m * q.nx
        /\ si[4] = si[3] + m * q.nw /\ EndCont(q) = si[4] + m * nf
        /\ si[5] = si[4] + ContPart(q) + fc + nf /\ ContPart(q) = m * nf
        /\ si[6] = si[5] + q.nx + q.nw /\ si[7] = si[6] + q.npopt /\ si[8] = si[7]
    BY <1>2 DEF Starts, ContPart, EndCont
  <1>4. nf * q.ncp * q.ne = m * nf
    <2>1. Reordered(q.ne, q.ncp, nf)
      BY <1>1, <1>3, ReorderedProduct
    <2> QED
      BY <2>1 DEF Reordered
  <1> DEFINE ss == MovedParts(q, s)
  <1>5. ss = <<t1, t2, t3, t4, t5, t6, t7, t8, t9>>
    BY <1>3, <1>4 DEF MovedParts
  <1> DEFINE ax == mx * q.nx  bx == m * q.nx  bw == m * q.nw  bf == m * nf
  <1>6. /\ ax \in Nat /\ bx \in Nat /\ bw \in Nat /\ bf \in Nat
        /\ si[1] = 0 /\ si[2] = ax /\ si[3] = si[2] + bx
        /\ si[4] = si[3] + bw /\ EndCont(q) = si[4] + bf /\ si[5] = (si[4] + bf) + fc + nf
        /\ si[6] = si[5] + q.nx + q.nw /\ si[7] = si[6] + q.npopt /\ si[8] = si[7]
        /\ nf \in Nat /\ fc \in Nat
    <2>1. si[5] = (si[4] + bf) + fc + nf
      BY <1>3
    <2> QED
      BY <1>3, <2>1
  <1>7a. \A g \in 1..8 : si[g] \in Nat
    BY <1>3
  <1> HIDE DEF si, nf, fc, ax, bx, bw, bf
  <1>7. /\ si[2] \in Nat /\ si[3] \in Nat /\ si[4] \in Nat /\ si[5] \in Nat
        /\ si[6] \in Nat /\ si[7] \in Nat /\ si[8] \in Nat
    BY <1>7a
  <1>8. /\ si[2] <= si[8] /\ si[3] <= si[8] /\ si[4] <= si[8] /\ EndCont(q) <= si[8]
        /\ EndCont(q) + fc <= si[8] /\ si[6] <= si[8] /\ si[5] <= si[8] /\ EndCont(q) \in Nat
    <2>1. si[6] <= si[8] /\ si[5] <= si[6]
      <3>1. si[6] <= si[7]
        BY <1>1, <1>6, <1>7, SMTT(30)
      <3>2. si[5] <= si[6]
        <4>1. si[6] = si[5] + q.nx + q.nw /\ si[5] \in Nat /\ si[6] \in Nat
          BY <1>6, <1>7
        <4> QED
          BY <1>1a, <4>1
      <3> QED
        BY <1>6, <3>1, <3>2
    <2>2. EndCont(q) \in Nat /\ si[4] <= EndCont(q)
      BY <1>6, <1>7
    <2>3. EndCont(q) + fc <= si[5] /\ EndCont(q) <= si[5]
      BY <1>6, <1>7, <2>2
    <2>4. si[2] <= si[3] /\ si[3] <= si[4]
      BY <1>6, <1>7
    <2> QED
      BY <1>6, <1>7, <2>1, <2>2, <2>3, <2>4, SMTT(30)
  <1>9. Len(s) = si[8]
    BY DEF si
  <1>10. 1 <= points /\ 1 <= px /\ points \in Nat /\ px \in Nat
    BY <1>1, SMTT(30)
  <1> HIDE DEF points, px, m, mx
  <1>11. t1 \in Seq(S) /\ IsShifted(t1, s, 0, q.nx, mx, px)
    <2>1. t1 = ShiftGroup(s, 0, 0 + mx * q.nx, q.nx, px)
      <3>1. 0 + mx * q.nx = si[2]
        BY <1>6 DEF ax
      <3> QED
        BY <1>6, <3>1
    <2>2. 0 + mx * q.nx <= Len(s)
      BY <1>6, <1>8, <1>9 DEF ax
    <2> HIDE DEF t1
    <2> QED
      BY <1>1, <1>10, <2>1, <2>2, ShiftGroupIs
  <1>12. t2 \in Seq(S) /\ IsShifted(t2, s, si[2], q.nx, m, points)
    <2>1. t2 = ShiftGroup(s, si[2], si[2] + m * q.nx, q.nx, points)
      BY <1>6 DEF bx
    <2>2. si[2] + m * q.nx <= Len(s)
      BY <1>6, <1>8, <1>9 DEF bx
    <2> HIDE DEF t2
    <2> QED
      BY <1>1, <1>7, <1>10, <2>1, <2>2, ShiftGroupIs
  <1>13. t3 \in Seq(S) /\ IsShifted(t3, s, si[3], q.nw, m, points)
    <2>1. t3 = ShiftGroup(s, si[3], si[3] + m * q.nw, q.nw, points)
      BY <1>6 DEF bw
    <2>2. si[3] + m * q.nw <= Len(s)
      BY <1>6, <1>8, <1>9 DEF bw
    <2> HIDE DEF t3
    <2> QED
      BY <1>1, <1>7, <1>10, <2>1, <2>2, ShiftGroupIs
  <1>14. t4 \in Seq(S) /\ IsShifted(t4, s, si[4], nf, m, points)
    <2>1. t4 = ShiftGroup(s, si[4], si[4] + m * nf, nf, points)
      BY <1>6 DEF bf
    <2>2. si[4] + m * nf <= Len(s)
      BY <1>6, <1>8, <1>9 DEF bf
    <2> HIDE DEF t4
    <2> QED
      BY <1>1, <1>6, <1>7, <1>10, <2>1, <2>2, ShiftGroupIs
  <1>15. t5 \in Seq(S) /\ BlockedShifted(t5, q, s, EndCont(q), k)
    <2>1. \A b \in DOMAIN q.bf : BlockedCount(q) <= Len(q.bf[b][2])
      BY DEF Shiftable
    <2>2. EndCont(q) \in Nat /\ EndCont(q) + FactorCount(q) <= Len(s)
      BY <1>8, <1>9 DEF fc
    <2> QED
      BY <2>1, <2>2, ShiftBlockedIs
  <1>16. t6 \in Seq(S) /\ IsEndOfSample(t6, s, si[4], nf, points)
    <2>1. si[4] + m * nf <= Len(s)
      BY <1>6, <1>8, <1>9 DEF bf
    <2> QED
      BY <1>1, <1>6, <1>7, <2>1, EndOfSampleIs
  <1>17. t7 \in Seq(S) /\ IsEndOfSample(t7, s, si[2], q.nx, points)
    <2>1. si[2] + m * q.nx <= Len(s)
      BY <1>6, <1>8, <1>9 DEF bx
    <2> QED
      BY <1>1, <1>7, <2>1, EndOfSampleIs
  <1>18. t8 \in Seq(S) /\ IsEndOfSample(t8, s, si[3], q.nw, points)
    <2>1. si[3] + m * q.nw <= Len(s)
      BY <1>6, <1>8, <1>9 DEF bw
    <2> QED
      BY <1>1, <1>7, <2>1, EndOfSampleIs
  <1>19. t9 \in Seq(S) /\ Len(t9) = q.npopt /\ \A r \in 1..q.npopt : t9[r] = s[si[6] + r]
    <2>1. si[6] <= si[7] /\ si[7] <= Len(s) /\ si[7] - si[6] = q.npopt
      <3>1. si[6] <= si[7]
        BY <1>1, <1>6, <1>7
      <3>2. si[7] - si[6] = q.npopt
        <4>1. si[7] = si[6] + q.npopt /\ si[6] \in Nat /\ si[7] \in Nat
          BY <1>6, <1>7
        <4> QED
          BY <1>1a, <4>1
      <3>3. si[7] <= Len(s)
        BY <1>6, <1>7, <1>9
      <3> QED
        BY <3>1, <3>2, <3>3
    <2>2. t9 \in Seq(S) /\ IsSlice(t9, s, si[6], si[7])
      BY <1>7, <2>1, SliceIs
    <2> QED
      BY <2>1, <2>2 DEF IsSlice
  <1> HIDE DEF t1, t2, t3, t4, t5, t6, t7, t8, t9, ss
  <1>20. ss \in Seq(Seq(S)) /\ Len(ss) = 9
    BY <1>5, <1>11, <1>12, <1>13, <1>14, <1>15, <1>16, <1>17, <1>18, <1>19
  <1>21. /\ ss[1] = t1 /\ ss[2] = t2 /\ ss[3] = t3 /\ ss[4] = t4 /\ ss[5] = t5 /\ ss[6] = t6
         /\ ss[7] = t7 /\ ss[8] = t8 /\ ss[9] = t9
    BY <1>5
  <1>22. /\ IsShifted(ss[1], s, 0, q.nx, mx, px)
         /\ IsShifted(ss[2], s, si[2], q.nx, m, points)
         /\ IsShifted(ss[3], s, si[3], q.nw, m, points)
         /\ IsShifted(ss[4], s, si[4], nf, m, points)
         /\ BlockedShifted(ss[5], q, s, EndCont(q), k)
    BY <1>11, <1>12, <1>13, <1>14, <1>15, <1>21
  <1>23. /\ IsEndOfSample(ss[6], s, si[4], nf, points)
         /\ IsEndOfSample(ss[7], s, si[2], q.nx, points)
         /\ IsEndOfSample(ss[8], s, si[3], q.nw, points)
         /\ Len(ss[9]) = q.npopt /\ \A r \in 1..q.npopt : ss[9][r] = s[si[6] + r]
    BY <1>16, <1>17, <1>18, <1>19, <1>21
  <1> QED
    BY <1>20, <1>22, <1>23 DEF ss, si, points, nf, m, mx, px

\* The shifted vector is as long as the one before, and each part of it is
\* made of entries of that part, or of the group whose end it stands for.
LEMMA ShiftMoves ==
    ASSUME NEW q \in Problems, Shiftable(q), NEW S, NEW s \in Seq(S),
           Len(s) = SplitIndices(q)[8], NEW k, FactorsBegin(q, k)
    PROVE  ShiftXX(q, q.nes, s) \in Seq(S) /\ Moved(ShiftXX(q, q.nes, s), q, s, k)
  <1> DEFINE si == SplitIndices(q)  points == q.ncp * q.nes  nf == Len(Free(q))
             m == q.ne * q.ncp  mx == q.ne * (q.ncp + 1)  px == q.nes * (q.ncp + 1)
             fc == FactorCount(q)
             ss == MovedParts(q, s)  y == ShiftXX(q, q.nes, s)
             at == <<0, si[2], si[3], si[4], EndCont(q), EndCont(q) + fc, si[5], si[5] + q.nx,
                     si[6], si[7]>>
             kk == [n \in 0..9 |-> at[n + 1]]
  <1>1. /\ ss \in Seq(Seq(S)) /\ Len(ss) = 9
        /\ IsShifted(ss[1], s, 0, q.nx, mx, px)
        /\ IsShifted(ss[2], s, si[2], q.nx, m, points)
        /\ IsShifted(ss[3], s, si[3], q.nw, m, points)
        /\ IsShifted(ss[4], s, si[4], nf, m, points)
        /\ BlockedShifted(ss[5], q, s, EndCont(q), k)
        /\ IsEndOfSample(ss[6], s, si[4], nf, points)
        /\ IsEndOfSample(ss[7], s, si[2], q.nx, points)
        /\ IsEndOfSample(ss[8], s, si[3], q.nw, points)
        /\ Len(ss[9]) = q.npopt /\ \A r \in 1..q.npopt : ss[9][r] = s[si[6] + r]
    BY PartsAre
  <1>2. Starts(q)
    BY StartsAre DEF Shiftable
  <1>3. q.nx \in Nat /\ q.nw \in Nat /\ q.npopt \in Nat
    BY SampleNumbers DEF Shiftable
  <1>4. /\ \A g \in 1..8 : si[g] \in Nat
        /\ nf \in Nat /\ fc \in Nat
        /\ si[2] = mx * q.nx /\ si[3] = si[2] + m * q.nx
        /\ si[4] = si[3] + m * q.nw /\ EndCont(q) = si[4] + m * nf /\ EndCont(q) \in Nat
        /\ si[5] = EndCont(q) + fc + nf
        /\ si[6] = si[5] + q.nx + q.nw /\ si[7] = si[6] + q.npopt /\ si[8] = si[7]
    <2>1. /\ \A g \in 1..8 : si[g] \in Nat
          /\ nf \in Nat /\ fc \in Nat /\ ContPart(q) \in Nat
          /\ si[2] = mx * q.nx /\ si[3] = si[2] + m * q.nx
          /\ si[4] = si[3] + m * q.nw /\ EndCont(q) = si[4] + m * nf
          /\ si[5] = si[4] + ContPart(q) + fc + nf /\ ContPart(q) = m * nf
          /\ si[6] = si[5] + q.nx + q.nw /\ si[7] = si[6] + q.npopt /\ si[8] = si[7]
      BY <1>2 DEF Starts, ContPart, EndCont
    <2> HIDE DEF si, m, mx, nf, fc
    <2>2. EndCont(q) = si[4] + ContPart(q) /\ si[4] \in Nat
      BY <2>1
    <2>3. EndCont(q) \in Nat
      <3>1. ContPart(q) \in Nat
        BY <2>1
      <3> QED
        BY <2>2, <3>1
    <2>4. si[5] = EndCont(q) + fc + nf
      <3>1. si[5] = si[4] + ContPart(q) + fc + nf
        BY <2>1
      <3> QED
        BY <2>2, <3>1
    <2> QED
      BY <2>1, <2>3, <2>4
  <1>5. y = FlattenSeq(ss)
    BY ShiftJoinsParts
  <1> HIDE DEF si, points, m, mx, px, nf, fc, ss, y
  <1>6. /\ kk[0] = 0 /\ kk[1] = si[2] /\ kk[2] = si[3] /\ kk[3] = si[4] /\ kk[4] = EndCont(q)
        /\ kk[5] = EndCont(q) + fc /\ kk[6] = si[5] /\ kk[7] = si[5] + q.nx /\ kk[8] = si[6]
        /\ kk[9] = si[7]
    OBVIOUS
  <1> HIDE DEF kk, at
  <1>7. /\ Len(ss[1]) = mx * q.nx /\ Len(ss[2]) = m * q.nx /\ Len(ss[3]) = m * q.nw
        /\ Len(ss[4]) = m * nf /\ Len(ss[5]) = fc /\ Len(ss[6]) = nf /\ Len(ss[7]) = q.nx
        /\ Len(ss[8]) = q.nw /\ Len(ss[9]) = q.npopt
    BY <1>1 DEF IsShifted, BlockedShifted, IsEndOfSample, fc
  <1>8. Sums(kk, Lengths(ss))
    <2>1. /\ Len(Lengths(ss)) = 9
          /\ \A j \in 1..9 : Lengths(ss)[j] = Len(ss[j]) /\ Len(ss[j]) \in Nat
      BY <1>1, LengthsType
    <2> DEFINE t == Lengths(ss)
    <2> HIDE DEF t
    <2>2. /\ t[1] = mx * q.nx /\ t[2] = m * q.nx /\ t[3] = m * q.nw
          /\ t[4] = m * nf /\ t[5] = fc /\ t[6] = nf /\ t[7] = q.nx
          /\ t[8] = q.nw /\ t[9] = q.npopt /\ Len(t) = 9 /\ t[1] \in Nat
      <3>1. Len(t) = 9 /\ \A j \in 1..9 : t[j] = Len(ss[j]) /\ Len(ss[j]) \in Nat
        BY <2>1 DEF t
      <3>2. /\ t[1] = Len(ss[1]) /\ t[2] = Len(ss[2]) /\ t[3] = Len(ss[3]) /\ t[4] = Len(ss[4])
            /\ t[5] = Len(ss[5]) /\ t[6] = Len(ss[6]) /\ t[7] = Len(ss[7])
            /\ t[8] = Len(ss[8]) /\ t[9] = Len(ss[9]) /\ t[1] \in Nat
        BY <3>1, SMTT(30)
      <3> QED
        BY <1>7, <3>1, <3>2
    <2>3. /\ kk[1] = kk[0] + t[1] /\ kk[2] = kk[1] + t[2] /\ kk[3] = kk[2] + t[3]
          /\ kk[4] = kk[3] + t[4] /\ kk[5] = kk[4] + t[5] /\ kk[6] = kk[5] + t[6]
          /\ kk[7] = kk[6] + t[7] /\ kk[8] = kk[7] + t[8] /\ kk[9] = kk[8] + t[9]
      <3>1. kk[1] = kk[0] + t[1]
        BY <1>4, <1>6, <2>2
      <3>2. kk[2] = kk[1] + t[2] /\ kk[3] = kk[2] + t[3] /\ kk[4] = kk[3] + t[4]
        BY <1>4, <1>6, <2>2
      <3>3. kk[5] = kk[4] + t[5] /\ kk[6] = kk[5] + t[6] /\ kk[7] = kk[6] + t[7]
        BY <1>4, <1>6, <2>2
      <3>4. kk[8] = kk[7] + t[8] /\ kk[9] = kk[8] + t[9]
        BY <1>4, <1>6, <2>2
      <3> QED
        BY <3>1, <3>2, <3>3, <3>4
    <2>4. \A n \in 1..9 : kk[n] = kk[n - 1] + t[n]
      <3> SUFFICES ASSUME NEW n \in 1..9 PROVE kk[n] = kk[n - 1] + t[n]
        OBVIOUS
      <3>1. n = 1 \/ n = 2 \/ n = 3 \/ n = 4 \/ n = 5 \/ n = 6 \/ n = 7 \/ n = 8 \/ n = 9
        OBVIOUS
      <3> QED
        BY <2>3, <3>1
    <2> QED
      BY <1>6, <2>2, <2>4 DEF Sums, t
  <1>9. y \in Seq(S) /\ Joined(y, ss, kk, 9)
    BY <1>1, <1>5, <1>8, FlattenJoins
  <1>10. Len(y) = si[8]
    BY <1>4, <1>6, <1>9 DEF Joined
  <1>11. \A j \in 1..9 : \A r \in 1..Len(ss[j]) :
            kk[j - 1] + r \in 1..Len(y) /\ y[kk[j - 1] + r] = ss[j][r]
    BY <1>9 DEF Joined
  <1> DEFINE part(start, t) == \A r \in 1..Len(t) : start + r \in 1..Len(y) /\ y[start + r] = t[r]
  <1>12. /\ part(0, ss[1]) /\ part(si[2], ss[2]) /\ part(si[3], ss[3]) /\ part(si[4], ss[4])
         /\ part(EndCont(q), ss[5]) /\ part(EndCont(q) + fc, ss[6]) /\ part(si[5], ss[7])
         /\ part(si[5] + q.nx, ss[8]) /\ part(si[6], ss[9])
    <2>1. \A j \in 1..9 : part(kk[j - 1], ss[j])
      BY <1>11
    <2> HIDE DEF part
    <2>2. /\ part(kk[0], ss[1]) /\ part(kk[1], ss[2]) /\ part(kk[2], ss[3])
          /\ part(kk[3], ss[4]) /\ part(kk[4], ss[5]) /\ part(kk[5], ss[6])
          /\ part(kk[6], ss[7]) /\ part(kk[7], ss[8]) /\ part(kk[8], ss[9])
      <3>1. /\ 1 - 1 = 0 /\ 2 - 1 = 1 /\ 3 - 1 = 2 /\ 4 - 1 = 3 /\ 5 - 1 = 4 /\ 6 - 1 = 5
            /\ 7 - 1 = 6 /\ 8 - 1 = 7 /\ 9 - 1 = 8
        OBVIOUS
      <3> DEFINE at2(j) == part(kk[j - 1], ss[j])
      <3>2. \A j \in 1..9 : at2(j)
        BY <2>1
      <3> HIDE DEF at2
      <3>3. /\ at2(1) /\ at2(2) /\ at2(3) /\ at2(4) /\ at2(5) /\ at2(6) /\ at2(7) /\ at2(8)
            /\ at2(9)
        BY <3>2
      <3> QED
        BY <3>1, <3>3 DEF at2
    <2> QED
      BY <1>6, <2>2
  <1>13. ASSUME NEW start, NEW n, NEW mm, NEW pp, NEW t, part(start, t), start \in Nat, n \in Nat,
                mm \in Nat, IsShifted(t, s, start, n, mm, pp)
         PROVE  GroupMoves(y, s, start, n, mm, pp)
    <2> SUFFICES ASSUME NEW j \in 1..mm, NEW r \in 1..n
                 PROVE  /\ start + (j - 1) * n + r \in 1..Len(y)
                        /\ y[start + (j - 1) * n + r] = s[start + (Later1(j, mm, pp) - 1) * n + r]
      BY DEF GroupMoves
    <2> DEFINE i == (j - 1) * n + r
    <2>1. i \in 1..Len(t) /\ t[i] = s[start + (Later1(j, mm, pp) - 1) * n + r]
      BY <1>13 DEF IsShifted
    <2>2. start + i \in 1..Len(y) /\ y[start + i] = t[i]
      BY <1>13, <2>1
    <2>3. start + i = start + (j - 1) * n + r
      BY <1>13
    <2> DEFINE to == start + (j - 1) * n + r
    <2>4. start + i = to
      BY <2>3
    <2> HIDE DEF i, to
    <2>5. to \in 1..Len(y) /\ y[to] = s[start + (Later1(j, mm, pp) - 1) * n + r]
      BY <2>1, <2>2, <2>4
    <2> QED
      BY <2>5 DEF to
  <1>14. ASSUME NEW start, NEW n, NEW from, NEW pp, NEW t, part(start, t),
                IsEndOfSample(t, s, from, n, pp)
         PROVE  EndMoves(y, s, start, n, from, pp)
    BY <1>14 DEF EndMoves, IsEndOfSample
  <1>15. /\ si[2] \in Nat /\ si[3] \in Nat /\ si[4] \in Nat
         /\ m \in Nat /\ mx \in Nat
    <2>1. m \in Nat /\ mx \in Nat
      BY SampleNumbers DEF Shiftable, m, mx
    <2>2. \A g \in 1..8 : si[g] \in Nat
      BY <1>4
    <2>3. si[2] \in Nat /\ si[3] \in Nat /\ si[4] \in Nat
      BY ONLY <2>2
    <2> QED
      BY <2>1, <2>3
  <1>16. BlockedMoves(y, q, s, k)
    <2> SUFFICES ASSUME NEW b \in DOMAIN q.bf, NEW f \in 1..Len(q.bf[b][2])
                 PROVE  /\ EndCont(q) + k[b - 1] + f \in 1..Len(y)
                        /\ y[EndCont(q) + k[b - 1] + f]
                             = s[EndCont(q) + k[b - 1] + NextFactor(q, b, f)]
      BY DEF BlockedMoves
    <2>1. k[b - 1] \in Nat /\ f \in Nat
      <3>1. k[b - 1] \in Nat /\ Len(q.bf[b][2]) \in Nat
        BY DEF FactorsBegin
      <3> QED
        BY <3>1
    <2>2. /\ k[b - 1] + f \in 1..Len(ss[5])
          /\ ss[5][k[b - 1] + f] = s[EndCont(q) + k[b - 1] + NextFactor(q, b, f)]
      BY <1>1 DEF BlockedShifted
    <2>3. /\ EndCont(q) + (k[b - 1] + f) \in 1..Len(y)
          /\ y[EndCont(q) + (k[b - 1] + f)] = ss[5][k[b - 1] + f]
      BY <1>12, <2>2
    <2>4. EndCont(q) + (k[b - 1] + f) = EndCont(q) + k[b - 1] + f
      BY <1>4, <2>1
    <2> QED
      BY <2>2, <2>3, <2>4
  <1>17. \A r \in 1..q.npopt : si[6] + r \in 1..Len(y) /\ y[si[6] + r] = s[si[6] + r]
    BY <1>1, <1>12
  <1> HIDE DEF part
  <1>18. GroupMoves(y, s, 0, q.nx, mx, px)
    BY <1>1, <1>3, <1>12, <1>13, <1>15
  <1>19. GroupMoves(y, s, si[2], q.nx, m, points)
    BY <1>1, <1>3, <1>12, <1>13, <1>15
  <1>20. GroupMoves(y, s, si[3], q.nw, m, points)
    BY <1>1, <1>3, <1>12, <1>13, <1>15
  <1>21. GroupMoves(y, s, si[4], nf, m, points)
    BY <1>1, <1>4, <1>12, <1>13, <1>15
  <1>22. /\ EndMoves(y, s, EndCont(q) + fc, nf, si[4], points)
         /\ EndMoves(y, s, si[5], q.nx, si[2], points)
         /\ EndMoves(y, s, si[5] + q.nx, q.nw, si[3], points)
    BY <1>1, <1>12, <1>14
  <1>23. Moved(y, q, s, k)
    BY <1>10, <1>16, <1>17, <1>18, <1>19, <1>20, <1>21, <1>22
    DEF Moved, si, points, nf, m, mx, px, fc
  <1> QED
    BY <1>9, <1>23 DEF y

-----------------------------------------------------------------------------
(* The vector keeps its length, sample after sample.                       *)

SameAsMade ==
    /\ p \in Problems /\ shifts \in 0..p.ne
    /\ shifts = 0 \/ SlicesDisjoint => xx \in Seq(Entries) /\ Len(xx) = NXX(p)
    /\ shifts = 0 => xx = Layout(p)

LEMMA SameAsMadeInit == Init => SameAsMade
  <1> SUFFICES ASSUME Init PROVE SameAsMade
    OBVIOUS
  <1>1. p \in Problems /\ xx = Layout(p) /\ shifts = 0
    BY DEF Init
  <1>2. Layout(p) \in Seq(Entries) /\ Len(Layout(p)) = SplitIndices(p)[8]
    BY <1>1, LayoutIs
  <1>3. NXX(p) = SplitIndices(p)[8]
    BY <1>1, VariablesAreCounted
  <1>4. p.ne \in Nat
    BY <1>1, ProblemsAssumption
  <1> QED
    BY <1>1, <1>2, <1>3, <1>4 DEF SameAsMade

LEMMA HorizonIs ==
    ASSUME NEW q \in Problems, q.nes > 0
    PROVE  q.ne \div q.nes \in Nat /\ q.ne \div q.nes <= q.ne
  <1>1. q.ne \in Nat \ {0} /\ q.nes \in Nat \ {0}
    BY SampleNumbers
  <1>2. \A a, b \in Nat \ {0} : a \div b \in Nat /\ a \div b <= a
    OBVIOUS
  <1> QED
    BY <1>1, <1>2

LEMMA SameAsMadeNext ==
    ASSUME SameAsMade, [Next]_vars
    PROVE  SameAsMade'
  <1>1. CASE UNCHANGED vars
    BY <1>1 DEF SameAsMade, SlicesDisjoint, vars
  <1>2. CASE Shift
    <2>1. p \in Problems /\ p.nes > 0 /\ p' = p /\ xx' = ShiftXX(p, p.nes, xx)
          /\ shifts < Horizon /\ shifts' = shifts + 1 /\ shifts \in Nat
      <3>1. p \in Problems /\ shifts \in 0..p.ne
        BY DEF SameAsMade
      <3> QED
        BY <1>2, <3>1 DEF Shift
    <2>2. shifts' \in 0..p.ne /\ shifts' # 0
      <3>1. Horizon \in Nat /\ Horizon <= p.ne /\ p.ne \in Nat
        BY <2>1, HorizonIs, ProblemsAssumption DEF Horizon
      <3> QED
        BY <2>1, <3>1
    <2>3. SlicesDisjoint' => SlicesDisjoint
      BY <2>1 DEF SlicesDisjoint
    <2>4. ASSUME SlicesDisjoint PROVE xx' \in Seq(Entries) /\ Len(xx') = NXX(p)
      <3>1. xx \in Seq(Entries) /\ Len(xx) = SplitIndices(p)[8]
        BY <2>1, <2>4, VariablesAreCounted DEF SameAsMade
      <3>2. Shiftable(p)
        BY <2>1, <2>4 DEF Shiftable, SlicesDisjoint, BlockedCount
      <3>3. PICK k : FactorsBegin(p, k)
        BY <2>1, FactorsBeginSomewhere
      <3>4. xx' \in Seq(Entries) /\ Moved(xx', p, xx, k)
        BY <2>1, <3>1, <3>2, <3>3, ShiftMoves
      <3> QED
        BY <2>1, <3>4, VariablesAreCounted DEF Moved
    <2> QED
      BY <2>1, <2>2, <2>3, <2>4 DEF SameAsMade
  <1> QED
    BY <1>1, <1>2 DEF Next

LEMMA SameAsMadeAlways == Spec => []SameAsMade
  <1>1. Init => SameAsMade
    BY SameAsMadeInit
  <1>2. SameAsMade /\ [Next]_vars => SameAsMade'
    BY SameAsMadeNext
  <1> QED
    BY <1>1, <1>2, PTL DEF Spec

\* The types: the groups of xx begin at numbers from 0 to the number of
\* variables (global_split_indices), however often the vector is shifted.
THEOREM TypesAreKept == Spec => []TypeOK
  <1>1. SameAsMade => TypeOK
    <2> SUFFICES ASSUME SameAsMade PROVE TypeOK
      OBVIOUS
    <2>1. p \in Problems /\ shifts \in 0..p.ne
      BY DEF SameAsMade
    <2>2. NXX(p) = SplitIndices(p)[8] /\ NXX(p) \in Nat
      BY <2>1, VariablesAreCounted
    <2>3. SplitIndices(p) \in [1..8 -> 0..SplitIndices(p)[8]]
      BY <2>1, SplitIndicesAre
    <2> QED
      BY <2>1, <2>2, <2>3 DEF TypeOK
  <1> QED
    BY <1>1, SameAsMadeAlways, PTL

\* The assertions at the end of _create_nlp_variables, for every problem: the
\* number of variables that is computed in advance is the number of entries
\* that are made, group by group; and every shift by _shift_xx keeps it, in a
\* problem with no more inputs that have factors than factors in each list.
THEOREM CountsAlwaysAgree == Spec => []CountsAgree
  <1>1. SameAsMade => CountsAgree
    <2> SUFFICES ASSUME SameAsMade PROVE CountsAgree
      OBVIOUS
    <2>1. p \in Problems /\ (Constructed \/ SlicesDisjoint => Len(xx) = NXX(p))
      BY DEF SameAsMade, Constructed
    <2>2. \A g \in 1..7 : Len(Groups(p)[g]) = SplitSizes(p)[g]
      BY <2>1, GroupSizes
    <2> QED
      BY <2>1, <2>2 DEF CountsAgree
  <1> QED
    BY <1>1, SameAsMadeAlways, PTL

-----------------------------------------------------------------------------
(* Counting the residuals of blocks.                                       *)

Types == {"initial", "dae", "u_1_0", "continuity", "terminal_unelim_u", "terminal_w",
          "terminal_dx", "h_sum", "path_eq", "point_eq", "other", "collocation",
          "path_ineq", "point_ineq", "delta_u_ub", "delta_u_lb"}
AllBlocks == [type : Types, n : Nat, pt : Points]
Sizes(blocks) == [j \in DOMAIN blocks |-> blocks[j].n]

LEMMA BlockIs ==
    ASSUME NEW type \in Types, NEW n \in Nat, NEW pt \in Points
    PROVE  Block(type, n, pt) \in AllBlocks /\ Block(type, n, pt).n = n
  BY DEF Block, AllBlocks

LEMMA SizesAre ==
    ASSUME NEW a \in Seq(AllBlocks)
    PROVE  /\ Sizes(a) \in Seq(Nat) /\ Sizes(a) \in Seq(Int) /\ Len(Sizes(a)) = Len(a)
           /\ \A j \in 1..Len(a) : Sizes(a)[j] = a[j].n
           /\ Numel(a) = Total(Sizes(a)) /\ Numel(a) \in Nat
  <1>1. \A j \in 1..Len(a) : a[j].n \in Nat
    <2>1. \A j \in 1..Len(a) : a[j] \in AllBlocks
      OBVIOUS
    <2> QED
      BY <2>1 DEF AllBlocks
  <1>2. DOMAIN a = 1..Len(a) /\ Len(a) \in Nat
    OBVIOUS
  <1>3. Sizes(a) = [j \in 1..Len(a) |-> a[j].n]
    BY <1>2 DEF Sizes
  <1>4. Sizes(a) \in Seq(Nat) /\ Sizes(a) \in Seq(Int) /\ Len(Sizes(a)) = Len(a)
    BY <1>1, <1>2, <1>3
  <1>5. Numel(a) = Total(Sizes(a))
    BY DEF Numel, Sizes
  <1> QED
    BY <1>3, <1>4, <1>5, TotalType

LEMMA NumelOfTwo ==
    ASSUME NEW a \in Seq(AllBlocks), NEW b \in Seq(AllBlocks)
    PROVE  a \o b \in Seq(AllBlocks) /\ Numel(a \o b) = Numel(a) + Numel(b)
  <1> DEFINE c == a \o b
  <1>1. c \in Seq(AllBlocks) /\ IsPair(c, a, b)
    BY PairIs
  <1> HIDE DEF c
  <1>2. /\ Len(a) \in Nat /\ Len(b) \in Nat /\ Len(c) = Len(a) + Len(b)
        /\ \A r \in 1..Len(a) : c[r] = a[r]
        /\ \A r \in 1..Len(b) : c[Len(a) + r] = b[r]
    BY <1>1 DEF IsPair
  <1>3. /\ Sizes(a) \in Seq(Int) /\ Len(Sizes(a)) = Len(a)
        /\ \A j \in 1..Len(a) : Sizes(a)[j] = a[j].n
    BY SizesAre
  <1>4. /\ Sizes(b) \in Seq(Int) /\ Len(Sizes(b)) = Len(b)
        /\ \A j \in 1..Len(b) : Sizes(b)[j] = b[j].n
    BY SizesAre
  <1>5. /\ Sizes(c) \in Seq(Int) /\ Len(Sizes(c)) = Len(c)
        /\ \A j \in 1..Len(c) : Sizes(c)[j] = c[j].n
    BY <1>1, SizesAre
  <1> DEFINE sa == Sizes(a)  sb == Sizes(b)  sc == Sizes(c)  d == sa \o sb
  <1>6. d \in Seq(Int) /\ IsPair(d, sa, sb)
    BY <1>3, <1>4, PairIs
  <1> HIDE DEF sa, sb, sc, d
  <1>7. /\ Len(d) = Len(a) + Len(b)
        /\ \A r \in 1..Len(a) : d[r] = sa[r]
        /\ \A r \in 1..Len(b) : d[Len(a) + r] = sb[r]
    BY <1>3, <1>4, <1>6 DEF IsPair, sa, sb
  <1>8. \A j \in 1..(Len(a) + Len(b)) : d[j] = sc[j]
    <2> SUFFICES ASSUME NEW j \in 1..(Len(a) + Len(b)) PROVE d[j] = sc[j]
      OBVIOUS
    <2>1. CASE j \in 1..Len(a)
      BY <1>2, <1>3, <1>5, <1>7, <2>1 DEF sa, sc
    <2>2. CASE ~ (j \in 1..Len(a))
      <3> DEFINE i == j - Len(a)
      <3>1. i \in 1..Len(b) /\ Len(a) + i = j
        BY <1>2, <2>2
      <3> HIDE DEF i
      <3>2. d[j] = sb[i] /\ c[j] = b[i]
        BY <1>2, <1>7, <3>1
      <3> QED
        BY <1>2, <1>4, <1>5, <3>1, <3>2 DEF sb, sc
    <2> QED
      BY <2>1, <2>2
  <1>9. d = sc
    <2>1. sc \in Seq(Int) /\ Len(sc) = Len(a) + Len(b)
      BY <1>2, <1>5 DEF sc
    <2> QED
      BY <1>6, <1>7, <1>8, <2>1
  <1>10. Total(d) = Total(sa) + Total(sb)
    <2>1. sa \in Seq(Int) /\ sb \in Seq(Int)
      BY <1>3, <1>4 DEF sa, sb
    <2> QED
      BY <2>1, TotalOfTwo DEF d
  <1>11. Numel(a) = Total(sa) /\ Numel(b) = Total(sb) /\ Numel(c) = Total(sc)
    BY <1>1, SizesAre DEF sa, sb, sc
  <1> QED
    BY <1>1, <1>9, <1>10, <1>11 DEF c

IsProduct(r, a, b) == r = a * b
LEMMA TotalOfConstant ==
    ASSUME NEW s, NEW c \in Int, Len(s) \in Nat, \A j \in 1..Len(s) : s[j] = c
    PROVE  IsProduct(Total(s), Len(s), c)
  BY TotalOfSame DEF IsProduct

LEMMA NumelOfSame ==
    ASSUME NEW a \in Seq(AllBlocks), NEW n \in Nat, \A j \in 1..Len(a) : a[j].n = n
    PROVE  IsProduct(Numel(a), Len(a), n)
  <1> DEFINE t == Sizes(a)
  <1>1. /\ Len(t) = Len(a) /\ Len(a) \in Nat
        /\ \A j \in 1..Len(a) : t[j] = n
    BY SizesAre
  <1>2. Numel(a) = Total(t)
    BY SizesAre
  <1> HIDE DEF t
  <1>3. IsProduct(Total(t), Len(t), n)
    BY <1>1, TotalOfConstant
  <1> QED
    BY <1>1, <1>2, <1>3

LEMMA NumelOfFew ==
    ASSUME NEW a \in Seq(AllBlocks)
    PROVE  /\ Len(a) = 0 => Numel(a) = 0
           /\ Len(a) = 1 => Numel(a) = a[1].n
           /\ Len(a) = 2 => Numel(a) = a[1].n + a[2].n
           /\ Len(a) = 3 => Numel(a) = a[1].n + a[2].n + a[3].n
  <1> DEFINE t == Sizes(a)
  <1>1. Len(a) \in Nat /\ Len(t) = Len(a) /\ Numel(a) = Total(t)
    BY SizesAre
  <1>2. \A j \in 1..Len(a) : t[j] = a[j].n /\ t[j] \in Int
    <2>1. /\ t \in Seq(Int) /\ Len(t) = Len(a)
          /\ \A j \in 1..Len(a) : t[j] = a[j].n
      BY SizesAre
    <2> HIDE DEF t
    <2> QED
      BY <2>1, ElementsAre
  <1> HIDE DEF t
  <1>3. PICK k : Sums(k, t) /\ Total(t) = k[Len(t)]
    BY <1>1, SumsExist
  <1>4. k[0] = 0 /\ \A n \in 1..Len(a) : k[n] = k[n - 1] + t[n]
    BY <1>1, <1>3 DEF Sums
  <1>5. Numel(a) = k[Len(a)]
    BY <1>1, <1>3
  <1>6. 1 <= Len(a) => k[1] = a[1].n /\ a[1].n \in Int
    BY <1>1, <1>2, <1>4
  <1>7. 2 <= Len(a) => k[2] = a[1].n + a[2].n /\ a[2].n \in Int
    <2>1. 2 <= Len(a) => k[2] = k[1] + t[2] /\ t[2] = a[2].n /\ t[2] \in Int
      BY <1>1, <1>2, <1>4
    <2> QED
      BY <1>1, <1>6, <2>1
  <1>8. 3 <= Len(a) => k[3] = a[1].n + a[2].n + a[3].n
    <2>1. 3 <= Len(a) => k[3] = k[2] + t[3] /\ t[3] = a[3].n
      BY <1>1, <1>2, <1>4
    <2> QED
      BY <1>1, <1>7, <2>1
  <1> QED
    BY <1>1, <1>4, <1>5, <1>6, <1>7, <1>8, SMTT(30)

LEMMA NumelOfNone == << >> \in Seq(AllBlocks) /\ Numel(<< >>) = 0
  BY NothingIsSeq, NumelOfFew

LEMMA NumelOfOne ==
    ASSUME NEW b \in AllBlocks
    PROVE  <<b>> \in Seq(AllBlocks) /\ Numel(<<b>>) = b.n
  <1> DEFINE a == <<b>>
  <1>1. a \in Seq(AllBlocks) /\ Len(a) = 1 /\ a[1] = b
    OBVIOUS
  <1> HIDE DEF a
  <1> QED
    BY <1>1, NumelOfFew DEF a

LEMMA NumelOfPair ==
    ASSUME NEW b \in AllBlocks, NEW c \in AllBlocks
    PROVE  <<b, c>> \in Seq(AllBlocks) /\ Numel(<<b, c>>) = b.n + c.n
  <1> DEFINE a == <<b, c>>
  <1>1. a \in Seq(AllBlocks) /\ Len(a) = 2 /\ a[1] = b /\ a[2] = c
    OBVIOUS
  <1> HIDE DEF a
  <1>2. Numel(a) = b.n + c.n
    BY <1>1, NumelOfFew
  <1> QED
    BY <1>1, <1>2 DEF a

LEMMA NumelOfTriple ==
    ASSUME NEW b \in AllBlocks, NEW c \in AllBlocks, NEW d \in AllBlocks
    PROVE  <<b, c, d>> \in Seq(AllBlocks) /\ Numel(<<b, c, d>>) = b.n + c.n + d.n
  <1> DEFINE a == <<b, c, d>>
  <1>1. a \in Seq(AllBlocks) /\ Len(a) = 3 /\ a[1] = b /\ a[2] = c /\ a[3] = d
    OBVIOUS
  <1> HIDE DEF a
  <1>2. Numel(a) = b.n + c.n + d.n
    BY <1>1, NumelOfFew
  <1> QED
    BY <1>1, <1>2 DEF a

\* The residuals of one sequence of blocks after another are added up.
Numels(ss) == [j \in DOMAIN ss |-> Numel(ss[j])]
LEMMA NumelOfJoined ==
    ASSUME NEW ss \in Seq(Seq(AllBlocks))
    PROVE  /\ FlattenSeq(ss) \in Seq(AllBlocks)
           /\ Numels(ss) \in Seq(Int) /\ Len(Numels(ss)) = Len(ss)
           /\ Numel(FlattenSeq(ss)) = Total(Numels(ss))
  <1> DEFINE N == Len(ss)  t == Numels(ss)
  <1>1. FlattenSeq(ss) \in Seq(AllBlocks)
    BY FlattenLength
  <1>2. N \in Nat /\ DOMAIN ss = 1..N /\ \A j \in 1..N : ss[j] \in Seq(AllBlocks)
    OBVIOUS
  <1>3. \A j \in 1..N : t[j] = Numel(ss[j]) /\ t[j] \in Int
    BY <1>2, SizesAre DEF Numels
  <1> DEFINE e(j) == Numel(ss[j])
  <1>4. t = [j \in 1..N |-> e(j)] /\ \A j \in 1..N : e(j) \in Int
    BY <1>2, SizesAre DEF Numels
  <1> HIDE DEF N, t, e
  <1>5. t \in Seq(Int) /\ Len(t) = N
    BY <1>2, <1>4
  <1>6. CASE N = 0
    <2>1. Total(t) = Len(t) * 0
      BY <1>5, <1>6, TotalOfSame
    <2>2. Len(FlattenSeq(ss)) = Total(Lengths(ss))
      BY FlattenLength
    <2>3. Len(Lengths(ss)) = 0
      BY <1>6, LengthsType DEF N
    <2>4. Total(Lengths(ss)) = 0 * 0
      <3> DEFINE z == Lengths(ss)
      <3> HIDE DEF z
      <3>1. Len(z) = 0
        BY <2>3 DEF z
      <3>2. Total(z) = Len(z) * 0
        BY <3>1, TotalOfSame
      <3> QED
        BY <3>1, <3>2 DEF z
    <2> DEFINE a == FlattenSeq(ss)
    <2>5. a \in Seq(AllBlocks) /\ Len(a) = 0
      BY <1>1, <2>2, <2>4
    <2> HIDE DEF a
    <2>6. Numel(a) = 0
      BY <2>5, NumelOfFew
    <2> QED
      BY <1>1, <1>5, <1>6, <2>1, <2>5, <2>6 DEF a, t, N
  <1>7. CASE N # 0
    <2>1. PICK f : /\ f[1] = ss[1] /\ FlattenSeq(ss) = f[N]
                   /\ \A n \in 2..N : f[n] = f[n - 1] \o ss[n]
      <3>1. Len(ss) \in Nat \ {0}
        BY <1>2, <1>7 DEF N
      <3> QED
        BY <3>1, JoinsExist DEF N
    <2>2. PICK k : Sums(k, t) /\ Total(t) = k[N]
      <3>1. Len(t) \in Nat
        BY <1>2, <1>5
      <3> QED
        BY <1>5, <3>1, SumsExist
    <2> DEFINE T == {n \in Nat : n + 1 <= N => f[n + 1] \in Seq(AllBlocks)
                                               /\ Numel(f[n + 1]) = k[n + 1]}
    <2>3. 0 \in T
      <3>1. 1 \in 1..N
        BY <1>2, <1>7
      <3>2. k[1] = k[0] + t[1] /\ k[0] = 0
        <4>1. 1 - 1 = 0
          OBVIOUS
        <4> QED
          BY <1>5, <2>2, <3>1, <4>1 DEF Sums
      <3>3. f[1] \in Seq(AllBlocks) /\ Numel(f[1]) = t[1] /\ t[1] \in Int
        BY <1>2, <1>3, <2>1, <3>1
      <3>4. f[1] \in Seq(AllBlocks) /\ Numel(f[1]) = k[1]
        BY <3>2, <3>3
      <3>5. 0 + 1 = 1
        OBVIOUS
      <3> QED
        BY <3>4, <3>5
    <2>4. ASSUME NEW n \in Nat, n \in T PROVE n + 1 \in T
      <3> SUFFICES ASSUME (n + 1) + 1 <= N
                   PROVE  /\ f[(n + 1) + 1] \in Seq(AllBlocks)
                          /\ Numel(f[(n + 1) + 1]) = k[(n + 1) + 1]
        OBVIOUS
      <3> DEFINE m == (n + 1) + 1
      <3>1. n + 1 <= N /\ m \in 2..N /\ m \in 1..N /\ m - 1 = n + 1 /\ n + 1 \in 0..N
        BY <1>2
      <3>2. f[n + 1] \in Seq(AllBlocks) /\ Numel(f[n + 1]) = k[n + 1]
        BY <2>4, <3>1
      <3>3. f[m] = f[n + 1] \o ss[m] /\ ss[m] \in Seq(AllBlocks) /\ Numel(ss[m]) = t[m]
        BY <1>2, <1>3, <2>1, <3>1
      <3>4. k[m] = k[n + 1] + t[m]
        BY <1>5, <2>2, <3>1 DEF Sums
      <3> HIDE DEF m
      <3>5. f[m] \in Seq(AllBlocks) /\ Numel(f[m]) = Numel(f[n + 1]) + Numel(ss[m])
        BY <3>2, <3>3, NumelOfTwo
      <3> QED
        BY <3>2, <3>3, <3>4, <3>5 DEF m
    <2> HIDE DEF T
    <2>5. Nat \subseteq T
      BY <2>3, <2>4, Induct
    <2>6. N - 1 \in T /\ (N - 1) + 1 = N
      BY <1>2, <1>7, <2>5
    <2>7. Numel(f[N]) = k[N]
      BY <1>2, <2>6 DEF T
    <2> QED
      BY <1>1, <1>5, <2>1, <2>2, <2>7 DEF t, N
  <1> QED
    BY <1>6, <1>7

\* A list of blocks and the number of its residuals.
Residuals(s, n) == s \in Seq(AllBlocks) /\ Numel(s) = n

LEMMA ResidualsOfTwo ==
    ASSUME NEW a, NEW m, Residuals(a, m), NEW b, NEW n, Residuals(b, n)
    PROVE  Residuals(a \o b, m + n) /\ m \in Nat /\ n \in Nat
  BY NumelOfTwo, SizesAre DEF Residuals

LEMMA ResidualsOfRepeated ==
    ASSUME NEW ss \in Seq(Seq(AllBlocks)), NEW c \in Nat,
           \A j \in 1..Len(ss) : Numel(ss[j]) = c
    PROVE  Residuals(FlattenSeq(ss), Len(ss) * c)
  <1> DEFINE t == Numels(ss)
  <1>1. t \in Seq(Int) /\ Len(t) = Len(ss) /\ Numel(FlattenSeq(ss)) = Total(t)
        /\ FlattenSeq(ss) \in Seq(AllBlocks)
    BY NumelOfJoined
  <1>2. Len(ss) \in Nat /\ \A j \in 1..Len(ss) : t[j] = c
    BY DEF Numels
  <1> HIDE DEF t
  <1>3. IsProduct(Total(t), Len(t), c)
    BY <1>1, <1>2, TotalOfConstant
  <1> QED
    BY <1>1, <1>3 DEF IsProduct, Residuals

LEMMA AtPointsAre ==
    ASSUME NEW type \in Types, NEW n \in Nat, NEW pts \in Seq(Points)
    PROVE  Residuals(AtPoints(type, n, pts), Len(pts) * n)
  <1> DEFINE a == AtPoints(type, n, pts)
             e(j) == Block(type, n, pts[j])
  <1>1. Len(pts) \in Nat /\ DOMAIN pts = 1..Len(pts)
    OBVIOUS
  <1>2. \A j \in 1..Len(pts) : e(j) \in AllBlocks /\ e(j).n = n
    <2> SUFFICES ASSUME NEW j \in 1..Len(pts) PROVE e(j) \in AllBlocks /\ e(j).n = n
      OBVIOUS
    <2>1. pts[j] \in Points
      OBVIOUS
    <2> QED
      BY <2>1, BlockIs
  <1>3. a = [j \in 1..Len(pts) |-> e(j)]
    BY <1>1 DEF AtPoints
  <1> HIDE DEF a, e
  <1>4. a \in Seq(AllBlocks) /\ Len(a) = Len(pts) /\ \A j \in 1..Len(a) : a[j].n = n
    BY <1>1, <1>2, <1>3
  <1>5. IsProduct(Numel(a), Len(a), n)
    BY <1>4, NumelOfSame
  <1> QED
    BY <1>4, <1>5 DEF IsProduct, a, Residuals

LEMMA OneBlock ==
    ASSUME NEW type \in Types, NEW n \in Nat, NEW pt \in Points
    PROVE  Residuals(<<Block(type, n, pt)>>, n)
  BY BlockIs, NumelOfOne DEF Residuals

LEMMA ElementsAreEnds ==
    ASSUME NEW n \in Nat
    PROVE  Elements(1, n) \in Seq(Points) /\ Len(Elements(1, n)) = n
  <1> DEFINE e(j) == <<1 + j - 1, -1>>
  <1>1. \A j \in 1..n : e(j) \in Points
    BY DEF Points
  <1>2. n - 1 + 1 = n
    OBVIOUS
  <1>3. Elements(1, n) = [j \in 1..n |-> e(j)]
    BY <1>2 DEF Elements
  <1> HIDE DEF e
  <1> QED
    BY <1>1, <1>3

LEMMA TimePointsAre ==
    ASSUME NEW q \in Problems
    PROVE  /\ TimePoints(q) \in Seq(Points)
           /\ Len(TimePoints(q)) = 1 + q.ne * q.ncp + (IF q.gauss THEN 1 ELSE 0)
  <1> DEFINE a == << <<1, 0>> >>
             c == IF q.gauss THEN << <<q.ne, q.ncp + 1>> >> ELSE << >>
             b == InnerPoints(q)
  <1>1. b \in Seq(Points) /\ Len(b) = q.ne * q.ncp
    BY InnerPointsAre
  <1>2. q.ne \in Nat /\ q.ncp \in Nat /\ q.gauss \in BOOLEAN
    BY ProblemsAssumption
  <1>3. a \in Seq(Points) /\ Len(a) = 1
    BY DEF Points
  <1>4. c \in Seq(Points) /\ Len(c) = IF q.gauss THEN 1 ELSE 0
    <2>1. <<q.ne, q.ncp + 1>> \in Points
      BY <1>2 DEF Points
    <2>2. CASE q.gauss = TRUE
      BY <2>1, <2>2
    <2>3. CASE q.gauss = FALSE
      BY <2>3, NothingIsSeq
    <2> QED
      BY <1>2, <2>2, <2>3
  <1>5. TimePoints(q) = a \o b \o c
    BY DEF TimePoints, InnerPoints
  <1> HIDE DEF a, b, c
  <1>6. a \o b \o c \in Seq(Points) /\ Row(a \o b \o c, a, b, c)
    BY <1>1, <1>3, <1>4, ThreeJoined
  <1> QED
    BY <1>1, <1>3, <1>4, <1>5, <1>6 DEF Row

-----------------------------------------------------------------------------
(* The equality constraints that are not per element.                      *)

InitialPart(q) == << Block("initial", q.ninit, <<1, 0>>), Block("dae", q.ndae, <<1, 0>>) >>
FinalPart(q) ==
    << Block("terminal_unelim_u", q.nu, <<q.ne, q.ncp + 1>>),
       Block("terminal_w", q.nw, <<q.ne, q.ncp + 1>>),
       Block("terminal_dx", q.nx, <<q.ne, q.ncp + 1>>) >>
GaussPart(q) ==
    IF q.gauss THEN AtPoints("continuity", q.nx, Elements(1, q.ne)) \o FinalPart(q) ELSE << >>
LengthPart(q) == IF q.free THEN << Block("h_sum", 1, NoPoint) >> ELSE << >>

LEMMA CommonBlocksAre ==
    ASSUME NEW q
    PROVE  CommonBlocks(q) = InitialPart(q) \o InitialInputs(q) \o GaussPart(q) \o LengthPart(q)
               \o AtPoints("path_eq", q.patheq, TimePoints(q))
               \o << Block("point_eq", q.pointeq, NoPoint) >>
               \o AtPoints("other", q.nconstr, InnerPoints(q))
               \o AtPoints("other", q.ndelay, InnerPoints(q))
  BY DEF CommonBlocks, InitialPart, FinalPart, GaussPart, LengthPart

LEMMA ProblemNumbers ==
    ASSUME NEW q \in Problems
    PROVE  /\ q.ne \in Nat \ {0} /\ q.ncp \in Nat \ {0} /\ q.nx \in Nat /\ q.nw \in Nat
           /\ q.nu \in Nat /\ q.npopt \in Nat /\ q.ninit \in Nat /\ q.ndae \in Nat
           /\ q.patheq \in Nat /\ q.pathineq \in Nat /\ q.pointeq \in Nat
           /\ q.pointineq \in Nat /\ q.nconstr \in Nat /\ q.ndelay \in Nat
           /\ q.gauss \in BOOLEAN /\ q.free \in BOOLEAN /\ q.blocked \in BOOLEAN
  BY ProblemsAssumption

LEMMA InitialPartIs ==
    ASSUME NEW q \in Problems
    PROVE  Residuals(InitialPart(q), q.ninit + q.ndae)
  <1>1. q.ninit \in Nat /\ q.ndae \in Nat
    BY ProblemNumbers
  <1>2. "initial" \in Types /\ "dae" \in Types /\ <<1, 0>> \in Points
    BY DEF Types, Points
  <1> DEFINE b == Block("initial", q.ninit, <<1, 0>>)  c == Block("dae", q.ndae, <<1, 0>>)
  <1>3. b \in AllBlocks /\ b.n = q.ninit /\ c \in AllBlocks /\ c.n = q.ndae
    BY <1>1, <1>2, BlockIs
  <1> HIDE DEF b, c
  <1>4. <<b, c>> \in Seq(AllBlocks) /\ Numel(<<b, c>>) = b.n + c.n
    BY <1>3, NumelOfPair
  <1> QED
    BY <1>3, <1>4 DEF InitialPart, Residuals, b, c

LEMMA InitialInputsAre ==
    ASSUME NEW q \in Problems
    PROVE  Residuals(InitialInputs(q), Len(Free(q)))
  <1> DEFINE b == Block("u_1_0", 1, <<1, 0>>)  a == InitialInputs(q)
  <1>1. b \in AllBlocks /\ b.n = 1
    <2>1. "u_1_0" \in Types /\ <<1, 0>> \in Points
      BY DEF Types, Points
    <2> QED
      BY <2>1, BlockIs
  <1>2. Len(Free(q)) \in Nat /\ DOMAIN Free(q) = 1..Len(Free(q))
    <2>1. q.nu \in Nat
      BY ProblemNumbers
    <2>2. Free(q) \in Seq(Int)
      BY <2>1, FreeIs
    <2> QED
      BY <2>2
  <1>3. a = [j \in 1..Len(Free(q)) |-> b]
    BY <1>2 DEF InitialInputs
  <1> HIDE DEF a, b
  <1>4. a \in Seq(AllBlocks) /\ Len(a) = Len(Free(q)) /\ \A j \in 1..Len(a) : a[j].n = 1
    BY <1>1, <1>2, <1>3
  <1>5. IsProduct(Numel(a), Len(a), 1)
    BY <1>4, NumelOfSame
  <1>6. Numel(a) = Len(Free(q)) * 1
    BY <1>4, <1>5 DEF IsProduct
  <1>7. Numel(a) = Len(Free(q))
    <2>1. \A n \in Nat : n * 1 = n
      OBVIOUS
    <2>2. Len(Free(q)) * 1 = Len(Free(q))
      BY <1>2, <2>1, Zenon
    <2> QED
      BY <1>6, <2>2, Zenon
  <1> QED
    BY <1>4, <1>7 DEF a, Residuals

LEMMA FinalPartIs ==
    ASSUME NEW q \in Problems
    PROVE  Residuals(FinalPart(q), q.nu + q.nw + q.nx)
  <1>1. q.nu \in Nat /\ q.nw \in Nat /\ q.nx \in Nat /\ q.ne \in Nat /\ q.ncp \in Nat
    BY ProblemNumbers
  <1> DEFINE pt == <<q.ne, q.ncp + 1>>
  <1>2. pt \in Points
    BY <1>1 DEF Points
  <1>3. "terminal_unelim_u" \in Types /\ "terminal_w" \in Types /\ "terminal_dx" \in Types
    BY DEF Types
  <1> HIDE DEF pt
  <1> DEFINE b == Block("terminal_unelim_u", q.nu, pt)
             c == Block("terminal_w", q.nw, pt)
             d == Block("terminal_dx", q.nx, pt)
  <1>4. b \in AllBlocks /\ b.n = q.nu /\ c \in AllBlocks /\ c.n = q.nw
        /\ d \in AllBlocks /\ d.n = q.nx
    BY <1>1, <1>2, <1>3, BlockIs
  <1>5. FinalPart(q) = <<b, c, d>>
    BY DEF FinalPart, pt
  <1> HIDE DEF b, c, d
  <1>6. <<b, c, d>> \in Seq(AllBlocks) /\ Numel(<<b, c, d>>) = b.n + c.n + d.n
    BY <1>4, NumelOfTriple
  <1> QED
    BY <1>4, <1>5, <1>6 DEF Residuals

LEMMA GaussPartIs ==
    ASSUME NEW q \in Problems
    PROVE  Residuals(GaussPart(q), IF q.gauss THEN q.ne * q.nx + (q.nu + q.nw + q.nx) ELSE 0)
  <1>1. q.nx \in Nat /\ q.ne \in Nat /\ q.gauss \in BOOLEAN
    BY ProblemNumbers
  <1>2. Residuals(AtPoints("continuity", q.nx, Elements(1, q.ne)), q.ne * q.nx)
    <2>1. "continuity" \in Types
      BY DEF Types
    <2> QED
      BY <1>1, <2>1, ElementsAreEnds, AtPointsAre
  <1>3. CASE q.gauss = TRUE
    <2> DEFINE m == q.ne * q.nx  n == q.nu + q.nw + q.nx
               a == AtPoints("continuity", q.nx, Elements(1, q.ne))  b == FinalPart(q)
    <2>1. Residuals(a, m) /\ Residuals(b, n)
      BY <1>2, FinalPartIs
    <2>2. GaussPart(q) = a \o b
      BY <1>3 DEF GaussPart
    <2> HIDE DEF m, n, a, b
    <2>3. Residuals(a \o b, m + n)
      BY <2>1, ResidualsOfTwo
    <2> QED
      BY <1>3, <2>2, <2>3 DEF m, n
  <1>4. CASE q.gauss = FALSE
    BY <1>4, NumelOfNone DEF GaussPart, Residuals
  <1> QED
    BY <1>1, <1>3, <1>4

LEMMA LengthPartIs ==
    ASSUME NEW q \in Problems
    PROVE  Residuals(LengthPart(q), IF q.free THEN 1 ELSE 0)
  <1>1. CASE q.free = TRUE
    <2>1. "h_sum" \in Types /\ NoPoint \in Points
      BY DEF Types, Points, NoPoint
    <2>2. Residuals(<< Block("h_sum", 1, NoPoint) >>, 1)
      BY <2>1, OneBlock
    <2> QED
      BY <1>1, <2>2 DEF LengthPart
  <1>2. CASE q.free = FALSE
    BY <1>2, NumelOfNone DEF LengthPart, Residuals
  <1> QED
    BY <1>1, <1>2, ProblemNumbers

CommonCount(q) ==
    (q.ninit + q.ndae) + Len(Free(q))
    + (IF q.gauss THEN q.ne * q.nx + (q.nu + q.nw + q.nx) ELSE 0)
    + (IF q.free THEN 1 ELSE 0)
    + Len(TimePoints(q)) * q.patheq + q.pointeq
    + (q.ne * q.ncp) * q.nconstr + (q.ne * q.ncp) * q.ndelay

LEMMA CommonBlocksCount ==
    ASSUME NEW q \in Problems
    PROVE  Residuals(CommonBlocks(q), CommonCount(q))
  <1>1. "path_eq" \in Types /\ "point_eq" \in Types /\ "other" \in Types /\ NoPoint \in Points
    BY DEF Types, Points, NoPoint
  <1> DEFINE a1 == InitialPart(q)    n1 == q.ninit + q.ndae
             a2 == InitialInputs(q)  n2 == Len(Free(q))
             a3 == GaussPart(q)
             n3 == IF q.gauss THEN q.ne * q.nx + (q.nu + q.nw + q.nx) ELSE 0
             a4 == LengthPart(q)     n4 == IF q.free THEN 1 ELSE 0
             a5 == AtPoints("path_eq", q.patheq, TimePoints(q))
             n5 == Len(TimePoints(q)) * q.patheq
             a6 == << Block("point_eq", q.pointeq, NoPoint) >>  n6 == q.pointeq
             a7 == AtPoints("other", q.nconstr, InnerPoints(q))
             n7 == (q.ne * q.ncp) * q.nconstr
             a8 == AtPoints("other", q.ndelay, InnerPoints(q))
             n8 == (q.ne * q.ncp) * q.ndelay
  <1>2. Residuals(a1, n1) /\ Residuals(a2, n2) /\ Residuals(a3, n3) /\ Residuals(a4, n4)
    BY InitialPartIs, InitialInputsAre, GaussPartIs, LengthPartIs
  <1>3. Residuals(a5, n5)
    <2>1. TimePoints(q) \in Seq(Points)
      BY TimePointsAre
    <2> QED
      BY <1>1, <2>1, ProblemNumbers, AtPointsAre
  <1>4. Residuals(a6, n6)
    BY <1>1, ProblemNumbers, OneBlock
  <1>5. InnerPoints(q) \in Seq(Points) /\ Len(InnerPoints(q)) = q.ne * q.ncp
    BY InnerPointsAre
  <1>6. Residuals(a7, n7)
    <2>1. Residuals(a7, Len(InnerPoints(q)) * q.nconstr)
      BY <1>1, <1>5, ProblemNumbers, AtPointsAre
    <2> QED
      BY <1>5, <2>1
  <1>7. Residuals(a8, n8)
    <2>1. Residuals(a8, Len(InnerPoints(q)) * q.ndelay)
      BY <1>1, <1>5, ProblemNumbers, AtPointsAre
    <2> QED
      BY <1>5, <2>1
  <1>8. CommonBlocks(q) = a1 \o a2 \o a3 \o a4 \o a5 \o a6 \o a7 \o a8
    BY CommonBlocksAre
  <1>9. CommonCount(q) = n1 + n2 + n3 + n4 + n5 + n6 + n7 + n8
    BY DEF CommonCount
  <1> HIDE DEF a1, a2, a3, a4, a5, a6, a7, a8, n1, n2, n3, n4, n5, n6, n7, n8
  <1>10. Residuals(a1 \o a2, n1 + n2)
    BY <1>2, ResidualsOfTwo
  <1>11. Residuals(a1 \o a2 \o a3, n1 + n2 + n3)
    BY <1>2, <1>10, ResidualsOfTwo
  <1>12. Residuals(a1 \o a2 \o a3 \o a4, n1 + n2 + n3 + n4)
    BY <1>2, <1>11, ResidualsOfTwo
  <1>13. Residuals(a1 \o a2 \o a3 \o a4 \o a5, n1 + n2 + n3 + n4 + n5)
    BY <1>3, <1>12, ResidualsOfTwo
  <1>14. Residuals(a1 \o a2 \o a3 \o a4 \o a5 \o a6, n1 + n2 + n3 + n4 + n5 + n6)
    BY <1>4, <1>13, ResidualsOfTwo
  <1>15. Residuals(a1 \o a2 \o a3 \o a4 \o a5 \o a6 \o a7, n1 + n2 + n3 + n4 + n5 + n6 + n7)
    BY <1>6, <1>14, ResidualsOfTwo
  <1> QED
    BY <1>7, <1>8, <1>9, <1>15, ResidualsOfTwo

-----------------------------------------------------------------------------
(* The equality constraints of the elements, point by point or whole.      *)

LEMMA PointwiseCount ==
    ASSUME NEW q \in Problems
    PROVE  Residuals(PointwiseBlocks(q), (q.ne * q.ncp) * (q.nx + q.ndae))
  <1> DEFINE pts == InnerPoints(q)
             e(j) == << Block("collocation", q.nx, pts[j]), Block("dae", q.ndae, pts[j]) >>
             ss == [j \in DOMAIN pts |-> e(j)]
             c == q.nx + q.ndae
  <1>1. pts \in Seq(Points) /\ Len(pts) = q.ne * q.ncp
    BY InnerPointsAre
  <1>2. q.nx \in Nat /\ q.ndae \in Nat /\ c \in Nat
    BY ProblemNumbers
  <1>3. "collocation" \in Types /\ "dae" \in Types
    BY DEF Types
  <1>4. DOMAIN pts = 1..Len(pts) /\ Len(pts) \in Nat
    BY <1>1
  <1>5. PointwiseBlocks(q) = FlattenSeq(ss)
    BY DEF PointwiseBlocks
  <1> HIDE DEF pts
  <1>6. \A j \in 1..Len(pts) : e(j) \in Seq(AllBlocks) /\ Numel(e(j)) = c
    <2> SUFFICES ASSUME NEW j \in 1..Len(pts) PROVE e(j) \in Seq(AllBlocks) /\ Numel(e(j)) = c
      OBVIOUS
    <2> DEFINE pt == pts[j]  b == Block("collocation", q.nx, pt)  d == Block("dae", q.ndae, pt)
    <2>1. pt \in Points
      BY <1>1, ElementsAre
    <2> HIDE DEF pt
    <2>2. b \in AllBlocks /\ b.n = q.nx /\ d \in AllBlocks /\ d.n = q.ndae
      BY <1>2, <1>3, <2>1, BlockIs
    <2>3. e(j) = <<b, d>>
      BY DEF pt
    <2> HIDE DEF b, d, e
    <2>4. <<b, d>> \in Seq(AllBlocks) /\ Numel(<<b, d>>) = b.n + d.n
      BY <2>2, NumelOfPair
    <2> QED
      BY <2>2, <2>3, <2>4
  <1> HIDE DEF e, c
  <1>7. ss \in Seq(Seq(AllBlocks)) /\ Len(ss) = Len(pts)
        /\ \A j \in 1..Len(ss) : Numel(ss[j]) = c
    BY <1>4, <1>6
  <1> HIDE DEF ss
  <1>8. Residuals(FlattenSeq(ss), Len(ss) * c)
    BY <1>2, <1>7, ResidualsOfRepeated
  <1> QED
    BY <1>1, <1>5, <1>7, <1>8 DEF c

SplitBlocks(type, n, m, i) == [k \in 1..m |-> Block(type, n, <<i, k>>)]

LEMMA SplitBlocksAre ==
    ASSUME NEW type \in Types, NEW n \in Nat, NEW m \in Nat, NEW i \in Int
    PROVE  Residuals(SplitBlocks(type, n, m, i), m * n)
  <1> DEFINE a == SplitBlocks(type, n, m, i)  e(k) == Block(type, n, <<i, k>>)
  <1>1. \A k \in 1..m : e(k) \in AllBlocks /\ e(k).n = n
    <2> SUFFICES ASSUME NEW k \in 1..m PROVE e(k) \in AllBlocks /\ e(k).n = n
      OBVIOUS
    <2>1. <<i, k>> \in Points
      BY DEF Points
    <2> QED
      BY <2>1, BlockIs
  <1>2. a = [k \in 1..m |-> e(k)]
    BY DEF SplitBlocks
  <1> HIDE DEF a, e
  <1>3. a \in Seq(AllBlocks) /\ Len(a) = m /\ \A k \in 1..Len(a) : a[k].n = n
    BY <1>1, <1>2
  <1>4. IsProduct(Numel(a), Len(a), n)
    BY <1>3, NumelOfSame
  <1> QED
    BY <1>3, <1>4 DEF IsProduct, Residuals, a

LEMMA DivideProduct ==
    ASSUME NEW n \in Nat, NEW m \in Nat \ {0}
    PROVE  (n * m) \div m = n
  <1>1. 0 \in 0..(m - 1)
    OBVIOUS
  <1>2. (n * m + 0) \div m = n
    BY <1>1, DivideOffset
  <1>3. n * m \in Nat
    OBVIOUS
  <1>4. n * m + 0 = n * m
    BY <1>3
  <1> QED
    BY <1>2, <1>4

LEMMA ElementBlocksAre ==
    ASSUME NEW q \in Problems, NEW i \in Int
    PROVE  /\ ElementBlocks(q, i) = SplitBlocks("dae", q.ndae, q.ncp, i)
                                    \o SplitBlocks("collocation", q.nx, q.ncp, i)
           /\ Residuals(ElementBlocks(q, i), q.ncp * q.ndae + q.ncp * q.nx)
  <1>1. q.ndae \in Nat /\ q.nx \in Nat /\ q.ncp \in Nat \ {0}
    BY ProblemNumbers
  <1>2. (q.ndae * q.ncp) \div q.ncp = q.ndae /\ (q.nx * q.ncp) \div q.ncp = q.nx
    BY <1>1, DivideProduct
  <1> DEFINE a == SplitBlocks("dae", q.ndae, q.ncp, i)
             b == SplitBlocks("collocation", q.nx, q.ncp, i)
             m == q.ncp * q.ndae
             n == q.ncp * q.nx
  <1>3. ElementBlocks(q, i) = a \o b
    BY <1>2 DEF ElementBlocks, SplitBlocks
  <1>4. Residuals(a, m) /\ Residuals(b, n)
    <2>1. "dae" \in Types /\ "collocation" \in Types
      BY DEF Types
    <2> QED
      BY <1>1, <2>1, SplitBlocksAre
  <1> HIDE DEF a, b, m, n
  <1>5. Residuals(a \o b, m + n)
    BY <1>4, ResidualsOfTwo
  <1> QED
    BY <1>3, <1>5 DEF a, b, m, n

WholeBlocks(q) == FlattenSeq([i \in 1..q.ne |-> ElementBlocks(q, i)])

LEMMA WholeCount ==
    ASSUME NEW q \in Problems
    PROVE  Residuals(WholeBlocks(q), (q.ne * q.ncp) * (q.nx + q.ndae))
  <1> DEFINE c == q.ncp * q.ndae + q.ncp * q.nx
             e(i) == ElementBlocks(q, i)
             ss == [i \in 1..q.ne |-> e(i)]
  <1>1. q.ne \in Nat /\ q.ndae \in Nat /\ q.nx \in Nat /\ q.ncp \in Nat
    BY ProblemNumbers
  <1>2. c \in Nat /\ q.ne * c = (q.ne * q.ncp) * (q.nx + q.ndae)
    BY <1>1
  <1>3. \A i \in 1..q.ne : e(i) \in Seq(AllBlocks) /\ Numel(e(i)) = c
    BY <1>1, ElementBlocksAre DEF Residuals
  <1>4. WholeBlocks(q) = FlattenSeq(ss)
    BY DEF WholeBlocks
  <1> HIDE DEF c, e
  <1>5. ss \in Seq(Seq(AllBlocks)) /\ Len(ss) = q.ne
        /\ \A i \in 1..Len(ss) : Numel(ss[i]) = c
    BY <1>1, <1>3
  <1> HIDE DEF ss
  <1>6. Residuals(FlattenSeq(ss), Len(ss) * c)
    BY <1>2, <1>5, ResidualsOfRepeated
  <1> QED
    BY <1>2, <1>4, <1>5, <1>6

ElementPart(q, cp) == IF cp THEN WholeBlocks(q) ELSE PointwiseBlocks(q)
MeshContinuity(q) == AtPoints("continuity", q.nx, Elements(1, q.ne - 1))

LEMMA EqualitiesAre ==
    ASSUME NEW q \in Problems, NEW cp \in BOOLEAN
    PROVE  /\ EqualityBlocks(q, cp) = CommonBlocks(q) \o ElementPart(q, cp) \o MeshContinuity(q)
           /\ Residuals(ElementPart(q, cp), (q.ne * q.ncp) * (q.nx + q.ndae))
           /\ Residuals(MeshContinuity(q), (q.ne - 1) * q.nx)
  <1>1. EqualityBlocks(q, cp) = CommonBlocks(q) \o ElementPart(q, cp) \o MeshContinuity(q)
    BY DEF EqualityBlocks, ElementPart, WholeBlocks, MeshContinuity
  <1>2. Residuals(ElementPart(q, cp), (q.ne * q.ncp) * (q.nx + q.ndae))
    <2>1. CASE cp = TRUE
      BY <2>1, WholeCount DEF ElementPart
    <2>2. CASE cp = FALSE
      BY <2>2, PointwiseCount DEF ElementPart
    <2> QED
      BY <2>1, <2>2
  <1>3. Residuals(MeshContinuity(q), (q.ne - 1) * q.nx)
    <2>1. q.ne - 1 \in Nat /\ q.nx \in Nat /\ "continuity" \in Types
      BY ProblemNumbers DEF Types
    <2> QED
      BY <2>1, ElementsAreEnds, AtPointsAre DEF MeshContinuity
  <1> QED
    BY <1>1, <1>2, <1>3

LEMMA EqualityBlocksCount ==
    ASSUME NEW q \in Problems, NEW cp \in BOOLEAN
    PROVE  Residuals(EqualityBlocks(q, cp),
                     CommonCount(q) + (q.ne * q.ncp) * (q.nx + q.ndae) + (q.ne - 1) * q.nx)
  <1> DEFINE a == CommonBlocks(q)  b == ElementPart(q, cp)  c == MeshContinuity(q)
             k == CommonCount(q)  m == (q.ne * q.ncp) * (q.nx + q.ndae)  n == (q.ne - 1) * q.nx
  <1>1. Residuals(a, k) /\ Residuals(b, m) /\ Residuals(c, n)
    BY CommonBlocksCount, EqualitiesAre
  <1>2. EqualityBlocks(q, cp) = a \o b \o c
    BY EqualitiesAre
  <1> HIDE DEF a, b, c, k, m, n
  <1>3. Residuals(a \o b, k + m)
    BY <1>1, ResidualsOfTwo
  <1>4. Residuals(a \o b \o c, k + m + n)
    BY <1>1, <1>3, ResidualsOfTwo
  <1> QED
    BY <1>2, <1>4 DEF k, m, n

-----------------------------------------------------------------------------
(* The inequality constraints.                                             *)

LEMMA BlockedFactorsAre ==
    ASSUME NEW q \in Problems, NEW v \in 1..q.nu, Blocked(q, v)
    PROVE  \E b \in DOMAIN q.bf : q.bf[b][1] = v /\ Factors(q, v) = q.bf[b][2]
  <1>1. \E b \in DOMAIN q.bf : q.bf[b][1] = v
    BY DEF Blocked
  <1> QED
    BY <1>1 DEF Factors

\* Factors that cover an element are not an empty list.
LEMMA FactorsCover ==
    ASSUME NEW q \in Problems, NEW b \in DOMAIN q.bf
    PROVE  Len(q.bf[b][2]) \in Nat \ {0} /\ Total(q.bf[b][2]) = q.ne
  <1> DEFINE fs == q.bf[b][2]
  <1>1. fs \in Seq(Int) /\ Len(fs) \in Nat
    BY FactorsAre
  <1>2. Total(fs) = q.ne /\ q.ne \in Nat \ {0}
    BY ProblemsAssumption
  <1> HIDE DEF fs
  <1>3. Len(fs) # 0
    <2> SUFFICES ASSUME Len(fs) = 0 PROVE FALSE
      OBVIOUS
    <2>1. PICK k : Sums(k, fs) /\ Total(fs) = k[Len(fs)]
      BY <1>1, SumsExist
    <2>2. Total(fs) = 0
      BY <2>1 DEF Sums
    <2> QED
      BY <1>2, <2>2
  <1> QED
    BY <1>1, <1>2, <1>3 DEF fs

LEMMA ChangeBlocksAre ==
    ASSUME NEW q \in Problems, NEW v \in 1..q.nu, Blocked(q, v)
    PROVE  /\ Residuals(ChangeBlocks(q, v), 2 * (Len(Factors(q, v)) - 1))
           /\ 2 * (Len(Factors(q, v)) - 1) \in Nat
  <1>1. PICK b \in DOMAIN q.bf : Factors(q, v) = q.bf[b][2]
    BY BlockedFactorsAre
  <1> DEFINE fs == Factors(q, v)
             at(f) == <<FirstElement(fs, f + 1) - 1, -1>>
             e(f) == << Block("delta_u_ub", 1, at(f)), Block("delta_u_lb", 1, at(f)) >>
             n == Len(fs) - 1
             ss == [f \in 1..n |-> e(f)]
  <1>2. n \in Nat /\ Len(fs) = n + 1
    BY <1>1, FactorsCover
  <1>3. \A f \in 1..n : at(f) \in Points
    <2> SUFFICES ASSUME NEW f \in 1..n PROVE at(f) \in Points
      OBVIOUS
    <2>1. f + 1 \in DOMAIN q.bf[b][2]
      <3>1. q.bf[b][2] \in Seq(Int)
        BY FactorsAre
      <3>2. f + 1 \in 1..Len(q.bf[b][2])
        BY <1>1, <1>2
      <3> QED
        BY <3>1, <3>2
    <2>2. FirstElement(fs, f + 1) \in Int
      BY <1>1, <2>1, FactorsAre
    <2> QED
      BY <2>2 DEF Points
  <1>4. ChangeBlocks(q, v) = FlattenSeq(ss)
    BY DEF ChangeBlocks
  <1>5. "delta_u_ub" \in Types /\ "delta_u_lb" \in Types
    BY DEF Types
  <1> HIDE DEF fs, at, n
  <1>6. \A f \in 1..n : e(f) \in Seq(AllBlocks) /\ Numel(e(f)) = 2
    <2> SUFFICES ASSUME NEW f \in 1..n PROVE e(f) \in Seq(AllBlocks) /\ Numel(e(f)) = 2
      OBVIOUS
    <2> DEFINE c == Block("delta_u_ub", 1, at(f))  d == Block("delta_u_lb", 1, at(f))
    <2>1. c \in AllBlocks /\ c.n = 1 /\ d \in AllBlocks /\ d.n = 1
      BY <1>3, <1>5, BlockIs
    <2>2. e(f) = <<c, d>>
      OBVIOUS
    <2> HIDE DEF c, d, e
    <2>3. <<c, d>> \in Seq(AllBlocks) /\ Numel(<<c, d>>) = c.n + d.n
      BY <2>1, NumelOfPair
    <2> QED
      BY <2>1, <2>2, <2>3
  <1> HIDE DEF e
  <1>7. ss \in Seq(Seq(AllBlocks)) /\ Len(ss) = n /\ \A j \in 1..Len(ss) : Numel(ss[j]) = 2
    BY <1>2, <1>6
  <1> HIDE DEF ss
  <1>8. Residuals(FlattenSeq(ss), Len(ss) * 2)
    BY <1>7, ResidualsOfRepeated
  <1>9. Len(ss) * 2 = 2 * n /\ 2 * n \in Nat
    BY <1>2, <1>7
  <1> QED
    BY <1>4, <1>8, <1>9 DEF n, fs

ChangePart(q) ==
    FlattenSeq([j \in DOMAIN BoundedInputs(q) |-> ChangeBlocks(q, BoundedInputs(q)[j])])

LEMMA ChangePartIs ==
    ASSUME NEW q \in Problems
    PROVE  Residuals(ChangePart(q), Total(BoundedFactors(q)))
  <1> DEFINE S == {v \in 1..q.nu : q.blocked /\ Blocked(q, v) /\ v \in q.bounded}
             B == InputsIn(q, S)
             e(j) == ChangeBlocks(q, B[j])
             c(j) == 2 * (Len(Factors(q, B[j])) - 1)
             ss == [j \in DOMAIN B |-> e(j)]
             t == [j \in DOMAIN B |-> c(j)]
  <1>1. B \in Seq(1..q.nu) /\ \A j \in 1..Len(B) : B[j] \in S
    <2>1. q.nu \in Nat
      BY ProblemNumbers
    <2> HIDE DEF S
    <2> QED
      BY <2>1, InputsAreListed DEF Lists
  <1>2. BoundedInputs(q) = B
    BY DEF BoundedInputs
  <1>3. ChangePart(q) = FlattenSeq(ss) /\ BoundedFactors(q) = t
    BY <1>2 DEF ChangePart, BoundedFactors
  <1>4. \A j \in 1..Len(B) : Residuals(e(j), c(j)) /\ c(j) \in Nat
    <2> SUFFICES ASSUME NEW j \in 1..Len(B) PROVE Residuals(e(j), c(j)) /\ c(j) \in Nat
      OBVIOUS
    <2>1. B[j] \in 1..q.nu /\ Blocked(q, B[j])
      BY <1>1
    <2> QED
      BY <2>1, ChangeBlocksAre
  <1>5. DOMAIN B = 1..Len(B) /\ Len(B) \in Nat
    BY <1>1
  <1> HIDE DEF B, S, c, e
  <1>6. ss = [j \in 1..Len(B) |-> e(j)] /\ t = [j \in 1..Len(B) |-> c(j)]
    BY <1>5
  <1>7. ss \in Seq(Seq(AllBlocks)) /\ Len(ss) = Len(B) /\ t \in Seq(Int)
    BY <1>4, <1>5, <1>6 DEF Residuals
  <1>8. \A j \in 1..Len(B) : Numel(ss[j]) = t[j]
    BY <1>4, <1>6 DEF Residuals
  <1> HIDE DEF ss
  <1>9. /\ FlattenSeq(ss) \in Seq(AllBlocks) /\ Numel(FlattenSeq(ss)) = Total(Numels(ss))
    BY <1>7, NumelOfJoined
  <1>10. Numels(ss) = [j \in 1..Len(B) |-> Numel(ss[j])]
    <2>1. DOMAIN ss = 1..Len(B)
      BY <1>7
    <2> QED
      BY <2>1 DEF Numels
  <1>11. Numels(ss) = t
    BY <1>4, <1>6, <1>8, <1>10
  <1> HIDE DEF t
  <1> QED
    BY <1>3, <1>9, <1>11 DEF Residuals

LEMMA InequalityBlocksCount ==
    ASSUME NEW q \in Problems
    PROVE  Residuals(InequalityBlocks(q),
                     Len(TimePoints(q)) * q.pathineq + q.pointineq + Total(BoundedFactors(q)))
  <1> DEFINE a == AtPoints("path_ineq", q.pathineq, TimePoints(q))
             b == << Block("point_ineq", q.pointineq, NoPoint) >>
             c == ChangePart(q)
             k == Len(TimePoints(q)) * q.pathineq  m == q.pointineq
             n == Total(BoundedFactors(q))
  <1>1. "path_ineq" \in Types /\ "point_ineq" \in Types /\ NoPoint \in Points
    BY DEF Types, Points, NoPoint
  <1>2. q.pathineq \in Nat /\ q.pointineq \in Nat
    BY ProblemNumbers
  <1>3. TimePoints(q) \in Seq(Points)
    BY TimePointsAre
  <1>4. Residuals(a, k) /\ Residuals(b, m) /\ Residuals(c, n)
    BY <1>1, <1>2, <1>3, AtPointsAre, OneBlock, ChangePartIs
  <1>5. InequalityBlocks(q) = a \o b \o c
    BY DEF InequalityBlocks, ChangePart
  <1> HIDE DEF a, b, c, k, m, n
  <1>6. Residuals(a \o b, k + m)
    BY <1>4, ResidualsOfTwo
  <1>7. Residuals(a \o b \o c, k + m + n)
    BY <1>4, <1>6, ResidualsOfTwo
  <1> QED
    BY <1>5, <1>7 DEF k, m, n

-----------------------------------------------------------------------------
(* As many constraints are created as were counted.                        *)

\* With Gauss points, path equalities are counted at the points between the
\* elements too, where none is made.
PathEqualitiesAreCounted == \A q \in Problems : q.gauss /\ q.ne > 1 => q.patheq = 0

LEMMA InequalitiesCounted ==
    ASSUME NEW q \in Problems
    PROVE  Numel(InequalityBlocks(q)) = InequalityCount(q)
  <1> DEFINE a == q.ne * q.ncp  n == Total(BoundedFactors(q))  l == Len(TimePoints(q))
             pc == IF q.gauss THEN PointCount(q) - q.ne + 1 ELSE PointCount(q)
  <1>1. Numel(InequalityBlocks(q)) = l * q.pathineq + q.pointineq + n
    BY InequalityBlocksCount DEF Residuals
  <1>2. l = 1 + a + (IF q.gauss THEN 1 ELSE 0)
    BY TimePointsAre
  <1>3. InequalityCount(q) = q.pathineq * pc + q.pointineq + n
    BY DEF InequalityCount
  <1>4. q.ne \in Nat /\ q.ncp \in Nat /\ q.pathineq \in Nat /\ q.pointineq \in Nat
        /\ q.gauss \in BOOLEAN /\ a \in Nat
    BY ProblemNumbers
  <1>5. pc = l
    <2>1. CASE q.gauss = TRUE
      BY <1>2, <1>4, <2>1, SMTT(30) DEF PointCount
    <2>2. CASE q.gauss = FALSE
      BY <1>2, <1>4, <2>2 DEF PointCount
    <2> QED
      BY <1>4, <2>1, <2>2
  <1>6. l \in Nat
    BY <1>2, <1>4
  <1> HIDE DEF pc, l, n, a
  <1>7. l * q.pathineq = q.pathineq * pc
    BY <1>4, <1>5, <1>6
  <1> QED
    BY <1>1, <1>3, <1>7

LEMMA ProductsOfCounts ==
    ASSUME NEW a \in Nat, NEW x \in Nat, NEW d \in Nat, NEW c \in Nat, NEW y \in Nat
    PROVE  /\ d * (1 + a) = d + a * d /\ a * (x + d) = a * x + a * d
           /\ a * (c + y) = a * c + a * y
  OBVIOUS

LEMMA PathEqualities ==
    ASSUME PathEqualitiesAreCounted, NEW q \in Problems
    PROVE  Len(TimePoints(q)) * q.patheq = q.patheq * PointCount(q)
           /\ q.patheq * PointCount(q) \in Nat
  <1>1. q.ne \in Nat \ {0} /\ q.ncp \in Nat /\ q.patheq \in Nat /\ q.gauss \in BOOLEAN
    BY ProblemNumbers
  <1> DEFINE l == Len(TimePoints(q))  pc == PointCount(q)
  <1>2. l = 1 + q.ne * q.ncp + (IF q.gauss THEN 1 ELSE 0)
    BY TimePointsAre
  <1>3. l \in Nat /\ pc \in Nat
    <2>1. q.ne * q.ncp \in Nat /\ q.ne * (q.ncp + 1) \in Nat /\ q.ne * (q.ncp + 0) \in Nat
      BY <1>1
    <2> QED
      BY <1>1, <1>2, <2>1 DEF PointCount
  <1>4. CASE q.patheq = 0
    <2>1. \A n \in Nat : n * 0 = 0 /\ 0 * n = 0
      OBVIOUS
    <2> HIDE DEF l, pc
    <2>2. l * 0 = 0 /\ 0 * pc = 0
      BY <1>3, <2>1
    <2> QED
      BY <1>4, <2>2 DEF l, pc
  <1>5. CASE q.patheq # 0
    <2>1. q.gauss = FALSE \/ q.ne = 1
      BY <1>1, <1>5 DEF PathEqualitiesAreCounted
    <2>2. l = pc
      <3>1. CASE q.gauss = FALSE
        BY <1>1, <1>2, <3>1 DEF PointCount
      <3>2. CASE q.gauss = TRUE /\ q.ne = 1
        BY <1>1, <1>2, <3>2 DEF PointCount
      <3> QED
        BY <1>1, <2>1, <3>1, <3>2
    <2> HIDE DEF l, pc
    <2>3. l * q.patheq = q.patheq * pc /\ q.patheq * pc \in Nat
      BY <1>1, <1>3, <2>2
    <2> QED
      BY <2>3 DEF l, pc
  <1> QED
    BY <1>4, <1>5

LEMMA EqualitiesCounted ==
    ASSUME PathEqualitiesAreCounted, NEW q \in Problems, NEW cp \in BOOLEAN
    PROVE  Numel(EqualityBlocks(q, cp)) = EqualityCount(q)
  <1> DEFINE a == q.ne * q.ncp  f == Len(Free(q))  mx == a * q.nx  md == a * q.ndae
             e == (q.ne - 1) * q.nx  pe == q.patheq * PointCount(q)
             g == IF q.gauss THEN q.ne * q.nx + q.nu + q.nw + q.nx ELSE 0
             g2 == IF q.gauss THEN q.ne * q.nx + (q.nu + q.nw + q.nx) ELSE 0
             h == IF q.free THEN 1 ELSE 0
             mc == a * q.nconstr  my == a * q.ndelay
  <1>1. /\ q.ne \in Nat \ {0} /\ q.ncp \in Nat /\ q.nx \in Nat /\ q.nw \in Nat /\ q.nu \in Nat
        /\ q.ninit \in Nat /\ q.ndae \in Nat /\ q.pointeq \in Nat
        /\ q.nconstr \in Nat /\ q.ndelay \in Nat /\ q.gauss \in BOOLEAN
    BY ProblemNumbers
  <1>2. a \in Nat /\ mx \in Nat /\ md \in Nat /\ mc \in Nat /\ my \in Nat
    BY <1>1, Products
  <1>3. e \in Nat /\ q.ne * q.nx \in Nat
    <2>1. q.ne - 1 \in Nat /\ q.ne \in Nat
      BY <1>1
    <2> QED
      BY <1>1, <2>1, Products
  <1>4. f \in Nat
    BY <1>1, FreeIs
  <1>5. Numel(EqualityBlocks(q, cp)) = CommonCount(q) + a * (q.nx + q.ndae) + e
    BY EqualityBlocksCount DEF Residuals
  <1>6. Len(TimePoints(q)) * q.patheq = pe /\ pe \in Nat
    BY PathEqualities
  <1>7. CommonCount(q) = (q.ninit + q.ndae) + f + g2 + h + pe + q.pointeq + mc + my
    BY <1>6 DEF CommonCount
  <1>8. EqualityCount(q) = q.ninit + q.ndae * (1 + a) + f + g + h + pe + q.pointeq
                           + mx + e + a * (q.nconstr + q.ndelay)
    BY DEF EqualityCount, InputEqualities
  <1>9. g = g2 /\ g \in Nat
    BY <1>1, <1>3
  <1>10. h \in Nat
    OBVIOUS
  <1>11. /\ q.ndae * (1 + a) = q.ndae + md /\ a * (q.nx + q.ndae) = mx + md
         /\ a * (q.nconstr + q.ndelay) = mc + my
    BY <1>1, <1>2, ProductsOfCounts
  <1> HIDE DEF a, f, mx, md, e, pe, g, g2, h, mc, my
  <1>12. Numel(EqualityBlocks(q, cp))
         = (q.ninit + q.ndae) + f + g + h + pe + q.pointeq + mc + my + (mx + md) + e
    BY <1>5, <1>7, <1>9, <1>11
  <1>13. EqualityCount(q) = q.ninit + (q.ndae + md) + f + g + h + pe + q.pointeq
                            + mx + e + (mc + my)
    BY <1>8, <1>11
  <1> DEFINE ni == q.ninit  nd == q.ndae  np == q.pointeq
  <1>14. ni \in Nat /\ nd \in Nat /\ np \in Nat
    BY <1>1
  <1> HIDE DEF ni, nd, np
  <1>15. (ni + nd) + f + g + h + pe + np + mc + my + (mx + md) + e
         = ni + (nd + md) + f + g + h + pe + np + mx + e + (mc + my)
    BY <1>2, <1>3, <1>4, <1>6, <1>9, <1>10, <1>14
  <1> QED
    BY <1>12, <1>13, <1>15 DEF ni, nd, np

LEMMA ProblemIsKept == Spec => [](p \in Problems)
  <1>1. Init => p \in Problems
    BY DEF Init
  <1>2. p \in Problems /\ [Next]_vars => (p \in Problems)'
    BY DEF Next, Shift, vars
  <1> QED
    BY <1>1, <1>2, PTL DEF Spec

\* The assertions of _assemble_back_tracking_info, for every problem: the
\* constraints that are created are as many as were counted in advance, point
\* by point and with checkpointed functions of whole elements.
THEOREM ConstraintsAreCounted == PathEqualitiesAreCounted => (Spec => []ConstraintsCounted)
  <1> SUFFICES ASSUME PathEqualitiesAreCounted PROVE Spec => []ConstraintsCounted
    OBVIOUS
  <1>1. p \in Problems => ConstraintsCounted
    BY EqualitiesCounted, InequalitiesCounted DEF ConstraintsCounted
  <1> QED
    BY <1>1, ProblemIsKept, PTL

-----------------------------------------------------------------------------
(* What the transcription leaves to the optimizer.                         *)

Determined(q) ==
    /\ q.ninit = q.nx /\ q.ndae = q.nx + q.nw
    /\ q.patheq = 0 /\ q.pointeq = 0 /\ q.nconstr = 0 /\ q.ndelay = 0

LEMMA CommonOfDetermined ==
    ASSUME NEW q \in Problems, Determined(q)
    PROVE  CommonCount(q) = 2 * q.nx + q.nw + Len(Free(q))
               + (IF q.gauss THEN q.ne * q.nx + (q.nu + q.nw + q.nx) ELSE 0)
               + (IF q.free THEN 1 ELSE 0)
  <1> DEFINE a == q.ne * q.ncp  f == Len(Free(q))  l == Len(TimePoints(q))
             g == IF q.gauss THEN q.ne * q.nx + (q.nu + q.nw + q.nx) ELSE 0
             h == IF q.free THEN 1 ELSE 0
  <1>1. /\ q.ne \in Nat /\ q.ncp \in Nat /\ q.nx \in Nat /\ q.nw \in Nat /\ q.nu \in Nat
        /\ q.gauss \in BOOLEAN
    BY ProblemNumbers
  <1>2. a \in Nat /\ q.ne * q.nx \in Nat
    BY <1>1, Products
  <1>3. f \in Nat /\ l \in Nat
    <2>1. f \in Nat
      BY <1>1, FreeIs
    <2>2. TimePoints(q) \in Seq(Points)
      BY TimePointsAre
    <2> QED
      BY <2>1, <2>2
  <1>4. g \in Nat /\ h \in Nat
    BY <1>1, <1>2
  <1>5. CommonCount(q) = (q.nx + (q.nx + q.nw)) + f + g + h + l * 0 + 0 + a * 0 + a * 0
    BY DEF CommonCount, Determined
  <1> HIDE DEF a, f, l, g, h
  <1>6. l * 0 = 0 /\ a * 0 = 0
    <2>1. \A n \in Nat : n * 0 = 0
      OBVIOUS
    <2> QED
      BY <1>2, <1>3, <2>1
  <1>7. CommonCount(q) = 2 * q.nx + q.nw + f + g + h
    BY <1>1, <1>3, <1>4, <1>5, <1>6
  <1> QED
    BY <1>7 DEF f, g, h

LEMMA Freedom ==
    ASSUME NEW q \in Problems, Determined(q)
    PROVE  NXX(q) - Numel(EqualityBlocks(q, FALSE))
           = q.ne * q.ncp * Len(Free(q)) + (IF q.blocked THEN FactorCount(q) ELSE 0)
             + q.npopt + (IF q.free THEN q.ne - 1 ELSE 0)
  <1> DEFINE a == q.ne * q.ncp  f == Len(Free(q))  fc == FactorCount(q)
             u == IF q.blocked THEN 0 ELSE q.nu
             perPoint == 2 * q.nx + q.nw + u
             mx == a * q.nx  mw == a * q.nw  mz == a * u  mf == a * f
             e == (q.ne - 1) * q.nx  ex == q.ne * q.nx
             all == NXX(q)  eqs == Numel(EqualityBlocks(q, FALSE))
             g == IF q.gauss THEN ex + (q.nu + q.nw + q.nx) ELSE 0
             h == IF q.free THEN 1 ELSE 0
  <1>1. /\ q.ne \in Nat \ {0} /\ q.ncp \in Nat /\ q.nx \in Nat /\ q.nw \in Nat /\ q.nu \in Nat
        /\ q.npopt \in Nat /\ q.gauss \in BOOLEAN /\ q.blocked \in BOOLEAN /\ q.free \in BOOLEAN
    BY ProblemNumbers
  <1>2. f \in Nat /\ fc \in Nat /\ (q.blocked = FALSE => f = q.nu)
    <2>1. PICK k : Sums(k, FactorLengths(q))
      BY FactorSumsExist
    <2> QED
      BY <1>1, <2>1, FreeIs, BlockedPartIs
  <1>3. q.blocked = TRUE => q.gauss = FALSE
    BY <1>1, ProblemsAssumption
  <1>4. a \in Nat /\ u \in Nat
    BY <1>1, Products
  <1>5. mx \in Nat /\ mw \in Nat /\ mz \in Nat /\ mf \in Nat
    BY <1>1, <1>2, <1>4, Products
  <1>6. ex \in Nat /\ e = ex - q.nx
    <2>1. q.ne \in Nat
      BY <1>1
    <2> QED
      BY <1>1, <2>1, Products, ProductsOfSums
  <1>7. (1 + a) * perPoint = 2 * q.nx + q.nw + u + 2 * mx + mw + mz
    <2> HIDE DEF a, u
    <2>1. Spread(a, q.nx, q.nw, u)
      BY <1>1, <1>4, ProductOfSum
    <2> QED
      BY <2>1 DEF Spread
  <1>8. (1 + a) * f = f + mf
    <2> HIDE DEF a, f
    <2>1. \A b, c \in Nat : (1 + b) * c = c + b * c
      OBVIOUS
    <2> QED
      BY <1>2, <1>4, <2>1
  <1>9. a * (q.nx + q.ndae) = 2 * mx + mw
    <2> HIDE DEF a
    <2>1. \A b, x, w \in Nat : b * (x + (x + w)) = 2 * (b * x) + b * w
      OBVIOUS
    <2>2. a * (q.nx + (q.nx + q.nw)) = 2 * (a * q.nx) + a * q.nw
      BY <1>1, <1>4, <2>1
    <2> QED
      BY <2>2 DEF Determined
  <1>10. all = q.npopt + (2 * q.nx + q.nw + u + 2 * mx + mw + mz)
               + (IF q.blocked THEN f + mf + fc ELSE 0) + e
               + (IF q.gauss THEN e + perPoint ELSE 0)
               + (IF q.free THEN q.ne ELSE 0)
    BY <1>7, <1>8 DEF NXX, MeshVariables
  <1>11. eqs = (2 * q.nx + q.nw + f + g + h) + (2 * mx + mw) + e
    <2>1. eqs = CommonCount(q) + a * (q.nx + q.ndae) + e
      BY EqualityBlocksCount DEF Residuals
    <2>2. CommonCount(q) = 2 * q.nx + q.nw + f + g + h
      BY CommonOfDetermined
    <2> HIDE DEF all, eqs, a, f, mx, mw, e, g, h
    <2> QED
      BY <1>9, <2>1, <2>2
  <1>12. /\ u = IF q.blocked THEN 0 ELSE q.nu
         /\ perPoint = 2 * q.nx + q.nw + u
         /\ g = IF q.gauss THEN ex + (q.nu + q.nw + q.nx) ELSE 0
         /\ h = IF q.free THEN 1 ELSE 0
    OBVIOUS
  <1>13. q.blocked = FALSE => mz = mf
    BY <1>2
  <1>14. q.blocked = TRUE => mz = 0
    <2>1. \A n \in Nat : n * 0 = 0
      OBVIOUS
    <2> HIDE DEF a
    <2> QED
      BY <1>4, <2>1
  <1> HIDE DEF a, f, fc, u, perPoint, mx, mw, mz, mf, e, ex, all, eqs, g, h
  <1> DEFINE lengths == IF q.free THEN q.ne ELSE 0
  <1>15. lengths - h = (IF q.free THEN q.ne - 1 ELSE 0) /\ lengths \in Nat /\ h \in Nat
    BY <1>1, <1>12
  <1>16. all = q.npopt + (2 * q.nx + q.nw + u + 2 * mx + mw + mz)
               + (IF q.blocked THEN f + mf + fc ELSE 0) + e
               + (IF q.gauss THEN e + perPoint ELSE 0) + lengths
    BY <1>10
  <1> HIDE DEF lengths
  <1>17. all - eqs = mf + (IF q.blocked THEN fc ELSE 0) + q.npopt + (lengths - h)
    <2>1. CASE q.blocked = TRUE
      <3>1. q.gauss = FALSE /\ g = 0 /\ u = 0 /\ mz = 0
        BY <1>3, <1>12, <1>14, <2>1
      <3>2. all = q.npopt + (2 * q.nx + q.nw + 0 + 2 * mx + mw + 0) + (f + mf + fc)
                  + e + 0 + lengths
        BY <1>16, <2>1, <3>1
      <3>3. e \in Int
        BY <1>1, <1>6
      <3>4. all - eqs = mf + fc + q.npopt + (lengths - h)
        BY <1>1, <1>2, <1>5, <1>11, <1>15, <3>1, <3>2, <3>3
      <3> QED
        BY <2>1, <3>4
    <2>2. CASE q.blocked = FALSE
      <3>1. u = q.nu /\ mz = mf /\ f = q.nu
        BY <1>2, <1>12, <1>13, <2>2
      <3>2. CASE q.gauss = TRUE
        <4>1. all = q.npopt + (2 * q.nx + q.nw + q.nu + 2 * mx + mw + mf) + 0 + e
                    + (e + (2 * q.nx + q.nw + q.nu)) + lengths
          BY <1>12, <1>16, <2>2, <3>1, <3>2
        <4>2. eqs = (2 * q.nx + q.nw + q.nu + (ex + (q.nu + q.nw + q.nx)) + h) + (2 * mx + mw) + e
          BY <1>11, <1>12, <3>1, <3>2
        <4>3. all - eqs = mf + q.npopt + (lengths - h)
          BY <1>1, <1>2, <1>5, <1>6, <1>15, <4>1, <4>2
        <4> QED
          BY <1>1, <1>5, <1>15, <2>2, <4>3
      <3>3. CASE q.gauss = FALSE
        <4>1. all = q.npopt + (2 * q.nx + q.nw + q.nu + 2 * mx + mw + mf) + 0 + e + 0 + lengths
          BY <1>12, <1>16, <2>2, <3>1, <3>3
        <4>2. eqs = (2 * q.nx + q.nw + q.nu + 0 + h) + (2 * mx + mw) + e
          BY <1>11, <1>12, <3>1, <3>3
        <4>3. all - eqs = mf + q.npopt + (lengths - h)
          BY <1>1, <1>2, <1>5, <1>6, <1>15, <4>1, <4>2
        <4> QED
          BY <1>1, <1>5, <1>15, <2>2, <4>3
      <3> QED
        BY <1>1, <3>2, <3>3
    <2> QED
      BY <1>1, <2>1, <2>2
  <1>18. a * f = mf /\ a = q.ne * q.ncp
    BY DEF mf, a
  <1> QED
    BY <1>15, <1>17, <1>18 DEF all, eqs, fc, f

\* A determined model leaves the optimizer exactly its inputs, parameters and
\* element lengths, for every discretization: what _count_constraints equates
\* is what _create_nlp_variables adds for states, derivatives and variables.
THEOREM FreedomIsInputs == Spec => []DegreesOfFreedom
  <1>1. p \in Problems => DegreesOfFreedom
    BY Freedom DEF DegreesOfFreedom, Determined
  <1> QED
    BY <1>1, ProblemIsKept, PTL

-----------------------------------------------------------------------------
(* The entry at each index of a variable.                                  *)

EntryIs(q, n, e) == n \in 1..Len(Layout(q)) /\ Layout(q)[n] = e

LEMMA GroupEntry ==
    ASSUME NEW q \in Problems, NEW g \in 1..7, NEW r \in 1..Len(Groups(q)[g])
    PROVE  EntryIs(q, SplitIndices(q)[g] + r, Groups(q)[g][r])
  <1>1. Len(Groups(q)[g]) = SplitSizes(q)[g]
    BY GroupSizes
  <1>2. r \in 1..SplitSizes(q)[g]
    BY <1>1
  <1> QED
    BY <1>2, LayoutIs DEF EntryIs

\* The entry of a group that is a grid of variables at points, or begins with one.
LEMMA GridEntry ==
    ASSUME NEW q \in Problems, NEW g \in 1..7, NEW kind \in Kinds, NEW vs \in Seq(Int),
           NEW pts \in Seq(Points), NEW grid, IsGrid(grid, kind, vs, pts),
           Len(grid) <= Len(Groups(q)[g]),
           \A r \in 1..Len(grid) : Groups(q)[g][r] = grid[r],
           NEW j \in 1..Len(pts), NEW r \in 1..Len(vs)
    PROVE  EntryIs(q, SplitIndices(q)[g] + ((j - 1) * Len(vs) + r), <<kind, vs[r], pts[j]>>)
  <1> DEFINE m == (j - 1) * Len(vs) + r
  <1>1. m \in 1..Len(grid) /\ grid[m] = <<kind, vs[r], pts[j]>>
    BY DEF IsGrid
  <1> HIDE DEF m
  <1>2. Len(grid) \in Nat /\ Len(Groups(q)[g]) \in Nat
    <2>1. grid \in Seq(Entries)
      BY DEF IsGrid
    <2>2. Groups(q) \in Seq(Seq(Entries)) /\ Len(Groups(q)) = 7
      BY GroupSizes
    <2>3. Groups(q)[g] \in Seq(Entries)
      BY <2>2, ElementsAre
    <2> QED
      BY <2>1, <2>3
  <1>3. m \in 1..Len(Groups(q)[g]) /\ Groups(q)[g][m] = <<kind, vs[r], pts[j]>>
    BY <1>1, <1>2, SMTT(30)
  <1>4. EntryIs(q, SplitIndices(q)[g] + m, Groups(q)[g][m])
    BY <1>3, GroupEntry
  <1> QED
    BY <1>3, <1>4 DEF m

LEMMA OffsetIs ==
    ASSUME NEW i, NEW k, NEW n, NEW m, NEW first, NEW j
    PROVE  Offset(n, m, first, j, <<i, k>>) = ((i - 1) * m + k - first) * n + j
  BY DEF Offset

LEMMA StateEntry ==
    ASSUME NEW q \in Problems, NEW i \in 1..q.ne, NEW k \in 0..LastPoint(q), NEW v \in 1..q.nx
    PROVE  EntryIs(q, VarIndex(q, "x", v, <<i, k>>), <<"x", v, <<i, k>>>>)
  <1> DEFINE L == LastPoint(q)  n == (i - 1) * (L + 1) + k  j == n + 1  vs == Seq1(q.nx)
             pts == StatePoints(q)  grid == Grid("x", vs, pts)
  <1>1. q.nx \in Nat /\ q.ne \in Nat /\ L \in Nat
    BY ProblemNumbers, StatePointsAre
  <1>2. pts \in Seq(Points) /\ j \in 1..Len(pts) /\ pts[j] = <<i, k>>
    BY StatePointsAre
  <1>3. vs \in Seq(Int) /\ Len(vs) = q.nx /\ vs[v] = v
    BY <1>1, Seq1Is
  <1>4. "x" \in Kinds
    BY DEF Kinds
  <1>5. IsGrid(grid, "x", vs, pts) /\ Groups(q)[1] = grid
    BY <1>2, <1>3, <1>4, GridIs, GroupsAre
  <1>6. n \in Int /\ j - 1 = n
    BY <1>1
  <1>7. VarIndex(q, "x", v, <<i, k>>) = n * q.nx + v
    <2>1. VarIndex(q, "x", v, <<i, k>>) = Offset(q.nx, L + 1, 0, v, <<i, k>>)
      BY DEF VarIndex
    <2>2. Offset(q.nx, L + 1, 0, v, <<i, k>>) = ((i - 1) * (L + 1) + k - 0) * q.nx + v
      BY OffsetIs
    <2>3. (i - 1) * (L + 1) + (k - 0) = n
      BY <1>1
    <2> HIDE DEF L, n
    <2> QED
      BY <2>1, <2>2, <2>3
  <1>8. SplitIndices(q)[1] = 0
    BY SplitIndicesAre
  <1> HIDE DEF L, n, j, vs, pts, grid
  <1>9. Len(grid) <= Len(Groups(q)[1])
    <2>1. grid \in Seq(Entries)
      BY <1>5 DEF IsGrid
    <2> QED
      BY <1>5, <2>1
  <1>10. EntryIs(q, SplitIndices(q)[1] + ((j - 1) * Len(vs) + v), <<"x", vs[v], pts[j]>>)
    <2>1. v \in 1..Len(vs)
      BY <1>3
    <2>2. 1 \in 1..7
      OBVIOUS
    <2>3. \A r \in 1..Len(grid) : Groups(q)[1][r] = grid[r]
      BY <1>5
    <2> HIDE DEF EntryIs
    <2> QED
      BY <1>2, <1>3, <1>4, <1>5, <1>9, <2>1, <2>2, <2>3, GridEntry
  <1>11. SplitIndices(q)[1] + ((j - 1) * Len(vs) + v) = VarIndex(q, "x", v, <<i, k>>)
    <2>1. n * q.nx \in Int
      BY <1>1, <1>6
    <2>2. (j - 1) * Len(vs) = n * q.nx
      BY <1>3, <1>6
    <2> HIDE DEF n
    <2> QED
      BY <1>7, <1>8, <2>1, <2>2
  <1> QED
    BY <1>2, <1>3, <1>10, <1>11

\* A group of variables at the collocation points.
LEMMA InnerEntry ==
    ASSUME NEW q \in Problems, NEW g \in 1..7, NEW kind \in Kinds, NEW vs \in Seq(Int),
           NEW n, n = Len(vs),
           \A r \in 1..Len(Grid(kind, vs, InnerPoints(q))) :
               Groups(q)[g][r] = Grid(kind, vs, InnerPoints(q))[r],
           Len(Grid(kind, vs, InnerPoints(q))) <= Len(Groups(q)[g]),
           NEW i \in 1..q.ne, NEW k \in 1..q.ncp, NEW r \in 1..n
    PROVE  EntryIs(q, InnerIndex(q, g, n, r, <<i, k>>), <<kind, vs[r], <<i, k>>>>)
  <1> DEFINE a == (i - 1) * q.ncp  j == a + k  pts == InnerPoints(q)  grid == Grid(kind, vs, pts)
  <1>1. pts \in Seq(Points) /\ j \in 1..Len(pts) /\ pts[j] = <<i, k>>
    BY InnerPointsAre
  <1>2. IsGrid(grid, kind, vs, pts)
    BY <1>1, GridIs
  <1>3. q.ncp \in Nat /\ a \in Int /\ j - 1 = a + k - 1
    <2>1. q.ncp \in Nat /\ i - 1 \in Int /\ k \in Int
      BY ProblemNumbers
    <2>2. a \in Int
      BY <2>1
    <2> HIDE DEF a
    <2> QED
      BY <2>1, <2>2
  <1>4. InnerIndex(q, g, n, r, <<i, k>>) = SplitIndices(q)[g] + ((a + k - 1) * n + r)
    BY OffsetIs DEF InnerIndex
  <1> HIDE DEF a, j, pts
  <1>5. EntryIs(q, SplitIndices(q)[g] + ((j - 1) * Len(vs) + r), <<kind, vs[r], pts[j]>>)
    <2>1. Len(grid) <= Len(Groups(q)[g]) /\ \A m \in 1..Len(grid) : Groups(q)[g][m] = grid[m]
      BY DEF pts
    <2>2. r \in 1..Len(vs)
      OBVIOUS
    <2> HIDE DEF grid
    <2> QED
      BY <1>1, <1>2, <2>1, <2>2, GridEntry
  <1> QED
    BY <1>1, <1>3, <1>4, <1>5

LEMMA GroupTypes ==
    ASSUME NEW q \in Problems, NEW g \in 1..7
    PROVE  Groups(q)[g] \in Seq(Entries) /\ Len(Groups(q)[g]) \in Nat
  <1>1. Groups(q) \in Seq(Seq(Entries)) /\ Len(Groups(q)) = 7
    BY GroupSizes
  <1>2. Groups(q)[g] \in Seq(Entries)
    BY <1>1, ElementsAre
  <1> QED
    BY <1>2

LEMMA DerivativeEntry ==
    ASSUME NEW q \in Problems, NEW i \in 1..q.ne, NEW k \in 1..q.ncp, NEW v \in 1..q.nx
    PROVE  EntryIs(q, VarIndex(q, "dx", v, <<i, k>>), <<"dx", v, <<i, k>>>>)
  <1> DEFINE vs == Seq1(q.nx)  grid == Grid("dx", vs, InnerPoints(q))
  <1>1. vs \in Seq(Int) /\ Len(vs) = q.nx /\ vs[v] = v
    BY ProblemNumbers, Seq1Is
  <1>2. Groups(q)[2] = grid
    BY GroupsAre
  <1>3. VarIndex(q, "dx", v, <<i, k>>) = InnerIndex(q, 2, q.nx, v, <<i, k>>)
    BY DEF VarIndex
  <1>4. Len(grid) <= Len(Groups(q)[2]) /\ \A r \in 1..Len(grid) : Groups(q)[2][r] = grid[r]
    <2>1. 2 \in 1..7
      OBVIOUS
    <2> HIDE DEF grid
    <2>2. Len(grid) \in Nat
      BY <1>2, <2>1, GroupTypes
    <2> QED
      BY <1>2, <2>2
  <1>5. "dx" \in Kinds /\ 2 \in 1..7
    BY DEF Kinds
  <1> HIDE DEF vs
  <1>6. EntryIs(q, InnerIndex(q, 2, q.nx, v, <<i, k>>), <<"dx", vs[v], <<i, k>>>>)
    BY <1>1, <1>4, <1>5, InnerEntry
  <1> QED
    BY <1>1, <1>3, <1>6

LEMMA AlgebraicEntry ==
    ASSUME NEW q \in Problems, NEW i \in 1..q.ne, NEW k \in 1..q.ncp, NEW v \in 1..q.nw
    PROVE  EntryIs(q, VarIndex(q, "w", v, <<i, k>>), <<"w", v, <<i, k>>>>)
  <1> DEFINE vs == Seq1(q.nw)  grid == Grid("w", vs, InnerPoints(q))
  <1>1. vs \in Seq(Int) /\ Len(vs) = q.nw /\ vs[v] = v
    BY ProblemNumbers, Seq1Is
  <1>2. Groups(q)[3] = grid
    BY GroupsAre
  <1>3. VarIndex(q, "w", v, <<i, k>>) = InnerIndex(q, 3, q.nw, v, <<i, k>>)
    BY DEF VarIndex
  <1>4. Len(grid) <= Len(Groups(q)[3]) /\ \A r \in 1..Len(grid) : Groups(q)[3][r] = grid[r]
    <2>1. 3 \in 1..7
      OBVIOUS
    <2> HIDE DEF grid
    <2>2. Len(grid) \in Nat
      BY <1>2, <2>1, GroupTypes
    <2> QED
      BY <1>2, <2>2
  <1>5. "w" \in Kinds /\ 3 \in 1..7
    BY DEF Kinds
  <1> HIDE DEF vs
  <1>6. EntryIs(q, InnerIndex(q, 3, q.nw, v, <<i, k>>), <<"w", vs[v], <<i, k>>>>)
    BY <1>1, <1>4, <1>5, InnerEntry
  <1> QED
    BY <1>1, <1>3, <1>6

\* The number of an input among those without blocking factors.
IsFree(q, v) == v \in 1..q.nu /\ ~ (q.blocked /\ Blocked(q, v))
FreeRank(q, v) == Cardinality({w \in 1..v : w \in ToSet(Free(q))})

LEMMA FreeRankIs ==
    ASSUME NEW q \in Problems, NEW v, IsFree(q, v)
    PROVE  FreeRank(q, v) \in 1..Len(Free(q)) /\ Free(q)[FreeRank(q, v)] = v
  <1> DEFINE s == Free(q)  S == FreeInputs(q)
  <1>1. q.nu \in Nat
    BY ProblemNumbers
  <1>2. s \in Seq(Int) /\ Lists(s, S, q.nu)
    BY <1>1, FreeIs
  <1>3. v \in S /\ v \in 1..q.nu /\ S \subseteq 1..q.nu
    BY DEF FreeInputs, IsFree
  <1> HIDE DEF s, S
  <1>4. Rank(S, v) \in 1..Len(s) /\ s[Rank(S, v)] = v
    BY <1>2, <1>3 DEF Lists
  <1>5. ToSet(s) = S
    <2>1. ToSet(s) = {s[j] : j \in 1..Len(s)}
      BY <1>2 DEF ToSet
    <2>2. ASSUME NEW w \in S PROVE \E j \in 1..Len(s) : w = s[j]
      BY <1>2, <1>3 DEF Lists
    <2>3. \A j \in 1..Len(s) : s[j] \in S
      BY <1>2 DEF Lists
    <2> QED
      BY <2>1, <2>2, <2>3
  <1>6. FreeRank(q, v) = Rank(S, v)
    BY <1>5 DEF FreeRank, Rank, s
  <1> QED
    BY <1>4, <1>6 DEF s

LEMMA FreeInputEntry ==
    ASSUME NEW q \in Problems, NEW i \in 1..q.ne, NEW k \in 1..q.ncp, NEW v, IsFree(q, v)
    PROVE  EntryIs(q, VarIndex(q, "u", v, <<i, k>>), <<"u", v, <<i, k>>>>)
  <1> DEFINE vs == Free(q)  grid == Grid("u", vs, InnerPoints(q))  r == FreeRank(q, v)
             nf == Len(Free(q))
  <1>1. r \in 1..nf /\ vs[r] = v /\ vs \in Seq(Int)
    BY ProblemNumbers, FreeIs, FreeRankIs
  <1>2. VarIndex(q, "u", v, <<i, k>>) = InnerIndex(q, 4, nf, r, <<i, k>>)
    BY DEF VarIndex, InputIndex, IsFree, FreeRank
  <1>3. "u" \in Kinds /\ 4 \in 1..7
    BY DEF Kinds
  <1>4. Groups(q)[4] = InputPart(q)
    BY GroupsAre
  <1>5. Len(grid) <= Len(InputPart(q)) /\ \A m \in 1..Len(grid) : InputPart(q)[m] = grid[m]
    <2>1. IsGrid(grid, "u", vs, InnerPoints(q))
      BY <1>1, <1>3, InnerPointsAre, GridIs
    <2>2. Len(grid) = q.ne * q.ncp * nf
      BY <2>1, InnerPointsAre DEF IsGrid
    <2>3. q.ne * q.ncp * nf \in Nat /\ nf \in Nat
      BY <1>1, ProblemNumbers, Products
    <2>4. FactorCount(q) \in Nat
      <3>1. PICK c : Sums(c, FactorLengths(q))
        BY FactorSumsExist
      <3> QED
        BY <3>1, BlockedPartIs
    <2> DEFINE n == q.ne * q.ncp * nf
    <2>5. /\ Len(InputPart(q)) = IF q.blocked THEN n + FactorCount(q) + nf ELSE n
          /\ \A m \in 1..n : InputPart(q)[m] = grid[m]
      BY InputPartIs
    <2> HIDE DEF n, grid, nf
    <2>6. Len(grid) = n /\ n \in Nat
      BY <2>2, <2>3 DEF n
    <2> QED
      BY <2>3, <2>4, <2>5, <2>6
  <1> HIDE DEF vs, r, nf
  <1>6. EntryIs(q, InnerIndex(q, 4, nf, r, <<i, k>>), <<"u", vs[r], <<i, k>>>>)
    <2>1. nf = Len(vs)
      BY DEF nf, vs
    <2> QED
      BY <1>1, <1>3, <1>4, <1>5, <2>1, InnerEntry, ZenonT(40)
  <1> QED
    BY <1>1, <1>2, <1>6

\* The initial and, with Gauss points, the final point.
IsEnd(q, pt) == pt = <<1, 0>> \/ (q.gauss = TRUE /\ pt = <<q.ne, q.ncp + 1>>)
EndStart(q, pt) == IF pt[2] = 0 THEN 0 ELSE PointSize(q)

LEMMA EndSlot ==
    ASSUME NEW q \in Problems, NEW pt, IsEnd(q, pt), NEW r \in 1..PointSize(q)
    PROVE  EntryIs(q, SplitIndices(q)[5] + (EndStart(q, pt) + r), EndEntries(q, pt)[r])
  <1> DEFINE n == PointSize(q)  m == EndStart(q, pt) + r
  <1>1. n \in Nat /\ q.gauss \in BOOLEAN /\ q.ncp \in Nat
    BY ProblemNumbers, EndPartIs
  <1>2. Len(EndPart(q)) = (IF q.gauss THEN 2 ELSE 1) * n
    BY EndPartIs
  <1>3. m \in 1..Len(EndPart(q)) /\ EndPart(q)[m] = EndEntries(q, pt)[r]
    <2>1. CASE pt = <<1, 0>>
      <3>1. EndStart(q, pt) = 0
        BY <2>1 DEF EndStart
      <3>2. m = r
        BY <1>1, <3>1
      <3>3. EndPart(q)[r] = EndEntries(q, <<1, 0>>)[r]
        BY EndPartIs
      <3> HIDE DEF m
      <3> QED
        BY <1>1, <1>2, <2>1, <3>2, <3>3
    <2>2. CASE q.gauss = TRUE /\ pt = <<q.ne, q.ncp + 1>>
      <3>1. EndStart(q, pt) = n
        BY <1>1, <2>2 DEF EndStart
      <3>2. m = n + r /\ EndPart(q)[n + r] = EndEntries(q, pt)[r]
        BY <2>2, <3>1, EndPartIs
      <3> HIDE DEF m
      <3> QED
        BY <1>1, <1>2, <2>2, <3>2
    <2> QED
      BY <2>1, <2>2 DEF IsEnd
  <1>4. Groups(q)[5] = EndPart(q) /\ 5 \in 1..7
    BY GroupsAre
  <1> HIDE DEF m
  <1>5. EntryIs(q, SplitIndices(q)[5] + m, Groups(q)[5][m])
    BY <1>3, <1>4, GroupEntry
  <1> QED
    BY <1>3, <1>4, <1>5 DEF m

LEMMA EndEntry ==
    ASSUME NEW q \in Problems, NEW pt, IsEnd(q, pt)
    PROVE  /\ \A v \in 1..q.nx : EntryIs(q, EndIndex(q, "dx", v, pt), <<"dx", v, pt>>)
           /\ \A v \in 1..q.nw : EntryIs(q, EndIndex(q, "w", v, pt), <<"w", v, pt>>)
           /\ q.blocked = FALSE =>
                  \A v \in 1..q.nu : EntryIs(q, EndIndex(q, "u", v, pt), <<"u", v, pt>>)
  <1> DEFINE s == EndStart(q, pt)  e == EndEntries(q, pt)  i == SplitIndices(q)[5]
  <1>1. /\ q.nx \in Nat /\ q.nw \in Nat /\ q.nu \in Nat /\ q.ne \in Nat /\ q.ncp \in Nat
        /\ q.blocked \in BOOLEAN
    BY ProblemNumbers
  <1>2. pt \in Points
    BY <1>1 DEF IsEnd, Points
  <1>3. /\ \A r \in 1..q.nx : e[r] = <<"dx", r, pt>>
        /\ \A r \in 1..q.nw : e[q.nx + r] = <<"w", r, pt>>
        /\ q.blocked = FALSE => \A r \in 1..q.nu : e[q.nx + q.nw + r] = <<"u", r, pt>>
    BY <1>2, EndEntriesAre
  <1>4. s \in Nat
    BY EndPartIs DEF EndStart
  <1>5. i \in Nat
    <2>1. \A g \in 1..8 : SplitIndices(q)[g] \in Nat
      BY SplitIndicesAre
    <2> QED
      BY <2>1
  <1>6. /\ \A v \in 1..q.nx : EndIndex(q, "dx", v, pt) = i + s + 0 + v
        /\ \A v \in 1..q.nw : EndIndex(q, "w", v, pt) = i + s + q.nx + v
        /\ \A v \in 1..q.nu : EndIndex(q, "u", v, pt) = i + s + (q.nx + q.nw) + v
    BY DEF EndIndex, EndStart, PointSize
  <1>7. \A r \in 1..PointSize(q) : EntryIs(q, i + (s + r), e[r])
    BY EndSlot
  <1>8. PointSize(q) = q.nx + q.nw + (IF q.blocked THEN 0 ELSE q.nu)
    BY DEF PointSize
  <1> HIDE DEF s, e, i
  <1>9. ASSUME NEW v \in 1..q.nx PROVE EntryIs(q, EndIndex(q, "dx", v, pt), <<"dx", v, pt>>)
    <2>1. v \in 1..PointSize(q) /\ i + s + 0 + v = i + (s + v)
      BY <1>1, <1>4, <1>5, <1>8
    <2> QED
      BY <1>3, <1>6, <1>7, <2>1
  <1>10. ASSUME NEW v \in 1..q.nw PROVE EntryIs(q, EndIndex(q, "w", v, pt), <<"w", v, pt>>)
    <2>1. q.nx + v \in 1..PointSize(q) /\ i + s + q.nx + v = i + (s + (q.nx + v))
      BY <1>1, <1>4, <1>5, <1>8
    <2> QED
      BY <1>3, <1>6, <1>7, <2>1
  <1>11. ASSUME q.blocked = FALSE, NEW v \in 1..q.nu
         PROVE  EntryIs(q, EndIndex(q, "u", v, pt), <<"u", v, pt>>)
    <2> DEFINE r == q.nx + q.nw + v
    <2>1. r \in 1..PointSize(q) /\ i + s + (q.nx + q.nw) + v = i + (s + r)
      BY <1>1, <1>4, <1>5, <1>8, <1>11
    <2>2. e[r] = <<"u", v, pt>>
      BY <1>3, <1>11
    <2> HIDE DEF r
    <2> QED
      BY <1>6, <1>7, <2>1, <2>2
  <1> QED
    BY <1>9, <1>10, <1>11

-----------------------------------------------------------------------------
(* The inputs with blocking factors.                                       *)

\* Factors count up to the elements they cover: factor f those after c[f - 1].
Covered(fs, c) ==
    /\ Sums(c, fs) /\ Len(fs) \in Nat \ {0} /\ DOMAIN fs = 1..Len(fs)
    /\ \A f \in 0..Len(fs) : c[f] \in Nat
    /\ \A f \in 1..Len(fs) : fs[f] \in Nat \ {0} /\ FirstElement(fs, f) = 1 + c[f - 1]

LEMMA FactorsCoverElements ==
    ASSUME NEW q \in Problems, NEW b \in DOMAIN q.bf
    PROVE  \E c : Covered(q.bf[b][2], c) /\ c[Len(q.bf[b][2])] = q.ne
  <1> DEFINE fs == q.bf[b][2]
  <1>1. fs \in Seq(Nat \ {0}) /\ fs \in Seq(Int) /\ Len(fs) \in Nat \ {0} /\ Total(fs) = q.ne
    BY FactorsAre, FactorsCover
  <1> HIDE DEF fs
  <1>2. PICK c : Sums(c, fs) /\ Total(fs) = c[Len(fs)]
    BY <1>1, SumsExist
  <1>3. fs \in Seq(Nat) /\ \A f \in 1..Len(fs) : fs[f] \in Nat \ {0}
    BY <1>1
  <1>4. \A f \in 0..Len(fs) : c[f] \in Nat
    BY <1>1, <1>2, <1>3, SumsAreNumbers
  <1>5. ASSUME NEW f \in 1..Len(fs) PROVE FirstElement(fs, f) = 1 + c[f - 1]
    <2>1. f - 1 \in 0..Len(fs)
      BY <1>1
    <2>2. Total(SubSeq(fs, 1, f - 1)) = c[f - 1]
      <3> DEFINE n == f - 1  r == SubSeq(fs, 1, n)
      <3>1. n \in 0..Len(fs) /\ (r = SubSeq(fs, 1, n) \/ r = [j \in 1..n |-> fs[j]])
        BY <2>1
      <3> HIDE DEF n, r
      <3>2. Total(r) = c[n]
        BY <1>1, <1>2, <3>1, TotalOfFirst
      <3> QED
        BY <3>2 DEF n, r
    <2> QED
      BY <2>2 DEF FirstElement
  <1>6. DOMAIN fs = 1..Len(fs)
    BY <1>1
  <1> QED
    BY <1>1, <1>2, <1>3, <1>4, <1>5, <1>6 DEF Covered, fs

LEMMA CoversIs ==
    ASSUME NEW fs, NEW c, Covered(fs, c), NEW f \in 1..Len(fs), NEW i \in Int
    PROVE  Covers(fs, f, i) <=> c[f - 1] < i /\ i <= c[f]
  <1>1. fs[f] \in Nat /\ FirstElement(fs, f) = 1 + c[f - 1] /\ c[f] = c[f - 1] + fs[f]
    BY DEF Covered, Sums
  <1>2. c[f - 1] \in Nat /\ c[f] \in Nat
    <2>1. f - 1 \in 0..Len(fs) /\ f \in 0..Len(fs)
      BY DEF Covered
    <2> QED
      BY <2>1 DEF Covered
  <1> QED
    BY <1>1, <1>2 DEF Covers

LEMMA CountsGrow ==
    ASSUME NEW fs, NEW c, Covered(fs, c), NEW f \in 0..Len(fs)
    PROVE  \A g \in 0..Len(fs) : f <= g => c[f] <= c[g]
  <1> DEFINE T == {n \in Nat : f + n <= Len(fs) => c[f] <= c[f + n]}
  <1>1. Len(fs) \in Nat /\ f \in Nat /\ \A g \in 0..Len(fs) : c[g] \in Nat
    BY DEF Covered
  <1>2. 0 \in T
    BY <1>1
  <1>3. ASSUME NEW n \in Nat, n \in T PROVE n + 1 \in T
    <2> SUFFICES ASSUME f + (n + 1) <= Len(fs) PROVE c[f] <= c[f + (n + 1)]
      OBVIOUS
    <2> DEFINE m == f + (n + 1)
    <2>1. m \in 1..Len(fs) /\ m - 1 = f + n /\ m \in 0..Len(fs) /\ f + n \in 0..Len(fs)
      BY <1>1
    <2>2. c[m] = c[f + n] + fs[m] /\ fs[m] \in Nat
      BY <2>1 DEF Covered, Sums
    <2>3. c[f] <= c[f + n]
      BY <1>3, <2>1
    <2> HIDE DEF m
    <2> QED
      BY <1>1, <2>1, <2>2, <2>3 DEF m
  <1>4. Nat \subseteq T
    <2> HIDE DEF T
    <2> QED
      BY <1>2, <1>3, Induct
  <1> SUFFICES ASSUME NEW g \in 0..Len(fs), f <= g PROVE c[f] <= c[g]
    OBVIOUS
  <1>5. g - f \in T /\ f + (g - f) = g
    BY <1>1, <1>4
  <1> QED
    BY <1>5

CoverOf(fs, i) == CHOOSE f \in DOMAIN fs : Covers(fs, f, i)

LEMMA CoveredOnce ==
    ASSUME NEW fs, NEW c, Covered(fs, c), NEW i \in 1..c[Len(fs)]
    PROVE  /\ CoverOf(fs, i) \in 1..Len(fs) /\ Covers(fs, CoverOf(fs, i), i)
           /\ \A f \in 1..Len(fs) : Covers(fs, f, i) => f = CoverOf(fs, i)
  <1> DEFINE N == Len(fs)  T == {f \in 0..N : i <= c[f]}
  <1>1. N \in Nat \ {0} /\ DOMAIN fs = 1..N /\ \A f \in 0..N : c[f] \in Nat
    BY DEF Covered
  <1>2. c[0] = 0 /\ i \in Nat \ {0} /\ i <= c[N]
    BY <1>1 DEF Covered, Sums
  <1>3. N \in T /\ T \subseteq Nat
    BY <1>1, <1>2
  <1>4. PICK m \in T : \A f \in T : m <= f
    <2> HIDE DEF T
    <2> QED
      BY <1>3, LeastNumber
  <1>5. m \in 1..N /\ m - 1 \in 0..N /\ m - 1 \notin T
    BY <1>1, <1>2, <1>4
  <1>6. Covers(fs, m, i)
    <2>1. c[m - 1] < i /\ i <= c[m]
      BY <1>1, <1>2, <1>4, <1>5
    <2> HIDE DEF T, N
    <2> QED
      BY <1>2, <1>5, <2>1, CoversIs DEF N
  <1>7. ASSUME NEW f \in 1..N, NEW g \in 1..N, Covers(fs, f, i), Covers(fs, g, i), f < g
        PROVE  FALSE
    <2>1. i <= c[f] /\ c[g - 1] < i
      BY <1>2, <1>7, CoversIs
    <2>2. f \in 0..N /\ g - 1 \in 0..N /\ f <= g - 1
      BY <1>1, <1>7
    <2>3. c[f] <= c[g - 1]
      BY <2>2, CountsGrow
    <2> QED
      BY <1>1, <1>2, <2>1, <2>2, <2>3
  <1>8. CoverOf(fs, i) \in 1..N /\ Covers(fs, CoverOf(fs, i), i)
    BY <1>1, <1>5, <1>6 DEF CoverOf
  <1>9. ASSUME NEW f \in 1..N, Covers(fs, f, i) PROVE f = CoverOf(fs, i)
    <2> DEFINE g == CoverOf(fs, i)
    <2>1. g \in 1..N /\ Covers(fs, g, i)
      BY <1>8
    <2> HIDE DEF g
    <2>2. ~ (f < g) /\ ~ (g < f)
      BY <1>7, <1>9, <2>1
    <2> QED
      BY <1>1, <2>1, <2>2 DEF g
  <1> QED
    BY <1>8, <1>9

\* The keys of the blocking factors, and how many of them come before an input.
Keys(q) == {q.bf[b][1] : b \in DOMAIN q.bf}
BlockedRank(q, v) == Cardinality({w \in 1..v : Blocked(q, w)})

LEMMA KeysAre ==
    ASSUME NEW q \in Problems
    PROVE  /\ Len(q.bf) \in Nat /\ DOMAIN q.bf = 1..Len(q.bf)
           /\ Keys(q) \subseteq 1..q.nu /\ Cardinality(Keys(q)) = Len(q.bf)
           /\ \A v : Blocked(q, v) <=> v \in Keys(q)
  <1> DEFINE N == Len(q.bf)  f == [b \in 1..N |-> q.bf[b][1]]
  <1>1. N \in Nat /\ DOMAIN q.bf = 1..N
    <2>1. q.bf \in Seq((1..q.nu) \X Seq(Nat \ {0}))
      BY ProblemsAssumption
    <2> QED
      BY <2>1
  <1>2. Keys(q) \subseteq 1..q.nu
    BY FactorsAre DEF Keys
  <1>3. \A v : Blocked(q, v) <=> v \in Keys(q)
    BY DEF Blocked, Keys
  <1>4. f \in Bijection(1..N, Keys(q))
    <2>1. f \in [1..N -> Keys(q)]
      BY <1>1 DEF Keys
    <2>2. \A b, c \in 1..N : f[b] = f[c] => b = c
      BY <1>1, ProblemsAssumption
    <2>3. \A v \in Keys(q) : \E b \in 1..N : f[b] = v
      BY <1>1 DEF Keys
    <2> HIDE DEF f
    <2> QED
      BY <2>1, <2>2, <2>3, Fun_IsBij
  <1>5. Cardinality(Keys(q)) = N
    <2>1. IsFiniteSet(1..N) /\ Cardinality(1..N) = N
      <3>1. 1 \in Int /\ N \in Int
        BY <1>1
      <3>2. Cardinality(1..N) = IF 1 > N THEN 0 ELSE N - 1 + 1
        BY <3>1, FS_Interval
      <3>3. Cardinality(1..N) = N
        BY <1>1, <3>2
      <3>4. IsFiniteSet(1..N)
        BY <3>1, FS_Interval
      <3> QED
        BY <3>3, <3>4
    <2>2. ExistsBijection(1..N, Keys(q))
      BY <1>4 DEF ExistsBijection
    <2> QED
      BY <2>1, <2>2, FS_Bijection
  <1> QED
    BY ONLY <1>1, <1>2, <1>3, <1>5

LEMMA BlockedRankIs ==
    ASSUME NEW q \in Problems
    PROVE  /\ \A v \in 1..q.nu : Blocked(q, v) => BlockedRank(q, v) \in DOMAIN q.bf
           /\ \A b \in DOMAIN q.bf : \E v \in 1..q.nu : Blocked(q, v) /\ BlockedRank(q, v) = b
  <1> DEFINE S == Keys(q)  s == InputsIn(q, S)
  <1>1. q.nu \in Nat
    BY ProblemNumbers
  <1>2. S \subseteq 1..q.nu /\ Cardinality(S) = Len(q.bf) /\ DOMAIN q.bf = 1..Len(q.bf)
        /\ \A v : Blocked(q, v) <=> v \in S
    BY KeysAre
  <1>3. \A v : BlockedRank(q, v) = Rank(S, v)
    <2> SUFFICES ASSUME NEW v PROVE BlockedRank(q, v) = Rank(S, v)
      OBVIOUS
    <2>1. {w \in 1..v : Blocked(q, w)} = {w \in 1..v : w \in S}
      BY <1>2
    <2> QED
      BY <2>1 DEF BlockedRank, Rank
  <1> HIDE DEF S
  <1>4. Lists(s, S, q.nu)
    BY <1>1, InputsAreListed
  <1>5. Rank(S, q.nu) = Cardinality(S)
    <2>1. {w \in 1..q.nu : w \in S} = S
      BY <1>2
    <2> QED
      BY <2>1 DEF Rank
  <1> HIDE DEF s
  <1>6. Len(s) = Len(q.bf)
    BY <1>2, <1>4, <1>5 DEF Lists
  <1>7. \A v \in 1..q.nu : v \in S => Rank(S, v) \in 1..Len(s)
    BY <1>4 DEF Lists
  <1>8. \A b \in 1..Len(s) : s[b] \in S /\ s[b] \in 1..q.nu /\ Rank(S, s[b]) = b
    BY <1>4 DEF Lists
  <1> QED
    BY <1>2, <1>3, <1>6, <1>7, <1>8

\* Where the entries of the inputs with blocking factors are.
LEMMA FactorSlot ==
    ASSUME NEW q \in Problems, NEW k, FactorsBegin(q, k), q.blocked = TRUE,
           NEW b \in DOMAIN q.bf, NEW f \in 1..Len(q.bf[b][2])
    PROVE  EntryIs(q, EndCont(q) + k[b - 1] + f,
                   <<"u", q.bf[b][1], <<FirstElement(q.bf[b][2], f), -1>>>>)
  <1> DEFINE n == ContPart(q)  ss == [c \in DOMAIN q.bf |-> BlockedEntries(q, c)]
             m == k[b - 1] + f  fc == FactorCount(q)  nf == Len(Free(q))
             e == <<"u", q.bf[b][1], <<FirstElement(q.bf[b][2], f), -1>>>>
  <1>1. /\ Sums(k, FactorLengths(q)) /\ Len(q.bf) \in Nat /\ DOMAIN q.bf = 1..Len(q.bf)
        /\ fc \in Nat /\ k[b - 1] \in Nat /\ k[b] \in Nat /\ k[b] <= fc
        /\ Len(q.bf[b][2]) \in Nat /\ k[b] = k[b - 1] + Len(q.bf[b][2])
    BY DEF FactorsBegin
  <1>2. Joined(BlockedPart(q), ss, k, Len(q.bf))
    BY <1>1, BlockedPartIs
  <1>3. /\ Len(ss[b]) = Len(q.bf[b][2]) /\ ss[b][f] = e
    BY BlockedEntriesAre
  <1>4. BlockedPart(q)[m] = e
    <2> HIDE DEF ss, e
    <2> QED
      BY <1>1, <1>2, <1>3 DEF Joined
  <1>5. m \in 1..fc
    <2> DEFINE l == Len(q.bf[b][2])  kb == k[b - 1]
    <2>1. l \in Nat /\ kb \in Nat /\ kb + l <= fc /\ fc \in Nat /\ f \in 1..l
      BY <1>1
    <2>2. m = kb + f
      OBVIOUS
    <2> HIDE DEF l, kb, m, fc
    <2> QED
      BY <2>1, <2>2
  <1>6. nf \in Nat /\ n \in Nat
    <2>1. nf \in Nat
      BY ProblemNumbers, FreeIs
    <2> QED
      BY <2>1, ProblemNumbers, Products DEF ContPart
  <1>7. /\ Len(InputPart(q)) = n + fc + nf
        /\ \A r \in 1..fc : InputPart(q)[n + r] = BlockedPart(q)[r]
    BY InputPartIs DEF ContPart
  <1> HIDE DEF m, n, fc, nf, e
  <1>8. n + m \in 1..Len(InputPart(q)) /\ InputPart(q)[n + m] = e
    <2>1. fc \in Nat
      BY <1>1
    <2>2. n + m \in 1..Len(InputPart(q))
      BY <1>5, <1>6, <1>7, <2>1
    <2> QED
      BY <1>4, <1>5, <1>7, <2>2
  <1>9. Groups(q)[4] = InputPart(q) /\ 4 \in 1..7
    BY GroupsAre
  <1>10. EntryIs(q, SplitIndices(q)[4] + (n + m), Groups(q)[4][n + m])
    BY <1>8, <1>9, GroupEntry
  <1>11. SplitIndices(q)[4] + (n + m) = EndCont(q) + k[b - 1] + f
    <2>1. SplitIndices(q)[4] \in Nat
      <3>1. \A g \in 1..8 : SplitIndices(q)[g] \in Nat
        BY SplitIndicesAre
      <3> QED
        BY <3>1
    <2>2. EndCont(q) = SplitIndices(q)[4] + n /\ m = k[b - 1] + f
      BY DEF EndCont, n, m
    <2> QED
      BY <1>1, <1>6, <2>1, <2>2, SMTT(30)
  <1> QED
    BY <1>8, <1>9, <1>10, <1>11 DEF e

\* The index of an input with blocking factors: of the entry of the key with the
\* same number, for the factor that covers the element.
LEMMA BlockedIndexIs ==
    ASSUME NEW q \in Problems, NEW k, FactorsBegin(q, k), q.blocked = TRUE,
           NEW v \in 1..q.nu, Blocked(q, v), NEW pt
    PROVE  LET b == BlockedRank(q, v)
           IN  InputIndex(q, v, pt)
               = EndCont(q) + k[b - 1] + CoverOf(q.bf[b][2], pt[1])
  <1> DEFINE b == BlockedRank(q, v)
  <1>1. b \in DOMAIN q.bf
    BY BlockedRankIs
  <1>2. InputIndex(q, v, pt) = BlockedIndices(q, pt[1])[b]
    BY DEF InputIndex, WovenIndex, BlockedRank
  <1> HIDE DEF b
  <1>3. Total([c \in 1..(b - 1) |-> Len(q.bf[c][2])]) = k[b - 1]
    BY <1>1 DEF FactorsBegin
  <1>4. BlockedIndices(q, pt[1])[b]
        = SplitIndices(q)[4] + q.ne * q.ncp * Len(Free(q))
          + Total([c \in 1..(b - 1) |-> Len(q.bf[c][2])]) + CoverOf(q.bf[b][2], pt[1])
    BY <1>1 DEF BlockedIndices, CoverOf
  <1> QED
    BY <1>2, <1>3, <1>4 DEF EndCont, ContPart, b

LEMMA BlockedInputEntry ==
    ASSUME NEW q \in Problems, q.blocked = TRUE, NEW v \in 1..q.nu, Blocked(q, v),
           NEW i \in 1..q.ne, NEW n
    PROVE  LET b == BlockedRank(q, v)
               f == CoverOf(q.bf[b][2], i)
           IN  /\ b \in DOMAIN q.bf /\ f \in 1..Len(q.bf[b][2]) /\ Covers(q.bf[b][2], f, i)
               /\ EntryIs(q, VarIndex(q, "u", v, <<i, n>>),
                          <<"u", q.bf[b][1], <<FirstElement(q.bf[b][2], f), -1>>>>)
  <1> DEFINE b == BlockedRank(q, v)  fs == q.bf[b][2]  f == CoverOf(fs, i)
  <1>1. b \in DOMAIN q.bf
    BY BlockedRankIs
  <1>2. PICK k : FactorsBegin(q, k)
    BY FactorsBeginSomewhere
  <1>3. VarIndex(q, "u", v, <<i, n>>) = EndCont(q) + k[b - 1] + f
    <2>1. VarIndex(q, "u", v, <<i, n>>) = InputIndex(q, v, <<i, n>>)
      BY DEF VarIndex
    <2> DEFINE pt == <<i, n>>
    <2>2. pt[1] = i
      OBVIOUS
    <2> HIDE DEF pt
    <2>3. InputIndex(q, v, pt) = EndCont(q) + k[b - 1] + CoverOf(q.bf[b][2], pt[1])
      BY <1>2, BlockedIndexIs
    <2> QED
      BY <2>1, <2>2, <2>3 DEF pt
  <1> HIDE DEF b
  <1>4. PICK c : Covered(fs, c) /\ c[Len(fs)] = q.ne
    BY <1>1, FactorsCoverElements
  <1> HIDE DEF fs
  <1>5. f \in 1..Len(fs) /\ Covers(fs, f, i)
    BY <1>4, CoveredOnce
  <1> HIDE DEF f
  <1>6. EntryIs(q, EndCont(q) + k[b - 1] + f, <<"u", q.bf[b][1], <<FirstElement(fs, f), -1>>>>)
    BY <1>1, <1>2, <1>5, FactorSlot DEF fs
  <1> QED
    BY <1>1, <1>3, <1>5, <1>6 DEF b, fs, f

LEMMA FreeInputEnd ==
    ASSUME NEW q \in Problems, NEW v, IsFree(q, v), NEW pt, IsEnd(q, pt)
    PROVE  EntryIs(q, VarIndex(q, "u", v, pt), <<"u", v, pt>>)
  <1>1. q.ncp \in Nat /\ q.blocked \in BOOLEAN /\ q.gauss \in BOOLEAN /\ v \in 1..q.nu
    BY ProblemNumbers DEF IsFree
  <1>2. pt[2] \notin 1..q.ncp /\ VarIndex(q, "u", v, pt) = InputIndex(q, v, pt)
    BY <1>1 DEF IsEnd, VarIndex
  <1>3. CASE q.blocked = FALSE
    <2>1. InputIndex(q, v, pt) = EndIndex(q, "u", v, pt)
      BY <1>2, <1>3 DEF InputIndex
    <2> QED
      BY <1>1, <1>2, <1>3, <2>1, EndEntry
  <1>4. CASE q.blocked = TRUE
    <2> DEFINE r == FreeRank(q, v)  n == ContPart(q)  fc == FactorCount(q)  nf == Len(Free(q))
               i == SplitIndices(q)[4]
    <2>1. pt = <<1, 0>>
      BY <1>1, <1>4, ProblemsAssumption DEF IsEnd
    <2>2. InputIndex(q, v, pt) = i + n + fc + r
      BY <1>2, <1>4 DEF InputIndex, IsFree, FreeRank, ContPart
    <2>3. r \in 1..nf /\ Free(q)[r] = v
      BY FreeRankIs
    <2>4. /\ Len(InputPart(q)) = n + fc + nf
          /\ \A m \in 1..nf : InputPart(q)[n + fc + m] = <<"u", Free(q)[m], <<1, 0>>>>
      BY <1>4, InputPartIs DEF ContPart
    <2>5. nf \in Nat /\ n \in Nat /\ fc \in Nat /\ i \in Nat
      <3>1. nf \in Nat
        BY ProblemNumbers, FreeIs
      <3>2. n \in Nat
        BY <3>1, ProblemNumbers, Products DEF ContPart
      <3>3. PICK k : FactorsBegin(q, k)
        BY FactorsBeginSomewhere
      <3>4. \A g \in 1..8 : SplitIndices(q)[g] \in Nat
        BY SplitIndicesAre
      <3>5. i \in Nat
        BY <3>4
      <3> QED
        BY <3>1, <3>2, <3>3, <3>5 DEF FactorsBegin
    <2> HIDE DEF r, n, fc, nf, i
    <2>6. n + fc + r \in 1..Len(InputPart(q))
          /\ InputPart(q)[n + fc + r] = <<"u", v, <<1, 0>>>>
      BY <2>3, <2>4, <2>5
    <2>7. Groups(q)[4] = InputPart(q) /\ 4 \in 1..7
      BY GroupsAre
    <2>8. EntryIs(q, i + (n + fc + r), Groups(q)[4][n + fc + r])
      BY <2>6, <2>7, GroupEntry DEF i
    <2>9. i + (n + fc + r) = i + n + fc + r
      BY <2>3, <2>5
    <2> QED
      BY <1>2, <2>1, <2>2, <2>6, <2>7, <2>8, <2>9
  <1> QED
    BY <1>1, <1>3, <1>4

-----------------------------------------------------------------------------
(* The points in time, and what is found at each.                          *)

IsInner(q, pt) == pt \in (1..q.ne) \X (1..q.ncp)

LEMMA TimePointIs ==
    ASSUME NEW q \in Problems
    PROVE  /\ \A n \in DOMAIN TimePoints(q) :
                  IsInner(q, TimePoints(q)[n]) \/ IsEnd(q, TimePoints(q)[n])
           /\ \A pt : IsInner(q, pt) \/ IsEnd(q, pt) =>
                  \E n \in DOMAIN TimePoints(q) : TimePoints(q)[n] = pt
           /\ DOMAIN TimePoints(q) = 1..Len(TimePoints(q)) /\ Len(TimePoints(q)) \in Nat
  <1> DEFINE a == << <<1, 0>> >>
             c == IF q.gauss THEN << <<q.ne, q.ncp + 1>> >> ELSE << >>
             b == InnerPoints(q)  t == TimePoints(q)
  <1>1. /\ b \in Seq(Points) /\ b \in Seq((1..q.ne) \X (1..q.ncp))
        /\ \A i \in 1..q.ne : \A k \in 1..q.ncp : \E m \in 1..Len(b) : b[m] = <<i, k>>
    BY InnerPointsAre
  <1>2. q.ne \in Nat /\ q.ncp \in Nat /\ q.gauss \in BOOLEAN
    BY ProblemNumbers
  <1>3. a \in Seq(Points) /\ Len(a) = 1 /\ a[1] = <<1, 0>>
    BY DEF Points
  <1>4. /\ c \in Seq(Points) /\ Len(c) = IF q.gauss THEN 1 ELSE 0
        /\ \A m \in 1..Len(c) : q.gauss = TRUE /\ c[m] = <<q.ne, q.ncp + 1>>
        /\ q.gauss = TRUE => c[1] = <<q.ne, q.ncp + 1>>
    <2>1. <<q.ne, q.ncp + 1>> \in Points
      BY <1>2 DEF Points
    <2>2. CASE q.gauss = TRUE
      BY <2>1, <2>2
    <2>3. CASE q.gauss = FALSE
      BY <2>3, NothingIsSeq
    <2> QED
      BY <1>2, <2>2, <2>3
  <1>5. t = a \o b \o c
    BY DEF TimePoints, InnerPoints
  <1>6. \A m \in 1..Len(b) : IsInner(q, b[m])
    <2> HIDE DEF b
    <2> QED
      BY <1>1, ElementsAre DEF IsInner
  <1> HIDE DEF a, b, c
  <1>7. a \o b \o c \in Seq(Points) /\ Row(a \o b \o c, a, b, c)
    BY <1>1, <1>3, <1>4, ThreeJoined
  <1> HIDE DEF t
  <1>8. /\ DOMAIN t = 1..Len(t) /\ Len(t) \in Nat /\ Len(t) = Len(a) + Len(b) + Len(c)
        /\ \A r \in 1..Len(a) : r \in 1..Len(t) /\ t[r] = a[r]
        /\ \A r \in 1..Len(b) : Len(a) + r \in 1..Len(t) /\ t[Len(a) + r] = b[r]
        /\ \A r \in 1..Len(c) : Len(a) + Len(b) + r \in 1..Len(t)
                                /\ t[Len(a) + Len(b) + r] = c[r]
    <2>1. t \in Seq(Points) /\ Row(t, a, b, c)
      BY <1>5, <1>7
    <2> QED
      BY <2>1 DEF Row
  <1>9. Len(a) = 1 /\ Len(b) \in Nat /\ Len(c) \in Nat
    BY <1>1, <1>3, <1>4
  <1>10. ASSUME NEW n \in 1..Len(t) PROVE IsInner(q, t[n]) \/ IsEnd(q, t[n])
    <2>1. CASE n = 1
      BY <1>3, <1>8, <1>9, <2>1 DEF IsEnd
    <2>2. CASE n \in 2..(1 + Len(b))
      <3>1. n - 1 \in 1..Len(b) /\ Len(a) + (n - 1) = n
        BY <1>9, <2>2
      <3>2. t[n] = b[n - 1]
        BY <1>8, <3>1
      <3> QED
        BY <1>6, <3>1, <3>2
    <2>3. CASE n > 1 + Len(b)
      <3> DEFINE m == n - (1 + Len(b))
      <3>1. m \in 1..Len(c) /\ Len(a) + Len(b) + m = n
        BY <1>8, <1>9, <2>3
      <3> HIDE DEF m
      <3>2. t[n] = c[m]
        BY <1>8, <3>1
      <3> QED
        BY <1>4, <3>1, <3>2 DEF IsEnd
    <2> QED
      BY <1>9, <2>1, <2>2, <2>3
  <1>11. ASSUME NEW pt, IsInner(q, pt) PROVE \E n \in 1..Len(t) : t[n] = pt
    <2>1. PICK i \in 1..q.ne, k \in 1..q.ncp : pt = <<i, k>>
      BY <1>11 DEF IsInner
    <2>2. PICK m \in 1..Len(b) : b[m] = pt
      BY <1>1, <2>1
    <2> QED
      BY <1>8, <2>2
  <1>12. ASSUME NEW pt, IsEnd(q, pt) PROVE \E n \in 1..Len(t) : t[n] = pt
    <2>1. CASE pt = <<1, 0>>
      <3>1. 1 \in 1..Len(a)
        BY <1>9
      <3> QED
        BY <1>3, <1>8, <2>1, <3>1
    <2>2. CASE q.gauss = TRUE /\ pt = <<q.ne, q.ncp + 1>>
      <3>1. 1 \in 1..Len(c) /\ c[1] = pt
        BY <1>4, <2>2
      <3> QED
        BY <1>8, <3>1
    <2> QED
      BY <1>12, <2>1, <2>2 DEF IsEnd
  <1> QED
    BY <1>8, <1>10, <1>11, <1>12 DEF t

LEMMA PointFacts ==
    ASSUME NEW q \in Problems, NEW pt, IsInner(q, pt) \/ IsEnd(q, pt)
    PROVE  \E i \in 1..q.ne : \E k \in 0..LastPoint(q) :
               /\ pt = <<i, k>> /\ (IsInner(q, pt) <=> k \in 1..q.ncp)
  <1>1. q.ne \in Nat \ {0} /\ q.ncp \in Nat \ {0} /\ q.gauss \in BOOLEAN
    BY ProblemNumbers
  <1>2. CASE IsInner(q, pt)
    <2>1. PICK i \in 1..q.ne, k \in 1..q.ncp : pt = <<i, k>>
      BY <1>2 DEF IsInner
    <2>2. k \in 0..LastPoint(q)
      BY <1>1 DEF LastPoint
    <2> QED
      BY <1>2, <2>1, <2>2
  <1>3. CASE pt = <<1, 0>>
    <2>1. 1 \in 1..q.ne /\ 0 \in 0..LastPoint(q) /\ 0 \notin 1..q.ncp
      BY <1>1 DEF LastPoint
    <2> QED
      BY <1>3, <2>1 DEF IsInner
  <1>4. CASE q.gauss = TRUE /\ pt = <<q.ne, q.ncp + 1>>
    <2>1. q.ne \in 1..q.ne /\ q.ncp + 1 \in 0..LastPoint(q) /\ q.ncp + 1 \notin 1..q.ncp
      BY <1>1, <1>4 DEF LastPoint
    <2> QED
      BY <1>4, <2>1 DEF IsInner
  <1> QED
    BY <1>2, <1>3, <1>4 DEF IsEnd

\* The entry that stands for a variable at a point in time.
FactorEntry(q, b, i) ==
    <<"u", q.bf[b][1], <<FirstElement(q.bf[b][2], CoverOf(q.bf[b][2], i)), -1>>>>
EntryOf(q, kind, v, pt) ==
    IF kind = "u" /\ ~ IsFree(q, v) THEN FactorEntry(q, BlockedRank(q, v), pt[1])
    ELSE <<kind, v, pt>>

LEMMA VariableEntry ==
    ASSUME NEW q \in Problems, NEW z \in Variables(q), NEW pt, IsInner(q, pt) \/ IsEnd(q, pt)
    PROVE  EntryIs(q, VarIndex(q, z[1], z[2], pt), EntryOf(q, z[1], z[2], pt))
  <1>1. PICK i \in 1..q.ne, k \in 0..LastPoint(q) :
             pt = <<i, k>> /\ (IsInner(q, pt) <=> k \in 1..q.ncp)
    BY PointFacts
  <1>2. q.blocked \in BOOLEAN
    BY ProblemNumbers
  <1>3. ~ IsInner(q, pt) => pt[2] \notin 1..q.ncp
    BY <1>1
  <1>4. ASSUME NEW v \in 1..q.nx PROVE EntryIs(q, VarIndex(q, "x", v, pt), <<"x", v, pt>>)
    BY <1>1, StateEntry
  <1>5. ASSUME NEW v \in 1..q.nx PROVE EntryIs(q, VarIndex(q, "dx", v, pt), <<"dx", v, pt>>)
    <2>1. CASE IsInner(q, pt)
      BY <1>1, <2>1, DerivativeEntry
    <2>2. CASE ~ IsInner(q, pt)
      <3>1. VarIndex(q, "dx", v, pt) = EndIndex(q, "dx", v, pt)
        BY <1>3, <2>2 DEF VarIndex
      <3> QED
        BY <2>2, <3>1, EndEntry
    <2> QED
      BY <2>1, <2>2
  <1>6. ASSUME NEW v \in 1..q.nw PROVE EntryIs(q, VarIndex(q, "w", v, pt), <<"w", v, pt>>)
    <2>1. CASE IsInner(q, pt)
      BY <1>1, <2>1, AlgebraicEntry
    <2>2. CASE ~ IsInner(q, pt)
      <3>1. VarIndex(q, "w", v, pt) = EndIndex(q, "w", v, pt)
        BY <1>3, <2>2 DEF VarIndex
      <3> QED
        BY <2>2, <3>1, EndEntry
    <2> QED
      BY <2>1, <2>2
  <1>7. ASSUME NEW v \in 1..q.nu, IsFree(q, v)
        PROVE  EntryIs(q, VarIndex(q, "u", v, pt), <<"u", v, pt>>)
    <2>1. CASE IsInner(q, pt)
      BY <1>1, <1>7, <2>1, FreeInputEntry
    <2>2. CASE ~ IsInner(q, pt)
      BY <1>7, <2>2, FreeInputEnd
    <2> QED
      BY <2>1, <2>2
  <1>8. ASSUME NEW v \in 1..q.nu, ~ IsFree(q, v)
        PROVE  EntryIs(q, VarIndex(q, "u", v, pt), FactorEntry(q, BlockedRank(q, v), pt[1]))
    <2>1. q.blocked = TRUE /\ Blocked(q, v)
      BY <1>2, <1>8 DEF IsFree
    <2>2. pt[1] = i
      BY <1>1
    <2> QED
      BY <1>1, <2>1, <2>2, BlockedInputEntry DEF FactorEntry
  <1>9. \/ z[1] = "x" /\ z[2] \in 1..q.nx
        \/ z[1] = "dx" /\ z[2] \in 1..q.nx
        \/ z[1] = "w" /\ z[2] \in 1..q.nw
        \/ z[1] = "u" /\ z[2] \in 1..q.nu
    BY DEF Variables
  <1>10. CASE z[1] = "x" /\ z[2] \in 1..q.nx
    BY <1>4, <1>10 DEF EntryOf
  <1>11. CASE z[1] = "dx" /\ z[2] \in 1..q.nx
    BY <1>5, <1>11 DEF EntryOf
  <1>12. CASE z[1] = "w" /\ z[2] \in 1..q.nw
    BY <1>6, <1>12 DEF EntryOf
  <1>13. CASE z[1] = "u" /\ z[2] \in 1..q.nu
    BY <1>7, <1>8, <1>13 DEF EntryOf
  <1> QED
    BY <1>9, <1>10, <1>11, <1>12, <1>13

-----------------------------------------------------------------------------
(* The names of the entries are those of the variables.                    *)

\* The keys of the blocking factors are in the order of the inputs.
InOrder(q) == \A b, c \in DOMAIN q.bf : b < c => q.bf[b][1] < q.bf[c][1]

LEMMA RankInOrder ==
    ASSUME NEW q \in Problems, InOrder(q), NEW b \in DOMAIN q.bf
    PROVE  BlockedRank(q, q.bf[b][1]) = b
  <1> DEFINE v == q.bf[b][1]  f == [c \in 1..b |-> q.bf[c][1]]
             S == {w \in 1..v : Blocked(q, w)}
  <1>1. Len(q.bf) \in Nat /\ DOMAIN q.bf = 1..Len(q.bf) /\ b \in Nat /\ b <= Len(q.bf)
        /\ \A w : Blocked(q, w) <=> w \in Keys(q)
    <2>1. Len(q.bf) \in Nat /\ DOMAIN q.bf = 1..Len(q.bf)
      BY KeysAre
    <2> QED
      BY <2>1, KeysAre
  <1>2. \A c \in DOMAIN q.bf : q.bf[c][1] \in 1..q.nu
    BY FactorsAre
  <1>3. q.nu \in Nat
    BY ProblemNumbers
  <1>4. \A c \in 1..b : c \in DOMAIN q.bf /\ q.bf[c][1] \in S
    <2> SUFFICES ASSUME NEW c \in 1..b PROVE c \in DOMAIN q.bf /\ q.bf[c][1] \in S
      OBVIOUS
    <2>1. c \in DOMAIN q.bf
      BY <1>1
    <2>2. q.bf[c][1] <= v
      BY <1>1, <1>2, <1>3, <2>1 DEF InOrder
    <2>3. q.bf[c][1] \in 1..v
      BY <1>2, <1>3, <2>1, <2>2
    <2>4. Blocked(q, q.bf[c][1])
      BY <1>1, <2>1 DEF Keys
    <2> QED
      BY <2>1, <2>3, <2>4
  <1>5. \A w \in S : \E c \in 1..b : q.bf[c][1] = w
    <2> SUFFICES ASSUME NEW w \in S PROVE \E c \in 1..b : q.bf[c][1] = w
      OBVIOUS
    <2>1. PICK c \in DOMAIN q.bf : q.bf[c][1] = w
      BY DEF Blocked
    <2>2. ~ (v < w) /\ v \in Int /\ w \in Int
      BY <1>2, <1>3
    <2>3. ~ (b < c)
      BY <2>1, <2>2 DEF InOrder
    <2> QED
      BY <1>1, <2>1, <2>3
  <1>6. \A c, d \in DOMAIN q.bf : q.bf[c][1] = q.bf[d][1] => c = d
    BY ProblemsAssumption
  <1> HIDE DEF S, v
  <1>7. f \in Bijection(1..b, S)
    <2>1. f \in [1..b -> S]
      BY <1>4
    <2>2. \A c, d \in 1..b : f[c] = f[d] => c = d
      BY <1>4, <1>6
    <2>3. \A w \in S : \E c \in 1..b : f[c] = w
      BY <1>5
    <2> HIDE DEF f
    <2> QED
      BY <2>1, <2>2, <2>3, Fun_IsBij
  <1>8. IsFiniteSet(1..b) /\ Cardinality(1..b) = b
    <2>1. 1 \in Int /\ b \in Int /\ b >= 1
      BY <1>1
    <2> QED
      BY <2>1, FS_Interval
  <1>9. Cardinality(S) = b
    <2>1. ExistsBijection(1..b, S)
      BY <1>7 DEF ExistsBijection
    <2> QED
      BY <1>8, <2>1, FS_Bijection
  <1> QED
    BY <1>9 DEF BlockedRank, S, v

LEMMA RanksDiffer ==
    ASSUME NEW q \in Problems, NEW v \in 1..q.nu, NEW w \in 1..q.nu,
           Blocked(q, v), Blocked(q, w), BlockedRank(q, v) = BlockedRank(q, w)
    PROVE  v = w
  <1> DEFINE S == Keys(q)  s == InputsIn(q, S)
  <1>1. q.nu \in Nat
    BY ProblemNumbers
  <1>2. \A u : Blocked(q, u) <=> u \in S
    BY KeysAre
  <1>3. \A u : BlockedRank(q, u) = Rank(S, u)
    <2> SUFFICES ASSUME NEW u PROVE BlockedRank(q, u) = Rank(S, u)
      OBVIOUS
    <2>1. {x \in 1..u : Blocked(q, x)} = {x \in 1..u : x \in S}
      BY <1>2
    <2> QED
      BY <2>1 DEF BlockedRank, Rank
  <1> HIDE DEF S
  <1>4. Lists(s, S, q.nu)
    BY <1>1, InputsAreListed
  <1> HIDE DEF s
  <1>5. s[Rank(S, v)] = v /\ s[Rank(S, w)] = w
    BY <1>2, <1>4 DEF Lists
  <1> QED
    BY <1>3, <1>5

\* The inputs with blocking factors, and the one after which the entry is named
\* to which var_indices leads for each: that of the key with the same number.
BlockedOf(q) == {v \in 1..q.nu : Blocked(q, v)}
NameOf(q)    == [v \in BlockedOf(q) |-> q.bf[BlockedRank(q, v)][1]]

LEMMA NamesOneForOne ==
    ASSUME NEW q \in Problems
    PROVE  /\ NameOf(q) \in Bijection(BlockedOf(q), BlockedOf(q))
           /\ InOrder(q) => \A v \in BlockedOf(q) : NameOf(q)[v] = v
  <1> DEFINE B == BlockedOf(q)  g == NameOf(q)
  <1>1. \A v \in B : v \in 1..q.nu /\ Blocked(q, v) /\ BlockedRank(q, v) \in DOMAIN q.bf
    BY BlockedRankIs DEF BlockedOf
  <1>2. \A b \in DOMAIN q.bf : q.bf[b][1] \in B
    BY FactorsAre DEF BlockedOf, Blocked
  <1>3. \A b, c \in DOMAIN q.bf : q.bf[b][1] = q.bf[c][1] => b = c
    BY ProblemsAssumption
  <1>4. \A v \in B : g[v] = q.bf[BlockedRank(q, v)][1]
    BY DEF NameOf
  <1>5. g \in [B -> B]
    BY <1>1, <1>2 DEF NameOf
  <1>6. ASSUME NEW v \in B, NEW w \in B, g[v] = g[w] PROVE v = w
    <2>1. BlockedRank(q, v) = BlockedRank(q, w)
      BY <1>1, <1>3, <1>4, <1>6
    <2> QED
      BY <1>1, <2>1, RanksDiffer
  <1>7. ASSUME NEW w \in B PROVE \E v \in B : g[v] = w
    <2>1. PICK b \in DOMAIN q.bf : q.bf[b][1] = w
      BY <1>1 DEF Blocked
    <2>2. PICK v \in 1..q.nu : Blocked(q, v) /\ BlockedRank(q, v) = b
      BY BlockedRankIs
    <2>3. v \in B
      BY <2>2 DEF BlockedOf
    <2> QED
      BY <1>4, <2>1, <2>2, <2>3
  <1>8. ASSUME InOrder(q), NEW v \in B PROVE g[v] = v
    <2>1. PICK b \in DOMAIN q.bf : q.bf[b][1] = v
      BY <1>1 DEF Blocked
    <2>2. BlockedRank(q, v) = b
      BY <1>8, <2>1, RankInOrder
    <2> QED
      BY <1>4, <2>1, <2>2
  <1>9. g \in Bijection(B, B)
    <2> HIDE DEF g, B
    <2> QED
      BY <1>5, <1>6, <1>7, Fun_IsBij
  <1> QED
    BY <1>8, <1>9

LEMMA FactorsOfKey ==
    ASSUME NEW q \in Problems, NEW b \in DOMAIN q.bf
    PROVE  Factors(q, q.bf[b][1]) = q.bf[b][2]
  <1> DEFINE v == q.bf[b][1]
  <1>1. v \in 1..q.nu
    BY FactorsAre
  <1>2. Blocked(q, v)
    BY DEF Blocked
  <1> HIDE DEF v
  <1>3. PICK c \in DOMAIN q.bf : q.bf[c][1] = v /\ Factors(q, v) = q.bf[c][2]
    BY <1>1, <1>2, BlockedFactorsAre
  <1>4. c = b
    BY <1>3, ProblemsAssumption DEF v
  <1> QED
    BY <1>3, <1>4 DEF v

\* What is made before the first shift.
Made == p \in Problems /\ shifts \in Nat /\ (shifts = 0 => xx = Layout(p))

LEMMA MadeAlways == Spec => []Made
  <1>1. Init => Made
    BY DEF Init, Made
  <1>2. Made /\ [Next]_vars => Made'
    <2> SUFFICES ASSUME Made, [Next]_vars PROVE Made'
      OBVIOUS
    <2>1. CASE UNCHANGED vars
      BY <2>1 DEF Made, vars
    <2>2. CASE Shift
      <3>1. p' = p /\ shifts' = shifts + 1 /\ p \in Problems /\ shifts \in Nat
        BY <2>2 DEF Shift, Made
      <3>2. shifts' \in Nat /\ shifts' # 0
        BY <3>1
      <3> QED
        BY <3>1, <3>2 DEF Made
    <2> QED
      BY <2>1, <2>2 DEF Next
  <1> QED
    BY <1>1, <1>2, PTL DEF Spec

IsNamed(q, e, z, pt) ==
    /\ e[1] = z[1]
    /\ IF z[1] = "u" /\ z[2] \in BlockedOf(q)
       THEN /\ e[2] = NameOf(q)[z[2]]
            /\ \E f \in DOMAIN Factors(q, e[2]) :
                  /\ e[3] = <<FirstElement(Factors(q, e[2]), f), -1>>
                  /\ Covers(Factors(q, e[2]), f, pt[1])
       ELSE e[2] = z[2] /\ e[3] = pt

LEMMA BlockedIsNotFree ==
    ASSUME NEW q \in Problems, NEW v \in 1..q.nu
    PROVE  v \in BlockedOf(q) <=> ~ IsFree(q, v)
  <1>1. q.blocked \in BOOLEAN /\ (~ q.blocked => q.bf = << >>)
    BY ProblemsAssumption
  <1>2. Blocked(q, v) => q.blocked
    BY <1>1 DEF Blocked
  <1> QED
    BY <1>2 DEF BlockedOf, IsFree

LEMMA EntryIsNamed ==
    ASSUME NEW q \in Problems, NEW z \in Variables(q),
           NEW pt, IsInner(q, pt) \/ IsEnd(q, pt)
    PROVE  IsNamed(q, EntryOf(q, z[1], z[2], pt), z, pt)
  <1>1. PICK i \in 1..q.ne, k \in 0..LastPoint(q) : pt = <<i, k>>
    BY PointFacts
  <1>2. z[1] = "u" => (z[2] \in BlockedOf(q) <=> ~ IsFree(q, z[2]))
    <2>1. z[1] = "u" => z[2] \in 1..q.nu
      BY DEF Variables
    <2> QED
      BY <2>1, BlockedIsNotFree
  <1>3. CASE ~ (z[1] = "u" /\ ~ IsFree(q, z[2]))
    BY <1>2, <1>3 DEF EntryOf, IsNamed
  <1>4. CASE z[1] = "u" /\ ~ IsFree(q, z[2])
    <2> DEFINE v == z[2]  b == BlockedRank(q, v)  fs == q.bf[b][2]  f == CoverOf(fs, i)
               e == EntryOf(q, z[1], z[2], pt)
    <2>1. v \in BlockedOf(q) /\ v \in 1..q.nu
      BY <1>2, <1>4 DEF BlockedOf
    <2>2. q.blocked = TRUE /\ Blocked(q, v)
      BY <1>4, <2>1, ProblemNumbers DEF IsFree
    <2>3. b \in DOMAIN q.bf
      BY <2>1, <2>2, BlockedRankIs
    <2>4. f \in 1..Len(fs) /\ Covers(fs, f, i)
      BY <1>1, <2>1, <2>2, BlockedInputEntry
    <2>5. e = <<"u", NameOf(q)[v], <<FirstElement(fs, f), -1>>>>
      BY <1>1, <1>4, <2>1 DEF EntryOf, FactorEntry, NameOf
    <2>6. Factors(q, NameOf(q)[v]) = fs
      BY <2>1, <2>3, FactorsOfKey DEF NameOf
    <2>7. DOMAIN fs = 1..Len(fs)
      BY <2>3, FactorsAre
    <2> HIDE DEF v, b, fs, f, e
    <2>8. /\ e[1] = "u" /\ e[2] = NameOf(q)[v]
          /\ e[3] = <<FirstElement(Factors(q, e[2]), f), -1>>
          /\ f \in DOMAIN Factors(q, e[2]) /\ Covers(Factors(q, e[2]), f, i)
      BY <2>4, <2>5, <2>6, <2>7
    <2>9. pt[1] = i
      BY <1>1
    <2> QED
      BY <1>4, <2>1, <2>8, <2>9 DEF IsNamed, v, e
  <1> QED
    BY <1>3, <1>4

\* The names under which the entries of xx are recorded (xx_dests) are those of
\* the variables that var_indices looks up there, for every discretization and
\* all blocking factors; only inputs that have factors are exchanged, one for
\* one, and not even these if the keys have the order of the inputs, which the
\* two loops of _create_nlp_variables assume.
THEOREM NamesAlwaysMatch == Spec => []NamesMatchIndices
  <1>1. Made => NamesMatchIndices
    <2> SUFFICES ASSUME Made, Constructed PROVE NamesMatchIndices
      BY DEF NamesMatchIndices
    <2>1. p \in Problems /\ xx = Layout(p)
      BY DEF Made, Constructed
    <2>2. BlockedInputs = BlockedOf(p) /\ (KeysInOrder <=> InOrder(p))
      BY DEF BlockedInputs, BlockedOf, KeysInOrder, InOrder
    <2>3. /\ NameOf(p) \in Bijection(BlockedInputs, BlockedInputs)
          /\ KeysInOrder => \A v \in BlockedInputs : NameOf(p)[v] = v
      BY <2>1, <2>2, NamesOneForOne
    <2>4. ASSUME NEW n \in DOMAIN TimePoints(p), NEW z \in Variables(p)
          PROVE  IsNamed(p, xx[VarIndex(p, z[1], z[2], TimePoints(p)[n])], z, TimePoints(p)[n])
      <3> DEFINE pt == TimePoints(p)[n]
      <3>1. IsInner(p, pt) \/ IsEnd(p, pt)
        BY <2>1, TimePointIs
      <3> HIDE DEF pt
      <3>2. xx[VarIndex(p, z[1], z[2], pt)] = EntryOf(p, z[1], z[2], pt)
        BY <2>1, <3>1, VariableEntry DEF EntryIs
      <3>3. IsNamed(p, EntryOf(p, z[1], z[2], pt), z, pt)
        BY <2>1, <3>1, EntryIsNamed
      <3> QED
        BY <3>2, <3>3 DEF pt
    <2> DEFINE named == NameOf(p)
    <2>5. \A n \in DOMAIN TimePoints(p) : \A z \in Variables(p) :
             LET pt == TimePoints(p)[n]
                 e  == xx[VarIndex(p, z[1], z[2], pt)]
             IN  /\ e[1] = z[1]
                 /\ IF z[1] = "u" /\ z[2] \in BlockedInputs
                    THEN /\ e[2] = named[z[2]]
                         /\ \E f \in DOMAIN Factors(p, e[2]) :
                               /\ e[3] = <<FirstElement(Factors(p, e[2]), f), -1>>
                               /\ Covers(Factors(p, e[2]), f, pt[1])
                    ELSE e[2] = z[2] /\ e[3] = pt
      BY <2>2, <2>4 DEF IsNamed
    <2> HIDE DEF named
    <2>6. /\ named \in Bijection(BlockedInputs, BlockedInputs)
          /\ KeysInOrder => \A v \in BlockedInputs : named[v] = v
      BY <2>3 DEF named
    <2> QED
      BY <2>5, <2>6 DEF NamesMatchIndices
  <1> QED
    BY <1>1, MadeAlways, PTL

\* The input that follows the factors of a key: the one with the same number.
Follower(q) ==
    [b \in DOMAIN q.bf |-> CHOOSE v \in BlockedOf(q) : BlockedRank(q, v) = b]

LEMMA FollowersAre ==
    ASSUME NEW q \in Problems
    PROVE  /\ Follower(q) \in Bijection(DOMAIN q.bf, BlockedOf(q))
           /\ \A b \in DOMAIN q.bf : BlockedRank(q, Follower(q)[b]) = b
  <1> DEFINE B == BlockedOf(q)  g == Follower(q)
  <1>1. ASSUME NEW b \in DOMAIN q.bf PROVE g[b] \in B /\ BlockedRank(q, g[b]) = b
    <2>1. \E v \in B : BlockedRank(q, v) = b
      BY BlockedRankIs DEF BlockedOf
    <2>2. g[b] = CHOOSE v \in B : BlockedRank(q, v) = b
      BY DEF Follower
    <2> HIDE DEF g, B
    <2> QED
      BY <2>1, <2>2
  <1>2. g \in [DOMAIN q.bf -> B]
    <2>1. g = [b \in DOMAIN q.bf |-> g[b]]
      BY DEF Follower
    <2> HIDE DEF g, B
    <2> QED
      BY <1>1, <2>1
  <1>3. \A b, c \in DOMAIN q.bf : g[b] = g[c] => b = c
    <2> HIDE DEF g, B
    <2> QED
      BY <1>1
  <1>4. ASSUME NEW v \in B PROVE \E b \in DOMAIN q.bf : g[b] = v
    <2> DEFINE b == BlockedRank(q, v)
    <2>1. v \in 1..q.nu /\ Blocked(q, v) /\ b \in DOMAIN q.bf
      BY BlockedRankIs DEF BlockedOf
    <2>2. g[b] \in 1..q.nu /\ Blocked(q, g[b]) /\ BlockedRank(q, g[b]) = b
      BY <1>1, <2>1 DEF BlockedOf
    <2> HIDE DEF g
    <2>3. g[b] = v
      BY <2>1, <2>2, RanksDiffer
    <2> QED
      BY <2>1, <2>3
  <1>5. g \in Bijection(DOMAIN q.bf, B)
    <2> HIDE DEF g, B
    <2> QED
      BY <1>2, <1>3, <1>4, Fun_IsBij
  <1> QED
    BY <1>1, <1>5

LEMMA FollowerIndex ==
    ASSUME NEW q \in Problems, q.blocked = TRUE, NEW k, FactorsBegin(q, k),
           NEW b \in DOMAIN q.bf, NEW i \in 1..q.ne
    PROVE  /\ CoverOf(q.bf[b][2], i) \in 1..Len(q.bf[b][2])
           /\ InputIndex(q, Follower(q)[b], <<i, 1>>)
              = EndCont(q) + k[b - 1] + CoverOf(q.bf[b][2], i)
  <1> DEFINE v == Follower(q)[b]  pt == <<i, 1>>
  <1>1. v \in 1..q.nu /\ Blocked(q, v) /\ BlockedRank(q, v) = b
    <2>1. Follower(q) \in [DOMAIN q.bf -> BlockedOf(q)] /\ BlockedRank(q, v) = b
      BY FollowersAre DEF Bijection, Injection
    <2> QED
      BY <2>1 DEF BlockedOf
  <1>2. pt[1] = i
    OBVIOUS
  <1> HIDE DEF v, pt
  <1>3. InputIndex(q, v, pt) = EndCont(q) + k[b - 1] + CoverOf(q.bf[b][2], i)
    <2>1. InputIndex(q, v, pt)
          = EndCont(q) + k[BlockedRank(q, v) - 1] + CoverOf(q.bf[BlockedRank(q, v)][2], pt[1])
      BY <1>1, BlockedIndexIs
    <2> QED
      BY <1>1, <1>2, <2>1
  <1>4. PICK c : Covered(q.bf[b][2], c) /\ c[Len(q.bf[b][2])] = q.ne
    BY FactorsCoverElements
  <1>5. CoverOf(q.bf[b][2], i) \in 1..Len(q.bf[b][2])
    <2> DEFINE fs == q.bf[b][2]
    <2>1. Covered(fs, c) /\ i \in 1..c[Len(fs)]
      BY <1>4
    <2> HIDE DEF fs
    <2>2. CoverOf(fs, i) \in 1..Len(fs)
      BY <2>1, CoveredOnce
    <2> QED
      BY <2>2 DEF fs
  <1> QED
    BY <1>3, <1>5 DEF v, pt

\* The factors of a key come after those of the keys before it.
LEMMA FactorsInTurn ==
    ASSUME NEW q \in Problems, NEW k, FactorsBegin(q, k), NEW b \in DOMAIN q.bf
    PROVE  \A c \in DOMAIN q.bf : b < c => k[b] <= k[c - 1]
  <1> DEFINE N == Len(q.bf)  T == {n \in Nat : b + n <= N => k[b] <= k[b + n]}
  <1>1. /\ N \in Nat /\ DOMAIN q.bf = 1..N /\ b \in Nat /\ b >= 1
        /\ \A c \in 1..N : k[c - 1] \in Nat /\ k[c] \in Nat /\ k[c - 1] <= k[c]
    <2>1. N \in Nat /\ DOMAIN q.bf = 1..N
      BY DEF FactorsBegin
    <2>2. ASSUME NEW c \in 1..N PROVE k[c - 1] \in Nat /\ k[c] \in Nat /\ k[c - 1] <= k[c]
      <3>1. /\ Len(q.bf[c][2]) \in Nat /\ k[c - 1] \in Nat /\ k[c] \in Nat
            /\ k[c] = k[c - 1] + Len(q.bf[c][2])
        BY <2>1 DEF FactorsBegin
      <3> QED
        BY <3>1
    <2> QED
      BY <2>1, <2>2
  <1> HIDE DEF N
  <1>2. 0 \in T
    BY <1>1
  <1>3. ASSUME NEW n \in Nat, n \in T PROVE n + 1 \in T
    <2> SUFFICES ASSUME b + (n + 1) <= N PROVE k[b] <= k[b + (n + 1)]
      OBVIOUS
    <2> DEFINE m == b + (n + 1)
    <2>1. m \in 1..N /\ m - 1 = b + n /\ b + n \in 1..N /\ b \in 1..N
      BY <1>1
    <2>2. k[b] <= k[b + n]
      BY <1>3, <2>1
    <2> HIDE DEF m
    <2> QED
      BY <1>1, <2>1, <2>2 DEF m
  <1>4. Nat \subseteq T
    <2> HIDE DEF T
    <2> QED
      BY <1>2, <1>3, Induct
  <1> SUFFICES ASSUME NEW c \in DOMAIN q.bf, b < c PROVE k[b] <= k[c - 1]
    OBVIOUS
  <1>5. (c - 1) - b \in T /\ b + ((c - 1) - b) = c - 1 /\ c - 1 <= N
    BY <1>1, <1>4
  <1> QED
    BY <1>5

LEMMA OneFactorIs ==
    ASSUME NEW q \in Problems, NEW b \in DOMAIN q.bf, NEW i \in 1..q.ne, NEW j \in 1..q.ne
    PROVE  OneFactor(q.bf[b][2], i, j) <=> CoverOf(q.bf[b][2], i) = CoverOf(q.bf[b][2], j)
  <1> DEFINE fs == q.bf[b][2]  f == CoverOf(fs, i)  g == CoverOf(fs, j)
  <1>1. PICK c : Covered(fs, c) /\ c[Len(fs)] = q.ne
    BY FactorsCoverElements
  <1>2. /\ f \in 1..Len(fs) /\ Covers(fs, f, i)
        /\ g \in 1..Len(fs) /\ Covers(fs, g, j)
        /\ \A h \in 1..Len(fs) : (Covers(fs, h, i) => h = f) /\ (Covers(fs, h, j) => h = g)
    <2> HIDE DEF fs
    <2> QED
      BY <1>1, CoveredOnce
  <1>3. DOMAIN fs = 1..Len(fs)
    BY <1>1 DEF Covered
  <1> HIDE DEF fs, f, g
  <1>4. OneFactor(fs, i, j) <=> f = g
    BY <1>2, <1>3 DEF OneFactor
  <1> QED
    BY <1>4 DEF fs, f, g

LEMMA EndContType ==
    ASSUME NEW q \in Problems
    PROVE  EndCont(q) \in Nat
  <1>1. Len(Free(q)) \in Nat
    BY ProblemNumbers, FreeIs
  <1>2. ContPart(q) \in Nat
    BY <1>1, ProblemNumbers, Products DEF ContPart
  <1>3. \A h \in 1..8 : SplitIndices(q)[h] \in Nat
    BY SplitIndicesAre
  <1>4. SplitIndices(q)[4] \in Nat
    BY <1>3
  <1> QED
    BY <1>2, <1>4 DEF EndCont

SharesOut(q, b, c, i, j) ==
    (InputIndex(q, Follower(q)[b], <<i, 1>>) = InputIndex(q, Follower(q)[c], <<j, 1>>))
    <=> b = c /\ OneFactor(q.bf[b][2], i, j)

LEMMA FollowersShareOut ==
    ASSUME NEW q \in Problems, q.blocked = TRUE, NEW b \in DOMAIN q.bf, NEW c \in DOMAIN q.bf,
           NEW i \in 1..q.ne, NEW j \in 1..q.ne
    PROVE  SharesOut(q, b, c, i, j)
  <1> SUFFICES (InputIndex(q, Follower(q)[b], <<i, 1>>) = InputIndex(q, Follower(q)[c], <<j, 1>>))
               <=> b = c /\ OneFactor(q.bf[b][2], i, j)
    BY DEF SharesOut
  <1> DEFINE s == EndCont(q)  f == CoverOf(q.bf[b][2], i)  g == CoverOf(q.bf[c][2], j)
             l == Len(q.bf[b][2])  m == Len(q.bf[c][2])
  <1>1. PICK k : FactorsBegin(q, k)
    BY FactorsBeginSomewhere
  <1>2. /\ InputIndex(q, Follower(q)[b], <<i, 1>>) = s + k[b - 1] + f /\ f \in 1..l
        /\ InputIndex(q, Follower(q)[c], <<j, 1>>) = s + k[c - 1] + g /\ g \in 1..m
    BY <1>1, FollowerIndex
  <1>3. s \in Nat
    BY EndContType
  <1>4. /\ k[b - 1] \in Nat /\ k[b] = k[b - 1] + l /\ l \in Nat
        /\ k[c - 1] \in Nat /\ k[c] = k[c - 1] + m /\ m \in Nat
        /\ b \in Nat /\ c \in Nat
    <2>1. DOMAIN q.bf = 1..Len(q.bf)
      BY <1>1 DEF FactorsBegin
    <2>2. k[b - 1] \in Nat /\ k[b] = k[b - 1] + l /\ l \in Nat
      BY <1>1 DEF FactorsBegin
    <2>3. k[c - 1] \in Nat /\ k[c] = k[c - 1] + m /\ m \in Nat
      BY <1>1 DEF FactorsBegin
    <2>4. b \in Nat /\ c \in Nat
      BY <2>1
    <2> QED
      BY <2>2, <2>3, <2>4
  <1>5. /\ b < c => k[b] <= k[c - 1]
        /\ c < b => k[c] <= k[b - 1]
    BY <1>1, FactorsInTurn
  <1>6. b = c => (OneFactor(q.bf[b][2], i, j) <=> f = g)
    BY OneFactorIs
  <1> HIDE DEF s, f, g, l, m
  <1>7. CASE b = c
    <2>1. (s + k[b - 1] + f = s + k[b - 1] + g) <=> f = g
      BY <1>2, <1>3, <1>4
    <2> QED
      BY <1>2, <1>6, <1>7, <2>1
  <1>8. CASE b < c
    <2>1. s + k[b - 1] + f < s + k[c - 1] + g
      BY <1>2, <1>3, <1>4, <1>5, <1>8
    <2>2. s + k[b - 1] + f # s + k[c - 1] + g
      BY <1>2, <1>3, <1>4, <2>1
    <2> QED
      BY <1>2, <1>4, <1>8, <2>2
  <1>9. CASE c < b
    <2>1. s + k[c - 1] + g < s + k[b - 1] + f
      BY <1>2, <1>3, <1>4, <1>5, <1>9
    <2>2. s + k[b - 1] + f # s + k[c - 1] + g
      BY <1>2, <1>3, <1>4, <2>1
    <2> QED
      BY <1>2, <1>4, <1>9, <2>2
  <1> QED
    BY <1>4, <1>7, <1>8, <1>9

\* Whatever the order of the keys, the factors of each are followed by one
\* input: it has the same index in two elements exactly when a factor of the
\* list covers both, and never that of another input.
THEOREM FactorsAreSharedOut == Spec => []FactorsSharedOut
  <1>1. p \in Problems => FactorsSharedOut
    <2> SUFFICES ASSUME p \in Problems, p.blocked
                 PROVE  \E follower \in Bijection(DOMAIN p.bf, BlockedInputs) :
                            \A b, c \in DOMAIN p.bf : \A i, j \in 1..p.ne :
                                SameIndex(follower[b], i, follower[c], j)
                                <=> b = c /\ OneFactor(p.bf[b][2], i, j)
      BY DEF FactorsSharedOut
    <2>1. BlockedInputs = BlockedOf(p)
      BY DEF BlockedInputs, BlockedOf
    <2>2. p.blocked = TRUE
      BY ProblemNumbers
    <2> DEFINE follower == Follower(p)
    <2>3. follower \in Bijection(DOMAIN p.bf, BlockedInputs)
      BY <2>1, FollowersAre
    <2>4. ASSUME NEW b \in DOMAIN p.bf, NEW c \in DOMAIN p.bf, NEW i \in 1..p.ne, NEW j \in 1..p.ne
          PROVE  SameIndex(follower[b], i, follower[c], j)
                 <=> b = c /\ OneFactor(p.bf[b][2], i, j)
      <3>1. SharesOut(p, b, c, i, j)
        BY <2>2, FollowersShareOut
      <3> QED
        BY <3>1 DEF SharesOut, SameIndex
    <2> HIDE DEF follower
    <2> QED
      BY <2>3, <2>4
  <1> QED
    BY <1>1, ProblemIsKept, PTL

-----------------------------------------------------------------------------
(* The initial guess.                                                      *)

\* Every entry stands for a variable at a point in time, for a state at the
\* beginning of an element, or for a parameter or an element length.
HasVariable(q, n) ==
    \E z \in Variables(q) : \E pt :
        (IsInner(q, pt) \/ IsEnd(q, pt)) /\ VarIndex(q, z[1], z[2], pt) = n
IsContinuity(q, n) ==
    \E v \in 1..q.nx : \E i \in Continuity(q) : VarIndex(q, "x", v, <<i, 0>>) = n
Accounted(q, n) == HasVariable(q, n) \/ IsContinuity(q, n) \/ Layout(q)[n][1] \in {"p", "h"}

LEMMA ContinuityIs ==
    ASSUME NEW q \in Problems
    PROVE  \A i : i \in Continuity(q) <=> i \in 2..q.ne
  <1>1. q.ne \in Nat \ {0}
    BY ProblemNumbers
  <1>2. CASE q.ne = 1
    BY <1>2 DEF Continuity
  <1>3. CASE q.ne # 1
    BY <1>3 DEF Continuity
  <1> QED
    BY <1>2, <1>3

\* The position of a point among those of an element.
LEMMA PlaceOfPoint ==
    ASSUME NEW n \in Nat, NEW m \in Nat \ {0}, NEW j \in 1..(n * m)
    PROVE  \E i \in 1..n : \E k \in 1..m : j = (i - 1) * m + k
  <1> DEFINE a == (j - 1) \div m  c == (j - 1) % m
  <1>1. a \in 0..(n - 1) /\ c \in 0..(m - 1) /\ j = a * m + c + 1
    BY DivideIndex
  <1> HIDE DEF a, c
  <1>2. a + 1 \in 1..n /\ c + 1 \in 1..m /\ (a + 1) - 1 = a
    BY <1>1
  <1>3. a * m \in Int
    BY <1>1
  <1>4. j = ((a + 1) - 1) * m + (c + 1)
    BY <1>1, <1>2, <1>3
  <1> QED
    BY <1>2, <1>4

\* The states: at the points of an element and at its beginning.
LEMMA StatesAccounted ==
    ASSUME NEW q \in Problems, q.gauss = FALSE, NEW r \in 1..Len(Groups(q)[1])
    PROVE  Accounted(q, r)
  <1> DEFINE vs == Seq1(q.nx)  pts == StatePoints(q)  grid == Grid("x", vs, pts)
             L == LastPoint(q)
  <1>1. q.nx \in Nat /\ q.ne \in Nat \ {0} /\ q.ncp \in Nat \ {0} /\ L = q.ncp
    BY ProblemNumbers DEF LastPoint
  <1>2. /\ pts \in Seq(Points) /\ Len(pts) = q.ne * (L + 1)
        /\ \A i \in 1..q.ne : \A k \in 0..L : pts[(i - 1) * (L + 1) + k + 1] = <<i, k>>
    BY StatePointsAre
  <1>3. vs \in Seq(Int) /\ Len(vs) = q.nx
    BY <1>1, Seq1Is
  <1>4. "x" \in Kinds /\ Groups(q)[1] = grid
    BY GroupsAre DEF Kinds
  <1>5. IsGrid(grid, "x", vs, pts)
    BY <1>2, <1>3, <1>4, GridIs
  <1> HIDE DEF vs, grid, pts
  <1>6. PICK j \in 1..Len(pts), v \in 1..q.nx : r = (j - 1) * q.nx + v
    BY <1>3, <1>4, <1>5 DEF IsGrid
  <1>7. PICK i \in 1..q.ne, c \in 1..(L + 1) : j = (i - 1) * (L + 1) + c
    <2> HIDE DEF L
    <2>1. L + 1 \in Nat \ {0} /\ q.ne \in Nat /\ j \in 1..(q.ne * (L + 1))
      BY <1>1, <1>2
    <2> QED
      BY <2>1, PlaceOfPoint
  <1> DEFINE k == c - 1
  <1>8. k \in 0..L /\ (i - 1) * (L + 1) + k = j - 1
    <2> HIDE DEF L
    <2>1. (i - 1) * (L + 1) \in Int
      BY <1>1
    <2> QED
      BY <1>1, <1>7, <2>1
  <1>9. VarIndex(q, "x", v, <<i, k>>) = r
    <2>1. VarIndex(q, "x", v, <<i, k>>) = Offset(q.nx, L + 1, 0, v, <<i, k>>)
      BY DEF VarIndex
    <2>2. Offset(q.nx, L + 1, 0, v, <<i, k>>) = ((i - 1) * (L + 1) + k - 0) * q.nx + v
      BY OffsetIs
    <2>3. (i - 1) * (L + 1) + (k - 0) = j - 1
      <3>1. k - 0 = k
        BY <1>8
      <3> HIDE DEF k, L
      <3> QED
        BY <1>8, <3>1
    <2> HIDE DEF L, k
    <2> QED
      BY <1>6, <2>1, <2>2, <2>3
  <1> HIDE DEF k
  <1>10. CASE k \in 1..q.ncp
    <2>1. IsInner(q, <<i, k>>)
      BY <1>10 DEF IsInner
    <2>2. <<"x", v>> \in Variables(q)
      BY DEF Variables
    <2> DEFINE z == <<"x", v>>
    <2>3. z[1] = "x" /\ z[2] = v
      OBVIOUS
    <2> HIDE DEF z
    <2>4. HasVariable(q, r)
      BY <1>9, <2>1, <2>2, <2>3 DEF HasVariable, z
    <2> QED
      BY <2>4 DEF Accounted
  <1>11. CASE k = 0 /\ i = 1
    <2>1. IsEnd(q, <<i, k>>)
      BY <1>11 DEF IsEnd
    <2>2. <<"x", v>> \in Variables(q)
      BY DEF Variables
    <2> DEFINE z == <<"x", v>>
    <2>3. z[1] = "x" /\ z[2] = v
      OBVIOUS
    <2> HIDE DEF z
    <2>4. HasVariable(q, r)
      BY <1>9, <2>1, <2>2, <2>3 DEF HasVariable, z
    <2> QED
      BY <2>4 DEF Accounted
  <1>12. CASE k = 0 /\ i # 1
    <2>1. i \in Continuity(q)
      BY <1>12, ContinuityIs
    <2> QED
      BY <1>9, <1>12, <2>1 DEF Accounted, IsContinuity
  <1> QED
    BY <1>1, <1>8, <1>10, <1>11, <1>12

LEMMA VariableAccounted ==
    ASSUME NEW q, NEW kind, NEW v, <<kind, v>> \in Variables(q),
           NEW pt, IsInner(q, pt) \/ IsEnd(q, pt), NEW n, VarIndex(q, kind, v, pt) = n
    PROVE  Accounted(q, n)
  <1> DEFINE z == <<kind, v>>
  <1>1. z \in Variables(q) /\ z[1] = kind /\ z[2] = v
    OBVIOUS
  <1> HIDE DEF z
  <1>2. HasVariable(q, n)
    BY <1>1 DEF HasVariable
  <1> QED
    BY <1>2 DEF Accounted

LEMMA IsVariable ==
    ASSUME NEW q
    PROVE  /\ \A v \in 1..q.nx : <<"x", v>> \in Variables(q) /\ <<"dx", v>> \in Variables(q)
           /\ \A v \in 1..q.nw : <<"w", v>> \in Variables(q)
           /\ \A v \in 1..q.nu : <<"u", v>> \in Variables(q)
  BY DEF Variables

\* Every position in a group of n variables at the collocation points is the
\* place of one of them at one of the points.
LEMMA InnerPlace ==
    ASSUME NEW q \in Problems, NEW n \in Nat, NEW r \in 1..(q.ne * q.ncp * n)
    PROVE  \E i \in 1..q.ne : \E k \in 1..q.ncp : \E j \in 1..n :
               r = Offset(n, q.ncp, 1, j, <<i, k>>)
  <1> DEFINE m == q.ne * q.ncp
  <1>1. q.ne \in Nat /\ q.ncp \in Nat \ {0} /\ m \in Nat /\ r \in 1..(m * n)
    BY ProblemNumbers, Products
  <1>2. n # 0
    <2> HIDE DEF m
    <2>1. \A a \in Nat : a * 0 = 0
      OBVIOUS
    <2>2. SUFFICES ASSUME n = 0 PROVE FALSE
      OBVIOUS
    <2>3. m * n = 0
      BY <1>1, <2>1, <2>2
    <2> QED
      BY <1>1, <2>3
  <1> HIDE DEF m
  <1>3. PICK a \in 1..m, j \in 1..n : r = (a - 1) * n + j
    <2>1. n \in Nat \ {0}
      BY <1>2
    <2> QED
      BY <1>1, <2>1, PlaceOfPoint
  <1>4. a \in 1..(q.ne * q.ncp)
    BY <1>3 DEF m
  <1>5. PICK i \in 1..q.ne, k \in 1..q.ncp : a = (i - 1) * q.ncp + k
    BY <1>1, <1>4, PlaceOfPoint
  <1>6. (i - 1) * q.ncp \in Int
    BY <1>1
  <1>7. (i - 1) * q.ncp + k - 1 = a - 1
    BY <1>5, <1>6
  <1>8. Offset(n, q.ncp, 1, j, <<i, k>>) = ((i - 1) * q.ncp + k - 1) * n + j
    BY OffsetIs
  <1>9. Offset(n, q.ncp, 1, j, <<i, k>>) = r
    BY <1>3, <1>7, <1>8
  <1> QED
    BY <1>9

LEMMA SplitSizesAre ==
    ASSUME NEW q \in Problems
    PROVE  /\ SplitSizes(q)[2] = q.ne * q.ncp * q.nx
           /\ SplitSizes(q)[3] = q.ne * q.ncp * q.nw
           /\ q.gauss = FALSE => SplitSizes(q)[5] = PointSize(q)
  <1>1. q.ne \in Nat /\ q.ncp \in Nat /\ q.nx \in Nat /\ q.nw \in Nat
    BY ProblemNumbers
  <1>2. SplitSizes(q)[2] = q.nx * q.ncp * q.ne /\ SplitSizes(q)[3] = q.nw * q.ncp * q.ne
    BY DEF SplitSizes
  <1>3. q.gauss = FALSE => SplitSizes(q)[5] = PointSize(q)
    BY DEF SplitSizes, PointSize
  <1> QED
    BY <1>1, <1>2, <1>3, Products

\* The derivatives and the algebraic variables at the collocation points.
LEMMA InnerAccounted ==
    ASSUME NEW q \in Problems
    PROVE  /\ \A r \in 1..SplitSizes(q)[2] : Accounted(q, SplitIndices(q)[2] + r)
           /\ \A r \in 1..SplitSizes(q)[3] : Accounted(q, SplitIndices(q)[3] + r)
  <1>1. q.nx \in Nat /\ q.nw \in Nat
    BY ProblemNumbers
  <1>2. ASSUME NEW r \in 1..SplitSizes(q)[2] PROVE Accounted(q, SplitIndices(q)[2] + r)
    <2>1. r \in 1..(q.ne * q.ncp * q.nx)
      BY SplitSizesAre
    <2>2. PICK i \in 1..q.ne, k \in 1..q.ncp, v \in 1..q.nx :
              r = Offset(q.nx, q.ncp, 1, v, <<i, k>>)
      BY <1>1, <2>1, InnerPlace
    <2>3. IsInner(q, <<i, k>>)
      BY DEF IsInner
    <2>4. VarIndex(q, "dx", v, <<i, k>>) = SplitIndices(q)[2] + r
      BY <2>2 DEF VarIndex, InnerIndex
    <2> QED
      BY <2>3, <2>4, IsVariable, VariableAccounted
  <1>3. ASSUME NEW r \in 1..SplitSizes(q)[3] PROVE Accounted(q, SplitIndices(q)[3] + r)
    <2>1. r \in 1..(q.ne * q.ncp * q.nw)
      BY SplitSizesAre
    <2>2. PICK i \in 1..q.ne, k \in 1..q.ncp, v \in 1..q.nw :
              r = Offset(q.nw, q.ncp, 1, v, <<i, k>>)
      BY <1>1, <2>1, InnerPlace
    <2>3. IsInner(q, <<i, k>>)
      BY DEF IsInner
    <2>4. VarIndex(q, "w", v, <<i, k>>) = SplitIndices(q)[3] + r
      BY <2>2 DEF VarIndex, InnerIndex
    <2> QED
      BY <2>3, <2>4, IsVariable, VariableAccounted
  <1> QED
    BY <1>2, <1>3

\* The input with each number among those without blocking factors.
LEMMA FreeWithRank ==
    ASSUME NEW q \in Problems, NEW r \in 1..Len(Free(q))
    PROVE  \E v : IsFree(q, v) /\ v \in 1..q.nu /\ FreeRank(q, v) = r
  <1> DEFINE s == Free(q)  S == FreeInputs(q)  v == s[r]
  <1>1. Lists(s, S, q.nu)
    BY ProblemNumbers, FreeIs
  <1>2. v \in S
    BY <1>1 DEF Lists
  <1>3. IsFree(q, v) /\ v \in 1..q.nu
    BY <1>2 DEF FreeInputs, IsFree
  <1>4. FreeRank(q, v) \in 1..Len(s) /\ s[FreeRank(q, v)] = v
    BY <1>3, FreeRankIs
  <1> HIDE DEF s, S
  <1>5. Rank(S, s[r]) = r /\ Rank(S, s[FreeRank(q, v)]) = FreeRank(q, v)
    BY <1>1, <1>4 DEF Lists, s
  <1>6. FreeRank(q, v) = r
    BY <1>4, <1>5
  <1> QED
    BY <1>3, <1>6

\* Every factor covers the element it begins with.
LEMMA FactorIsUsed ==
    ASSUME NEW q \in Problems, NEW b \in DOMAIN q.bf, NEW f \in 1..Len(q.bf[b][2])
    PROVE  \E i \in 1..q.ne : CoverOf(q.bf[b][2], i) = f
  <1> DEFINE fs == q.bf[b][2]
  <1>1. PICK c : Covered(fs, c) /\ c[Len(fs)] = q.ne
    BY FactorsCoverElements
  <1> HIDE DEF fs
  <1> DEFINE i == c[f - 1] + 1
  <1>2. /\ Len(fs) \in Nat /\ f \in 1..Len(fs) /\ f \in 0..Len(fs) /\ f - 1 \in 0..Len(fs)
    BY <1>1 DEF Covered, fs
  <1>3. c[f - 1] \in Nat /\ c[f] \in Nat /\ c[f] = c[f - 1] + fs[f] /\ fs[f] \in Nat \ {0}
    BY <1>1, <1>2 DEF Covered, Sums
  <1>4. c[f] <= c[Len(fs)]
    BY <1>1, <1>2, CountsGrow
  <1>5. i \in 1..c[Len(fs)] /\ i <= c[f] /\ c[f - 1] < i /\ i \in Int
    <2>1. c[Len(fs)] \in Nat
      BY <1>1, <1>2 DEF Covered
    <2> QED
      BY <1>3, <1>4, <2>1
  <1> HIDE DEF i
  <1>6. Covers(fs, f, i)
    BY <1>1, <1>2, <1>5, CoversIs
  <1>7. f = CoverOf(fs, i)
    BY <1>1, <1>2, <1>5, <1>6, CoveredOnce
  <1> QED
    BY <1>1, <1>5, <1>7 DEF fs

\* The inputs: at the collocation points, the factors, and those at the
\* initial point.
LEMMA InputsAccounted ==
    ASSUME NEW q \in Problems, q.gauss = FALSE, NEW r \in 1..Len(InputPart(q))
    PROVE  Accounted(q, SplitIndices(q)[4] + r)
  <1> DEFINE n == ContPart(q)  fc == FactorCount(q)  nf == Len(Free(q))  s == SplitIndices(q)[4]
  <1>1. nf \in Nat /\ n \in Nat /\ q.blocked \in BOOLEAN
    <2>1. nf \in Nat
      BY ProblemNumbers, FreeIs
    <2> QED
      BY <2>1, ProblemNumbers, Products DEF ContPart
  <1>2. PICK k : FactorsBegin(q, k)
    BY FactorsBeginSomewhere
  <1>3. fc \in Nat /\ Sums(k, FactorLengths(q))
    BY <1>2 DEF FactorsBegin
  <1>4. Len(InputPart(q)) = IF q.blocked THEN n + fc + nf ELSE n
    BY InputPartIs DEF ContPart
  <1>5. s \in Nat /\ EndCont(q) = s + n
    <2>1. \A g \in 1..8 : SplitIndices(q)[g] \in Nat
      BY SplitIndicesAre
    <2> QED
      BY <2>1 DEF EndCont
  <1>6. CASE r <= n
    <2>1. r \in 1..(q.ne * q.ncp * nf)
      BY <1>1, <1>6 DEF ContPart
    <2>2. PICK i \in 1..q.ne, c \in 1..q.ncp, j \in 1..nf :
              r = Offset(nf, q.ncp, 1, j, <<i, c>>)
      BY <1>1, <2>1, InnerPlace
    <2>3. PICK v : IsFree(q, v) /\ v \in 1..q.nu /\ FreeRank(q, v) = j
      BY FreeWithRank
    <2>4. VarIndex(q, "u", v, <<i, c>>) = InnerIndex(q, 4, nf, j, <<i, c>>)
      BY <2>3 DEF VarIndex, InputIndex, IsFree, FreeRank
    <2>5. VarIndex(q, "u", v, <<i, c>>) = s + r
      BY <2>2, <2>4 DEF InnerIndex
    <2>6. IsInner(q, <<i, c>>)
      BY DEF IsInner
    <2> HIDE DEF s
    <2>7. Accounted(q, s + r)
      BY <2>3, <2>5, <2>6, IsVariable, VariableAccounted
    <2> QED
      BY <2>7 DEF s
  <1>7. CASE q.blocked = TRUE /\ r > n /\ r <= n + fc
    <2> DEFINE m == r - n  ss == [b \in DOMAIN q.bf |-> BlockedEntries(q, b)]
    <2>1. m \in 1..fc /\ r = n + m /\ m \in Int
      BY <1>1, <1>3, <1>7
    <2>2. Joined(BlockedPart(q), ss, k, Len(q.bf)) /\ k[Len(q.bf)] = fc
      BY <1>3, BlockedPartIs
    <2>3. PICK b \in 1..Len(q.bf) : \E f \in 1..Len(ss[b]) : m = k[b - 1] + f
      <3> HIDE DEF ss, m, fc
      <3> QED
        BY <2>1, <2>2 DEF Joined
    <2>3a. b \in DOMAIN q.bf
      BY <1>2 DEF FactorsBegin
    <2>3b. Len(ss[b]) = Len(q.bf[b][2])
      BY <2>3a, BlockedEntriesAre
    <2>4. PICK f \in 1..Len(q.bf[b][2]) : m = k[b - 1] + f
      <3> HIDE DEF ss, m
      <3> QED
        BY <2>3, <2>3b
    <2>5. PICK v \in 1..q.nu : Blocked(q, v) /\ BlockedRank(q, v) = b
      BY <2>3a, BlockedRankIs
    <2>6. PICK i \in 1..q.ne : CoverOf(q.bf[b][2], i) = f
      BY <2>3a, <2>4, FactorIsUsed
    <2> DEFINE pt == <<i, 1>>
    <2>7. pt[1] = i /\ IsInner(q, pt)
      BY ProblemNumbers DEF IsInner
    <2> HIDE DEF pt, m, ss, n, s
    <2>8. InputIndex(q, v, pt) = EndCont(q) + k[b - 1] + f
      BY <1>2, <1>7, <2>5, <2>6, <2>7, BlockedIndexIs
    <2>9. EndCont(q) + k[b - 1] + f = s + r
      <3> DEFINE a == k[b - 1]
      <3>1. a \in Nat /\ Len(q.bf[b][2]) \in Nat
        BY <1>2, <2>3a DEF FactorsBegin
      <3>2. f \in Int
        BY <3>1
      <3>3. m = a + f
        BY <2>4
      <3> HIDE DEF s, n, a
      <3>4. (s + n) + a + f = s + r
        BY <1>1, <1>5, <2>1, <3>1, <3>2, <3>3
      <3> QED
        BY <1>5, <3>4 DEF a
    <2>10. VarIndex(q, "u", v, pt) = s + r
      BY <2>8, <2>9 DEF VarIndex
    <2>11. Accounted(q, s + r)
      BY <2>7, <2>10, IsVariable, VariableAccounted
    <2> QED
      BY <2>11 DEF s
  <1>8. CASE q.blocked = TRUE /\ r > n + fc
    <2> DEFINE j == r - (n + fc)  pt == <<1, 0>>
    <2>1. j \in 1..nf /\ r = n + fc + j /\ j \in Int
      BY <1>1, <1>3, <1>4, <1>8
    <2>2. PICK v : IsFree(q, v) /\ v \in 1..q.nu /\ FreeRank(q, v) = j
      BY <2>1, FreeWithRank
    <2>3. IsEnd(q, pt) /\ pt[2] \notin 1..q.ncp
      BY ProblemNumbers DEF IsEnd
    <2> HIDE DEF pt
    <2>4. VarIndex(q, "u", v, pt) = s + n + fc + j
      <3>1. VarIndex(q, "u", v, pt) = InputIndex(q, v, pt)
        BY DEF VarIndex
      <3>2. InputIndex(q, v, pt) = SplitIndices(q)[4] + q.ne * q.ncp * Len(Free(q))
                                   + FactorCount(q) + FreeRank(q, v)
        BY <1>8, <2>2, <2>3 DEF InputIndex, IsFree, FreeRank
      <3> QED
        BY <2>2, <3>1, <3>2 DEF ContPart
    <2> HIDE DEF s, j, n, fc
    <2>5. VarIndex(q, "u", v, pt) = s + r
      BY <1>1, <1>3, <1>5, <2>1, <2>4
    <2>6. Accounted(q, s + r)
      BY <2>2, <2>3, <2>5, IsVariable, VariableAccounted
    <2> QED
      BY <2>6 DEF s
  <1>9. r \in 1..Len(InputPart(q))
    OBVIOUS
  <1> HIDE DEF n, fc, nf
  <1>10. r \in Int /\ (q.blocked = FALSE => r <= n)
    BY <1>1, <1>3, <1>4, <1>9
  <1>11. r <= n \/ (r > n /\ r <= n + fc) \/ r > n + fc
    BY <1>1, <1>3, <1>10
  <1> QED
    BY <1>1, <1>6, <1>7, <1>8, <1>10, <1>11 DEF n, fc

\* The variables at the initial point.
LEMMA EndsAccounted ==
    ASSUME NEW q \in Problems, q.gauss = FALSE, NEW r \in 1..PointSize(q)
    PROVE  Accounted(q, SplitIndices(q)[5] + r)
  <1> DEFINE pt == <<1, 0>>  s == SplitIndices(q)[5]
  <1>1. /\ q.nx \in Nat /\ q.nw \in Nat /\ q.nu \in Nat /\ q.blocked \in BOOLEAN
        /\ PointSize(q) = q.nx + q.nw + (IF q.blocked THEN 0 ELSE q.nu)
    BY ProblemNumbers DEF PointSize
  <1>2. IsEnd(q, pt) /\ pt[2] \notin 1..q.ncp /\ pt[2] = 0
    BY ProblemNumbers DEF IsEnd
  <1>3. s \in Nat
    <2>1. \A g \in 1..8 : SplitIndices(q)[g] \in Nat
      BY SplitIndicesAre
    <2> QED
      BY <2>1
  <1> HIDE DEF pt
  <1>4. /\ \A v : VarIndex(q, "dx", v, pt) = s + 0 + 0 + v
        /\ \A v : VarIndex(q, "w", v, pt) = s + 0 + q.nx + v
        /\ q.blocked = FALSE =>
               \A v : VarIndex(q, "u", v, pt) = s + 0 + (q.nx + q.nw) + v
    BY <1>2 DEF VarIndex, EndIndex, InputIndex
  <1> HIDE DEF s
  <1>5. CASE r <= q.nx
    <2>1. r \in 1..q.nx /\ s + 0 + 0 + r = s + r
      BY <1>1, <1>3, <1>5
    <2>2. VarIndex(q, "dx", r, pt) = s + r
      BY <1>4, <2>1
    <2>3. Accounted(q, s + r)
      BY <1>2, <2>1, <2>2, IsVariable, VariableAccounted
    <2> QED
      BY <2>3 DEF s
  <1>6. CASE r > q.nx /\ r <= q.nx + q.nw
    <2> DEFINE v == r - q.nx
    <2>1. v \in 1..q.nw /\ s + 0 + q.nx + v = s + r
      BY <1>1, <1>3, <1>6
    <2> HIDE DEF v
    <2>2. VarIndex(q, "w", v, pt) = s + r
      BY <1>4, <2>1
    <2>3. Accounted(q, s + r)
      BY <1>2, <2>1, <2>2, IsVariable, VariableAccounted
    <2> QED
      BY <2>3 DEF s
  <1>7. CASE q.blocked = FALSE /\ r > q.nx + q.nw
    <2> DEFINE v == r - (q.nx + q.nw)
    <2>1. v \in 1..q.nu /\ s + 0 + (q.nx + q.nw) + v = s + r
      BY <1>1, <1>3, <1>7
    <2> HIDE DEF v
    <2>2. VarIndex(q, "u", v, pt) = s + r
      BY <1>4, <1>7, <2>1
    <2>3. Accounted(q, s + r)
      BY <1>2, <2>1, <2>2, IsVariable, VariableAccounted
    <2> QED
      BY <2>3 DEF s
  <1>8. r <= q.nx \/ (r > q.nx /\ r <= q.nx + q.nw) \/ (q.blocked = FALSE /\ r > q.nx + q.nw)
    <2> DEFINE a == q.nx  b == q.nw  c == q.nu
    <2>1. CASE q.blocked = TRUE
      <3>1. r \in 1..(a + b + 0) /\ a \in Nat /\ b \in Nat
        BY <1>1, <2>1
      <3> HIDE DEF a, b
      <3>2. r <= a \/ (r > a /\ r <= a + b)
        BY <3>1
      <3> QED
        BY <3>2 DEF a, b
    <2>2. CASE q.blocked = FALSE
      <3>1. r \in 1..(a + b + c) /\ a \in Nat /\ b \in Nat /\ c \in Nat
        BY <1>1, <2>2
      <3> HIDE DEF a, b, c
      <3>2. r <= a \/ (r > a /\ r <= a + b) \/ r > a + b
        BY <3>1
      <3> QED
        BY <2>2, <3>2 DEF a, b
    <2> QED
      BY <1>1, <2>1, <2>2
  <1> QED
    BY <1>5, <1>6, <1>7, <1>8

\* The parameters and the element lengths.
LEMMA OthersAccounted ==
    ASSUME NEW q \in Problems, NEW g \in 6..7, NEW r \in 1..SplitSizes(q)[g]
    PROVE  Accounted(q, SplitIndices(q)[g] + r)
  <1> DEFINE n == SplitIndices(q)[g] + r
  <1>1. g \in 1..7 /\ (g = 6 \/ g = 7)
    OBVIOUS
  <1>2. Layout(q)[n] = Groups(q)[g][r]
    BY <1>1, LayoutIs
  <1> HIDE DEF n
  <1>3. CASE g = 6
    <2>1. Groups(q)[6] = AtPoint("p", Seq1(q.npopt), NoPoint)
      BY GroupsAre
    <2>2. SplitSizes(q)[6] = q.npopt /\ q.npopt \in Nat
      BY ProblemNumbers DEF SplitSizes
    <2>3. Seq1(q.npopt) \in Seq(Int) /\ Len(Seq1(q.npopt)) = q.npopt
      BY <2>2, Seq1Is
    <2>4. "p" \in Kinds /\ NoPoint \in Points
      BY DEF Kinds, NoPoint, Points
    <2>5. Groups(q)[g][r] = <<"p", Seq1(q.npopt)[r], NoPoint>>
      BY <1>3, <2>1, <2>2, <2>3, <2>4, AtPointIs
    <2>6. Layout(q)[n][1] = "p"
      BY <1>2, <2>5
    <2> QED
      BY <2>6 DEF Accounted, n
  <1>4. CASE g = 7
    <2>1. Groups(q)[7] = MeshPart(q)
      BY GroupsAre
    <2>2. SplitSizes(q)[7] = IF q.free THEN q.ne ELSE 0
      BY DEF SplitSizes
    <2>3. q.free = TRUE /\ r \in 1..q.ne
      BY <1>4, <2>2, ProblemNumbers
    <2>4. Groups(q)[g][r] = <<"h", 1, <<r, -1>>>>
      BY <1>4, <2>1, <2>3 DEF MeshPart
    <2>5. Layout(q)[n][1] = "h"
      BY <1>2, <2>4
    <2> QED
      BY <2>5 DEF Accounted, n
  <1> QED
    BY <1>1, <1>3, <1>4

LEMMA AllAccounted ==
    ASSUME NEW q \in Problems, q.gauss = FALSE, NEW n \in 1..NXX(q)
    PROVE  Accounted(q, n)
  <1> DEFINE k == [g \in 0..7 |-> SplitIndices(q)[g + 1]]  gs == Groups(q)
  <1>1. /\ gs \in Seq(Seq(Entries)) /\ Len(gs) = 7 /\ Lengths(gs) = SplitSizes(q)
        /\ \A g \in 1..7 : Len(gs[g]) = SplitSizes(q)[g]
    BY GroupSizes
  <1>2. Sums(k, Lengths(gs))
    BY <1>1, SplitIndicesAre
  <1>3. k[7] = NXX(q) /\ \A g \in 1..7 : k[g - 1] = SplitIndices(q)[g]
    BY VariablesAreCounted
  <1> HIDE DEF k
  <1>4. PICK g \in 1..7 : \E r \in 1..Len(gs[g]) : n = k[g - 1] + r
    <2>1. Joined(FlattenSeq(gs), gs, k, 7)
      BY <1>1, <1>2, FlattenJoins
    <2> HIDE DEF gs
    <2> QED
      BY <1>3, <2>1 DEF Joined
  <1>5. PICK r \in 1..SplitSizes(q)[g] : n = SplitIndices(q)[g] + r
    BY <1>1, <1>3, <1>4
  <1>6. SplitIndices(q)[1] = 0
    BY SplitIndicesAre
  <1>7. g = 1 \/ g = 2 \/ g = 3 \/ g = 4 \/ g = 5 \/ g \in 6..7
    OBVIOUS
  <1>8. CASE g = 1
    <2>1. n = r /\ r \in 1..Len(Groups(q)[1])
      BY <1>1, <1>5, <1>6, <1>8
    <2> QED
      BY <2>1, StatesAccounted
  <1>9. CASE g = 2 \/ g = 3
    BY <1>5, <1>9, InnerAccounted
  <1>10. CASE g = 4
    <2>1. r \in 1..Len(InputPart(q))
      BY <1>1, <1>10, GroupsAre
    <2> QED
      BY <1>5, <1>10, <2>1, InputsAccounted
  <1>11. CASE g = 5
    <2>1. r \in 1..PointSize(q)
      BY <1>11, SplitSizesAre
    <2> QED
      BY <1>5, <1>11, <2>1, EndsAccounted
  <1>12. CASE g \in 6..7
    BY <1>5, <1>12, OthersAccounted
  <1> QED
    BY <1>7, <1>8, <1>9, <1>10, <1>11, <1>12

\* Where _create_initial_trajectories writes an entry: the variables at the
\* points in time, and the states at the beginning of an element.
Hits(q, n) ==
    {a \in {<<z[1], z[2], m>> : z \in Variables(q), m \in DOMAIN TimePoints(q)} :
        VarIndex(q, a[1], a[2], TimePoints(q)[a[3]]) = n}
Copied(q, n) ==
    {c \in (1..q.nx) \X Continuity(q) : VarIndex(q, "x", c[1], <<c[2], 0>>) = n}
CopiedFrom(q, c) == <<"x", c[1], <<c[2] - 1, LastPoint(q)>>>>
LastHit(q, n) == CHOOSE b \in Hits(q, n) : \A c \in Hits(q, n) : c[3] <= b[3]

LEMMA SourceIs ==
    ASSUME NEW q, NEW n \in 1..NXX(q)
    PROVE  /\ DOMAIN InitSources(q) = 1..NXX(q)
           /\ InitSources(q)[n]
              = IF Copied(q, n) # {} THEN CopiedFrom(q, CHOOSE a \in Copied(q, n) : TRUE)
                ELSE IF Hits(q, n) # {}
                THEN <<LastHit(q, n)[1], LastHit(q, n)[2], TimePoints(q)[LastHit(q, n)[3]]>>
                ELSE IF Layout(q)[n][1] \in {"p", "h"} THEN Layout(q)[n]
                ELSE <<"none", 0, NoPoint>>
  BY DEF InitSources, Copied, Hits, CopiedFrom, LastHit

LEMMA LastHitIs ==
    ASSUME NEW q \in Problems, NEW n, Hits(q, n) # {}
    PROVE  LastHit(q, n) \in Hits(q, n)
  <1> DEFINE H == Hits(q, n)  m == Len(TimePoints(q))  T == {m - c[3] : c \in H}
  <1>1. m \in Nat /\ DOMAIN TimePoints(q) = 1..m
    BY TimePointIs
  <1>2. \A c \in H : c[3] \in 1..m
    BY <1>1 DEF Hits
  <1> HIDE DEF H, m
  <1>3. T \subseteq Nat /\ T # {}
    BY <1>1, <1>2 DEF H
  <1>4. PICK x \in T : \A y \in T : x <= y
    BY <1>3, LeastNumber
  <1>5. PICK b \in H : x = m - b[3]
    BY <1>4
  <1>6. ASSUME NEW c \in H PROVE c[3] <= b[3]
    <2>1. x <= m - c[3]
      BY <1>4
    <2> QED
      BY <1>1, <1>2, <1>5, <2>1
  <1>7. \E a \in Hits(q, n) : \A c \in Hits(q, n) : c[3] <= a[3]
    BY <1>6 DEF H
  <1> QED
    BY <1>7 DEF LastHit

\* What is written there is the variable that the entry stands for.
LEMMA HitIs ==
    ASSUME NEW q \in Problems, NEW n, NEW a \in Hits(q, n)
    PROVE  /\ a[1] \in {"x", "dx", "w", "u"}
           /\ IsInner(q, TimePoints(q)[a[3]]) \/ IsEnd(q, TimePoints(q)[a[3]])
           /\ EntryIs(q, n, EntryOf(q, a[1], a[2], TimePoints(q)[a[3]]))
  <1>1. PICK z \in Variables(q), m \in DOMAIN TimePoints(q) : a = <<z[1], z[2], m>>
    BY DEF Hits
  <1> DEFINE pt == TimePoints(q)[m]
  <1>2. a[1] = z[1] /\ a[2] = z[2] /\ a[3] = m
    BY <1>1
  <1>3. VarIndex(q, z[1], z[2], pt) = n
    BY <1>2 DEF Hits
  <1>4. IsInner(q, pt) \/ IsEnd(q, pt)
    BY TimePointIs
  <1>5. z[1] \in {"x", "dx", "w", "u"}
    BY DEF Variables
  <1> HIDE DEF pt
  <1>6. EntryIs(q, n, EntryOf(q, z[1], z[2], pt))
    BY <1>3, <1>4, VariableEntry
  <1> QED
    BY <1>2, <1>4, <1>5, <1>6 DEF pt

\* Every entry gets a guess.
LEMMA SourceExists ==
    ASSUME NEW q \in Problems, q.gauss = FALSE, NEW n \in 1..NXX(q)
    PROVE  InitSources(q)[n][1] # "none"
  <1>1. CASE Copied(q, n) # {}
    <2>1. InitSources(q)[n] = CopiedFrom(q, CHOOSE a \in Copied(q, n) : TRUE)
      BY <1>1, SourceIs
    <2> DEFINE c == CHOOSE a \in Copied(q, n) : TRUE
    <2> HIDE DEF c
    <2>2. CopiedFrom(q, c)[1] = "x"
      BY DEF CopiedFrom
    <2> QED
      BY <2>1, <2>2 DEF c
  <1>2. CASE Copied(q, n) = {} /\ Hits(q, n) # {}
    <2> DEFINE a == LastHit(q, n)
    <2>1. InitSources(q)[n] = <<a[1], a[2], TimePoints(q)[a[3]]>>
      BY <1>2, SourceIs
    <2>2. a \in Hits(q, n)
      BY <1>2, LastHitIs
    <2> HIDE DEF a
    <2>3. a[1] \in {"x", "dx", "w", "u"}
      BY <2>2, HitIs
    <2>4. InitSources(q)[n][1] = a[1]
      BY <2>1
    <2> QED
      BY <2>3, <2>4
  <1>3. CASE Copied(q, n) = {} /\ Hits(q, n) = {}
    <2>1. ~ HasVariable(q, n)
      <3> SUFFICES ASSUME NEW z \in Variables(q), NEW pt, IsInner(q, pt) \/ IsEnd(q, pt),
                          VarIndex(q, z[1], z[2], pt) = n
                   PROVE  FALSE
        BY DEF HasVariable
      <3>1. PICK m \in DOMAIN TimePoints(q) : TimePoints(q)[m] = pt
        BY TimePointIs
      <3> DEFINE a == <<z[1], z[2], m>>
      <3>2. a[1] = z[1] /\ a[2] = z[2] /\ a[3] = m
        OBVIOUS
      <3>3. a \in {<<y[1], y[2], k>> : y \in Variables(q), k \in DOMAIN TimePoints(q)}
        OBVIOUS
      <3> HIDE DEF a
      <3>4. VarIndex(q, a[1], a[2], TimePoints(q)[a[3]]) = n
        BY <3>1, <3>2
      <3>5. a \in Hits(q, n)
        BY <3>3, <3>4 DEF Hits
      <3> QED
        BY <1>3, <3>5
    <2>2. ~ IsContinuity(q, n)
      <3> SUFFICES ASSUME NEW v \in 1..q.nx, NEW i \in Continuity(q),
                          VarIndex(q, "x", v, <<i, 0>>) = n
                   PROVE  FALSE
        BY DEF IsContinuity
      <3> DEFINE c == <<v, i>>
      <3>1. c \in (1..q.nx) \X Continuity(q) /\ c[1] = v /\ c[2] = i
        OBVIOUS
      <3> HIDE DEF c
      <3>2. VarIndex(q, "x", c[1], <<c[2], 0>>) = n
        BY <3>1
      <3>3. c \in Copied(q, n)
        BY <3>1, <3>2 DEF Copied
      <3> QED
        BY <1>3, <3>3
    <2>3. Layout(q)[n][1] \in {"p", "h"}
      BY <2>1, <2>2, AllAccounted DEF Accounted
    <2>4. InitSources(q)[n] = Layout(q)[n]
      BY <1>3, <2>3, SourceIs
    <2> QED
      BY <2>3, <2>4
  <1> QED
    BY <1>1, <1>2, <1>3

\* The guess of a state is that of the end of the element before, at the
\* beginning of an element, and its own everywhere else.
LEMMA CopiedIs ==
    ASSUME NEW q \in Problems, NEW n, NEW c \in Copied(q, n)
    PROVE  EntryIs(q, n, <<"x", c[1], <<c[2], 0>>>>)
  <1>1. c[1] \in 1..q.nx /\ c[2] \in 1..q.ne /\ VarIndex(q, "x", c[1], <<c[2], 0>>) = n
    BY ContinuityIs DEF Copied
  <1>2. LastPoint(q) \in Nat \ {0}
    BY StatePointsAre
  <1> QED
    BY <1>1, <1>2, StateEntry

LEMMA GuessAtBeginning ==
    ASSUME NEW q \in Problems, NEW v \in 1..q.nx, NEW i \in Continuity(q)
    PROVE  InitSources(q)[VarIndex(q, "x", v, <<i, 0>>)]
           = <<"x", v, <<i - 1, LastPoint(q)>>>>
  <1> DEFINE n == VarIndex(q, "x", v, <<i, 0>>)  c == CHOOSE a \in Copied(q, n) : TRUE
             d == <<v, i>>
  <1>1. i \in 1..q.ne /\ LastPoint(q) \in Nat \ {0}
    <2>1. LastPoint(q) \in Nat \ {0}
      BY StatePointsAre
    <2>2. i \in 2..q.ne /\ q.ne \in Nat
      BY ContinuityIs, ProblemNumbers
    <2> QED
      BY <2>1, <2>2
  <1>2. EntryIs(q, n, <<"x", v, <<i, 0>>>>)
    BY <1>1, StateEntry
  <1>3. d \in (1..q.nx) \X Continuity(q) /\ d[1] = v /\ d[2] = i
    OBVIOUS
  <1> HIDE DEF d
  <1>4. VarIndex(q, "x", d[1], <<d[2], 0>>) = n
    BY <1>3
  <1> HIDE DEF n
  <1>5. d \in Copied(q, n)
    BY <1>3, <1>4 DEF Copied
  <1>6. c \in Copied(q, n)
    BY <1>5
  <1>7. n \in 1..NXX(q)
    BY <1>2, LayoutIs, VariablesAreCounted DEF EntryIs
  <1>8. InitSources(q)[n] = CopiedFrom(q, c)
    BY <1>5, <1>7, SourceIs
  <1> HIDE DEF c
  <1>9. <<"x", c[1], <<c[2], 0>>>> = <<"x", v, <<i, 0>>>>
    BY <1>2, <1>6, CopiedIs DEF EntryIs
  <1>10. c[1] = v /\ c[2] = i
    BY <1>9
  <1> QED
    BY <1>8, <1>10 DEF CopiedFrom, n

LEMMA GuessAtEnd ==
    ASSUME NEW q \in Problems, q.gauss = FALSE, NEW v \in 1..q.nx, NEW i \in 1..q.ne
    PROVE  InitSources(q)[VarIndex(q, "x", v, <<i, LastPoint(q)>>)]
           = <<"x", v, <<i, LastPoint(q)>>>>
  <1> DEFINE pt == <<i, LastPoint(q)>>  n == VarIndex(q, "x", v, pt)  a == LastHit(q, n)
             e == <<"x", v, pt>>
  <1>1. LastPoint(q) = q.ncp /\ q.ncp \in Nat \ {0}
    BY ProblemNumbers DEF LastPoint
  <1>2. IsInner(q, pt)
    BY <1>1 DEF IsInner
  <1>3. EntryIs(q, n, e)
    BY <1>1, StateEntry
  <1>4. <<"x", v>> \in Variables(q)
    BY IsVariable
  <1>5. pt[2] # 0
    BY <1>1
  <1> HIDE DEF pt
  <1>6. Copied(q, n) = {}
    <2> SUFFICES ASSUME NEW c \in Copied(q, n) PROVE FALSE
      OBVIOUS
    <2> HIDE DEF n
    <2>1. <<"x", c[1], <<c[2], 0>>>> = e
      BY <1>3, CopiedIs DEF EntryIs
    <2>2. <<c[2], 0>> = pt
      BY <2>1
    <2> QED
      BY <1>5, <2>2
  <1>7. Hits(q, n) # {}
    <2>1. PICK m \in DOMAIN TimePoints(q) : TimePoints(q)[m] = pt
      BY <1>2, TimePointIs
    <2> DEFINE z == <<"x", v>>  h == <<z[1], z[2], m>>
    <2>2. z[1] = "x" /\ z[2] = v
      OBVIOUS
    <2>3. h[1] = z[1] /\ h[2] = z[2] /\ h[3] = m
      OBVIOUS
    <2>4. h \in {<<y[1], y[2], k>> : y \in Variables(q), k \in DOMAIN TimePoints(q)}
      BY <1>4
    <2> HIDE DEF z, h
    <2>5. VarIndex(q, h[1], h[2], TimePoints(q)[h[3]]) = n
      BY <2>1, <2>2, <2>3
    <2> HIDE DEF n
    <2>6. h \in Hits(q, n)
      BY <2>4, <2>5 DEF Hits
    <2> QED
      BY <2>6
  <1> HIDE DEF n
  <1>8. a \in Hits(q, n)
    BY <1>7, LastHitIs
  <1>9. n \in 1..NXX(q)
    BY <1>3, LayoutIs, VariablesAreCounted DEF EntryIs
  <1>10. InitSources(q)[n] = <<a[1], a[2], TimePoints(q)[a[3]]>>
    BY <1>6, <1>7, <1>9, SourceIs
  <1> HIDE DEF a
  <1>11. EntryOf(q, a[1], a[2], TimePoints(q)[a[3]]) = e
    BY <1>3, <1>8, HitIs DEF EntryIs
  <1>12. <<a[1], a[2], TimePoints(q)[a[3]]>> = e
    <2>1. CASE a[1] = "u" /\ ~ IsFree(q, a[2])
      <3>1. FactorEntry(q, BlockedRank(q, a[2]), TimePoints(q)[a[3]][1])[1] = "u"
        BY DEF FactorEntry
      <3>2. e[1] = "x"
        OBVIOUS
      <3>3. EntryOf(q, a[1], a[2], TimePoints(q)[a[3]])
            = FactorEntry(q, BlockedRank(q, a[2]), TimePoints(q)[a[3]][1])
        BY <2>1 DEF EntryOf
      <3> HIDE DEF e
      <3> QED
        BY <1>11, <3>1, <3>2, <3>3
    <2>2. CASE ~ (a[1] = "u" /\ ~ IsFree(q, a[2]))
      <3>1. EntryOf(q, a[1], a[2], TimePoints(q)[a[3]]) = <<a[1], a[2], TimePoints(q)[a[3]]>>
        BY <2>2 DEF EntryOf
      <3> QED
        BY <1>11, <3>1
    <2> QED
      BY <2>1, <2>2
  <1> QED
    BY <1>10, <1>12 DEF e, n, pt

\* With Radau points, create_initial_trajectories leaves no entry of xx without
\* a guess, and the guess of the states is continuous from one element to the
\* next, for every problem.
THEOREM GuessIsComplete == Spec => []GuessComplete
  <1>1. p \in Problems => GuessComplete
    <2> SUFFICES ASSUME p \in Problems, ~ p.gauss
                 PROVE  /\ EveryEntryGuessed
                        /\ \A v \in 1..p.nx : \A i \in Continuity(p) :
                               InitSources(p)[VarIndex(p, "x", v, <<i, 0>>)]
                               = InitSources(p)[VarIndex(p, "x", v, <<i - 1, LastPoint(p)>>)]
      BY DEF GuessComplete
    <2>1. p.gauss = FALSE
      BY ProblemNumbers
    <2>2. DOMAIN InitSources(p) = 1..NXX(p)
      BY DEF InitSources
    <2>3. EveryEntryGuessed
      BY <2>1, <2>2, SourceExists DEF EveryEntryGuessed
    <2>4. ASSUME NEW v \in 1..p.nx, NEW i \in Continuity(p)
          PROVE  InitSources(p)[VarIndex(p, "x", v, <<i, 0>>)]
                 = InitSources(p)[VarIndex(p, "x", v, <<i - 1, LastPoint(p)>>)]
      <3> DEFINE j == i - 1
      <3>1. j \in 1..p.ne
        BY ContinuityIs, ProblemNumbers
      <3>2. InitSources(p)[VarIndex(p, "x", v, <<i, 0>>)] = <<"x", v, <<j, LastPoint(p)>>>>
        BY GuessAtBeginning
      <3> HIDE DEF j
      <3>3. InitSources(p)[VarIndex(p, "x", v, <<j, LastPoint(p)>>)]
            = <<"x", v, <<j, LastPoint(p)>>>>
        BY <2>1, <3>1, GuessAtEnd
      <3> QED
        BY <3>2, <3>3 DEF j
    <2> QED
      BY <2>3, <2>4
  <1> QED
    BY <1>1, ProblemIsKept, PTL

-----------------------------------------------------------------------------
(* The constraints of whole elements are those of their points.            *)

Places(s, b) == {j \in DOMAIN s : s[j] = b}

LEMMA OccurrencesOfTwo ==
    ASSUME NEW S, NEW a \in Seq(S), NEW c \in Seq(S), NEW b
    PROVE  /\ Occurrences(a \o c, b) = Occurrences(a, b) + Occurrences(c, b)
           /\ Occurrences(a, b) \in Nat /\ Occurrences(c, b) \in Nat
  <1> DEFINE all == a \o c  A == Places(a, b)  C == Places(c, b)
             D == {Len(a) + j : j \in C}  f == [j \in C |-> Len(a) + j]
  <1>1. /\ Len(a) \in Nat /\ Len(c) \in Nat /\ DOMAIN a = 1..Len(a) /\ DOMAIN c = 1..Len(c)
        /\ DOMAIN all = 1..(Len(a) + Len(c))
    OBVIOUS
  <1>2. IsPair(all, a, c)
    BY PairIs
  <1> HIDE DEF all
  <1>3. A \subseteq 1..Len(a) /\ C \subseteq 1..Len(c)
    BY <1>1 DEF Places
  <1>4. IsFiniteSet(A) /\ IsFiniteSet(C)
    <2>1. IsFiniteSet(1..Len(a)) /\ IsFiniteSet(1..Len(c)) /\ 1 \in Int
      BY <1>1, FS_Interval
    <2> HIDE DEF A, C
    <2> QED
      BY <1>3, <2>1, FS_Subset
  <1>5. f \in Bijection(C, D)
    <2>1. f \in [C -> D]
      OBVIOUS
    <2>2. \A i, j \in C : f[i] = f[j] => i = j
      BY <1>1, <1>3
    <2>3. \A d \in D : \E j \in C : f[j] = d
      OBVIOUS
    <2> HIDE DEF f, C, D
    <2> QED
      BY <2>1, <2>2, <2>3, Fun_IsBij
  <1>6. IsFiniteSet(D) /\ Cardinality(D) = Cardinality(C)
    <2>1. ExistsBijection(C, D)
      BY <1>5 DEF ExistsBijection
    <2> HIDE DEF C, D, f
    <2> QED
      BY <1>4, <2>1, FS_Bijection
  <1>7. A \cap D = {}
    BY <1>1, <1>3
  <1>8. Places(all, b) = A \cup D
    <2>1. ASSUME NEW j \in Places(all, b) PROVE j \in A \cup D
      <3>1. j \in 1..(Len(a) + Len(c)) /\ all[j] = b
        BY <1>1 DEF Places
      <3>2. CASE j <= Len(a)
        <4>1. j \in 1..Len(a)
          BY <1>1, <3>1, <3>2
        <4>2. a[j] = b
          BY <1>2, <3>1, <4>1 DEF IsPair
        <4> QED
          BY <1>1, <4>1, <4>2 DEF Places
      <3>3. CASE j > Len(a)
        <4> DEFINE i == j - Len(a)
        <4>1. i \in 1..Len(c) /\ j = Len(a) + i
          BY <1>1, <3>1, <3>3
        <4> HIDE DEF i
        <4>2. c[i] = b
          BY <1>2, <3>1, <4>1 DEF IsPair
        <4>3. i \in C
          BY <1>1, <4>1, <4>2 DEF Places
        <4> QED
          BY <4>1, <4>3
      <3> QED
        BY <1>1, <3>1, <3>2, <3>3
    <2>2. ASSUME NEW j \in A PROVE j \in Places(all, b)
      <3>1. j \in 1..Len(a) /\ a[j] = b
        BY <1>1 DEF Places
      <3>2. all[j] = b /\ j \in 1..(Len(a) + Len(c))
        BY <1>1, <1>2, <3>1 DEF IsPair
      <3> QED
        BY <1>1, <3>2 DEF Places
    <2>3. ASSUME NEW j \in C PROVE Len(a) + j \in Places(all, b)
      <3>1. j \in 1..Len(c) /\ c[j] = b
        BY <1>1 DEF Places
      <3>2. all[Len(a) + j] = b
        BY <1>2, <3>1 DEF IsPair
      <3>3. Len(a) + j \in 1..(Len(a) + Len(c))
        BY <1>1, <3>1
      <3> QED
        BY <1>1, <3>2, <3>3 DEF Places
    <2> QED
      BY <2>1, <2>2, <2>3
  <1>9. Cardinality(A) \in Nat /\ Cardinality(C) \in Nat
    BY <1>4, FS_CardinalityType
  <1> HIDE DEF A, C, D
  <1>10. Cardinality(A \cup D) = Cardinality(A) + Cardinality(D)
    <2>1. Cardinality(A \cup D) = Cardinality(A) + Cardinality(D) - Cardinality(A \cap D)
      BY <1>4, <1>6, FS_Union
    <2>2. Cardinality(A \cap D) = 0
      BY <1>7, FS_EmptySet
    <2> QED
      BY <1>6, <1>9, <2>1, <2>2
  <1>11. /\ Occurrences(all, b) = Cardinality(Places(all, b))
         /\ Occurrences(a, b) = Cardinality(A) /\ Occurrences(c, b) = Cardinality(C)
    BY DEF Occurrences, Places, A, C
  <1> QED
    BY <1>6, <1>8, <1>9, <1>10, <1>11 DEF all

\* s has each block of the elements once: those of a point are numbered 1 and 2.
OneBlockOf(q, i, k, r) ==
    IF r = 1 THEN Block("collocation", q.nx, <<i, k>>) ELSE Block("dae", q.ndae, <<i, k>>)
IsBlockOf(q, b) ==
    \E i \in 1..q.ne : \E k \in 1..q.ncp : \E r \in 1..2 : b = OneBlockOf(q, i, k, r)
HasBlocks(q, s) ==
    /\ DOMAIN s = 1..Len(s)
    /\ \A m \in 1..Len(s) : IsBlockOf(q, s[m])
    /\ \A b : IsBlockOf(q, b) => \E m \in 1..Len(s) : s[m] = b
    /\ \A m, n \in 1..Len(s) : s[m] = s[n] => m = n

LEMMA BlocksDiffer ==
    ASSUME NEW q, NEW i, NEW k, NEW r \in 1..2, NEW j, NEW l, NEW t \in 1..2,
           OneBlockOf(q, i, k, r) = OneBlockOf(q, j, l, t)
    PROVE  i = j /\ k = l /\ r = t
  <1> DEFINE b == OneBlockOf(q, i, k, r)  c == OneBlockOf(q, j, l, t)
  <1>1. /\ b.pt = <<i, k>> /\ c.pt = <<j, l>>
        /\ b.type = (IF r = 1 THEN "collocation" ELSE "dae")
        /\ c.type = (IF t = 1 THEN "collocation" ELSE "dae")
    BY DEF OneBlockOf, Block
  <1> HIDE DEF b, c
  <1>2. b = c
    BY DEF b, c
  <1>3. <<i, k>> = <<j, l>>
    BY <1>1, <1>2
  <1>4. r = t
    BY <1>1, <1>2
  <1> QED
    BY <1>3, <1>4

LEMMA EachBlockOnce ==
    ASSUME NEW q, NEW s, HasBlocks(q, s), NEW b
    PROVE  Occurrences(s, b) = IF IsBlockOf(q, b) THEN 1 ELSE 0
  <1> DEFINE P == {j \in DOMAIN s : s[j] = b}
  <1>1. Occurrences(s, b) = Cardinality(P)
    BY DEF Occurrences
  <1>2. CASE ~ IsBlockOf(q, b)
    <2>1. P = {}
      BY <1>2 DEF HasBlocks
    <2> QED
      BY <1>1, <1>2, <2>1, FS_EmptySet
  <1>3. CASE IsBlockOf(q, b)
    <2>1. PICK m \in 1..Len(s) : s[m] = b
      BY <1>3 DEF HasBlocks
    <2>2. \A n \in P : n = m
      BY <2>1 DEF HasBlocks
    <2>3. P = {m}
      BY <2>1, <2>2 DEF HasBlocks
    <2> QED
      BY <1>1, <1>3, <2>3, FS_Singleton
  <1> QED
    BY <1>2, <1>3

JoinedSame(s, ss, c) ==
    /\ \A j \in 1..Len(ss) : \A r \in 1..c :
          (j - 1) * c + r \in 1..Len(s) /\ s[(j - 1) * c + r] = ss[j][r]
    /\ \A m \in 1..Len(s) : \E j \in 1..Len(ss) : \E r \in 1..c : m = (j - 1) * c + r

LEMMA SameJoined ==
    ASSUME NEW S, NEW ss \in Seq(Seq(S)), NEW c \in Nat, \A j \in 1..Len(ss) : Len(ss[j]) = c
    PROVE  FlattenSeq(ss) \in Seq(S) /\ JoinedSame(FlattenSeq(ss), ss, c)
  <1> DEFINE s == FlattenSeq(ss)
  <1>1. s \in Seq(S)
    BY FlattenSame
  <1>2. \A j \in 1..Len(ss) : \A r \in 1..c :
            (j - 1) * c + r \in 1..Len(s) /\ s[(j - 1) * c + r] = ss[j][r]
    BY FlattenSame
  <1>3. ASSUME NEW m \in 1..Len(s)
        PROVE  \E j \in 1..Len(ss) : \E r \in 1..c : m = (j - 1) * c + r
    <2> DEFINE k == [n \in 0..Len(ss) |-> n * c]
    <2>1. Sums(k, Lengths(ss))
      BY SumsOfSame
    <2>2. Len(ss) \in Nat /\ \A j \in 1..Len(ss) : k[j - 1] = (j - 1) * c
      OBVIOUS
    <2> HIDE DEF k
    <2>3. Joined(s, ss, k, Len(ss))
      BY <2>1, FlattenJoins
    <2>4. m \in 1..k[Len(ss)]
      BY <2>3 DEF Joined
    <2> HIDE DEF s
    <2>5. PICK j \in 1..Len(ss) : \E r \in 1..Len(ss[j]) : m = k[j - 1] + r
      BY <2>3, <2>4 DEF Joined
    <2>6. PICK r \in 1..c : m = k[j - 1] + r
      BY <2>5
    <2> QED
      BY <2>2, <2>6
  <1> HIDE DEF s
  <1>4. JoinedSame(s, ss, c)
    BY <1>2, <1>3 DEF JoinedSame
  <1> QED
    BY <1>1, <1>4 DEF s

LEMMA PointwiseHasBlocks ==
    ASSUME NEW q \in Problems
    PROVE  HasBlocks(q, PointwiseBlocks(q))
  <1> DEFINE pts == InnerPoints(q)
             e(j) == << Block("collocation", q.nx, pts[j]), Block("dae", q.ndae, pts[j]) >>
             ss == [j \in DOMAIN pts |-> e(j)]  s == PointwiseBlocks(q)
  <1>1. /\ pts \in Seq(Points) /\ Len(pts) = q.ne * q.ncp
        /\ \A i \in 1..q.ne : \A k \in 1..q.ncp :
              (i - 1) * q.ncp + k \in 1..Len(pts) /\ pts[(i - 1) * q.ncp + k] = <<i, k>>
    BY InnerPointsAre
  <1>2. q.nx \in Nat /\ q.ndae \in Nat /\ q.ne \in Nat /\ q.ncp \in Nat \ {0}
    BY ProblemNumbers
  <1>3. "collocation" \in Types /\ "dae" \in Types
    BY DEF Types
  <1>4. DOMAIN pts = 1..Len(pts) /\ Len(pts) \in Nat
    BY <1>1
  <1>5. s = FlattenSeq(ss)
    BY DEF PointwiseBlocks
  <1> HIDE DEF pts, s
  <1>6. \A j \in 1..Len(pts) :
            /\ e(j) \in Seq(AllBlocks) /\ Len(e(j)) = 2
            /\ e(j)[1] = Block("collocation", q.nx, pts[j])
            /\ e(j)[2] = Block("dae", q.ndae, pts[j])
    <2> SUFFICES ASSUME NEW j \in 1..Len(pts)
                 PROVE  /\ e(j) \in Seq(AllBlocks) /\ Len(e(j)) = 2
                        /\ e(j)[1] = Block("collocation", q.nx, pts[j])
                        /\ e(j)[2] = Block("dae", q.ndae, pts[j])
      OBVIOUS
    <2> DEFINE pt == pts[j]  b == Block("collocation", q.nx, pt)  d == Block("dae", q.ndae, pt)
    <2>1. pt \in Points
      BY <1>1, ElementsAre
    <2> HIDE DEF pt
    <2>2. b \in AllBlocks /\ d \in AllBlocks
      BY <1>2, <1>3, <2>1, BlockIs
    <2>3. e(j) = <<b, d>>
      BY DEF pt
    <2> HIDE DEF b, d, e
    <2>4. e(j) \in Seq(AllBlocks) /\ Len(e(j)) = 2 /\ e(j)[1] = b /\ e(j)[2] = d
      BY <2>2, <2>3
    <2> QED
      BY <2>4 DEF b, d, pt
  <1> HIDE DEF e
  <1>7. /\ ss \in Seq(Seq(AllBlocks)) /\ Len(ss) = Len(pts)
        /\ \A j \in 1..Len(ss) : Len(ss[j]) = 2
        /\ \A j \in 1..Len(ss) : ss[j] = e(j)
    BY <1>4, <1>6
  <1> HIDE DEF ss
  <1>8. /\ s \in Seq(AllBlocks)
        /\ \A j \in 1..Len(ss) : \A r \in 1..2 :
              (j - 1) * 2 + r \in 1..Len(s) /\ s[(j - 1) * 2 + r] = ss[j][r]
        /\ \A m \in 1..Len(s) : \E j \in 1..Len(ss) : \E r \in 1..2 : m = (j - 1) * 2 + r
    <2>1. 2 \in Nat
      OBVIOUS
    <2>2. s \in Seq(AllBlocks) /\ JoinedSame(s, ss, 2)
      BY <1>5, <1>7, <2>1, SameJoined
    <2> QED
      BY <2>2 DEF JoinedSame
  <1>9. ASSUME NEW i \in 1..q.ne, NEW k \in 1..q.ncp, NEW r \in 1..2
        PROVE  LET m == (((i - 1) * q.ncp + k) - 1) * 2 + r
               IN  m \in 1..Len(s) /\ s[m] = OneBlockOf(q, i, k, r)
    <2> DEFINE j == (i - 1) * q.ncp + k
    <2>1. j \in 1..Len(ss) /\ pts[j] = <<i, k>>
      BY <1>1, <1>7
    <2>2. ((i - 1) * q.ncp + k) - 1 = j - 1
      OBVIOUS
    <2> HIDE DEF j
    <2>3. (j - 1) * 2 + r \in 1..Len(s) /\ s[(j - 1) * 2 + r] = e(j)[r]
      BY <1>7, <1>8, <2>1
    <2>4. e(j)[r] = OneBlockOf(q, i, k, r)
      <3>1. r = 1 \/ r = 2
        OBVIOUS
      <3>2. j \in 1..Len(pts)
        BY <1>7, <2>1
      <3>3. e(j)[1] = Block("collocation", q.nx, pts[j]) /\ e(j)[2] = Block("dae", q.ndae, pts[j])
        BY <1>6, <3>2
      <3> QED
        BY <2>1, <3>1, <3>3 DEF OneBlockOf
    <2> QED
      BY <2>2, <2>3, <2>4
  <1>10. ASSUME NEW m \in 1..Len(s)
         PROVE  \E i \in 1..q.ne : \E k \in 1..q.ncp : \E r \in 1..2 :
                    m = (((i - 1) * q.ncp + k) - 1) * 2 + r
    <2>1. PICK j \in 1..Len(ss), r \in 1..2 : m = (j - 1) * 2 + r
      BY <1>8
    <2>2. j \in 1..(q.ne * q.ncp)
      BY <1>1, <1>7
    <2>3. PICK i \in 1..q.ne, k \in 1..q.ncp : j = (i - 1) * q.ncp + k
      BY <1>2, <2>2, PlaceOfPoint
    <2> QED
      BY <2>1, <2>3
  <1>11. DOMAIN s = 1..Len(s)
    BY <1>8
  <1>12. \A m \in 1..Len(s) : IsBlockOf(q, s[m])
    BY <1>9, <1>10, ZenonT(40) DEF IsBlockOf
  <1>13. \A b : IsBlockOf(q, b) => \E m \in 1..Len(s) : s[m] = b
    <2> SUFFICES ASSUME NEW b, IsBlockOf(q, b) PROVE \E m \in 1..Len(s) : s[m] = b
      OBVIOUS
    <2>1. PICK i \in 1..q.ne, k \in 1..q.ncp, r \in 1..2 : b = OneBlockOf(q, i, k, r)
      BY DEF IsBlockOf
    <2> DEFINE m == (((i - 1) * q.ncp + k) - 1) * 2 + r
    <2>2. m \in 1..Len(s) /\ s[m] = OneBlockOf(q, i, k, r)
      BY <1>9
    <2> HIDE DEF m
    <2> QED
      BY <2>1, <2>2
  <1>14. ASSUME NEW m \in 1..Len(s), NEW n \in 1..Len(s), s[m] = s[n] PROVE m = n
    <2>1. PICK i \in 1..q.ne, k \in 1..q.ncp, r \in 1..2 : m = (((i - 1) * q.ncp + k) - 1) * 2 + r
      BY <1>10
    <2>2. PICK j \in 1..q.ne, l \in 1..q.ncp, t \in 1..2 : n = (((j - 1) * q.ncp + l) - 1) * 2 + t
      BY <1>10
    <2>3. s[m] = OneBlockOf(q, i, k, r) /\ s[n] = OneBlockOf(q, j, l, t)
      BY <1>9, <2>1, <2>2
    <2>4. OneBlockOf(q, i, k, r) = OneBlockOf(q, j, l, t)
      BY <1>14, <2>3
    <2>5. i = j /\ k = l /\ r = t
      BY <2>4, BlocksDiffer
    <2> QED
      BY <2>1, <2>2, <2>5
  <1> QED
    BY <1>11, <1>12, <1>13, <1>14 DEF HasBlocks, s

LEMMA WholeHasBlocks ==
    ASSUME NEW q \in Problems
    PROVE  HasBlocks(q, WholeBlocks(q))
  <1> DEFINE n == q.ncp  c == n + n  e(i) == ElementBlocks(q, i)
             ss == [i \in 1..q.ne |-> e(i)]  s == WholeBlocks(q)
             place(k, r) == IF r = 1 THEN n + k ELSE k
  <1>1. q.nx \in Nat /\ q.ndae \in Nat /\ q.ne \in Nat /\ n \in Nat \ {0} /\ c \in Nat
    BY ProblemNumbers
  <1>2. ASSUME NEW i \in 1..q.ne
        PROVE  /\ e(i) \in Seq(AllBlocks) /\ Len(e(i)) = c
               /\ \A k \in 1..n : e(i)[k] = OneBlockOf(q, i, k, 2)
                                  /\ e(i)[n + k] = OneBlockOf(q, i, k, 1)
    <2> DEFINE a == SplitBlocks("dae", q.ndae, n, i)  b == SplitBlocks("collocation", q.nx, n, i)
    <2>1. e(i) = a \o b
      <3>1. i \in Int
        OBVIOUS
      <3> QED
        BY <3>1, ElementBlocksAre
    <2>2. /\ Len(a) = n /\ Len(b) = n
          /\ \A k \in 1..n : a[k] = OneBlockOf(q, i, k, 2) /\ b[k] = OneBlockOf(q, i, k, 1)
      BY <1>1 DEF SplitBlocks, OneBlockOf
    <2>3. "collocation" \in Types /\ "dae" \in Types /\ i \in Int
      BY DEF Types
    <2>4. a \in Seq(AllBlocks) /\ b \in Seq(AllBlocks)
      BY <1>1, <2>3, SplitBlocksAre DEF Residuals
    <2> HIDE DEF a, b, e, n
    <2>5. a \o b \in Seq(AllBlocks) /\ IsPair(a \o b, a, b)
      BY <2>4, PairIs
    <2> QED
      BY <2>1, <2>2, <2>5 DEF IsPair, c
  <1>3. s = FlattenSeq(ss)
    BY DEF WholeBlocks
  <1> HIDE DEF e, s
  <1>4. /\ ss \in Seq(Seq(AllBlocks)) /\ Len(ss) = q.ne
        /\ \A j \in 1..Len(ss) : Len(ss[j]) = c
        /\ \A j \in 1..Len(ss) : ss[j] = e(j)
    <2>1. \A i \in 1..q.ne : e(i) \in Seq(AllBlocks) /\ Len(e(i)) = c
      BY <1>2
    <2> HIDE DEF c
    <2> QED
      BY <1>1, <2>1
  <1> HIDE DEF ss
  <1>5. s \in Seq(AllBlocks) /\ JoinedSame(s, ss, c)
    <2> HIDE DEF c
    <2> QED
      BY <1>1, <1>3, <1>4, SameJoined
  <1> HIDE DEF n
  <1>6. \A k \in 1..n : \A r \in 1..2 : place(k, r) \in 1..c
    BY <1>1
  <1>7. ASSUME NEW i \in 1..q.ne, NEW k \in 1..n, NEW r \in 1..2
        PROVE  LET m == (i - 1) * c + place(k, r)
               IN  m \in 1..Len(s) /\ s[m] = OneBlockOf(q, i, k, r)
    <2> DEFINE t == place(k, r)
    <2>1. t \in 1..c
      BY <1>6
    <2>2. e(i)[t] = OneBlockOf(q, i, k, r)
      <3>1. r = 1 \/ r = 2
        OBVIOUS
      <3> QED
        BY <1>2, <3>1
    <2> HIDE DEF t, c
    <2>3. (i - 1) * c + t \in 1..Len(s) /\ s[(i - 1) * c + t] = e(i)[t]
      BY <1>4, <1>5, <2>1, ZenonT(40) DEF JoinedSame
    <2> QED
      BY <2>2, <2>3 DEF t
  <1>8. ASSUME NEW m \in 1..Len(s)
        PROVE  \E i \in 1..q.ne : \E k \in 1..n : \E r \in 1..2 : m = (i - 1) * c + place(k, r)
    <2>1. PICK i \in 1..q.ne, t \in 1..c : m = (i - 1) * c + t
      <3> HIDE DEF c
      <3> QED
        BY <1>4, <1>5 DEF JoinedSame
    <2>2. \E k \in 1..n : \E r \in 1..2 : t = place(k, r)
      <3>1. CASE t <= n
        <4>1. t \in 1..n /\ t = place(t, 2)
          BY <1>1, <3>1
        <4> QED
          BY <4>1
      <3>2. CASE t > n
        <4>1. t - n \in 1..n /\ t = place(t - n, 1)
          BY <1>1, <3>2
        <4> QED
          BY <4>1
      <3> QED
        BY <1>1, <3>1, <3>2
    <2> HIDE DEF place
    <2> QED
      BY <2>1, <2>2
  <1> HIDE DEF place, c
  <1>9. DOMAIN s = 1..Len(s)
    BY <1>5
  <1>10. \A m \in 1..Len(s) : IsBlockOf(q, s[m])
    BY <1>7, <1>8, ZenonT(40) DEF IsBlockOf, n
  <1>11. \A b : IsBlockOf(q, b) => \E m \in 1..Len(s) : s[m] = b
    <2> SUFFICES ASSUME NEW b, IsBlockOf(q, b) PROVE \E m \in 1..Len(s) : s[m] = b
      OBVIOUS
    <2>1. PICK i \in 1..q.ne, k \in 1..n, r \in 1..2 : b = OneBlockOf(q, i, k, r)
      BY DEF IsBlockOf, n
    <2> DEFINE m == (i - 1) * c + place(k, r)
    <2>2. m \in 1..Len(s) /\ s[m] = OneBlockOf(q, i, k, r)
      BY <1>7
    <2> HIDE DEF m
    <2> QED
      BY <2>1, <2>2
  <1>12. ASSUME NEW m \in 1..Len(s), NEW l \in 1..Len(s), s[m] = s[l] PROVE m = l
    <2>1. PICK i \in 1..q.ne, k \in 1..n, r \in 1..2 : m = (i - 1) * c + place(k, r)
      BY <1>8
    <2>2. PICK j \in 1..q.ne, h \in 1..n, t \in 1..2 : l = (j - 1) * c + place(h, t)
      BY <1>8
    <2>3. s[m] = OneBlockOf(q, i, k, r) /\ s[l] = OneBlockOf(q, j, h, t)
      BY <1>7, <2>1, <2>2
    <2>4. OneBlockOf(q, i, k, r) = OneBlockOf(q, j, h, t)
      BY <1>12, <2>3
    <2>5. i = j /\ k = h /\ r = t
      BY <2>4, BlocksDiffer
    <2> QED
      BY <2>1, <2>2, <2>5
  <1> QED
    BY <1>9, <1>10, <1>11, <1>12 DEF HasBlocks, s

LEMMA OccurrencesAgree ==
    ASSUME NEW q \in Problems, NEW b
    PROVE  Occurrences(EqualityBlocks(q, TRUE), b) = Occurrences(EqualityBlocks(q, FALSE), b)
  <1> DEFINE a == CommonBlocks(q)  w == WholeBlocks(q)  s == PointwiseBlocks(q)
             c == MeshContinuity(q)
  <1>1. /\ EqualityBlocks(q, TRUE) = a \o w \o c /\ EqualityBlocks(q, FALSE) = a \o s \o c
        /\ w \in Seq(AllBlocks) /\ s \in Seq(AllBlocks) /\ c \in Seq(AllBlocks)
    <2>1. /\ EqualityBlocks(q, TRUE) = a \o ElementPart(q, TRUE) \o c
          /\ EqualityBlocks(q, FALSE) = a \o ElementPart(q, FALSE) \o c
          /\ c \in Seq(AllBlocks)
      BY EqualitiesAre DEF Residuals
    <2>2. ElementPart(q, TRUE) = w /\ ElementPart(q, FALSE) = s
      BY DEF ElementPart
    <2>3. w \in Seq(AllBlocks) /\ s \in Seq(AllBlocks)
      BY WholeCount, PointwiseCount DEF Residuals
    <2> QED
      BY <2>1, <2>2, <2>3
  <1>2. a \in Seq(AllBlocks)
    BY CommonBlocksCount DEF Residuals
  <1>3. Occurrences(w, b) = Occurrences(s, b)
    BY WholeHasBlocks, PointwiseHasBlocks, EachBlockOnce
  <1> HIDE DEF a, w, s, c
  <1>4. a \o w \in Seq(AllBlocks) /\ a \o s \in Seq(AllBlocks)
    BY <1>1, <1>2
  <1>5. /\ Occurrences(a \o w, b) = Occurrences(a, b) + Occurrences(w, b)
        /\ Occurrences(a \o s, b) = Occurrences(a, b) + Occurrences(s, b)
    BY <1>1, <1>2, OccurrencesOfTwo
  <1>6. /\ Occurrences((a \o w) \o c, b) = Occurrences(a \o w, b) + Occurrences(c, b)
        /\ Occurrences((a \o s) \o c, b) = Occurrences(a \o s, b) + Occurrences(c, b)
    BY <1>1, <1>4, OccurrencesOfTwo
  <1> QED
    BY <1>1, <1>3, <1>5, <1>6

\* Creating the constraints through checkpointed functions of whole elements
\* (_call_l1_functions) gives the constraints of the single points, each as
\* often, for every discretization.
THEOREM CheckpointsChangeNothing == Spec => []CheckpointSameConstraints
  <1>1. p \in Problems => CheckpointSameConstraints
    BY OccurrencesAgree DEF CheckpointSameConstraints
  <1> QED
    BY <1>1, ProblemIsKept, PTL

-----------------------------------------------------------------------------
(* The shifted vector stands for later times.                              *)

\* Blocking factors of one sample each, which MPC gives to all inputs when the
\* user gives none (mpc.py:396-405).  With others the next factor is not the
\* next sample.
OneSampleEach(q) ==
    \A b \in DOMAIN q.bf : \A f \in 1..Len(q.bf[b][2]) : q.bf[b][2][f] = q.nes
DefaultFactors == \A q \in Problems : q.nes > 0 => OneSampleEach(q)

\* Later, in any problem.
UpTo(q, i) == IF i <= q.ne THEN i ELSE q.ne
Ahead(q, i, c, k) ==
    IF i + k * q.nes <= q.ne THEN <<i + k * q.nes, c>> ELSE <<q.ne, q.ncp>>
LaterIn(q, e, k) ==
    IF k = 0 \/ e[1] = "p" THEN e
    ELSE IF e[3][2] = -1
    THEN Layout(q)[InputIndex(q, e[2], <<UpTo(q, e[3][1] + k * q.nes), 1>>)]
    ELSE IF e[3] = <<1, 0>> /\ e[1] # "x"
    THEN <<e[1], e[2], <<UpTo(q, k * q.nes), q.ncp>>>>
    ELSE <<e[1], e[2], Ahead(q, e[3][1], e[3][2], k)>>

LEMMA LaterIs == \A e, k : Later(e, k) = LaterIn(p, e, k)
  BY DEF Later, LaterIn, UpTo, Ahead

\* A sample and then more is one sample more.
AgreeAhead(q, i, c, k) ==
    /\ Ahead(q, i, c, 0) = <<i, c>>
    /\ i + q.nes <= q.ne => Ahead(q, i, c, 1) = <<i + q.nes, c>>
                            /\ Ahead(q, i + q.nes, c, k) = Ahead(q, i, c, k + 1)
    /\ q.ne < i + q.nes => Ahead(q, i, c, 1) = <<q.ne, q.ncp>>
                           /\ Ahead(q, q.ne, q.ncp, k) = Ahead(q, i, c, k + 1)
LEMMA AheadAgain ==
    ASSUME NEW q, q.ne \in Nat, q.nes \in Nat, NEW i \in 1..q.ne, NEW c, NEW k \in Nat
    PROVE  AgreeAhead(q, i, c, k)
  <1> DEFINE n == q.nes  e == q.ne  a == k * n
  <1>1. n \in Nat /\ e \in Nat /\ i \in 1..e /\ a \in Nat /\ 0 * n = 0 /\ 1 * n = n
    OBVIOUS
  <1>2. (k + 1) * n = a + n
    OBVIOUS
  <1> HIDE DEF a, n, e
  <1>3. Ahead(q, i, c, 0) = <<i, c>>
    BY <1>1 DEF Ahead, n, e
  <1>4. Ahead(q, i, c, 1) = IF i + n <= e THEN <<i + n, c>> ELSE <<e, q.ncp>>
    BY <1>1 DEF Ahead, n, e
  <1>5. \A j, d : Ahead(q, j, d, k) = IF j + a <= e THEN <<j + a, d>> ELSE <<e, q.ncp>>
    BY DEF Ahead, n, e, a
  <1>6. Ahead(q, i, c, k + 1) = IF i + (a + n) <= e THEN <<i + (a + n), c>> ELSE <<e, q.ncp>>
    BY <1>2 DEF Ahead, n, e
  <1>7. ASSUME i + n <= e PROVE Ahead(q, i + n, c, k) = Ahead(q, i, c, k + 1)
    <2>1. i + n + a = i + (a + n)
      BY <1>1
    <2> QED
      BY <1>5, <1>6, <2>1
  <1>8. ASSUME e < i + n PROVE Ahead(q, e, q.ncp, k) = Ahead(q, i, c, k + 1)
    <2>1. ~ (i + (a + n) <= e)
      BY <1>1, <1>8
    <2>2. Ahead(q, i, c, k + 1) = <<e, q.ncp>>
      BY <1>6, <2>1
    <2>3. e + a <= e => e + a = e
      BY <1>1
    <2>4. Ahead(q, e, q.ncp, k) = <<e, q.ncp>>
      BY <1>5, <2>3
    <2> QED
      BY <2>2, <2>4
  <1>9. ASSUME e < i + n PROVE ~ (i + n <= e)
    BY <1>1, <1>9
  <1> QED
    BY <1>3, <1>4, <1>7, <1>8, <1>9 DEF AgreeAhead, n, e

PointKinds == {"x", "dx", "w", "u"}
\* The entries at points in time, but for those that only the initial point has.
IsAtPoint(q, kind, i, c) ==
    kind \in PointKinds /\ i \in 1..q.ne /\ c \in Nat /\ (kind = "x" \/ c # 0)

LEMMA LaterAtPoint ==
    ASSUME NEW q, q.ne \in Nat, q.nes \in Nat, NEW kind, NEW v, NEW i, NEW c,
           IsAtPoint(q, kind, i, c), NEW k \in Nat
    PROVE  LaterIn(q, <<kind, v, <<i, c>>>>, k) = <<kind, v, Ahead(q, i, c, k)>>
  <1>1. kind \in PointKinds /\ i \in 1..q.ne /\ c \in Nat /\ (kind = "x" \/ c # 0)
    BY DEF IsAtPoint
  <1>2. kind # "p" /\ c # -1 /\ ~ (<<i, c>> = <<1, 0>> /\ kind # "x")
    BY <1>1 DEF PointKinds
  <1>3. CASE k = 0
    <2>1. Ahead(q, i, c, 0) = <<i, c>>
      BY <1>1, AheadAgain DEF AgreeAhead
    <2> QED
      BY <1>3, <2>1 DEF LaterIn
  <1>4. CASE k # 0
    BY <1>2, <1>4 DEF LaterIn
  <1> QED
    BY <1>3, <1>4

\* s holds what is planned for k samples later.
IsPlan(q, s, k) == \A n \in 1..Len(Layout(q)) : s[n] = LaterIn(q, Layout(q)[n], k)
GoesOn(q, y, n, k) == y[n] = LaterIn(q, Layout(q)[n], k + 1)

\* An entry moved from the same variable a sample later.
LEMMA PointGoesOn ==
    ASSUME NEW q \in Problems, NEW kind, NEW v, NEW i, NEW c, IsAtPoint(q, kind, i, c),
           NEW k \in Nat, NEW s, IsPlan(q, s, k), NEW y, NEW n, NEW m, y[n] = s[m],
           EntryIs(q, n, <<kind, v, <<i, c>>>>),
           EntryIs(q, m, <<kind, v, Ahead(q, i, c, 1)>>)
    PROVE  GoesOn(q, y, n, k)
  <1>1. /\ q.ne \in Nat \ {0} /\ q.nes \in Nat /\ q.ncp \in Nat \ {0}
        /\ i \in 1..q.ne /\ c \in Nat /\ k + 1 \in Nat
    <2>1. q.ne \in Nat \ {0} /\ q.nes \in Nat /\ q.ncp \in Nat \ {0}
      BY ProblemsAssumption
    <2>2. i \in 1..q.ne /\ c \in Nat
      BY DEF IsAtPoint
    <2> QED
      BY <2>1, <2>2
  <1>2. AgreeAhead(q, i, c, k)
    BY <1>1, AheadAgain
  <1>3. PICK j, d : /\ Ahead(q, i, c, 1) = <<j, d>> /\ IsAtPoint(q, kind, j, d)
                    /\ Ahead(q, j, d, k) = Ahead(q, i, c, k + 1)
    <2>1. CASE i + q.nes <= q.ne
      <3>1. i + q.nes \in 1..q.ne
        BY <1>1, <2>1
      <3>2. IsAtPoint(q, kind, i + q.nes, c)
        BY <3>1 DEF IsAtPoint
      <3> QED
        BY <1>2, <2>1, <3>2 DEF AgreeAhead
    <2>2. CASE q.ne < i + q.nes
      <3>1. IsAtPoint(q, kind, q.ne, q.ncp)
        BY <1>1 DEF IsAtPoint
      <3> QED
        BY <1>2, <2>2, <3>1 DEF AgreeAhead
    <2>3. i + q.nes <= q.ne \/ q.ne < i + q.nes
      BY <1>1
    <2> QED
      BY <2>1, <2>2, <2>3
  <1>4. y[n] = LaterIn(q, <<kind, v, <<j, d>>>>, k)
    BY <1>3 DEF IsPlan, EntryIs
  <1>5. y[n] = <<kind, v, Ahead(q, i, c, k + 1)>>
    BY <1>1, <1>3, <1>4, LaterAtPoint
  <1>6. LaterIn(q, <<kind, v, <<i, c>>>>, k + 1) = <<kind, v, Ahead(q, i, c, k + 1)>>
    BY <1>1, LaterAtPoint
  <1> QED
    BY <1>5, <1>6 DEF GoesOn, EntryIs

LEMMA Regroup ==
    ASSUME NEW j, NEW o \in Int, NEW a \in Int, NEW b \in Int, NEW d \in Int,
           j = b + a, o = b + d
    PROVE  j + d = o + a
  OBVIOUS

HasPlace(e, w, j) == \E i \in 1..e, a \in 1..w : j = (i - 1) * w + a
LEMMA PlacesOfPoints ==
    ASSUME NEW e \in Nat, NEW w \in Nat \ {0}, NEW m, m = e * w
    PROVE  \A j \in 1..m : HasPlace(e, w, j)
  BY PlaceOfPoint DEF HasPlace

\* The place of a point within its element.
LEMMA PlaceWithin ==
    ASSUME NEW first \in 0..1, NEW n \in Nat \ {0}, NEW w, w = n + 1 - first,
           NEW a \in 1..w
    PROVE  /\ a - 1 + first \in Nat /\ a - 1 + first \in first..n /\ a \in Int
           /\ (a - 1 + first) - first + 1 = a
  <1>1. first = 0 \/ first = 1
    OBVIOUS
  <1>2. CASE first = 0
    BY <1>2
  <1>3. CASE first = 1
    BY <1>3
  <1> QED
    BY <1>1, <1>2, <1>3

\* Where a point a sample later is among the points of all elements.
IsAhead(q, pts, first, w, i, a, j) ==
    LET l == Later1(j, q.ne * w, q.nes * w)
    IN  l \in 1..(q.ne * w) /\ pts[l] = Ahead(q, i, a - 1 + first, 1)
LEMMA PlaceAhead ==
    ASSUME NEW q \in Problems, q.nes > 0, q.nes <= q.ne, NEW first \in 0..1, NEW w,
           w = q.ncp + 1 - first,
           NEW pts, ArePoints(pts, q.ne, first, q.ncp, w),
           NEW i \in 1..q.ne, NEW a \in 1..w, NEW j, j = (i - 1) * w + a
    PROVE  IsAhead(q, pts, first, w, i, a, j)
  <1> DEFINE m == q.ne * w  b == (i - 1) * w  p1 == q.nes * w  c == a - 1 + first
  <1>1. /\ q.ne \in Nat \ {0} /\ q.nes \in Nat /\ q.ncp \in Nat \ {0} /\ w \in Nat \ {0}
        /\ c \in first..q.ncp /\ c - first + 1 = a
    <2>1. q.ne \in Nat \ {0} /\ q.nes \in Nat /\ q.ncp \in Nat \ {0}
      BY ProblemsAssumption
    <2>2. first = 0 \/ first = 1
      OBVIOUS
    <2>3. w \in Nat \ {0}
      BY <2>1, <2>2
    <2>4. c \in first..q.ncp /\ c - first + 1 = a
      BY <2>1, <2>2, <2>3
    <2> QED
      BY <2>1, <2>3, <2>4
  <1>2. m \in Nat /\ b \in Int /\ p1 \in Nat /\ j = b + a
    BY <1>1
  <1>3. \A h \in 1..q.ne : \A d \in first..q.ncp :
            pts[(h - 1) * w + (d - first) + 1] = <<h, d>>
    BY DEF ArePoints
  <1>4. AgreeAhead(q, i, c, 0)
    BY <1>1, AheadAgain
  <1>5. CASE i + q.nes <= q.ne
    <2> DEFINE h == i + q.nes
    <2>1. h \in 1..q.ne /\ h - 1 = (i - 1) + q.nes
      BY <1>1, <1>5
    <2>2. (h - 1) * w = b + p1
      BY <1>1, <2>1
    <2> HIDE DEF h
    <2>3. (h - 1) * w + a \in 1..m
      BY <1>1, <2>1, OffsetInside
    <2> HIDE DEF m, b, p1, c
    <2>4. (h - 1) * w + (c - first) + 1 = (h - 1) * w + a /\ j + p1 = (h - 1) * w + a
      <3> DEFINE o == (h - 1) * w
      <3>1. o = b + p1 /\ o \in Int
        BY <1>2, <2>2
      <3> HIDE DEF o
      <3>2. o + (c - first) + 1 = o + a
        BY <1>1, <3>1
      <3>3. j + p1 = o + a
        <4>1. p1 \in Int /\ a \in Int
          BY <1>1, <1>2
        <4> QED
          BY <1>2, <3>1, <4>1, Regroup
      <3> QED
        BY <3>2, <3>3 DEF o
    <2>5. Later1(j, m, p1) = (h - 1) * w + a
      BY <1>2, <2>3, <2>4 DEF Later1
    <2>6. pts[(h - 1) * w + a] = <<h, c>>
      BY <1>1, <1>3, <2>1, <2>4
    <2> QED
      BY <1>4, <1>5, <2>3, <2>5, <2>6 DEF IsAhead, AgreeAhead, h, m, p1, c
  <1>6. CASE q.ne < i + q.nes
    <2> DEFINE e1 == (q.ne - 1) * w
    <2>1. e1 \in Int /\ m = e1 + w
      BY <1>1
    <2>2. PICK d \in Nat : i - 1 + q.nes = q.ne + d
      <3>1. i - 1 + q.nes - q.ne \in Nat /\ i - 1 + q.nes = q.ne + (i - 1 + q.nes - q.ne)
        BY <1>1, <1>6
      <3> QED
        BY <3>1
    <2>3. (i - 1 + q.nes) * w = b + p1 /\ (q.ne + d) * w = m + d * w /\ d * w \in Nat
      BY <1>1
    <2>4. b + p1 = m + d * w
      BY <2>2, <2>3
    <2>5. pts[(q.ne - 1) * w + (q.ncp - first) + 1] = <<q.ne, q.ncp>>
      <3>1. q.ne \in 1..q.ne /\ q.ncp \in first..q.ncp
        BY <1>1
      <3> QED
        BY <1>3, <3>1
    <2> DEFINE f == d * w
    <2> HIDE DEF e1, m, b, p1, c, f
    <2>6. ~ (j + p1 <= m)
      BY <1>1, <1>2, <2>3, <2>4 DEF f
    <2>7. Later1(j, m, p1) = m
      BY <2>6 DEF Later1
    <2>8. e1 + (q.ncp - first) + 1 = m
      BY <1>1, <2>1
    <2>9. pts[m] = <<q.ne, q.ncp>>
      BY <2>5, <2>8 DEF e1
    <2>10. m \in 1..m
      <3>1. 1 <= w /\ w \in Nat /\ e1 \in Nat
        <4>1. q.ne - 1 \in Nat
          BY <1>1
        <4> QED
          BY <1>1, <4>1 DEF e1
      <3> QED
        BY <2>1, <3>1
    <2> QED
      BY <1>4, <1>6, <2>7, <2>9, <2>10 DEF IsAhead, AgreeAhead, m, p1, c
  <1>7. i + q.nes <= q.ne \/ q.ne < i + q.nes
    BY <1>1
  <1> QED
    BY <1>5, <1>6, <1>7

\* The entries of variables vs at points pts, from start.
HasGrid(q, start, kind, vs, pts) ==
    \A j \in 1..Len(pts) : \A r \in 1..Len(vs) :
        EntryIs(q, start + ((j - 1) * Len(vs) + r), <<kind, vs[r], pts[j]>>)

\* A group of variables: every entry moves on to the point a sample later.
LEMMA GroupGoesOn ==
    ASSUME NEW q \in Problems, q.nes > 0, q.nes <= q.ne, NEW first \in 0..1, NEW w,
           w = q.ncp + 1 - first,
           NEW pts, ArePoints(pts, q.ne, first, q.ncp, w),
           NEW kind \in PointKinds, kind = "x" \/ first = 1, NEW vs, Len(vs) \in Nat,
           NEW start \in Nat, HasGrid(q, start, kind, vs, pts),
           NEW points, points = q.nes * w, NEW k \in Nat, NEW s, IsPlan(q, s, k),
           NEW y, GroupMoves(y, s, start, Len(vs), q.ne * w, points)
    PROVE  \A r \in 1..(q.ne * w * Len(vs)) : GoesOn(q, y, start + r, k)
  <1> DEFINE m == q.ne * w  n == Len(vs)
  <1>1. /\ q.ne \in Nat \ {0} /\ q.ncp \in Nat \ {0} /\ w \in Nat \ {0} /\ m \in Nat
        /\ n \in Nat
    <2>1. q.ne \in Nat \ {0} /\ q.ncp \in Nat \ {0}
      BY ProblemsAssumption
    <2>2. first = 0 \/ first = 1
      OBVIOUS
    <2>3. w \in Nat \ {0}
      BY <2>1, <2>2
    <2> QED
      BY <2>1, <2>3
  <1>2. Len(pts) = m
    BY DEF ArePoints
  <1>3. ASSUME NEW j \in 1..m, NEW r \in 1..n
        PROVE  GoesOn(q, y, start + ((j - 1) * n + r), k)
    <2>1. PICK i \in 1..q.ne, a \in 1..w : j = (i - 1) * w + a
      <3>1. q.ne \in Nat /\ m = q.ne * w /\ w \in Nat \ {0}
        BY <1>1
      <3> HIDE DEF m
      <3>2. HasPlace(q.ne, w, j)
        BY <3>1, PlacesOfPoints
      <3> QED
        BY <3>2, Zenon DEF HasPlace
    <2> DEFINE c == a - 1 + first  l == Later1(j, m, points)
    <2>2. c \in Nat /\ c \in first..q.ncp /\ (i - 1) * w + (c - first) + 1 = j
      <3> DEFINE o == (i - 1) * w
      <3>1. o \in Int
        BY <1>1
      <3>2. c \in Nat /\ c \in first..q.ncp /\ c - first + 1 = a /\ a \in Int /\ first \in Int
        BY <1>1, PlaceWithin
      <3> HIDE DEF o, c
      <3>3. o + (c - first) + 1 = o + (c - first + 1)
        BY <3>1, <3>2
      <3> QED
        BY <2>1, <3>2, <3>3 DEF o
    <2>3. pts[j] = <<i, c>>
      BY <2>2 DEF ArePoints
    <2>4. l \in 1..m /\ pts[l] = Ahead(q, i, c, 1)
      <3>1. Later1(j, m, points) = Later1(j, q.ne * w, q.nes * w)
        OBVIOUS
      <3>2. q.nes > 0 /\ q.nes <= q.ne /\ w = q.ncp + 1 - first
            /\ ArePoints(pts, q.ne, first, q.ncp, w)
        OBVIOUS
      <3>3. IsAhead(q, pts, first, w, i, a, j)
        <4> HIDE DEF m
        <4> QED
          BY <2>1, <3>2, PlaceAhead
      <3> QED
        BY <3>1, <3>3 DEF IsAhead
    <2>5. IsAtPoint(q, kind, i, c)
      BY <2>2 DEF IsAtPoint
    <2> HIDE DEF c, l, m, n
    <2>6. EntryIs(q, start + ((j - 1) * n + r), <<kind, vs[r], <<i, c>>>>)
      BY <1>2, <2>3 DEF HasGrid, n
    <2>7. EntryIs(q, start + ((l - 1) * n + r), <<kind, vs[r], Ahead(q, i, c, 1)>>)
      BY <1>2, <2>4 DEF HasGrid, n
    <2>8. y[start + ((j - 1) * n + r)] = s[start + ((l - 1) * n + r)]
      <3>1. y[start + (j - 1) * n + r] = s[start + (l - 1) * n + r]
        BY DEF GroupMoves, l, m, n
      <3>2. (j - 1) * n \in Int /\ (l - 1) * n \in Int
        BY <1>1, <2>4
      <3>3. start + (j - 1) * n + r = start + ((j - 1) * n + r)
            /\ start + (l - 1) * n + r = start + ((l - 1) * n + r)
        BY <3>2
      <3> QED
        BY <3>1, <3>3
    <2> QED
      BY <2>5, <2>6, <2>7, <2>8, PointGoesOn
  <1>4. CASE n = 0
    <2>1. m * n = 0
      BY <1>1, <1>4
    <2> QED
      BY <2>1
  <1>5. CASE n # 0
    <2> SUFFICES ASSUME NEW r \in 1..(m * n) PROVE GoesOn(q, y, start + r, k)
      OBVIOUS
    <2>1. n \in Nat \ {0}
      BY <1>1, <1>5
    <2> HIDE DEF m, n
    <2>2. PICK j \in 1..m, a \in 1..n : r = (j - 1) * n + a
      <3>1. m \in Nat
        BY <1>1
      <3> QED
        BY <2>1, <3>1, PlaceOfPoint
    <2> QED
      BY <1>3, <2>2
  <1> QED
    BY <1>4, <1>5

\* The variables at the initial point take the values at the end of a sample.
LEMMA EndGoesOn ==
    ASSUME NEW q \in Problems, q.nes > 0, q.nes <= q.ne,
           NEW kind \in PointKinds \ {"x"}, NEW vs, Len(vs) \in Nat,
           NEW start, NEW from \in Nat,
           \A r \in 1..Len(vs) : EntryIs(q, start + r, <<kind, vs[r], <<1, 0>>>>),
           HasGrid(q, from, kind, vs, InnerPoints(q)),
           NEW k \in Nat, NEW s, IsPlan(q, s, k),
           NEW y, EndMoves(y, s, start, Len(vs), from, q.ncp * q.nes),
           NEW r \in 1..Len(vs)
    PROVE  GoesOn(q, y, start + r, k)
  <1> DEFINE l == q.ncp * q.nes  n == Len(vs)  v == vs[r]
  <1>1. q.ne \in Nat \ {0} /\ q.ncp \in Nat \ {0} /\ q.nes \in Nat \ {0} /\ q.nes \in 1..q.ne
    <2>1. q.ne \in Nat \ {0} /\ q.ncp \in Nat \ {0} /\ q.nes \in Nat
      BY ProblemsAssumption
    <2> QED
      BY <2>1
  <1>2. l = (q.nes - 1) * q.ncp + q.ncp
    BY <1>1
  <1>3. l \in 1..Len(InnerPoints(q)) /\ InnerPoints(q)[l] = <<q.nes, q.ncp>>
    <2>1. q.ncp \in 1..q.ncp
      BY <1>1
    <2> HIDE DEF l
    <2> QED
      BY <1>1, <1>2, <2>1, InnerPointsAre
  <1> HIDE DEF l, n
  <1>4. EntryIs(q, from + ((l - 1) * n + r), <<kind, v, <<q.nes, q.ncp>>>>)
    BY <1>3 DEF HasGrid, n
  <1>5. y[start + r] = s[from + ((l - 1) * n + r)]
    <2>1. y[start + r] = s[from + (l - 1) * n + r]
      BY DEF EndMoves, l, n
    <2>2. (l - 1) * n \in Int
      <3>1. l \in Int /\ n \in Int
        BY <1>1 DEF l, n
      <3> QED
        BY <3>1
    <2>3. from + (l - 1) * n + r = from + ((l - 1) * n + r)
      BY <2>2
    <2> QED
      BY <2>1, <2>3
  <1>6. IsAtPoint(q, kind, q.nes, q.ncp)
    BY <1>1 DEF IsAtPoint
  <1>7. y[start + r] = <<kind, v, Ahead(q, q.nes, q.ncp, k)>>
    <2>1. y[start + r] = LaterIn(q, <<kind, v, <<q.nes, q.ncp>>>>, k)
      BY <1>4, <1>5 DEF IsPlan, EntryIs
    <2> QED
      BY <1>1, <1>6, <2>1, LaterAtPoint
  <1>8. Ahead(q, q.nes, q.ncp, k) = <<UpTo(q, (k + 1) * q.nes), q.ncp>>
    <2>1. q.nes + k * q.nes = (k + 1) * q.nes
      BY <1>1
    <2> QED
      BY <2>1 DEF Ahead, UpTo
  <1>9. LaterIn(q, <<kind, v, <<1, 0>>>>, k + 1)
        = <<kind, v, <<UpTo(q, (k + 1) * q.nes), q.ncp>>>>
    <2>1. k + 1 # 0 /\ kind # "p" /\ kind # "x" /\ 0 # -1
      BY DEF PointKinds
    <2> QED
      BY <2>1 DEF LaterIn
  <1> QED
    BY <1>7, <1>8, <1>9 DEF GoesOn, EntryIs

\* As many inputs have blocking factors as lists of factors are given.
LEMMA BlockedCountIs ==
    ASSUME NEW q \in Problems, q.blocked = TRUE
    PROVE  BlockedCount(q) = Len(q.bf)
  <1> DEFINE N == 1..q.nu  K == Keys(q)  F == {w \in 1..q.nu : w \in FreeInputs(q)}
  <1>1. q.nu \in Nat /\ Len(q.bf) \in Nat
    BY ProblemNumbers, KeysAre
  <1>2. K \subseteq N /\ Cardinality(K) = Len(q.bf) /\ \A v : Blocked(q, v) <=> v \in K
    BY KeysAre
  <1>3. F = N \ K
    BY <1>2 DEF FreeInputs
  <1>4. Len(Free(q)) = Cardinality(F)
    <2>1. Lists(Free(q), FreeInputs(q), q.nu)
      BY <1>1, FreeIs
    <2> QED
      BY <2>1 DEF Lists, Rank
  <1>5. IsFiniteSet(N)
    <2>1. 1 \in Int /\ q.nu \in Int
      BY <1>1
    <2> QED
      BY <2>1, FS_Interval
  <1>6. Cardinality(N) = q.nu
    <2>1. 1 \in Int /\ q.nu \in Int
      BY <1>1
    <2>2. Cardinality(N) = IF 1 > q.nu THEN 0 ELSE q.nu - 1 + 1
      BY <2>1, FS_Interval
    <2> HIDE DEF N
    <2> QED
      BY <1>1, <2>2
  <1> HIDE DEF N, K, F
  <1>7. Cardinality(N \ K) = Cardinality(N) - Cardinality(N \cap K)
    BY <1>5, FS_Difference
  <1>8. N \cap K = K
    BY <1>2
  <1>9. Len(Free(q)) = q.nu - Len(q.bf)
    BY <1>2, <1>3, <1>4, <1>6, <1>7, <1>8
  <1> DEFINE a == q.nu  b == Len(q.bf)  c == Len(Free(q))
  <1>10. a \in Int /\ b \in Int /\ c = a - b /\ BlockedCount(q) = a - c
    BY <1>1, <1>9 DEF BlockedCount
  <1>11. \A x, z \in Int : x - (x - z) = z
    OBVIOUS
  <1> HIDE DEF a, b, c
  <1>12. BlockedCount(q) = b
    BY <1>10, <1>11
  <1> QED
    BY <1>12 DEF b

\* With one list of factors at most.
LEMMA OneBlocked ==
    ASSUME NEW q \in Problems, q.nes > 0, Len(q.bf) <= 1
    PROVE  /\ Shiftable(q)
           /\ \A b \in DOMAIN q.bf : b = 1 /\ BlockedCount(q) = 1
  <1>1. BlockedCount(q) = Len(q.bf) /\ Len(q.bf) \in Nat /\ DOMAIN q.bf = 1..Len(q.bf)
    BY SampleNumbers, BlockedCountIs, KeysAre
  <1>2. PICK k : FactorsBegin(q, k)
    BY FactorsBeginSomewhere
  <1>3. ASSUME NEW b \in DOMAIN q.bf PROVE b = 1 /\ BlockedCount(q) = 1
    <2> DEFINE l == Len(q.bf)
    <2>1. l \in Nat /\ l <= 1 /\ b \in 1..l
      BY <1>1
    <2> HIDE DEF l
    <2>2. b = 1 /\ l = 1
      BY <2>1
    <2> QED
      BY <1>1, <2>2 DEF l
  <1>4. ASSUME NEW b \in DOMAIN q.bf PROVE BlockedCount(q) <= Len(q.bf[b][2])
    <2>1. Len(q.bf[b][2]) \in Nat \ {0}
      BY <1>2 DEF FactorsBegin
    <2>2. 1 <= Len(q.bf[b][2])
      BY <2>1
    <2> QED
      BY <1>3, <2>2
  <1> QED
    BY <1>3, <1>4 DEF Shiftable

\* Factors of one sample each begin with the samples.
AreSamples(q, fs) ==
    /\ Len(fs) \in Nat \ {0} /\ Len(fs) * q.nes = q.ne
    /\ \A f \in 1..Len(fs) : FirstElement(fs, f) = 1 + (f - 1) * q.nes /\ fs[f] = q.nes
LEMMA FactorsAreSamples ==
    ASSUME NEW q \in Problems, q.nes > 0, OneSampleEach(q), NEW b \in DOMAIN q.bf
    PROVE  AreSamples(q, q.bf[b][2])
  <1> DEFINE fs == q.bf[b][2]
  <1>1. q.nes \in Nat /\ q.nes \in Int /\ Total(fs) = q.ne
    <2>1. q.nes \in Nat
      BY ProblemsAssumption
    <2>2. Total(fs) = q.ne
      BY FactorsCover
    <2> QED
      BY <2>1, <2>2
  <1>2. fs \in Seq(Int) /\ \A f \in 1..Len(fs) : fs[f] = q.nes
    BY FactorsAre DEF OneSampleEach
  <1>3. Len(fs) \in Nat \ {0}
    BY FactorsCoverElements DEF Covered
  <1> HIDE DEF fs
  <1>4. Total(fs) = Len(fs) * q.nes
    BY <1>1, <1>2, <1>3, TotalOfSame
  <1>5. ASSUME NEW f \in 1..Len(fs) PROVE FirstElement(fs, f) = 1 + (f - 1) * q.nes
    <2> DEFINE t == SubSeq(fs, 1, f - 1)
    <2>1. Len(t) = f - 1 /\ Len(t) \in Nat /\ \A j \in 1..Len(t) : t[j] = q.nes
      BY <1>2, <1>3
    <2>2. FirstElement(fs, f) = 1 + Total(t)
      BY DEF FirstElement
    <2> HIDE DEF t
    <2>3. Total(t) = Len(t) * q.nes
      BY <1>1, <2>1, TotalOfSame
    <2> QED
      BY <2>1, <2>2, <2>3
  <1> QED
    BY <1>1, <1>2, <1>3, <1>4, <1>5 DEF AreSamples, fs

LEMMA SplitProduct ==
    ASSUME NEW x \in Nat, NEW z \in Nat, NEW u \in Nat
    PROVE  /\ (x + z) * u = (x - 1) * u + u + z * u
           /\ (x - 1) * u + z * u = (x - 1 + z) * u
           /\ (x + z) * u = x * u + z * u
           /\ z * u \in Nat
  <1>1. (x + z) * u = x * u + z * u /\ z * u \in Nat
    OBVIOUS
  <1>2. (x - 1) * u + u = x * u
    OBVIOUS
  <1>3. (x - 1) * u + z * u = (x - 1 + z) * u
    OBVIOUS
  <1> QED
    BY <1>1, <1>2, <1>3

\* Which factor is k samples after factor f.
FactorLater(fs, f, k) == IF f + k <= Len(fs) THEN f + k ELSE Len(fs)
LEMMA CoverLater ==
    ASSUME NEW q \in Problems, q.nes > 0, OneSampleEach(q), NEW b \in DOMAIN q.bf,
           NEW f \in 1..Len(q.bf[b][2]), NEW k \in Nat
    PROVE  LET fs == q.bf[b][2]
               i  == UpTo(q, FirstElement(fs, f) + k * q.nes)
           IN  i \in 1..q.ne /\ CoverOf(fs, i) = FactorLater(fs, f, k)
  <1> DEFINE fs == q.bf[b][2]  l == Len(fs)  n == q.nes  g == FactorLater(fs, f, k)
             i == UpTo(q, FirstElement(fs, f) + k * n)  a == (f - 1) * n  d == k * n
  <1>1. /\ l \in Nat \ {0} /\ l * n = q.ne /\ n \in Nat \ {0} /\ q.ne \in Nat \ {0}
        /\ \A h \in 1..l : FirstElement(fs, h) = 1 + (h - 1) * n /\ fs[h] = n
    <2>1. n \in Nat \ {0} /\ q.ne \in Nat \ {0}
      BY SampleNumbers
    <2>2. AreSamples(q, fs)
      BY FactorsAreSamples
    <2> QED
      BY <2>1, <2>2 DEF AreSamples
  <1>2. a \in Nat /\ d \in Nat /\ FirstElement(fs, f) = 1 + a
    <2>1. f - 1 \in Nat
      BY <1>1
    <2> QED
      BY <1>1, <2>1
  <1>3. PICK c : Covered(fs, c) /\ c[l] = q.ne
    BY FactorsCoverElements
  <1>4. g \in 1..l /\ i \in 1..q.ne /\ Covers(fs, g, i)
    <2>1. CASE f + k <= l
      <3>1. g = f + k /\ g \in 1..l
        BY <1>1, <2>1 DEF FactorLater
      <3>2. (g - 1) * n = a + d
        <4>1. g - 1 = (f - 1) + k
          BY <1>1, <3>1
        <4> QED
          BY <1>1, <4>1
      <3>3. PICK o \in Nat : l = g + o
        <4>1. l \in Nat /\ g \in 1..l
          BY <1>1, <3>1
        <4>2. \A x \in Nat : \A z \in 1..x : x - z \in Nat /\ x = z + (x - z)
          OBVIOUS
        <4> HIDE DEF l, g
        <4>3. l - g \in Nat /\ l = g + (l - g)
          BY <4>1, <4>2
        <4> QED
          BY <4>3
      <3>4. l * n = (g - 1) * n + n + o * n /\ o * n \in Nat
        <4>1. g \in Nat /\ n \in Nat /\ o \in Nat /\ l = g + o
          BY <1>1, <3>1, <3>3
        <4>2. \A x, z, u \in Nat : (x + z) * u = (x - 1) * u + u + z * u /\ z * u \in Nat
          BY SplitProduct
        <4> HIDE DEF l, g, n
        <4> QED
          BY <4>1, <4>2
      <3> DEFINE oo == o * n
      <3>5. 1 + a + d <= q.ne
        <4> HIDE DEF a, d, oo, g, n, l
        <4> QED
          BY <1>1, <1>2, <3>2, <3>4 DEF oo
      <3>6. i = 1 + a + d
        BY <1>2, <3>5 DEF UpTo
      <3>7. FirstElement(fs, g) = 1 + (a + d) /\ fs[g] = n
        BY <1>1, <3>1, <3>2
      <3> HIDE DEF a, d, i, g, n, fs
      <3> QED
        BY <1>1, <1>2, <3>1, <3>5, <3>6, <3>7 DEF Covers
    <2>2. CASE ~ (f + k <= l)
      <3>1. g = l /\ g \in 1..l
        BY <1>1, <2>2 DEF FactorLater
      <3>2. PICK o \in Nat : f - 1 + k = l + o
        <4>1. f - 1 + k - l \in Nat /\ f - 1 + k = l + (f - 1 + k - l)
          <5> HIDE DEF l
          <5> QED
            BY <1>1, <2>2 DEF l
        <4> QED
          BY <4>1
      <3>3. a + d = (f - 1 + k) * n /\ (l + o) * n = l * n + o * n /\ o * n \in Nat
        <4>1. f \in Nat /\ n \in Nat /\ l \in Nat
          BY <1>1
        <4>2. \A x, z, u \in Nat : (x - 1) * u + z * u = (x - 1 + z) * u
          BY SplitProduct
        <4>3. \A x, z, u \in Nat : (x + z) * u = x * u + z * u /\ z * u \in Nat
          BY SplitProduct
        <4> HIDE DEF l, n
        <4>4. (f - 1) * n + k * n = (f - 1 + k) * n
          BY <4>1, <4>2
        <4>5. (l + o) * n = l * n + o * n /\ o * n \in Nat
          BY <4>1, <4>3
        <4> QED
          BY <4>4, <4>5
      <3> DEFINE oo == o * n
      <3>4. a + d = q.ne + oo /\ oo \in Nat
        BY <1>1, <3>2, <3>3
      <3> HIDE DEF oo
      <3>5. i = q.ne
        <4>1. ~ (1 + a + d <= q.ne)
          <5> HIDE DEF a, d
          <5> QED
            BY <1>1, <1>2, <3>4
        <4> QED
          BY <1>2, <4>1 DEF UpTo
      <3>6. (l - 1) * n + n = l * n /\ (l - 1) * n \in Int
        BY <1>1
      <3>7. FirstElement(fs, g) = 1 + (l - 1) * n /\ fs[g] = n
        BY <1>1, <3>1
      <3> DEFINE h == (l - 1) * n
      <3> HIDE DEF a, d, i, g, n, fs, h, l
      <3>8. FirstElement(fs, g) = 1 + h /\ h + n = q.ne /\ h \in Int
        BY <1>1, <3>6, <3>7 DEF h
      <3> QED
        BY <1>1, <3>1, <3>5, <3>7, <3>8 DEF Covers
    <2> QED
      BY <2>1, <2>2
  <1> HIDE DEF fs, i, g
  <1>5. g = CoverOf(fs, i)
    BY <1>3, <1>4, CoveredOnce
  <1> QED
    BY <1>4, <1>5 DEF fs, i, g

FactorName(q, b, f) == <<"u", q.bf[b][1], <<FirstElement(q.bf[b][2], f), -1>>>>
LEMMA FactorIsLater ==
    ASSUME NEW q \in Problems, q.nes > 0, OneSampleEach(q), Len(q.bf) <= 1,
           NEW b \in DOMAIN q.bf, NEW f \in 1..Len(q.bf[b][2]), NEW k \in Nat
    PROVE  LaterIn(q, FactorName(q, b, f), k)
           = FactorName(q, b, FactorLater(q.bf[b][2], f, k))
  <1> DEFINE fs == q.bf[b][2]  v == q.bf[b][1]  i == UpTo(q, FirstElement(fs, f) + k * q.nes)
             e == FactorName(q, b, f)
  <1>1. CASE k = 0
    <2>1. FactorLater(fs, f, 0) = f
      <3>1. Len(fs) \in Nat
        BY FactorsAre
      <3> QED
        BY <3>1 DEF FactorLater
    <2> QED
      BY <1>1, <2>1 DEF LaterIn
  <1>2. CASE k # 0
    <2>1. e[1] = "u" /\ e[2] = v /\ e[3][1] = FirstElement(fs, f) /\ e[3][2] = -1
      BY DEF FactorName
    <2>2. LaterIn(q, e, k) = Layout(q)[InputIndex(q, v, <<i, 1>>)]
      <3> HIDE DEF e
      <3> QED
        BY <1>2, <2>1 DEF LaterIn
    <2>3. i \in 1..q.ne /\ CoverOf(fs, i) = FactorLater(fs, f, k)
      BY CoverLater
    <2>4. v \in 1..q.nu /\ Blocked(q, v) /\ q.blocked = TRUE
      BY FactorsAre, SampleNumbers DEF Blocked
    <2> HIDE DEF i, v, fs, e
    <2>5. /\ BlockedRank(q, v) \in DOMAIN q.bf
          /\ EntryIs(q, VarIndex(q, "u", v, <<i, 1>>),
                     FactorName(q, BlockedRank(q, v), CoverOf(q.bf[BlockedRank(q, v)][2], i)))
      BY <2>3, <2>4, BlockedInputEntry DEF FactorName
    <2>6. BlockedRank(q, v) = b
      <3>1. BlockedRank(q, v) = 1 /\ b = 1
        BY <2>5, OneBlocked
      <3> QED
        BY <3>1
    <2>7. EntryIs(q, InputIndex(q, v, <<i, 1>>), FactorName(q, b, CoverOf(fs, i)))
      BY <2>5, <2>6 DEF VarIndex, fs
    <2> QED
      BY <2>2, <2>3, <2>7 DEF EntryIs, e, fs
  <1> QED
    BY <1>1, <1>2

\* The inputs with blocking factors: each factor moves on to the next.
LEMMA FactorsGoOn ==
    ASSUME NEW q \in Problems, q.nes > 0, OneSampleEach(q), Len(q.bf) <= 1,
           NEW k, FactorsBegin(q, k), NEW n \in Nat, NEW s, IsPlan(q, s, n),
           NEW y, BlockedMoves(y, q, s, k)
    PROVE  \A r \in 1..FactorCount(q) : GoesOn(q, y, EndCont(q) + r, n)
  <1>1. q.blocked = TRUE
    BY SampleNumbers
  <1>2. ASSUME NEW b \in DOMAIN q.bf, NEW f \in 1..Len(q.bf[b][2])
        PROVE  GoesOn(q, y, EndCont(q) + k[b - 1] + f, n)
    <2> DEFINE fs == q.bf[b][2]  h == NextFactor(q, b, f)  at(g) == EndCont(q) + k[b - 1] + g
    <2>1. BlockedCount(q) = 1 /\ Len(fs) \in Nat
      BY OneBlocked, FactorsAre
    <2>2. h \in 1..Len(fs) /\ FactorLater(fs, h, n) = FactorLater(fs, f, n + 1)
      <3> DEFINE l == Len(fs)
      <3>1. h = IF f + 1 <= l THEN f + 1 ELSE f
        BY <2>1 DEF NextFactor
      <3>2. l \in Nat /\ f \in 1..l
        BY <2>1
      <3>3. \A g : FactorLater(fs, g, n) = IF g + n <= l THEN g + n ELSE l
        BY DEF FactorLater
      <3>4. FactorLater(fs, f, n + 1) = IF f + (n + 1) <= l THEN f + (n + 1) ELSE l
        BY DEF FactorLater
      <3> HIDE DEF l, h
      <3> QED
        BY <3>1, <3>2, <3>3, <3>4 DEF l
    <2>3. y[at(f)] = s[at(h)]
      BY DEF BlockedMoves
    <2>4. \A g \in 1..Len(fs) : EntryIs(q, at(g), FactorName(q, b, g))
      BY <1>1, FactorSlot DEF FactorName
    <2> HIDE DEF at, h, fs
    <2>5. y[at(f)] = LaterIn(q, FactorName(q, b, h), n)
      BY <2>2, <2>3, <2>4 DEF IsPlan, EntryIs
    <2>6. y[at(f)] = FactorName(q, b, FactorLater(fs, f, n + 1))
      BY <2>2, <2>5, FactorIsLater DEF fs
    <2>7. LaterIn(q, FactorName(q, b, f), n + 1) = FactorName(q, b, FactorLater(fs, f, n + 1))
      <3>1. n + 1 \in Nat
        OBVIOUS
      <3> QED
        BY <3>1, FactorIsLater DEF fs
    <2>8. EntryIs(q, at(f), FactorName(q, b, f))
      BY <2>4 DEF fs
    <2>9. GoesOn(q, y, at(f), n)
      BY <2>6, <2>7, <2>8 DEF GoesOn, EntryIs
    <2> QED
      BY <2>9 DEF at
  <1>3. /\ Len(q.bf) \in Nat /\ DOMAIN q.bf = 1..Len(q.bf) /\ Sums(k, FactorLengths(q))
        /\ \A b \in DOMAIN q.bf : k[b - 1] \in Nat
    BY DEF FactorsBegin
  <1> DEFINE ss == [b \in DOMAIN q.bf |-> BlockedEntries(q, b)]
  <1>4. Joined(BlockedPart(q), ss, k, Len(q.bf)) /\ k[Len(q.bf)] = FactorCount(q)
    BY <1>3, BlockedPartIs
  <1>5. \A b \in DOMAIN q.bf : Len(ss[b]) = Len(q.bf[b][2])
    BY BlockedEntriesAre
  <1>6. EndCont(q) \in Int
    <2>1. Starts(q)
      BY StartsAre
    <2>2. \A g \in 1..8 : SplitIndices(q)[g] \in Nat
      BY SplitIndicesAre
    <2>3. SplitIndices(q)[4] \in Nat
      BY <2>2
    <2> QED
      BY <2>1, <2>3 DEF Starts, EndCont
  <1> HIDE DEF ss
  <1> SUFFICES ASSUME NEW r \in 1..FactorCount(q) PROVE GoesOn(q, y, EndCont(q) + r, n)
    OBVIOUS
  <1>7. PICK b \in 1..Len(q.bf) : \E f \in 1..Len(ss[b]) : r = k[b - 1] + f
    BY <1>4 DEF Joined
  <1>8. PICK f \in 1..Len(q.bf[b][2]) : r = k[b - 1] + f
    BY <1>3, <1>5, <1>7
  <1>9. EndCont(q) + k[b - 1] + f = EndCont(q) + r
    BY <1>3, <1>6, <1>7, <1>8
  <1>10. b \in DOMAIN q.bf
    BY <1>3
  <1> QED
    BY <1>2, <1>9, <1>10

\* The grids of the layout.
LEMMA GroupHasGrid ==
    ASSUME NEW q \in Problems, NEW g \in 1..7, NEW kind \in Kinds, NEW vs \in Seq(Int),
           NEW pts \in Seq(Points), Len(Grid(kind, vs, pts)) <= Len(Groups(q)[g]),
           \A r \in 1..Len(Grid(kind, vs, pts)) : Groups(q)[g][r] = Grid(kind, vs, pts)[r]
    PROVE  HasGrid(q, SplitIndices(q)[g], kind, vs, pts)
  <1>1. IsGrid(Grid(kind, vs, pts), kind, vs, pts)
    BY GridIs
  <1> QED
    BY <1>1, GridEntry DEF HasGrid

LEMMA LayoutHasGrids ==
    ASSUME NEW q \in Problems, q.nes > 0
    PROVE  /\ HasGrid(q, 0, "x", Seq1(q.nx), StatePoints(q))
           /\ HasGrid(q, SplitIndices(q)[2], "dx", Seq1(q.nx), InnerPoints(q))
           /\ HasGrid(q, SplitIndices(q)[3], "w", Seq1(q.nw), InnerPoints(q))
           /\ HasGrid(q, SplitIndices(q)[4], "u", Free(q), InnerPoints(q))
  <1>1. /\ Seq1(q.nx) \in Seq(Int) /\ Seq1(q.nw) \in Seq(Int) /\ Free(q) \in Seq(Int)
        /\ StatePoints(q) \in Seq(Points) /\ InnerPoints(q) \in Seq(Points)
    BY ProblemNumbers, Seq1Is, FreeIs, StatePointsAre, InnerPointsAre
  <1>2. "x" \in Kinds /\ "dx" \in Kinds /\ "w" \in Kinds /\ "u" \in Kinds
    BY DEF Kinds
  <1>3. /\ Groups(q)[1] = Grid("x", Seq1(q.nx), StatePoints(q))
        /\ Groups(q)[2] = Grid("dx", Seq1(q.nx), InnerPoints(q))
        /\ Groups(q)[3] = Grid("w", Seq1(q.nw), InnerPoints(q))
        /\ Groups(q)[4] = InputPart(q)
    BY GroupsAre
  <1>4. \A g \in 1..7 : Len(Groups(q)[g]) \in Nat
    BY GroupTypes
  <1>5. /\ Len(Groups(q)[1]) <= Len(Groups(q)[1]) /\ Len(Groups(q)[2]) <= Len(Groups(q)[2])
        /\ Len(Groups(q)[3]) <= Len(Groups(q)[3])
    BY <1>4
  <1>6. 1 \in 1..7 /\ 2 \in 1..7 /\ 3 \in 1..7 /\ 4 \in 1..7 /\ SplitIndices(q)[1] = 0
    <2>1. 1 \in 1..7 /\ 2 \in 1..7 /\ 3 \in 1..7 /\ 4 \in 1..7
      OBVIOUS
    <2>2. SplitIndices(q)[1] = 0
      BY SplitIndicesAre
    <2> QED
      BY <2>1, <2>2
  <1>7. HasGrid(q, SplitIndices(q)[1], "x", Seq1(q.nx), StatePoints(q))
    BY <1>1, <1>2, <1>3, <1>5, <1>6, GroupHasGrid
  <1>8. HasGrid(q, SplitIndices(q)[2], "dx", Seq1(q.nx), InnerPoints(q))
    BY <1>1, <1>2, <1>3, <1>5, <1>6, GroupHasGrid
  <1>9. HasGrid(q, SplitIndices(q)[3], "w", Seq1(q.nw), InnerPoints(q))
    BY <1>1, <1>2, <1>3, <1>5, <1>6, GroupHasGrid
  <1>10. HasGrid(q, SplitIndices(q)[4], "u", Free(q), InnerPoints(q))
    <2> DEFINE grid == Grid("u", Free(q), InnerPoints(q))  n == q.ne * q.ncp * Len(Free(q))
    <2>1. Len(grid) = n
      <3>1. IsGrid(grid, "u", Free(q), InnerPoints(q))
        BY <1>1, <1>2, GridIs
      <3>2. Len(InnerPoints(q)) = q.ne * q.ncp
        BY InnerPointsAre
      <3> HIDE DEF grid
      <3> QED
        BY <3>1, <3>2 DEF IsGrid
    <2>2. n \in Nat /\ Len(Free(q)) \in Nat /\ FactorCount(q) \in Nat
      BY StartsAre DEF Starts, ContPart
    <2>3. Len(InputPart(q)) = n + FactorCount(q) + Len(Free(q))
          /\ \A r \in 1..n : InputPart(q)[r] = grid[r]
      BY SampleNumbers, InputPartIs
    <2> HIDE DEF n, grid
    <2>4. Len(grid) <= Len(Groups(q)[4])
      BY <1>3, <2>1, <2>2, <2>3
    <2>5. \A r \in 1..Len(grid) : Groups(q)[4][r] = grid[r]
      BY <1>3, <2>1, <2>3
    <2> QED
      BY <1>1, <1>2, <1>6, <2>4, <2>5, GroupHasGrid DEF grid
  <1> QED
    BY <1>6, <1>7, <1>8, <1>9, <1>10

\* The entries of the initial point.
LEMMA InitialEntries ==
    ASSUME NEW q \in Problems, q.nes > 0
    PROVE  /\ \A r \in 1..q.nx : EntryIs(q, SplitIndices(q)[5] + r, <<"dx", r, <<1, 0>>>>)
           /\ \A r \in 1..q.nw :
                 EntryIs(q, SplitIndices(q)[5] + q.nx + r, <<"w", r, <<1, 0>>>>)
           /\ \A r \in 1..Len(Free(q)) :
                 EntryIs(q, EndCont(q) + FactorCount(q) + r, <<"u", Free(q)[r], <<1, 0>>>>)
  <1> DEFINE pt == <<1, 0>>  i == SplitIndices(q)[5]
  <1>1. IsEnd(q, pt) /\ pt[2] = 0 /\ pt[2] \notin 1..q.ncp
    BY ProblemNumbers DEF IsEnd
  <1>2. i \in Nat /\ q.nx \in Nat /\ q.nw \in Nat
    <2>1. \A g \in 1..8 : SplitIndices(q)[g] \in Nat
      BY SplitIndicesAre
    <2>2. i \in Nat
      BY <2>1
    <2> QED
      BY <2>2, ProblemNumbers
  <1> HIDE DEF pt
  <1>3. ASSUME NEW r \in 1..q.nx PROVE EntryIs(q, i + r, <<"dx", r, pt>>)
    <2>1. EndIndex(q, "dx", r, pt) = i + 0 + 0 + r
      BY <1>1 DEF EndIndex
    <2>2. i + 0 + 0 + r = i + r
      BY <1>2
    <2>3. EntryIs(q, EndIndex(q, "dx", r, pt), <<"dx", r, pt>>)
      BY <1>1, EndEntry
    <2> QED
      BY <2>1, <2>2, <2>3
  <1>4. ASSUME NEW r \in 1..q.nw PROVE EntryIs(q, i + q.nx + r, <<"w", r, pt>>)
    <2>1. EndIndex(q, "w", r, pt) = i + 0 + q.nx + r
      BY <1>1 DEF EndIndex
    <2>2. i + 0 + q.nx + r = i + q.nx + r
      BY <1>2
    <2>3. EntryIs(q, EndIndex(q, "w", r, pt), <<"w", r, pt>>)
      BY <1>1, EndEntry
    <2> QED
      BY <2>1, <2>2, <2>3
  <1>5. ASSUME NEW r \in 1..Len(Free(q))
        PROVE  EntryIs(q, EndCont(q) + FactorCount(q) + r, <<"u", Free(q)[r], pt>>)
    <2>1. PICK v : IsFree(q, v) /\ v \in 1..q.nu /\ FreeRank(q, v) = r
      BY FreeWithRank
    <2>2. Free(q)[r] = v
      BY <2>1, FreeRankIs
    <2>3. EntryIs(q, VarIndex(q, "u", v, pt), <<"u", v, pt>>)
      BY <1>1, <2>1, FreeInputEnd
    <2>4. q.blocked = TRUE /\ ~ Blocked(q, v)
      BY <2>1, SampleNumbers DEF IsFree
    <2>5. VarIndex(q, "u", v, pt) = InputIndex(q, v, pt)
      BY DEF VarIndex
    <2>6. InputIndex(q, v, pt) = SplitIndices(q)[4] + q.ne * q.ncp * Len(Free(q))
                                 + FactorCount(q) + FreeRank(q, v)
      BY <1>1, <2>4 DEF InputIndex, FreeRank
    <2> QED
      BY <2>1, <2>2, <2>3, <2>5, <2>6 DEF EndCont, ContPart
  <1> QED
    BY <1>3, <1>4, <1>5 DEF pt

\* The numbers of entries in the groups of a problem of MPC.
LEMMA SampleSizes ==
    ASSUME NEW q \in Problems, q.nes > 0
    PROVE  /\ SplitSizes(q)[1] = q.ne * (q.ncp + 1) * q.nx
           /\ SplitSizes(q)[2] = q.ne * q.ncp * q.nx /\ SplitSizes(q)[3] = q.ne * q.ncp * q.nw
           /\ SplitSizes(q)[4] = ContPart(q) + FactorCount(q) + Len(Free(q))
           /\ SplitSizes(q)[5] = q.nx + q.nw
           /\ SplitSizes(q)[6] = q.npopt /\ SplitSizes(q)[7] = 0
  <1> DEFINE si == SplitIndices(q)  sz == SplitSizes(q)
  <1>1. Starts(q)
    BY StartsAre
  <1>2. q.nx \in Nat /\ q.nw \in Nat /\ q.npopt \in Nat
    BY SampleNumbers
  <1>3. \A g \in 1..7 : si[g + 1] = si[g] + sz[g]
    BY SplitIndicesAre
  <1>4. sz \in Seq(Nat) /\ Len(sz) = 7
    BY SplitSizesType
  <1>5. \A g \in 1..7 : sz[g] \in Nat
    BY <1>4, ElementsAre
  <1>6. \A g \in 1..8 : si[g] \in Nat
    BY SplitIndicesAre
  <1> HIDE DEF si, sz
  <1>7. \A g \in 1..7 : si[g] \in Nat /\ sz[g] \in Nat /\ sz[g] = si[g + 1] - si[g]
    BY <1>3, <1>5, <1>6
  <1>8. /\ sz[1] = si[2] - si[1] /\ sz[2] = si[3] - si[2] /\ sz[3] = si[4] - si[3]
        /\ sz[4] = si[5] - si[4] /\ sz[5] = si[6] - si[5] /\ sz[6] = si[7] - si[6]
        /\ sz[7] = si[8] - si[7]
    BY <1>7
  <1>9. /\ si[1] \in Nat /\ si[2] \in Nat /\ si[3] \in Nat /\ si[4] \in Nat /\ si[5] \in Nat
        /\ si[6] \in Nat /\ si[7] \in Nat /\ si[8] \in Nat
    BY <1>6
  <1> DEFINE a == q.ne * (q.ncp + 1) * q.nx  b == q.ne * q.ncp * q.nx  c == q.ne * q.ncp * q.nw
             d == ContPart(q)  e == FactorCount(q)  f == Len(Free(q))
  <1>10. /\ a \in Nat /\ b \in Nat /\ c \in Nat /\ d \in Nat /\ e \in Nat /\ f \in Nat
         /\ si[1] = 0 /\ si[2] = a /\ si[3] = si[2] + b /\ si[4] = si[3] + c
         /\ si[5] = si[4] + d + e + f /\ si[6] = si[5] + q.nx + q.nw
         /\ si[7] = si[6] + q.npopt /\ si[8] = si[7]
    BY <1>1 DEF Starts, si
  <1> HIDE DEF a, b, c, d, e, f
  <1>11. sz[1] = a /\ sz[2] = b /\ sz[3] = c
    BY <1>8, <1>9, <1>10
  <1>12. sz[4] = d + e + f
    BY <1>8, <1>9, <1>10
  <1>13. sz[5] = q.nx + q.nw /\ sz[6] = q.npopt /\ sz[7] = 0
    BY <1>2, <1>8, <1>9, <1>10
  <1> QED
    BY <1>11, <1>12, <1>13 DEF sz, a, b, c, d, e, f

LEMMA SamplePoints ==
    ASSUME NEW q \in Problems, q.nes > 0
    PROVE  /\ ArePoints(StatePoints(q), q.ne, 0, q.ncp, q.ncp + 1)
           /\ ArePoints(InnerPoints(q), q.ne, 1, q.ncp, q.ncp)
  <1>1. q.ne \in Nat /\ q.ncp \in Nat \ {0} /\ LastPoint(q) = q.ncp
    BY SampleNumbers DEF LastPoint
  <1>2. q.ncp - 0 + 1 = q.ncp + 1 /\ q.ncp - 1 + 1 = q.ncp /\ 1 <= q.ncp /\ 0 <= q.ncp
        /\ 0 \in Nat /\ 1 \in Nat /\ q.ncp \in Nat
    BY <1>1
  <1>3. ArePoints(ElementPoints(q, 0, q.ncp), q.ne, 0, q.ncp, q.ncp - 0 + 1)
    BY <1>1, <1>2, ElementPointsAre
  <1>4. ArePoints(ElementPoints(q, 1, q.ncp), q.ne, 1, q.ncp, q.ncp - 1 + 1)
    BY <1>1, <1>2, ElementPointsAre
  <1> QED
    BY <1>1, <1>2, <1>3, <1>4 DEF StatePoints, InnerPoints

\* The vector after one more shift is the plan for one more sample.
LEMMA PlanGoesOn ==
    ASSUME NEW q \in Problems, q.nes > 0, OneSampleEach(q), Len(q.bf) <= 1,
           NEW S, NEW s \in Seq(S), Len(s) = SplitIndices(q)[8],
           NEW n \in Nat, IsPlan(q, s, n)
    PROVE  LET y == ShiftXX(q, q.nes, s)
           IN  y \in Seq(S) /\ Len(y) = SplitIndices(q)[8] /\ IsPlan(q, y, n + 1)
  <1> DEFINE y == ShiftXX(q, q.nes, s)  si == SplitIndices(q)  nf == Len(Free(q))
             fc == FactorCount(q)  cp == ContPart(q)  points == q.ncp * q.nes
             xs == Seq1(q.nx)  ws == Seq1(q.nw)
  <1>1. PICK k : FactorsBegin(q, k)
    BY FactorsBeginSomewhere
  <1>2. Shiftable(q)
    BY OneBlocked
  <1>3. y \in Seq(S) /\ Moved(y, q, s, k)
    BY <1>1, <1>2, ShiftMoves
  <1> HIDE DEF y
  <1>4. /\ q.nx \in Nat /\ q.nw \in Nat /\ q.npopt \in Nat /\ q.ne \in Nat \ {0}
        /\ q.ncp \in Nat \ {0} /\ q.nes \in Nat \ {0} /\ q.nes <= q.ne
    BY SampleNumbers
  <1>5. /\ points = q.nes * q.ncp
        /\ Len(xs) = q.nx /\ Len(ws) = q.nw /\ nf \in Nat
        /\ (\A r \in 1..q.nx : xs[r] = r) /\ (\A r \in 1..q.nw : ws[r] = r)
    <2>1. points = q.nes * q.ncp
      BY <1>4
    <2>2. Len(xs) = q.nx /\ Len(ws) = q.nw
      BY <1>4, Seq1Is
    <2>3. (\A r \in 1..q.nx : xs[r] = r) /\ (\A r \in 1..q.nw : ws[r] = r)
      BY <1>4, Seq1Is
    <2>4. nf \in Nat
      BY StartsAre DEF Starts
    <2> QED
      BY <2>1, <2>2, <2>3, <2>4
  <1>6. /\ Len(y) = si[8]
        /\ GroupMoves(y, s, 0, q.nx, q.ne * (q.ncp + 1), q.nes * (q.ncp + 1))
        /\ GroupMoves(y, s, si[2], q.nx, q.ne * q.ncp, points)
        /\ GroupMoves(y, s, si[3], q.nw, q.ne * q.ncp, points)
        /\ GroupMoves(y, s, si[4], nf, q.ne * q.ncp, points)
        /\ BlockedMoves(y, q, s, k)
        /\ EndMoves(y, s, EndCont(q) + fc, nf, si[4], points)
        /\ EndMoves(y, s, si[5], q.nx, si[2], points)
        /\ EndMoves(y, s, si[5] + q.nx, q.nw, si[3], points)
        /\ \A r \in 1..q.npopt : y[si[6] + r] = s[si[6] + r]
    BY <1>3 DEF Moved
  <1>7. \A g \in 1..8 : si[g] \in Nat
    BY SplitIndicesAre
  <1>8. si[2] \in Nat /\ si[3] \in Nat /\ si[4] \in Nat /\ si[5] \in Nat /\ si[6] \in Nat
    BY <1>7
  <1>9. "x" \in PointKinds /\ "dx" \in PointKinds \ {"x"} /\ "w" \in PointKinds \ {"x"}
        /\ "u" \in PointKinds \ {"x"}
    BY DEF PointKinds
  <1>10. /\ 0 \in 0..1 /\ 1 \in 0..1 /\ 0 \in Nat
         /\ q.ncp + 1 = q.ncp + 1 - 0 /\ q.ncp = q.ncp + 1 - 1
    BY <1>4
  <1> HIDE DEF points, xs, ws
  <1>11. \A r \in 1..(q.ne * (q.ncp + 1) * q.nx) : GoesOn(q, y, 0 + r, n)
    <2>1. HasGrid(q, 0, "x", xs, StatePoints(q))
      BY LayoutHasGrids DEF xs
    <2>2. GroupMoves(y, s, 0, Len(xs), q.ne * (q.ncp + 1), q.nes * (q.ncp + 1))
      BY <1>5, <1>6
    <2>3. ArePoints(StatePoints(q), q.ne, 0, q.ncp, q.ncp + 1)
      BY SamplePoints
    <2>4. Len(xs) \in Nat
      BY <1>4, <1>5
    <2>5. \A r \in 1..(q.ne * (q.ncp + 1) * Len(xs)) : GoesOn(q, y, 0 + r, n)
      BY <1>4, <1>5, <1>8, <1>9, <1>10, <2>1, <2>2, <2>3, <2>4, GroupGoesOn
    <2> QED
      BY <1>5, <2>5
  <1>12. \A r \in 1..(q.ne * q.ncp * q.nx) : GoesOn(q, y, si[2] + r, n)
    <2>1. HasGrid(q, si[2], "dx", xs, InnerPoints(q))
      BY LayoutHasGrids DEF xs
    <2>2. GroupMoves(y, s, si[2], Len(xs), q.ne * q.ncp, points)
      BY <1>5, <1>6
    <2>3. ArePoints(InnerPoints(q), q.ne, 1, q.ncp, q.ncp)
      BY SamplePoints
    <2>4. Len(xs) \in Nat
      BY <1>4, <1>5
    <2>5. \A r \in 1..(q.ne * q.ncp * Len(xs)) : GoesOn(q, y, si[2] + r, n)
      BY <1>4, <1>5, <1>8, <1>9, <1>10, <2>1, <2>2, <2>3, <2>4, GroupGoesOn
    <2> QED
      BY <1>5, <2>5
  <1>13. \A r \in 1..(q.ne * q.ncp * q.nw) : GoesOn(q, y, si[3] + r, n)
    <2>1. HasGrid(q, si[3], "w", ws, InnerPoints(q))
      BY LayoutHasGrids DEF ws
    <2>2. GroupMoves(y, s, si[3], Len(ws), q.ne * q.ncp, points)
      BY <1>5, <1>6
    <2>3. ArePoints(InnerPoints(q), q.ne, 1, q.ncp, q.ncp)
      BY SamplePoints
    <2>4. Len(ws) \in Nat
      BY <1>4, <1>5
    <2>5. \A r \in 1..(q.ne * q.ncp * Len(ws)) : GoesOn(q, y, si[3] + r, n)
      BY <1>4, <1>5, <1>8, <1>9, <1>10, <2>1, <2>2, <2>3, <2>4, GroupGoesOn
    <2> QED
      BY <1>5, <2>5
  <1>14. \A r \in 1..(q.ne * q.ncp * nf) : GoesOn(q, y, si[4] + r, n)
    BY <1>4, <1>5, <1>6, <1>8, <1>9, <1>10, SamplePoints, LayoutHasGrids, GroupGoesOn
  <1>15. \A r \in 1..fc : GoesOn(q, y, EndCont(q) + r, n)
    BY <1>1, <1>6, FactorsGoOn
  <1>16. \A r \in 1..nf : GoesOn(q, y, EndCont(q) + fc + r, n)
    BY <1>4, <1>5, <1>6, <1>8, <1>9, LayoutHasGrids, InitialEntries, EndGoesOn DEF points
  <1>17. \A r \in 1..q.nx : GoesOn(q, y, si[5] + r, n)
    <2>1. \A r \in 1..q.nx : EntryIs(q, si[5] + r, <<"dx", xs[r], <<1, 0>>>>)
      BY <1>5, InitialEntries
    <2>2. HasGrid(q, si[2], "dx", xs, InnerPoints(q))
      BY LayoutHasGrids DEF xs
    <2>3. EndMoves(y, s, si[5], Len(xs), si[2], q.ncp * q.nes) /\ Len(xs) \in Nat
      BY <1>4, <1>5, <1>6 DEF points
    <2>4. \A r \in 1..Len(xs) : EntryIs(q, si[5] + r, <<"dx", xs[r], <<1, 0>>>>)
      BY <1>5, <2>1
    <2>5. \A r \in 1..Len(xs) : GoesOn(q, y, si[5] + r, n)
      BY <1>4, <1>8, <1>9, <2>2, <2>3, <2>4, EndGoesOn
    <2> QED
      BY <1>5, <2>5
  <1>18. \A r \in 1..q.nw : GoesOn(q, y, si[5] + q.nx + r, n)
    <2>1. \A r \in 1..q.nw : EntryIs(q, si[5] + q.nx + r, <<"w", ws[r], <<1, 0>>>>)
      BY <1>5, InitialEntries
    <2>2. HasGrid(q, si[3], "w", ws, InnerPoints(q))
      BY LayoutHasGrids DEF ws
    <2>3. EndMoves(y, s, si[5] + q.nx, Len(ws), si[3], q.ncp * q.nes) /\ Len(ws) \in Nat
      BY <1>4, <1>5, <1>6 DEF points
    <2>4. \A r \in 1..Len(ws) : EntryIs(q, si[5] + q.nx + r, <<"w", ws[r], <<1, 0>>>>)
      BY <1>5, <2>1
    <2>5. \A r \in 1..Len(ws) : GoesOn(q, y, si[5] + q.nx + r, n)
      BY <1>4, <1>8, <1>9, <2>2, <2>3, <2>4, EndGoesOn
    <2> QED
      BY <1>5, <2>5
  <1>19. \A r \in 1..q.npopt : GoesOn(q, y, si[6] + r, n)
    <2> SUFFICES ASSUME NEW r \in 1..q.npopt PROVE GoesOn(q, y, si[6] + r, n)
      OBVIOUS
    <2>1. Groups(q)[6] = AtPoint("p", Seq1(q.npopt), NoPoint) /\ 6 \in 1..7
      BY GroupsAre
    <2>2. Seq1(q.npopt) \in Seq(Int) /\ Len(Seq1(q.npopt)) = q.npopt
      BY <1>4, Seq1Is
    <2>3. NoPoint \in Points /\ "p" \in Kinds
      BY DEF NoPoint, Points, Kinds
    <2>4. Len(Groups(q)[6]) = q.npopt /\ Groups(q)[6][r] = <<"p", Seq1(q.npopt)[r], NoPoint>>
      BY <2>1, <2>2, <2>3, AtPointIs
    <2>5. EntryIs(q, si[6] + r, <<"p", Seq1(q.npopt)[r], NoPoint>>)
      BY <2>1, <2>4, GroupEntry
    <2> DEFINE e == <<"p", Seq1(q.npopt)[r], NoPoint>>
    <2>6. e[1] = "p"
      OBVIOUS
    <2> HIDE DEF e
    <2>7. LaterIn(q, e, n) = e /\ LaterIn(q, e, n + 1) = e
      BY <2>6 DEF LaterIn
    <2>8. EntryIs(q, si[6] + r, e)
      BY <2>5 DEF e
    <2> QED
      BY <1>6, <2>7, <2>8 DEF IsPlan, EntryIs, GoesOn
  <1>20. ASSUME NEW g \in 1..7, NEW r \in 1..SplitSizes(q)[g]
         PROVE  GoesOn(q, y, si[g] + r, n)
    <2> DEFINE sz == SplitSizes(q)
    <2>1. /\ sz[1] = q.ne * (q.ncp + 1) * q.nx
          /\ sz[2] = q.ne * q.ncp * q.nx /\ sz[3] = q.ne * q.ncp * q.nw
          /\ sz[4] = cp + fc + nf /\ sz[5] = q.nx + q.nw /\ sz[6] = q.npopt /\ sz[7] = 0
      BY SampleSizes
    <2> HIDE DEF sz
    <2>2. CASE g = 1
      <3>1. si[1] = 0
        BY SplitIndicesAre
      <3> QED
        BY <1>11, <2>1, <2>2, <3>1 DEF sz
    <2>3. CASE g = 2
      BY <1>12, <2>1, <2>3 DEF sz
    <2>4. CASE g = 3
      BY <1>13, <2>1, <2>4 DEF sz
    <2>5. CASE g = 4
      <3>1. r \in 1..(cp + fc + nf) /\ EndCont(q) = si[4] + cp
        BY <2>1, <2>5 DEF sz, EndCont
      <3>2. cp \in Nat /\ fc \in Nat /\ nf \in Nat
        BY StartsAre DEF Starts
      <3>3. cp = q.ne * q.ncp * nf
        BY DEF ContPart
      <3> HIDE DEF cp, fc, nf
      <3>4. CASE r <= cp
        BY <1>14, <2>5, <3>1, <3>2, <3>3, <3>4
      <3>5. CASE cp < r /\ r <= cp + fc
        <4>1. r - cp \in 1..fc /\ si[4] + cp + (r - cp) = si[4] + r
          BY <1>8, <3>1, <3>2, <3>5
        <4>2. GoesOn(q, y, EndCont(q) + (r - cp), n)
          BY <1>15, <4>1
        <4> QED
          BY <2>5, <3>1, <4>1, <4>2
      <3>6. CASE cp + fc < r
        <4>1. r - cp - fc \in 1..nf /\ si[4] + cp + fc + (r - cp - fc) = si[4] + r
          BY <1>8, <3>1, <3>2, <3>6
        <4>2. GoesOn(q, y, EndCont(q) + fc + (r - cp - fc), n)
          BY <1>16, <4>1
        <4> QED
          BY <2>5, <3>1, <4>1, <4>2
      <3>7. r <= cp \/ (cp < r /\ r <= cp + fc) \/ cp + fc < r
        BY <3>1, <3>2
      <3> QED
        BY <3>4, <3>5, <3>6, <3>7
    <2>6. CASE g = 5
      <3>1. r \in 1..(q.nx + q.nw)
        BY <2>1, <2>6 DEF sz
      <3>2. CASE r <= q.nx
        BY <1>4, <1>17, <2>6, <3>1, <3>2
      <3>3. CASE q.nx < r
        <4>1. r - q.nx \in 1..q.nw
          BY <1>4, <3>1, <3>3
        <4>2. si[5] + q.nx + (r - q.nx) = si[5] + r
          <5>1. si[5] \in Int /\ q.nx \in Int /\ r \in Int
            BY <1>4, <1>8, <3>1
          <5>2. \A u, v, w \in Int : u + v + (w - v) = u + w
            OBVIOUS
          <5> QED
            BY <5>1, <5>2
        <4>3. GoesOn(q, y, si[5] + q.nx + (r - q.nx), n)
          BY <1>18, <4>1
        <4> QED
          BY <2>6, <4>2, <4>3
      <3>4. r <= q.nx \/ q.nx < r
        BY <1>4, <3>1
      <3> QED
        BY <3>2, <3>3, <3>4
    <2>7. CASE g = 6
      BY <1>19, <2>1, <2>7 DEF sz
    <2>8. CASE g = 7
      BY <2>1, <2>8 DEF sz
    <2>9. g = 1 \/ g = 2 \/ g = 3 \/ g = 4 \/ g = 5 \/ g = 6 \/ g = 7
      OBVIOUS
    <2> QED
      BY <2>2, <2>3, <2>4, <2>5, <2>6, <2>7, <2>8, <2>9
  <1>21. IsPlan(q, y, n + 1)
    <2> SUFFICES ASSUME NEW m \in 1..Len(Layout(q)) PROVE GoesOn(q, y, m, n)
      BY DEF IsPlan, GoesOn
    <2>1. PICK g \in 1..7 : \E r \in 1..SplitSizes(q)[g] : m = si[g] + r
      BY LayoutIs
    <2> QED
      BY <1>20, <2>1
  <1> QED
    BY <1>3, <1>6, <1>21 DEF y

\* After any number of shifts the vector is the plan for so many samples later.
PlanInv ==
    /\ p \in Problems /\ shifts \in Nat
    /\ Len(p.bf) <= 1 => Len(xx) = SplitIndices(p)[8] /\ xx = ShiftedPlan

LEMMA IsShiftedPlan ==
    ASSUME p \in Problems, NEW S, NEW y \in Seq(S), Len(y) = SplitIndices(p)[8],
           NEW n, IsPlan(p, y, n)
    PROVE  y = [m \in DOMAIN Layout(p) |-> Later(Layout(p)[m], n)]
  <1>1. Layout(p) \in Seq(Entries) /\ Len(Layout(p)) = SplitIndices(p)[8]
    BY LayoutIs
  <1>2. DOMAIN Layout(p) = 1..Len(Layout(p)) /\ DOMAIN y = 1..Len(Layout(p))
    BY <1>1
  <1>3. \A m \in DOMAIN y : y[m] = Later(Layout(p)[m], n)
    BY <1>2, LaterIs DEF IsPlan
  <1>4. y = [m \in DOMAIN y |-> y[m]]
    OBVIOUS
  <1> QED
    BY <1>2, <1>3, <1>4

LEMMA PlanBegins ==
    ASSUME Init
    PROVE  PlanInv
  <1>1. p \in Problems /\ xx = Layout(p) /\ shifts = 0
    BY DEF Init
  <1>2. Layout(p) \in Seq(Entries) /\ Len(Layout(p)) = SplitIndices(p)[8]
    BY <1>1, LayoutIs
  <1>3. IsPlan(p, xx, 0)
    BY <1>1 DEF IsPlan, LaterIn
  <1>4. xx = [m \in DOMAIN Layout(p) |-> Later(Layout(p)[m], 0)]
    BY <1>1, <1>2, <1>3, IsShiftedPlan
  <1> QED
    BY <1>1, <1>2, <1>4 DEF PlanInv, ShiftedPlan

LEMMA PlanStays ==
    ASSUME DefaultFactors, PlanInv, [Next]_vars
    PROVE  PlanInv'
  <1>1. CASE UNCHANGED vars
    BY <1>1 DEF vars, PlanInv, ShiftedPlan, Later
  <1>2. CASE Shift
    <2>1. /\ p \in Problems /\ shifts \in Nat /\ p.nes > 0 /\ p' = p
          /\ shifts' = shifts + 1 /\ xx' = ShiftXX(p, p.nes, xx)
      BY <1>2 DEF PlanInv, Shift
    <2>2. ASSUME Len(p.bf) <= 1
          PROVE  Len(xx') = SplitIndices(p)[8]
                 /\ xx' = [m \in DOMAIN Layout(p) |-> Later(Layout(p)[m], shifts')]
      <3>1. Len(xx) = SplitIndices(p)[8] /\ xx = ShiftedPlan
        BY <2>2 DEF PlanInv
      <3>2. Layout(p) \in Seq(Entries) /\ Len(Layout(p)) = SplitIndices(p)[8]
            /\ DOMAIN Layout(p) = 1..Len(Layout(p)) /\ Len(Layout(p)) \in Nat
        BY <2>1, LayoutIs
      <3>3. \A m \in 1..Len(Layout(p)) : xx[m] = LaterIn(p, Layout(p)[m], shifts)
        BY <3>1, <3>2, LaterIs DEF ShiftedPlan
      <3>4. PICK S : xx \in Seq(S)
        <4>1. xx \in Seq({xx[m] : m \in 1..Len(Layout(p))})
          BY <3>1, <3>2 DEF ShiftedPlan
        <4> QED
          BY <4>1
      <3>5. OneSampleEach(p)
        BY <2>1 DEF DefaultFactors
      <3>6. IsPlan(p, xx, shifts)
        BY <3>3 DEF IsPlan
      <3>7. /\ xx' \in Seq(S) /\ Len(xx') = SplitIndices(p)[8]
            /\ IsPlan(p, xx', shifts + 1)
        BY <2>1, <2>2, <3>1, <3>4, <3>5, <3>6, PlanGoesOn
      <3> QED
        BY <2>1, <3>7, IsShiftedPlan
    <2> QED
      BY <2>1, <2>2 DEF PlanInv, ShiftedPlan, Later
  <1> QED
    BY <1>1, <1>2 DEF Next

\* The guess of MPC after any number of failures in a row: every entry of the
\* vector that _shift_xx has shifted, however often, has the value planned for
\* the time it now stands for, if blocking factors are those of MPC and at most
\* one input has any.
THEOREM ShiftsArePlanned == DefaultFactors => (Spec => []ShiftIsPlan)
  <1> SUFFICES ASSUME DefaultFactors PROVE Spec => []ShiftIsPlan
    OBVIOUS
  <1>1. PlanInv => ShiftIsPlan
    <2> SUFFICES ASSUME PlanInv, Cardinality({v \in 1..p.nu : Blocked(p, v)}) <= 1
                 PROVE  xx = ShiftedPlan
      BY DEF ShiftIsPlan
    <2>1. /\ Keys(p) \subseteq 1..p.nu /\ Cardinality(Keys(p)) = Len(p.bf)
          /\ \A v : Blocked(p, v) <=> v \in Keys(p)
      BY KeysAre DEF PlanInv
    <2>2. {v \in 1..p.nu : Blocked(p, v)} = Keys(p)
      BY <2>1
    <2> QED
      BY <2>1, <2>2 DEF PlanInv
  <1>2. PlanInv /\ [Next]_vars => PlanInv'
    BY PlanStays
  <1> QED
    BY <1>1, <1>2, PlanBegins, PTL DEF Spec
=============================================================================
