----------------------- MODULE BipartiteGraph_proofs ------------------------
(***************************************************************************)
(* Proofs about BipartiteGraph, for systems of every size: the matching    *)
(* that maximum_match ends with is perfect, and there is none when it says *)
(* that the system is structurally singular (MatchingPerfect); the blocks  *)
(* of scc are the strongly connected components, in order (BlocksOrdered). *)
(*                                                                         *)
(* The matching: the layers are disjoint and joined by arcs not matched    *)
(* and matched in turn (LayersInv), so that a path of the search is an     *)
(* augmenting one, and the paths of a phase do not meet (PathsInv): each   *)
(* toggle leaves the others augmenting (ToggledInTurn).  A search that     *)
(* gets no further has reached equations whose variables are all matched   *)
(* with fewer equations (ClosedInv).                                       *)
(*                                                                         *)
(* The blocks: Tarjan's invariant (SccInv).  The frames are on the stack   *)
(* in the order of the numbers, every vertex on the stack comes under the  *)
(* last frame before it, which it reaches, and the lowlink of a frame      *)
(* accounts for the arcs that are done.                                    *)
(***************************************************************************)
EXTENDS BipartiteGraph, FiniteSetTheorems, SequenceTheorems, TLAPS

-----------------------------------------------------------------------------
(* Induction over the numbers, from the least number of a set.             *)

LEMMA LeastNumber ==
    ASSUME NEW T, T \subseteq Nat, T # {}
    PROVE  \E x \in T : \A y \in T : x <= y
  <1>1. IsWellFoundedOn(OpToRel(<, Nat), Nat)
    BY NatLessThanWellFounded
  <1>2. PICK x \in T : \A y \in T : <<y, x>> \notin OpToRel(<, Nat)
    BY <1>1, WFMin
  <1>3. \A y \in T : ~ (y < x)
    BY <1>2 DEF OpToRel
  <1> QED
    BY <1>3

LEMMA Induct ==
    ASSUME NEW T, 0 \in T, \A n \in Nat : n \in T => n + 1 \in T
    PROVE  Nat \subseteq T
  <1> SUFFICES ASSUME Nat \ T # {} PROVE FALSE
    OBVIOUS
  <1>1. Nat \ T \subseteq Nat
    OBVIOUS
  <1>2. PICK x \in Nat \ T : \A y \in Nat \ T : x <= y
    BY <1>1, LeastNumber, Zenon
  <1>3. x - 1 \in Nat /\ x - 1 \notin Nat \ T
    BY <1>2
  <1> QED
    BY <1>2, <1>3

LEMMA Parity ==
    ASSUME NEW i \in Nat
    PROVE  /\ i % 2 = 0 \/ i % 2 = 1
           /\ i % 2 = 1 => (i + 1) % 2 = 0
           /\ i % 2 = 0 => (i + 1) % 2 = 1
  OBVIOUS

-----------------------------------------------------------------------------
(* The layers.                                                             *)

AllEqs  == {Eq(e) : e \in Numbers}
AllVars == {Var(v) : v \in Numbers}
Vertices == AllEqs \cup AllVars

\* No two edges of m meet.
IsMatching(m) ==
    /\ m \subseteq system.edges
    /\ \A x, y \in m : x[1] = y[1] \/ x[2] = y[2] => x = y

ArcOK(i, a) ==
    IF i % 2 = 1 THEN \E x \in system.edges \ matches : a = <<Var(x[2]), Eq(x[1])>>
                 ELSE \E x \in matches : a = <<Eq(x[1]), Var(x[2])>>

\* The layers are disjoint, of equations and of variables in turn, and joined
\* by arcs that are not matched and matched in turn.
LayersInv ==
    /\ layers \in Seq(SUBSET Vertices) /\ layers # << >>
    /\ layers[1] = UnmatchedEqs /\ UnmatchedEqs # {}
    /\ arcs \in Seq(SUBSET (Vertices \X Vertices)) /\ Len(arcs) + 1 = Len(layers)
    /\ \A i \in DOMAIN layers : layers[i] \subseteq IF i % 2 = 1 THEN AllEqs ELSE AllVars
    /\ \A i, j \in DOMAIN layers : \A u \in layers[i] : u \in layers[j] => i = j
    /\ \A i \in DOMAIN arcs : \A a \in arcs[i] :
          a[1] \in layers[i + 1] /\ a[2] \in layers[i] /\ ArcOK(i, a)

\* Before the last layer every variable is matched, and every vertex that the
\* next arcs lead to is reached; every equation but those of the first layer
\* is matched with a variable that is reached.
ClosedInv ==
    /\ \A i \in 1..(Len(layers) - 1) :
          /\ layers[i] \cap UnmatchedVars = {}
          /\ \A x \in system.edges \ matches : Eq(x[1]) \in layers[i] => Var(x[2]) \in Reached
          /\ \A x \in matches : Var(x[2]) \in layers[i] => Eq(x[1]) \in Reached
    /\ \A i \in 2..Len(layers) : \A e \in Numbers :
          Eq(e) \in layers[i] => \E v \in Numbers : <<e, v>> \in matches /\ Var(v) \in Reached

LEMMA InReached ==
    \A u : u \in Reached <=> \E i \in DOMAIN layers : u \in layers[i]
  BY DEF Reached

\* Edges are pairs of numbers.
LEMMA EdgesArePairs ==
    ASSUME system \in Systems
    PROVE  /\ system.n \in Nat \ {0}
           /\ \A x \in system.edges : x = <<x[1], x[2]>> /\ x[1] \in Numbers /\ x[2] \in Numbers
  BY SystemsAssumption DEF Numbers

LEMMA VertexNames ==
    /\ \A e, v : Eq(e) # Var(v) /\ Eq(e) # Sink /\ Eq(e) # Source
                 /\ Var(v) # Sink /\ Var(v) # Source
    /\ \A e, f : Eq(e) = Eq(f) => e = f
    /\ \A e, f : Var(e) = Var(f) => e = f
    /\ Sink # Source
  BY DEF Eq, Var, Sink, Source

LEMMA SameMatching ==
    ASSUME UNCHANGED <<system, matches>>
    PROVE  /\ UnmatchedEqs' = UnmatchedEqs /\ UnmatchedVars' = UnmatchedVars
           /\ AllEqs' = AllEqs /\ AllVars' = AllVars /\ Vertices' = Vertices
           /\ Numbers' = Numbers
           /\ \A i, a : ArcOK(i, a)' <=> ArcOK(i, a)
  BY DEF UnmatchedEqs, UnmatchedVars, AllEqs, AllVars, Vertices, Numbers, MatchedEqs,
         MatchedVars, ArcOK, Eq, Var

LEMMA FirstLayer ==
    ASSUME system \in Systems, StartPhase
    PROVE  LayersInv' /\ ClosedInv'
  <1>1. layers' = <<UnmatchedEqs'>> /\ arcs' = << >> /\ UNCHANGED <<system, matches>>
    BY SameMatching DEF StartPhase
  <1>2. UnmatchedEqs' \in SUBSET AllEqs' /\ AllEqs' \subseteq Vertices'
    BY DEF UnmatchedEqs, AllEqs, Vertices
  <1>3. LayersInv'
    BY <1>1, <1>2, SameMatching DEF LayersInv, StartPhase
  <1>4. ClosedInv'
    BY <1>1 DEF ClosedInv
  <1> QED
    BY <1>3, <1>4

\* The next arcs start at vertices of no layer and end in the last layer.
LEMMA NextArcsType ==
    ASSUME system \in Systems, IsMatching(matches), LayersInv, NEW a \in NextArcs
    PROVE  /\ a[1] \in (IF Len(layers) % 2 = 1 THEN AllVars ELSE AllEqs) \ Reached
           /\ a[2] \in Last(layers) /\ a \in Vertices \X Vertices
           /\ ArcOK(Len(layers), a)
  <1>1. CASE Len(layers) % 2 = 1
    <2>1. PICK x \in system.edges \ matches :
            a = <<Var(x[2]), Eq(x[1])>> /\ Eq(x[1]) \in Last(layers) /\ Var(x[2]) \notin Reached
      BY <1>1 DEF NextArcs
    <2>2. x[1] \in Numbers /\ x[2] \in Numbers
      BY EdgesArePairs
    <2> QED
      BY <1>1, <2>1, <2>2 DEF ArcOK, AllVars, AllEqs, Vertices
  <1>2. CASE Len(layers) % 2 # 1
    <2>1. PICK x \in matches :
            a = <<Eq(x[1]), Var(x[2])>> /\ Var(x[2]) \in Last(layers) /\ Eq(x[1]) \notin Reached
      BY <1>2 DEF NextArcs
    <2>2. x[1] \in Numbers /\ x[2] \in Numbers
      BY EdgesArePairs DEF IsMatching
    <2> QED
      BY <1>2, <2>1, <2>2 DEF ArcOK, AllVars, AllEqs, Vertices
  <1> QED
    BY <1>1, <1>2

LEMMA ReachedGrows ==
    ASSUME LayersInv, NextLayer
    PROVE  /\ Len(layers') = Len(layers) + 1 /\ Len(layers) \in Nat \ {0}
           /\ \A i \in 1..Len(layers) : layers'[i] = layers[i]
           /\ layers'[Len(layers) + 1] = {a[1] : a \in NextArcs}
           /\ Reached' = Reached \cup {a[1] : a \in NextArcs}
           /\ UNCHANGED <<system, matches>>
  <1>1. layers' = Append(layers, {a[1] : a \in NextArcs}) /\ layers \in Seq(SUBSET Vertices)
        /\ UNCHANGED <<system, matches>> /\ layers # << >>
    BY DEF NextLayer, LayersInv
  <1>2. /\ Len(layers') = Len(layers) + 1 /\ Len(layers) \in Nat \ {0}
        /\ \A i \in 1..Len(layers) : layers'[i] = layers[i]
        /\ layers'[Len(layers) + 1] = {a[1] : a \in NextArcs}
        /\ DOMAIN layers = 1..Len(layers) /\ DOMAIN layers' = 1..(Len(layers) + 1)
    BY <1>1
  <1>3. Reached' = Reached \cup {a[1] : a \in NextArcs}
    <2>1. ASSUME NEW u \in Reached' PROVE u \in Reached \cup {a[1] : a \in NextArcs}
      <3>1. PICK i \in DOMAIN layers' : u \in layers'[i]
        BY <2>1 DEF Reached
      <3> QED
        BY <3>1, <1>2, InReached
    <2>2. ASSUME NEW u \in Reached PROVE u \in Reached'
      BY <1>2, <2>2 DEF Reached
    <2>3. \A u \in layers'[Len(layers) + 1] : u \in Reached'
      BY <1>2 DEF Reached
    <2> QED
      BY <1>2, <2>1, <2>2, <2>3
  <1> QED
    BY <1>1, <1>2, <1>3

LEMMA LayersGrow ==
    ASSUME system \in Systems, IsMatching(matches), LayersInv, NextLayer
    PROVE  LayersInv'
  <1> DEFINE new == {a[1] : a \in NextArcs}
  <1> HIDE DEF new
  <1>1. /\ Len(layers') = Len(layers) + 1 /\ Len(layers) \in Nat \ {0}
        /\ \A i \in 1..Len(layers) : layers'[i] = layers[i]
        /\ layers'[Len(layers) + 1] = new
        /\ UNCHANGED <<system, matches>>
    BY ReachedGrows DEF new
  <1>2. new \subseteq IF (Len(layers) + 1) % 2 = 1 THEN AllEqs ELSE AllVars
    BY <1>1, NextArcsType, Parity DEF new
  <1>3. \A u \in new : u \notin Reached
    BY NextArcsType DEF new
  <1>4. new \subseteq Vertices
    BY <1>2 DEF Vertices
  <1>5. /\ layers' \in Seq(SUBSET Vertices') /\ layers' # << >>
        /\ layers'[1] = UnmatchedEqs' /\ UnmatchedEqs' # {}
    <2>1. layers' = Append(layers, new)
      BY DEF NextLayer, new
    <2> QED
      BY <1>1, <1>4, <2>1, SameMatching DEF LayersInv
  <1>6. arcs' \in Seq(SUBSET (Vertices' \X Vertices')) /\ Len(arcs') + 1 = Len(layers')
    BY <1>1, NextArcsType, SameMatching DEF LayersInv, NextLayer
  <1>7. ASSUME NEW i \in DOMAIN layers'
        PROVE  layers'[i] \subseteq IF i % 2 = 1 THEN AllEqs' ELSE AllVars'
    BY <1>1, <1>2, <1>7, SameMatching, <1>5 DEF LayersInv
  <1>8. ASSUME NEW i \in DOMAIN layers', NEW j \in DOMAIN layers', NEW u \in layers'[i],
               u \in layers'[j]
        PROVE  i = j
    <2>1. i \in 1..(Len(layers) + 1) /\ j \in 1..(Len(layers) + 1) /\ DOMAIN layers = 1..Len(layers)
      BY <1>1, <1>5 DEF LayersInv
    <2>2. \A k \in 1..Len(layers) : u \in layers[k] => u \in Reached
      BY <2>1, InReached
    <2> QED
      BY <1>1, <1>3, <1>8, <2>1, <2>2 DEF LayersInv
  <1>9. ASSUME NEW i \in DOMAIN arcs', NEW a \in arcs'[i]
        PROVE  a[1] \in layers'[i + 1] /\ a[2] \in layers'[i] /\ ArcOK(i, a)'
    <2>1. arcs \in Seq(SUBSET (Vertices \X Vertices)) /\ Len(arcs) + 1 = Len(layers)
          /\ arcs' = Append(arcs, NextArcs) /\ layers \in Seq(SUBSET Vertices)
      BY DEF LayersInv, NextLayer
    <2>2. CASE i \in DOMAIN arcs
      <3>1. a \in arcs[i] /\ i \in 1..Len(layers) /\ i + 1 \in 1..Len(layers)
        BY <2>1, <2>2, <1>9
      <3>2. a[1] \in layers[i + 1] /\ a[2] \in layers[i] /\ ArcOK(i, a)
        BY <2>2, <3>1 DEF LayersInv
      <3> QED
        BY <1>1, <3>1, <3>2, SameMatching
    <2>3. CASE i \notin DOMAIN arcs
      <3>1. i = Len(layers) /\ a \in NextArcs
        BY <2>1, <2>3, <1>9
      <3>2. Last(layers) = layers'[i] /\ a[1] \in new
        BY <1>1, <3>1, <2>1 DEF Last, new
      <3> QED
        BY <1>1, <3>1, <3>2, NextArcsType, SameMatching
    <2> QED
      BY <2>2, <2>3
  <1> QED
    BY <1>5, <1>6, <1>7, <1>8, <1>9 DEF LayersInv

LEMMA ClosedGrows ==
    ASSUME system \in Systems, IsMatching(matches), LayersInv, ClosedInv, NextLayer
    PROVE  ClosedInv'
  <1> DEFINE new == {a[1] : a \in NextArcs}
  <1> HIDE DEF new
  <1>1. /\ Len(layers') = Len(layers) + 1 /\ Len(layers) \in Nat \ {0}
        /\ \A i \in 1..Len(layers) : layers'[i] = layers[i]
        /\ layers'[Len(layers) + 1] = new /\ Reached' = Reached \cup new
        /\ UNCHANGED <<system, matches>>
    BY ReachedGrows DEF new
  <1>2. Last(layers) = layers[Len(layers)] /\ Last(layers) \cap UnmatchedVars = {}
    BY DEF NextLayer, Last
  <1>3. DOMAIN layers = 1..Len(layers)
    BY DEF LayersInv
  <1>4. ASSUME NEW e \in Numbers, Eq(e) \in Last(layers)
        PROVE  Len(layers) % 2 = 1
    <2>1. Eq(e) \in IF Len(layers) % 2 = 1 THEN AllEqs ELSE AllVars
      BY <1>1, <1>2, <1>3, <1>4 DEF LayersInv
    <2> QED
      BY <2>1, VertexNames DEF AllVars
  <1>5. ASSUME NEW v \in Numbers, Var(v) \in Last(layers)
        PROVE  Len(layers) % 2 # 1
    BY <1>1, <1>2, <1>3, <1>5, VertexNames, Parity DEF LayersInv, AllEqs
  <1>6. ASSUME NEW x \in system.edges \ matches, Eq(x[1]) \in Last(layers)
        PROVE  Var(x[2]) \in Reached'
    <2>1. Len(layers) % 2 = 1
      BY <1>4, <1>6, EdgesArePairs
    <2>2. ASSUME Var(x[2]) \notin Reached PROVE Var(x[2]) \in new
      <3>1. <<Var(x[2]), Eq(x[1])>> \in NextArcs
        BY <1>6, <2>1, <2>2 DEF NextArcs
      <3> QED
        BY <3>1 DEF new
    <2> QED
      BY <1>1, <2>2
  <1>7. ASSUME NEW x \in matches, Var(x[2]) \in Last(layers)
        PROVE  Eq(x[1]) \in Reached'
    <2>1. Len(layers) % 2 # 1
      BY <1>5, <1>7, EdgesArePairs DEF IsMatching
    <2>2. ASSUME Eq(x[1]) \notin Reached PROVE Eq(x[1]) \in new
      <3>1. <<Eq(x[1]), Var(x[2])>> \in NextArcs
        BY <1>7, <2>1, <2>2 DEF NextArcs
      <3> QED
        BY <3>1 DEF new
    <2> QED
      BY <1>1, <2>2
  <1>8. ASSUME NEW i \in 1..(Len(layers') - 1)
        PROVE  /\ layers'[i] \cap UnmatchedVars' = {}
               /\ \A x \in system'.edges \ matches' :
                     Eq(x[1]) \in layers'[i] => Var(x[2]) \in Reached'
               /\ \A x \in matches' : Var(x[2]) \in layers'[i] => Eq(x[1]) \in Reached'
    <2>1. CASE i = Len(layers)
      BY <1>1, <1>2, <1>6, <1>7, <2>1, SameMatching
    <2>2. CASE i # Len(layers)
      <3>1. i \in 1..(Len(layers) - 1)
        BY <1>1, <1>8, <2>2
      <3> QED
        BY <1>1, <3>1, SameMatching DEF ClosedInv
    <2> QED
      BY <2>1, <2>2
  <1>9. ASSUME NEW i \in 2..Len(layers'), NEW e \in Numbers', Eq(e) \in layers'[i]
        PROVE  \E v \in Numbers' : <<e, v>> \in matches' /\ Var(v) \in Reached'
    <2>0. Numbers' = Numbers
      BY <1>1, SameMatching
    <2>1. CASE i = Len(layers) + 1
      <3>1. PICK a \in NextArcs : Eq(e) = a[1]
        BY <1>1, <1>9, <2>1 DEF new
      <3>2. a[2] \in Last(layers) /\ ArcOK(Len(layers), a) /\ Len(layers) % 2 # 1
        BY <3>1, NextArcsType, VertexNames DEF AllVars
      <3>3. PICK x \in matches : a = <<Eq(x[1]), Var(x[2])>>
        BY <3>2 DEF ArcOK
      <3>4. e = x[1] /\ x = <<x[1], x[2]>> /\ x[2] \in Numbers
        BY <3>1, <3>3, VertexNames, EdgesArePairs DEF IsMatching
      <3>5. Var(x[2]) \in Reached
        BY <1>1, <1>2, <1>3, <3>2, <3>3, InReached
      <3> QED
        BY <1>1, <2>0, <3>4, <3>5
    <2>2. CASE i # Len(layers) + 1
      <3>1. i \in 2..Len(layers) /\ layers'[i] = layers[i]
        BY <1>1, <1>9, <2>2
      <3> QED
        BY <1>1, <1>9, <2>0, <3>1 DEF ClosedInv
    <2> QED
      BY <2>1, <2>2
  <1> QED
    BY <1>8, <1>9 DEF ClosedInv

\* When no arcs lead on, the equations reached contain only variables that are
\* reached, and these are matched with all of the equations but some.
LEMMA NoMatchingIsSingular ==
    ASSUME system \in Systems, IsMatching(matches), LayersInv, ClosedInv, NoMatching
    PROVE  ~ HasPerfectMatching(system)
  <1>1. /\ layers \in Seq(SUBSET Vertices) /\ Len(layers) \in Nat \ {0}
        /\ DOMAIN layers = 1..Len(layers)
    BY DEF LayersInv
  <1>2. NextArcs = {} /\ Last(layers) = layers[Len(layers)]
        /\ Last(layers) \cap UnmatchedVars = {}
    BY DEF NoMatching, Last
  <1>3. ASSUME NEW x \in system.edges \ matches, Eq(x[1]) \in Reached
        PROVE  Var(x[2]) \in Reached
    <2>1. PICK i \in 1..Len(layers) : Eq(x[1]) \in layers[i]
      BY <1>1, <1>3, InReached
    <2>2. CASE i = Len(layers)
      <3>1. Len(layers) % 2 = 1
        BY <1>1, <2>1, <2>2, VertexNames, Parity DEF LayersInv, AllVars
      <3> QED
        BY <1>2, <2>1, <2>2, <3>1 DEF NextArcs
    <2>3. CASE i # Len(layers)
      BY <1>1, <2>1, <2>3 DEF ClosedInv
    <2> QED
      BY <2>2, <2>3
  <1>4. ASSUME NEW v \in Numbers, Var(v) \in Reached
        PROVE  \E e \in Numbers : Eq(e) \in Reached /\ <<e, v>> \in matches
    <2>1. PICK i \in 1..Len(layers) : Var(v) \in layers[i]
      BY <1>1, <1>4, InReached
    <2>2. Var(v) \notin UnmatchedVars
      BY <1>1, <1>2, <2>1 DEF ClosedInv
    <2>3. PICK x \in matches : Var(v) = Var(x[2])
      BY <2>2 DEF UnmatchedVars, MatchedVars
    <2>4. x[2] = v /\ x = <<x[1], x[2]>> /\ x[1] \in Numbers
      BY <2>3, VertexNames, EdgesArePairs DEF IsMatching
    <2>5. Eq(x[1]) \in Reached
      <3>1. CASE i = Len(layers)
        <4>1. Len(layers) % 2 # 1
          BY <1>1, <2>1, <3>1, VertexNames, Parity DEF LayersInv, AllEqs
        <4> QED
          BY <1>2, <2>1, <2>3, <3>1, <4>1 DEF NextArcs
      <3>2. CASE i # Len(layers)
        BY <1>1, <2>1, <2>3, <3>2 DEF ClosedInv
      <3> QED
        BY <3>1, <3>2
    <2> QED
      BY <2>4, <2>5
  <1>5. ASSUME NEW e \in Numbers, NEW v \in Numbers, <<e, v>> \in system.edges, Eq(e) \in Reached
        PROVE  Var(v) \in Reached
    <2>1. CASE <<e, v>> \notin matches
      BY <1>3, <1>5, <2>1
    <2>2. CASE <<e, v>> \in matches
      <3>1. PICK i \in 1..Len(layers) : Eq(e) \in layers[i]
        BY <1>1, <1>5, InReached
      <3>2. Eq(e) \notin UnmatchedEqs
        BY <2>2 DEF UnmatchedEqs, MatchedEqs
      <3>3. i \in 2..Len(layers)
        BY <1>1, <3>1, <3>2 DEF LayersInv
      <3>4. PICK w \in Numbers : <<e, w>> \in matches /\ Var(w) \in Reached
        BY <3>1, <3>3 DEF ClosedInv
      <3>5. w = v
        BY <2>2, <3>4 DEF IsMatching
      <3> QED
        BY <3>4, <3>5
    <2> QED
      BY <2>1, <2>2
  <1> SUFFICES ASSUME NEW f \in [1..system.n -> 1..system.n],
                      PerfectMatching({<<e, f[e]>> : e \in 1..system.n}, system)
               PROVE  FALSE
    BY DEF HasPerfectMatching
  <1>6. \A e \in Numbers : f[e] \in Numbers /\ <<e, f[e]>> \in system.edges
    BY DEF PerfectMatching, Numbers
  <1>7. ASSUME NEW e \in Numbers, NEW d \in Numbers, f[e] = f[d]
        PROVE  e = d
    <2>1. <<e, f[e]>> = <<d, f[d]>>
      BY <1>7 DEF PerfectMatching, Numbers
    <2> QED
      BY <2>1
  <1> DEFINE R == {e \in Numbers : Eq(e) \in Reached}
             g == [e \in R |-> CHOOSE d \in R : <<d, f[e]>> \in matches]
  <1>8. ASSUME NEW e \in R
        PROVE  g[e] \in R /\ <<g[e], f[e]>> \in matches
    <2>1. \E d \in R : <<d, f[e]>> \in matches
      BY <1>4, <1>5, <1>6
    <2> QED
      BY <2>1
  <1> HIDE DEF g
  <1>9. g \in Injection(R, R)
    <2>1. g \in [R -> R]
      BY <1>8 DEF g
    <2>2. ASSUME NEW e \in R, NEW d \in R, g[e] = g[d] PROVE e = d
      <3>1. <<g[e], f[e]>> \in matches /\ <<g[e], f[d]>> \in matches
        BY <1>8, <2>2
      <3>2. <<g[e], f[e]>> = <<g[e], f[d]>>
        BY <3>1 DEF IsMatching
      <3>3. f[e] = f[d]
        BY <3>2
      <3> QED
        BY <1>7, <3>3
    <2> QED
      BY <2>1, <2>2 DEF Injection, IsInjective
  <1>10. IsFiniteSet(R)
    <2>1. system.n \in Int /\ 1 \in Int
      BY EdgesArePairs
    <2>2. IsFiniteSet(Numbers)
      BY <2>1, FS_Interval DEF Numbers
    <2> QED
      BY <2>2, FS_Subset
  <1>11. g \in Surjection(R, R)
    BY <1>9, <1>10, FS_Injection
  <1>12. PICK e \in Numbers : Eq(e) \in UnmatchedEqs
    BY DEF LayersInv, UnmatchedEqs
  <1>13. e \in R /\ e \notin {x[1] : x \in matches}
    BY <1>1, <1>12, InReached DEF LayersInv, UnmatchedEqs, MatchedEqs
  <1>14. PICK d \in R : g[d] = e
    BY <1>11, <1>13 DEF Surjection
  <1>15. <<e, f[d]>> \in matches
    BY <1>8, <1>14
  <1>16. <<e, f[d]>>[1] = e
    OBVIOUS
  <1> QED
    BY <1>13, <1>15, <1>16

-----------------------------------------------------------------------------
(* The search.                                                             *)

\* The edges q are an augmenting path: with the other matches, the edges of q
\* that are not matched are a matching.
Augments(m, q) ==
    /\ q \subseteq system.edges
    /\ \A x, y \in q \ m : x[1] = y[1] \/ x[2] = y[2] => x = y
    /\ \A x \in q \ m, y \in m : x[1] = y[1] \/ x[2] = y[2] => y \in q
Apart(q, r) == \A x \in q, y \in r : x[1] # y[1] /\ x[2] # y[2]

\* Successors are ends of arcs, so the search goes down the layers.
SearchInv ==
    /\ Len(layers) % 2 = 0
    /\ successors \in [Reached \cup {Source} -> SUBSET (Reached \cup {Sink})]
    /\ successors[Source] \subseteq Last(layers) \cap UnmatchedVars
    /\ \A u \in layers[1] : successors[u] \subseteq {Sink}
    /\ \A i \in DOMAIN arcs : \A u \in layers[i + 1] : \A s \in successors[u] : <<u, s>> \in arcs[i]
PathInv ==
    /\ visited \subseteq Reached
    /\ path \in Seq(visited) /\ Len(path) <= Len(layers)
    /\ path # << >> => path[1] \in UnmatchedVars
    /\ \A k \in DOMAIN path : path[k] \in layers[(Len(layers) + 1) - k]
    /\ \A k \in 1..(Len(path) - 1) : <<path[k], path[k + 1]>> \in arcs[Len(layers) - k]
\* The paths found do not meet, and the present one meets none of them.
PathsInv ==
    /\ paths \in Seq(SUBSET system.edges)
    /\ \A j \in DOMAIN paths :
          /\ Augments(matches, paths[j])
          /\ \A x \in paths[j] : {Eq(x[1]), Var(x[2])} \subseteq visited \ ToSet(path)
          /\ \A i \in DOMAIN paths : i # j => Apart(paths[i], paths[j])

LEMMA LayersTypes ==
    ASSUME LayersInv
    PROVE  /\ Len(layers) \in Nat \ {0} /\ DOMAIN layers = 1..Len(layers)
           /\ Len(arcs) \in Nat /\ DOMAIN arcs = 1..Len(arcs) /\ Len(arcs) + 1 = Len(layers)
           /\ Last(layers) = layers[Len(layers)]
           /\ \A i \in 1..Len(layers) : layers[i] \subseteq Vertices /\ layers[i] \subseteq Reached
           /\ \A i \in 1..Len(arcs) : \A a \in arcs[i] : a = <<a[1], a[2]>>
           /\ Reached \subseteq Vertices
  <1>1. /\ layers \in Seq(SUBSET Vertices) /\ layers # << >>
        /\ arcs \in Seq(SUBSET (Vertices \X Vertices)) /\ Len(arcs) + 1 = Len(layers)
    BY DEF LayersInv
  <1>2. /\ Len(layers) \in Nat \ {0} /\ DOMAIN layers = 1..Len(layers)
        /\ Len(arcs) \in Nat /\ DOMAIN arcs = 1..Len(arcs)
        /\ \A i \in 1..Len(layers) : layers[i] \subseteq Vertices
        /\ \A i \in 1..Len(arcs) : \A a \in arcs[i] : a = <<a[1], a[2]>>
    BY <1>1
  <1> QED
    BY <1>1, <1>2, InReached DEF Last

LEMMA VerticesAreNoEnds == Source \notin Vertices /\ Sink \notin Vertices
  BY VertexNames DEF Vertices, AllEqs, AllVars

LEMMA SameLayers ==
    ASSUME UNCHANGED <<system, matches, layers, arcs>>, LayersInv
    PROVE  LayersInv' /\ Reached' = Reached
  BY SameMatching DEF LayersInv, Reached

LEMMA SearchBegins ==
    ASSUME system \in Systems, LayersInv, LayersReach
    PROVE  SearchInv' /\ PathInv' /\ PathsInv'
  <1>1. /\ UNCHANGED <<system, matches, layers, arcs>> /\ path' = << >> /\ visited' = {}
        /\ paths' = << >> /\ Last(layers) \cap UnmatchedVars # {}
    BY DEF LayersReach
  <1>2. Reached' = Reached /\ UnmatchedVars' = UnmatchedVars
    BY <1>1, SameLayers, SameMatching
  <1>3. PathInv' /\ PathsInv'
    BY <1>1, LayersTypes DEF PathInv, PathsInv
  <1> DEFINE last == Last(layers) \cap UnmatchedVars
             kept == (UNION {arcs[i] : i \in 1..(Len(arcs) - 1)})
                     \cup {a \in Last(arcs) : a[1] \in last}
  <1>4. Len(layers) % 2 = 0
    <2>1. PICK v \in Numbers : Var(v) \in Last(layers)
      BY <1>1 DEF UnmatchedVars
    <2>2. Last(layers) \subseteq IF Len(layers) % 2 = 1 THEN AllEqs ELSE AllVars
      BY LayersTypes DEF LayersInv
    <2>3. Len(layers) % 2 # 1
      BY <2>1, <2>2, VertexNames DEF AllEqs
    <2> QED
      BY <2>3, LayersTypes, Parity
  <1>5. Len(arcs) \in Nat \ {0}
    BY <1>4, LayersTypes
  <1>7. successors' =
          [u \in Reached \cup {Source} |->
             IF u = Source THEN last
             ELSE IF u \in layers[1] THEN {Sink}
             ELSE {a[2] : a \in {b \in kept : b[1] = u}}]
    BY DEF LayersReach
  <1> HIDE DEF kept
  <1>6. ASSUME NEW a \in kept
        PROVE  \E i \in 1..Len(arcs) : a \in arcs[i]
    <2>1. CASE \E i \in 1..(Len(arcs) - 1) : a \in arcs[i]
      BY <1>5, <2>1
    <2>2. CASE a \in Last(arcs)
      BY <1>5, <2>2 DEF Last
    <2>3. (\E i \in 1..(Len(arcs) - 1) : a \in arcs[i]) \/ a \in Last(arcs)
      BY <1>6 DEF kept
    <2> QED
      BY <2>1, <2>2, <2>3
  <1>8. successors' \in [Reached \cup {Source} -> SUBSET (Reached \cup {Sink})]
    <2>1. \A a \in kept : a[2] \in Reached
      <3> SUFFICES ASSUME NEW a \in kept PROVE a[2] \in Reached
        OBVIOUS
      <3>1. PICK i \in 1..Len(arcs) : a \in arcs[i]
        BY <1>6
      <3> QED
        BY <3>1, LayersTypes DEF LayersInv
    <2>2. last \subseteq Reached
      BY LayersTypes
    <2> QED
      BY <1>7, <2>1, <2>2
  <1>9. \A i \in 1..Len(layers) : \A u \in layers[i] : u \in Reached /\ u # Source
    BY LayersTypes, VerticesAreNoEnds
  <1>10. ASSUME NEW i \in 1..Len(arcs), NEW u \in layers[i + 1], NEW s \in successors'[u]
         PROVE  <<u, s>> \in arcs[i]
    <2>1. i + 1 \in 1..Len(layers) /\ i + 1 # 1 /\ 1 \in 1..Len(layers)
      BY LayersTypes
    <2>2. u \in Reached /\ u # Source /\ u \notin layers[1]
      BY <1>9, <2>1, LayersTypes DEF LayersInv
    <2>3. PICK a \in kept : a[1] = u /\ a[2] = s
      BY <1>7, <1>10, <2>2
    <2>4. PICK j \in 1..Len(arcs) : a \in arcs[j]
      BY <1>6
    <2>5. u \in layers[j + 1] /\ j + 1 \in 1..Len(layers) /\ a = <<u, s>>
      BY <2>3, <2>4, LayersTypes DEF LayersInv
    <2>6. j + 1 = i + 1
      BY <2>1, <2>5, LayersTypes DEF LayersInv
    <2> QED
      BY <2>4, <2>5, <2>6
  <1>11. \A u \in layers[1] : successors'[u] \subseteq {Sink}
    BY <1>7, <1>9, LayersTypes
  <1>12. successors'[Source] = last
    BY <1>7
  <1>13. SearchInv'
    BY <1>1, <1>2, <1>4, <1>8, <1>10, <1>11, <1>12, LayersTypes DEF SearchInv
  <1> QED
    BY <1>3, <1>13

LEMMA SearchGoesOn ==
    ASSUME LayersInv, SearchInv, PathInv, NEW s,
           UNCHANGED <<system, matches, layers, arcs>>,
           successors' = [successors EXCEPT ![Top] = @ \ {s}]
    PROVE  SearchInv'
  <1>1. \A u \in Reached \cup {Source} : successors'[u] \subseteq successors[u]
    BY DEF SearchInv
  <1>2. successors' \in [Reached \cup {Source} -> SUBSET (Reached \cup {Sink})]
    BY <1>1 DEF SearchInv
  <1>3. Reached' = Reached /\ UnmatchedVars' = UnmatchedVars
    BY SameLayers, SameMatching
  <1>4. \A u \in layers[1] : successors'[u] \subseteq {Sink}
    BY <1>1, LayersTypes DEF SearchInv
  <1>5. \A i \in DOMAIN arcs : \A u \in layers[i + 1] : \A x \in successors'[u] :
           <<u, x>> \in arcs[i]
    <2> SUFFICES ASSUME NEW i \in DOMAIN arcs, NEW u \in layers[i + 1], NEW x \in successors'[u]
                 PROVE  <<u, x>> \in arcs[i]
      OBVIOUS
    <2>1. i + 1 \in 1..Len(layers)
      BY LayersTypes
    <2>2. u \in Reached
      BY <2>1, LayersTypes
    <2> QED
      BY <1>1, <2>2 DEF SearchInv
  <1>6. successors'[Source] \subseteq Last(layers) \cap UnmatchedVars
    BY <1>1 DEF SearchInv
  <1> QED
    BY <1>2, <1>3, <1>4, <1>5, <1>6 DEF SearchInv

LEMMA FollowVisitedSearches ==
    ASSUME LayersInv, SearchInv, PathInv, PathsInv, FollowVisited
    PROVE  SearchInv' /\ PathInv' /\ PathsInv'
  <1>1. UNCHANGED <<system, matches, layers, arcs, path, visited, paths>>
    BY DEF FollowVisited
  <1>2. SearchInv'
    BY <1>1, SearchGoesOn DEF FollowVisited
  <1>3. PathInv'
    BY <1>1, SameLayers, SameMatching DEF PathInv
  <1>4. PathsInv'
    BY <1>1 DEF PathsInv, Augments, Apart, Eq, Var, ToSet
  <1> QED
    BY <1>2, <1>3, <1>4

\* The end of the path and where it goes on.
LEMMA TopLayer ==
    ASSUME LayersInv, SearchInv, PathInv, path # << >>, NEW s \in successors[Top]
    PROVE  /\ Len(path) \in Nat \ {0} /\ Top = path[Len(path)]
           /\ \/ Len(path) = Len(layers) /\ s = Sink /\ Top \in layers[1]
              \/ /\ Len(path) < Len(layers) /\ s \in layers[Len(layers) - Len(path)]
                 /\ <<Top, s>> \in arcs[Len(layers) - Len(path)]
  <1>1. Len(path) \in Nat \ {0} /\ Top = path[Len(path)] /\ DOMAIN path = 1..Len(path)
    BY DEF PathInv, Top, Last
  <1>2. Top \in layers[(Len(layers) + 1) - Len(path)] /\ Len(path) <= Len(layers)
    BY <1>1 DEF PathInv
  <1>3. CASE Len(path) = Len(layers)
    <2>1. Top \in layers[1]
      BY <1>2, <1>3, LayersTypes
    <2> QED
      BY <1>1, <1>3, <2>1 DEF SearchInv
  <1>4. CASE Len(path) < Len(layers)
    <2>1. /\ Len(layers) - Len(path) \in DOMAIN arcs
          /\ (Len(layers) - Len(path)) + 1 = (Len(layers) + 1) - Len(path)
      <3>1. Len(layers) \in Nat /\ DOMAIN arcs = 1..Len(arcs) /\ Len(arcs) + 1 = Len(layers)
            /\ Len(arcs) \in Nat
        BY LayersTypes
      <3> QED
        BY <3>1, <1>1, <1>2, <1>4
    <2>2. <<Top, s>> \in arcs[Len(layers) - Len(path)]
      BY <1>2, <2>1 DEF SearchInv
    <2>3. s \in layers[Len(layers) - Len(path)]
      <3>1. PICK a \in arcs[Len(layers) - Len(path)] : a = <<Top, s>>
        BY <2>2
      <3>2. a[2] \in layers[Len(layers) - Len(path)] /\ a[2] = s
        BY <2>1, <3>1 DEF LayersInv
      <3> QED
        BY <3>2, Zenon
    <2> QED
      BY <1>1, <1>4, <2>2, <2>3
  <1>5. Len(layers) \in Nat
    BY LayersTypes
  <1> QED
    BY <1>1, <1>2, <1>3, <1>4, <1>5

LEMMA FollowSearches ==
    ASSUME LayersInv, SearchInv, PathInv, PathsInv, Follow
    PROVE  SearchInv' /\ PathInv' /\ PathsInv'
  <1>1. PICK s \in successors[Top] :
          /\ s \notin visited /\ s # Sink
          /\ successors' = [successors EXCEPT ![Top] = @ \ {s}]
          /\ path' = Append(path, s) /\ visited' = visited \cup {s}
    BY DEF Follow
  <1>2. UNCHANGED <<system, matches, layers, arcs, paths>>
    BY DEF Follow
  <1>3. SearchInv'
    BY <1>1, <1>2, SearchGoesOn
  <1>8. path \in Seq(visited) /\ path' = Append(path, s)
    BY <1>1 DEF PathInv
  <1>9. path' \in Seq(visited') /\ path' # << >>
    BY <1>1, <1>8
  <1>4. /\ Len(path) \in Nat /\ Len(path') = Len(path) + 1
        /\ \A k \in 1..Len(path) : path'[k] = path[k]
        /\ path'[Len(path) + 1] = s
        /\ DOMAIN path = 1..Len(path) /\ DOMAIN path' = 1..(Len(path) + 1)
    BY <1>8
  <1>5. /\ s \in Reached /\ Len(path) < Len(layers) /\ s \in layers[Len(layers) - Len(path)]
        /\ path = << >> => s \in UnmatchedVars
        /\ path # << >> => <<path[Len(path)], s>> \in arcs[Len(layers) - Len(path)]
    <2>1. CASE path = << >>
      <3>1. s \in Last(layers) \cap UnmatchedVars /\ Len(path) = 0
        BY <2>1 DEF Top, SearchInv
      <3> QED
        BY <2>1, <3>1, LayersTypes
    <2>2. CASE path # << >>
      <3>1. Len(path) < Len(layers) /\ Len(path) \in Nat \ {0}
            /\ s \in layers[Len(layers) - Len(path)]
            /\ <<path[Len(path)], s>> \in arcs[Len(layers) - Len(path)]
        BY <1>1, <2>2, TopLayer
      <3>2. Len(layers) - Len(path) \in 1..Len(layers)
        BY <3>1, LayersTypes
      <3> QED
        BY <2>2, <3>1, <3>2, LayersTypes
    <2> QED
      BY <2>1, <2>2
  <1>6. PathInv'
    <2>1. visited' \subseteq Reached'
      BY <1>1, <1>2, <1>5, SameLayers DEF PathInv
    <2>2. path' \in Seq(visited') /\ Len(path') <= Len(layers')
      <3>1. Len(layers) \in Nat
        BY LayersTypes
      <3> QED
        BY <1>2, <1>4, <1>5, <1>9, <3>1
    <2>3. path' # << >> => path'[1] \in UnmatchedVars'
      <3>1. UnmatchedVars' = UnmatchedVars
        BY <1>2, SameMatching
      <3>2. CASE path = << >>
        <4>1. path'[1] = s
          BY <1>4, <3>2
        <4> QED
          BY <1>5, <3>1, <3>2, <4>1
      <3>3. CASE path # << >>
        <4>1. 1 \in 1..Len(path) /\ path[1] \in UnmatchedVars
          BY <1>4, <3>3 DEF PathInv
        <4> QED
          BY <1>4, <3>1, <4>1
      <3> QED
        BY <3>2, <3>3
    <2>4. ASSUME NEW k \in DOMAIN path'
          PROVE  path'[k] \in layers'[(Len(layers') + 1) - k]
      <3>1. CASE k = Len(path) + 1
        <4>1. Len(layers) \in Nat
          BY LayersTypes
        <4>2. (Len(layers) + 1) - k = Len(layers) - Len(path)
          BY <1>4, <3>1, <4>1
        <4>3. path'[k] = s /\ layers' = layers
          BY <1>2, <1>4, <3>1
        <4> QED
          BY <1>5, <4>2, <4>3
      <3>2. CASE k # Len(path) + 1
        <4>1. k \in 1..Len(path) /\ path'[k] = path[k] /\ layers' = layers
          BY <1>2, <1>4, <2>4, <3>2
        <4>2. k \in DOMAIN path
          BY <1>4, <4>1
        <4> QED
          BY <4>1, <4>2 DEF PathInv
      <3> QED
        BY <3>1, <3>2
    <2>5. ASSUME NEW k \in 1..(Len(path') - 1)
          PROVE  <<path'[k], path'[k + 1]>> \in arcs'[Len(layers') - k]
      <3>1. CASE k = Len(path)
        BY <1>2, <1>4, <1>5, <3>1, <2>5
      <3>2. CASE k < Len(path)
        <4>1. k \in 1..(Len(path) - 1) /\ k + 1 \in 1..Len(path)
          BY <1>4, <2>5, <3>2
        <4>2. k \in 1..Len(path) /\ path'[k] = path[k] /\ path'[k + 1] = path[k + 1]
          BY <1>4, <4>1
        <4> QED
          BY <1>2, <4>1, <4>2 DEF PathInv
      <3>3. Len(path) \in Nat /\ k \in Nat /\ k <= Len(path)
        <4>1. Len(path) \in Nat /\ Len(path') = Len(path) + 1
          BY <1>4
        <4> QED
          BY <2>5, <4>1
      <3> QED
        BY <3>1, <3>2, <3>3
    <2> QED
      BY <2>1, <2>2, <2>3, <2>4, <2>5 DEF PathInv
  <1>7. PathsInv'
    <2>1. ToSet(path') = ToSet(path) \cup {s}
      BY <1>4 DEF ToSet
    <2>2. visited \ ToSet(path) \subseteq visited' \ ToSet(path')
      BY <1>1, <2>1
    <2>3. \A j \in DOMAIN paths : \A x \in paths[j] :
             {Eq(x[1]), Var(x[2])} \subseteq visited' \ ToSet(path')
      BY <2>2 DEF PathsInv
    <2> QED
      BY <1>2, <2>3 DEF PathsInv, Augments, Apart, Eq, Var
  <1> QED
    BY <1>3, <1>6, <1>7

LEMMA BacktrackSearches ==
    ASSUME LayersInv, SearchInv, PathInv, PathsInv, Backtrack
    PROVE  SearchInv' /\ PathInv' /\ PathsInv'
  <1>1. UNCHANGED <<system, matches, layers, arcs, successors, visited, paths>>
        /\ path' = Front(path) /\ path # << >>
    BY DEF Backtrack
  <1>2. path \in Seq(visited) /\ Len(path) \in Nat \ {0} /\ DOMAIN path = 1..Len(path)
    BY <1>1 DEF PathInv
  <1>3. /\ path' \in Seq(visited) /\ Len(path') = Len(path) - 1
        /\ \A k \in 1..(Len(path) - 1) : path'[k] = path[k]
        /\ DOMAIN path' = 1..(Len(path) - 1)
    BY <1>1, <1>2 DEF Front
  <1>4. SearchInv'
    BY <1>1, SameLayers, SameMatching DEF SearchInv
  <1>5. PathInv'
    <2>1. path' # << >> => path'[1] \in UnmatchedVars'
      BY <1>1, <1>2, <1>3, SameMatching DEF PathInv
    <2>2. \A k \in 1..(Len(path') - 1) : k \in 1..(Len(path) - 1) /\ path'[k] = path[k]
                                         /\ path'[k + 1] = path[k + 1]
      BY <1>2, <1>3
    <2>3. Reached' = Reached
      BY <1>1, SameLayers
    <2>4. Len(path') <= Len(layers') /\ visited' \subseteq Reached'
      <3>1. Len(layers) \in Nat
        BY LayersTypes
      <3> QED
        BY <1>1, <1>2, <1>3, <2>3, <3>1 DEF PathInv
    <2>5. \A k \in DOMAIN path' : path'[k] \in layers'[(Len(layers') + 1) - k]
      BY <1>1, <1>2, <1>3 DEF PathInv
    <2>6. \A k \in 1..(Len(path') - 1) : <<path'[k], path'[k + 1]>> \in arcs'[Len(layers') - k]
      BY <1>1, <2>2 DEF PathInv
    <2> QED
      BY <1>1, <1>3, <2>1, <2>4, <2>5, <2>6 DEF PathInv
  <1>6. PathsInv'
    <2>1. ToSet(path') \subseteq ToSet(path)
      BY <1>2, <1>3 DEF ToSet
    <2>2. \A j \in DOMAIN paths : \A x \in paths[j] :
             {Eq(x[1]), Var(x[2])} \subseteq visited \ ToSet(path')
      BY <2>1 DEF PathsInv
    <2> QED
      BY <1>1, <2>2 DEF PathsInv, Augments, Apart, Eq, Var
  <1> QED
    BY <1>4, <1>5, <1>6

\* A path that is found leads from a variable that is not matched to an
\* equation that is not, along edges that are not matched and matched in turn.
LEMMA FoundPathAugments ==
    ASSUME system \in Systems, IsMatching(matches), LayersInv, SearchInv, PathInv, FoundPath
    PROVE  /\ Augments(matches, PathEdges(path))
           /\ \A x \in PathEdges(path) : {Eq(x[1]), Var(x[2])} \subseteq ToSet(path)
  <1> DEFINE L == Len(layers)
             Ed(i) == IF i % 2 = 1 THEN <<path[i + 1][2], path[i][2]>>
                      ELSE <<path[i][2], path[i + 1][2]>>
  <1>1. path # << >> /\ Sink \in successors[Top]
    BY VerticesAreNoEnds, LayersTypes DEF FoundPath, Top, SearchInv
  <1>2. Len(path) = L /\ Top \in layers[1] /\ Top = path[L] /\ L \in Nat \ {0}
    <2>1. \/ Len(path) = Len(layers) /\ Top \in layers[1]
          \/ Len(path) < Len(layers) /\ Sink \in layers[Len(layers) - Len(path)]
      BY <1>1, TopLayer
    <2>2. Len(path) \in Nat \ {0} /\ Top = path[Len(path)] /\ L \in Nat
      BY <1>1, TopLayer, LayersTypes
    <2>3. ASSUME Len(path) < Len(layers) PROVE Sink \notin layers[Len(layers) - Len(path)]
      <3>1. Len(layers) - Len(path) \in 1..Len(layers)
        BY <2>2, <2>3
      <3> QED
        BY <3>1, LayersTypes, VerticesAreNoEnds
    <2> QED
      BY <2>1, <2>2, <2>3
  <1>3. L % 2 = 0 /\ DOMAIN path = 1..L
    BY <1>2 DEF SearchInv, PathInv
  <1>4. /\ \A k \in 1..L : path[k] \in layers[(L + 1) - k]
        /\ \A k \in 1..(L - 1) : <<path[k], path[k + 1]>> \in arcs[L - k]
        /\ path[1] \in UnmatchedVars /\ path[L] \in UnmatchedEqs
    BY <1>1, <1>2, <1>3 DEF PathInv, LayersInv
  <1>5. ASSUME NEW i \in 1..L, NEW j \in 1..L, path[i] = path[j]
        PROVE  i = j
    <2>1. (L + 1) - i \in DOMAIN layers /\ (L + 1) - j \in DOMAIN layers
      <3>1. DOMAIN layers = 1..L
        BY LayersTypes
      <3> QED
        BY <1>2, <3>1
    <2>2. path[i] \in layers[(L + 1) - i] /\ path[i] \in layers[(L + 1) - j]
      BY <1>4, <1>5
    <2>3. (L + 1) - i = (L + 1) - j
      BY <2>1, <2>2 DEF LayersInv
    <2> QED
      BY <1>2, <2>3
  <1>6. ASSUME NEW i \in 1..(L - 1)
        PROVE  IF i % 2 = 1
               THEN /\ Ed(i) \in system.edges \ matches
                    /\ path[i] = Var(Ed(i)[2]) /\ path[i + 1] = Eq(Ed(i)[1])
               ELSE /\ Ed(i) \in matches
                    /\ path[i] = Eq(Ed(i)[1]) /\ path[i + 1] = Var(Ed(i)[2])
    <2>1. L - i \in DOMAIN arcs
      <3>1. DOMAIN arcs = 1..Len(arcs) /\ Len(arcs) + 1 = L /\ Len(arcs) \in Nat
        BY LayersTypes
      <3> QED
        BY <1>2, <3>1
    <2>2. PICK a \in arcs[L - i] : a = <<path[i], path[i + 1]>>
      BY <1>4
    <2>3. ArcOK(L - i, a)
      BY <2>1, <2>2 DEF LayersInv
    <2>4. (L - i) % 2 = 1 <=> i % 2 = 1
      BY <1>2, <1>3
    <2>5. CASE i % 2 = 1
      <3>1. PICK x \in system.edges \ matches : a = <<Var(x[2]), Eq(x[1])>>
        BY <2>3, <2>4, <2>5 DEF ArcOK
      <3>2. path[i] = Var(x[2]) /\ path[i + 1] = Eq(x[1]) /\ x = <<x[1], x[2]>>
        BY <2>2, <3>1, EdgesArePairs
      <3>3. path[i][2] = x[2] /\ path[i + 1][2] = x[1]
        BY <3>2 DEF Eq, Var
      <3>4. Ed(i) = x
        BY <2>5, <3>2, <3>3
      <3> QED
        BY <2>5, <3>2, <3>4
    <2>6. CASE i % 2 # 1
      <3>1. PICK x \in matches : a = <<Eq(x[1]), Var(x[2])>>
        BY <2>3, <2>4, <2>6 DEF ArcOK
      <3>2. path[i] = Eq(x[1]) /\ path[i + 1] = Var(x[2]) /\ x = <<x[1], x[2]>>
        BY <2>2, <3>1, EdgesArePairs DEF IsMatching
      <3>3. path[i][2] = x[1] /\ path[i + 1][2] = x[2]
        BY <3>2 DEF Eq, Var
      <3>4. Ed(i) = x
        BY <2>6, <3>2, <3>3
      <3> QED
        BY <2>6, <3>2, <3>4
    <2> QED
      BY <2>5, <2>6
  <1>7. PathEdges(path) = {Ed(i) : i \in 1..(L - 1)}
    BY <1>2 DEF PathEdges
  <1> HIDE DEF Ed
  <1>8. ASSUME NEW x \in PathEdges(path)
        PROVE  \E i \in 1..(L - 1) : x = Ed(i)
    BY <1>7, <1>8
  <1>9. ASSUME NEW x \in PathEdges(path) \ matches
        PROVE  \E i \in 1..(L - 1) : x = Ed(i) /\ i % 2 = 1
    BY <1>6, <1>8
  <1>10. PathEdges(path) \subseteq system.edges
    BY <1>6, <1>8 DEF IsMatching
  <1>11. ASSUME NEW x \in PathEdges(path) \ matches, NEW y \in PathEdges(path) \ matches,
                x[1] = y[1] \/ x[2] = y[2]
         PROVE  x = y
    <2>1. PICK i \in 1..(L - 1) : x = Ed(i) /\ i % 2 = 1
      BY <1>9
    <2>2. PICK j \in 1..(L - 1) : y = Ed(j) /\ j % 2 = 1
      BY <1>9
    <2>3. path[i] = path[j] \/ path[i + 1] = path[j + 1]
      BY <1>6, <1>11, <2>1, <2>2
    <2>4. i \in 1..L /\ j \in 1..L /\ i + 1 \in 1..L /\ j + 1 \in 1..L
      BY <1>2
    <2>5. i = j
      BY <1>5, <2>3, <2>4
    <2> QED
      BY <2>1, <2>2, <2>5
  <1>12. ASSUME NEW x \in PathEdges(path) \ matches, NEW y \in matches,
                x[1] = y[1] \/ x[2] = y[2]
         PROVE  y \in PathEdges(path)
    <2>1. PICK i \in 1..(L - 1) : x = Ed(i) /\ i % 2 = 1
      BY <1>9
    <2>2. path[i] = Var(x[2]) /\ path[i + 1] = Eq(x[1])
      BY <1>6, <2>1
    <2>3. CASE x[2] = y[2]
      <3>1. path[i] \notin UnmatchedVars
        BY <2>2, <2>3 DEF UnmatchedVars, MatchedVars
      <3>2. i - 1 \in 1..(L - 1) /\ (i - 1) % 2 # 1 /\ (i - 1) + 1 = i
        <4>1. i # 1
          BY <1>4, <3>1
        <4> QED
          BY <1>2, <2>1, <4>1
      <3>3. Ed(i - 1) \in matches /\ path[i] = Var(Ed(i - 1)[2])
        BY <1>6, <3>2
      <3>4. Ed(i - 1)[2] = y[2]
        BY <2>2, <2>3, <3>3, VertexNames
      <3>5. Ed(i - 1) = y
        BY <3>3, <3>4 DEF IsMatching
      <3> QED
        BY <1>7, <3>2, <3>5
    <2>4. CASE x[1] = y[1]
      <3>1. path[i + 1] \notin UnmatchedEqs
        BY <2>2, <2>4 DEF UnmatchedEqs, MatchedEqs
      <3>2. i + 1 \in 1..(L - 1) /\ (i + 1) % 2 # 1
        <4>1. i + 1 # L
          BY <1>4, <3>1
        <4> QED
          BY <1>2, <2>1, <4>1
      <3>3. Ed(i + 1) \in matches /\ path[i + 1] = Eq(Ed(i + 1)[1])
        BY <1>6, <3>2
      <3>4. Ed(i + 1)[1] = y[1]
        BY <2>2, <2>4, <3>3, VertexNames
      <3>5. Ed(i + 1) = y
        BY <3>3, <3>4 DEF IsMatching
      <3> QED
        BY <1>7, <3>2, <3>5
    <2> QED
      BY <1>12, <2>3, <2>4
  <1>13. ASSUME NEW x \in PathEdges(path)
         PROVE  {Eq(x[1]), Var(x[2])} \subseteq ToSet(path)
    <2>1. PICK i \in 1..(L - 1) : x = Ed(i)
      BY <1>8
    <2>2. {Eq(x[1]), Var(x[2])} = {path[i], path[i + 1]}
      BY <1>6, <2>1
    <2>3. i \in 1..L /\ i + 1 \in 1..L
      BY <1>2
    <2> QED
      BY <1>3, <2>2, <2>3 DEF ToSet
  <1> QED
    BY <1>10, <1>11, <1>12, <1>13 DEF Augments

LEMMA FoundPathSearches ==
    ASSUME system \in Systems, IsMatching(matches), LayersInv, SearchInv, PathInv, PathsInv,
           FoundPath
    PROVE  SearchInv' /\ PathInv' /\ PathsInv'
  <1> DEFINE q == PathEdges(path)
  <1>1. UNCHANGED <<system, matches, layers, arcs, visited>> /\ path' = << >>
        /\ paths' = Append(paths, q)
        /\ successors' = [successors EXCEPT ![Top] = @ \ {Sink}]
    BY DEF FoundPath
  <1>2. /\ Augments(matches, q)
        /\ \A x \in q : {Eq(x[1]), Var(x[2])} \subseteq ToSet(path)
    BY FoundPathAugments
  <1> HIDE DEF q
  <1>3. SearchInv'
    BY <1>1, SearchGoesOn
  <1>4. PathInv'
    BY <1>1, SameLayers, LayersTypes DEF PathInv
  <1>5. ToSet(path) \subseteq visited /\ ToSet(path') = {}
    BY <1>1 DEF PathInv, ToSet
  <1>6. paths \in Seq(SUBSET system.edges) /\ q \in SUBSET system.edges
    BY <1>2 DEF PathsInv, Augments
  <1>7. paths' \in Seq(SUBSET system'.edges)
    BY <1>1, <1>6
  <1>8. /\ Len(paths) \in Nat /\ DOMAIN paths = 1..Len(paths)
        /\ DOMAIN paths' = 1..(Len(paths) + 1) /\ paths'[Len(paths) + 1] = q
        /\ \A j \in 1..Len(paths) : paths'[j] = paths[j]
    BY <1>1, <1>6
  <1>9. ASSUME NEW j \in 1..Len(paths)
        PROVE  Apart(paths[j], q) /\ Apart(q, paths[j])
    <2>1. \A x \in paths[j] : {Eq(x[1]), Var(x[2])} \cap ToSet(path) = {}
      BY <1>8 DEF PathsInv
    <2>2. \A x \in paths[j], y \in q : Eq(x[1]) # Eq(y[1]) /\ Var(x[2]) # Var(y[2])
      BY <1>2, <2>1
    <2> QED
      BY <2>2 DEF Apart
  <1>10. ASSUME NEW j \in DOMAIN paths'
         PROVE  /\ Augments(matches, paths'[j])
                /\ \A x \in paths'[j] : {Eq(x[1]), Var(x[2])} \subseteq visited
    <2>1. CASE j \in 1..Len(paths)
      BY <1>8, <2>1 DEF PathsInv
    <2>2. CASE j \notin 1..Len(paths)
      <3>1. paths'[j] = q
        BY <1>8, <1>10, <2>2
      <3> QED
        BY <1>2, <1>5, <3>1
    <2> QED
      BY <2>1, <2>2
  <1>11. ASSUME NEW i \in DOMAIN paths', NEW j \in DOMAIN paths', i # j
         PROVE  Apart(paths'[i], paths'[j])
    <2>1. CASE i \in 1..Len(paths) /\ j \in 1..Len(paths)
      BY <1>8, <1>11, <2>1 DEF PathsInv
    <2>2. CASE i \in 1..Len(paths) /\ j \notin 1..Len(paths)
      <3>1. paths'[j] = q /\ paths'[i] = paths[i]
        BY <1>8, <1>11, <2>2
      <3> QED
        BY <1>9, <2>2, <3>1
    <2>3. CASE i \notin 1..Len(paths) /\ j \in 1..Len(paths)
      <3>1. paths'[i] = q /\ paths'[j] = paths[j]
        BY <1>8, <1>11, <2>3
      <3> QED
        BY <1>9, <2>3, <3>1
    <2>4. CASE i \notin 1..Len(paths) /\ j \notin 1..Len(paths)
      BY <1>8, <1>11, <2>4
    <2> QED
      BY <2>1, <2>2, <2>3, <2>4
  <1>12. \A p : Augments(matches, p)' <=> Augments(matches, p)
    BY <1>1 DEF Augments
  <1>13. \A j \in DOMAIN paths' : \A x \in paths'[j] :
            {Eq(x[1]), Var(x[2])} \subseteq visited' \ ToSet(path')
    BY <1>1, <1>5, <1>10
  <1>14. PathsInv'
    BY <1>1, <1>7, <1>10, <1>11, <1>12, <1>13 DEF PathsInv, Augments
  <1> QED
    BY <1>3, <1>4, <1>14

-----------------------------------------------------------------------------
(* The paths found are toggled one after the other.                        *)

LEMMA ToggledIsMatching ==
    ASSUME NEW m, NEW q, IsMatching(m), Augments(m, q)
    PROVE  IsMatching(Toggled(m, q))
  <1>1. Toggled(m, q) \subseteq system.edges
    BY DEF Toggled, IsMatching, Augments
  <1>2. ASSUME NEW x \in Toggled(m, q), NEW y \in Toggled(m, q), x[1] = y[1] \/ x[2] = y[2]
        PROVE  x = y
    <2>1. CASE x \in m \ q /\ y \in m \ q
      BY <1>2, <2>1 DEF IsMatching
    <2>2. CASE x \in q \ m /\ y \in q \ m
      BY <1>2, <2>2 DEF Augments
    <2>3. ~ (x \in m \ q /\ y \in q \ m) /\ ~ (x \in q \ m /\ y \in m \ q)
      BY <1>2 DEF Augments
    <2> QED
      BY <2>1, <2>2, <2>3 DEF Toggled
  <1> QED
    BY <1>1, <1>2 DEF IsMatching

LEMMA ToggledStillAugments ==
    ASSUME NEW m, NEW q, NEW r, Augments(m, q), Augments(m, r), Apart(q, r)
    PROVE  Augments(Toggled(m, q), r)
  <1>1. \A x \in r : x \notin q
    BY DEF Apart
  <1>2. r \ Toggled(m, q) = r \ m
    BY <1>1 DEF Toggled
  <1>3. ASSUME NEW x \in r \ m, NEW y \in Toggled(m, q), x[1] = y[1] \/ x[2] = y[2]
        PROVE  y \in r
    <2>1. y \notin q
      BY <1>3 DEF Apart
    <2> QED
      BY <1>3, <2>1 DEF Toggled, Augments
  <1> QED
    BY <1>2, <1>3 DEF Augments

\* The matches after each path.
LEMMA ToggledInTurn ==
    ASSUME Len(paths) \in Nat
    PROVE  \E m : /\ m[0] = matches /\ m[Len(paths)] = Augmented
                  /\ \A i \in 1..Len(paths) : m[i] = Toggled(m[i - 1], paths[i])
  <1> DEFINE N == Len(paths)
             In(f, n) == /\ f[0] = matches
                         /\ \A i \in 1..n : f[i] = Toggled(f[i - 1], paths[i])
             T == {n \in Nat : n <= N => \E f : In(f, n)}
  <1>1. 0 \in T
    <2>1. In([i \in {0} |-> matches], 0)
      OBVIOUS
    <2> QED
      BY <2>1
  <1>2. ASSUME NEW n \in Nat, n \in T PROVE n + 1 \in T
    <2> SUFFICES ASSUME n + 1 <= N PROVE \E f : In(f, n + 1)
      OBVIOUS
    <2>1. PICK f : In(f, n)
      BY <1>2
    <2> DEFINE g == [i \in 0..(n + 1) |->
                       IF i = n + 1 THEN Toggled(f[n], paths[n + 1]) ELSE f[i]]
    <2>2. g[0] = matches
      BY <2>1
    <2>3. ASSUME NEW i \in 1..(n + 1) PROVE g[i] = Toggled(g[i - 1], paths[i])
      <3>1. CASE i = n + 1
        BY <3>1
      <3>2. CASE i # n + 1
        <4>1. i \in 1..n /\ i - 1 \in 0..n
          BY <3>2
        <4>2. g[i] = f[i] /\ g[i - 1] = f[i - 1]
          BY <4>1
        <4> QED
          BY <2>1, <4>1, <4>2
      <3> QED
        BY <3>1, <3>2
    <2> QED
      BY <2>2, <2>3
  <1>3. N \in T
    <2> HIDE DEF T
    <2> QED
      BY <1>1, <1>2, Induct
  <1>4. PICK f : In(f, N)
    BY <1>3
  <1> DEFINE Fcn(m) == m = [i \in 0..N |-> IF i = 0 THEN matches ELSE Toggled(m[i - 1], paths[i])]
             h == [i \in 0..N |-> f[i]]
             c == CHOOSE m : Fcn(m)
  <1>5. Fcn(h)
    <2>1. ASSUME NEW i \in 0..N
          PROVE  f[i] = IF i = 0 THEN matches ELSE Toggled(h[i - 1], paths[i])
      <3>1. CASE i = 0
        BY <1>4, <3>1
      <3>2. CASE i # 0
        <4>1. i \in 1..N /\ i - 1 \in 0..N
          BY <3>2
        <4> QED
          BY <1>4, <4>1
      <3> QED
        BY <3>1, <3>2
    <2> QED
      BY <2>1
  <1>6. Fcn(c)
    <2> HIDE DEF h, Fcn
    <2> QED
      BY <1>5
  <1>7. Augmented = c[N]
    BY DEF Augmented
  <1>8. c[0] = matches /\ \A i \in 1..N : c[i] = Toggled(c[i - 1], paths[i])
    <2> HIDE DEF c
    <2> QED
      BY <1>6
  <1> HIDE DEF c
  <1> QED
    BY <1>7, <1>8

LEMMA AugmentedIsMatching ==
    ASSUME IsMatching(matches), PathsInv
    PROVE  IsMatching(Augmented)
  <1> DEFINE N == Len(paths)
  <1>1. N \in Nat /\ DOMAIN paths = 1..N
    BY DEF PathsInv
  <1>2. PICK m : /\ m[0] = matches /\ m[N] = Augmented
                 /\ \A i \in 1..N : m[i] = Toggled(m[i - 1], paths[i])
    BY <1>1, ToggledInTurn
  <1> DEFINE T == {n \in Nat : n <= N =>
                     IsMatching(m[n]) /\ \A j \in (n + 1)..N : Augments(m[n], paths[j])}
  <1>3. 0 \in T
    BY <1>1, <1>2 DEF PathsInv
  <1>4. ASSUME NEW n \in Nat, n \in T PROVE n + 1 \in T
    <2> SUFFICES ASSUME n + 1 <= N
                 PROVE  /\ IsMatching(m[n + 1])
                        /\ \A j \in (n + 2)..N : Augments(m[n + 1], paths[j])
      OBVIOUS
    <2>1. n + 1 \in 1..N /\ m[n + 1] = Toggled(m[n], paths[n + 1])
      BY <1>1, <1>2
    <2>2. IsMatching(m[n]) /\ \A j \in (n + 1)..N : Augments(m[n], paths[j])
      BY <1>1, <1>4
    <2>3. Augments(m[n], paths[n + 1])
      BY <1>1, <2>2
    <2>4. IsMatching(m[n + 1])
      BY <2>1, <2>2, <2>3, ToggledIsMatching
    <2>5. ASSUME NEW j \in (n + 2)..N PROVE Augments(m[n + 1], paths[j])
      <3>1. j \in 1..N /\ j \in (n + 1)..N /\ j # n + 1
        BY <1>1
      <3>2. Apart(paths[n + 1], paths[j]) /\ Augments(m[n], paths[j])
        BY <1>1, <2>1, <2>2, <3>1 DEF PathsInv
      <3> QED
        BY <2>1, <2>3, <3>2, ToggledStillAugments
    <2> QED
      BY <2>4, <2>5
  <1>5. N \in T
    <2> HIDE DEF T
    <2> QED
      BY <1>1, <1>3, <1>4, Induct
  <1> QED
    BY <1>1, <1>2, <1>5

-----------------------------------------------------------------------------
(* The matching is perfect, or there is none.                              *)

MatchInv ==
    /\ system \in Systems
    /\ place \in {"match", "layers", "search", "scc", "components", "singular"}
          => IsMatching(matches)
    /\ place \in {"layers", "search"} => LayersInv
    /\ place = "layers" => ClosedInv
    /\ place = "search" => SearchInv /\ PathInv /\ PathsInv
    /\ MatchingIsPerfect

LEMMA MatchBegins == GraphInit => MatchInv
  BY DEF GraphInit, MatchInv, IsMatching, MatchingIsPerfect

LEMMA MatchingStays ==
    ASSUME UNCHANGED <<system, matches>>
    PROVE  /\ IsMatching(matches)' <=> IsMatching(matches)
           /\ PerfectMatching(matches, system)' <=> PerfectMatching(matches, system)
           /\ HasPerfectMatching(system)' <=> HasPerfectMatching(system)
  BY DEF IsMatching, PerfectMatching, HasPerfectMatching

\* When all equations are matched, the matching is perfect.
LEMMA AllMatchedIsPerfect ==
    ASSUME system \in Systems, IsMatching(matches), UnmatchedEqs = {}
    PROVE  PerfectMatching(matches, system)
  <1>1. ASSUME NEW e \in 1..system.n
        PROVE  \E v \in 1..system.n : <<e, v>> \in matches
    <2>1. Eq(e) \in MatchedEqs
      BY DEF UnmatchedEqs, Numbers
    <2>2. PICK x \in matches : Eq(e) = Eq(x[1])
      BY <2>1 DEF MatchedEqs
    <2>3. x[1] = e /\ x = <<x[1], x[2]>> /\ x[2] \in Numbers
      BY <2>2, VertexNames, EdgesArePairs DEF IsMatching
    <2> QED
      BY <2>3 DEF Numbers
  <1> QED
    BY <1>1 DEF PerfectMatching, IsMatching

LEMMA SearchStays ==
    ASSUME MatchInv, FollowVisited \/ Follow \/ FoundPath \/ Backtrack
    PROVE  MatchInv'
  <1>1. place = "search" /\ UNCHANGED <<system, place, matches, layers, arcs>>
    BY DEF FollowVisited, Follow, FoundPath, Backtrack
  <1>2. system \in Systems /\ IsMatching(matches) /\ LayersInv /\ SearchInv /\ PathInv /\ PathsInv
    BY <1>1 DEF MatchInv
  <1>3. SearchInv' /\ PathInv' /\ PathsInv'
    BY <1>2, FollowVisitedSearches, FollowSearches, FoundPathSearches, BacktrackSearches
  <1>4. LayersInv' /\ IsMatching(matches)'
    BY <1>1, <1>2, SameLayers, MatchingStays
  <1> QED
    BY <1>1, <1>2, <1>3, <1>4 DEF MatchInv, MatchingIsPerfect

LEMMA MatchStays ==
    ASSUME MatchInv, GraphNext
    PROVE  MatchInv'
  <1>0. system \in Systems
    BY DEF MatchInv
  <1>1. CASE StartPhase
    <2>1. /\ place = "match" /\ place' = "layers" /\ UNCHANGED <<system, matches>>
      BY <1>1 DEF StartPhase
    <2>2. IsMatching(matches)' /\ LayersInv' /\ ClosedInv'
      BY <1>0, <1>1, <2>1, FirstLayer, MatchingStays DEF MatchInv
    <2> QED
      BY <1>0, <2>1, <2>2 DEF MatchInv, MatchingIsPerfect
  <1>2. CASE NextLayer
    <2>1. /\ place = "layers" /\ place' = "layers" /\ UNCHANGED <<system, matches>>
      BY <1>2 DEF NextLayer
    <2>2. IsMatching(matches) /\ LayersInv /\ ClosedInv
      BY <2>1 DEF MatchInv
    <2>3. IsMatching(matches)' /\ LayersInv' /\ ClosedInv'
      BY <1>0, <1>2, <2>1, <2>2, LayersGrow, ClosedGrows, MatchingStays
    <2> QED
      BY <1>0, <2>1, <2>3 DEF MatchInv, MatchingIsPerfect
  <1>3. CASE NoMatching
    <2>1. /\ place = "layers" /\ place' = "singular" /\ UNCHANGED <<system, matches>>
      BY <1>3 DEF NoMatching, matchVars
    <2>2. IsMatching(matches) /\ LayersInv /\ ClosedInv
      BY <2>1 DEF MatchInv
    <2>3. IsMatching(matches)' /\ ~ HasPerfectMatching(system)'
      BY <1>0, <1>3, <2>1, <2>2, NoMatchingIsSingular, MatchingStays
    <2> QED
      BY <1>0, <2>1, <2>3 DEF MatchInv, MatchingIsPerfect
  <1>4. CASE LayersReach
    <2>1. /\ place = "layers" /\ place' = "search"
          /\ UNCHANGED <<system, matches, layers, arcs>>
      BY <1>4 DEF LayersReach
    <2>2. IsMatching(matches) /\ LayersInv
      BY <2>1 DEF MatchInv
    <2>3. IsMatching(matches)' /\ LayersInv' /\ SearchInv' /\ PathInv' /\ PathsInv'
      BY <1>0, <1>4, <2>1, <2>2, SearchBegins, SameLayers, MatchingStays
    <2> QED
      BY <1>0, <2>1, <2>3 DEF MatchInv, MatchingIsPerfect
  <1>5. CASE FollowVisited \/ Follow \/ FoundPath \/ Backtrack
    BY <1>5, SearchStays
  <1>6. CASE Augment
    <2>1. /\ place = "search" /\ place' = "match" /\ system' = system /\ matches' = Augmented
      BY <1>6 DEF Augment
    <2>2. IsMatching(Augmented)
      BY <2>1, AugmentedIsMatching DEF MatchInv
    <2>3. IsMatching(matches)'
      BY <2>1, <2>2 DEF IsMatching
    <2> QED
      BY <1>0, <2>1, <2>3 DEF MatchInv, MatchingIsPerfect
  <1>7. CASE StartScc
    <2>1. /\ place = "match" /\ place' = "scc" /\ UNCHANGED <<system, matches>>
          /\ UnmatchedEqs = {}
      BY <1>7 DEF StartScc, matchVars
    <2>2. IsMatching(matches)
      BY <2>1 DEF MatchInv
    <2>3. IsMatching(matches)' /\ PerfectMatching(matches, system)'
      BY <1>0, <2>1, <2>2, AllMatchedIsPerfect, MatchingStays
    <2> QED
      BY <1>0, <2>1, <2>3 DEF MatchInv, MatchingIsPerfect
  <1>8. CASE Root \/ TreeArc \/ OtherArc \/ Return \/ EndScc
    <2>1. /\ place = "scc" /\ place' \in {"scc", "components"} /\ UNCHANGED <<system, matches>>
      BY <1>8 DEF Root, TreeArc, OtherArc, Return, EndScc, Connect, matchVars
    <2>2. IsMatching(matches) /\ PerfectMatching(matches, system)
      BY <2>1 DEF MatchInv, MatchingIsPerfect
    <2>3. IsMatching(matches)' /\ PerfectMatching(matches, system)'
      BY <2>1, <2>2, MatchingStays
    <2> QED
      BY <1>0, <2>1, <2>3 DEF MatchInv, MatchingIsPerfect
  <1> QED
    BY <1>1, <1>2, <1>3, <1>4, <1>5, <1>6, <1>7, <1>8 DEF GraphNext

-----------------------------------------------------------------------------
(* Paths along the arcs.                                                   *)

Along(s, k) == \A i \in 1..k : s[i] \in Arcs(s[i - 1])
Reaches(x, y) ==
    \E k \in Nat : \E s \in [0..k -> matches] : s[0] = x /\ s[k] = y /\ Along(s, k)

LEMMA SameArcs ==
    ASSUME UNCHANGED <<system, matches>>
    PROVE  /\ \A x : Arcs(x)' = Arcs(x)
           /\ \A x, y : Reaches(x, y)' <=> Reaches(x, y)
  <1>1. \A x : Arcs(x)' = Arcs(x)
    BY DEF Arcs
  <1>2. \A s, k : Along(s, k)' <=> Along(s, k)
    BY DEF Arcs, Along
  <1> QED
    BY <1>1, <1>2 DEF Reaches

LEMMA ReachesItself ==
    ASSUME NEW x \in matches
    PROVE  Reaches(x, x)
  <1> DEFINE s == [i \in 0..0 |-> x]
  <1>1. s \in [0..0 -> matches] /\ s[0] = x /\ Along(s, 0)
    BY DEF Along
  <1> QED
    BY <1>1 DEF Reaches

LEMMA ReachesFurther ==
    ASSUME NEW x, NEW y, NEW z, Reaches(x, y), Reaches(y, z)
    PROVE  Reaches(x, z)
  <1>0. PICK k \in Nat : \E s \in [0..k -> matches] : s[0] = x /\ s[k] = y /\ Along(s, k)
    BY DEF Reaches
  <1>1. PICK s \in [0..k -> matches] : s[0] = x /\ s[k] = y /\ Along(s, k)
    BY <1>0
  <1>7. PICK l \in Nat : \E t \in [0..l -> matches] : t[0] = y /\ t[l] = z /\ Along(t, l)
    BY DEF Reaches
  <1>2. PICK t \in [0..l -> matches] : t[0] = y /\ t[l] = z /\ Along(t, l)
    BY <1>7
  <1> DEFINE u == [i \in 0..(k + l) |-> IF i <= k THEN s[i] ELSE t[i - k]]
  <1>3. u \in [0..(k + l) -> matches] /\ u[0] = x
    BY <1>1, <1>2
  <1>4. u[k + l] = z
    BY <1>1, <1>2
  <1>5. ASSUME NEW i \in 1..(k + l) PROVE u[i] \in Arcs(u[i - 1])
    <2>1. CASE i <= k
      <3>1. u[i] = s[i] /\ u[i - 1] = s[i - 1] /\ i \in 1..k
        BY <2>1
      <3> QED
        BY <1>1, <3>1 DEF Along
    <2>2. CASE i > k
      <3>1. i - k \in 1..l /\ u[i] = t[i - k] /\ (i - 1) - k = (i - k) - 1
        BY <2>2
      <3>2. u[i - 1] = t[(i - k) - 1]
        <4>1. CASE i = k + 1
          <5>1. i - 1 = k /\ (i - k) - 1 = 0
            BY <4>1
          <5> QED
            BY <1>1, <1>2, <5>1
        <4>2. CASE i > k + 1
          BY <3>1, <4>2
        <4> QED
          BY <2>2, <4>1, <4>2
      <3> QED
        BY <1>2, <3>1, <3>2 DEF Along
    <2> QED
      BY <2>1, <2>2
  <1> HIDE DEF u
  <1>6. k + l \in Nat /\ Along(u, k + l)
    BY <1>5 DEF Along
  <1> QED
    BY <1>3, <1>4, <1>6 DEF Reaches

LEMMA ReachesNext ==
    ASSUME NEW x \in matches, NEW y \in Arcs(x)
    PROVE  Reaches(x, y)
  <1> DEFINE s == [i \in 0..1 |-> IF i = 0 THEN x ELSE y]
  <1>1. y \in matches
    BY DEF Arcs
  <1>2. s \in [0..1 -> matches] /\ s[0] = x /\ s[1] = y
    BY <1>1
  <1>3. Along(s, 1)
    BY <1>2 DEF Along
  <1> HIDE DEF s
  <1> QED
    BY <1>2, <1>3 DEF Reaches

-----------------------------------------------------------------------------
(* The invariant of _strong_connect.                                       *)

Numbered == {x \in matches : number[x] # 0}
Finished == UNION {components[i] : i \in DOMAIN components}
OnStack  == {stack[i] : i \in DOMAIN stack}
At(k) == calls[k].vertex
\* Frame k is the last one with a vertex that is not numbered after y.
Under(k, y) ==
    /\ number[At(k)] <= number[y]
    /\ k < Len(calls) => number[y] < number[At(k + 1)]
\* The arc from x to y is done.
Taken(x, y) == \A k \in DOMAIN calls : At(k) = x => y \notin calls[k].todo

SccTypes ==
    /\ number \in [matches -> Nat] /\ lowlink \in [matches -> Nat]
    /\ stack \in Seq(matches) /\ calls \in Seq([vertex : matches, todo : SUBSET matches])
\* The numbers are those of the stack, where they increase, and of the blocks.
NumberInv ==
    /\ \A x \in matches : number[x] <= Cardinality(Numbered)
    /\ \A x, y \in Numbered : number[x] = number[y] => x = y
    /\ \A x \in matches : number[x] # 0 <=> x \in OnStack \cup Finished
    /\ OnStack \cap Finished = {}
    /\ \A i, j \in DOMAIN stack : i < j => number[stack[i]] < number[stack[j]]
\* The frames are on the stack, each reaches the later ones, and every vertex
\* on the stack comes after a frame.
CallInv ==
    /\ \A k \in DOMAIN calls : At(k) \in OnStack /\ calls[k].todo \subseteq Arcs(At(k))
    /\ \A i, j \in DOMAIN calls : i < j => number[At(i)] < number[At(j)] /\ Reaches(At(i), At(j))
    /\ \A y \in OnStack : \E k \in DOMAIN calls : Under(k, y)
\* The lowlinks account for the arcs that are done.
ArcInv ==
    \A x \in Numbered : \A y \in Arcs(x) : Taken(x, y) =>
        /\ number[y] # 0
        /\ x \in OnStack /\ y \in OnStack /\ number[y] < number[x] => lowlink[x] <= number[y]
\* A lowlink is the number of a vertex on the stack that is reached; a frame
\* has taken over those of the vertices after it, and is reached by them.
LowInv ==
    /\ \A x \in OnStack :
          /\ lowlink[x] <= number[x]
          /\ \E z \in OnStack : number[z] = lowlink[x] /\ Reaches(x, z)
    /\ \A k \in DOMAIN calls : \A y \in OnStack : Under(k, y) =>
          /\ Reaches(At(k), y) /\ Reaches(y, At(k))
          /\ lowlink[At(k)] <= lowlink[y]
\* The blocks are disjoint, their vertices reach each other, and their arcs lead
\* to the same or an earlier block.
BlocksInv ==
    /\ components \in Seq(SUBSET matches)
    /\ \A i, j \in DOMAIN components : i # j => components[i] \cap components[j] = {}
    /\ \A i \in DOMAIN components : \A x, y \in components[i] : Reaches(x, y)
    /\ \A i \in DOMAIN components : \A x \in components[i] : \A y \in Arcs(x) :
          \E j \in 1..i : y \in components[j]

SccInv == SccTypes /\ NumberInv /\ CallInv /\ ArcInv /\ LowInv /\ BlocksInv

LEMMA MatchesFinite ==
    ASSUME system \in Systems, matches \subseteq system.edges
    PROVE  IsFiniteSet(matches)
  <1>1. system.n \in Int /\ 1 \in Int /\ system.edges \subseteq (1..system.n) \X (1..system.n)
    BY SystemsAssumption
  <1>2. IsFiniteSet(1..system.n)
    BY <1>1, FS_Interval
  <1>3. IsFiniteSet((1..system.n) \X (1..system.n))
    BY <1>2, FS_Product
  <1>4. matches \in SUBSET ((1..system.n) \X (1..system.n))
    BY <1>1
  <1> QED
    BY <1>3, <1>4, FS_Subset

LEMMA SccFacts ==
    ASSUME SccInv
    PROVE  /\ Len(stack) \in Nat /\ DOMAIN stack = 1..Len(stack)
           /\ Len(calls) \in Nat /\ DOMAIN calls = 1..Len(calls)
           /\ \A k \in 1..Len(calls) : At(k) \in matches /\ At(k) \in OnStack
           /\ OnStack \subseteq matches /\ OnStack \subseteq Numbered
           /\ \A x \in matches : number[x] \in Nat /\ lowlink[x] \in Nat
           /\ Finished \subseteq matches /\ Finished \subseteq Numbered
           /\ \A y : y \in Finished <=> \E i \in DOMAIN components : y \in components[i]
           /\ Numbered \subseteq matches
  <1>1. stack \in Seq(matches) /\ calls \in Seq([vertex : matches, todo : SUBSET matches])
    BY DEF SccInv, SccTypes
  <1>2. Len(stack) \in Nat /\ DOMAIN stack = 1..Len(stack)
        /\ Len(calls) \in Nat /\ DOMAIN calls = 1..Len(calls)
    BY <1>1
  <1>3. \A i \in 1..Len(stack) : stack[i] \in matches
    BY <1>1
  <1>4. OnStack \subseteq matches
    BY <1>2, <1>3 DEF OnStack
  <1>5. \A k \in 1..Len(calls) : At(k) \in OnStack
    BY <1>2 DEF SccInv, CallInv
  <1>6. \A x \in matches : number[x] \in Nat /\ lowlink[x] \in Nat
    BY DEF SccInv, SccTypes
  <1>7. components \in Seq(SUBSET matches)
    BY DEF SccInv, BlocksInv
  <1>8. \A y : y \in Finished <=> \E i \in DOMAIN components : y \in components[i]
    BY DEF Finished
  <1>9. Finished \subseteq matches
    BY <1>7, <1>8
  <1>10. OnStack \subseteq Numbered /\ Finished \subseteq Numbered /\ Numbered \subseteq matches
    BY <1>4, <1>9 DEF SccInv, NumberInv, Numbered
  <1> QED
    BY <1>2, <1>4, <1>5, <1>6, <1>8, <1>9, <1>10

\* _strong_connect gives x the next number and puts it on the stack.
LEMMA ConnectNumbers ==
    ASSUME SccInv, IsFiniteSet(matches), NEW x \in matches, number[x] = 0, Connect(x)
    PROVE  /\ number' \in [matches' -> Nat] /\ stack' \in Seq(matches')
           /\ OnStack' = OnStack \cup {x} /\ x \notin OnStack /\ x \notin Finished
           /\ Finished' = Finished /\ Numbered' = Numbered \cup {x} /\ x \notin Numbered
           /\ UNCHANGED <<system, matches, components>>
           /\ \A y \in matches : y # x => number'[y] = number[y] /\ number'[y] < number'[x]
           /\ number'[x] \in Nat \ {0}
           /\ NumberInv'
  <1> DEFINE c == Cardinality(Numbered)
  <1>1. UNCHANGED <<system, matches, components>> /\ stack' = Append(stack, x)
        /\ number' = [number EXCEPT ![x] = 1 + c]
    BY DEF Connect, Numbered, matchVars
  <1>2. IsFiniteSet(Numbered) /\ c \in Nat
    BY SccFacts, FS_Subset, FS_CardinalityType
  <1> HIDE DEF c
  <1>3. number \in [matches -> Nat] /\ stack \in Seq(matches)
    BY DEF SccInv, SccTypes
  <1>4. /\ number' \in [matches -> Nat] /\ number'[x] = 1 + c
        /\ \A y \in matches : y # x => number'[y] = number[y]
    BY <1>1, <1>2, <1>3
  <1>5. x \notin Numbered /\ x \notin OnStack /\ x \notin Finished
    BY SccFacts DEF Numbered
  <1>6. Numbered' = Numbered \cup {x}
    BY <1>1, <1>2, <1>4 DEF Numbered
  <1>7. Cardinality(Numbered') = c + 1
    BY <1>2, <1>5, <1>6, FS_AddElement DEF c
  <1>8. \A y \in matches : number[y] \in Nat /\ number[y] <= c
    BY <1>3 DEF SccInv, NumberInv, c
  <1>9. /\ stack' \in Seq(matches) /\ DOMAIN stack' = 1..(Len(stack) + 1) /\ Len(stack) \in Nat
        /\ stack'[Len(stack) + 1] = x /\ DOMAIN stack = 1..Len(stack)
        /\ \A i \in 1..Len(stack) : stack'[i] = stack[i] /\ stack[i] \in matches
    BY <1>1, <1>3
  <1>10. OnStack' = OnStack \cup {x}
    <2>1. ASSUME NEW y \in OnStack' PROVE y \in OnStack \cup {x}
      <3>1. PICK i \in 1..(Len(stack) + 1) : y = stack'[i]
        BY <1>9, <2>1 DEF OnStack
      <3> QED
        BY <1>9, <3>1 DEF OnStack
    <2>2. ASSUME NEW y \in OnStack PROVE y \in OnStack'
      <3>1. PICK i \in 1..Len(stack) : y = stack[i]
        BY <1>9, <2>2 DEF OnStack
      <3>2. i \in 1..(Len(stack) + 1) /\ y = stack'[i]
        BY <1>9, <3>1
      <3> QED
        BY <1>9, <3>2 DEF OnStack
    <2>3. x \in OnStack'
      <3>1. Len(stack) + 1 \in 1..(Len(stack) + 1)
        BY <1>9
      <3> QED
        BY <1>9, <3>1 DEF OnStack
    <2> QED
      BY <2>1, <2>2, <2>3
  <1>11. Finished' = Finished
    BY <1>1 DEF Finished
  <1>12. NumberInv'
    <2>1. \A y \in matches' : number'[y] <= Cardinality(Numbered')
      BY <1>1, <1>2, <1>4, <1>7, <1>8
    <2>2. ASSUME NEW y \in Numbered', NEW z \in Numbered', number'[y] = number'[z]
          PROVE  y = z
      <3>1. CASE y # x /\ z # x
        BY <1>4, <1>6, <2>2, <3>1, SccFacts DEF SccInv, NumberInv
      <3>2. CASE y = x /\ z # x
        <4>1. z \in matches /\ number[z] <= c /\ number[z] = 1 + c /\ number[z] \in Nat
          BY <1>4, <1>6, <1>8, <2>2, <3>2, SccFacts
        <4> QED
          BY <1>2, <4>1
      <3>3. CASE y # x /\ z = x
        <4>1. y \in matches /\ number[y] <= c /\ number[y] = 1 + c /\ number[y] \in Nat
          BY <1>4, <1>6, <1>8, <2>2, <3>3, SccFacts
        <4> QED
          BY <1>2, <4>1
      <3> QED
        BY <3>1, <3>2, <3>3
    <2>3. \A y \in matches' : number'[y] # 0 <=> y \in OnStack' \cup Finished'
      <3> SUFFICES ASSUME NEW y \in matches
                   PROVE  number'[y] # 0 <=> y \in OnStack' \cup Finished'
        BY <1>1
      <3>1. CASE y = x
        BY <1>2, <1>4, <1>10, <3>1
      <3>2. CASE y # x
        BY <1>4, <1>10, <1>11, <3>2 DEF SccInv, NumberInv
      <3> QED
        BY <3>1, <3>2
    <2>4. OnStack' \cap Finished' = {}
      BY <1>5, <1>10, <1>11 DEF SccInv, NumberInv
    <2>5. ASSUME NEW i \in DOMAIN stack', NEW j \in DOMAIN stack', i < j
          PROVE  number'[stack'[i]] < number'[stack'[j]]
      <3>1. i \in 1..Len(stack) /\ stack'[i] = stack[i] /\ stack[i] \in matches /\ stack[i] # x
        BY <1>5, <1>9, <2>5 DEF OnStack
      <3>2. CASE j = Len(stack) + 1
        <4>1. number'[stack'[i]] = number[stack[i]] /\ number'[stack'[j]] = 1 + c
          BY <1>4, <1>9, <3>1, <3>2
        <4> QED
          BY <1>2, <1>8, <3>1, <4>1
      <3>3. CASE j \in 1..Len(stack)
        <4>1. stack'[j] = stack[j] /\ stack[j] \in matches /\ stack[j] # x
          BY <1>5, <1>9, <3>3 DEF OnStack
        <4>2. number[stack[i]] < number[stack[j]]
          BY <1>9, <2>5, <3>1, <3>3 DEF SccInv, NumberInv
        <4> QED
          BY <1>4, <3>1, <4>1, <4>2
      <3> QED
        BY <1>9, <2>5, <3>2, <3>3
    <2> QED
      BY <2>1, <2>2, <2>3, <2>4, <2>5 DEF NumberInv
  <1>13. \A y \in matches : y # x => number'[y] = number[y] /\ number'[y] < number'[x]
    BY <1>2, <1>4, <1>8
  <1>14. number'[x] \in Nat \ {0}
    BY <1>2, <1>4
  <1> QED
    BY <1>1, <1>4, <1>5, <1>6, <1>9, <1>10, <1>11, <1>12, <1>13, <1>14

LEMMA NumberOrder ==
    ASSUME SccInv
    PROVE  /\ \A x, y \in OnStack : number[x] = number[y] => x = y
           /\ \A i, j \in 1..Len(calls) : number[At(i)] < number[At(j)] <=> i < j
           /\ \A i, j \in 1..Len(calls) : number[At(i)] <= number[At(j)] <=> i <= j
           /\ \A k \in 1..Len(calls) : \A j \in 1..Len(calls) : Under(k, At(j)) => k = j
           /\ \A i, j \in 1..Len(calls) : i <= j => Reaches(At(i), At(j))
  <1>1. \A x, y \in OnStack : number[x] = number[y] => x = y
    BY SccFacts DEF SccInv, NumberInv
  <1>2. \A i, j \in 1..Len(calls) : i < j => number[At(i)] < number[At(j)] /\ Reaches(At(i), At(j))
    BY SccFacts DEF SccInv, CallInv
  <1>3. \A k \in 1..Len(calls) : number[At(k)] \in Nat /\ At(k) \in matches
    BY SccFacts
  <1>4. \A i, j \in 1..Len(calls) : number[At(i)] < number[At(j)] <=> i < j
    BY <1>2, <1>3
  <1>5. \A i, j \in 1..Len(calls) : number[At(i)] <= number[At(j)] <=> i <= j
    BY <1>2, <1>3
  <1>6. ASSUME NEW k \in 1..Len(calls), NEW j \in 1..Len(calls), Under(k, At(j))
        PROVE  k = j
    <2>1. k <= j
      BY <1>5, <1>6 DEF Under
    <2>2. k < Len(calls) => j < k + 1
      BY <1>4, <1>6, SccFacts DEF Under
    <2> QED
      BY <2>1, <2>2
  <1>7. \A i, j \in 1..Len(calls) : i <= j => Reaches(At(i), At(j))
    BY <1>2, <1>3, ReachesItself
  <1> QED
    BY <1>1, <1>4, <1>5, <1>6, <1>7

\* A call for the vertex y, from the present one if there is one.
LEMMA CallBegins ==
    ASSUME SccInv, IsFiniteSet(matches), NEW y \in matches, number[y] = 0, Connect(y),
           lowlink' = [lowlink EXCEPT ![y] = number'[y]],
           NEW n, n = Len(calls), calls' \in Seq([vertex : matches, todo : SUBSET matches]),
           Len(calls') = n + 1, calls'[n + 1] = [vertex |-> y, todo |-> Arcs(y)],
           \A k \in 1..n : /\ calls'[k].vertex = calls[k].vertex
                           /\ calls'[k].todo \subseteq calls[k].todo
                           /\ calls[k].todo \subseteq calls'[k].todo \cup {y},
           n > 0 => y \in Arcs(At(n))
    PROVE  SccInv'
  <1>1. /\ number' \in [matches' -> Nat] /\ stack' \in Seq(matches')
        /\ OnStack' = OnStack \cup {y} /\ y \notin OnStack /\ y \notin Finished
        /\ Finished' = Finished /\ Numbered' = Numbered \cup {y} /\ y \notin Numbered
        /\ UNCHANGED <<system, matches, components>>
        /\ \A x \in matches : x # y => number'[x] = number[x] /\ number'[x] < number'[y]
        /\ number'[y] \in Nat \ {0}
        /\ NumberInv'
    BY ConnectNumbers
  <1>2. /\ n \in Nat /\ DOMAIN calls = 1..n /\ DOMAIN calls' = 1..(n + 1)
        /\ \A k \in 1..n : At(k)' = At(k) /\ At(k) \in OnStack /\ At(k) # y
        /\ At(n + 1)' = y
    BY <1>1, SccFacts DEF At
  <1>3. /\ \A x : Arcs(x)' = Arcs(x)
        /\ \A u, v : Reaches(u, v)' <=> Reaches(u, v)
    BY <1>1, SameArcs
  <1>4. /\ OnStack \subseteq matches
        /\ \A x \in OnStack : x # y /\ number'[x] = number[x] /\ lowlink'[x] = lowlink[x]
        /\ lowlink' \in [matches -> Nat] /\ lowlink'[y] = number'[y]
        /\ \A x \in matches : number[x] \in Nat /\ lowlink[x] \in Nat
        /\ \A x \in matches : x # y => lowlink'[x] = lowlink[x]
    BY <1>1, SccFacts DEF SccInv, SccTypes
  <1>5. SccTypes'
    BY <1>1, <1>4 DEF SccTypes
  <1>6. ASSUME NEW k \in 1..(n + 1), NEW x \in OnStack, Under(k, x)'
        PROVE  k \in 1..n /\ Under(k, x)
    <2>1. k # n + 1
      <3>1. number'[x] < number'[y] /\ number'[x] \in Nat
        BY <1>1, <1>4
      <3> QED
        BY <1>1, <1>2, <1>6, <3>1 DEF Under
    <2>2. k \in 1..n /\ number[At(k)] <= number[x]
      BY <1>2, <1>4, <1>6, <2>1 DEF Under
    <2>3. k < n => number[x] < number[At(k + 1)]
      BY <1>2, <1>4, <1>6, <2>2 DEF Under
    <2> QED
      BY <2>2, <2>3 DEF Under
  <1>7. ASSUME NEW k \in 1..n, NEW x \in OnStack, Under(k, x)
        PROVE  Under(k, x)'
    <2>1. number'[At(k)'] <= number'[x]
      BY <1>2, <1>4, <1>7 DEF Under
    <2>2. CASE k < n
      <3>1. k + 1 \in 1..n /\ number[x] < number[At(k + 1)]
        BY <1>2, <1>7, <2>2 DEF Under
      <3>2. number'[x] < number'[At(k + 1)']
        BY <1>2, <1>4, <3>1
      <3> QED
        BY <2>1, <3>2 DEF Under
    <2>3. CASE k = n
      BY <1>1, <1>2, <1>4, <2>1, <2>3 DEF Under
    <2> QED
      BY <1>2, <2>2, <2>3
  <1>8. CallInv'
    <2>1. ASSUME NEW k \in DOMAIN calls'
          PROVE  At(k)' \in OnStack' /\ calls'[k].todo \subseteq Arcs(At(k))'
      <3>1. CASE k = n + 1
        BY <1>1, <1>2, <1>3, <3>1
      <3>2. CASE k \in 1..n
        BY <1>1, <1>2, <1>3, <3>2 DEF SccInv, CallInv
      <3> QED
        BY <1>2, <3>1, <3>2
    <2>2. ASSUME NEW i \in DOMAIN calls', NEW j \in DOMAIN calls', i < j
          PROVE  number'[At(i)'] < number'[At(j)'] /\ Reaches(At(i), At(j))'
      <3>1. i \in 1..n /\ n > 0
        BY <1>2, <2>2
      <3>2. CASE j = n + 1
        <4>1. Reaches(At(i), At(n)) /\ At(n) \in matches
          BY <1>2, <3>1, NumberOrder, SccFacts
        <4>2. Reaches(At(n), y)
          BY <3>1, <4>1, ReachesNext
        <4>3. Reaches(At(i), y)
          BY <4>1, <4>2, ReachesFurther
        <4> QED
          BY <1>1, <1>2, <1>3, <1>4, <3>1, <3>2, <4>3
      <3>3. CASE j \in 1..n
        <4>1. number[At(i)] < number[At(j)] /\ Reaches(At(i), At(j))
          BY <1>2, <2>2, <3>1, <3>3 DEF SccInv, CallInv
        <4> QED
          BY <1>2, <1>3, <1>4, <3>1, <3>3, <4>1
      <3> QED
        BY <1>2, <2>2, <3>2, <3>3
    <2>3. ASSUME NEW x \in OnStack' PROVE \E k \in DOMAIN calls' : Under(k, x)'
      <3>1. CASE x = y
        <4>1. Under(n + 1, y)'
          BY <1>1, <1>2 DEF Under
        <4>2. n + 1 \in DOMAIN calls'
          BY <1>2
        <4> QED
          BY <3>1, <4>1, <4>2
      <3>2. CASE x \in OnStack
        <4>1. PICK k \in DOMAIN calls : Under(k, x)
          BY <3>2 DEF SccInv, CallInv
        <4> QED
          BY <1>2, <1>7, <3>2, <4>1
      <3> QED
        BY <1>1, <2>3, <3>1, <3>2
    <2> QED
      BY <2>1, <2>2, <2>3 DEF CallInv
  <1>9. ArcInv'
    <2> SUFFICES ASSUME NEW u \in Numbered', NEW v \in Arcs(u), Taken(u, v)'
                 PROVE  /\ number'[v] # 0
                        /\ u \in OnStack' /\ v \in OnStack' /\ number'[v] < number'[u]
                              => lowlink'[u] <= number'[v]
      BY <1>3 DEF ArcInv
    <2>1. u # y
      BY <1>2 DEF Taken
    <2>2. u \in Numbered /\ u \in matches /\ v \in matches
      BY <1>1, <2>1, SccFacts DEF Arcs
    <2>3. CASE v = y
      BY <1>1, <1>4, <2>1, <2>2, <2>3
    <2>4. CASE v # y
      <3>1. Taken(u, v)
        <4> SUFFICES ASSUME NEW k \in 1..n, At(k) = u PROVE v \notin calls[k].todo
          BY <1>2 DEF Taken
        <4>1. v \notin calls'[k].todo
          BY <1>2 DEF Taken
        <4> QED
          BY <2>4, <4>1
      <3>2. /\ number[v] # 0
            /\ u \in OnStack /\ v \in OnStack /\ number[v] < number[u]
                  => lowlink[u] <= number[v]
        BY <2>2, <3>1 DEF SccInv, ArcInv
      <3> QED
        BY <1>1, <1>4, <2>1, <2>2, <2>4, <3>2
    <2> QED
      BY <2>3, <2>4
  <1>10. LowInv'
    <2>1. ASSUME NEW x \in OnStack'
          PROVE  /\ lowlink'[x] <= number'[x]
                 /\ \E z \in OnStack' : number'[z] = lowlink'[x] /\ Reaches(x, z)'
      <3>1. CASE x = y
        BY <1>1, <1>3, <1>4, <3>1, ReachesItself
      <3>2. CASE x \in OnStack
        <4>1. PICK z \in OnStack : number[z] = lowlink[x] /\ Reaches(x, z)
          BY <3>2 DEF SccInv, LowInv
        <4>2. lowlink[x] <= number[x]
          BY <3>2 DEF SccInv, LowInv
        <4> QED
          BY <1>1, <1>3, <1>4, <3>2, <4>1, <4>2
      <3> QED
        BY <1>1, <2>1, <3>1, <3>2
    <2>2. ASSUME NEW k \in DOMAIN calls', NEW x \in OnStack', Under(k, x)'
          PROVE  /\ Reaches(At(k), x)' /\ Reaches(x, At(k))'
                 /\ lowlink'[At(k)'] <= lowlink'[x]
      <3>1. CASE x = y
        <4>1. k = n + 1
          <5>1. ASSUME k \in 1..n PROVE FALSE
            <6>1. number'[y] < number'[At(k + 1)']
              BY <1>2, <2>2, <3>1, <5>1 DEF Under
            <6>2. At(k + 1)' \in matches
              <7>1. k + 1 \in 1..n \/ k + 1 = n + 1
                BY <1>2, <5>1
              <7> QED
                BY <1>2, <1>4, <7>1
            <6>3. number'[At(k + 1)'] \in Nat /\ (At(k + 1)' = y \/ number'[At(k + 1)'] < number'[y])
              BY <1>1, <6>2
            <6> QED
              BY <1>1, <6>1, <6>3
          <5> QED
            BY <1>2, <2>2, <5>1
        <4>2. Reaches(y, y)
          BY ReachesItself
        <4> QED
          BY <1>1, <1>2, <1>3, <1>4, <3>1, <4>1, <4>2
      <3>2. CASE x \in OnStack
        <4>1. k \in 1..n /\ Under(k, x)
          BY <1>2, <1>6, <2>2, <3>2
        <4>2. Reaches(At(k), x) /\ Reaches(x, At(k)) /\ lowlink[At(k)] <= lowlink[x]
          BY <1>2, <3>2, <4>1 DEF SccInv, LowInv
        <4> QED
          BY <1>2, <1>3, <1>4, <3>2, <4>1, <4>2
      <3> QED
        BY <1>1, <2>2, <3>1, <3>2
    <2> QED
      BY <2>1, <2>2 DEF LowInv
  <1>11. BlocksInv'
    BY <1>1, <1>3 DEF SccInv, BlocksInv
  <1> QED
    BY <1>1, <1>5, <1>8, <1>9, <1>10, <1>11 DEF SccInv

LEMMA FrontOf ==
    ASSUME NEW S, NEW s \in Seq(S), s # << >>
    PROVE  /\ Len(s) \in Nat \ {0} /\ DOMAIN s = 1..Len(s) /\ Last(s) = s[Len(s)]
           /\ Last(s) \in S /\ Len(s) \in DOMAIN s
           /\ Front(s) \in Seq(S) /\ Len(Front(s)) = Len(s) - 1
           /\ \A k \in 1..(Len(s) - 1) : Front(s)[k] = s[k]
  <1>1. Len(s) \in Nat \ {0} /\ DOMAIN s = 1..Len(s)
    OBVIOUS
  <1>2. Len(s) \in DOMAIN s /\ s[Len(s)] \in S /\ Last(s) = s[Len(s)]
    BY <1>1 DEF Last
  <1>3. /\ Front(s) \in Seq(S) /\ Len(Front(s)) = Len(s) - 1
        /\ \A k \in 1..(Len(s) - 1) : Front(s)[k] = s[k]
    BY <1>1 DEF Front
  <1> QED
    BY <1>1, <1>2, <1>3

LEMMA AppendOf ==
    ASSUME NEW S, NEW s \in Seq(S), NEW e \in S
    PROVE  /\ Append(s, e) \in Seq(S) /\ Len(Append(s, e)) = Len(s) + 1
           /\ DOMAIN Append(s, e) = 1..(Len(s) + 1) /\ Append(s, e)[Len(s) + 1] = e
           /\ \A k \in 1..Len(s) : Append(s, e)[k] = s[k]
  OBVIOUS

LEMMA AppendTwo ==
    ASSUME NEW S, NEW s \in Seq(S), NEW d \in S, NEW e \in S
    PROVE  s \o <<d, e>> = Append(Append(s, d), e)
  OBVIOUS

Frames == [vertex : matches, todo : SUBSET matches]

LEMMA RootConnects ==
    ASSUME SccInv, IsFiniteSet(matches), Root
    PROVE  SccInv'
  <1>1. PICK x \in matches : /\ number[x] = 0 /\ Connect(x)
                             /\ lowlink' = [lowlink EXCEPT ![x] = number'[x]]
                             /\ calls' = <<[vertex |-> x, todo |-> Arcs(x)]>>
    BY DEF Root
  <1>2. calls = << >> /\ Arcs(x) \in SUBSET matches
    BY DEF Root, Arcs
  <1>3. Len(calls) = 0 /\ Len(calls') = 0 + 1 /\ calls'[0 + 1] = [vertex |-> x, todo |-> Arcs(x)]
        /\ calls' \in Seq([vertex : matches, todo : SUBSET matches])
    BY <1>1, <1>2
  <1>4. \A k \in 1..0 : FALSE
    OBVIOUS
  <1> DEFINE n == 0
  <1>5. n = Len(calls) /\ Len(calls') = n + 1
        /\ calls'[n + 1] = [vertex |-> x, todo |-> Arcs(x)]
    BY <1>3
  <1>6. \A k \in 1..n : /\ calls'[k].vertex = calls[k].vertex
                         /\ calls'[k].todo \subseteq calls[k].todo
                         /\ calls[k].todo \subseteq calls'[k].todo \cup {x}
    BY <1>4
  <1>7. n > 0 => x \in Arcs(At(n))
    OBVIOUS
  <1> HIDE DEF n
  <1> QED
    BY <1>1, <1>3, <1>5, <1>6, <1>7, CallBegins

LEMMA TreeArcConnects ==
    ASSUME SccInv, IsFiniteSet(matches), TreeArc
    PROVE  SccInv'
  <1> DEFINE n == Len(calls)
  <1>1. PICK y \in Frame.todo :
          /\ number[y] = 0 /\ Connect(y) /\ lowlink' = [lowlink EXCEPT ![y] = number'[y]]
          /\ calls' = Front(calls) \o <<FrameTaken(y), [vertex |-> y, todo |-> Arcs(y)]>>
    BY DEF TreeArc
  <1>2. calls \in Seq(Frames) /\ calls # << >>
    BY DEF TreeArc, SccInv, SccTypes, Frames
  <1>3. n \in Nat \ {0} /\ DOMAIN calls = 1..n /\ Frame = calls[n] /\ n \in DOMAIN calls
        /\ Frame \in Frames
    BY <1>2, FrontOf DEF Frame
  <1>4. y \in Arcs(At(n)) /\ y \in matches
    BY <1>1, <1>3 DEF SccInv, CallInv, Arcs
  <1>6. /\ FrameTaken(y) \in Frames
        /\ FrameTaken(y).vertex = Frame.vertex /\ FrameTaken(y).todo = Frame.todo \ {y}
    BY <1>3 DEF FrameTaken, Frames
  <1> DEFINE new == [vertex |-> y, todo |-> Arcs(y)]
  <1>7. new \in Frames
    BY <1>4 DEF Arcs, Frames
  <1>8. /\ Front(calls) \in Seq(Frames) /\ Len(Front(calls)) = n - 1
        /\ \A k \in 1..(n - 1) : Front(calls)[k] = calls[k]
    BY <1>2, FrontOf
  <1>12. calls' = Front(calls) \o <<FrameTaken(y), new>>
    BY <1>1
  <1> HIDE DEF new
  <1>9. /\ calls' \in Seq(Frames)
        /\ Len(calls') = n + 1 /\ calls'[n + 1] = new /\ calls'[n] = FrameTaken(y)
        /\ \A k \in 1..(n - 1) : calls'[k] = calls[k]
    <2> DEFINE c == Append(Front(calls), FrameTaken(y))
    <2>1. calls' = Append(c, new)
      BY <1>6, <1>7, <1>8, <1>12, AppendTwo
    <2>2. /\ c \in Seq(Frames) /\ Len(c) = (n - 1) + 1 /\ c[(n - 1) + 1] = FrameTaken(y)
          /\ \A k \in 1..(n - 1) : c[k] = Front(calls)[k]
      BY <1>6, <1>8, AppendOf
    <2> HIDE DEF c
    <2>3. Len(c) = n /\ c[n] = FrameTaken(y) /\ n \in 1..n
      BY <1>3, <2>2
    <2>4. /\ calls' \in Seq(Frames) /\ Len(calls') = n + 1 /\ calls'[n + 1] = new
          /\ \A k \in 1..n : calls'[k] = c[k]
      BY <1>7, <2>1, <2>2, <2>3, AppendOf
    <2>5. \A k \in 1..(n - 1) : k \in 1..n
      BY <1>3
    <2> QED
      BY <1>8, <2>2, <2>3, <2>4, <2>5
  <1>10. \A k \in 1..n : /\ calls'[k].vertex = calls[k].vertex
                         /\ calls'[k].todo \subseteq calls[k].todo
                         /\ calls[k].todo \subseteq calls'[k].todo \cup {y}
    BY <1>3, <1>6, <1>9
  <1>11. calls'[n + 1] = [vertex |-> y, todo |-> Arcs(y)]
         /\ calls' \in Seq([vertex : matches, todo : SUBSET matches])
    BY <1>9 DEF new, Frames
  <1> QED
    BY <1>1, <1>4, <1>9, <1>10, <1>11, CallBegins

\* An arc to a vertex that is numbered lowers the lowlink only as far as the
\* number of a vertex on the stack.
LEMMA OtherArcCounts ==
    ASSUME SccInv, OtherArc
    PROVE  SccInv'
  <1> DEFINE n == Len(calls)
             x == At(n)
  <1>1. PICK y \in Frame.todo :
          /\ number[y] # 0
          /\ calls' = Append(Front(calls), FrameTaken(y))
          /\ lowlink' = IF number[y] < number[Frame.vertex] /\ Counts(y)
                        THEN [lowlink EXCEPT ![Frame.vertex] = Lower(@, number[y])]
                        ELSE lowlink
    BY DEF OtherArc
  <1>2. calls \in Seq(Frames) /\ calls # << >>
        /\ UNCHANGED <<system, matches, number, stack, components>>
    BY DEF OtherArc, SccInv, SccTypes, matchVars, Frames
  <1>3. n \in Nat \ {0} /\ DOMAIN calls = 1..n /\ Frame = calls[n] /\ n \in DOMAIN calls
        /\ Frame \in Frames /\ Frame.vertex = x
    BY <1>2, FrontOf DEF Frame, At
  <1>4. y \in Arcs(x) /\ y \in matches /\ x \in matches /\ x \in OnStack
    BY <1>1, <1>3, SccFacts DEF SccInv, CallInv, Arcs
  <1>6. /\ FrameTaken(y) \in Frames
        /\ FrameTaken(y).vertex = Frame.vertex /\ FrameTaken(y).todo = Frame.todo \ {y}
    BY <1>3 DEF FrameTaken, Frames
  <1>7. /\ Front(calls) \in Seq(Frames) /\ Len(Front(calls)) = n - 1
        /\ \A k \in 1..(n - 1) : Front(calls)[k] = calls[k]
    BY <1>2, FrontOf
  <1>8. /\ calls' \in Seq(Frames) /\ Len(calls') = n /\ calls'[n] = FrameTaken(y)
        /\ DOMAIN calls' = 1..n /\ \A k \in 1..(n - 1) : calls'[k] = calls[k]
    <2>1. /\ calls' \in Seq(Frames) /\ Len(calls') = (n - 1) + 1
          /\ calls'[(n - 1) + 1] = FrameTaken(y) /\ DOMAIN calls' = 1..((n - 1) + 1)
          /\ \A k \in 1..(n - 1) : calls'[k] = Front(calls)[k]
      BY <1>1, <1>6, <1>7, AppendOf
    <2>2. (n - 1) + 1 = n
      BY <1>3
    <2>3. \A k \in 1..(n - 1) : calls'[k] = calls[k]
      BY <1>7, <2>1
    <2> HIDE DEF n
    <2> QED
      BY <2>1, <2>2, <2>3
  <1>9. \A k \in 1..n : /\ At(k)' = At(k)
                        /\ calls'[k].todo \subseteq calls[k].todo
                        /\ \A v \in calls[k].todo : v \in calls'[k].todo \/ (k = n /\ v = y)
    <2> SUFFICES ASSUME NEW k \in 1..n
                 PROVE  /\ calls'[k].vertex = calls[k].vertex
                        /\ calls'[k].todo \subseteq calls[k].todo
                        /\ \A v \in calls[k].todo : v \in calls'[k].todo \/ (k = n /\ v = y)
      BY DEF At
    <2>1. CASE k = n
      BY <1>3, <1>6, <1>8, <2>1
    <2>2. CASE k < n
      <3>1. k \in 1..(n - 1)
        BY <1>3, <2>2
      <3> QED
        BY <1>8, <3>1
    <2>3. n \in Nat
      BY <1>3
    <2>4. k = n \/ k < n
      BY <2>3
    <2> HIDE DEF n
    <2> QED
      BY <2>1, <2>2, <2>4
  <1>10. Counts(y) <=> y \in OnStack
    BY SccFacts DEF Counts, Contains, OnStack
  <1> HIDE DEF x
  <1>11. /\ \A u \in matches : number[u] \in Nat /\ lowlink[u] \in Nat
         /\ lowlink \in [matches -> Nat]
    BY DEF SccInv, SccTypes
  <1>12. /\ lowlink' \in [matches -> Nat] /\ \A u \in matches : u # x => lowlink'[u] = lowlink[u]
         /\ lowlink'[x] <= lowlink[x]
         /\ number[y] < number[x] /\ y \in OnStack => lowlink'[x] <= number[y]
         /\ lowlink'[x] = lowlink[x] \/ (lowlink'[x] = number[y] /\ y \in OnStack)
    BY <1>1, <1>3, <1>4, <1>10, <1>11 DEF Lower
  <1>13. /\ \A u : Arcs(u)' = Arcs(u)
         /\ \A u, v : Reaches(u, v)' <=> Reaches(u, v)
         /\ OnStack' = OnStack /\ Numbered' = Numbered /\ Finished' = Finished
    BY <1>2, SameArcs DEF OnStack, Numbered, Finished
  <1>14. \A k \in 1..n : \A u : Under(k, u)' <=> Under(k, u)
    <2> SUFFICES ASSUME NEW k \in 1..n, NEW u PROVE Under(k, u)' <=> Under(k, u)
      OBVIOUS
    <2>0. Len(calls') = n /\ Len(calls) = n /\ n \in Nat /\ number' = number /\ At(k)' = At(k)
      BY <1>2, <1>3, <1>8, <1>9
    <2>1. CASE k = n
      <3>1. ~ (k < n)
        BY <2>0, <2>1
      <3> QED
        BY <2>0, <3>1 DEF Under
    <2>2. CASE k < n
      <3>1. k + 1 \in 1..n
        BY <1>3, <2>2
      <3>2. At(k + 1)' = At(k + 1)
        BY <1>9, <3>1
      <3> QED
        BY <2>0, <3>2 DEF Under
    <2> QED
      BY <2>0, <2>1, <2>2
  <1>15. SccTypes' /\ NumberInv' /\ BlocksInv'
    BY <1>2, <1>8, <1>12, <1>13 DEF SccInv, SccTypes, NumberInv, BlocksInv, Frames
  <1>16. CallInv'
    <2>1. \A k \in 1..n : At(k)' \in OnStack /\ calls'[k].todo \subseteq Arcs(At(k))
      BY <1>3, <1>9 DEF SccInv, CallInv
    <2>2. \A i, j \in 1..n : i < j => number[At(i)'] < number[At(j)'] /\ Reaches(At(i), At(j))
      BY <1>3, <1>9 DEF SccInv, CallInv
    <2>3. \A u \in OnStack : \E k \in 1..n : Under(k, u)'
      BY <1>3, <1>14 DEF SccInv, CallInv
    <2> QED
      BY <1>2, <1>8, <1>9, <1>13, <2>1, <2>2, <2>3 DEF CallInv
  <1>17. ArcInv'
    <2> SUFFICES ASSUME NEW u \in Numbered, NEW v \in Arcs(u), Taken(u, v)'
                 PROVE  /\ number[v] # 0
                        /\ u \in OnStack /\ v \in OnStack /\ number[v] < number[u]
                              => lowlink'[u] <= number[v]
      BY <1>2, <1>13 DEF ArcInv
    <2>0. u \in matches /\ v \in matches
      BY SccFacts DEF Arcs
    <2>1. CASE Taken(u, v)
      <3>1. /\ number[v] # 0
            /\ u \in OnStack /\ v \in OnStack /\ number[v] < number[u]
                  => lowlink[u] <= number[v]
        BY <2>1 DEF SccInv, ArcInv
      <3>2. lowlink'[u] <= lowlink[u] /\ lowlink'[u] \in Nat
        BY <1>11, <1>12, <2>0
      <3> QED
        BY <1>11, <2>0, <3>1, <3>2
    <2>2. CASE ~ Taken(u, v)
      <3>1. PICK k \in 1..n : At(k) = u /\ v \in calls[k].todo
        BY <1>3, <2>2 DEF Taken
      <3>2. v \notin calls'[k].todo
        BY <1>8, <1>9, <3>1 DEF Taken
      <3>3. u = x /\ v = y
        BY <1>9, <3>1, <3>2 DEF x
      <3> QED
        BY <1>1, <1>12, <3>3
    <2> QED
      BY <2>1, <2>2
  <1>18. LowInv'
    <2>1. ASSUME NEW u \in OnStack
          PROVE  /\ lowlink'[u] <= number[u]
                 /\ \E z \in OnStack : number[z] = lowlink'[u] /\ Reaches(u, z)
      <3>1. lowlink[u] <= number[u] /\ \E z \in OnStack : number[z] = lowlink[u] /\ Reaches(u, z)
        BY DEF SccInv, LowInv
      <3>2. u \in matches /\ lowlink'[u] \in Nat
        BY <1>12, SccFacts
      <3>3. CASE u # x
        BY <1>12, <3>1, <3>2, <3>3
      <3>4. CASE u = x
        <4>1. lowlink'[u] <= number[u]
          BY <1>11, <1>12, <3>1, <3>2, <3>4
        <4>2. Reaches(x, y)
          BY <1>4, ReachesNext
        <4> QED
          BY <1>12, <3>1, <3>4, <4>1, <4>2
      <3> QED
        BY <3>3, <3>4
    <2>2. ASSUME NEW k \in 1..n, NEW u \in OnStack, Under(k, u)
          PROVE  /\ Reaches(At(k), u) /\ Reaches(u, At(k))
                 /\ lowlink'[At(k)] <= lowlink'[u]
      <3>1. Reaches(At(k), u) /\ Reaches(u, At(k)) /\ lowlink[At(k)] <= lowlink[u]
        BY <1>3, <2>2 DEF SccInv, LowInv
      <3>2. u \in matches /\ At(k) \in matches
        BY <1>3, SccFacts
      <3>3. lowlink'[At(k)] <= lowlink[At(k)]
        BY <1>11, <1>12, <3>2
      <3>4. CASE u # x
        BY <1>11, <1>12, <3>1, <3>2, <3>3, <3>4
      <3>5. CASE u = x
        <4>1. k = n
          BY <1>3, <2>2, <3>5, NumberOrder DEF x
        <4> QED
          BY <1>12, <3>1, <3>2, <3>5, <4>1 DEF x
      <3> QED
        BY <3>4, <3>5
    <2> QED
      BY <1>2, <1>8, <1>9, <1>13, <1>14, <2>1, <2>2 DEF LowInv
  <1> QED
    BY <1>15, <1>16, <1>17, <1>18 DEF SccInv

\* What a return does to the frames.
LEMMA FrameReturns ==
    ASSUME SccInv, Return, NEW n, n = Len(calls)
    PROVE  /\ n \in Nat \ {0} /\ DOMAIN calls = 1..n /\ DOMAIN calls' = 1..(n - 1)
           /\ Len(calls') = n - 1 /\ calls' \in Seq([vertex : matches, todo : SUBSET matches])
           /\ \A k \in 1..(n - 1) : calls'[k] = calls[k] /\ At(k)' = At(k)
           /\ Frame = calls[n] /\ Frame.vertex = At(n) /\ calls[n].todo = {}
           /\ At(n) \in matches /\ At(n) \in OnStack
           /\ UNCHANGED <<system, matches, number>>
           /\ \A u : Arcs(u)' = Arcs(u)
           /\ \A u, v : Reaches(u, v)' <=> Reaches(u, v)
           /\ \A u, v : Taken(u, v)' => Taken(u, v)
  <1>1. calls \in Seq(Frames) /\ calls # << >> /\ Frame.todo = {}
        /\ UNCHANGED <<system, matches, number>> /\ calls' = Front(calls)
    BY DEF Return, SccInv, SccTypes, matchVars, Frames
  <1>2. n \in Nat \ {0} /\ DOMAIN calls = 1..n /\ Frame = calls[n] /\ n \in 1..n
    BY <1>1, FrontOf DEF Frame
  <1>3. /\ calls' \in Seq(Frames) /\ Len(calls') = n - 1
        /\ \A k \in 1..(n - 1) : calls'[k] = calls[k]
    BY <1>1, FrontOf
  <1>4. DOMAIN calls' = 1..(n - 1)
    BY <1>3
  <1>5. At(n) \in matches /\ At(n) \in OnStack
    BY <1>2, SccFacts
  <1>6. \A u, v : Taken(u, v)' => Taken(u, v)
    <2> SUFFICES ASSUME NEW u, NEW v, Taken(u, v)', NEW k \in 1..n, At(k) = u
                 PROVE  v \notin calls[k].todo
      BY <1>2 DEF Taken
    <2>1. CASE k = n
      BY <1>1, <1>2, <2>1
    <2>2. CASE k < n
      <3>1. k \in 1..(n - 1)
        BY <1>2, <2>2
      <3>2. calls'[k] = calls[k] /\ At(k)' = u
        BY <1>3, <3>1 DEF At
      <3> QED
        BY <1>4, <3>1, <3>2 DEF Taken
    <2> QED
      BY <1>2, <2>1, <2>2
  <1> QED
    BY <1>1, <1>2, <1>3, <1>4, <1>5, <1>6, SameArcs DEF At, Frames

\* The caller's frame then comes last.
LEMMA UnderReturns ==
    ASSUME SccInv, Return, NEW n, n = Len(calls),
           NEW k \in 1..(n - 1), NEW u \in matches
    PROVE  /\ k < n - 1 => (Under(k, u)' <=> Under(k, u))
           /\ k = n - 1 => (Under(k, u)' <=> Under(k, u) \/ Under(n, u))
  <1>1. /\ n \in Nat \ {0} /\ Len(calls') = n - 1 /\ At(k)' = At(k) /\ number' = number
        /\ \A i \in 1..(n - 1) : At(i)' = At(i)
    BY FrameReturns
  <1>2. CASE k < n - 1
    <2>1. k + 1 \in 1..(n - 1) /\ k < n /\ k < Len(calls')
      BY <1>1, <1>2
    <2>2. At(k + 1)' = At(k + 1)
      BY <1>1, <2>1
    <2> QED
      BY <1>1, <1>2, <2>1, <2>2 DEF Under
  <1>3. CASE k = n - 1
    <2>1. k \in 1..n /\ n \in 1..n /\ k < n /\ ~ (n < Len(calls)) /\ k + 1 = n /\ ~ (k < Len(calls'))
      BY <1>1, <1>3
    <2>2. number[At(k)] < number[At(n)]
      BY <2>1, NumberOrder
    <2>3. number[At(k)] \in Nat /\ number[At(n)] \in Nat /\ number[u] \in Nat
      BY <2>1, SccFacts
    <2>4. Under(k, u)' <=> number[At(k)] <= number[u]
      BY <1>1, <2>1 DEF Under
    <2>5. Under(k, u) <=> number[At(k)] <= number[u] /\ number[u] < number[At(n)]
      BY <2>1 DEF Under
    <2>6. Under(n, u) <=> number[At(n)] <= number[u]
      BY <2>1 DEF Under
    <2> QED
      BY <1>3, <2>2, <2>3, <2>4, <2>5, <2>6
  <1> QED
    BY <1>1, <1>2, <1>3

\* A vertex that reaches back below itself has a caller, which takes over its
\* lowlink: the vertices after it reach the caller too.
LEMMA LowReturns ==
    ASSUME SccInv, Return, lowlink[Frame.vertex] # number[Frame.vertex]
    PROVE  SccInv'
  <1> DEFINE n == Len(calls)
             x == At(n)
             p == At(n - 1)
  <1>1. /\ n \in Nat \ {0} /\ DOMAIN calls = 1..n /\ DOMAIN calls' = 1..(n - 1)
        /\ Len(calls') = n - 1 /\ calls' \in Seq([vertex : matches, todo : SUBSET matches])
        /\ \A k \in 1..(n - 1) : calls'[k] = calls[k] /\ At(k)' = At(k)
        /\ Frame = calls[n] /\ Frame.vertex = x
        /\ x \in matches /\ x \in OnStack
        /\ UNCHANGED <<system, matches, number>>
        /\ \A u : Arcs(u)' = Arcs(u)
        /\ \A u, v : Reaches(u, v)' <=> Reaches(u, v)
        /\ \A u, v : Taken(u, v)' => Taken(u, v)
    BY FrameReturns
  <1>2. stack' = stack /\ components' = components
    BY DEF Return
  <1>3. OnStack' = OnStack /\ Finished' = Finished /\ Numbered' = Numbered
    BY <1>1, <1>2 DEF OnStack, Finished, Numbered
  <1>4. /\ \A u \in matches : number[u] \in Nat /\ lowlink[u] \in Nat
        /\ OnStack \subseteq matches /\ lowlink \in [matches -> Nat]
        /\ \A k \in 1..n : At(k) \in matches /\ At(k) \in OnStack
    BY SccFacts DEF SccInv, SccTypes
  <1>5. PICK z \in OnStack : number[z] = lowlink[x] /\ Reaches(x, z) /\ lowlink[x] <= number[x]
    BY <1>1 DEF SccInv, LowInv
  <1>6. lowlink[x] < number[x]
    BY <1>1, <1>4, <1>5
  <1>7. PICK k \in 1..n : Under(k, z)
    BY <1>1 DEF SccInv, CallInv
  <1>8. k < n
    <2>1. number[At(k)] <= number[z]
      BY <1>7 DEF Under
    <2> QED
      BY <1>1, <1>4, <1>5, <1>6, <1>7, <2>1
  <1>9. n > 1 /\ n - 1 \in 1..n /\ k <= n - 1 /\ n - 1 \in 1..(n - 1) /\ n - 1 < n /\ n \in 1..n
    BY <1>1, <1>7, <1>8
  <1>10. Reaches(x, p) /\ Reaches(p, x)
    <2>1. Reaches(z, At(k)) /\ Reaches(At(k), p) /\ Reaches(p, x)
      BY <1>1, <1>7, <1>9, NumberOrder DEF SccInv, LowInv
    <2> QED
      BY <1>5, <2>1, ReachesFurther
  <1>11. p \in matches /\ p \in OnStack /\ p = calls[n - 1].vertex
    BY <1>4, <1>9 DEF At
  <1>12. lowlink' = [lowlink EXCEPT ![p] = Lower(@, lowlink[x])]
    <2>1. Len(calls) # 1
      BY <1>1, <1>9
    <2>2. lowlink' = [lowlink EXCEPT ![calls[Len(calls) - 1].vertex] = Lower(@, lowlink[Frame.vertex])]
      BY <2>1 DEF Return
    <2> QED
      BY <1>1, <1>11, <2>2
  <1> HIDE DEF n, x, p
  <1>13. /\ lowlink' \in [matches -> Nat] /\ \A u \in matches : u # p => lowlink'[u] = lowlink[u]
         /\ lowlink'[p] <= lowlink[p] /\ lowlink'[p] <= lowlink[x]
         /\ lowlink'[p] = lowlink[p] \/ lowlink'[p] = lowlink[x]
         /\ \A u \in matches : lowlink'[u] \in Nat /\ lowlink'[u] <= lowlink[u]
    BY <1>1, <1>4, <1>11, <1>12 DEF Lower
  <1>14. SccTypes' /\ NumberInv' /\ BlocksInv'
    BY <1>1, <1>2, <1>3, <1>13 DEF SccInv, SccTypes, NumberInv, BlocksInv
  <1>15. \A j \in 1..(n - 1) : \A u \in matches :
            /\ j < n - 1 => (Under(j, u)' <=> Under(j, u))
            /\ j = n - 1 => (Under(j, u)' <=> Under(j, u) \/ Under(n, u))
    BY UnderReturns DEF n
  <1>16. \A j \in 1..(n - 1) : j \in 1..n /\ (j < n - 1 \/ j = n - 1)
    BY <1>1
  <1>17. CallInv'
    <2>1. \A j \in 1..(n - 1) : At(j)' \in OnStack /\ calls'[j].todo \subseteq Arcs(At(j))
      BY <1>1, <1>16 DEF SccInv, CallInv
    <2>2. \A i, j \in 1..(n - 1) :
             i < j => number[At(i)'] < number[At(j)'] /\ Reaches(At(i)', At(j)')
      <3> SUFFICES ASSUME NEW i \in 1..(n - 1), NEW j \in 1..(n - 1), i < j
                   PROVE  number[At(i)'] < number[At(j)'] /\ Reaches(At(i)', At(j)')
        OBVIOUS
      <3>1. i \in 1..n /\ j \in 1..n /\ At(i)' = At(i) /\ At(j)' = At(j)
        BY <1>1, <1>16
      <3>2. number[At(i)] < number[At(j)] /\ Reaches(At(i), At(j))
        BY <1>1, <3>1 DEF SccInv, CallInv
      <3> QED
        BY <3>1, <3>2
    <2>3. ASSUME NEW u \in OnStack PROVE \E j \in 1..(n - 1) : Under(j, u)'
      <3>1. PICK j \in 1..n : Under(j, u)
        BY <1>1 DEF SccInv, CallInv
      <3>2. CASE j = n
        BY <1>4, <1>9, <1>15, <3>1, <3>2
      <3>3. CASE j < n
        <4>1. j \in 1..(n - 1)
          BY <1>1, <3>3
        <4> QED
          BY <1>4, <1>15, <1>16, <3>1, <4>1
      <3> QED
        BY <1>1, <3>2, <3>3
    <2>4. \A i, j \in 1..(n - 1) : Reaches(At(i)', At(j)') <=> Reaches(At(i), At(j))'
      BY <1>1
    <2> QED
      BY <1>1, <1>3, <2>1, <2>2, <2>3, <2>4 DEF CallInv
  <1>18. ArcInv'
    <2> SUFFICES ASSUME NEW u \in Numbered, NEW v \in Arcs(u), Taken(u, v)'
                 PROVE  /\ number[v] # 0
                        /\ u \in OnStack /\ v \in OnStack /\ number[v] < number[u]
                              => lowlink'[u] <= number[v]
      BY <1>1, <1>3 DEF ArcInv
    <2>1. /\ number[v] # 0
          /\ u \in OnStack /\ v \in OnStack /\ number[v] < number[u] => lowlink[u] <= number[v]
      BY <1>1 DEF SccInv, ArcInv
    <2>2. u \in matches /\ v \in matches
      BY SccFacts DEF Arcs
    <2>3. lowlink'[u] \in Nat /\ lowlink[u] \in Nat /\ number[v] \in Nat /\ lowlink'[u] <= lowlink[u]
      BY <1>4, <1>13, <2>2
    <2> QED
      BY <2>1, <2>3
  <1>19. LowInv'
    <2>1. ASSUME NEW u \in OnStack
          PROVE  /\ lowlink'[u] <= number[u]
                 /\ \E w \in OnStack : number[w] = lowlink'[u] /\ Reaches(u, w)
      <3>1. PICK w \in OnStack : number[w] = lowlink[u] /\ Reaches(u, w) /\ lowlink[u] <= number[u]
        BY DEF SccInv, LowInv
      <3>2. u \in matches /\ lowlink'[u] <= number[u]
        BY <1>4, <1>13, <3>1
      <3>3. Reaches(p, z)
        BY <1>5, <1>10, ReachesFurther
      <3> QED
        BY <1>5, <1>13, <3>1, <3>2, <3>3
    <2>2. ASSUME NEW j \in 1..(n - 1), NEW u \in OnStack, Under(j, u)'
          PROVE  /\ Reaches(At(j), u) /\ Reaches(u, At(j))
                 /\ lowlink'[At(j)] <= lowlink'[u]
      <3>0. j \in 1..n /\ u \in matches /\ At(j) \in matches
        BY <1>4, <1>16
      <3>1. CASE Under(j, u)
        <4>1. Reaches(At(j), u) /\ Reaches(u, At(j)) /\ lowlink[At(j)] <= lowlink[u]
          BY <1>1, <3>0, <3>1 DEF SccInv, LowInv
        <4>2. CASE u # p
          BY <1>4, <1>13, <3>0, <4>1, <4>2
        <4>3. CASE u = p
          <5>1. j = n - 1
            BY <1>9, <3>0, <3>1, <4>3, NumberOrder DEF n, p
          <5> QED
            BY <1>13, <3>0, <4>1, <4>3, <5>1 DEF p
        <4> QED
          BY <4>2, <4>3
      <3>2. CASE ~ Under(j, u)
        <4>1. j = n - 1 /\ Under(n, u) /\ At(j) = p
          BY <1>15, <1>16, <2>2, <3>0, <3>2 DEF p
        <4>2. Reaches(x, u) /\ Reaches(u, x) /\ lowlink[x] <= lowlink[u]
          BY <1>1, <1>9, <4>1 DEF SccInv, LowInv, x
        <4>3. Reaches(p, u) /\ Reaches(u, p)
          BY <1>10, <4>2, ReachesFurther
        <4> QED
          <5>1. CASE u = p
            BY <1>13, <3>0, <4>1, <4>3, <5>1
          <5>2. CASE u # p
            <6>1. lowlink'[u] = lowlink[u] /\ lowlink[u] \in Nat /\ lowlink[x] \in Nat
                  /\ lowlink'[At(j)] \in Nat /\ lowlink'[At(j)] <= lowlink[x]
              BY <1>1, <1>4, <1>13, <3>0, <4>1, <5>2
            <6> QED
              BY <4>1, <4>2, <4>3, <6>1
          <5> QED
            BY <5>1, <5>2
      <3> QED
        BY <3>1, <3>2
    <2> QED
      BY <1>1, <1>3, <2>1, <2>2 DEF LowInv
  <1> QED
    BY <1>14, <1>17, <1>18, <1>19 DEF SccInv

\* The vertices that a root takes off the stack are those not numbered before it.
LEMMA RootTakes ==
    ASSUME SccInv, NEW x \in OnStack
    PROVE  LET b == Below(x)
           IN  /\ {stack[i] : i \in (b + 1)..Len(stack)} = {u \in OnStack : number[u] >= number[x]}
               /\ SubSeq(stack, 1, b) \in Seq(matches)
               /\ Len(SubSeq(stack, 1, b)) = b /\ b \in Nat /\ b <= Len(stack)
               /\ \A i \in 1..b : SubSeq(stack, 1, b)[i] = stack[i]
               /\ {stack[i] : i \in 1..b} = {u \in OnStack : number[u] < number[x]}
  <1> DEFINE S == {0} \cup {i \in DOMAIN stack : number[stack[i]] < number[x]}
             l == Len(stack)
  <1>1. stack \in Seq(matches) /\ l \in Nat /\ DOMAIN stack = 1..l
    BY SccFacts DEF SccInv, SccTypes
  <1>2. PICK j \in 1..l : stack[j] = x
    BY <1>1 DEF OnStack
  <1>3. \A i, k \in 1..l : i < k => number[stack[i]] < number[stack[k]]
    BY <1>1 DEF SccInv, NumberInv
  <1>4. \A i \in 1..l : stack[i] \in matches /\ number[stack[i]] \in Nat
    <2>1. \A i \in 1..l : stack[i] \in matches
      BY <1>1
    <2> QED
      BY <2>1, SccFacts
  <1>5. \A i \in 1..l : number[stack[i]] < number[x] <=> i < j
    BY <1>1, <1>2, <1>3, <1>4
  <1>6. S = 0..(j - 1)
    BY <1>1, <1>2, <1>5
  <1>7. Below(x) = j - 1
    <2>1. Below(x) = Max(S)
      BY DEF Below
    <2>2. j - 1 \in S /\ \A i \in S : j - 1 >= i
      BY <1>2, <1>6
    <2>3. \A m \in S : (\A i \in S : m >= i) => m = j - 1
      BY <1>2, <1>6
    <2> HIDE DEF S
    <2> QED
      BY <2>1, <2>2, <2>3 DEF Max
  <1>8. {stack[i] : i \in j..l} = {u \in OnStack : number[u] >= number[x]}
    <2>1. ASSUME NEW u \in OnStack, number[u] >= number[x]
          PROVE  \E i \in j..l : u = stack[i]
      <3>1. PICK i \in 1..l : u = stack[i]
        BY <1>1 DEF OnStack
      <3>2. number[stack[i]] \in Nat /\ number[x] \in Nat
        BY <1>2, <1>4
      <3>3. ~ (i < j)
        BY <1>5, <2>1, <3>1, <3>2
      <3> QED
        BY <1>2, <3>1, <3>3
    <2>2. ASSUME NEW i \in j..l PROVE stack[i] \in OnStack /\ number[stack[i]] >= number[x]
      <3>1. i \in 1..l /\ ~ (i < j)
        BY <1>1, <1>2
      <3>2. number[stack[i]] \in Nat /\ number[x] \in Nat
        BY <1>2, <1>4, <3>1
      <3> QED
        BY <1>1, <1>5, <3>1, <3>2 DEF OnStack
    <2> QED
      BY <2>1, <2>2
  <1>9. {stack[i] : i \in 1..(j - 1)} = {u \in OnStack : number[u] < number[x]}
    <2>1. ASSUME NEW u \in OnStack, number[u] < number[x]
          PROVE  \E i \in 1..(j - 1) : u = stack[i]
      <3>1. PICK i \in 1..l : u = stack[i]
        BY <1>1 DEF OnStack
      <3>2. i < j
        BY <1>5, <2>1, <3>1
      <3> QED
        BY <1>2, <3>1, <3>2
    <2>2. ASSUME NEW i \in 1..(j - 1) PROVE stack[i] \in OnStack /\ number[stack[i]] < number[x]
      <3>1. i \in 1..l /\ i < j
        BY <1>1, <1>2
      <3> QED
        BY <1>1, <1>5, <3>1 DEF OnStack
    <2> QED
      BY <2>1, <2>2
  <1>10. j - 1 \in Nat /\ j - 1 <= l /\ (j - 1) + 1 = j
    BY <1>1, <1>2
  <1> DEFINE b == j - 1
  <1>11. /\ SubSeq(stack, 1, b) \in Seq(matches) /\ Len(SubSeq(stack, 1, b)) = b
         /\ \A i \in 1..b : SubSeq(stack, 1, b)[i] = stack[i]
    <2> HIDE DEF b
    <2>1. b \in Nat /\ b <= l
      BY <1>10 DEF b
    <2>2. Len(SubSeq(stack, 1, b)) = b /\ \A i \in 1..b : SubSeq(stack, 1, b)[i] = stack[i]
      BY <1>1, <2>1
    <2>3. SubSeq(stack, 1, b) = [i \in 1..b |-> stack[i]]
      BY <1>1, <2>1
    <2>4. \A i \in 1..b : i \in 1..l
      BY <1>1, <2>1
    <2>5. SubSeq(stack, 1, b) \in Seq(matches)
      BY <1>4, <2>1, <2>3, <2>4
    <2> QED
      BY <2>2, <2>5
  <1> QED
    BY <1>7, <1>8, <1>9, <1>10, <1>11

\* A root with what comes after it is a block: its arcs lead into it or to earlier
\* blocks, since an arc to a vertex before the root would have lowered a lowlink.
LEMMA BlockReturns ==
    ASSUME SccInv, Return, lowlink[Frame.vertex] = number[Frame.vertex]
    PROVE  SccInv'
  <1> DEFINE n == Len(calls)
             x == At(n)
             block == {u \in OnStack : number[u] >= number[x]}
  <1>1. /\ n \in Nat \ {0} /\ DOMAIN calls = 1..n /\ DOMAIN calls' = 1..(n - 1)
        /\ Len(calls') = n - 1 /\ calls' \in Seq([vertex : matches, todo : SUBSET matches])
        /\ \A k \in 1..(n - 1) : calls'[k] = calls[k] /\ At(k)' = At(k)
        /\ Frame = calls[n] /\ Frame.vertex = x /\ calls[n].todo = {}
        /\ x \in matches /\ x \in OnStack
        /\ UNCHANGED <<system, matches, number>>
        /\ \A u : Arcs(u)' = Arcs(u)
        /\ \A u, v : Reaches(u, v)' <=> Reaches(u, v)
        /\ \A u, v : Taken(u, v)' => Taken(u, v)
    BY FrameReturns
  <1>2. /\ \A u \in matches : number[u] \in Nat /\ lowlink[u] \in Nat
        /\ OnStack \subseteq matches /\ lowlink \in [matches -> Nat] /\ number \in [matches -> Nat]
        /\ \A k \in 1..n : At(k) \in matches /\ At(k) \in OnStack
        /\ Finished \subseteq matches /\ OnStack \subseteq Numbered /\ Numbered \subseteq matches
        /\ components \in Seq(SUBSET matches) /\ n \in 1..n
    <2>1. /\ lowlink \in [matches -> Nat] /\ number \in [matches -> Nat]
          /\ components \in Seq(SUBSET matches)
      BY DEF SccInv, SccTypes, BlocksInv
    <2>2. n \in 1..n
      BY <1>1
    <2> QED
      BY <2>1, <2>2, SccFacts
  <1>3. components' = Append(components, block) /\ block \in SUBSET matches
        /\ stack' = SubSeq(stack, 1, Below(x))
    BY <1>1, <1>2, RootTakes DEF Return
  <1>4. /\ stack' \in Seq(matches) /\ DOMAIN stack' = 1..Below(x)
        /\ \A i \in 1..Below(x) : stack'[i] = stack[i] /\ i \in DOMAIN stack
        /\ {stack[i] : i \in 1..Below(x)} = {u \in OnStack : number[u] < number[x]}
    <2>1. LET b == Below(x)
          IN  /\ stack' \in Seq(matches) /\ Len(stack') = b /\ b \in Nat /\ b <= Len(stack)
              /\ \A i \in 1..b : stack'[i] = stack[i]
              /\ {stack[i] : i \in 1..b} = {u \in OnStack : number[u] < number[x]}
      BY <1>1, <1>3, RootTakes
    <2>2. DOMAIN stack = 1..Len(stack) /\ Len(stack) \in Nat
      BY SccFacts
    <2>3. DOMAIN stack' = 1..Len(stack')
      BY <2>1
    <2> QED
      BY <2>1, <2>2, <2>3
  <1>5. OnStack' = {u \in OnStack : number[u] < number[x]}
    BY <1>4 DEF OnStack
  <1>6. /\ \A u : u \in OnStack' <=> u \in OnStack /\ number[u] < number[x]
        /\ \A u : u \in block <=> u \in OnStack /\ ~ (number[u] < number[x])
    BY <1>1, <1>2, <1>5
  <1>7. \A u \in OnStack : u \in block <=> Under(n, u)
    BY <1>1, <1>2 DEF Under
  <1> DEFINE c == Len(components)
  <1>8. /\ c \in Nat /\ DOMAIN components = 1..c /\ components' \in Seq(SUBSET matches)
        /\ DOMAIN components' = 1..(c + 1) /\ components'[c + 1] = block
        /\ \A i \in 1..c : components'[i] = components[i]
    <2>1. c \in Nat /\ DOMAIN components = 1..c
      BY <1>2
    <2> HIDE DEF block
    <2> QED
      BY <1>2, <1>3, <2>1, AppendOf
  <1> HIDE DEF n, x, block, c
  <1>9. Numbered' = Numbered /\ Finished' = Finished \cup block
    <2>1. \A u : u \in Finished <=> \E i \in 1..c : u \in components[i]
      BY <1>8 DEF Finished
    <2>2. \A u : u \in Finished' <=> \E i \in 1..(c + 1) : u \in components'[i]
      BY <1>8 DEF Finished
    <2>3. \A i : i \in 1..(c + 1) <=> i \in 1..c \/ i = c + 1
      BY <1>8
    <2>4. Finished' = Finished \cup block
      BY <1>8, <2>1, <2>2, <2>3
    <2> QED
      BY <1>1, <2>4 DEF Numbered
  <1>10. lowlink' = lowlink
    <2>1. CASE n = 1
      BY <2>1 DEF Return, n
    <2>2. CASE n # 1
      <3> DEFINE p == At(n - 1)
      <3>1. n - 1 \in 1..n /\ n - 1 < n
        BY <1>1, <2>2
      <3>2. p \in OnStack /\ p \in matches /\ number[p] < number[x]
        BY <1>1, <1>2, <3>1 DEF SccInv, CallInv, x
      <3>3. lowlink[p] <= number[p]
        BY <3>2 DEF SccInv, LowInv
      <3>4. lowlink' = [lowlink EXCEPT ![p] = Lower(lowlink[p], lowlink[x])]
        BY <1>1, <2>2 DEF Return, n, At
      <3>5. Lower(lowlink[p], lowlink[x]) = lowlink[p]
        BY <1>1, <1>2, <3>2, <3>3 DEF Lower
      <3> HIDE DEF p
      <3> QED
        BY <1>2, <3>2, <3>4, <3>5
    <2> QED
      BY <2>1, <2>2
  <1>11. SccTypes'
    BY <1>1, <1>2, <1>4, <1>10 DEF SccTypes
  <1>12. NumberInv'
    <2>1. \A i, j \in DOMAIN stack' : i < j => number[stack'[i]] < number[stack'[j]]
      BY <1>4 DEF SccInv, NumberInv
    <2>2. \A u \in matches : number[u] # 0 <=> u \in OnStack' \cup Finished'
      BY <1>6, <1>9 DEF SccInv, NumberInv
    <2>3. OnStack' \cap Finished' = {}
      BY <1>6, <1>9 DEF SccInv, NumberInv
    <2> QED
      BY <1>1, <1>9, <2>1, <2>2, <2>3 DEF SccInv, NumberInv
  <1>13. \A k \in 1..(n - 1) : /\ k \in 1..n /\ k < n /\ At(k) \in OnStack'
                               /\ \A u \in OnStack' : Under(k, u)' <=> Under(k, u)
    <2> SUFFICES ASSUME NEW k \in 1..(n - 1)
                 PROVE  /\ k \in 1..n /\ k < n /\ At(k) \in OnStack'
                        /\ \A u \in OnStack' : Under(k, u)' <=> Under(k, u)
      OBVIOUS
    <2>1. k \in 1..n /\ k < n /\ (k < n - 1 \/ k = n - 1)
      BY <1>1
    <2>2. At(k) \in OnStack'
      BY <1>1, <1>2, <1>6, <2>1 DEF SccInv, CallInv, x
    <2>3. ASSUME NEW u \in OnStack' PROVE Under(k, u)' <=> Under(k, u)
      <3>1. u \in OnStack /\ u \in matches /\ ~ Under(n, u)
        BY <1>2, <1>6, <1>7
      <3>2. /\ k < n - 1 => (Under(k, u)' <=> Under(k, u))
            /\ k = n - 1 => (Under(k, u)' <=> Under(k, u) \/ Under(n, u))
        BY <3>1, UnderReturns DEF n
      <3> QED
        BY <2>1, <3>1, <3>2
    <2> QED
      BY <2>1, <2>2, <2>3
  <1>14. CallInv'
    <2>1. \A k \in 1..(n - 1) : At(k)' \in OnStack' /\ calls'[k].todo \subseteq Arcs(At(k))
      BY <1>1, <1>13 DEF SccInv, CallInv
    <2>2. ASSUME NEW i \in 1..(n - 1), NEW j \in 1..(n - 1), i < j
          PROVE  number[At(i)'] < number[At(j)'] /\ Reaches(At(i), At(j))'
      <3>1. i \in 1..n /\ j \in 1..n /\ At(i)' = At(i) /\ At(j)' = At(j)
        BY <1>1, <1>13
      <3>2. number[At(i)] < number[At(j)] /\ Reaches(At(i), At(j))
        BY <1>1, <2>2, <3>1 DEF SccInv, CallInv
      <3> QED
        BY <1>1, <3>1, <3>2
    <2>3. ASSUME NEW u \in OnStack' PROVE \E k \in 1..(n - 1) : Under(k, u)'
      <3>1. u \in OnStack /\ ~ Under(n, u)
        BY <1>6, <1>7
      <3>2. PICK k \in 1..n : Under(k, u)
        BY <1>1, <3>1 DEF SccInv, CallInv
      <3>3. k \in 1..(n - 1)
        BY <1>1, <3>1, <3>2
      <3> QED
        BY <1>13, <3>2, <3>3
    <2> QED
      BY <1>1, <2>1, <2>2, <2>3 DEF CallInv
  <1>15. ArcInv'
    BY <1>1, <1>6, <1>9, <1>10 DEF SccInv, ArcInv
  <1>16. LowInv'
    <2>1. ASSUME NEW u \in OnStack'
          PROVE  /\ lowlink[u] <= number[u]
                 /\ \E z \in OnStack' : number[z] = lowlink[u] /\ Reaches(u, z)
      <3>1. u \in OnStack /\ number[u] < number[x]
        BY <1>6
      <3>2. lowlink[u] <= number[u] /\ \E z \in OnStack : number[z] = lowlink[u] /\ Reaches(u, z)
        BY <3>1 DEF SccInv, LowInv
      <3>3. lowlink[u] < number[x]
        BY <1>1, <1>2, <3>1, <3>2
      <3> QED
        BY <1>6, <3>2, <3>3
    <2>2. ASSUME NEW k \in 1..(n - 1), NEW u \in OnStack', Under(k, u)'
          PROVE  /\ Reaches(At(k), u) /\ Reaches(u, At(k))
                 /\ lowlink[At(k)] <= lowlink[u]
      BY <1>1, <1>6, <1>13, <2>2 DEF SccInv, LowInv
    <2> QED
      BY <1>1, <1>10, <2>1, <2>2 DEF LowInv
  <1>17. BlocksInv'
    <2>0. \A i : i \in 1..(c + 1) <=> i \in 1..c \/ i = c + 1
      BY <1>8
    <2>1. block \cap Finished = {}
      BY <1>6 DEF SccInv, NumberInv
    <2>2. \A i \in 1..c : components[i] \subseteq Finished
      BY <1>8 DEF Finished
    <2>3. ASSUME NEW i \in 1..(c + 1), NEW j \in 1..(c + 1), i # j
          PROVE  components'[i] \cap components'[j] = {}
      <3>1. CASE i \in 1..c /\ j \in 1..c
        BY <1>8, <2>3, <3>1 DEF SccInv, BlocksInv
      <3>2. CASE i = c + 1 \/ j = c + 1
        BY <1>8, <2>0, <2>1, <2>2, <2>3, <3>2
      <3> QED
        BY <2>0, <3>1, <3>2
    <2>4. ASSUME NEW i \in 1..(c + 1), NEW u \in components'[i], NEW v \in components'[i]
          PROVE  Reaches(u, v)
      <3>1. CASE i \in 1..c
        BY <1>8, <3>1 DEF SccInv, BlocksInv
      <3>2. CASE i = c + 1
        <4>1. u \in OnStack /\ v \in OnStack /\ Under(n, u) /\ Under(n, v)
          BY <1>6, <1>7, <1>8, <3>2
        <4>2. Reaches(u, x) /\ Reaches(x, v)
          BY <1>1, <1>2, <4>1 DEF SccInv, LowInv, x
        <4> QED
          BY <4>2, ReachesFurther
      <3> QED
        BY <2>0, <3>1, <3>2
    <2>5. ASSUME NEW u \in block, NEW v \in Arcs(u)
          PROVE  v \in block \/ v \in Finished
      <3>1. u \in OnStack /\ Under(n, u) /\ u \in matches /\ v \in matches /\ u \in Numbered
        BY <1>2, <1>6, <1>7 DEF Arcs
      <3>2. Taken(u, v)
        <4> SUFFICES ASSUME NEW k \in 1..n, At(k) = u PROVE v \notin calls[k].todo
          BY <1>1 DEF Taken
        <4>1. k = n
          BY <1>2, <3>1, NumberOrder DEF n
        <4> QED
          BY <1>1, <4>1
      <3>3. /\ number[v] # 0
            /\ v \in OnStack /\ number[v] < number[u] => lowlink[u] <= number[v]
        BY <3>1, <3>2 DEF SccInv, ArcInv
      <3>4. v \in OnStack \/ v \in Finished
        BY <3>1, <3>3 DEF SccInv, NumberInv
      <3>5. lowlink[x] <= lowlink[u]
        BY <1>1, <1>2, <3>1 DEF SccInv, LowInv, x
      <3>6. ~ (number[u] < number[x])
        BY <1>6
      <3>7. v \in OnStack => ~ (number[v] < number[x])
        BY <1>1, <1>2, <3>1, <3>3, <3>5, <3>6
      <3> QED
        BY <1>6, <3>4, <3>7
    <2>6. ASSUME NEW i \in 1..(c + 1), NEW u \in components'[i], NEW v \in Arcs(u)
          PROVE  \E j \in 1..i : v \in components'[j]
      <3>1. CASE i \in 1..c
        <4>1. PICK j \in 1..i : v \in components[j]
          BY <1>8, <3>1 DEF SccInv, BlocksInv
        <4>2. j \in 1..c
          BY <1>8, <3>1
        <4> QED
          BY <1>8, <4>1, <4>2
      <3>2. CASE i = c + 1
        <4>1. CASE v \in block
          BY <1>8, <3>2, <4>1
        <4>2. CASE v \in Finished
          <5>1. PICK j \in 1..c : v \in components[j]
            BY <1>8, <4>2 DEF Finished
          <5> QED
            BY <1>8, <2>0, <3>2, <5>1
        <4> QED
          BY <1>8, <2>5, <3>2, <4>1, <4>2
      <3> QED
        BY <2>0, <3>1, <3>2
    <2> QED
      BY <1>1, <1>8, <2>3, <2>4, <2>6 DEF BlocksInv
  <1> QED
    BY <1>11, <1>12, <1>14, <1>15, <1>16, <1>17 DEF SccInv

LEMMA ReturnStays ==
    ASSUME SccInv, Return
    PROVE  SccInv'
  BY LowReturns, BlockReturns

-----------------------------------------------------------------------------
(* The blocks.                                                             *)

\* Before scc there is nothing on the stacks; during it its invariant holds;
\* at its end every vertex has a block.
GraphInv ==
    /\ MatchInv
    /\ place \in {"match", "layers", "search"} =>
          stack = << >> /\ calls = << >> /\ components = << >>
    /\ place = "scc" => SccInv
    /\ place \in {"scc", "components"} => BlocksInv
    /\ place = "components" => Finished = matches

LEMMA GraphBegins == GraphInit => GraphInv
  BY MatchBegins DEF GraphInit, GraphInv

LEMMA SccBegins ==
    ASSUME StartScc, stack = << >>, calls = << >>, components = << >>
    PROVE  SccInv'
  <1>1. /\ number' = [x \in matches |-> 0] /\ lowlink' = [x \in matches |-> 0]
        /\ stack' = << >> /\ calls' = << >> /\ components' = << >> /\ UNCHANGED matches
    BY DEF StartScc, matchVars
  <1>2. SccTypes'
    BY <1>1 DEF SccTypes
  <1>3. /\ Numbered' = {} /\ OnStack' = {} /\ Finished' = {}
    BY <1>1 DEF Numbered, OnStack, Finished
  <1>4. Cardinality(Numbered') = 0
    BY <1>3, FS_EmptySet
  <1>5. NumberInv'
    BY <1>1, <1>3, <1>4 DEF NumberInv
  <1>6. CallInv' /\ ArcInv' /\ LowInv' /\ BlocksInv'
    BY <1>1, <1>3 DEF CallInv, ArcInv, LowInv, BlocksInv
  <1> QED
    BY <1>2, <1>5, <1>6 DEF SccInv

\* When no call is left, nothing is on the stack.
LEMMA SccEnds ==
    ASSUME SccInv, EndScc
    PROVE  Finished = matches /\ UNCHANGED <<system, matches, components>>
  <1>1. calls = << >> /\ (\A x \in matches : number[x] # 0)
        /\ UNCHANGED <<system, matches, components>>
    BY DEF EndScc, matchVars
  <1>2. DOMAIN calls = {}
    BY <1>1
  <1>3. OnStack = {}
    BY <1>2 DEF SccInv, CallInv
  <1> QED
    BY <1>1, <1>3, SccFacts DEF SccInv, NumberInv

LEMMA SameBlocks ==
    ASSUME UNCHANGED <<system, matches, components>>
    PROVE  (BlocksInv' <=> BlocksInv) /\ Finished' = Finished
  BY SameArcs DEF BlocksInv, Finished

LEMMA GraphStays ==
    ASSUME GraphInv, GraphNext
    PROVE  GraphInv'
  <1>0. MatchInv'
    BY MatchStays DEF GraphInv
  <1>1. CASE StartPhase \/ NextLayer \/ NoMatching \/ LayersReach \/ FollowVisited \/ Follow
             \/ FoundPath \/ Backtrack \/ Augment
    <2>1. /\ place \in {"match", "layers", "search"}
          /\ place' \in {"match", "layers", "search", "singular"}
          /\ UNCHANGED <<stack, calls, components>>
      BY <1>1 DEF StartPhase, NextLayer, NoMatching, LayersReach, FollowVisited, Follow,
                  FoundPath, Backtrack, Augment, sccVars
    <2> QED
      BY <1>0, <2>1 DEF GraphInv
  <1>2. CASE StartScc
    <2>1. place = "match" /\ place' = "scc"
      BY <1>2 DEF StartScc
    <2>2. SccInv'
      BY <1>2, <2>1, SccBegins DEF GraphInv
    <2> QED
      BY <1>0, <2>1, <2>2 DEF GraphInv, SccInv
  <1>3. CASE Root \/ TreeArc \/ OtherArc \/ Return
    <2>1. place = "scc" /\ place' = "scc"
      BY <1>3 DEF Root, TreeArc, OtherArc, Return, Connect
    <2>2. SccInv /\ IsFiniteSet(matches)
      <3>1. system \in Systems /\ matches \subseteq system.edges
        BY <2>1 DEF GraphInv, MatchInv, IsMatching
      <3> QED
        BY <2>1, <3>1, MatchesFinite DEF GraphInv
    <2>3. SccInv'
      BY <1>3, <2>2, RootConnects, TreeArcConnects, OtherArcCounts, ReturnStays
    <2> QED
      BY <1>0, <2>1, <2>3 DEF GraphInv, SccInv
  <1>4. CASE EndScc
    <2>1. place = "scc" /\ place' = "components"
      BY <1>4 DEF EndScc
    <2>2. SccInv
      BY <2>1 DEF GraphInv
    <2>3. Finished = matches /\ UNCHANGED <<system, matches, components>> /\ BlocksInv
      BY <1>4, <2>2, SccEnds DEF SccInv
    <2> QED
      BY <1>0, <2>1, <2>3, SameBlocks DEF GraphInv
  <1> QED
    BY <1>1, <1>2, <1>3, <1>4 DEF GraphNext

\* A path that meets a vertex twice can be shortened.
LEMMA PathShortens ==
    ASSUME NEW k \in Nat, NEW s \in [0..k -> matches], Along(s, k),
           NEW i \in 0..k, NEW j \in 0..k, i < j, s[i] = s[j]
    PROVE  \E l \in Nat : l < k /\ \E t \in [0..l -> matches] :
              t[0] = s[0] /\ t[l] = s[k] /\ Along(t, l)
  <1> DEFINE d == j - i
             l == k - d
             t == [m \in 0..l |-> IF m <= i THEN s[m] ELSE s[m + d]]
  <1>1. d \in Nat \ {0} /\ l \in Nat /\ l < k /\ i <= l /\ i + d = j /\ l + d = k
    OBVIOUS
  <1>2. \A m \in 0..l : /\ m \in 0..k /\ m + d \in 0..k
    BY <1>1
  <1> HIDE DEF d, l
  <1>3. t \in [0..l -> matches]
    BY <1>2
  <1>4. 0 \in 0..l /\ 0 <= i /\ l \in 0..l
    BY <1>1
  <1>5. t[0] = s[0]
    BY <1>4
  <1>6. t[l] = s[k]
    <2>1. CASE l <= i
      <3>1. l = i
        BY <1>1, <2>1
      <3> QED
        BY <1>1, <1>4, <3>1
    <2>2. CASE ~ (l <= i)
      BY <1>1, <1>4, <2>2
    <2> QED
      BY <2>1, <2>2
  <1>7. ASSUME NEW m \in 1..l PROVE t[m] \in Arcs(t[m - 1])
    <2>0. m \in 0..l /\ m - 1 \in 0..l /\ m \in Nat
      BY <1>1
    <2>1. CASE m <= i
      <3>1. m - 1 <= i /\ m \in 1..k
        BY <1>1, <2>0, <2>1
      <3> QED
        BY <2>0, <2>1, <3>1 DEF Along
    <2>2. CASE m = i + 1
      <3>1. /\ m + d \in 1..k /\ (m + d) - 1 = j /\ ~ (m <= i) /\ m - 1 = i /\ i <= i
        BY <1>1, <2>0, <2>2
      <3>2. s[m + d] \in Arcs(s[(m + d) - 1])
        BY <3>1 DEF Along
      <3>3. t[m] = s[m + d] /\ t[m - 1] = s[i]
        BY <2>0, <3>1
      <3> QED
        BY <3>1, <3>2, <3>3
    <2>3. CASE m > i + 1
      <3>1. /\ m + d \in 1..k /\ (m + d) - 1 = (m - 1) + d /\ ~ (m <= i) /\ ~ (m - 1 <= i)
        BY <1>1, <2>0, <2>3
      <3>2. s[m + d] \in Arcs(s[(m + d) - 1])
        BY <3>1 DEF Along
      <3>3. t[m] = s[m + d] /\ t[m - 1] = s[(m - 1) + d]
        BY <2>0, <3>1
      <3> QED
        BY <3>1, <3>2, <3>3
    <2> QED
      BY <2>0, <2>1, <2>2, <2>3
  <1> HIDE DEF t
  <1>8. Along(t, l)
    BY <1>7 DEF Along
  <1> QED
    BY <1>1, <1>3, <1>5, <1>6, <1>8

\* So a shortest path has fewer arcs than there are equations.
LEMMA ReachesUses ==
    ASSUME system \in Systems, PerfectMatching(matches, system), NEW x, NEW y, Reaches(x, y)
    PROVE  Uses(x, y)
  <1> DEFINE n == system.n
             T == {k \in Nat : \E s \in [0..k -> matches] : s[0] = x /\ s[k] = y /\ Along(s, k)}
  <1>1. n \in Nat \ {0}
    BY EdgesArePairs
  <1>2. T \subseteq Nat /\ T # {}
    BY DEF Reaches
  <1>3. PICK k \in T : \A l \in T : k <= l
    BY <1>2, LeastNumber
  <1>4. PICK s \in [0..k -> matches] : s[0] = x /\ s[k] = y /\ Along(s, k)
    BY <1>3
  <1>5. k \in 0..(n - 1)
    <2> SUFFICES ASSUME k >= n PROVE FALSE
      BY <1>1, <1>3
    <2> DEFINE f == [i \in 0..k |-> s[i][1]]
    <2>1. \A z \in matches : z[1] \in 1..n
      BY EdgesArePairs DEF PerfectMatching, Numbers
    <2>2. f \in [0..k -> 1..n]
      BY <1>4, <2>1
    <2>3. IsFiniteSet(0..k) /\ Cardinality(0..k) = k + 1
      BY <1>3, FS_Interval
    <2>4. IsFiniteSet(1..n) /\ Cardinality(1..n) = n
      <3>1. 1 \in Int /\ n \in Int /\ ~ (1 > n) /\ (n - 1) + 1 = n
        BY <1>1
      <3> HIDE DEF n
      <3> QED
        BY <3>1, FS_Interval
    <2>5. Cardinality(1..n) < Cardinality(0..k)
      BY <1>1, <1>3, <2>3, <2>4
    <2>6. PICK i \in 0..k, j \in 0..k : i # j /\ f[i] = f[j]
      <3> DEFINE S == 0..k
                 U == 1..n
      <3>1. /\ IsFiniteSet(S) /\ IsFiniteSet(U) /\ Cardinality(U) < Cardinality(S)
            /\ f \in [S -> U]
        BY <2>2, <2>3, <2>4, <2>5
      <3> HIDE DEF f, n, S, U
      <3>2. \E i, j \in S : i # j /\ f[i] = f[j]
        BY <3>1, FS_PigeonHole
      <3> QED
        BY <3>2 DEF S
    <2>7. s[i] = s[j]
      BY <1>4, <2>6 DEF PerfectMatching
    <2>8. \E l \in Nat : l < k /\ l \in T
      <3>1. i < j \/ j < i
        BY <2>6
      <3>2. k \in Nat
        BY <1>3
      <3>3. \E l \in Nat : l < k /\ \E t \in [0..l -> matches] :
              t[0] = s[0] /\ t[l] = s[k] /\ Along(t, l)
        BY <1>4, <2>7, <3>1, <3>2, PathShortens
      <3> QED
        BY <1>4, <3>3
    <2> QED
      BY <1>3, <2>8
  <1> QED
    BY <1>4, <1>5 DEF Uses, Along

\* A path stays in the block of its first vertex and the earlier ones.
LEMMA PathsGoBack ==
    ASSUME BlocksInv, NEW i \in DOMAIN components, NEW x \in components[i], NEW y,
           Reaches(x, y)
    PROVE  \E b \in 1..i : y \in components[b]
  <1>0. PICK k \in Nat : \E s \in [0..k -> matches] : s[0] = x /\ s[k] = y /\ Along(s, k)
    BY DEF Reaches
  <1>1. PICK s \in [0..k -> matches] : s[0] = x /\ s[k] = y /\ Along(s, k)
    BY <1>0
  <1>2. DOMAIN components = 1..Len(components) /\ Len(components) \in Nat
    BY DEF BlocksInv
  <1> DEFINE T == {m \in Nat : m <= k => \E b \in 1..i : s[m] \in components[b]}
  <1>3. 0 \in T
    BY <1>1, <1>2
  <1>4. ASSUME NEW m \in Nat, m \in T PROVE m + 1 \in T
    <2> SUFFICES ASSUME m + 1 <= k PROVE \E b \in 1..i : s[m + 1] \in components[b]
      OBVIOUS
    <2>1. PICK b \in 1..i : s[m] \in components[b]
      BY <1>4
    <2>2. m + 1 \in 1..k /\ (m + 1) - 1 = m /\ b \in DOMAIN components
      BY <1>2
    <2>3. s[m + 1] \in Arcs(s[m])
      BY <1>1, <2>2 DEF Along
    <2>4. PICK j \in 1..b : s[m + 1] \in components[j]
      BY <2>1, <2>2, <2>3 DEF BlocksInv
    <2>5. j \in 1..i
      BY <1>2
    <2> QED
      BY <2>4, <2>5
  <1> HIDE DEF T
  <1>5. k \in T
    BY <1>3, <1>4, Induct
  <1> QED
    BY <1>1, <1>5 DEF T

LEMMA BlocksAreInOrder == GraphInv => BlocksInOrder
  <1> SUFFICES ASSUME GraphInv PROVE BlocksInOrder
    OBVIOUS
  <1>1. ASSUME place \in {"scc", "components"},
               NEW i \in DOMAIN components, NEW j \in DOMAIN components,
               NEW x \in components[i], NEW y \in components[j]
        PROVE  /\ i < j => ~ Uses(x, y)
               /\ i = j => Uses(x, y)
               /\ i # j => x # y
    <2>1. /\ system \in Systems /\ PerfectMatching(matches, system) /\ BlocksInv
      BY <1>1 DEF GraphInv, MatchInv, MatchingIsPerfect
    <2>2. i \in Nat /\ j \in Nat
      BY <2>1 DEF BlocksInv
    <2>3. i = j => Uses(x, y)
      <3> SUFFICES ASSUME i = j PROVE Uses(x, y)
        OBVIOUS
      <3>1. Reaches(x, y)
        BY <2>1 DEF BlocksInv
      <3> QED
        BY <2>1, <3>1, ReachesUses
    <2>4. i # j => x # y
      BY <2>1 DEF BlocksInv
    <2>5. ASSUME i < j, Uses(x, y) PROVE FALSE
      <3>1. Reaches(x, y)
        <4>1. PICK k \in 0..(system.n - 1) : \E s \in [0..k -> matches] :
                 s[0] = x /\ s[k] = y /\ Along(s, k)
          BY <2>5 DEF Uses, Along
        <4> QED
          BY <4>1 DEF Reaches
      <3>2. PICK b \in 1..i : y \in components[b]
        BY <2>1, <3>1, PathsGoBack
      <3>3. b \in DOMAIN components /\ b # j
        BY <2>1, <2>2, <2>5 DEF BlocksInv
      <3> QED
        BY <2>1, <3>2, <3>3 DEF BlocksInv
    <2> QED
      BY <2>3, <2>4, <2>5
  <1>2. place = "components" => UNION {components[i] : i \in DOMAIN components} = matches
    BY DEF GraphInv, Finished
  <1> QED
    BY <1>1, <1>2 DEF BlocksInOrder


LEMMA GraphStutters ==
    ASSUME GraphInv, UNCHANGED graphVars
    PROVE  GraphInv'
  <1>1. UNCHANGED <<system, place, matches, layers, arcs, successors, path, visited, paths,
                    number, lowlink, stack, calls, components>>
    BY DEF graphVars, matchVars, sccVars
  <1>2. UnmatchedVars' = UnmatchedVars /\ Numbers' = Numbers /\ Reached' = Reached
    BY <1>1, SameMatching DEF Reached
  <1>3. LayersInv => LayersInv'
    BY <1>1, SameLayers
  <1>4. ClosedInv => ClosedInv'
    BY <1>1, <1>2 DEF ClosedInv
  <1>5. (SearchInv => SearchInv') /\ (PathInv => PathInv')
    BY <1>1, <1>2 DEF SearchInv, PathInv, Last
  <1>6. PathsInv => PathsInv'
    BY <1>1 DEF PathsInv, Augments, Apart, ToSet
  <1>7. MatchInv'
    BY <1>1, <1>3, <1>4, <1>5, <1>6, MatchingStays DEF GraphInv, MatchInv, MatchingIsPerfect
  <1>8. SccInv => SccInv'
    <2>1. /\ \A u : Arcs(u)' = Arcs(u)
          /\ \A u, v : Reaches(u, v)' <=> Reaches(u, v)
          /\ Numbered' = Numbered /\ OnStack' = OnStack /\ Finished' = Finished
          /\ \A k : At(k)' = At(k)
      BY <1>1, SameArcs DEF Numbered, OnStack, Finished, At
    <2>2. \A k, u : Under(k, u)' <=> Under(k, u)
      BY <1>1, <2>1 DEF Under
    <2>3. \A u, v : Taken(u, v)' <=> Taken(u, v)
      BY <1>1, <2>1 DEF Taken
    <2>4. (SccTypes => SccTypes') /\ (NumberInv => NumberInv')
      BY <1>1, <2>1 DEF SccTypes, NumberInv
    <2>5. CallInv => CallInv'
      BY <1>1, <2>1, <2>2 DEF CallInv
    <2>6. ArcInv => ArcInv'
      BY <1>1, <2>1, <2>3 DEF ArcInv
    <2>7. LowInv => LowInv'
      BY <1>1, <2>1, <2>2 DEF LowInv
    <2> QED
      BY <1>1, <2>4, <2>5, <2>6, <2>7, SameBlocks DEF SccInv
  <1> QED
    BY <1>1, <1>7, <1>8, SameBlocks DEF GraphInv

\* The graph on its own, without the elimination that BLTModel adds.
GraphSpec == GraphInit /\ [][GraphNext]_graphVars

\* The invariant of the computation (maximum_match and scc).
THEOREM GraphInvariant == GraphSpec => []GraphInv
  <1>1. GraphInv /\ [GraphNext]_graphVars => GraphInv'
    BY GraphStays, GraphStutters
  <1> QED
    BY GraphBegins, <1>1, PTL DEF GraphSpec

\* maximum_match finds a perfect matching, and says that a system is structurally
\* singular only if there is none, for systems of every size: the paths of a
\* phase do not meet, so a phase only adds matches, and the layers of a search
\* that finds no path give a set of equations with fewer variables.
THEOREM MatchingPerfect == GraphSpec => []MatchingIsPerfect
  <1>1. GraphInv => MatchingIsPerfect
    BY DEF GraphInv, MatchInv
  <1> QED
    BY <1>1, GraphInvariant, PTL

\* scc returns the strongly connected components of the matched system, each after
\* those whose variables it contains, for systems of every size: an arc that
\* is done counts in the lowlinks exactly while its end is on the stack.
THEOREM BlocksOrdered == GraphSpec => []BlocksInOrder
  BY BlocksAreInOrder, GraphInvariant, PTL
=============================================================================
