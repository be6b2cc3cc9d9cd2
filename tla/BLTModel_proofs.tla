--------------------------- MODULE BLTModel_proofs ---------------------------
(***************************************************************************)
(* Proofs about BLTModel, on top of those about the matching and the       *)
(* blocks (BipartiteGraph_proofs): what is left after the elimination only *)
(* contains variables that are left, and is a square system.               *)
(*                                                                         *)
(* The variables and equations that are done (DoneVars, DoneEqs) are those *)
(* of the blocks before next and, of a torn block, the causal ones that    *)
(* are no longer to do.  A step of the elimination is done with some more  *)
(* of them and adds a residual for each variable that stays (Step), which  *)
(* preserves the invariant (Progress); there is a lemma for each action.   *)
(***************************************************************************)
EXTENDS BLTModel, BipartiteGraph_proofs

-----------------------------------------------------------------------------
(* The invariant of the elimination.                                       *)

\* Where the blocks are known and no error has come up.
Eliminating == {"blocks", "tearing", "done"}

\* The edges of the blocks that are done, and the variables and equations that
\* are done: of a torn block the causal ones that are no longer to do.
DoneBlocks == UNION {components[i] : i \in 1..(next - 1)}
DoneVars ==
    Vars(DoneBlocks) \cup
    (IF place = "tearing" THEN Vars(Block) \ (TearVars(Block) \cup Vars(causal)) ELSE {})
DoneEqs ==
    Eqs(DoneBlocks) \cup
    (IF place = "tearing" THEN Eqs(Block) \ (TearEqs(Block) \cup Eqs(causal)) ELSE {})

\* The blocks match every variable with an equation of the same block, and an
\* equation contains variables of its own and of earlier blocks.
SortedInv ==
    /\ system \in Systems
    /\ components \in Seq(SUBSET system.edges)
    /\ \A i, j \in DOMAIN components : \A x \in components[i], y \in components[j] :
          x[1] = y[1] \/ x[2] = y[2] => x = y /\ i = j
    /\ \A v \in Numbers : \E i \in DOMAIN components : v \in Vars(components[i])
    /\ \A i \in DOMAIN components : \A e \in Eqs(components[i]) : \A v \in Unknowns(e) :
          \E j \in 1..i : v \in Vars(components[j])
\* The place among the blocks; what is to do of a torn block is a matching of
\* equations and variables that are not torn.
NextInv ==
    /\ next \in Nat \ {0} /\ TearingMatches
    /\ place = "blocks" => next <= Len(components) + 1
    /\ place = "done" => next = Len(components) + 1
    /\ place = "tearing" =>
          /\ next <= Len(components)
          /\ causal \subseteq system.edges
          /\ \A x, y \in causal : x[1] = y[1] \/ x[2] = y[2] => x = y
          /\ Eqs(causal) \subseteq Eqs(Block) \ TearEqs(Block)
          /\ Vars(causal) \subseteq Vars(Block) \ TearVars(Block)
\* Every variable that is done and no derivative is either kept or eliminated, and
\* there is a residual for every one that is left.
CountInv ==
    /\ kept \cup eliminated = DoneVars \ attr.der /\ kept \cap eliminated = {}
    /\ IsFiniteSet(residuals)
    /\ Cardinality(residuals) = Cardinality(kept \cup (attr.der \cap DoneVars))
    /\ \A r \in residuals : \/ r[1] = "equation" /\ r[2] \in DoneEqs
                            \/ r[1] = "solved" /\ r[2] \in DoneVars
\* Solutions and residuals contain variables that are left, or will be: the
\* tearing variables of the present block.
Left == kept \cup attr.der \cup (IF place = "tearing" THEN TearVars(Block) ELSE {})
LeftInv ==
    /\ DOMAIN solution = DoneVars
    /\ \A v \in DoneVars : solution[v] \subseteq Left
    /\ \A r \in residuals : r[3] \subseteq Left
\* Without derivatives as tearing variables, the dependencies are known of what
\* is done and of the tearing variables.
KnownInv ==
    attr.der \cap attr.tearVars = {} =>
        /\ DoneVars \subseteq DOMAIN dependencies
        /\ options.tearing => attr.tearVars \subseteq DOMAIN dependencies

Untouched ==
    /\ next = 1 /\ residuals = {} /\ solution = NoFunction /\ eliminated = {} /\ kept = {}

-----------------------------------------------------------------------------
(* Counting.                                                               *)

LEMMA WithDomain ==
    ASSUME NEW new, NEW old, NEW result, result = With(new, old)
    PROVE  DOMAIN result = DOMAIN new \cup DOMAIN old
  BY DEF With

LEMMA ImageCount ==
    ASSUME NEW E, IsFiniteSet(E), NEW f, DOMAIN f = E, \A x, y \in E : f[x] = f[y] => x = y
    PROVE  IsFiniteSet({f[x] : x \in E}) /\ Cardinality({f[x] : x \in E}) = Cardinality(E)
  <1> DEFINE T == {f[x] : x \in E}
             g == [x \in E |-> f[x]]
  <1>1. g \in [E -> T] /\ (\A x, y \in E : g[x] = g[y] => x = y)
        /\ \A t \in T : \E x \in E : g[x] = t
    OBVIOUS
  <1> HIDE DEF g, T
  <1>2. g \in Bijection(E, T)
    BY <1>1 DEF Bijection, Injection, Surjection, IsInjective
  <1>3. IsFiniteSet(T) /\ Cardinality(T) = Cardinality(E)
    BY <1>2, FS_Bijection DEF ExistsBijection
  <1> QED
    BY <1>3 DEF T

LEMMA AddedCount ==
    ASSUME NEW R, NEW S, NEW U, NEW V,
           IsFiniteSet(R), IsFiniteSet(S), IsFiniteSet(U), IsFiniteSet(V),
           R \cap S = {}, U \cap V = {}, Cardinality(R) = Cardinality(U),
           Cardinality(S) = Cardinality(V)
    PROVE  IsFiniteSet(R \cup S) /\ Cardinality(R \cup S) = Cardinality(U \cup V)
  <1>1. /\ Cardinality(R \cup S) = Cardinality(R) + Cardinality(S) - Cardinality(R \cap S)
        /\ IsFiniteSet(R \cup S)
    BY FS_Union
  <1>2. Cardinality(U \cup V) = Cardinality(U) + Cardinality(V) - Cardinality(U \cap V)
    BY FS_Union
  <1>3. Cardinality(R \cap S) = Cardinality(U \cap V)
    OBVIOUS
  <1> QED
    BY <1>1, <1>2, <1>3

LEMMA RemovedCount ==
    ASSUME NEW S, NEW T, IsFiniteSet(S), T \subseteq S
    PROVE  /\ IsFiniteSet(T) /\ IsFiniteSet(S \ T)
           /\ Cardinality(S \ T) \in Nat /\ Cardinality(T) \in Nat
           /\ Cardinality(S) = Cardinality(S \ T) + Cardinality(T)
  <1>1. IsFiniteSet(T) /\ IsFiniteSet(S \ T)
    BY FS_Subset
  <1>2. Cardinality((S \ T) \cup T)
          = Cardinality(S \ T) + Cardinality(T) - Cardinality((S \ T) \cap T)
    BY <1>1, FS_Union
  <1>3. (S \ T) \cup T = S /\ (S \ T) \cap T = {}
    OBVIOUS
  <1>4. Cardinality((S \ T) \cap T) = 0
    BY <1>3, FS_EmptySet
  <1>5. Cardinality(S \ T) \in Nat /\ Cardinality(T) \in Nat
    BY <1>1, FS_CardinalityType
  <1> QED
    BY <1>1, <1>2, <1>3, <1>4, <1>5

-----------------------------------------------------------------------------
(* The blocks.                                                             *)

LEMMA NumbersFinite ==
    ASSUME system \in Systems
    PROVE  /\ IsFiniteSet(Numbers) /\ Cardinality(Numbers) = system.n
           /\ IsFiniteSet(system.edges)
           /\ \A x \in system.edges : x = <<x[1], x[2]>> /\ x[1] \in Numbers /\ x[2] \in Numbers
  <1>1. 1 \in Int /\ system.n \in Int /\ ~ (1 > system.n) /\ (system.n - 1) + 1 = system.n
    BY EdgesArePairs
  <1>2. IsFiniteSet(Numbers) /\ Cardinality(Numbers) = system.n
    BY <1>1, FS_Interval DEF Numbers
  <1>3. IsFiniteSet(Numbers \X Numbers)
    BY <1>2, FS_Product
  <1>4. system.edges \in SUBSET (Numbers \X Numbers)
    BY SystemsAssumption DEF Numbers
  <1>5. IsFiniteSet(system.edges)
    BY <1>3, <1>4, FS_Subset
  <1> QED
    BY <1>2, <1>5, EdgesArePairs

\* A matching has as many equations as variables.
LEMMA MatchingCount ==
    ASSUME system \in Systems, NEW m, m \subseteq system.edges,
           \A x, y \in m : x[1] = y[1] \/ x[2] = y[2] => x = y
    PROVE  /\ IsFiniteSet(Eqs(m)) /\ IsFiniteSet(Vars(m))
           /\ Cardinality(Eqs(m)) = Cardinality(m) /\ Cardinality(Vars(m)) = Cardinality(m)
           /\ Eqs(m) \subseteq Numbers /\ Vars(m) \subseteq Numbers
  <1>1. IsFiniteSet(m)
    BY NumbersFinite, FS_Subset
  <1> DEFINE f == [x \in m |-> x[1]]
             g == [x \in m |-> x[2]]
  <1>2. /\ DOMAIN f = m /\ DOMAIN g = m
        /\ \A x, y \in m : f[x] = f[y] => x = y
        /\ \A x, y \in m : g[x] = g[y] => x = y
    OBVIOUS
  <1>3. Eqs(m) = {f[x] : x \in m} /\ Vars(m) = {g[x] : x \in m}
    BY DEF Eqs, Vars
  <1> HIDE DEF f, g
  <1>4. IsFiniteSet({f[x] : x \in m}) /\ Cardinality({f[x] : x \in m}) = Cardinality(m)
    BY <1>1, <1>2, ImageCount
  <1>5. IsFiniteSet({g[x] : x \in m}) /\ Cardinality({g[x] : x \in m}) = Cardinality(m)
    BY <1>1, <1>2, ImageCount
  <1>6. Eqs(m) \subseteq Numbers /\ Vars(m) \subseteq Numbers
    BY NumbersFinite DEF Eqs, Vars
  <1> QED
    BY <1>3, <1>4, <1>5, <1>6

LEMMA BlockFacts ==
    ASSUME SortedInv, next \in Nat \ {0}, next <= Len(components)
    PROVE  /\ next \in DOMAIN components /\ Block \subseteq system.edges
           /\ \A x, y \in Block : x[1] = y[1] \/ x[2] = y[2] => x = y
           /\ Eqs(Block) \subseteq Numbers /\ Vars(Block) \subseteq Numbers
           /\ IsFiniteSet(Eqs(Block)) /\ IsFiniteSet(Vars(Block))
           /\ Cardinality(Eqs(Block)) = Cardinality(Block)
           /\ Cardinality(Vars(Block)) = Cardinality(Block)
           /\ Eqs(Block) \cap Eqs(DoneBlocks) = {} /\ Vars(Block) \cap Vars(DoneBlocks) = {}
           /\ \A e \in Eqs(Block) : Unknowns(e) \subseteq Vars(DoneBlocks) \cup Vars(Block)
  <1>1. components \in Seq(SUBSET system.edges) /\ system \in Systems
    BY DEF SortedInv
  <1>2. DOMAIN components = 1..Len(components) /\ Len(components) \in Nat
    BY <1>1
  <1>3. next \in DOMAIN components /\ \A i \in 1..(next - 1) : i \in DOMAIN components /\ i # next
    BY <1>2
  <1>4. /\ Block \subseteq system.edges
        /\ \A x, y \in Block : x[1] = y[1] \/ x[2] = y[2] => x = y
    BY <1>1, <1>3 DEF SortedInv, Block
  <1>5. Eqs(Block) \cap Eqs(DoneBlocks) = {} /\ Vars(Block) \cap Vars(DoneBlocks) = {}
    <2>1. ASSUME NEW x \in Block, NEW i \in 1..(next - 1), NEW y \in components[i]
          PROVE  x[1] # y[1] /\ x[2] # y[2]
      BY <1>3 DEF SortedInv, Block
    <2> QED
      BY <2>1 DEF Eqs, Vars, DoneBlocks
  <1>6. ASSUME NEW e \in Eqs(Block), NEW v \in Unknowns(e)
        PROVE  v \in Vars(DoneBlocks) \cup Vars(Block)
    <2>1. PICK j \in 1..next : v \in Vars(components[j])
      BY <1>3 DEF SortedInv, Block
    <2>2. CASE j = next
      BY <2>1, <2>2 DEF Block
    <2>3. CASE j < next
      <3>1. j \in 1..(next - 1)
        BY <2>3
      <3> QED
        BY <2>1, <3>1 DEF DoneBlocks, Vars
    <2> QED
      BY <2>1, <2>2, <2>3
  <1> QED
    BY <1>1, <1>3, <1>4, <1>5, <1>6, MatchingCount

LEMMA MoreBlocks ==
    ASSUME next \in Nat \ {0}, next' = next + 1, UNCHANGED components
    PROVE  /\ Vars(DoneBlocks') = Vars(DoneBlocks) \cup Vars(Block)
           /\ Eqs(DoneBlocks') = Eqs(DoneBlocks) \cup Eqs(Block)
  <1>1. \A i : i \in 1..(next' - 1) <=> i \in 1..(next - 1) \/ i = next
    OBVIOUS
  <1>2. DoneBlocks' = DoneBlocks \cup Block
    BY <1>1 DEF DoneBlocks, Block
  <1> QED
    BY <1>2 DEF Vars, Eqs

-----------------------------------------------------------------------------
(* One step of the elimination.                                            *)

\* A step is done with the variables V and the equations E, of the variables
\* leaves S, and adds the residuals R.
Step(V, E, S, R) ==
    /\ UNCHANGED <<options, attr>>
    /\ DoneVars' = DoneVars \cup V /\ V \cap DoneVars = {} /\ DoneVars \cup V \subseteq Numbers
    /\ DoneEqs' = DoneEqs \cup E /\ E \cap DoneEqs = {}
    /\ S \subseteq V /\ V \cap attr.der \subseteq S
    /\ kept' = kept \cup (S \ attr.der)
    /\ eliminated' = eliminated \cup (V \ (S \cup attr.der))
    /\ residuals' = residuals \cup R /\ IsFiniteSet(R) /\ Cardinality(R) = Cardinality(S)
    /\ \A r \in R : /\ \/ r[1] = "equation" /\ r[2] \in E
                       \/ r[1] = "solved" /\ r[2] \in V
                    /\ r[3] \subseteq Left'
    /\ Left \subseteq Left'
    /\ DOMAIN solution' = DoneVars \cup V
    /\ \A v \in DoneVars : solution'[v] = solution[v]
    /\ \A v \in V : solution'[v] \subseteq Left'
    /\ attr.der \cap attr.tearVars = {} =>
          DOMAIN dependencies \cup V \subseteq DOMAIN dependencies'

LEMMA Progress ==
    ASSUME system \in Systems, CountInv, LeftInv, KnownInv,
           NEW V, NEW E, NEW S, NEW R, Step(V, E, S, R)
    PROVE  CountInv' /\ LeftInv' /\ KnownInv'
  <1> DEFINE U == kept \cup (attr.der \cap DoneVars)
  <1>1. attr' = attr /\ options' = options
    BY DEF Step
  <1>2. kept \cup eliminated = DoneVars \ attr.der /\ kept \cap eliminated = {}
    BY DEF CountInv
  <1>3. kept' \cup eliminated' = DoneVars' \ attr'.der /\ kept' \cap eliminated' = {}
    BY <1>1, <1>2 DEF Step
  <1>4. kept' \cup (attr'.der \cap DoneVars') = U \cup S /\ U \cap S = {}
    BY <1>1, <1>2 DEF Step
  <1>5. IsFiniteSet(U) /\ IsFiniteSet(S)
    <2>1. U \in SUBSET Numbers /\ S \in SUBSET Numbers
      BY <1>2 DEF Step
    <2> QED
      BY <2>1, NumbersFinite, FS_Subset
  <1>6. residuals \cap R = {} /\ residuals' = residuals \cup R
        /\ IsFiniteSet(R) /\ Cardinality(R) = Cardinality(S)
    BY DEF CountInv, Step
  <1>7. IsFiniteSet(residuals) /\ Cardinality(residuals) = Cardinality(U)
    BY DEF CountInv
  <1> HIDE DEF U
  <1>8. IsFiniteSet(residuals \cup R) /\ Cardinality(residuals \cup R) = Cardinality(U \cup S)
    BY <1>4, <1>5, <1>6, <1>7, AddedCount
  <1>9. \A r \in residuals' : \/ r[1] = "equation" /\ r[2] \in DoneEqs'
                              \/ r[1] = "solved" /\ r[2] \in DoneVars'
    BY DEF CountInv, Step
  <1>10. CountInv'
    BY <1>3, <1>4, <1>6, <1>8, <1>9 DEF CountInv
  <1>11. LeftInv'
    <2>1. \A v \in DoneVars : solution[v] \subseteq Left
      BY DEF LeftInv
    <2>2. \A r \in residuals : r[3] \subseteq Left
      BY DEF LeftInv
    <2> QED
      BY <2>1, <2>2 DEF LeftInv, Step
  <1>12. KnownInv'
    BY <1>1 DEF KnownInv, Step
  <1> QED
    BY <1>10, <1>11, <1>12

\* An expression contains what is left, once the solutions are put in.
LEMMA Expression ==
    ASSUME LeftInv, NEW e, NEW vs, NEW L, Left \subseteq L,
           Unknowns(e) \ vs \subseteq DoneVars \cup L
    PROVE  Substituted(e, vs) \subseteq L
  <1>1. DOMAIN solution = DoneVars /\ \A v \in DoneVars : solution[v] \subseteq Left
    BY DEF LeftInv
  <1>2. ASSUME NEW v \in Unknowns(e) \ vs
        PROVE  (IF v \in DOMAIN solution THEN solution[v] ELSE {v}) \subseteq L
    BY <1>1
  <1> QED
    BY <1>2 DEF Substituted

\* The residuals of equations.
LEMMA ResidualsOf ==
    ASSUME NEW es, IsFiniteSet(es)
    PROVE  LET R == {Residual(e) : e \in es}
           IN  /\ IsFiniteSet(R) /\ Cardinality(R) = Cardinality(es)
               /\ \A r \in R : r[1] = "equation" /\ r[2] \in es /\ r[3] = Substituted(r[2], {})
  <1> DEFINE f == [e \in es |-> Residual(e)]
  <1>1. DOMAIN f = es /\ {f[e] : e \in es} = {Residual(e) : e \in es}
    OBVIOUS
  <1>2. \A e \in es : f[e] = <<"equation", e, Substituted(e, {})>>
    BY DEF Residual
  <1>3. \A d, e \in es : f[d] = f[e] => d = e
    BY <1>2
  <1> HIDE DEF f
  <1>4. IsFiniteSet({f[e] : e \in es}) /\ Cardinality({f[e] : e \in es}) = Cardinality(es)
    BY <1>1, <1>3, ImageCount
  <1>5. \A e \in es : /\ Residual(e)[1] = "equation" /\ Residual(e)[2] = e
                     /\ Residual(e)[3] = Substituted(e, {})
    BY DEF Residual
  <1>6. \A r \in {Residual(e) : e \in es} :
            r[1] = "equation" /\ r[2] \in es /\ r[3] = Substituted(r[2], {})
    BY <1>5
  <1> QED
    BY <1>1, <1>4, <1>6

LEMMA SolvedOf ==
    ASSUME NEW vs, IsFiniteSet(vs), NEW x
    PROVE  LET R == {Solved(v, x) : v \in vs}
           IN  /\ IsFiniteSet(R) /\ Cardinality(R) = Cardinality(vs)
               /\ \A r \in R : r[1] = "solved" /\ r[2] \in vs /\ r[3] = {r[2]} \cup x
  <1> DEFINE f == [v \in vs |-> Solved(v, x)]
  <1>1. DOMAIN f = vs /\ {f[v] : v \in vs} = {Solved(v, x) : v \in vs}
    OBVIOUS
  <1>2. \A v \in vs : f[v] = <<"solved", v, {v} \cup x>>
    BY DEF Solved
  <1>3. \A d, e \in vs : f[d] = f[e] => d = e
    BY <1>2
  <1> HIDE DEF f
  <1>4. IsFiniteSet({f[e] : e \in vs}) /\ Cardinality({f[e] : e \in vs}) = Cardinality(vs)
    BY <1>1, <1>3, ImageCount
  <1> QED
    BY <1>1, <1>2, <1>4

-----------------------------------------------------------------------------
(* The blocks that are solved or kept.                                     *)

ElimInv == SortedInv /\ NextInv /\ CountInv /\ LeftInv /\ KnownInv

LEMMA SortedStays ==
    ASSUME SortedInv, UNCHANGED <<system, components>>
    PROVE  SortedInv'
  BY DEF SortedInv, Unknowns, Numbers, Vars, Eqs

LEMMA TearingStays ==
    ASSUME UNCHANGED <<components, options, attr>>
    PROVE  /\ TearingMatches' <=> TearingMatches
           /\ \A co : TearVars(co)' = TearVars(co) /\ TearEqs(co)' = TearEqs(co)
  BY DEF TearingMatches, TearVars, TearEqs, Vars, Eqs

LEMMA DoneAreNumbers ==
    ASSUME SortedInv, next \in Nat \ {0}, next <= Len(components) + 1
    PROVE  Vars(DoneBlocks) \subseteq Numbers /\ Eqs(DoneBlocks) \subseteq Numbers
  <1>1. components \in Seq(SUBSET system.edges) /\ system \in Systems
    BY DEF SortedInv
  <1>2. \A i \in 1..(next - 1) : components[i] \subseteq system.edges
    BY <1>1
  <1>3. DoneBlocks \subseteq system.edges
    BY <1>2 DEF DoneBlocks
  <1> QED
    BY <1>1, <1>3, NumbersFinite DEF Vars, Eqs

\* A whole block is done.
LEMMA BlockDone ==
    ASSUME place = "blocks", place' = "blocks", ElimInv, next <= Len(components),
           next' = next + 1, UNCHANGED <<system, components, options, attr>>
    PROVE  /\ SortedInv' /\ NextInv'
           /\ DoneVars = Vars(DoneBlocks) /\ DoneVars' = DoneVars \cup Vars(Block)
           /\ Vars(Block) \cap DoneVars = {} /\ DoneVars \cup Vars(Block) \subseteq Numbers
           /\ DoneEqs' = DoneEqs \cup Eqs(Block) /\ Eqs(Block) \cap DoneEqs = {}
           /\ Left = kept \cup attr.der /\ Left' = kept' \cup attr.der
           /\ IsFiniteSet(Eqs(Block)) /\ IsFiniteSet(Vars(Block))
           /\ Cardinality(Eqs(Block)) = Cardinality(Vars(Block))
           /\ \A e \in Eqs(Block) : Unknowns(e) \subseteq DoneVars \cup Vars(Block)
  <1>1. SortedInv /\ next \in Nat \ {0} /\ TearingMatches
    BY DEF ElimInv, NextInv
  <1>2. Len(components) \in Nat
    BY <1>1 DEF SortedInv
  <1>3. SortedInv' /\ TearingMatches'
    BY <1>1, SortedStays, TearingStays
  <1>4. NextInv'
    BY <1>1, <1>2, <1>3 DEF NextInv
  <1>5. /\ DoneVars = Vars(DoneBlocks) /\ DoneVars' = Vars(DoneBlocks')
        /\ DoneEqs = Eqs(DoneBlocks) /\ DoneEqs' = Eqs(DoneBlocks')
    BY DEF DoneVars, DoneEqs, Vars, Eqs
  <1>6. Left = kept \cup attr.der /\ Left' = kept' \cup attr.der
    BY DEF Left
  <1>7. Vars(DoneBlocks) \subseteq Numbers
    BY <1>1, <1>2, DoneAreNumbers
  <1> QED
    BY <1>1, <1>3, <1>4, <1>5, <1>6, <1>7, BlockFacts, MoreBlocks

LEMMA KeepBlockStays ==
    ASSUME place = "blocks", ElimInv, KeepBlock
    PROVE  place' = "blocks" /\ ElimInv'
  <1> DEFINE V == Vars(Block)
             E == Eqs(Block)
             R == {Residual(e) : e \in E}
  <1>1. /\ place' = "blocks" /\ next <= Len(components) /\ next' = next + 1
        /\ UNCHANGED <<system, components, options, attr, eliminated>>
        /\ residuals' = residuals \cup R /\ kept' = kept \cup (V \ attr.der)
        /\ solution' = With([v \in V |-> {v}], solution)
        /\ dependencies' = With([v \in V |-> {v}], dependencies)
    BY DEF KeepBlock, AtBlock, Keep, Themselves, graphVars, sccVars
  <1>2. system \in Systems /\ CountInv /\ LeftInv /\ KnownInv
    BY DEF ElimInv, SortedInv
  <1>3. /\ SortedInv' /\ NextInv'
        /\ DoneVars' = DoneVars \cup V /\ V \cap DoneVars = {} /\ DoneVars \cup V \subseteq Numbers
        /\ DoneEqs' = DoneEqs \cup E /\ E \cap DoneEqs = {}
        /\ Left = kept \cup attr.der /\ Left' = kept' \cup attr.der
        /\ IsFiniteSet(E) /\ IsFiniteSet(V) /\ Cardinality(E) = Cardinality(V)
        /\ \A e \in E : Unknowns(e) \subseteq DoneVars \cup V
    BY <1>1, BlockDone
  <1> HIDE DEF V, E
  <1>4. Left \subseteq Left' /\ V \subseteq Left'
    BY <1>1, <1>3
  <1>5. \A e \in E : Substituted(e, {}) \subseteq Left'
    BY <1>2, <1>3, <1>4, Expression
  <1>6. /\ IsFiniteSet(R) /\ Cardinality(R) = Cardinality(V)
        /\ \A r \in R : r[1] = "equation" /\ r[2] \in E /\ r[3] \subseteq Left'
    BY <1>3, <1>5, ResidualsOf
  <1>7. DOMAIN solution = DoneVars
    BY <1>2 DEF LeftInv
  <1>8. /\ DOMAIN solution' = DoneVars \cup V
        /\ \A v \in DoneVars : solution'[v] = solution[v]
        /\ \A v \in V : solution'[v] = {v}
    <2> DEFINE new == [v \in V |-> {v}]
    <2>1. DOMAIN new = V /\ \A v \in V : new[v] = {v}
      OBVIOUS
    <2>2. solution' = With(new, solution)
      BY <1>1
    <2>3. V \cap DoneVars = {}
      BY <1>3
    <2>4. DOMAIN new = V
      OBVIOUS
    <2> HIDE DEF new
    <2>5. /\ DOMAIN solution' = DoneVars \cup V
          /\ \A v \in DoneVars : solution'[v] = solution[v]
          /\ \A v \in V : solution'[v] = new[v]
      BY <1>7, <2>2, <2>3, <2>4 DEF With
    <2> QED
      BY <2>1, <2>5
  <1>9. DOMAIN dependencies' = V \cup DOMAIN dependencies
    <2> DEFINE new == [v \in V |-> {v}]
    <2>1. DOMAIN new = V /\ dependencies' = With(new, dependencies)
      BY <1>1
    <2> HIDE DEF new
    <2> QED
      BY <2>1, WithDomain
  <1> HIDE DEF R
  <1>10. Step(V, E, V, R)
    <2>1. /\ kept' = kept \cup (V \ attr.der)
          /\ eliminated' = eliminated \cup (V \ (V \cup attr.der))
      BY <1>1
    <2>2. residuals' = residuals \cup R /\ UNCHANGED <<options, attr>>
      BY <1>1
    <2>3. \A v \in V : solution'[v] \subseteq Left'
      BY <1>4, <1>8
    <2> QED
      BY <1>3, <1>4, <1>6, <1>8, <1>9, <2>1, <2>2, <2>3 DEF Step
  <1>11. CountInv' /\ LeftInv' /\ KnownInv'
    BY <1>2, <1>10, Progress
  <1> QED
    BY <1>1, <1>3, <1>11 DEF ElimInv

LEMMA StoredSolution ==
    ASSUME place = "blocks", ElimInv, next <= Len(components), StoreSolution(Block),
           Stays(Block) \subseteq attr.der, Vars(Block) \cap attr.der \subseteq Stays(Block),
           DOMAIN dependencies' = Vars(Block) \cup DOMAIN dependencies
    PROVE  place' = "blocks" /\ ElimInv'
  <1> DEFINE V == Vars(Block)
             E == Eqs(Block)
             S == Stays(Block)
             X == RightHandSide(Block)
             R == {Solved(v, X) : v \in S}
  <1>1. /\ place' = "blocks" /\ next' = next + 1
        /\ UNCHANGED <<system, components, options, attr, kept>>
        /\ residuals' = residuals \cup R /\ eliminated' = eliminated \cup (V \ S)
        /\ solution' = With([v \in V |-> X], solution)
    BY DEF StoreSolution, graphVars, sccVars
  <1>2. system \in Systems /\ CountInv /\ LeftInv /\ KnownInv
    BY DEF ElimInv, SortedInv
  <1>3. /\ SortedInv' /\ NextInv'
        /\ DoneVars' = DoneVars \cup V /\ V \cap DoneVars = {} /\ DoneVars \cup V \subseteq Numbers
        /\ DoneEqs' = DoneEqs \cup E /\ E \cap DoneEqs = {}
        /\ Left = kept \cup attr.der /\ Left' = kept' \cup attr.der
        /\ IsFiniteSet(V) /\ \A e \in E : Unknowns(e) \subseteq DoneVars \cup V
    BY <1>1, BlockDone
  <1>4. Left' = Left /\ S \subseteq V /\ S \subseteq Left'
    BY <1>1, <1>3 DEF Stays
  <1>5. X \subseteq Left'
    <2>1. \A e \in E : Substituted(e, V) \subseteq Left'
      BY <1>2, <1>3, <1>4, Expression
    <2> QED
      BY <2>1 DEF RightHandSide
  <1> HIDE DEF X, E
  <1>6. /\ IsFiniteSet(R) /\ Cardinality(R) = Cardinality(S)
        /\ \A r \in R : r[1] = "solved" /\ r[2] \in V /\ r[3] \subseteq Left'
    <2>1. IsFiniteSet(S)
      BY <1>3, <1>4, FS_Subset
    <2> HIDE DEF S, V
    <2>2. /\ IsFiniteSet(R) /\ Cardinality(R) = Cardinality(S)
          /\ \A r \in R : r[1] = "solved" /\ r[2] \in S /\ r[3] = {r[2]} \cup X
      BY <2>1, SolvedOf
    <2> QED
      BY <1>4, <1>5, <2>2
  <1>7. DOMAIN solution = DoneVars
    BY <1>2 DEF LeftInv
  <1>8. /\ DOMAIN solution' = DoneVars \cup V
        /\ \A v \in DoneVars : solution'[v] = solution[v]
        /\ \A v \in V : solution'[v] = X
    <2> DEFINE new == [v \in V |-> X]
    <2>1. DOMAIN new = V /\ \A v \in V : new[v] = X
      OBVIOUS
    <2>2. solution' = With(new, solution)
      BY <1>1
    <2>3. V \cap DoneVars = {}
      BY <1>3
    <2>4. DOMAIN new = V
      OBVIOUS
    <2> HIDE DEF new, V
    <2>5. /\ DOMAIN solution' = DoneVars \cup V
          /\ \A v \in DoneVars : solution'[v] = solution[v]
          /\ \A v \in V : solution'[v] = new[v]
      BY <1>7, <2>2, <2>3, <2>4 DEF With
    <2> QED
      BY <2>1, <2>5
  <1>9. /\ V \ S = V \ (S \cup attr.der) /\ V \cap attr.der \subseteq S
        /\ kept' = kept \cup (S \ attr.der) /\ DOMAIN dependencies' = V \cup DOMAIN dependencies
    BY <1>1
  <1> HIDE DEF V, S, R
  <1>10. Step(V, E, S, R)
    <2>1. /\ kept' = kept \cup (S \ attr.der)
          /\ eliminated' = eliminated \cup (V \ (S \cup attr.der))
      BY <1>1, <1>9
    <2>2. residuals' = residuals \cup R /\ UNCHANGED <<options, attr>>
      BY <1>1
    <2>3. (\A v \in V : solution'[v] \subseteq Left') /\ Left \subseteq Left'
      BY <1>4, <1>5, <1>8
    <2>4. \A r \in R : /\ \/ r[1] = "equation" /\ r[2] \in E
                          \/ r[1] = "solved" /\ r[2] \in V
                       /\ r[3] \subseteq Left'
      BY <1>6
    <2> QED
      BY <1>3, <1>4, <1>6, <1>8, <1>9, <2>1, <2>2, <2>3, <2>4 DEF Step
  <1>11. CountInv' /\ LeftInv' /\ KnownInv'
    BY <1>2, <1>10, Progress
  <1> QED
    BY <1>1, <1>3, <1>11 DEF ElimInv

LEMMA SolveStays ==
    ASSUME place = "blocks", ElimInv, SolveScalar \/ SolveBlock \/ SolveTornBlock
    PROVE  place' = "blocks" /\ ElimInv'
  <1>1. next <= Len(components) /\ StoreSolution(Block) /\ Solvable(Block)
    BY DEF SolveScalar, SolveBlock, SolveTornBlock, AtBlock, Solvable
  <1>2. Stays(Block) \subseteq attr.der /\ Vars(Block) \cap attr.der \subseteq Stays(Block)
    BY <1>1 DEF Solvable, Stays
  <1>3. DOMAIN dependencies' = Vars(Block) \cup DOMAIN dependencies
    <2>1. CASE SolveScalar
      <3> DEFINE x == ScalarOf(Block)
      <3>1. Cardinality(Block) = 1 /\ dependencies' = Recorded(x[1], x[2])
        BY <2>1 DEF SolveScalar
      <3>2. DOMAIN dependencies' = {x[2]} \cup DOMAIN dependencies
        <4> DEFINE new == [w \in {x[2]} |-> IF Preserves(x[1], x[2])
                                            THEN Depends(Unknowns(x[1]) \ {x[2]}) ELSE {x[2]}]
        <4>1. DOMAIN new = {x[2]}
          OBVIOUS
        <4>2. dependencies' = With(new, dependencies)
          BY <3>1 DEF Recorded
        <4> HIDE DEF new, x
        <4> QED
          BY <4>1, <4>2, WithDomain
      <3>3. PICK y : Block = {y}
        <4>1. IsFiniteSet(Block)
          BY <1>1, BlockFacts, NumbersFinite, FS_Subset DEF ElimInv, NextInv, SortedInv
        <4> QED
          BY <3>1, <4>1, FS_Singleton
      <3>4. x = y
        BY <3>3 DEF ScalarOf
      <3>5. Vars(Block) = {x[2]}
        BY <3>3, <3>4 DEF Vars
      <3> QED
        BY <3>2, <3>5
    <2>2. CASE SolveBlock \/ SolveTornBlock
      <3> DEFINE V == Vars(Block)
                 new == [v \in V |-> {v}]
      <3>1. DOMAIN new = V
        OBVIOUS
      <3>2. dependencies' = With(new, dependencies)
        BY <2>2 DEF SolveBlock, SolveTornBlock, Themselves
      <3> HIDE DEF new
      <3> QED
        BY <3>1, <3>2, WithDomain
    <2> QED
      BY <2>1, <2>2
  <1> QED
    BY <1>1, <1>2, <1>3, StoredSolution

-----------------------------------------------------------------------------
(* A torn block.                                                           *)

\* What a torn block has, in both places.
LEMMA TearingFacts ==
    ASSUME SortedInv, next \in Nat \ {0}, next <= Len(components), TearingMatches
    PROVE  /\ TearVars(Block) \subseteq Vars(Block) /\ TearEqs(Block) \subseteq Eqs(Block)
           /\ IsFiniteSet(TearVars(Block)) /\ IsFiniteSet(TearEqs(Block))
           /\ Cardinality(TearVars(Block)) = Cardinality(TearEqs(Block))
           /\ IsFiniteSet(Eqs(Block) \ TearEqs(Block))
           /\ Cardinality(Eqs(Block) \ TearEqs(Block)) = Cardinality(Vars(Block) \ TearVars(Block))
  <1>1. TearVars(Block) \subseteq Vars(Block) /\ TearEqs(Block) \subseteq Eqs(Block)
    BY DEF TearVars, TearEqs
  <1>2. /\ IsFiniteSet(Eqs(Block)) /\ IsFiniteSet(Vars(Block)) /\ next \in DOMAIN components
        /\ Cardinality(Eqs(Block)) = Cardinality(Vars(Block))
    BY BlockFacts
  <1>3. Cardinality(TearVars(Block)) = Cardinality(TearEqs(Block))
    BY <1>2 DEF TearingMatches, Block
  <1>4. /\ IsFiniteSet(TearVars(Block)) /\ Cardinality(TearVars(Block)) \in Nat
        /\ Cardinality(Vars(Block) \ TearVars(Block)) \in Nat
        /\ Cardinality(Vars(Block))
             = Cardinality(Vars(Block) \ TearVars(Block)) + Cardinality(TearVars(Block))
    BY <1>1, <1>2, RemovedCount
  <1>5. /\ IsFiniteSet(TearEqs(Block)) /\ Cardinality(TearEqs(Block)) \in Nat
        /\ Cardinality(Eqs(Block) \ TearEqs(Block)) \in Nat
        /\ IsFiniteSet(Eqs(Block) \ TearEqs(Block))
        /\ Cardinality(Eqs(Block))
             = Cardinality(Eqs(Block) \ TearEqs(Block)) + Cardinality(TearEqs(Block))
    BY <1>1, <1>2, RemovedCount
  <1>6. Cardinality(Eqs(Block) \ TearEqs(Block)) = Cardinality(Vars(Block) \ TearVars(Block))
    BY <1>2, <1>3, <1>4, <1>5
  <1> QED
    BY <1>1, <1>3, <1>4, <1>5, <1>6

\* A causal matching is one: every equation that is not torn has one variable,
\* and as there are as many variables, every variable has one equation.
LEMMA CausalIsMatching ==
    ASSUME SortedInv, next \in Nat \ {0}, next <= Len(components), TearingMatches,
           NEW m \in CausalMatchings(Block)
    PROVE  /\ m \subseteq system.edges
           /\ \A x, y \in m : x[1] = y[1] \/ x[2] = y[2] => x = y
           /\ Eqs(m) = Eqs(Block) \ TearEqs(Block) /\ Vars(m) = Vars(Block) \ TearVars(Block)
  <1> DEFINE es == Eqs(Block) \ TearEqs(Block)
             vs == Vars(Block) \ TearVars(Block)
  <1>1. PICK f \in [es -> vs] : m = {<<e, f[e]>> : e \in es}
    BY DEF CausalMatchings
  <1>2. m \subseteq system.edges /\ Vars(m) = vs
    BY DEF CausalMatchings
  <1>3. IsFiniteSet(es) /\ Cardinality(es) = Cardinality(vs)
    BY TearingFacts
  <1> HIDE DEF es, vs
  <1>4. \A x \in m : x[1] \in es /\ x[2] = f[x[1]] /\ x = <<x[1], x[2]>>
    BY <1>1
  <1>5. \A e \in es : <<e, f[e]>> \in m
    BY <1>1
  <1>6. \A v \in vs : \E e \in es : f[e] = v
    BY <1>2, <1>4 DEF Vars
  <1>7. f \in Surjection(es, vs)
    BY <1>6 DEF Surjection
  <1>8. f \in Injection(es, vs)
    BY <1>3, <1>7, FS_SurjSameCardinalityImpliesInj
  <1>9. \A d, e \in es : f[d] = f[e] => d = e
    BY <1>8 DEF Injection, IsInjective
  <1>10. \A x, y \in m : x[1] = y[1] \/ x[2] = y[2] => x = y
    BY <1>4, <1>9
  <1>11. Eqs(m) = es
    BY <1>4, <1>5 DEF Eqs
  <1> QED
    BY <1>2, <1>10, <1>11 DEF es, vs

\* Nothing is left out: Step without variables, equations and residuals.
LEMMA NoStep ==
    ASSUME SortedInv, LeftInv, DoneVars' = DoneVars, DoneEqs' = DoneEqs, DoneVars \subseteq Numbers,
           Left \subseteq Left',
           UNCHANGED <<options, attr, kept, eliminated, residuals, solution, dependencies>>
    PROVE  Step({}, {}, {}, {})
  BY FS_EmptySet DEF Step, LeftInv

LEMMA TearBlockStays ==
    ASSUME place = "blocks", ElimInv, TearBlock
    PROVE  place' = "tearing" /\ ElimInv'
  <1>1. /\ next <= Len(components) /\ causal' \in CausalMatchings(Block) /\ place' = "tearing"
        /\ UNCHANGED <<system, components, options, attr, next, residuals, solution, eliminated,
                       kept, dependencies>>
    BY DEF TearBlock, AtBlock, sccVars
  <1>2. SortedInv /\ CountInv /\ LeftInv /\ KnownInv /\ next \in Nat \ {0} /\ TearingMatches
    BY DEF ElimInv, NextInv
  <1>3. SortedInv' /\ TearingMatches'
    BY <1>1, <1>2, SortedStays, TearingStays
  <1>4. Block' = Block /\ TearVars(Block)' = TearVars(Block) /\ TearEqs(Block)' = TearEqs(Block)
        /\ DoneBlocks' = DoneBlocks
    BY <1>1 DEF Block, TearVars, TearEqs, Vars, Eqs, DoneBlocks
  <1> DEFINE m == causal'
  <1>5. /\ m \subseteq system.edges
        /\ \A x, y \in m : x[1] = y[1] \/ x[2] = y[2] => x = y
        /\ Eqs(m) = Eqs(Block) \ TearEqs(Block) /\ Vars(m) = Vars(Block) \ TearVars(Block)
    BY <1>1, <1>2, CausalIsMatching
  <1>6. Eqs(causal)' = Eqs(m) /\ Vars(causal)' = Vars(m)
        /\ Eqs(Block)' = Eqs(Block) /\ Vars(Block)' = Vars(Block)
        /\ Eqs(DoneBlocks)' = Eqs(DoneBlocks) /\ Vars(DoneBlocks)' = Vars(DoneBlocks)
    BY <1>4 DEF Eqs, Vars
  <1> HIDE DEF m
  <1>7. NextInv'
    <2>1. causal' \subseteq system'.edges /\ next' <= Len(components')
          /\ \A x, y \in causal' : x[1] = y[1] \/ x[2] = y[2] => x = y
      BY <1>1, <1>5 DEF m
    <2>2. /\ Eqs(causal)' \subseteq Eqs(Block)' \ TearEqs(Block)'
          /\ Vars(causal)' \subseteq Vars(Block)' \ TearVars(Block)'
      BY <1>4, <1>5, <1>6
    <2> QED
      BY <1>1, <1>2, <1>3, <2>1, <2>2 DEF NextInv
  <1>8. DoneVars = Vars(DoneBlocks) /\ DoneEqs = Eqs(DoneBlocks)
    BY DEF DoneVars, DoneEqs
  <1>9. DoneVars' = DoneVars /\ DoneEqs' = DoneEqs
    <2>1. DoneVars' = Vars(DoneBlocks)' \cup (Vars(Block)' \ (TearVars(Block)' \cup Vars(causal)'))
      BY <1>1 DEF DoneVars
    <2>2. DoneEqs' = Eqs(DoneBlocks)' \cup (Eqs(Block)' \ (TearEqs(Block)' \cup Eqs(causal)'))
      BY <1>1 DEF DoneEqs
    <2> QED
      BY <1>4, <1>5, <1>6, <1>8, <2>1, <2>2
  <1>10. DoneVars \subseteq Numbers
    <2>1. Len(components) \in Nat
      BY <1>2 DEF SortedInv
    <2> QED
      BY <1>1, <1>2, <1>8, <2>1, DoneAreNumbers
  <1>11. Left \subseteq Left'
    BY <1>1 DEF Left
  <1>12. Step({}, {}, {}, {})
    BY <1>1, <1>2, <1>9, <1>10, <1>11, NoStep
  <1>13. CountInv' /\ LeftInv' /\ KnownInv'
    BY <1>2, <1>12, Progress DEF SortedInv
  <1> QED
    BY <1>1, <1>3, <1>7, <1>13 DEF ElimInv

\* Of a torn block the causal variables that are to do and the tearing variables
\* are not done; the other unknowns of its equations are.
LEMMA TornFacts ==
    ASSUME place = "tearing", ElimInv
    PROVE  /\ DoneVars = Vars(DoneBlocks) \cup (Vars(Block) \ (TearVars(Block) \cup Vars(causal)))
           /\ DoneEqs = Eqs(DoneBlocks) \cup (Eqs(Block) \ (TearEqs(Block) \cup Eqs(causal)))
           /\ Left = kept \cup attr.der \cup TearVars(Block)
           /\ Vars(causal) \subseteq Vars(Block) \ TearVars(Block)
           /\ Eqs(causal) \subseteq Eqs(Block) \ TearEqs(Block)
           /\ Vars(Block) \subseteq Numbers /\ DoneVars \subseteq Numbers
           /\ Eqs(Block) \cap Eqs(DoneBlocks) = {} /\ Vars(Block) \cap Vars(DoneBlocks) = {}
           /\ \A e \in Eqs(Block) :
                 Unknowns(e) \subseteq DoneVars \cup TearVars(Block) \cup Vars(causal)
  <1>1. SortedInv /\ next \in Nat \ {0} /\ next <= Len(components)
    BY DEF ElimInv, NextInv
  <1>2. /\ Vars(causal) \subseteq Vars(Block) \ TearVars(Block)
        /\ Eqs(causal) \subseteq Eqs(Block) \ TearEqs(Block)
    BY DEF ElimInv, NextInv
  <1>3. /\ DoneVars = Vars(DoneBlocks) \cup (Vars(Block) \ (TearVars(Block) \cup Vars(causal)))
        /\ DoneEqs = Eqs(DoneBlocks) \cup (Eqs(Block) \ (TearEqs(Block) \cup Eqs(causal)))
        /\ Left = kept \cup attr.der \cup TearVars(Block)
    BY DEF DoneVars, DoneEqs, Left
  <1>4. Vars(DoneBlocks) \subseteq Numbers
    <2>1. Len(components) \in Nat
      BY <1>1 DEF SortedInv
    <2> QED
      BY <1>1, <2>1, DoneAreNumbers
  <1>5. /\ Eqs(Block) \cap Eqs(DoneBlocks) = {} /\ Vars(Block) \cap Vars(DoneBlocks) = {}
        /\ Vars(Block) \subseteq Numbers
        /\ \A e \in Eqs(Block) : Unknowns(e) \subseteq Vars(DoneBlocks) \cup Vars(Block)
    BY <1>1, BlockFacts
  <1>6. DoneVars \subseteq Numbers
    BY <1>3, <1>4, <1>5
  <1>7. \A e \in Eqs(Block) : Unknowns(e) \subseteq DoneVars \cup TearVars(Block) \cup Vars(causal)
    BY <1>3, <1>5
  <1> QED
    BY <1>2, <1>3, <1>5, <1>6, <1>7

\* A causal edge is done.
LEMMA CausalDone ==
    ASSUME place = "tearing", place' = "tearing", ElimInv, NEW x \in causal,
           causal' = causal \ {x}, UNCHANGED <<system, components, options, attr, next>>
    PROVE  /\ SortedInv' /\ NextInv'
           /\ DoneVars' = DoneVars \cup {x[2]} /\ {x[2]} \cap DoneVars = {}
           /\ DoneVars \cup {x[2]} \subseteq Numbers
           /\ DoneEqs' = DoneEqs \cup {x[1]} /\ {x[1]} \cap DoneEqs = {}
           /\ Left = kept \cup attr.der \cup TearVars(Block)
           /\ Left' = kept' \cup attr.der \cup TearVars(Block)
           /\ x \in NextCausal => Unknowns(x[1]) \ {x[2]} \subseteq DoneVars \cup TearVars(Block)
  <1>1. SortedInv /\ next \in Nat \ {0} /\ next <= Len(components) /\ TearingMatches
        /\ causal \subseteq system.edges
        /\ \A y, z \in causal : y[1] = z[1] \/ y[2] = z[2] => y = z
    BY DEF ElimInv, NextInv
  <1>2. SortedInv' /\ TearingMatches'
    BY <1>1, SortedStays, TearingStays
  <1>3. /\ Block' = Block /\ TearVars(Block)' = TearVars(Block) /\ TearEqs(Block)' = TearEqs(Block)
        /\ DoneBlocks' = DoneBlocks
    BY DEF Block, TearVars, TearEqs, Vars, Eqs, DoneBlocks
  <1>4. /\ Eqs(causal)' = Eqs(causal) \ {x[1]} /\ Vars(causal)' = Vars(causal) \ {x[2]}
        /\ x[1] \in Eqs(causal) /\ x[2] \in Vars(causal)
    BY <1>1 DEF Eqs, Vars
  <1>5. /\ Eqs(Block)' = Eqs(Block) /\ Vars(Block)' = Vars(Block)
        /\ Eqs(DoneBlocks)' = Eqs(DoneBlocks) /\ Vars(DoneBlocks)' = Vars(DoneBlocks)
    BY <1>3 DEF Eqs, Vars
  <1>6. /\ DoneVars = Vars(DoneBlocks) \cup (Vars(Block) \ (TearVars(Block) \cup Vars(causal)))
        /\ DoneEqs = Eqs(DoneBlocks) \cup (Eqs(Block) \ (TearEqs(Block) \cup Eqs(causal)))
        /\ Left = kept \cup attr.der \cup TearVars(Block)
        /\ Vars(causal) \subseteq Vars(Block) \ TearVars(Block)
        /\ Eqs(causal) \subseteq Eqs(Block) \ TearEqs(Block)
        /\ Vars(Block) \subseteq Numbers /\ DoneVars \subseteq Numbers
        /\ Eqs(Block) \cap Eqs(DoneBlocks) = {} /\ Vars(Block) \cap Vars(DoneBlocks) = {}
    BY TornFacts
  <1>7. NextInv'
    <2>1. causal' \subseteq system'.edges /\ next' <= Len(components')
          /\ \A y, z \in causal' : y[1] = z[1] \/ y[2] = z[2] => y = z
      BY <1>1
    <2>2. /\ Eqs(causal)' \subseteq Eqs(Block)' \ TearEqs(Block)'
          /\ Vars(causal)' \subseteq Vars(Block)' \ TearVars(Block)'
      BY <1>3, <1>4, <1>5, <1>6
    <2> QED
      BY <1>1, <1>2, <2>1, <2>2 DEF NextInv
  <1>8. DoneVars' = Vars(DoneBlocks)' \cup (Vars(Block)' \ (TearVars(Block)' \cup Vars(causal)'))
    BY DEF DoneVars
  <1>9. DoneEqs' = Eqs(DoneBlocks)' \cup (Eqs(Block)' \ (TearEqs(Block)' \cup Eqs(causal)'))
    BY DEF DoneEqs
  <1>10. Left' = kept' \cup attr.der \cup TearVars(Block)
    BY <1>3 DEF Left
  <1>11. /\ DoneVars' = DoneVars \cup {x[2]} /\ {x[2]} \cap DoneVars = {}
         /\ DoneVars \cup {x[2]} \subseteq Numbers
    BY <1>3, <1>4, <1>5, <1>6, <1>8
  <1>12. DoneEqs' = DoneEqs \cup {x[1]} /\ {x[1]} \cap DoneEqs = {}
    BY <1>3, <1>4, <1>5, <1>6, <1>9
  <1>13. ASSUME x \in NextCausal
         PROVE  Unknowns(x[1]) \ {x[2]} \subseteq DoneVars \cup TearVars(Block)
    <2>1. Unknowns(x[1]) \cap Vars(causal) \subseteq {x[2]}
      BY <1>13 DEF NextCausal
    <2>2. Unknowns(x[1]) \subseteq DoneVars \cup TearVars(Block) \cup Vars(causal)
      BY <1>4, <1>6, TornFacts
    <2> QED
      BY <2>1, <2>2
  <1> QED
    BY <1>2, <1>6, <1>7, <1>10, <1>11, <1>12, <1>13

LEMMA RecordedDomain ==
    ASSUME NEW e, NEW v, dependencies' = Recorded(e, v)
    PROVE  DOMAIN dependencies' = {v} \cup DOMAIN dependencies
  <1> DEFINE new == [w \in {v} |-> IF Preserves(e, v) THEN Depends(Unknowns(e) \ {v}) ELSE {v}]
  <1>1. DOMAIN new = {v} /\ dependencies' = With(new, dependencies)
    BY DEF Recorded
  <1> HIDE DEF new
  <1> QED
    BY <1>1 DEF With

LEMMA EliminateCausalStays ==
    ASSUME place = "tearing", ElimInv, EliminateCausal
    PROVE  place' = "tearing" /\ ElimInv'
  <1>1. PICK x \in NextCausal :
           /\ MayEliminate(x)
           /\ dependencies' = Recorded(x[1], x[2])
           /\ solution' = With([v \in {x[2]} |-> Substituted(x[1], {x[2]})], solution)
           /\ eliminated' = eliminated \cup {x[2]}
           /\ causal' = causal \ {x}
    BY DEF EliminateCausal
  <1>2. place' = "tearing"
        /\ UNCHANGED <<system, components, options, attr, next, residuals, kept>>
    BY DEF EliminateCausal, graphVars, sccVars
  <1>3. SortedInv /\ CountInv /\ LeftInv /\ KnownInv /\ system \in Systems
    BY DEF ElimInv, SortedInv
  <1>4. x \in causal
    BY DEF NextCausal
  <1>5. /\ SortedInv' /\ NextInv'
        /\ DoneVars' = DoneVars \cup {x[2]} /\ {x[2]} \cap DoneVars = {}
        /\ DoneVars \cup {x[2]} \subseteq Numbers
        /\ DoneEqs' = DoneEqs \cup {x[1]} /\ {x[1]} \cap DoneEqs = {}
        /\ Left = kept \cup attr.der \cup TearVars(Block)
        /\ Left' = kept' \cup attr.der \cup TearVars(Block)
        /\ Unknowns(x[1]) \ {x[2]} \subseteq DoneVars \cup TearVars(Block)
    BY <1>1, <1>2, <1>4, CausalDone
  <1>6. Left' = Left
    BY <1>2, <1>5
  <1>7. x[2] \notin attr.der
    BY <1>1 DEF MayEliminate
  <1>8. Substituted(x[1], {x[2]}) \subseteq Left
    <2>1. Unknowns(x[1]) \ {x[2]} \subseteq DoneVars \cup Left
      BY <1>5
    <2> QED
      BY <1>3, <2>1, Expression
  <1>9. /\ DOMAIN solution' = DoneVars \cup {x[2]}
        /\ solution'[x[2]] = Substituted(x[1], {x[2]})
        /\ \A w \in DoneVars : solution'[w] = solution[w]
    <2>1. DOMAIN solution = DoneVars /\ x[2] \notin DoneVars
      BY <1>3, <1>5 DEF LeftInv
    <2> DEFINE new == [v \in {x[2]} |-> Substituted(x[1], {x[2]})]
    <2>2. DOMAIN new = {x[2]} /\ new[x[2]] = Substituted(x[1], {x[2]})
      OBVIOUS
    <2>3. solution' = With(new, solution)
      BY <1>1
    <2> HIDE DEF new
    <2> QED
      BY <2>1, <2>2, <2>3 DEF With
  <1>10. DOMAIN dependencies' = {x[2]} \cup DOMAIN dependencies
    BY <1>1, RecordedDomain
  <1>11. Step({x[2]}, {x[1]}, {}, {})
    <2>1. /\ kept' = kept \cup ({} \ attr.der) /\ {x[2]} \cap attr.der \subseteq {}
          /\ eliminated' = eliminated \cup ({x[2]} \ ({} \cup attr.der))
          /\ residuals' = residuals \cup {} /\ UNCHANGED <<options, attr>>
      BY <1>1, <1>2, <1>7
    <2>2. IsFiniteSet({}) /\ Cardinality({}) = Cardinality({})
      BY FS_EmptySet
    <2>3. (\A v \in {x[2]} : solution'[v] \subseteq Left') /\ Left \subseteq Left'
      BY <1>6, <1>8, <1>9
    <2> QED
      BY <1>5, <1>9, <1>10, <2>1, <2>2, <2>3 DEF Step
  <1>12. CountInv' /\ LeftInv' /\ KnownInv'
    BY <1>3, <1>11, Progress
  <1> QED
    BY <1>2, <1>5, <1>12 DEF ElimInv

LEMMA KeepCausalStays ==
    ASSUME place = "tearing", ElimInv, KeepCausal
    PROVE  place' = "tearing" /\ ElimInv'
  <1>1. PICK x \in NextCausal :
           /\ dependencies' = Recorded(x[1], x[2])
           /\ residuals' = residuals \cup {Residual(x[1])}
           /\ solution' = With([v \in {x[2]} |-> {x[2]}], solution)
           /\ kept' = kept \cup ({x[2]} \ attr.der)
           /\ causal' = causal \ {x}
    BY DEF KeepCausal
  <1>2. place' = "tearing"
        /\ UNCHANGED <<system, components, options, attr, next, eliminated>>
    BY DEF KeepCausal, graphVars, sccVars
  <1>3. SortedInv /\ CountInv /\ LeftInv /\ KnownInv /\ system \in Systems
    BY DEF ElimInv, SortedInv
  <1>4. x \in causal
    BY DEF NextCausal
  <1>5. /\ SortedInv' /\ NextInv'
        /\ DoneVars' = DoneVars \cup {x[2]} /\ {x[2]} \cap DoneVars = {}
        /\ DoneVars \cup {x[2]} \subseteq Numbers
        /\ DoneEqs' = DoneEqs \cup {x[1]} /\ {x[1]} \cap DoneEqs = {}
        /\ Left = kept \cup attr.der \cup TearVars(Block)
        /\ Left' = kept' \cup attr.der \cup TearVars(Block)
        /\ Unknowns(x[1]) \ {x[2]} \subseteq DoneVars \cup TearVars(Block)
    BY <1>1, <1>2, <1>4, CausalDone
  <1>6. Left \subseteq Left' /\ x[2] \in Left'
    BY <1>1, <1>5
  <1>7. Substituted(x[1], {}) \subseteq Left'
    <2>1. Unknowns(x[1]) \ {} \subseteq DoneVars \cup Left'
      BY <1>5, <1>6
    <2> QED
      BY <1>3, <1>6, <2>1, Expression
  <1>8. /\ DOMAIN solution' = DoneVars \cup {x[2]}
        /\ solution'[x[2]] = {x[2]}
        /\ \A w \in DoneVars : solution'[w] = solution[w]
    <2>1. DOMAIN solution = DoneVars /\ x[2] \notin DoneVars
      BY <1>3, <1>5 DEF LeftInv
    <2> DEFINE new == [v \in {x[2]} |-> {x[2]}]
    <2>2. DOMAIN new = {x[2]} /\ new[x[2]] = {x[2]}
      OBVIOUS
    <2>3. solution' = With(new, solution)
      BY <1>1
    <2> HIDE DEF new
    <2> QED
      BY <2>1, <2>2, <2>3 DEF With
  <1>9. DOMAIN dependencies' = {x[2]} \cup DOMAIN dependencies
    BY <1>1, RecordedDomain
  <1> DEFINE r == Residual(x[1])
  <1>10. r[1] = "equation" /\ r[2] = x[1] /\ r[3] = Substituted(x[1], {})
    BY DEF Residual
  <1>11. residuals' = residuals \cup {r}
    BY <1>1
  <1> HIDE DEF r
  <1>12. Step({x[2]}, {x[1]}, {x[2]}, {r})
    <2>1. /\ {x[2]} \subseteq {x[2]} /\ {x[2]} \cap attr.der \subseteq {x[2]}
          /\ kept' = kept \cup ({x[2]} \ attr.der)
          /\ eliminated' = eliminated \cup ({x[2]} \ ({x[2]} \cup attr.der))
          /\ UNCHANGED <<options, attr>>
      BY <1>1, <1>2
    <2>2. IsFiniteSet({r}) /\ Cardinality({r}) = Cardinality({x[2]})
      BY FS_Singleton
    <2>3. (\A v \in {x[2]} : solution'[v] \subseteq Left')
      BY <1>6, <1>8
    <2>4. \A q \in {r} : /\ \/ q[1] = "equation" /\ q[2] \in {x[1]}
                            \/ q[1] = "solved" /\ q[2] \in {x[2]}
                         /\ q[3] \subseteq Left'
      BY <1>7, <1>10
    <2> QED
      BY <1>5, <1>6, <1>8, <1>9, <1>11, <2>1, <2>2, <2>3, <2>4 DEF Step
  <1>13. CountInv' /\ LeftInv' /\ KnownInv'
    BY <1>3, <1>12, Progress
  <1> QED
    BY <1>2, <1>5, <1>13 DEF ElimInv

LEMMA KeepTearingStays ==
    ASSUME place = "tearing", ElimInv, KeepTearing
    PROVE  place' = "blocks" /\ ElimInv'
  <1> DEFINE V == TearVars(Block)
             E == TearEqs(Block)
             R == {Residual(e) : e \in E}
  <1>1. /\ place' = "blocks" /\ causal = {} /\ next' = next + 1
        /\ UNCHANGED <<system, components, options, attr, eliminated, dependencies>>
        /\ residuals' = residuals \cup R /\ kept' = kept \cup (V \ attr.der)
        /\ solution' = With([v \in V |-> {v}], solution)
    BY DEF KeepTearing, Keep, graphVars, sccVars
  <1>2. /\ SortedInv /\ CountInv /\ LeftInv /\ KnownInv /\ system \in Systems
        /\ next \in Nat \ {0} /\ next <= Len(components) /\ TearingMatches
    BY DEF ElimInv, NextInv, SortedInv
  <1>3. SortedInv' /\ TearingMatches'
    BY <1>1, <1>2, SortedStays, TearingStays
  <1>4. NextInv'
    <2>1. Len(components) \in Nat
      BY <1>2 DEF SortedInv
    <2> QED
      BY <1>1, <1>2, <1>3, <2>1 DEF NextInv
  <1>5. /\ DoneVars = Vars(DoneBlocks) \cup (Vars(Block) \ (V \cup Vars(causal)))
        /\ DoneEqs = Eqs(DoneBlocks) \cup (Eqs(Block) \ (E \cup Eqs(causal)))
        /\ Left = kept \cup attr.der \cup V
        /\ Vars(Block) \subseteq Numbers /\ DoneVars \subseteq Numbers
        /\ Eqs(Block) \cap Eqs(DoneBlocks) = {} /\ Vars(Block) \cap Vars(DoneBlocks) = {}
        /\ \A e \in Eqs(Block) : Unknowns(e) \subseteq DoneVars \cup V \cup Vars(causal)
    BY TornFacts
  <1>6. /\ V \subseteq Vars(Block) /\ E \subseteq Eqs(Block)
        /\ IsFiniteSet(V) /\ IsFiniteSet(E) /\ Cardinality(V) = Cardinality(E)
    BY <1>2, TearingFacts
  <1>7. Vars(causal) = {} /\ Eqs(causal) = {}
    BY <1>1 DEF Vars, Eqs
  <1>8. /\ DoneVars' = Vars(DoneBlocks) \cup Vars(Block)
        /\ DoneEqs' = Eqs(DoneBlocks) \cup Eqs(Block) /\ Left' = kept' \cup attr.der
    <2>1. DoneVars' = Vars(DoneBlocks') /\ DoneEqs' = Eqs(DoneBlocks')
      BY <1>1 DEF DoneVars, DoneEqs, Vars, Eqs
    <2>2. Left' = kept' \cup attr.der
      BY <1>1 DEF Left
    <2> QED
      BY <1>1, <1>2, <2>1, <2>2, MoreBlocks
  <1>9. options.tearing \/ V = {}
    BY DEF TearVars
  <1>10. V \subseteq attr.tearVars
    BY DEF TearVars
  <1> HIDE DEF V, E
  <1>11. /\ DoneVars' = DoneVars \cup V /\ V \cap DoneVars = {} /\ DoneVars \cup V \subseteq Numbers
         /\ DoneEqs' = DoneEqs \cup E /\ E \cap DoneEqs = {}
    BY <1>5, <1>6, <1>7, <1>8
  <1>12. Left \subseteq Left' /\ V \subseteq Left'
    BY <1>1, <1>5, <1>8
  <1>13. \A e \in E : Substituted(e, {}) \subseteq Left'
    <2>1. \A e \in E : Unknowns(e) \ {} \subseteq DoneVars \cup Left'
      BY <1>5, <1>6, <1>7, <1>12
    <2> QED
      BY <1>2, <1>12, <2>1, Expression
  <1>14. /\ IsFiniteSet(R) /\ Cardinality(R) = Cardinality(V)
         /\ \A r \in R : r[1] = "equation" /\ r[2] \in E /\ r[3] \subseteq Left'
    BY <1>6, <1>13, ResidualsOf
  <1>15. /\ DOMAIN solution' = DoneVars \cup V
         /\ \A v \in DoneVars : solution'[v] = solution[v]
         /\ \A v \in V : solution'[v] = {v}
    <2>1. DOMAIN solution = DoneVars /\ V \cap DoneVars = {}
      BY <1>2, <1>11 DEF LeftInv
    <2> DEFINE new == [v \in V |-> {v}]
    <2>2. /\ DOMAIN new = V /\ \A v \in V : new[v] = {v}
          /\ solution' = With(new, solution)
      BY <1>1
    <2>3. DOMAIN new = V
      OBVIOUS
    <2> HIDE DEF new
    <2>4. /\ DOMAIN solution' = DoneVars \cup V
          /\ \A v \in DoneVars : solution'[v] = solution[v]
          /\ \A v \in V : solution'[v] = new[v]
      BY <2>1, <2>2, <2>3 DEF With
    <2> QED
      BY <2>2, <2>4
  <1>16. attr.der \cap attr.tearVars = {} =>
            DOMAIN dependencies \cup V \subseteq DOMAIN dependencies'
    BY <1>1, <1>2, <1>9, <1>10 DEF KnownInv
  <1> HIDE DEF R
  <1>17. Step(V, E, V, R)
    <2>1. /\ kept' = kept \cup (V \ attr.der)
          /\ eliminated' = eliminated \cup (V \ (V \cup attr.der))
          /\ residuals' = residuals \cup R /\ UNCHANGED <<options, attr>>
      BY <1>1
    <2>2. \A v \in V : solution'[v] \subseteq Left'
      BY <1>12, <1>15
    <2> QED
      BY <1>11, <1>12, <1>14, <1>15, <1>16, <2>1, <2>2 DEF Step
  <1>18. CountInv' /\ LeftInv' /\ KnownInv'
    BY <1>2, <1>17, Progress
  <1> QED
    BY <1>1, <1>3, <1>4, <1>18 DEF ElimInv

-----------------------------------------------------------------------------
(* The other steps.                                                        *)

\* Nothing changes but the place.
LEMMA ElimSame ==
    ASSUME ElimInv, NextInv', DoneVars' = DoneVars, DoneEqs' = DoneEqs, Left' = Left,
           UNCHANGED <<system, components, options, attr, residuals, solution, eliminated, kept,
                       dependencies>>
    PROVE  ElimInv'
  <1>1. SortedInv'
    BY SortedStays DEF ElimInv
  <1>2. CountInv'
    BY DEF ElimInv, CountInv
  <1>3. LeftInv'
    BY DEF ElimInv, LeftInv
  <1>4. KnownInv'
    BY DEF ElimInv, KnownInv
  <1> QED
    BY <1>1, <1>2, <1>3, <1>4 DEF ElimInv

LEMMA ElimStutters ==
    ASSUME ElimInv, UNCHANGED vars
    PROVE  ElimInv'
  <1>1. UNCHANGED <<system, place, components, options, attr, next, causal, residuals, solution,
                    eliminated, kept, dependencies>>
    BY DEF vars, graphVars, sccVars, bltVars
  <1>2. /\ Block' = Block /\ TearVars(Block)' = TearVars(Block) /\ TearEqs(Block)' = TearEqs(Block)
        /\ DoneBlocks' = DoneBlocks
    BY <1>1 DEF Block, TearVars, TearEqs, Vars, Eqs, DoneBlocks
  <1>3. /\ Eqs(Block)' = Eqs(Block) /\ Vars(Block)' = Vars(Block)
        /\ Eqs(DoneBlocks)' = Eqs(DoneBlocks) /\ Vars(DoneBlocks)' = Vars(DoneBlocks)
        /\ Eqs(causal)' = Eqs(causal) /\ Vars(causal)' = Vars(causal)
    BY <1>1, <1>2 DEF Eqs, Vars
  <1>4. NextInv'
    BY <1>1, <1>2, <1>3, TearingStays DEF ElimInv, NextInv
  <1>5. DoneVars' = DoneVars /\ DoneEqs' = DoneEqs /\ Left' = Left
    BY <1>1, <1>2, <1>3 DEF DoneVars, DoneEqs, Left
  <1> QED
    BY <1>1, <1>4, <1>5, ElimSame

LEMMA DoneStays ==
    ASSUME place = "blocks", ElimInv, Done
    PROVE  place' = "done" /\ ElimInv'
  <1>1. /\ place' = "done" /\ next > Len(components)
        /\ UNCHANGED <<system, components, options, attr, next, causal, residuals, solution,
                       eliminated, kept, dependencies>>
    BY DEF Done, sccVars, bltVars
  <1>2. NextInv'
    <2>1. Len(components) \in Nat /\ next \in Nat /\ next <= Len(components) + 1
      BY DEF ElimInv, NextInv, SortedInv
    <2>2. next = Len(components) + 1
      BY <1>1, <2>1
    <2>3. TearingMatches'
      BY <1>1, TearingStays DEF ElimInv, NextInv
    <2> QED
      BY <1>1, <2>2, <2>3 DEF ElimInv, NextInv
  <1>3. DoneVars' = DoneVars /\ DoneEqs' = DoneEqs /\ Left' = Left
    BY <1>1 DEF DoneVars, DoneEqs, Left, DoneBlocks, Vars, Eqs
  <1> QED
    BY <1>1, <1>2, <1>3, ElimSame

\* A dependency that the density measure looks for is missing only if a derivative
\* is a tearing variable.
LEMMA MissingDependency ==
    ASSUME place \in {"blocks", "tearing"}, ElimInv, DependencyMissing
    PROVE  attr.der \cap attr.tearVars # {}
  <1> SUFFICES ASSUME attr.der \cap attr.tearVars = {} PROVE FALSE
    OBVIOUS
  <1>1. /\ DoneVars \subseteq DOMAIN dependencies
        /\ options.tearing => attr.tearVars \subseteq DOMAIN dependencies
    BY DEF ElimInv, KnownInv
  <1>2. CASE place = "blocks"
    <2> DEFINE x == ScalarOf(Block)
    <2>1. next <= Len(components) /\ Cardinality(Block) = 1 /\ Unrecorded(x)
      BY <1>2 DEF DependencyMissing, AtBlock
    <2>2. SortedInv /\ next \in Nat \ {0}
      BY DEF ElimInv, NextInv
    <2>3. PICK y : Block = {y}
      <3>1. IsFiniteSet(Block)
        BY <2>1, <2>2, BlockFacts, NumbersFinite, FS_Subset DEF SortedInv
      <3> QED
        BY <2>1, <3>1, FS_Singleton
    <2>4. x = y
      BY <2>3 DEF ScalarOf
    <2>5. Vars(Block) = {x[2]} /\ x[1] \in Eqs(Block)
      BY <2>3, <2>4 DEF Vars, Eqs
    <2>6. DoneVars = Vars(DoneBlocks)
      BY <1>2 DEF DoneVars
    <2>7. Unknowns(x[1]) \subseteq Vars(DoneBlocks) \cup Vars(Block)
      BY <2>1, <2>2, <2>5, BlockFacts
    <2> HIDE DEF x
    <2> QED
      BY <1>1, <2>1, <2>5, <2>6, <2>7 DEF Unrecorded, Known
  <1>3. CASE place = "tearing"
    <2>1. PICK x \in NextCausal : Unrecorded(x)
      BY <1>3 DEF DependencyMissing, AtBlock
    <2>2. x \in causal /\ Unknowns(x[1]) \cap Vars(causal) \subseteq {x[2]}
      BY DEF NextCausal
    <2>3. x[1] \in Eqs(causal)
      BY <2>2 DEF Eqs
    <2>4. Unknowns(x[1]) \subseteq DoneVars \cup TearVars(Block) \cup Vars(causal)
      BY <1>3, <2>3, TornFacts
    <2>5. TearVars(Block) \subseteq DOMAIN dependencies
      BY <1>1 DEF TearVars
    <2> QED
      BY <1>1, <2>1, <2>2, <2>4, <2>5 DEF Unrecorded, Known
  <1> QED
    BY <1>2, <1>3

-----------------------------------------------------------------------------
(* The elimination begins with the blocks that scc found.                  *)

\* A perfect matching gives every variable an equation, since it gives the
\* equations different variables.
LEMMA AllVarsMatched ==
    ASSUME system \in Systems, PerfectMatching(matches, system), NEW v \in Numbers
    PROVE  \E x \in matches : x[2] = v
  <1>1. \A e \in Numbers : \E w \in Numbers : <<e, w>> \in matches
    BY DEF PerfectMatching, Numbers
  <1> DEFINE f == [e \in Numbers |-> CHOOSE w \in Numbers : <<e, w>> \in matches]
  <1>2. \A e \in Numbers : f[e] \in Numbers /\ <<e, f[e]>> \in matches
    BY <1>1
  <1>3. f \in [Numbers -> Numbers]
    BY <1>2
  <1> HIDE DEF f
  <1>4. \A d, e \in Numbers : f[d] = f[e] => d = e
    <2>1. \A x, y \in matches : x # y => x[2] # y[2]
      BY DEF PerfectMatching
    <2>2. ASSUME NEW d \in Numbers, NEW e \in Numbers, f[d] = f[e] PROVE d = e
      <3>1. <<d, f[d]>> \in matches /\ <<e, f[e]>> \in matches
        BY <1>2
      <3>2. <<d, f[d]>> = <<e, f[e]>>
        BY <2>1, <2>2, <3>1
      <3> QED
        BY <3>2
    <2> QED
      BY <2>2
  <1>5. f \in Injection(Numbers, Numbers)
    BY <1>3, <1>4 DEF Injection, IsInjective
  <1>6. IsFiniteSet(Numbers)
    BY NumbersFinite
  <1>7. f \in Surjection(Numbers, Numbers)
    BY <1>5, <1>6, FS_Injection
  <1>8. PICK e \in Numbers : f[e] = v
    BY <1>7 DEF Surjection
  <1> QED
    BY <1>2, <1>8

LEMMA BlocksAreSorted ==
    ASSUME GraphInv, place = "components"
    PROVE  SortedInv
  <1>1. /\ system \in Systems /\ IsMatching(matches) /\ PerfectMatching(matches, system)
        /\ BlocksInv /\ Finished = matches
    BY DEF GraphInv, MatchInv, MatchingIsPerfect
  <1>2. components \in Seq(SUBSET matches) /\ matches \subseteq system.edges
    BY <1>1 DEF BlocksInv, IsMatching
  <1>3. components \in Seq(SUBSET system.edges)
    BY <1>2
  <1>4. \A i \in DOMAIN components : components[i] \subseteq matches
    BY <1>2
  <1>5. ASSUME NEW i \in DOMAIN components, NEW j \in DOMAIN components,
               NEW x \in components[i], NEW y \in components[j], x[1] = y[1] \/ x[2] = y[2]
        PROVE  x = y /\ i = j
    <2>1. x = y
      BY <1>1, <1>4, <1>5 DEF IsMatching
    <2> QED
      BY <1>1, <2>1 DEF BlocksInv
  <1>6. ASSUME NEW x \in matches
        PROVE  \E i \in DOMAIN components : x \in components[i]
    BY <1>1, <1>6 DEF Finished
  <1>7. ASSUME NEW v \in Numbers
        PROVE  \E i \in DOMAIN components : v \in Vars(components[i])
    <2>1. PICK x \in matches : x[2] = v
      BY <1>1, AllVarsMatched
    <2>2. PICK i \in DOMAIN components : x \in components[i]
      BY <1>6
    <2> QED
      BY <2>1, <2>2 DEF Vars
  <1>8. ASSUME NEW i \in DOMAIN components, NEW e \in Eqs(components[i]), NEW v \in Unknowns(e)
        PROVE  \E j \in 1..i : v \in Vars(components[j])
    <2>1. PICK x \in components[i] : x[1] = e
      BY DEF Eqs
    <2>2. v \in Numbers /\ <<e, v>> \in system.edges
      BY DEF Unknowns
    <2>3. PICK y \in matches : y[2] = v
      BY <1>1, <2>2, AllVarsMatched
    <2>4. i \in 1..i
      BY <1>2
    <2>5. CASE y = x
      BY <2>1, <2>3, <2>4, <2>5 DEF Vars
    <2>6. CASE y # x
      <3>1. y \in Arcs(x)
        BY <2>1, <2>2, <2>3, <2>6 DEF Arcs
      <3>2. PICK j \in 1..i : y \in components[j]
        BY <1>1, <3>1 DEF BlocksInv
      <3> QED
        BY <2>3, <3>2 DEF Vars
    <2> QED
      BY <2>5, <2>6
  <1> QED
    BY <1>1, <1>3, <1>5, <1>7, <1>8 DEF SortedInv

LEMMA ClassifyBegins ==
    ASSUME GraphInv, Untouched, Classify, place' = "blocks"
    PROVE  ElimInv'
  <1>1. /\ UNCHANGED <<system, components, options, next, causal, residuals, solution, eliminated,
                       kept>>
        /\ place = "components" /\ dependencies' = InitialDependencies'
    BY DEF Classify, sccVars
  <1>2. TearingMatches'
    BY DEF Classify
  <1>3. SortedInv /\ SortedInv'
    BY <1>1, BlocksAreSorted, SortedStays
  <1>4. next' = 1 /\ residuals' = {} /\ solution' = << >> /\ eliminated' = {} /\ kept' = {}
    BY <1>1 DEF Untouched, NoFunction
  <1>5. Len(components') \in Nat
    BY <1>3 DEF SortedInv
  <1>6. NextInv'
    BY <1>2, <1>4, <1>5 DEF NextInv
  <1>7. DoneVars' = {} /\ DoneEqs' = {}
    <2>1. DoneBlocks' = {}
      BY <1>4 DEF DoneBlocks
    <2> QED
      BY <2>1 DEF DoneVars, DoneEqs, Vars, Eqs
  <1>8. CountInv'
    <2>1. IsFiniteSet({}) /\ Cardinality({}) = 0
      BY FS_EmptySet
    <2> QED
      BY <1>4, <1>7, <2>1 DEF CountInv
  <1>9. LeftInv'
    BY <1>4, <1>7 DEF LeftInv
  <1>10. KnownInv'
    BY <1>1, <1>7 DEF KnownInv, InitialDependencies
  <1> QED
    BY <1>3, <1>6, <1>8, <1>9, <1>10 DEF ElimInv

-----------------------------------------------------------------------------
(* The invariant of BLTModel.                                              *)

Early == {"match", "layers", "search", "scc", "components"}
Late  == {"blocks", "tearing", "done", "RuntimeError", "AttributeError", "KeyError"}

BltInv ==
    /\ GraphInv
    /\ place \in Early \cup Late \cup {"singular"}
    /\ place \in Early => Untouched
    /\ place \in Eliminating => ElimInv
    /\ place = "KeyError" => attr.der \cap attr.tearVars # {}

\* The matching and the blocks are done with: nothing is claimed of them.
LEMMA GraphIsLeft ==
    ASSUME GraphInv, system' = system, place' \in Late
    PROVE  GraphInv'
  <1>1. MatchInv'
    BY DEF Late, GraphInv, MatchInv, MatchingIsPerfect
  <1> QED
    BY <1>1 DEF Late, GraphInv

LEMMA BltBegins == Init => BltInv
  <1> SUFFICES ASSUME Init PROVE BltInv
    OBVIOUS
  <1>1. GraphInv /\ place = "match"
    BY GraphBegins DEF Init, GraphInit
  <1>2. Untouched
    BY DEF Init, Untouched
  <1> QED
    BY <1>1, <1>2 DEF BltInv, Early, Late, Eliminating

LEMMA BltStutters ==
    ASSUME BltInv, UNCHANGED vars
    PROVE  BltInv'
  <1>1. UNCHANGED graphVars /\ UNCHANGED <<next, residuals, solution, eliminated, kept, attr>>
    BY DEF vars, bltVars
  <1>2. place' = place
    BY <1>1 DEF graphVars
  <1>3. GraphInv'
    BY <1>1, GraphStutters DEF BltInv
  <1>4. ElimInv => ElimInv'
    BY ElimStutters
  <1> QED
    BY <1>1, <1>2, <1>3, <1>4 DEF BltInv, Untouched

\* A step of the matching or of scc.
LEMMA GraphStepStays ==
    ASSUME BltInv, GraphNext, UNCHANGED bltVars
    PROVE  BltInv'
  <1>1. GraphInv'
    BY GraphStays DEF BltInv
  <1>2. place \in Early /\ place' \in Early \cup {"singular"}
    BY DEF Early, GraphNext, StartPhase, NextLayer, NoMatching, LayersReach, FollowVisited,
           Follow, FoundPath, Backtrack, Augment, StartScc, Root, Connect, TreeArc, OtherArc,
           Return, EndScc
  <1>3. Untouched'
    BY <1>2 DEF BltInv, Untouched, bltVars
  <1> QED
    BY <1>1, <1>2, <1>3 DEF BltInv, Early, Eliminating

LEMMA BltStays ==
    ASSUME BltInv, Next
    PROVE  BltInv'
  <1> USE DEF Early, Late, Eliminating
  <1>0. GraphInv
    BY DEF BltInv
  <1>1. CASE GraphNext /\ UNCHANGED bltVars
    BY <1>1, GraphStepStays
  <1>2. CASE Classify
    <2>1. place = "components" /\ system' = system /\ place' \in {"blocks", "RuntimeError"}
      BY <1>2 DEF Classify
    <2>2. GraphInv'
      BY <1>0, <2>1, GraphIsLeft
    <2>3. place' = "blocks" => ElimInv'
      BY <1>0, <1>2, <2>1, ClassifyBegins DEF BltInv
    <2> QED
      BY <2>1, <2>2, <2>3 DEF BltInv
  <1>3. CASE SolveScalar \/ SolveBlock \/ SolveTornBlock \/ KeepBlock
    <2>1. place = "blocks" /\ system' = system
      BY <1>3 DEF SolveScalar, SolveBlock, SolveTornBlock, KeepBlock, AtBlock, StoreSolution,
                  graphVars
    <2>2. place' = "blocks" /\ ElimInv'
      BY <1>3, <2>1, SolveStays, KeepBlockStays DEF BltInv
    <2> QED
      BY <1>0, <2>1, <2>2, GraphIsLeft DEF BltInv
  <1>4. CASE TearBlock
    <2>1. place = "blocks" /\ system' = system
      BY <1>4 DEF TearBlock, AtBlock
    <2>2. place' = "tearing" /\ ElimInv'
      BY <1>4, <2>1, TearBlockStays DEF BltInv
    <2> QED
      BY <1>0, <2>1, <2>2, GraphIsLeft DEF BltInv
  <1>5. CASE TearingFails
    <2>1. system' = system /\ place' \in {"AttributeError", "RuntimeError"}
      BY <1>5 DEF TearingFails
    <2> QED
      BY <1>0, <2>1, GraphIsLeft DEF BltInv
  <1>6. CASE EliminateCausal \/ KeepCausal
    <2>1. place = "tearing" /\ system' = system
      BY <1>6 DEF EliminateCausal, KeepCausal, graphVars
    <2>2. place' = "tearing" /\ ElimInv'
      BY <1>6, <2>1, EliminateCausalStays, KeepCausalStays DEF BltInv
    <2> QED
      BY <1>0, <2>1, <2>2, GraphIsLeft DEF BltInv
  <1>7. CASE KeepTearing
    <2>1. place = "tearing" /\ system' = system
      BY <1>7 DEF KeepTearing
    <2>2. place' = "blocks" /\ ElimInv'
      BY <1>7, <2>1, KeepTearingStays DEF BltInv
    <2> QED
      BY <1>0, <2>1, <2>2, GraphIsLeft DEF BltInv
  <1>8. CASE DependencyMissing
    <2>1. place \in {"blocks", "tearing"} /\ place' = "KeyError" /\ UNCHANGED <<system, attr>>
      BY <1>8 DEF DependencyMissing, AtBlock, bltVars
    <2>2. attr.der \cap attr.tearVars # {}
      BY <1>8, <2>1, MissingDependency DEF BltInv
    <2> QED
      BY <1>0, <2>1, <2>2, GraphIsLeft DEF BltInv
  <1>9. CASE Done
    <2>1. place = "blocks" /\ system' = system
      BY <1>9 DEF Done
    <2>2. place' = "done" /\ ElimInv'
      BY <1>9, <2>1, DoneStays DEF BltInv
    <2> QED
      BY <1>0, <2>1, <2>2, GraphIsLeft DEF BltInv
  <1>10. CASE Ended
    BY <1>10, BltStutters DEF Ended
  <1> QED
    BY <1>1, <1>2, <1>3, <1>4, <1>5, <1>6, <1>7, <1>8, <1>9, <1>10 DEF Next

-----------------------------------------------------------------------------
(* The theorems.                                                           *)

\* The invariant of BLTModel, from the first matching to the last block.
THEOREM BltInvariant == Spec => []BltInv
  <1>1. BltInv /\ [Next]_vars => BltInv'
    BY BltStays, BltStutters
  <1> QED
    BY BltBegins, <1>1, PTL DEF Spec

\* maximum_match finds a perfect matching when there is one, whatever the system
\* of equations: scc and the elimination never get another one.
THEOREM EliminationMatchesAll == Spec => []MatchingIsPerfect
  <1>1. BltInv => MatchingIsPerfect
    BY DEF BltInv, GraphInv, MatchInv
  <1> QED
    BY <1>1, BltInvariant, PTL

\* The blocks that _create_residuals goes through are the strongly connected
\* components, in an order in which a block uses its own and earlier variables.
THEOREM EliminationHasBlocks == Spec => []BlocksInOrder
  <1>1. BltInv => BlocksInOrder
    BY BlocksAreInOrder DEF BltInv
  <1> QED
    BY <1>1, BltInvariant, PTL

\* No residual and no solution contains a variable that was eliminated, and no
\* dependency is missing unless a derivative is a tearing variable, for all
\* systems, options and attributes (_create_residuals, _sparsity_preserving).
THEOREM OnlyKeptAreUsed == Spec => []OnlyKeptUnknowns
  <1>1. BltInv => OnlyKeptUnknowns
    <2> SUFFICES ASSUME BltInv PROVE OnlyKeptUnknowns
      OBVIOUS
    <2>1. ASSUME place = "done"
          PROVE  /\ \A r \in residuals : r[3] \subseteq Unsolved
                 /\ \A v \in eliminated : solution[v] \subseteq Unsolved
      <3>1. LeftInv /\ CountInv
        BY <2>1 DEF BltInv, Eliminating, ElimInv
      <3>2. Left = Unsolved
        BY <2>1 DEF Left, Unsolved
      <3>3. eliminated \subseteq DoneVars
        BY <3>1 DEF CountInv
      <3> QED
        BY <3>1, <3>2, <3>3 DEF LeftInv
    <2> QED
      BY <2>1 DEF OnlyKeptUnknowns, BltInv
  <1> QED
    BY <1>1, BltInvariant, PTL

\* The derivatives are variables of the system: what Component.__init__ looks up
\* for the variables of the blocks.
DerivativesAreVariables ==
    \A s \in Systems, o \in Options : \A blocks \in Seq(SUBSET s.edges) :
        \A a \in Attributes(s, blocks, o) : a.der \subseteq 1..s.n
DerInv ==
    /\ options \in Options
    /\ place \in Eliminating => attr.der \subseteq Numbers

LEMMA DerStays ==
    ASSUME DerivativesAreVariables, BltInv, DerInv, [Next]_vars
    PROVE  DerInv'
  <1>1. UNCHANGED <<system, options>>
    BY DEF Next, vars, bltVars, graphVars, GraphNext, StartPhase, NextLayer, NoMatching,
           LayersReach, FollowVisited, Follow, FoundPath, Backtrack, Augment, StartScc, Root,
           Connect, TreeArc, OtherArc, Return, EndScc, Classify, SolveScalar, SolveBlock,
           SolveTornBlock, KeepBlock, StoreSolution, TearBlock, TearingFails, EliminateCausal,
           KeepCausal, KeepTearing, DependencyMissing, Done, Ended
  <1>2. CASE Classify
    <2>1. system \in Systems /\ options \in Options /\ components \in Seq(SUBSET system.edges)
      BY <1>2, BlocksAreSorted DEF Classify, BltInv, SortedInv, DerInv
    <2>2. attr' \in Attributes(system, components, options)
      BY <1>2 DEF Classify
    <2> QED
      BY <1>1, <2>1, <2>2 DEF DerivativesAreVariables, DerInv, Numbers
  <1>3. CASE ~ Classify
    <2>1. attr' = attr /\ (place' \in Eliminating => place \in Eliminating)
      BY <1>3 DEF Eliminating, Next, vars, bltVars, graphVars, GraphNext, StartPhase, NextLayer,
           NoMatching, LayersReach, FollowVisited, Follow, FoundPath, Backtrack, Augment,
           StartScc, Root, Connect, TreeArc, OtherArc, Return, EndScc, SolveScalar, SolveBlock,
           SolveTornBlock, KeepBlock, StoreSolution, TearBlock, TearingFails, EliminateCausal,
           KeepCausal, KeepTearing, DependencyMissing, Done, Ended, AtBlock
    <2> QED
      BY <1>1, <2>1 DEF DerInv, Numbers
  <1> QED
    BY <1>2, <1>3

\* What is left has as many residuals as unknowns, and every algebraic variable is
\* kept or eliminated and not both, for all systems, options and attributes.
THEOREM WhatIsLeftIsSquare ==
    ASSUME DerivativesAreVariables
    PROVE  Spec => []SquareSystem
  <1>1. Init => DerInv
    BY DEF Init, GraphInit, DerInv, Eliminating
  <1>2. BltInv /\ DerInv /\ [Next]_vars => DerInv'
    BY DerStays
  <1>3. BltInv /\ DerInv => SquareSystem
    <2> SUFFICES ASSUME BltInv, DerInv, place = "done" PROVE
          /\ Cardinality(residuals) = Cardinality(Unsolved)
          /\ kept \cup eliminated = Algebraic /\ kept \cap eliminated = {}
      BY DEF SquareSystem
    <2>1. SortedInv /\ NextInv /\ CountInv /\ attr.der \subseteq Numbers
      BY DEF BltInv, DerInv, ElimInv, Eliminating
    <2>2. DoneVars = Vars(DoneBlocks) /\ next = Len(components) + 1 /\ next \in Nat
      BY <2>1 DEF DoneVars, NextInv
    <2>3. DoneVars = Numbers
      <3>1. Len(components) \in Nat /\ DOMAIN components = 1..Len(components)
        BY <2>1 DEF SortedInv
      <3>2. 1..(next - 1) = DOMAIN components
        BY <2>2, <3>1
      <3>3. ASSUME NEW v \in Numbers PROVE v \in Vars(DoneBlocks)
        <4>1. PICK i \in DOMAIN components : v \in Vars(components[i])
          BY <2>1 DEF SortedInv
        <4>2. components[i] \subseteq DoneBlocks
          BY <3>2 DEF DoneBlocks
        <4> QED
          BY <4>1, <4>2 DEF Vars
      <3>4. Vars(DoneBlocks) \subseteq Numbers
        BY <2>1, <2>2, <3>1, DoneAreNumbers DEF NextInv
      <3> QED
        BY <2>2, <3>3, <3>4
    <2>4. kept \cup (attr.der \cap DoneVars) = Unsolved
      BY <2>1, <2>3 DEF Unsolved
    <2> QED
      BY <2>1, <2>3, <2>4 DEF CountInv, Algebraic
  <1> QED
    BY <1>1, <1>2, <1>3, BltInvariant, PTL DEF Spec
=============================================================================
