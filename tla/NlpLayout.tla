----------------------------- MODULE NlpLayout -----------------------------
(***************************************************************************)
(* The layout of the vector xx of variables of the nonlinear program that  *)
(* LocalDAECollocator (pyjmi/optimization/casadi_collocation.py) makes of  *)
(* a dynamic optimization problem, the initial guess and the rows of the   *)
(* result, as functions of the problem.  A problem p is a record:          *)
(*   ne, ncp   elements, and collocation points in each                    *)
(*   gauss     discr = "LG" (a further point at the end of an element)     *)
(*   nx, nw, nu, npopt  states (as many derivatives), algebraic variables, *)
(*             inputs that are not eliminated, free parameters             *)
(*   free      hs = "free": the element lengths are variables              *)
(*   blocked   blocking_factors is not None                                *)
(*   bf        the blocking factors <<input, factors>>, in the order of    *)
(*             the keys of the dictionary                                  *)
(* An entry of xx is <<kind, number of the variable, <<i, k>>>>; an input  *)
(* with blocking factors has one entry per factor, at its first element.   *)
(* The elimination of derivatives and of continuity variables is refused   *)
(* by the code (casadi_collocation.py:4326-4329), and is left out.         *)
(***************************************************************************)
EXTENDS Integers, Sequences, FiniteSets, SequencesExt

Seq1(n) == [j \in 1..n |-> j]
Total(s) == LET sum[n \in 0..Len(s)] == IF n = 0 THEN 0 ELSE sum[n - 1] + s[n]
            IN  sum[Len(s)]
NoPoint == <<-1, -1>>

Blocked(p, v) == \E b \in DOMAIN p.bf : p.bf[b][1] = v
\* The inputs in S, in the order of mvar_vectors['unelim_u'].
InputsIn(p, S) ==
    LET upTo[v \in 0..p.nu] == IF v = 0 THEN << >>
                              ELSE IF v \in S THEN Append(upTo[v - 1], v) ELSE upTo[v - 1]
    IN  upTo[p.nu]
Free(p) == InputsIn(p, {v \in 1..p.nu : ~ (p.blocked /\ Blocked(p, v))})
Factors(p, v) == p.bf[CHOOSE b \in DOMAIN p.bf : p.bf[b][1] = v][2]
FactorCount(p) == Total([b \in DOMAIN p.bf |-> Len(p.bf[b][2])])

\* The first element of factor f, and whether factor f covers element i.
FirstElement(fs, f) == 1 + Total(SubSeq(fs, 1, f - 1))
Covers(fs, f, i) == FirstElement(fs, f) <= i /\ i < FirstElement(fs, f) + fs[f]

LastPoint(p) == IF p.gauss THEN p.ncp + 1 ELSE p.ncp

-----------------------------------------------------------------------------
(* The number of variables and where the groups begin.                     *)

\* A variant that forgets the continuity variables, and the definition.
NoMeshVariables(p) == 0
MeshVariables(p) == (p.ne - 1) * p.nx

NXX(p) ==
    LET perPoint == 2 * p.nx + p.nw + (IF p.blocked THEN 0 ELSE p.nu)
    IN  p.npopt + (1 + p.ne * p.ncp) * perPoint
        + (IF p.blocked THEN (1 + p.ne * p.ncp) * Len(Free(p)) + FactorCount(p) ELSE 0)
        + MeshVariables(p)
        + (IF p.gauss THEN (p.ne - 1) * p.nx + perPoint ELSE 0)
        + (IF p.free THEN p.ne ELSE 0)

\* global_split_indices: after x, dx, w, the inputs, the initial and final
\* points, the free parameters and the element lengths.
SplitSizes(p) ==
    LET atPoint == p.nx + p.nw + (IF p.blocked THEN 0 ELSE p.nu)
    IN  << p.nx * (LastPoint(p) + 1) * p.ne,
           p.nx * p.ncp * p.ne,
           p.nw * p.ncp * p.ne,
           IF p.blocked THEN (1 + p.ne * p.ncp) * Len(Free(p)) + FactorCount(p)
                        ELSE p.nu * p.ncp * p.ne,
           IF p.gauss THEN 2 * atPoint ELSE atPoint,
           p.npopt,
           IF p.free THEN p.ne ELSE 0 >>
SplitIndices(p) == [g \in 1..8 |-> Total(SubSeq(SplitSizes(p), 1, g - 1))]

-----------------------------------------------------------------------------
(* The entries, in the order in which the code counts them.                *)

\* _fill_checkpoint_map: the points of each element, all variables at each.
ElementPoints(p, first, last) ==
    LET m == last - first + 1
    IN  [j \in 1..(p.ne * m) |-> << (j - 1) \div m + 1, first + ((j - 1) % m) >>]
AtPoint(kind, vs, pt) == [j \in DOMAIN vs |-> <<kind, vs[j], pt>>]
Grid(kind, vs, pts) == FlattenSeq([j \in DOMAIN pts |-> AtPoint(kind, vs, pts[j])])

BlockedEntries(p, b) ==
    LET fs == p.bf[b][2]
    IN  [f \in DOMAIN fs |-> <<"u", p.bf[b][1], <<FirstElement(fs, f), -1>>>>]

Ends(p) == IF p.gauss THEN << <<1, 0>>, <<p.ne, p.ncp + 1>> >> ELSE << <<1, 0>> >>

Groups(p) ==
    LET inner == ElementPoints(p, 1, p.ncp)
        xs == Seq1(p.nx)  ws == Seq1(p.nw)  us == Free(p)
        atEnd(pt) == AtPoint("dx", xs, pt) \o AtPoint("w", ws, pt)
                     \o (IF p.blocked THEN << >> ELSE AtPoint("u", us, pt))
    IN  << Grid("x", xs, ElementPoints(p, 0, LastPoint(p))),
           Grid("dx", xs, inner),
           Grid("w", ws, inner),
           Grid("u", us, inner)
           \o (IF p.blocked
               THEN FlattenSeq([b \in DOMAIN p.bf |-> BlockedEntries(p, b)])
                    \o AtPoint("u", us, <<1, 0>>)
               ELSE << >>),
           FlattenSeq([e \in DOMAIN Ends(p) |-> atEnd(Ends(p)[e])]),
           AtPoint("p", Seq1(p.npopt), NoPoint),
           IF p.free THEN [i \in 1..p.ne |-> <<"h", 1, <<i, -1>>>>] ELSE << >> >>
Layout(p) == FlattenSeq(Groups(p))

-----------------------------------------------------------------------------
(* var_indices: where the code looks for a variable at a point.            *)

\* The index, from the beginning of a group, of the j-th of n variables at
\* point k >= first of element i.
Offset(n, m, first, j, pt) == ((pt[1] - 1) * m + pt[2] - first) * n + j
InnerIndexFromZero(p, group, n, j, pt) ==
    SplitIndices(p)[group] + Offset(n, p.ncp, 0, j, pt)
InnerIndex(p, group, n, j, pt) ==
    SplitIndices(p)[group] + Offset(n, p.ncp, 1, j, pt)

\* Initial and final points: dx, then w, then the inputs.
EndIndex(p, kind, v, pt) ==
    LET before == IF kind = "dx" THEN 0 ELSE IF kind = "w" THEN p.nx ELSE p.nx + p.nw
        final  == IF pt[2] = 0 THEN 0
                  ELSE p.nx + p.nw + (IF p.blocked THEN 0 ELSE p.nu)
    IN  SplitIndices(p)[5] + final + before + v

\* The indices of the inputs with blocking factors at element i, in the
\* order of the dictionary.
BlockedIndices(p, i) ==
    [b \in DOMAIN p.bf |->
        SplitIndices(p)[4] + p.ne * p.ncp * Len(Free(p))
        + Total([c \in 1..(b - 1) |-> Len(p.bf[c][2])])
        + (CHOOSE f \in DOMAIN p.bf[b][2] : Covers(p.bf[b][2], f, i))]

\* Weaving: the n-th input with blocking factors takes the n-th index.  The
\* variant gives every input the first one.
WovenFirst(p, v, i) == BlockedIndices(p, i)[1]
WovenIndex(p, v, i) ==
    BlockedIndices(p, i)[Cardinality({w \in 1..v : Blocked(p, w)})]

InputIndex(p, v, pt) ==
    LET cont == Free(p)
        rank == Cardinality({w \in 1..v : w \in ToSet(cont)})
    IN  IF p.blocked /\ Blocked(p, v) THEN WovenIndex(p, v, pt[1])
        ELSE IF pt[2] \in 1..p.ncp THEN InnerIndex(p, 4, Len(cont), rank, pt)
        ELSE IF p.blocked
        THEN SplitIndices(p)[4] + p.ne * p.ncp * Len(cont) + FactorCount(p) + rank
        ELSE EndIndex(p, "u", v, pt)

VarIndex(p, kind, v, pt) ==
    IF kind = "x" THEN Offset(p.nx, LastPoint(p) + 1, 0, v, pt)
    ELSE IF kind = "u" THEN InputIndex(p, v, pt)
    ELSE IF pt[2] \notin 1..p.ncp THEN EndIndex(p, kind, v, pt)
    ELSE IF kind = "dx" THEN InnerIndex(p, 2, p.nx, v, pt)
    ELSE InnerIndex(p, 3, p.nw, v, pt)

-----------------------------------------------------------------------------
(* The points in time, the initial guess and the rows of the result.       *)

\* time_points, in the order of the elements and of the points in them.
TimePoints(p) ==
    << <<1, 0>> >> \o ElementPoints(p, 1, p.ncp)
    \o (IF p.gauss THEN << <<p.ne, p.ncp + 1>> >> ELSE << >>)

Variables(p) == ({"x", "dx"} \X (1..p.nx)) \cup ({"w"} \X (1..p.nw))
                \cup ({"u"} \X (1..p.nu))

ContinuityAfterFirst(p) == 3..p.ne
Continuity(p) == IF p.ne = 1 THEN {} ELSE 2..p.ne

\* The <<kind, variable, point>> whose guess each entry of xx is left with:
\* the last one written there, with the states at the beginning of an
\* element copied from the end of the one before.
InitSources(p) ==
    LET pts  == TimePoints(p)
        all  == {<<z[1], z[2], n>> : z \in Variables(p), n \in DOMAIN pts}
        hits(pos) == {a \in all : VarIndex(p, a[1], a[2], pts[a[3]]) = pos}
        copied(pos) == {c \in (1..p.nx) \X Continuity(p) :
                           VarIndex(p, "x", c[1], <<c[2], 0>>) = pos}
    IN  [pos \in 1..NXX(p) |->
           IF copied(pos) # {}
           THEN LET c == CHOOSE a \in copied(pos) : TRUE
                IN  <<"x", c[1], <<c[2] - 1, LastPoint(p)>>>>
           ELSE IF hits(pos) # {}
           THEN LET a == CHOOSE b \in hits(pos) : \A c \in hits(pos) : c[3] <= b[3]
                IN  <<a[1], a[2], pts[a[3]]>>
           ELSE IF Layout(p)[pos][1] \in {"p", "h"} THEN Layout(p)[pos]
           ELSE <<"none", 0, NoPoint>>]

\* The rows of the result: an element and a point or an abscissa in it.
ResultRows(p, mode, neval) ==
    IF mode = "collocation_points" THEN TimePoints(p)
    ELSE IF mode = "mesh_points"
    THEN << <<1, 0>> >> \o [i \in 1..p.ne |-> <<i, LastPoint(p)>>]
    ELSE ElementPoints(p, 1, neval)
=============================================================================
