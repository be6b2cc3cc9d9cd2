--------------------------- MODULE NlpConstraints ---------------------------
(***************************************************************************)
(* The constraints of the nonlinear program over the variables of          *)
(* NlpLayout: LocalDAECollocator counts them (_count_constraints) to make  *)
(* room for their scale factors before it creates them, element by element *)
(* (_call_l0_functions) or through checkpointed functions of a whole       *)
(* element (_call_l1_functions).  The problem has these further fields:    *)
(*   ninit, ndae         initial equations and residuals of the model      *)
(*   patheq, pathineq, pointeq, pointineq   its constraints                *)
(*   bounded             inputs of bf with a bound on their change         *)
(*   nconstr, ndelay     constrained inputs, inputs with delayed feedback  *)
(* A block is what one call of add_c_eq or add_c_ineq appends: its type,   *)
(* the number of its residuals and the element and point it belongs to.    *)
(***************************************************************************)
EXTENDS NlpLayout

InnerPoints(p) == ElementPoints(p, 1, p.ncp)
\* The inputs with a bound on their change, and how many bounds each has.
BoundedInputs(p) ==
    InputsIn(p, {v \in 1..p.nu : p.blocked /\ Blocked(p, v) /\ v \in p.bounded})
BoundedFactors(p) ==
    [j \in DOMAIN BoundedInputs(p) |-> 2 * (Len(Factors(p, BoundedInputs(p)[j])) - 1)]

-----------------------------------------------------------------------------
(* _count_constraints                                                      *)

PointCount(p) == 1 + p.ne * (p.ncp + (IF p.gauss THEN 1 ELSE 0))

NoInputEqualities(p) == 0
InputEqualities(p) == Len(Free(p))

EqualityCount(p) ==
    p.ninit + p.ndae * (1 + p.ne * p.ncp) + InputEqualities(p)
    + (IF p.gauss THEN p.ne * p.nx + p.nu + p.nw + p.nx ELSE 0)
    + (IF p.free THEN 1 ELSE 0)
    + p.patheq * PointCount(p) + p.pointeq
    + p.ne * p.ncp * p.nx + (p.ne - 1) * p.nx
    + p.ne * p.ncp * (p.nconstr + p.ndelay)

InequalityCount(p) ==
    p.pathineq * (IF p.gauss THEN PointCount(p) - p.ne + 1 ELSE PointCount(p))
    + p.pointineq + Total(BoundedFactors(p))

-----------------------------------------------------------------------------
(* The blocks the code adds.                                               *)

Block(type, n, pt) == [type |-> type, n |-> n, pt |-> pt]
AtPoints(type, n, pts) == [j \in DOMAIN pts |-> Block(type, n, pts[j])]
Elements(first, last) == [j \in 1..(last - first + 1) |-> <<first + j - 1, -1>>]

\* The initial value of an input is interpolated from the first element; a
\* variant leaves it free.
NoInitialInputs(p) == << >>
InitialInputs(p) == [j \in DOMAIN Free(p) |-> Block("u_1_0", 1, <<1, 0>>)]

\* _call_functions: the equality constraints that are not per element.
CommonBlocks(p) ==
    LET final == <<p.ne, p.ncp + 1>>
    IN  << Block("initial", p.ninit, <<1, 0>>), Block("dae", p.ndae, <<1, 0>>) >>
        \o InitialInputs(p)
        \o (IF p.gauss
            THEN AtPoints("continuity", p.nx, Elements(1, p.ne))
                 \o << Block("terminal_unelim_u", p.nu, final),
                       Block("terminal_w", p.nw, final),
                       Block("terminal_dx", p.nx, final) >>
            ELSE << >>)
        \o (IF p.free THEN << Block("h_sum", 1, NoPoint) >> ELSE << >>)
        \o AtPoints("path_eq", p.patheq, TimePoints(p))
        \o << Block("point_eq", p.pointeq, NoPoint) >>
        \o AtPoints("other", p.nconstr, InnerPoints(p))
        \o AtPoints("other", p.ndelay, InnerPoints(p))

\* _call_l0_functions: collocation and residuals at each point in turn.
PointwiseBlocks(p) ==
    FlattenSeq([j \in DOMAIN InnerPoints(p) |->
                  << Block("collocation", p.nx, InnerPoints(p)[j]),
                     Block("dae", p.ndae, InnerPoints(p)[j]) >>])

\* _call_l1_functions and add_c_eq_l1: the block of a whole element is
\* recorded as one block for each of its points.
OnlyResiduals(p, i) == [k \in 1..p.ncp |-> Block("dae", p.ndae, <<i, k>>)]
ElementBlocks(p, i) ==
    LET split(type, total) ==
            LET n == total \div p.ncp
            IN  [k \in 1..p.ncp |-> Block(type, n, <<i, k>>)]
    IN  split("dae", p.ndae * p.ncp) \o split("collocation", p.nx * p.ncp)

EqualityBlocks(p, checkpoint) ==
    CommonBlocks(p)
    \o (IF checkpoint THEN FlattenSeq([i \in 1..p.ne |-> ElementBlocks(p, i)])
                      ELSE PointwiseBlocks(p))
    \o AtPoints("continuity", p.nx, Elements(1, p.ne - 1))

\* The bounds on the change of an input between its factors, at the last
\* element of each factor but the last.
ChangeBlocks(p, v) ==
    LET fs == Factors(p, v)
    IN  FlattenSeq([f \in 1..(Len(fs) - 1) |->
            LET at == <<FirstElement(fs, f + 1) - 1, -1>>
            IN  << Block("delta_u_ub", 1, at), Block("delta_u_lb", 1, at) >>])

InequalityBlocks(p) ==
    AtPoints("path_ineq", p.pathineq, TimePoints(p))
    \o << Block("point_ineq", p.pointineq, NoPoint) >>
    \o FlattenSeq([j \in DOMAIN BoundedInputs(p) |-> ChangeBlocks(p, BoundedInputs(p)[j])])

Numel(blocks) == Total([j \in DOMAIN blocks |-> blocks[j].n])
=============================================================================
