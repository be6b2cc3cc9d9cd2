----------------------------- MODULE MCBLTModel -----------------------------
(***************************************************************************)
(* Systems and attributes for BLTModel: all systems of three equations, up *)
(* to the order of equations and of variables, and systems of four in      *)
(* which a phase of the matching finds two paths.                          *)
(***************************************************************************)
EXTENDS BLTModel

Of(s, e, v) == IF <<e, v>> \in s.edges THEN 1 ELSE 0
Row(s, e) == MapThenSumSet(LAMBDA v : Of(s, e, v), 1..s.n)
Column(s, v) == MapThenSumSet(LAMBDA e : Of(s, e, v), 1..s.n)
Three == {s \in [n : {3}, edges : SUBSET ((1..3) \X (1..3))] :
            \A i \in 1..2 : Row(s, i) <= Row(s, i + 1) /\ Column(s, i) <= Column(s, i + 1)}
\* Two pairs of equations whose first choices collide; a chain; a torn loop of
\* three with a fourth equation after it.
Four ==
    {[n |-> 4, edges |-> {<<1, 1>>, <<2, 1>>, <<2, 2>>, <<3, 3>>, <<4, 3>>, <<4, 4>>}],
     [n |-> 4, edges |-> {<<1, 1>>, <<1, 2>>, <<2, 2>>, <<2, 3>>, <<3, 3>>, <<3, 4>>, <<4, 4>>,
                          <<4, 1>>}],
     [n |-> 4, edges |-> {<<1, 1>>, <<1, 2>>, <<2, 2>>, <<2, 3>>, <<3, 1>>, <<3, 3>>, <<4, 1>>,
                          <<4, 2>>, <<4, 3>>, <<4, 4>>}]}
MCSystems == Three \cup Four

Option(tearing, blocks, torn, tol) ==
    [tearing |-> tearing, solveBlocks |-> blocks, solveTornLinear |-> torn, denseTol |-> tol]
MCOptions == {Option(TRUE, FALSE, FALSE, 15), Option(TRUE, FALSE, FALSE, 0),
              Option(TRUE, FALSE, TRUE, 15), Option(FALSE, TRUE, FALSE, 15)}

\* At most one derivative and one variable that may not be eliminated; tearing
\* variables and residuals in blocks that are not scalar; at most one nonlinear
\* edge, in a block.
MCAttributes(s, blocks, option) ==
    LET AtMost(k, S) == {T \in SUBSET S : Cardinality(T) <= k}
        vs == UNION {Vars(blocks[i]) : i \in DOMAIN blocks}
        inner == UNION {s.edges \cap (Eqs(blocks[i]) \X Vars(blocks[i])) :
                          i \in DOMAIN blocks}
        loops == IF option.tearing THEN {i \in DOMAIN blocks : Cardinality(blocks[i]) > 1}
                 ELSE {}
        tearings == {t \in AtMost(2, UNION {Eqs(blocks[i]) : i \in loops})
                           \X AtMost(2, UNION {Vars(blocks[i]) : i \in loops}) :
                       Cardinality(t[1]) = Cardinality(t[2])
                       \/ (t[1] = {} /\ Cardinality(t[2]) = 1)}
    IN  {a \in {[der |-> d, ineliminable |-> i, tearEqs |-> t[1], tearVars |-> t[2],
                 nonlinear |-> l] :
                    d \in AtMost(1, vs), i \in AtMost(1, vs), t \in tearings,
                    l \in AtMost(1, inner)} :
            a.der \cap a.ineliminable = {}}
=============================================================================
