---------------------------- MODULE MCCollocator ----------------------------
(***************************************************************************)
(* Problems for Collocator: up to three elements, two points, two states   *)
(* and three inputs, with every combination of discretization and free     *)
(* element lengths, or with blocking factors for any of the inputs, in any *)
(* order; and for MPC horizons of up to four samples of one or two         *)
(* elements, with the default blocking factors (one per sample) on some of *)
(* the inputs.                                                             *)
(***************************************************************************)
EXTENDS Collocator

\* Blocking factors of ne elements, and dictionaries of them for three inputs,
\* with the keys in any order.
FactorLists(ne) == IF ne = 3 THEN {<<3>>, <<1, 2>>, <<2, 1>>, <<1, 1, 1>>}
                   ELSE IF ne = 2 THEN {<<2>>, <<1, 1>>} ELSE {<<1>>}
Keys == {ks \in BoundedSeq(1..3, 3) : \A a, b \in DOMAIN ks : ks[a] = ks[b] => a = b}
Dictionaries(ne) ==
    UNION {{[b \in DOMAIN ks |-> <<ks[b], fs[b]>>] : fs \in [DOMAIN ks -> FactorLists(ne)]} :
           ks \in {k \in Keys : Len(k) = 3 => ne < 3}}

Problem(ne, ncp, gauss, nx, nw, nu, free, blocked, bf, cs, nes) ==
    [ne |-> ne, ncp |-> ncp, gauss |-> gauss, nx |-> nx, nw |-> nw, nu |-> nu,
     npopt |-> 1, free |-> free, blocked |-> blocked, bf |-> bf,
     ninit |-> nx, ndae |-> nx + nw, patheq |-> cs, pathineq |-> cs,
     pointeq |-> cs, pointineq |-> cs, bounded |-> {1}, nconstr |-> cs, ndelay |-> 0,
     nes |-> nes]

Plain == {Problem(ne, ncp, gauss, nx, nw, nu, free, FALSE, << >>, cs, 0) :
            ne \in 1..3, ncp \in 1..2, gauss \in BOOLEAN, nx \in 0..2,
            nw \in 0..1, nu \in 0..2, free \in BOOLEAN, cs \in 0..1}
WithFactors == UNION {{Problem(ne, ncp, FALSE, 1, 1, 3, FALSE, TRUE, bf, cs, 0) :
                         ncp \in 1..2, cs \in 0..1, bf \in Dictionaries(ne)} :
                      ne \in 1..3}

Default(horizon, nes) == [j \in 1..horizon |-> nes]
Sample(horizon, nes, ncp, nx, nw, nu, nbf) ==
    Problem(horizon * nes, ncp, FALSE, nx, nw, nu, FALSE, TRUE,
            [v \in 1..nbf |-> <<v, Default(horizon, nes)>>], 0, nes)
Samples == {Sample(h, nes, ncp, nx, nw, nu, nbf) :
               h \in 1..4, nes \in 1..2, ncp \in 1..2, nx \in 1..2, nw \in 0..1,
               nu \in 2..3, nbf \in 0..2}

\* With Gauss points the constraints of path equalities are not counted right.
MCProblems == {q \in Plain \cup WithFactors : q.gauss => q.patheq = 0} \cup Samples
=============================================================================
