------------------------------ MODULE MCFmi2CS ------------------------------
(***************************************************************************)
(* Values for the model checker: the relation "2*(x + u) >= 3" with an     *)
(* epsilon of 2, which is never 0 or on the edge of its hysteresis, and an *)
(* input that follows its derivative from one step to the next.            *)
(***************************************************************************)
EXTENDS Fmi2CS

MCRelation == [p \in States \X Inputs |-> 2 * (p[1] + p[2]) - 3]

\* a relation that can be exactly 0: "x + u >= 1"
MCTouching == [p \in States \X Inputs |-> p[1] + p[2] - 1]

MCCourse == [p \in Inputs \X Rates \X Times |->
                IF p[1] + p[2] * p[3] \in Inputs THEN p[1] + p[2] * p[3] ELSE 1]
=============================================================================
