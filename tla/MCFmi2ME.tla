------------------------------ MODULE MCFmi2ME ------------------------------
(***************************************************************************)
(* Instances of Fmi2ME for TLC.                                            *)
(***************************************************************************)
EXTENDS Fmi2ME, TLC

\* Discrete values and states are only compared for equality.
Symmetry == Permutations(Values) \cup Permutations(States)
=============================================================================
