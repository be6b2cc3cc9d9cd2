------------------------------- MODULE MCMpc -------------------------------
(***************************************************************************)
(* Settings of the control loop of Mpc for TLC.                            *)
(***************************************************************************)
EXTENDS Mpc

Setting(kind, user, given, nes, mode) ==
    [initialGuess |-> kind, userTraj |-> user, measured |-> given,
     nes |-> nes, resultMode |-> mode]

\* The guess is shifted and the states are measured; the previous solution or
\* trajectories of the last result as guess, trajectories of the user, states
\* estimated from the last result.  The last, of estimates and trajectories of
\* the user with a shifted guess, ends in errors.
MCSettings ==
    {Setting("shift", FALSE, TRUE, 1, "collocation_points"),
     Setting("shift", FALSE, TRUE, 2, "mesh_points"),
     Setting("shift", FALSE, FALSE, 2, "collocation_points"),
     Setting("prev", TRUE, TRUE, 2, "mesh_points"),
     Setting("trajectory", TRUE, FALSE, 2, "mesh_points"),
     Setting("shift", TRUE, FALSE, 2, "mesh_points")}
=============================================================================
