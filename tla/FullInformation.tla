-------------------------- MODULE FullInformation --------------------------
(***************************************************************************)
(* What a moving horizon estimator promises: it answers as an estimator    *)
(* with full information would, that keeps every sample since time 0.  The *)
(* estimate for a time is made from the initial guess and the samples of   *)
(* all earlier times, each of them once.  Samples are named by their time. *)
(***************************************************************************)
EXTENDS Naturals, Sequences

VARIABLES
  time,     \* the time the latest estimate is for, in sample times
  samples   \* the samples it is made from

vars == <<time, samples>>

Init == time = 0 /\ samples = << >>

Estimate == time' = time + 1 /\ samples' = Append(samples, time)

Spec == Init /\ [][Estimate]_vars
=============================================================================
