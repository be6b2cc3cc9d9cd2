------------------------------- MODULE MCMHE -------------------------------
(***************************************************************************)
(* The instance of MHE for TLC: its constants are numbers and model values *)
(* that Mhe.cfg gives.                                                     *)
(***************************************************************************)
EXTENDS MHE
=============================================================================
