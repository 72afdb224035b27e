------------------------------- MODULE MCExit -------------------------------
(* Instances of ExitClearance for TLC.                                     *)
EXTENDS ExitClearance

CONSTANTS p, q
=============================================================================
