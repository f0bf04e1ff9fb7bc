------------------------------ MODULE MCHandoffs ------------------------------
(* Instances of Handoffs for TLC.                                           *)
EXTENDS Handoffs, TLC

CONSTANTS s1, s2

=============================================================================
