------------------------------ MODULE MCHedged ------------------------------
(* An instance of Hedged for TLC.                                          *)
EXTENDS Hedged

CONSTANTS s1, s2, m1, m2
=============================================================================
