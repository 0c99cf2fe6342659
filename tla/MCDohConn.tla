------------------------------ MODULE MCDohConn ------------------------------
(* Instances of DohConn for TLC.                                           *)
EXTENDS DohConn, TLC

CONSTANTS r1, r2, r3

Symmetry == Permutations(Requests)
=============================================================================
