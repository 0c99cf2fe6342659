------------------------------ MODULE MCCache ------------------------------
(* Three names of different lengths; one small answer, one that fills most  *)
(* of the budget, and one that is larger than all of it.                    *)
EXTENDS Cache

CONSTANTS k1, k2, k3, c1, c2, small, big, huge

MCNameLen == (k1 :> 1) @@ (k2 :> 1) @@ (k3 :> 2)
MCWireLen == (small :> 1) @@ (big :> 3) @@ (huge :> 6)
MCTtl == (small :> 1) @@ (big :> 0) @@ (huge :> 1)
=============================================================================
