------------------------------- MODULE MCChain -------------------------------
(* An instance of Chain for TLC.                                           *)
EXTENDS Chain
=============================================================================
