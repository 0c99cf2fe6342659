------------------------------- MODULE MCStats -------------------------------
(* Instances of Stats for TLC.                                             *)
EXTENDS Stats

\* Two readings in the first hour, one in each of two later ones.
MCClock == {0, 1, 3, 5}
=============================================================================
