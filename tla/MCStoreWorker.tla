---------------------------- MODULE MCStoreWorker ----------------------------
(* Instances of StoreWorker for TLC.                                       *)
EXTENDS StoreWorker

CONSTANTS h1, h2
=============================================================================
