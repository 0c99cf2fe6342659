-------------------------------- MODULE Store --------------------------------
(***************************************************************************)
(* The store from its file to its readers: Schema while it is opened, then *)
(* History, once every opener has returned and one of them with a store.   *)
(***************************************************************************)
EXTENDS Schema, History

VARIABLE opened   \* whether the store is in use

storeVars == <<schemaVars, vars, opened>>

StoreInit == SchemaInit /\ Init /\ opened = FALSE

\* The store is handed over.  What its openers have gone through is behind it:
\* their variables are put back.  From here on History has the rows, and starts
\* with none: one that was there before is like one written since.
HandOver ==
  /\ ~opened /\ opened' = TRUE
  /\ \A o \in Openers : opener[o] \in Outcomes
  /\ \E o \in Openers : opener[o] = "ok"
  /\ opener' = [o \in Openers |-> "ok"] /\ version' = [o \in Openers |-> 0]
  /\ file' = [file EXCEPT !.rows = {}] /\ found' = file' /\ transaction' = file'
  /\ maker' = NoProcess /\ restarts' = 0
  /\ UNCHANGED <<writer, open_lock, vars>>

StoreNext ==
  \/ ~opened /\ SchemaNext /\ UNCHANGED <<vars, opened>>
  \/ HandOver
  \/ opened /\ Next /\ UNCHANGED <<schemaVars, opened>>

StoreSpec == StoreInit /\ [][StoreNext]_storeVars
=============================================================================
