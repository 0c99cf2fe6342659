----------------------------- MODULE StoreWorker -----------------------------
(***************************************************************************)
(* The way of a query event into the history database: the bounded channel *)
(* of the Recorder (dashboard/mod.rs), the worker thread that takes events *)
(* from it in batches (run_store_worker_with_interval, dashboard/store.rs) *)
(* and the ways its owner ends it: shutdown, detach, or dropping it.       *)
(* Events are numbered in the order in which they are recorded.            *)
(***************************************************************************)
EXTENDS Integers, Sequences, Functions

CONSTANTS
  Holders,         \* who may hold a clone of the recorder, the worker's owner apart
  Owner,           \* the StoreWorker value, with a recorder of its own
  WORKER_CAPACITY, \* of the channel
  MAX_BATCH_SIZE,  \* events written in one transaction
  MaxEvents        \* bound: events recorded in a checked instance

ASSUME StoreWorkerAssumption ==
  /\ Owner \notin Holders
  /\ WORKER_CAPACITY \in Nat \ {0} /\ MAX_BATCH_SIZE \in Nat \ {0} /\ MaxEvents \in Nat

VARIABLES
  recorders,         \* live clones of the recorder
  queue,             \* events in the channel
  closed,            \* the receiver has been closed
  shutdown,          \* the shutdown channel: its sender is "held", or used or "gone"
  shutdown_received,
  worker,            \* where the worker's loop is
  events,            \* the batch in the worker's hands
  woke,              \* history: the branch of the select that ended the wait
  owner,             \* what the owner has done with the StoreWorker
  recorded,          \* number of events recorded so far
  stored,            \* events in the database, in order
  missed             \* events refused by the channel or by the database

channel == <<recorders, queue, closed>>
vars == <<channel, shutdown, shutdown_received, worker, events, woke, owner, recorded,
          stored, missed>>

\* StoreWorker::start.  The worker's first cleanup touches nothing here; a
\* worker that cannot build its runtime stops at once.
Init ==
  /\ recorders = Holders \cup {Owner} /\ queue = <<>> /\ closed = FALSE
  /\ shutdown = "held" /\ shutdown_received = FALSE
  /\ worker \in {"waiting", "stopped"} /\ events = <<>> /\ woke = "event"
  /\ owner = "running"
  /\ recorded = 0 /\ stored = <<>> /\ missed = {}
-----------------------------------------------------------------------------
(* The holders of a recorder, and the owner                                *)

Gone == worker \in {"stopped", "killed"}

\* try_record: never waits; a full or closed channel loses the event.
TryRecord ==
  /\ recorders # {} /\ recorded < MaxEvents
  /\ recorded' = recorded + 1
  /\ IF closed \/ Gone \/ Len(queue) = WORKER_CAPACITY
       THEN missed' = missed \cup {recorded'} /\ UNCHANGED queue
       ELSE queue' = Append(queue, recorded') /\ UNCHANGED missed
  /\ UNCHANGED <<recorders, closed, shutdown, shutdown_received, worker, events, woke,
                 owner, stored>>

DropRecorder(h) ==
  /\ h \in recorders /\ (h = Owner => owner = "detached")
  /\ recorders' = recorders \ {h}
  /\ UNCHANGED <<queue, closed, shutdown, shutdown_received, worker, events, woke, owner,
                 recorded, stored, missed>>

\* stop: give up the own recorder, send the signal, wait.
Stop ==
  /\ owner = "running"
  /\ owner' = "stopping"
  /\ recorders' = recorders \ {Owner} /\ shutdown' = "gone"
  /\ UNCHANGED <<queue, closed, shutdown_received, worker, events, woke, recorded, stored,
                 missed>>

\* detach hands the owner's recorder to the caller, drop drops it.  A reaper
\* thread keeps the signal unsent until the worker has stopped; if it cannot
\* be started, the signal's sender is dropped.
Detach ==
  /\ owner = "running"
  /\ owner' = "detached"
  /\ recorders' \in {recorders, recorders \ {Owner}}
  /\ shutdown' \in {"held", "gone"}
  /\ UNCHANGED <<queue, closed, shutdown_received, worker, events, woke, recorded, stored,
                 missed>>

\* stop returns: the worker has stopped, or SHUTDOWN_TIMEOUT has passed.
StopReturns ==
  /\ owner = "stopping"
  /\ owner' \in (IF Gone THEN {"joined", "gave up"} ELSE {"gave up"})
  /\ UNCHANGED <<channel, shutdown, shutdown_received, worker, events, woke, recorded,
                 stored, missed>>

\* The process exits without its worker.
Exit ==
  /\ owner = "gave up" /\ ~Gone
  /\ worker' = "killed"
  /\ events' = IF worker = "checking" THEN <<>> ELSE events
  /\ UNCHANGED <<channel, shutdown, shutdown_received, woke, owner, recorded,
                 stored, missed>>
-----------------------------------------------------------------------------
(* The worker                                                              *)

\* Receiver::is_closed: closed by the receiver, or by the last sender's end.
is_closed == closed \/ recorders = {}

\* recv yields the first event, or the end of the channel.
RecvFirst ==
  \/ /\ queue # <<>>
     /\ events' = <<Head(queue)>> /\ queue' = Tail(queue)
     /\ worker' = "collecting" /\ woke' = "event"
  \/ /\ queue = <<>> /\ is_closed
     /\ worker' = "checking" /\ woke' = "end"
     /\ UNCHANGED <<events, queue>>

\* The select is not biased: any branch that is ready may be taken.
Receive ==
  /\ worker = "waiting"
  /\ RecvFirst
  /\ UNCHANGED <<recorders, closed, shutdown, shutdown_received, owner, recorded, stored,
                 missed>>

\* Mutant: the round ends without a recv.
ShutdownAtOnce ==
  /\ worker = "waiting" /\ shutdown = "gone" /\ ~shutdown_received
  /\ shutdown_received' = TRUE /\ closed' = TRUE
  /\ worker' = "checking" /\ woke' = "end"
  /\ UNCHANGED <<recorders, queue, shutdown, events, owner, recorded, stored, missed>>

\* The signal arrives, or its sender is gone: close, then recv what is left.
Shutdown ==
  /\ worker = "waiting" /\ shutdown = "gone" /\ ~shutdown_received
  /\ shutdown_received' = TRUE /\ closed' = TRUE
  /\ worker' = "draining"
  /\ UNCHANGED <<recorders, queue, shutdown, events, woke, owner, recorded, stored, missed>>

Drain ==
  /\ worker = "draining"
  /\ RecvFirst
  /\ UNCHANGED <<recorders, closed, shutdown, shutdown_received, owner, recorded, stored,
                 missed>>

\* sleep_until(next_cleanup) ends the wait with no event: the cleanup may be due
\* at any time.
Timer ==
  /\ worker = "waiting"
  /\ worker' = "checking" /\ woke' = "timer"
  /\ UNCHANGED <<channel, shutdown, shutdown_received, events, owner, recorded, stored,
                 missed>>

Collect ==
  /\ worker = "collecting"
  /\ \/ /\ Len(events) < MAX_BATCH_SIZE /\ queue # <<>>
        /\ events' = Append(events, Head(queue)) /\ queue' = Tail(queue)
        /\ UNCHANGED worker
     \/ worker' = "writing" /\ UNCHANGED <<events, queue>>
  /\ UNCHANGED <<recorders, closed, shutdown, shutdown_received, woke, owner, recorded,
                 stored, missed>>

\* Mutant: a failing row leaves the ones before it in the database.
WritePartial ==
  /\ worker = "writing"
  /\ worker' = "checking"
  /\ \/ stored' = stored \o events /\ UNCHANGED missed
     \/ stored' = Append(stored, Head(events)) /\ missed' = missed \cup Range(events)
  /\ UNCHANGED <<channel, shutdown, shutdown_received, events, woke, owner, recorded>>

\* insert_events: one transaction, all of the batch or nothing; a failed batch
\* is logged and not tried again.
Write ==
  /\ worker = "writing"
  /\ worker' = "checking"
  /\ \/ stored' = stored \o events /\ UNCHANGED missed
     \/ missed' = missed \cup Range(events) /\ UNCHANGED stored
  /\ UNCHANGED <<channel, shutdown, shutdown_received, events, woke, owner, recorded>>

\* Mutant: only the signal ends the loop.
CheckSignalled ==
  /\ worker = "checking"
  /\ worker' = IF events = <<>> /\ shutdown_received THEN "stopped" ELSE "waiting"
  /\ events' = <<>>
  /\ UNCHANGED <<channel, shutdown, shutdown_received, woke, owner, recorded, stored, missed>>

\* The end of a round: the periodic cleanup, of which nothing is left here (see
\* History), and the exit from the loop after a round without events, when the
\* channel is closed.
Check ==
  /\ worker = "checking"
  /\ worker' = IF events = <<>> /\ is_closed THEN "stopped" ELSE "waiting"
  /\ events' = <<>>
  /\ UNCHANGED <<channel, shutdown, shutdown_received, woke, owner, recorded, stored, missed>>
-----------------------------------------------------------------------------
WorkerStep == Receive \/ Shutdown \/ Drain \/ Timer \/ Collect \/ Write \/ Check

Next ==
  \/ TryRecord \/ (\E h \in recorders : DropRecorder(h))
  \/ Stop \/ Detach \/ StopReturns \/ Exit
  \/ WorkerStep

Spec == Init /\ [][Next]_vars

\* The worker's thread runs; the select of tokio, which starts from a branch
\* chosen at random, does not pass over the signal for ever.
FairSpec == Spec /\ WF_vars(WorkerStep) /\ SF_vars(Shutdown)
-----------------------------------------------------------------------------
(* Properties                                                              *)

\* The batch, until it is written or given up.
InHand == IF worker = "checking" THEN <<>> ELSE events

\* No event is stored twice or out of order, and none vanishes: each is in the
\* database, in the batch, in the channel, or was refused as a whole batch or
\* by the channel (try_record, run_store_worker_with_interval, insert_events).
HistoryExact ==
  LET kept == stored \o InHand \o queue
  IN  /\ \A i, j \in 1..Len(kept) : i < j => kept[i] < kept[j]
      /\ Range(kept) \cap missed = {}
      /\ Range(kept) \cup missed = 1..recorded

\* A worker that ends because it was told to, or because nobody can record any
\* more, leaves nothing in the channel; only a round ended by the cleanup timer
\* may (see FlushedOnStop).
FlushedUnlessTimer == worker = "stopped" /\ woke # "timer" => queue = <<>>

\* The worker ends when it is told to and when the last recorder is dropped,
\* whatever the other holders of a recorder go on recording ("explicit
\* shutdown closes clones flushes and returns promptly", store.rs tests).
WorkerStops == shutdown = "gone" \/ recorders = {} ~> Gone

\* "worker flushes events and stops when recorder closes" (store.rs:1775),
\* "detached recorder event must be flushed" (store.rs:1841): a worker that has
\* stopped by itself has written, or tried to write, all it was given.
FlushedOnStop == worker = "stopped" => queue = <<>>
=============================================================================
