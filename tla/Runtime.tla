------------------------------- MODULE Runtime -------------------------------
(***************************************************************************)
(* The life of the process from build_runtime's success to the end of      *)
(* run_until (dashboard/mod.rs), over the store worker: the HTTP and the   *)
(* DNS service run in one task; each packet has a handler task of its own  *)
(* (server.rs); the first service to end, or the signal, closes the other; *)
(* the worker is shut down last.                                           *)
(*                                                                         *)
(* The one recorder apart from the owner's is the pipeline's.  The DNS     *)
(* service and every handler hold the pipeline.                            *)
(***************************************************************************)
EXTENDS StoreWorker

CONSTANTS
  Pipeline,                  \* the holder of the other recorder
  Handlers,                  \* slots for handler tasks
  DRAIN_TIMEOUT,             \* of the DNS service, in ticks
  SERVICE_SHUTDOWN_TIMEOUT   \* of both services, in ticks

ASSUME RuntimeAssumption ==
  /\ Holders = {Pipeline}
  /\ DRAIN_TIMEOUT \in Nat /\ SERVICE_SHUTDOWN_TIMEOUT \in Nat

VARIABLES
  phase,     \* of run_until
  http,      \* the HTTP service
  dns,       \* the DNS service
  handler,   \* the state of each handler
  aborted,   \* handlers that have been told to stop
  drain,     \* ticks left of the DNS service's drain
  closing,   \* ticks left for both services
  turned     \* history: events refused because the channel was closed

workerVars == vars
serviceVars == <<phase, http, dns, handler, aborted, drain, closing, turned>>
allVars == <<workerVars, serviceVars>>

RuntimeInit ==
  /\ Init
  /\ phase = "serving" /\ http = "serving" /\ dns = "receiving"
  /\ handler = [h \in Handlers |-> "none"] /\ aborted = {}
  /\ drain = DRAIN_TIMEOUT /\ closing = SERVICE_SHUTDOWN_TIMEOUT /\ turned = {}
-----------------------------------------------------------------------------
(* Handlers                                                                *)

Idle == \A h \in Handlers : handler[h] = "none"

\* A timer goes with what waits for it.
TimersGone == drain' = DRAIN_TIMEOUT /\ closing' = SERVICE_SHUTDOWN_TIMEOUT

\* The services' futures are polled by the task of run_until.
Polled == phase \in {"serving", "closing"}

\* recv_from, spawn.
Packet(h) ==
  /\ Polled /\ dns = "receiving" /\ handler[h] = "none" /\ recorded < MaxEvents
  /\ handler' = [handler EXCEPT ![h] = "handling"]
  /\ UNCHANGED <<workerVars, phase, http, dns, aborted, drain, closing, turned>>

\* Pipeline::handle, which ends with the record of the query.  A handler that
\* is aborted in the middle of a poll finishes the poll.
Handle(h) ==
  /\ handler[h] = "handling"
  /\ handler' = [handler EXCEPT ![h] = "replying"]
  /\ TryRecord
  /\ turned' = IF closed \/ Gone THEN turned \cup {recorded'} ELSE turned
  /\ UNCHANGED <<phase, http, dns, aborted, drain, closing>>

\* The handler ends: the reply is sent or not, the packet was not a query, or
\* the abort takes effect.
End(h) ==
  /\ handler[h] # "none"
  /\ handler' = [handler EXCEPT ![h] = "none"] /\ aborted' = aborted \ {h}
  /\ UNCHANGED <<workerVars, phase, http, dns, drain, closing, turned>>

\* The last user of the pipeline is gone.
DropPipeline ==
  /\ dns \in {"ended", "dropped"} /\ Idle
  /\ DropRecorder(Pipeline)
  /\ UNCHANGED serviceVars
-----------------------------------------------------------------------------
(* The services                                                            *)

\* The DNS service stops receiving: the shutdown signal, or an error.
DnsStops ==
  /\ Polled /\ dns = "receiving"
  /\ dns' = "draining" /\ drain' = DRAIN_TIMEOUT
  /\ UNCHANGED <<workerVars, phase, http, handler, aborted, closing, turned>>

\* Mutant: the handlers are left to themselves.
DnsEndsAtOnce ==
  /\ Polled /\ dns \in {"draining", "aborting"}
  /\ dns' = "ended" /\ drain' = DRAIN_TIMEOUT
  /\ UNCHANGED <<workerVars, phase, http, handler, aborted, closing, turned>>

\* Every handler has been joined, before the timeout or after the abort.
DnsEnds ==
  /\ Polled /\ dns \in {"draining", "aborting"} /\ Idle
  /\ dns' = "ended" /\ drain' = DRAIN_TIMEOUT
  /\ UNCHANGED <<workerVars, phase, http, handler, aborted, closing, turned>>

\* The drain has taken too long.
DnsAborts ==
  /\ Polled /\ dns = "draining" /\ drain = 0 /\ ~Idle
  /\ dns' = "aborting" /\ aborted' = {h \in Handlers : handler[h] # "none"}
  /\ drain' = DRAIN_TIMEOUT
  /\ UNCHANGED <<workerVars, phase, http, handler, closing, turned>>

\* serve_until ends (external: axum), by an error or once it is told to stop
\* and its connections are closed, which may take for ever.
HttpEnds ==
  /\ Polled /\ http = "serving"
  /\ http' = "ended"
  /\ UNCHANGED <<workerVars, phase, dns, handler, aborted, drain, closing, turned>>
-----------------------------------------------------------------------------
(* run_until                                                               *)

\* The select: a service has ended, or the signal has come, at any time; which of
\* them it was only decides the result.  Then the others are told to stop.
First ==
  /\ phase = "serving"
  /\ phase' = "closing" /\ closing' = SERVICE_SHUTDOWN_TIMEOUT
  /\ UNCHANGED <<workerVars, http, dns, handler, aborted, drain, turned>>

\* wait_remaining is over: both services have ended, one of them before perhaps.
Closed ==
  /\ phase = "closing" /\ http = "ended" /\ dns = "ended"
  /\ phase' = "closed" /\ closing' = SERVICE_SHUTDOWN_TIMEOUT
  /\ UNCHANGED <<workerVars, http, dns, handler, aborted, drain, turned>>

\* Mutant: the timeout is the DNS service's only.
ClosingWaitsForHttp ==
  /\ phase = "closing" /\ closing = 0 /\ http = "ended"
  /\ phase' = "closed" /\ TimersGone
  /\ IF dns = "ended" THEN UNCHANGED <<dns, aborted>>
     ELSE dns' = "dropped" /\ aborted' = {h \in Handlers : handler[h] # "none"}
  /\ UNCHANGED <<workerVars, http, handler, turned>>

\* It is not in time.  Dropping it drops a service that has not ended, and the
\* DNS service's handlers are aborted, and not waited for.
ClosingTimesOut ==
  /\ phase = "closing" /\ closing = 0
  /\ phase' = "closed" /\ TimersGone /\ http' = "ended"
  /\ IF dns = "ended" THEN UNCHANGED <<dns, aborted>>
     ELSE dns' = "dropped" /\ aborted' = {h \in Handlers : handler[h] # "none"}
  /\ UNCHANGED <<workerVars, handler, turned>>

\* shutdown_worker.
StopWorker ==
  /\ phase = "closed"
  /\ Stop
  /\ UNCHANGED serviceVars

\* run_until returns.
Return ==
  /\ phase = "closed"
  /\ StopReturns
  /\ phase' = "returned"
  /\ UNCHANGED <<http, dns, handler, aborted, drain, closing, turned>>

\* The Runtime, or the future of run_until, is dropped: so are the services,
\* and the worker is left to end by itself.
Abandon ==
  /\ phase \in {"serving", "closing", "closed"}
  /\ Detach /\ recorders' = recorders \ {Owner}
  /\ phase' = "dropped" /\ TimersGone /\ http' = "ended"
  /\ IF dns = "ended" THEN UNCHANGED <<dns, aborted>>
     ELSE dns' = "dropped" /\ aborted' = {h \in Handlers : handler[h] # "none"}
  /\ UNCHANGED <<handler, turned>>

Killed == phase = "returned" /\ Exit /\ UNCHANGED serviceVars

Tick ==
  /\ Polled
  /\ \/ dns = "draining" /\ drain > 0
     \/ phase = "closing" /\ closing > 0
  /\ drain' = IF dns = "draining" /\ drain > 0 THEN drain - 1 ELSE drain
  /\ closing' = IF phase = "closing" /\ closing > 0 THEN closing - 1 ELSE closing
  /\ UNCHANGED <<workerVars, phase, http, dns, handler, aborted, turned>>
-----------------------------------------------------------------------------
ServiceStep == DnsEnds \/ DnsAborts \/ Closed \/ ClosingTimesOut \/ Tick

RuntimeNext ==
  \/ \E h \in Handlers : Packet(h) \/ Handle(h) \/ End(h)
  \/ DropPipeline \/ DnsStops \/ HttpEnds \/ First \/ ServiceStep
  \/ StopWorker \/ Return \/ Abandon \/ Killed
  \/ WorkerStep /\ UNCHANGED serviceVars

RuntimeSpec == RuntimeInit /\ [][RuntimeNext]_allVars
-----------------------------------------------------------------------------
(* Properties                                                              *)

\* The worker's thread ended before its loop, without a runtime.
NeverRan == worker = "stopped" /\ woke = "event"

\* The worker outlives what it records: unless a service had to be dropped with
\* handlers at work, no query's event is refused because the history is closed
\* (the order of run_until, and the join of the handlers in
\* run_udp_socket_until).
NothingTurnedAway == turned # {} => dns = "dropped" \/ NeverRan

\* run_until returns once a service has ended or the signal has come, whatever
\* queries, HTTP connections and the database do (both timeouts, and the
\* worker's).
RunReturns ==
  (phase # "serving" \/ http = "ended" \/ dns = "ended") ~> phase \in {"returned", "dropped"}
=============================================================================
