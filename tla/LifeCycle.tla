------------------------------ MODULE LifeCycle ------------------------------
(***************************************************************************)
(* The life of the process (main.rs): Startup until build_runtime returns, *)
(* then, if it has returned a runtime, Runtime.                            *)
(***************************************************************************)
EXTENDS Runtime, Startup

lifeVars == <<allVars, startVars>>

LifeInit == RuntimeInit /\ StartInit

Starting(A) == boot # "serving" /\ A /\ UNCHANGED allVars
Serving(A) == boot = "serving" /\ A /\ UNCHANGED startVars

\* build_runtime returns and run_until is called.  The start is behind it: its
\* variables are put back.
Serve ==
  /\ boot = "built" /\ boot' = "serving"
  /\ config' = CHOOSE c \in Configs : TRUE
  /\ lookup' = NoLookup /\ source' = 1 /\ fetch' = NoFetch /\ merged' = {}
  /\ building' = "none" /\ ips' = <<>> /\ group' = <<>> /\ metrics' = <<>>
  /\ updater' = FALSE /\ subnet' = NoSubnet
  /\ UNCHANGED <<allVars, recorder, http_port, dns_port>>

LifeNext == Starting(StartNext) \/ Serve \/ Serving(RuntimeNext)

LifeSpec == LifeInit /\ [][LifeNext]_lifeVars

\* Of the start: its task runs, and time passes; nothing is assumed of any
\* server.  Of the services: the task of run_until is polled, time passes, the
\* worker's thread runs, an aborted handler ends; nothing is assumed of a handler
\* that is not aborted, of HTTP connections or of the signal.
LifeFairSpec ==
  /\ LifeSpec
  /\ WF_lifeVars(Starting(OwnStep)) /\ WF_lifeVars(Serve)
  /\ WF_lifeVars(Starting(Loads(LoadSource \/ Request \/ Resolved)))
  /\ WF_lifeVars(Starting(Loads(FetchTimeout)))
  /\ WF_lifeVars(Starting(Looks(ExchangeFails)))
  /\ WF_lifeVars(Serving(ServiceStep)) /\ WF_lifeVars(Serving(phase = "closing" /\ DnsStops))
  /\ WF_lifeVars(Serving((http = "ended" \/ dns = "ended") /\ First))
  /\ WF_lifeVars(Serving(StopWorker)) /\ WF_lifeVars(Serving(Return))
  /\ \A h \in Handlers : WF_lifeVars(Serving(h \in aborted /\ End(h)))
  /\ WF_lifeVars(Serving(DropPipeline))
  /\ WF_lifeVars(Serving(UNCHANGED serviceVars /\ WorkerStep))
  /\ SF_lifeVars(Serving(UNCHANGED serviceVars /\ Shutdown))
=============================================================================
