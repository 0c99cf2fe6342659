------------------------------ MODULE Pipeline ------------------------------
(***************************************************************************)
(* Query orchestration (pipeline.rs): hosts, filter, optimistic cache,     *)
(* upstream, SERVFAIL; the detached refresh of an expired hit; and the     *)
(* sampler that observes the cache after each request                      *)
(* (dashboard/sampler.rs).                                                 *)
(*                                                                         *)
(* A caller of the cache is a handler task, one per packet; a handler slot *)
(* takes the next packet once its query is answered.  The upstream chain   *)
(* is open: it answers with any message for the question under the query's *)
(* id, fails, or stays silent until query_timeout (Chain is about that).   *)
(*                                                                         *)
(* A message is [name, id, rcode]: the question it answers, the id it      *)
(* carries and its response code.  A handler's query has the handler as    *)
(* its id.                                                                 *)
(***************************************************************************)
EXTENDS Cache, Rules

CONSTANTS
  Refreshers,   \* bound: refresh tasks alive at once
  Subnet,       \* ecs.fixed_subnet: the set of subnets to inject, at most one
  Client,       \* the subnets clients send along
  Rcodes        \* response codes of upstreams, SERVFAIL included

ASSUME PipelineAssumption ==
  /\ Client \cap Subnet = {} /\ {"NoError", "ServFail"} \subseteq Rcodes
  /\ Messages = [name : Keys, id : Callers, rcode : Rcodes]

VARIABLES
  pc,               \* what each handler is doing
  query,            \* [name, ecs] of the query it handles
  reply,            \* the answer it has settled on, or None
  refresh,          \* [name, id, ecs] of each refresh task, or None
  seen,             \* what a handler's observe has read so far
  latest, by_size,  \* SamplerState
  sent              \* history: the subnets that went upstream

sampler == <<latest, by_size>>
vars == <<cacheVars, ruleVars, pc, query, reply, refresh, seen, sampler, sent>>

\* A query may come without a question, of name None.
Queries == [name : Keys \cup {None}, ecs : SUBSET Client]
NoSample == [lookups |-> 0, hits |-> 0, size |-> 0]

\* The sampler takes its first observation, of the empty cache, when built.
Init ==
  /\ CacheInit
  /\ RulesInit
  /\ pc = [h \in Callers |-> "idle"]
  /\ query = [h \in Callers |-> None] /\ reply = [h \in Callers |-> None]
  /\ refresh = [r \in Refreshers |-> None]
  /\ seen = [h \in Callers |-> NoSample]
  /\ latest = NoSample /\ by_size = (0 :> NoSample)
  /\ sent = {}

Go(h, stage) == pc' = [pc EXCEPT ![h] = stage]
Settle(h, m) == reply' = [reply EXCEPT ![h] = m]
\* A message with the id and the question of the query.
Answer(h, q, rcode) == [name |-> q.name, id |-> h, rcode |-> rcode]
servfail(h, q) == Answer(h, q, "ServFail")
lookup(h, q) == Answer(h, q, "NoError")
block_response(h, q) == Answer(h, q, "NoError")
-----------------------------------------------------------------------------
(* handle                                                                  *)

\* The query arrives.  One without a question fails; a hosts entry, or a rule
\* of the current set, answers without the cache.  (MaxLookups bounds the
\* queries that go on.)
Handle(h, q) ==
  /\ pc[h] = "idle"
  /\ lookups + Cardinality({g \in Callers : pc[g] = "counting"}) < MaxLookups
  /\ query' = [query EXCEPT ![h] = q]
  /\ IF q.name = None \/ find(q.name) \/ is_blocked(q.name)
     THEN /\ Settle(h, CASE q.name = None -> servfail(h, q)
                        [] q.name # None /\ find(q.name) -> lookup(h, q)
                        [] OTHER -> block_response(h, q))
          /\ Go(h, "answered")
     ELSE UNCHANGED reply /\ Go(h, "counting")
  /\ UNCHANGED <<cacheVars, ruleVars, refresh, seen, sampler, sent>>

Count(h) ==
  /\ pc[h] = "counting"
  /\ CountLookup(h, query[h].name)
  /\ Go(h, "looking")
  /\ UNCHANGED <<ruleVars, query, reply, refresh, seen, sampler, sent>>

\* Mutant: the cached message goes out under the id it was stored with.
ServeAsStored(h) ==
  /\ pc[h] = "looking" /\ Hit(h)
  /\ Settle(h, entries[Find(entries, looking[h])].message)
  /\ Go(h, "observing")
  /\ UNCHANGED <<ruleVars, query, refresh, seen, sampler, sent>>

\* ecs::inject adds the configured subnet to what is there; prepared_query drops
\* the client's first.
inject(q) == [q EXCEPT !.ecs = @ \cup Subnet]
prepared_query(q) == inject([q EXCEPT !.ecs = {}])

\* The cached message under the query's own id; an expired one is served all
\* the same and refreshed behind the client's back, client options and all.
Serve(h) ==
  LET e == entries[Find(entries, looking[h])]
  IN  /\ pc[h] = "looking" /\ Hit(h)
      /\ Settle(h, [e.message EXCEPT !.id = h])
      /\ IF Expired(e)
         THEN \E r \in Refreshers :
                /\ refresh[r] = None
                /\ refresh' = [refresh EXCEPT ![r] =
                     [name |-> looking[h], id |-> h, ecs |-> query[h].ecs]]
                /\ sent' = sent \cup inject(query[h]).ecs
         ELSE UNCHANGED <<refresh, sent>>
      /\ Go(h, "observing")
      /\ UNCHANGED <<ruleVars, query, seen, sampler>>

Ask(h) ==
  /\ pc[h] = "looking" /\ Miss(h)
  /\ sent' = sent \cup prepared_query(query[h]).ecs
  /\ Go(h, "asking")
  /\ UNCHANGED <<ruleVars, query, reply, refresh, seen, sampler>>

\* The upstream answers; only NoError is cached.
Answered(h, rcode) ==
  LET m == Answer(h, query[h], rcode)
  IN  /\ pc[h] = "asking"
      /\ Settle(h, m)
      /\ IF rcode = "NoError" THEN Put(m.name, m) ELSE UNCHANGED cacheVars
      /\ Go(h, "observing")
      /\ UNCHANGED <<ruleVars, query, refresh, seen, sampler, sent>>

\* Mutant: a failed query ends without an answer.
FailedSilently(h) ==
  /\ pc[h] = "asking" /\ Go(h, "idle")
  /\ UNCHANGED <<cacheVars, ruleVars, query, reply, refresh, seen, sampler, sent>>

\* The upstream chain failed, or query_timeout passed.
Failed(h) ==
  /\ pc[h] = "asking"
  /\ Settle(h, servfail(h, query[h]))
  /\ Go(h, "observing")
  /\ UNCHANGED <<cacheVars, ruleVars, query, refresh, seen, sampler, sent>>
-----------------------------------------------------------------------------
(* observe: two relaxed loads and a locked length, then the sampler's lock *)

Read(h, from, field, value, to) ==
  /\ pc[h] = from /\ Go(h, to)
  /\ seen' = [seen EXCEPT ![h][field] = value]
  /\ UNCHANGED <<cacheVars, ruleVars, query, reply, refresh, sampler, sent>>

LoadLookups(h) == Read(h, "observing", "lookups", lookups, "loaded")
LoadHits(h) == Read(h, "loaded", "hits", hits, "sizing")
ReadSize(h) == Read(h, "sizing", "size", Len(entries), "sampling")

\* The observation is filed under its size.
Observe(h) ==
  LET s == seen[h] IN
  /\ pc[h] = "sampling" /\ Go(h, "answered")
  /\ IF latest.size = s.size /\ latest.lookups = s.lookups
     THEN UNCHANGED sampler
     ELSE latest' = s /\ by_size' = (s.size :> s) @@ by_size
  /\ seen' = [seen EXCEPT ![h] = NoSample]
  /\ UNCHANGED <<cacheVars, ruleVars, query, reply, refresh, sent>>

\* The query, if it has a question, is offered to the recorder (StoreWorker);
\* its answer is returned.
Return(h) ==
  /\ pc[h] = "answered" /\ Go(h, "idle")
  /\ query' = [query EXCEPT ![h] = None] /\ Settle(h, None)
  /\ UNCHANGED <<cacheVars, ruleVars, refresh, seen, sampler, sent>>
-----------------------------------------------------------------------------
(* spawn_refresh: the detached task                                        *)

\* Mutant: whatever the refresh brings replaces the entry.
RefreshAnyRcode(r, rcode) ==
  /\ refresh[r] # None
  /\ Put(refresh[r].name, [name |-> refresh[r].name, id |-> refresh[r].id, rcode |-> rcode])
  /\ refresh' = [refresh EXCEPT ![r] = None]
  /\ UNCHANGED <<ruleVars, pc, query, reply, seen, sampler, sent>>

RefreshAnswered(r, rcode) ==
  /\ refresh[r] # None
  /\ IF rcode = "NoError"
     THEN Put(refresh[r].name, [name |-> refresh[r].name, id |-> refresh[r].id, rcode |-> rcode])
     ELSE UNCHANGED cacheVars
  /\ refresh' = [refresh EXCEPT ![r] = None]
  /\ UNCHANGED <<ruleVars, pc, query, reply, seen, sampler, sent>>

RefreshFailed(r) ==
  /\ refresh[r] # None
  /\ refresh' = [refresh EXCEPT ![r] = None]
  /\ UNCHANGED <<cacheVars, ruleVars, pc, query, reply, seen, sampler, sent>>

\* The updater may swap the rule set at any time.
Reload == Refresh /\ UNCHANGED <<cacheVars, pc, query, reply, refresh, seen, sampler, sent>>

Tick == Elapse /\ UNCHANGED <<ruleVars, pc, query, reply, refresh, seen, sampler, sent>>
-----------------------------------------------------------------------------
\* What a handler does on its own, its timeout included.
HandlerStep(h) ==
  \/ Count(h) \/ Serve(h) \/ Ask(h) \/ Failed(h)
  \/ LoadLookups(h) \/ LoadHits(h) \/ ReadSize(h) \/ Observe(h) \/ Return(h)

Next ==
  \/ \E h \in Callers : HandlerStep(h)
  \/ \E h \in Callers, q \in Queries : Handle(h, q)
  \/ \E h \in Callers, c \in Rcodes : Answered(h, c)
  \/ \E r \in Refreshers : RefreshFailed(r)
  \/ \E r \in Refreshers, c \in Rcodes : RefreshAnswered(r, c)
  \/ Reload \/ Tick

\* The runtime polls every task, and query_timeout ends a silent upstream
\* call.  No upstream need ever answer.
Fairness ==
  /\ \A h \in Callers : WF_vars(HandlerStep(h))
  /\ \A r \in Refreshers : WF_vars(RefreshFailed(r))

Spec == Init /\ [][Next]_vars
FairSpec == Spec /\ Fairness
-----------------------------------------------------------------------------
(* Properties                                                              *)

\* Every answer is for the name its own client asked, under that client's id,
\* whoever filled the cache: another handler or a refresh (Cache::get rewrites
\* the id).
RepliesAreOwn ==
  \A h \in Callers : reply[h] # None => reply[h].name = query[h].name /\ reply[h].id = h

\* An entry answers the question it is filed under, which is not one for the
\* hosts, and no failure is ever cached, by a handler or by a refresh ("keeping
\* stale entry", pipeline.rs).
CacheHoldsAnswers ==
  \A i \in DOMAIN entries : /\ entries[i].message.name = entries[i].key
                            /\ ~find(entries[i].key)
                            /\ entries[i].message.rcode = "NoError"

\* "always returning a response message" (pipeline.rs:84): every query is
\* answered, with SERVFAIL if all else fails.
QueriesAnswered == \A h \in Callers : pc[h] # "idle" ~> pc[h] = "answered" /\ reply[h] # None

\* "By default strip the client-supplied ECS to avoid leaking the client's real
\* origin" (pipeline.rs:63): no query goes upstream with the client's subnet.
ClientSubnetStripped == Client \cap sent = {}
=============================================================================
