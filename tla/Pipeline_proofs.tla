--------------------------- MODULE Pipeline_proofs ---------------------------
(***************************************************************************)
(* RepliesAreOwn and CacheHoldsAnswers for any number of handlers and      *)
(* refreshes, any names, rules and budget; and that the pipeline uses the  *)
(* cache the way Cache says, which carries the theorems of Cache_proofs    *)
(* over to it.                                                             *)
(***************************************************************************)
EXTENDS Pipeline, Cache_proofs

Stages == {"idle", "counting", "looking", "asking", "observing", "loaded", "sizing", "sampling",
           "answered"}
Replies == [name : Keys \cup {None}, id : Callers, rcode : Rcodes]
Tasks == [name : Keys, id : Callers, ecs : SUBSET Client]

\* A name that goes past the hosts.
Public(name) == name \in Keys /\ ~find(name)

\* What a handler is doing: until it has settled on an answer it has none, and
\* what it looks up and asks for is its client's question, not one for the hosts.
HandlerOk(h) ==
  /\ pc[h] \in {"idle", "counting", "looking", "asking"} => reply[h] = None
  /\ pc[h] \in {"counting", "looking", "asking"} =>
       query[h] \in Queries /\ Public(query[h].name)
  /\ pc[h] = "looking" => looking[h] = query[h].name

HandlerInv ==
  /\ pc \in [Callers -> Stages] /\ looking \in [Callers -> Keys \cup {None}]
  /\ query \in [Callers -> Queries \cup {None}]
  /\ reply \in [Callers -> Replies \cup {None}]
  /\ \A h \in Callers : HandlerOk(h)

\* A refresh is for a name that went past the hosts too.
RefreshInv ==
  /\ refresh \in [Refreshers -> Tasks \cup {None}]
  /\ \A r \in Refreshers : refresh[r] # None => Public(refresh[r].name)

PipelineInv ==
  /\ HandlerInv /\ RepliesAreOwn /\ RefreshInv
  /\ CacheInv /\ CacheHoldsAnswers
-----------------------------------------------------------------------------
(* Messages                                                                *)

\* The answers a handler makes itself.
LEMMA AnswerFacts ==
  ASSUME NEW h \in Callers, NEW q \in Queries, NEW rcode \in Rcodes
  PROVE  /\ Answer(h, q, rcode) \in Replies
         /\ Answer(h, q, rcode).name = q.name /\ Answer(h, q, rcode).id = h
         /\ Answer(h, q, rcode).rcode = rcode
         /\ q.name \in Keys => Answer(h, q, rcode) \in Messages
BY PipelineAssumption, Zenon DEF Answer, Replies, Queries

\* A cached message under the id of a query.
LEMMA ServedFacts ==
  ASSUME NEW m \in Messages, NEW h \in Callers
  PROVE  /\ [m EXCEPT !.id = h] \in Replies
         /\ [m EXCEPT !.id = h].name = m.name /\ [m EXCEPT !.id = h].id = h
BY PipelineAssumption, Zenon DEF Replies
-----------------------------------------------------------------------------
(* The cache in the hands of the pipeline                                  *)

\* A use keeps what the entries answer: the entry at the tail does, and the
\* others were there before.
LEMMA UseAnswers ==
  ASSUME CacheInv, CacheHoldsAnswers, NEW k, NEW e, UsedLast(k, e),
         e.message.name = e.key, ~find(e.key), e.message.rcode = "NoError"
  PROVE  CacheHoldsAnswers'
<1> PICK left \in Seq(EntryType) : /\ \E f : Thins(left, entries, f)
                                   /\ entries' = Append(left, e)
  BY DEF UsedLast
<1> PICK f : Thins(left, entries, f)
  OBVIOUS
<1>1. e \in EntryType /\ entries \in Seq(EntryType)
  BY DEF UsedLast, CacheInv
<1>2. /\ DOMAIN entries' = 1..(Len(left) + 1) /\ Len(left) \in Nat
      /\ entries'[Len(left) + 1] = e /\ \A i \in 1..Len(left) : entries'[i] = left[i]
  BY <1>1
<1>3. \A i \in 1..Len(left) : f[i] \in DOMAIN entries /\ left[i] = entries[f[i]]
  <2>1. DOMAIN entries = 1..Len(entries)
    BY <1>1
  <2> QED
    BY <2>1, Zenon DEF Thins
<1> SUFFICES ASSUME NEW i \in DOMAIN entries'
             PROVE  /\ entries'[i].message.name = entries'[i].key
                    /\ ~find(entries'[i].key) /\ entries'[i].message.rcode = "NoError"
  BY Zenon DEF CacheHoldsAnswers
<1>4. CASE i = Len(left) + 1
  BY <1>2, <1>4, Zenon
<1>5. CASE i \in 1..Len(left)
  <2>1. entries'[i] = entries[f[i]] /\ f[i] \in DOMAIN entries
    BY <1>2, <1>3, <1>5, Zenon
  <2> QED
    BY <2>1, Zenon DEF CacheHoldsAnswers
<1> QED
  BY <1>2, <1>4, <1>5, SMTT(30)

\* A put of a good answer under its own name.
LEMMA PutAnswers ==
  ASSUME CacheInv, CacheHoldsAnswers, NEW k, Public(k),
         NEW m \in Messages, m.name = k, m.rcode = "NoError", Put(k, m)
  PROVE  CacheInv' /\ CacheHoldsAnswers' /\ CacheNext /\ looking' = looking
<1>1. k \in Keys /\ ~find(k) /\ now \in Nat
  BY DEF Public, CacheInv
<1>2. CacheNext
  BY <1>1, Zenon DEF CacheNext
<1>3. CacheInv'
  BY <1>2, CacheInductive, Zenon
<1>4. CASE PutTooLarge(k, m)
  BY <1>2, <1>3, <1>4, Zenon DEF PutTooLarge, cacheVars, map, CacheHoldsAnswers
<1>5. ASSUME NEW refused \in 0..Len(Without(entries, k)), PutStored(k, m, refused)
      PROVE  CacheHoldsAnswers' /\ looking' = looking
  <2>1. UsedLast(k, Entry(k, m))
    BY <1>1, <1>5, StoreUses, Zenon
  <2>2. /\ Entry(k, m).message.name = Entry(k, m).key /\ ~find(Entry(k, m).key)
        /\ Entry(k, m).message.rcode = "NoError"
    BY <1>1, Zenon DEF Entry
  <2>3. looking' = looking
    BY <1>5, Zenon DEF PutStored
  <2> QED
    BY <2>1, <2>2, <2>3, UseAnswers, Zenon
<1>6. CASE PutRefused(k, m)
  <2>1. entries' = <<>> /\ looking' = looking
    BY <1>6 DEF PutRefused
  <2>2. \A i \in DOMAIN entries' : FALSE
    BY <2>1
  <2>3. CacheHoldsAnswers'
    BY <2>2, Zenon DEF CacheHoldsAnswers
  <2> QED
    BY <1>2, <1>3, <2>1, <2>3, Zenon
<1> QED
  BY <1>2, <1>3, <1>4, <1>5, <1>6, Zenon DEF Put

\* A step that leaves the cache alone.
LEMMA CacheLeft ==
  ASSUME CacheInv, CacheHoldsAnswers, UNCHANGED cacheVars
  PROVE  CacheInv' /\ CacheHoldsAnswers' /\ looking' = looking
<1>1. CacheInv'
  BY CacheInductive, Zenon
<1>2. entries' = entries /\ looking' = looking
  BY DEF cacheVars, map
<1> QED
  BY <1>1, <1>2, Zenon DEF CacheHoldsAnswers
-----------------------------------------------------------------------------
(* The steps                                                               *)

\* A step of the pipeline keeps the invariant and uses the cache as Cache says.
Keeps == PipelineInv' /\ [CacheNext]_cacheVars

\* What HandlerInv and RepliesAreOwn ask of one handler.
Fits(h, stage, q, m, k) ==
  /\ stage \in Stages /\ q \in Queries \cup {None} /\ m \in Replies \cup {None}
  /\ k \in Keys \cup {None}
  /\ m # None => m.name = q.name /\ m.id = h
  /\ stage \in {"idle", "counting", "looking", "asking"} => m = None
  /\ stage \in {"counting", "looking", "asking"} => q \in Queries /\ Public(q.name)
  /\ stage = "looking" => k = q.name

\* One handler moves on; the others stay where they are.
LEMMA MoveKeeps ==
  ASSUME PipelineInv, NEW h \in Callers, NEW stage, NEW q, NEW m, NEW k,
         Fits(h, stage, q, m, k),
         pc' = [pc EXCEPT ![h] = stage], query' = [query EXCEPT ![h] = q],
         reply' = [reply EXCEPT ![h] = m], looking' = [looking EXCEPT ![h] = k]
  PROVE  HandlerInv' /\ RepliesAreOwn'
<1>1. HandlerInv /\ RepliesAreOwn
  BY DEF PipelineInv
<1>2. pc' \in [Callers -> Stages] /\ looking' \in [Callers -> Keys \cup {None}]
  BY <1>1, Zenon DEF HandlerInv, Fits
<1>3. query' \in [Callers -> Queries \cup {None}]
  BY <1>1 DEF HandlerInv, Fits
<1>4. reply' \in [Callers -> Replies \cup {None}]
  BY <1>1, Zenon DEF HandlerInv, Fits
<1>5. (\A g \in Callers : HandlerOk(g))' /\ RepliesAreOwn'
  <2> SUFFICES ASSUME NEW g \in Callers
               PROVE  /\ HandlerOk(g)'
                      /\ reply'[g] # None => reply'[g].name = query'[g].name /\ reply'[g].id = g
    BY Zenon DEF RepliesAreOwn
  <2>1. HandlerOk(g) /\ (reply[g] # None => reply[g].name = query[g].name /\ reply[g].id = g)
    BY <1>1 DEF HandlerInv, RepliesAreOwn
  <2>2. CASE g = h
    <3>1. pc'[g] = stage /\ query'[g] = q /\ reply'[g] = m /\ looking'[g] = k
      BY <1>1, <2>2, Zenon DEF HandlerInv
    <3> QED
      BY <2>2, <3>1, Zenon DEF HandlerOk, Fits
  <2>3. CASE g # h
    <3>1. /\ pc'[g] = pc[g] /\ query'[g] = query[g] /\ reply'[g] = reply[g]
          /\ looking'[g] = looking[g]
      BY <1>1, <2>3, Zenon DEF HandlerInv
    <3> QED
      BY <2>1, <3>1, Zenon DEF HandlerOk
  <2> QED
    BY <2>2, <2>3, Zenon
<1> QED
  BY <1>2, <1>3, <1>4, <1>5, Zenon DEF HandlerInv

\* The parts of the invariant, and their parts for one handler.
LEMMA PipelineFacts ==
  ASSUME PipelineInv, NEW h \in Callers
  PROVE  /\ HandlerOk(h) /\ pc[h] \in Stages /\ looking[h] \in Keys \cup {None}
         /\ query[h] \in Queries \cup {None} /\ reply[h] \in Replies \cup {None}
         /\ reply[h] # None => reply[h].name = query[h].name /\ reply[h].id = h
         /\ query = [query EXCEPT ![h] = query[h]] /\ reply = [reply EXCEPT ![h] = reply[h]]
         /\ looking = [looking EXCEPT ![h] = looking[h]]
         /\ RefreshInv /\ CacheInv /\ CacheHoldsAnswers
<1>1. HandlerInv /\ RepliesAreOwn /\ RefreshInv /\ CacheInv /\ CacheHoldsAnswers
  BY DEF PipelineInv
<1>2. /\ query = [query EXCEPT ![h] = query[h]] /\ reply = [reply EXCEPT ![h] = reply[h]]
      /\ looking = [looking EXCEPT ![h] = looking[h]]
  BY <1>1, SMTT(30) DEF HandlerInv
<1>3. pc[h] \in Stages /\ looking[h] \in Keys \cup {None}
  BY <1>1 DEF HandlerInv
<1>4. query[h] \in Queries \cup {None} /\ reply[h] \in Replies \cup {None}
  BY <1>1, Zenon DEF HandlerInv
<1> QED
  BY <1>1, <1>2, <1>3, <1>4, Zenon DEF HandlerInv, RepliesAreOwn

\* A query arrives.
LEMMA HandleKeeps ==
  ASSUME PipelineInv, NEW h \in Callers, NEW q \in Queries, Handle(h, q)
  PROVE  Keeps
<1>1. /\ looking[h] \in Keys \cup {None} /\ looking = [looking EXCEPT ![h] = looking[h]]
      /\ HandlerOk(h) /\ RefreshInv /\ CacheInv /\ CacheHoldsAnswers
      /\ reply = [reply EXCEPT ![h] = reply[h]]
  BY PipelineFacts, Zenon
<1>2. /\ UNCHANGED cacheVars /\ refresh' = refresh /\ pc[h] = "idle"
      /\ query' = [query EXCEPT ![h] = q]
  BY DEF Handle
<1>3. CacheInv' /\ CacheHoldsAnswers' /\ looking' = [looking EXCEPT ![h] = looking[h]]
  BY <1>1, <1>2, CacheLeft, Zenon
<1>4. ASSUME q.name = None \/ find(q.name) \/ is_blocked(q.name)
      PROVE  HandlerInv' /\ RepliesAreOwn'
  <2>1. /\ pc' = [pc EXCEPT ![h] = "answered"]
        /\ \E rcode \in {"NoError", "ServFail"} :
             reply' = [reply EXCEPT ![h] = Answer(h, q, rcode)]
    BY <1>4, Zenon DEF Handle, Go, Settle, servfail, lookup, block_response
  <2>2. PICK rcode \in Rcodes : reply' = [reply EXCEPT ![h] = Answer(h, q, rcode)]
    BY <2>1, PipelineAssumption, Zenon
  <2>3. Fits(h, "answered", q, Answer(h, q, rcode), looking[h])
    BY <1>1, AnswerFacts, SMTT(30) DEF Fits, Stages
  <2> QED
    BY <1>2, <1>3, <2>1, <2>2, <2>3, MoveKeeps, Zenon
<1>5. ASSUME ~(q.name = None \/ find(q.name) \/ is_blocked(q.name))
      PROVE  HandlerInv' /\ RepliesAreOwn'
  <2>1. pc' = [pc EXCEPT ![h] = "counting"] /\ reply' = [reply EXCEPT ![h] = None]
    BY <1>1, <1>2, <1>5, Zenon DEF Handle, Go, HandlerOk
  <2>2. Fits(h, "counting", q, None, looking[h])
    BY <1>1, <1>5, Zenon DEF Queries, Public, Fits, Stages
  <2> QED
    BY <1>2, <1>3, <2>1, <2>2, MoveKeeps, Zenon
<1>6. RefreshInv'
  BY <1>1, <1>2, Zenon DEF RefreshInv
<1> QED
  BY <1>2, <1>3, <1>4, <1>5, <1>6, Zenon DEF Keeps, PipelineInv

\* The lookup is counted.
LEMMA CountKeeps ==
  ASSUME PipelineInv, NEW h \in Callers, Count(h)
  PROVE  Keeps
<1>1. /\ HandlerOk(h) /\ RefreshInv /\ CacheInv /\ CacheHoldsAnswers
      /\ query = [query EXCEPT ![h] = query[h]] /\ reply = [reply EXCEPT ![h] = reply[h]]
  BY PipelineFacts, Zenon
<1> DEFINE k == query[h].name
<1>2. /\ pc[h] = "counting" /\ pc' = [pc EXCEPT ![h] = "looking"]
      /\ CountLookup(h, k) /\ looking' = [looking EXCEPT ![h] = k] /\ entries' = entries
      /\ UNCHANGED <<query, reply, refresh>>
  BY DEF Count, CountLookup, Go, map
<1>3. reply[h] = None /\ query[h] \in Queries /\ Public(k) /\ k \in Keys
  BY <1>1, <1>2, SMTT(30) DEF HandlerOk, Public
<1> HIDE DEF k
<1>4. HandlerInv' /\ RepliesAreOwn'
  <2>1. Fits(h, "looking", query[h], None, k)
    BY <1>3 DEF Fits, Stages, k
  <2>2. query' = [query EXCEPT ![h] = query[h]] /\ reply' = [reply EXCEPT ![h] = None]
    BY <1>1, <1>2, <1>3, Zenon
  <2> QED
    BY <1>2, <2>1, <2>2, MoveKeeps, Zenon
<1>5. CacheNext
  BY <1>2, <1>3, Zenon DEF CacheNext
<1>6. CacheInv'
  BY <1>1, <1>5, CacheInductive, Zenon
<1>7. RefreshInv' /\ CacheHoldsAnswers'
  BY <1>1, <1>2, Zenon DEF RefreshInv, CacheHoldsAnswers
<1> QED
  BY <1>4, <1>5, <1>6, <1>7, Zenon DEF Keeps, PipelineInv

\* The cache answers, and an expired entry is refreshed.
LEMMA ServeKeeps ==
  ASSUME PipelineInv, NEW h \in Callers, Serve(h)
  PROVE  Keeps
<1> DEFINE i == Find(entries, looking[h])
           e == entries[i]
           k == looking[h]
           m == [e.message EXCEPT !.id = h]
<1>1. /\ HandlerOk(h) /\ RefreshInv /\ CacheInv /\ CacheHoldsAnswers
      /\ query = [query EXCEPT ![h] = query[h]]
  BY PipelineFacts, Zenon
<1>2. /\ pc[h] = "looking" /\ pc' = [pc EXCEPT ![h] = "observing"] /\ Hit(h)
      /\ reply' = [reply EXCEPT ![h] = m] /\ query' = query
      /\ looking' = [looking EXCEPT ![h] = None]
  BY DEF Serve, Settle, Go, Hit
<1>3. \/ refresh' = refresh
      \/ \E r \in Refreshers : refresh' = [refresh EXCEPT ![r] =
           [name |-> k, id |-> h, ecs |-> query[h].ecs]]
  BY DEF Serve
<1>4. UsedLast(k, e) /\ i \in 1..Len(entries)
  BY <1>1, <1>2, HitUses, Zenon
<1>5. i \in DOMAIN entries /\ e \in EntryType /\ e.key = k
  <2>1. DOMAIN entries = 1..Len(entries)
    BY <1>1 DEF CacheInv
  <2> QED
    BY <1>4, <2>1, Zenon DEF UsedLast
<1>6. e.message.name = e.key /\ ~find(e.key) /\ e.message.rcode = "NoError"
  BY <1>1, <1>5, Zenon DEF CacheHoldsAnswers
<1>7. query[h] \in Queries /\ Public(query[h].name) /\ k = query[h].name /\ k \in Keys
  BY <1>1, <1>2, Zenon DEF HandlerOk, Public
<1>8. m \in Replies /\ m.name = e.message.name /\ m.id = h
  <2>1. e.message \in Messages
    BY <1>5 DEF EntryType
  <2> QED
    BY <2>1, ServedFacts, Zenon
<1> HIDE DEF i, e, k, m
<1>9. HandlerInv' /\ RepliesAreOwn'
  <2>1. Fits(h, "observing", query[h], m, None)
    BY <1>5, <1>6, <1>7, <1>8, Zenon DEF Fits, Stages
  <2>2. query' = [query EXCEPT ![h] = query[h]]
    BY <1>1, <1>2, Zenon
  <2> QED
    BY <1>2, <2>1, <2>2, MoveKeeps, Zenon
<1>10. RefreshInv'
  <2>1. CASE refresh' = refresh
    BY <1>1, <2>1, Zenon DEF RefreshInv
  <2>2. ASSUME NEW r \in Refreshers,
               refresh' = [refresh EXCEPT ![r] = [name |-> k, id |-> h, ecs |-> query[h].ecs]]
        PROVE  RefreshInv'
    <3> DEFINE t == [name |-> k, id |-> h, ecs |-> query[h].ecs]
    <3>1. t \in Tasks /\ t.name = k /\ Public(k)
      BY <1>7, Zenon DEF Tasks, Queries
    <3> HIDE DEF t
    <3>2. refresh' = [refresh EXCEPT ![r] = t]
      BY <2>2 DEF t
    <3> QED
      BY <1>1, <3>1, <3>2, Zenon DEF RefreshInv
  <2> QED
    BY <1>3, <2>1, <2>2, Zenon
<1>11. CacheNext
  BY <1>2, Zenon DEF CacheNext
<1>12. CacheInv'
  BY <1>1, <1>11, CacheInductive, Zenon
<1>13. CacheHoldsAnswers'
  BY <1>1, <1>4, <1>6, UseAnswers, Zenon
<1> QED
  BY <1>9, <1>10, <1>11, <1>12, <1>13, Zenon DEF Keeps, PipelineInv

\* The cache has no answer.
LEMMA AskKeeps ==
  ASSUME PipelineInv, NEW h \in Callers, Ask(h)
  PROVE  Keeps
<1>1. /\ HandlerOk(h) /\ RefreshInv /\ CacheInv /\ CacheHoldsAnswers
      /\ query = [query EXCEPT ![h] = query[h]] /\ reply = [reply EXCEPT ![h] = reply[h]]
  BY PipelineFacts, Zenon
<1>2. /\ pc[h] = "looking" /\ pc' = [pc EXCEPT ![h] = "asking"] /\ Miss(h)
      /\ looking' = [looking EXCEPT ![h] = None] /\ entries' = entries
      /\ UNCHANGED <<query, reply, refresh>>
  BY DEF Ask, Miss, Go, map
<1>3. reply[h] = None /\ query[h] \in Queries /\ Public(query[h].name)
  BY <1>1, <1>2, Zenon DEF HandlerOk
<1>4. HandlerInv' /\ RepliesAreOwn'
  <2>1. Fits(h, "asking", query[h], None, None)
    BY <1>3 DEF Fits, Stages
  <2>2. query' = [query EXCEPT ![h] = query[h]] /\ reply' = [reply EXCEPT ![h] = None]
    BY <1>1, <1>2, <1>3, Zenon
  <2> QED
    BY <1>2, <2>1, <2>2, MoveKeeps, Zenon
<1>5. CacheNext
  BY <1>2, Zenon DEF CacheNext
<1>6. CacheInv'
  BY <1>1, <1>5, CacheInductive, Zenon
<1>7. RefreshInv' /\ CacheHoldsAnswers'
  BY <1>1, <1>2, Zenon DEF RefreshInv, CacheHoldsAnswers
<1> QED
  BY <1>4, <1>5, <1>6, <1>7, Zenon DEF Keeps, PipelineInv

\* A step that has the cache do at most a put of a good answer.
Puts ==
  \/ UNCHANGED cacheVars
  \/ \E m \in Messages : Public(m.name) /\ m.rcode = "NoError" /\ Put(m.name, m)

\* What such a step leaves of the cache.
LEMMA PutsKeep ==
  ASSUME CacheInv, CacheHoldsAnswers, Puts
  PROVE  CacheInv' /\ CacheHoldsAnswers' /\ looking' = looking /\ [CacheNext]_cacheVars
<1>1. CASE UNCHANGED cacheVars
  BY <1>1, CacheLeft, Zenon
<1>2. CASE \E m \in Messages : Public(m.name) /\ m.rcode = "NoError" /\ Put(m.name, m)
  BY <1>2, PutAnswers, Zenon
<1> QED
  BY <1>1, <1>2, Zenon DEF Puts

\* A step that takes one handler to an answer, or past it.
LEMMA SettleKeeps ==
  ASSUME PipelineInv, NEW h \in Callers, NEW stage, NEW q, NEW m,
         Fits(h, stage, q, m, looking[h]),
         pc' = [pc EXCEPT ![h] = stage], query' = [query EXCEPT ![h] = q],
         reply' = [reply EXCEPT ![h] = m], refresh' = refresh, Puts
  PROVE  Keeps
<1>1. /\ RefreshInv /\ CacheInv /\ CacheHoldsAnswers
      /\ looking = [looking EXCEPT ![h] = looking[h]]
  BY PipelineFacts, Zenon
<1>2. CacheInv' /\ CacheHoldsAnswers' /\ looking' = looking /\ [CacheNext]_cacheVars
  BY <1>1, PutsKeep, Zenon
<1>3. HandlerInv' /\ RepliesAreOwn'
  BY <1>1, <1>2, MoveKeeps, Zenon
<1>4. RefreshInv'
  BY <1>1, Zenon DEF RefreshInv
<1> QED
  BY <1>2, <1>3, <1>4, Zenon DEF Keeps, PipelineInv

\* The upstream answers a handler.
LEMMA AnsweredKeeps ==
  ASSUME PipelineInv, NEW h \in Callers, NEW rcode \in Rcodes, Answered(h, rcode)
  PROVE  Keeps
<1> DEFINE m == Answer(h, query[h], rcode)
<1>1. /\ HandlerOk(h) /\ looking[h] \in Keys \cup {None}
      /\ query = [query EXCEPT ![h] = query[h]]
  BY PipelineFacts, Zenon
<1>2. /\ pc[h] = "asking" /\ pc' = [pc EXCEPT ![h] = "observing"]
      /\ reply' = [reply EXCEPT ![h] = m] /\ refresh' = refresh
      /\ query' = [query EXCEPT ![h] = query[h]]
      /\ IF rcode = "NoError" THEN Put(m.name, m) ELSE UNCHANGED cacheVars
  BY <1>1, Zenon DEF Answered, Settle, Go
<1>3. query[h] \in Queries /\ Public(query[h].name) /\ query[h].name \in Keys
  BY <1>1, <1>2, Zenon DEF HandlerOk, Public
<1>4. /\ m \in Replies /\ m.name = query[h].name /\ m.id = h /\ m.rcode = rcode
      /\ m \in Messages
  BY <1>3, AnswerFacts, SMTT(30)
<1> HIDE DEF m
<1>5. Puts
  BY <1>2, <1>3, <1>4, Zenon DEF Puts
<1>6. Fits(h, "observing", query[h], m, looking[h])
  BY <1>1, <1>3, <1>4, Zenon DEF Fits, Stages
<1> QED
  BY <1>2, <1>5, <1>6, SettleKeeps, Zenon

\* The upstream fails a handler.
LEMMA FailedKeeps ==
  ASSUME PipelineInv, NEW h \in Callers, Failed(h)
  PROVE  Keeps
<1> DEFINE m == Answer(h, query[h], "ServFail")
<1>1. /\ HandlerOk(h) /\ looking[h] \in Keys \cup {None}
      /\ query = [query EXCEPT ![h] = query[h]]
  BY PipelineFacts, Zenon
<1>2. /\ pc[h] = "asking" /\ pc' = [pc EXCEPT ![h] = "observing"]
      /\ reply' = [reply EXCEPT ![h] = m] /\ refresh' = refresh
      /\ query' = [query EXCEPT ![h] = query[h]] /\ UNCHANGED cacheVars
  BY <1>1, Zenon DEF Failed, Settle, Go, servfail
<1>3. query[h] \in Queries /\ "ServFail" \in Rcodes
  BY <1>1, <1>2, PipelineAssumption, Zenon DEF HandlerOk
<1>4. m \in Replies /\ m.name = query[h].name /\ m.id = h
  BY <1>3, AnswerFacts
<1> HIDE DEF m
<1>5. Puts
  BY <1>2, Zenon DEF Puts
<1>6. Fits(h, "observing", query[h], m, looking[h])
  BY <1>1, <1>3, <1>4, Zenon DEF Fits, Stages
<1> QED
  BY <1>2, <1>5, <1>6, SettleKeeps, Zenon

Observes(h, stage) ==
  pc' = [pc EXCEPT ![h] = stage] /\ UNCHANGED <<cacheVars, query, reply, refresh>>

\* The handler observes the cache: its answer stands.
LEMMA ObserveKeeps ==
  ASSUME PipelineInv, NEW h \in Callers,
         NEW stage \in {"loaded", "sizing", "sampling", "answered"},
         Observes(h, stage)
  PROVE  Keeps
<1>1. /\ looking[h] \in Keys \cup {None}
      /\ query[h] \in Queries \cup {None} /\ reply[h] \in Replies \cup {None}
      /\ reply[h] # None => reply[h].name = query[h].name /\ reply[h].id = h
      /\ query = [query EXCEPT ![h] = query[h]] /\ reply = [reply EXCEPT ![h] = reply[h]]
  BY PipelineFacts, Zenon
<1>2. Fits(h, stage, query[h], reply[h], looking[h])
  BY <1>1, Zenon DEF Fits, Stages
<1>3. query' = [query EXCEPT ![h] = query[h]] /\ reply' = [reply EXCEPT ![h] = reply[h]]
  BY <1>1, SMTT(30) DEF Observes
<1>4. Puts /\ refresh' = refresh /\ pc' = [pc EXCEPT ![h] = stage]
  BY DEF Observes, Puts
<1> QED
  BY <1>2, <1>3, <1>4, SettleKeeps, Zenon

\* The answer is returned.
LEMMA ReturnKeeps ==
  ASSUME PipelineInv, NEW h \in Callers, Return(h)
  PROVE  Keeps
<1>1. looking[h] \in Keys \cup {None}
  BY PipelineFacts, Zenon
<1>2. Fits(h, "idle", None, None, looking[h])
  BY <1>1, Zenon DEF Fits, Stages
<1>3. /\ pc' = [pc EXCEPT ![h] = "idle"] /\ query' = [query EXCEPT ![h] = None]
      /\ reply' = [reply EXCEPT ![h] = None] /\ refresh' = refresh /\ UNCHANGED cacheVars
  BY DEF Return, Go, Settle
<1>4. Puts
  BY <1>3, Zenon DEF Puts
<1> QED
  BY <1>2, <1>3, <1>4, SettleKeeps, Zenon

\* A step that no handler takes.
LEMMA BehindKeeps ==
  ASSUME PipelineInv, UNCHANGED <<pc, query, reply, looking>>, RefreshInv', CacheInv',
         CacheHoldsAnswers', [CacheNext]_cacheVars
  PROVE  Keeps
<1>1. HandlerInv /\ RepliesAreOwn
  BY DEF PipelineInv
<1>2. HandlerInv'
  BY <1>1, Zenon DEF HandlerInv, HandlerOk
<1>3. RepliesAreOwn'
  BY <1>1, Zenon DEF RepliesAreOwn
<1> QED
  BY <1>2, <1>3, Zenon DEF Keeps, PipelineInv

\* A refresh ends, with an answer or without.
LEMMA RefreshKeeps ==
  ASSUME PipelineInv, NEW r \in Refreshers,
         RefreshFailed(r) \/ \E rcode \in Rcodes : RefreshAnswered(r, rcode)
  PROVE  Keeps
<1>1. RefreshInv /\ CacheInv /\ CacheHoldsAnswers
  BY DEF PipelineInv
<1>2. /\ refresh[r] # None /\ refresh' = [refresh EXCEPT ![r] = None]
      /\ UNCHANGED <<pc, query, reply>>
  BY Zenon DEF RefreshFailed, RefreshAnswered
<1>3. refresh[r] \in Tasks /\ Public(refresh[r].name)
  BY <1>1, <1>2, Zenon DEF RefreshInv
<1>4. Puts
  <2>1. CASE RefreshFailed(r)
    BY <2>1 DEF RefreshFailed, Puts
  <2>2. ASSUME NEW rcode \in Rcodes, RefreshAnswered(r, rcode) PROVE Puts
    <3> DEFINE m == [name |-> refresh[r].name, id |-> refresh[r].id, rcode |-> rcode]
    <3>1. m \in Messages /\ m.name = refresh[r].name /\ m.rcode = rcode
      BY <1>3, PipelineAssumption, Zenon DEF Tasks
    <3>2. IF rcode = "NoError" THEN Put(refresh[r].name, m) ELSE UNCHANGED cacheVars
      BY <2>2 DEF RefreshAnswered
    <3> HIDE DEF m
    <3>3. CASE rcode = "NoError"
      <4>1. Public(m.name) /\ m.rcode = "NoError" /\ Put(m.name, m)
        BY <1>3, <3>1, <3>2, <3>3, Zenon
      <4> QED
        BY <3>1, <4>1, Zenon DEF Puts
    <3> QED
      BY <3>2, <3>3, Zenon DEF Puts
  <2> QED
    BY <2>1, <2>2, Zenon
<1>5. CacheInv' /\ CacheHoldsAnswers' /\ looking' = looking /\ [CacheNext]_cacheVars
  BY <1>1, <1>4, PutsKeep, Zenon
<1>6. RefreshInv'
  BY <1>1, <1>2, Zenon DEF RefreshInv
<1>7. UNCHANGED <<pc, query, reply, looking>>
  BY <1>2, <1>5, Zenon
<1> QED
  BY <1>5, <1>6, <1>7, BehindKeeps, Zenon

\* The rules are reloaded, time passes, or nothing happens.
LEMMA IdleKeeps ==
  ASSUME PipelineInv, Reload \/ Tick \/ UNCHANGED vars
  PROVE  Keeps
<1>1. RefreshInv /\ CacheInv /\ CacheHoldsAnswers
  BY DEF PipelineInv
<1>2. /\ UNCHANGED <<pc, query, reply, refresh>>
      /\ Elapse \/ UNCHANGED cacheVars
  BY DEF Reload, Tick, vars
<1>3. [CacheNext]_cacheVars
  BY <1>2, Zenon DEF CacheNext
<1>4. CacheInv'
  BY <1>1, <1>3, CacheInductive, Zenon
<1>5. entries' = entries /\ looking' = looking
  BY <1>2, Zenon DEF Elapse, cacheVars, map
<1>6. RefreshInv' /\ CacheHoldsAnswers'
  BY <1>1, <1>2, <1>5, Zenon DEF RefreshInv, CacheHoldsAnswers
<1>7. UNCHANGED <<pc, query, reply, looking>>
  BY <1>2, <1>5, Zenon
<1> QED
  BY <1>3, <1>4, <1>6, <1>7, BehindKeeps, Zenon

\* Every step of the pipeline.
LEMMA PipelineInductive == PipelineInv /\ [Next]_vars => Keeps
<1> SUFFICES ASSUME PipelineInv, [Next]_vars PROVE Keeps
  OBVIOUS
<1>1. ASSUME NEW h \in Callers, HandlerStep(h) PROVE Keeps
  <2>1. CASE Count(h)
    BY <2>1, CountKeeps, Zenon
  <2>2. CASE Serve(h)
    BY <2>2, ServeKeeps, Zenon
  <2>3. CASE Ask(h)
    BY <2>3, AskKeeps, Zenon
  <2>4. CASE Failed(h)
    BY <2>4, FailedKeeps, Zenon
  <2>5. CASE LoadLookups(h) \/ LoadHits(h) \/ ReadSize(h) \/ Observe(h)
    <3>1. \E stage \in {"loaded", "sizing", "sampling", "answered"} : Observes(h, stage)
      BY <2>5 DEF LoadLookups, LoadHits, ReadSize, Observe, Read, Go, Observes
    <3> QED
      BY <3>1, ObserveKeeps, Zenon
  <2>6. CASE Return(h)
    BY <2>6, ReturnKeeps, Zenon
  <2> QED
    BY <1>1, <2>1, <2>2, <2>3, <2>4, <2>5, <2>6, Zenon DEF HandlerStep
<1>2. ASSUME NEW h \in Callers, NEW q \in Queries, Handle(h, q) PROVE Keeps
  BY <1>2, HandleKeeps, Zenon
<1>3. ASSUME NEW h \in Callers, NEW c \in Rcodes, Answered(h, c) PROVE Keeps
  BY <1>3, AnsweredKeeps, Zenon
<1>4. ASSUME NEW r \in Refreshers, RefreshFailed(r) PROVE Keeps
  BY <1>4, RefreshKeeps, Zenon
<1>5. ASSUME NEW r \in Refreshers, NEW c \in Rcodes, RefreshAnswered(r, c) PROVE Keeps
  BY <1>5, RefreshKeeps, Zenon
<1>6. CASE Reload \/ Tick \/ UNCHANGED vars
  BY <1>6, IdleKeeps, Zenon
<1> QED
  BY <1>1, <1>2, <1>3, <1>4, <1>5, <1>6, Zenon DEF Next

\* No query is handled at first, and the cache is empty.
LEMMA PipelineInitial == Init => PipelineInv
<1> SUFFICES ASSUME Init PROVE PipelineInv
  OBVIOUS
<1>1. CacheInv
  BY CacheInitial, Zenon DEF Init
<1>2. HandlerInv
  BY DEF Init, CacheInit, HandlerInv, HandlerOk, Stages
<1>3. RepliesAreOwn /\ RefreshInv
  BY DEF Init, RepliesAreOwn, RefreshInv
<1>4. CacheHoldsAnswers
  BY DEF Init, CacheInit, CacheHoldsAnswers
<1> QED
  BY <1>1, <1>2, <1>3, <1>4, Zenon DEF PipelineInv
-----------------------------------------------------------------------------
(* Theorems                                                                *)

\* The invariant of the pipeline, for handlers, refreshes and reloads that
\* interleave in any way.
THEOREM PipelineInvariant == Spec => []PipelineInv
<1>1. PipelineInv /\ [Next]_vars => PipelineInv'
  BY PipelineInductive, SMTT(30) DEF Keeps
<1> QED
  BY <1>1, PipelineInitial, PTL DEF Spec

\* Every answer is for the name that the handler's client asked, under that
\* client's id, whoever filled the cache (Pipeline::handle, Cache::get).
THEOREM RepliesAreOwnAlways == Spec => []RepliesAreOwn
<1>1. PipelineInv => RepliesAreOwn
  BY DEF PipelineInv
<1> QED
  BY <1>1, PipelineInvariant, PTL

\* No failure and no name of the hosts is ever cached, and every entry answers
\* the question it is filed under (Pipeline::handle, spawn_refresh).
THEOREM CacheHoldsAnswersAlways == Spec => []CacheHoldsAnswers
<1>1. PipelineInv => CacheHoldsAnswers
  BY DEF PipelineInv
<1> QED
  BY <1>1, PipelineInvariant, PTL

\* The pipeline implements the cache's specification: each of its steps is a
\* step of Cache, for a key and a message that Cache allows, or leaves the cache
\* alone.
THEOREM PipelineRunsCache == Spec => CacheSpec
<1>1. Init => CacheInit
  BY DEF Init
<1>2. PipelineInv /\ [Next]_vars => [CacheNext]_cacheVars
  BY PipelineInductive DEF Keeps
<1> QED
  BY <1>1, <1>2, PipelineInvariant, PTL DEF Spec, CacheSpec

\* So the cache keeps its promises in the pipeline: an exact total within the
\* budget, the least recently used entry in front, the last used one at the tail.
THEOREM PipelineCacheSound == Spec => []UsedExact /\ []LeastRecentFirst /\ PutKept
BY PipelineRunsCache, UsedExactAlways, LeastRecentFirstAlways, PutKeptAlways, PTL
=============================================================================
