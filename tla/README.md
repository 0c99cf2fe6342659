# dnsbuffer: TLA+ models and proofs

A verification development kept beside the Rust sources of dnsbuffer, a DNS
forwarder with an optimistic cache, ad blocking, weighted upstream groups,
hedged retries and a dashboard. Every definition is translated from the code;
`PROJECT.json` maps each one to its lines.

## 1. The system

A UDP packet (`server.rs`) becomes a handler task that calls
`Pipeline::handle` (`pipeline.rs`): hosts, then the ad blocker, then the cache,
then the upstream chain under `query_timeout`; an expired cache entry is served
and refreshed by a detached task. The chain is one retry engine
(`upstream/hedged.rs`), or a primary and a fallback engine
(`FallbackResolver`), each over an upstream group (`upstream/group.rs`) that
chooses a member by weight (`stats.rs`, `upstream/selector.rs`); members are
plain UDP, DoT, or DoH over a shared HTTP/2 or HTTP/3 connection
(`upstream/doh.rs`, `upstream/doh3.rs`). Each answered query is offered to a
bounded channel, which a worker thread empties into SQLite
(`dashboard/store.rs`); the dashboard (`dashboard/http.rs`) reads it.
`main` loads the configuration (`config.rs`); `build_runtime`
(`dashboard/mod.rs`) opens and migrates the database, starts the worker, builds
the pipeline (`lib.rs`), for which names are looked up at bootstrap servers
(`bootstrap.rs`) and rules are fetched (`fetch.rs`, `filter.rs`), and binds the
ports; `Runtime::run_until` runs both services and stops everything in order.

| Part | State | Steps | Module |
|---|---|---|---|
| retry engine, upstream group | in_flight, JoinSet, timers, flag, per-member verdicts | select branches, task tries, abort, reap, drop | `Hedged`, contract `Budget` |
| fallback chain | the two engines' verdicts, query | answer, give up, query timeout | `Chain` (two `Budget`s) |
| statistics, selection | window, hourly history | record_*, snapshot, weight, pick | `Stats` |
| cache | LRU list, used_bytes, counters | get (2 steps), put | `Cache` |
| pipeline, sampler | handlers, refreshes, observations | handle, spawn_refresh, observe | `Pipeline` (over `Cache` and `Rules`) |
| ad blocker, hosts | rule set | load, refresh, match | `Rules` |
| DoH connections | kept connection, generation, mutex | lock, connect, send, invalidate, drop, close | `DohConn` |
| history worker | channel, batch, shutdown signal | record, select branches, write, stop, detach | `StoreWorker` |
| services, UDP server | services, handlers, timeouts | serve, drain, abort, close, stop | `Runtime` (over `StoreWorker`) |
| start of the process, configuration, upstream metrics | step of `build_runtime`, worker, ports, members | load, open, build, register, bind, abort | `Startup` (over `Fetch`, `Ecs`) |
| bootstrap resolver, plain and DoT exchanges | lookup in progress | await by await, next server, timeout | `Bootstrap` |
| rule sources, fetch | source, request, texts merged | request, redirect, frame, fail, time out | `Fetch` (over `Bootstrap`) |
| ECS | configured subnet | parse, mask; strip, inject | `Ecs`; subnets sent, in `Pipeline` |
| whole process | the above | start, then serve | `LifeCycle` (`Startup`, then `Runtime`) |
| opening the database | file, transaction, lock, openers | create, migrate, validate, probe, fail, restart | `Schema` |
| history database, dashboard API | rows, addresses, totals, requests, permits | insert, cleanup, validate, read by statement, time out | `History` |
| store | the above | open, then use | `Store` (`Schema`, then `History`) |
| frontend | browser | rendering | not modelled |

## 2. Modules

* **Hedged.** `engine` is the position of `resolve_attributed`; `pc`, `tried`
  and `current` are the tasks; `successes`, `soft_fails` and `timeouts` are what
  `try_member` and `AttemptGuard` left in the statistics. One action per branch
  of the select, with the guards of the branches before it negated (the select
  is biased), so a poll of the loop is one step. `Return` follows `Reap`s of
  every aborted task. An aborted task may still finish the poll it is in, so it
  may succeed or fail after the abort. `DropFuture` is the caller's drop at any
  await. The clock may run ahead of the engine: timers are polled late, never
  early. `Unwinds` lets a task panic and be joined with an error, as in debug
  builds; release builds abort.
* **Budget.** What the engine promises its caller: an answer, or an error not
  before the deadline, or nothing if it is dropped; and an end.
  `Hedged!ImplementsBudget` is the refinement, with `verdict` as its mapping.
* **Chain.** `FallbackResolver` under `query_timeout`, with each engine
  replaced by an instance of `Budget`; the fallback's clock starts when it is
  asked. `query_timeout` and `upstream_timeout` are unrelated, as in `validate`.
* **Stats.** Weights are fractions of naturals, so comparisons are exact; the
  rounding of `f64` is left out. `log` is a history variable: the calls of each
  member, and whether the dashboard counts them.
* **Cache.** `entries` is the LRU list, oldest first. `get` is two steps: the
  counter is bumped before the lock is taken. A put that makes room may be
  refused memory any number of times.
* **Rules.** A source's text is a set of classified lines; any source may fail
  in any load.
* **Pipeline.** Extends `Cache` and `Rules`; a handler is at one of the points
  where others may run. The query type is part of the name. Upstream answers
  carry the question asked (external: the transports check only the id).
* **DohConn.** Both protocols in one module, told apart by `http3` at the two
  places where the code differs. A connection may close at any time; a request
  may be dropped at any await.
* **StoreWorker, Runtime.** The unbiased select of the worker is a free choice
  among its ready branches; its cleanup may be due at any time, so that branch
  is always ready. `Runtime` adds the services, the handlers, the two
  timeouts, and the owner's calls; a timer is put back when what waits for it is
  gone. It starts where `build_runtime` has succeeded. What ended the serving
  only decides the result of `run_until`, and is left out.
* **Bootstrap.** A lookup asks for one record type after the other; each is one
  exchange per server until a reply is taken. An exchange is the sequence of
  its awaits (two for plain DNS, five for DoT; a DoH request is one, `DohConn`
  has its inside); it may fail or time out at each. Messages with another id
  are turned away. Addresses are numbers in the order of `IpAddr`; the stable
  sort by family is the one family followed by the other.
* **Fetch.** `load_sources` over `fetch_url`. A text is its number of frames;
  the server may redirect anywhere, send a text of any length, break off, or
  never answer. `FetchTimeout` may come at any step. The end of a body is
  `Marked` by its length or its last chunk, or by the close of its TLS session; a body
  over plain HTTP with neither ends wherever the connection does, and
  `BodyEnds` may then come at any frame.
* **Ecs.** `mask_ip` in the width of the family, a shift by the whole width
  included. A word is the set of the places of its one bits, so that `&` is an
  intersection; `Network` is the reference it is compared with.
* **Startup.** `boot` is the step of `build_runtime`; `building` is what the
  member being built waits for. An error after the worker is started goes
  through `Abort` (`shutdown_worker`). A configuration is a record of what
  decides over the start. A member carries the `name` that `build_member` gives
  it, which tells the entries apart.
* **LifeCycle.** `Startup` until a runtime is built, then `Runtime`. `Serve`
  puts the variables of the start back, so that what is served does not
  multiply with how it was built.
* **Schema.** `Store::open` by several threads of several processes. A file is
  its version, the parts of its schema and its rows. A transaction is taken
  with the write lock and seen by others when committed; a process that is
  killed loses its own. `user_version` is read before the transaction, as in
  the code. SQLite's refusal to upgrade a stale snapshot is one of the failures
  of `Fail`.
* **History.** SQLite (external) makes a transaction, or a statement outside
  one, a single step. The detail page is read by three statements; trend,
  rankings and response_time are one each. A request is validated, waits for a
  permit, and is answered by its thread or by its deadline; `late` is whether
  that has passed, and the thread may notice before the request does. Ids are
  those of the tables `Store::open` makes, with AUTOINCREMENT. A file whose
  `query_logs.id` lacks it passes `validate_schema` (the test at
  `store.rs:1179` opens one); SQLite may give the id of a deleted row to a new
  one there, which is not modelled.
* **Store.** `Schema` until every opener has returned and one has a store, then
  `History`, with empty tables and the openers' variables put back.

`MCx` modules give `x` its model values (`MCHistory` those of `Store`,
`MCRuntime` those of `LifeCycle`); `x_proofs` modules hold the theorems.

## 3. Runs

| Run | Shows |
|---|---|
| `hedged` | the task count is exact and capped; every try gets exactly one verdict or is waived because a sibling won; a failed query leaves no try unrecorded; nothing survives the return; losers are not charged; serial relaunches keep the floor; no launch past the deadline; a dropped engine's tasks stop; the engine implements `Budget` |
| `cache` | the byte account is exact and within budget, the list is in order of use, a stored entry survives its own put |
| `chain` | one engine per pending query and none afterwards; failure only when the promised time is spent; every query ends |
| `pipeline` | each client gets an answer to its own question under its own id; the cache holds only successful answers, filed correctly; every query is answered |
| `doh` | the mutex is held only while connecting; a retry never uses the failed connection; over H3 a live connection is given up only for a cause |
| `runtime` | every event recorded is stored once and in order, missed, queued or in hand; what is left in the queue at the end is due to a timer round; no event is refused because the history is closed, unless a service was dropped or the worker never ran; worker and process end. Before that: a part of a rule text is merged only where nothing but the end of a plain connection ends it, and no fetched text is above the limit; what is built is what was configured, entry by entry, with addresses that are the name's own, in order of family, and the subnet masked as the reference says; and every start ends, with a runtime or with the worker told to stop and no port kept |
| `stats` | the snapshot equals a recount of the log by retained hour for any clock, and the window is the log's last calls; a roll picks the member whose interval it falls into, never an excluded one |
| `history` | totals agree with the rows; the trend covers the window exactly once; a row's addresses are all or none of its own; threads in the database never exceed the permits; no request that the handler accepts is turned away by the store, at any offset, and a timeout is reported only after the deadline. Before that: a file that could be opened stays so through any crash, with its rows and no probe's; an opener is refused only for the file it found or because another process made the tables in between |

Four runs end in a violation, each of a sentence of the repository:

| Run | Sentence | What the code does |
|---|---|---|
| `pipeline_ecs` | the client's ECS is always stripped (`src/README.md:19`, `pipeline.rs:63`) | `spawn_refresh` sends the client's query unstripped |
| `doh_h2` | "connection is dead" (`doh.rs:183`) | a late failure on an old connection clears the live one |
| `worker_flush` | events are flushed when the recorder closes (tests `store.rs:1775`, `:1841`) | a cleanup-timer round exits on a closed channel with events queued |
| `stats_weight` | a failure "lowers this member's selection weight" (`stats.rs:109`) | after a slow success, a first failure lowers the weight; a second evicts the success, which brings the cold-start latency back, and the weight rises |

### Bounds

Two slots, two members and a budget of three ticks (`hedged`) allow hedging,
serial retry, a full cap, a late poll and the second try of an attempt; both
interval kinds are initial choices. `cache` has room for three small
answers or a big and a small one, and one message is larger than the whole
budget; in `pipeline` the answers for two names fit. `chain` has query timeouts
below, at, between and beyond the budgets of one and two engines. `doh` has three requests: two
that share a connection and one that finds the replacement; generations are
bounded by the two tries of each request. `runtime` has a channel and a batch of
two events and three events in all, so that a batch of two is written or missed
as a whole, the queue fills up, and several rounds happen; and
the service timeout is longer than the drain, as in the code; its starts take
configurations that are refused, upstreams that cannot be built, every prefix of
a subnet of three and four bits and beyond, two bootstrap servers (so that the
second is asked), DoH upstreams that need them for their addresses, for their
ECH list or for both, three kinds of rule source, two redirects, and texts below and above the limit
of two frames, with and without a marked end. `stats` has a
window of two and three calls, so that eviction happens, over four clock
readings in three hours. `history` has a day of two hours, two rows, one
permit for two requests, and pages on both sides of the largest offset and of
the largest size; its file is opened by two threads of one process and one of
another, with one restart, from nine files: new, foreign, old, altered, damaged,
current and newer. `MaxRestarts`, `MaxTime`, `MaxNow`, `MaxLookups`, `MaxReloads`,
`MaxEvents`, `MaxRecords` and `MaxRows` cap what only grows. Deadlock is not
checked: a resolution, a shutdown and every bounded instance ends.

### Fairness

* `hedged`: the engine's task is polled when it is ready, an aborted task is
  dropped by the executor, and the clock advances. Nothing obliges a member to
  answer or a task to start.
* `chain`: the clock and the query timer only; no fairness for the engines.
* `pipeline`: a handler's own steps, its timeout among them, and the timeout of
  a refresh. The upstream need not answer.
* `runtime`: while it starts, the steps of its own task and the timers of an
  exchange and of a fetch; no server owes an answer. Then the task of
  `run_until`, the worker's thread, the clock, the end
  of aborted handlers; strong fairness for the worker's shutdown branch, since
  `tokio::select!` without `biased` starts at a random branch. Handlers, HTTP
  connections and the signal owe nothing.

## 4. Proofs

TLAPS proves, for all values of the constants under the named assumptions
(`HedgedAssumption`: a non-empty group, `MAX_IN_FLIGHT` slots, at least one
attempt; `DohAssumption`: the mark of a free mutex is no request;
`SchemaAssumption`: every opener belongs to a process, and no file holds the
rows of a probe at first; `ChainAssumption`: times are naturals;
`StoreWorkerAssumption` and `RuntimeAssumption`: the owner and the pipeline are
different holders of a recorder; `HistoryAssumption`: an hour divides a day, and
times, sizes and permits are naturals; `CacheAssumption`: lengths, TTLs and the
budget are naturals; `PipelineAssumption`: a message is a name, an id and a
response code; `StatsAssumption`: there is a member, the window and the hour are
positive, and clock readings and latencies are naturals; `BootstrapAssumption`:
a name has finitely many addresses, IPv4 addresses come before IPv6 addresses,
and those of other replies are others; `FetchAssumption`: lengths and limits are
naturals; `EcsAssumption`: each family has a positive width;
`StartupAssumption`: the configurations considered are configurations):

* **Hedged_proofs.** Type correctness first. The inductive invariant
  `Bookkeeping` ties `in_flight` to the JoinSet, the JoinSet to the task states,
  the success flag and the answer to the engine's position, and the retry timer
  to the last launch; without it `InFlightExact` is not inductive, since a
  launch must know that a free slot is not in the set already. From it follow `InFlightExact`,
  `NothingLeftRunning`, `LosersNotCharged`, `NoLaunchPastBudget` and
  `RetriesThrottled`. `TriesAccounted` is inductive on top of it, with a
  counting lemma for the armed guards, and yields `NoSilentFailure`.
  `BudgetImplemented` shows initial states and every step to be those of
  `Budget` (its safety part).
* **DohConn_proofs.** `Sharing`: the kept connection is the newest or none, none
  while somebody connects; a request about to take one has last used an older
  one than the kept; a request that invalidates has failed on its own. Neither
  `RetryOnFresh` nor `H3GivesUpForCause` can be seen from a single step. It yields `LockOnlyConnecting`, `RetryOnFresh` and
  `H3GivesUpForCause`, for any number of requests.
* **Chain_proofs.** `Standing`: a pending query is with its primary, or with its
  fallback after the primary has used its budget up. It yields `OneEngine` and
  `FailureSpendsBudget`, for all budgets and timeouts and all engines that keep
  the promise of `Budget`, which `Hedged_proofs` shows of the real one.
* **LifeCycle_proofs.** First `StoreWorker` on its own, with any holders of a
  recorder. `Rounds`: the batch is empty while the worker waits and has an event
  from `recv` to the end of the round; a round that met the end of the channel
  left it empty, and nobody can fill it again. It yields `FlushedUnlessTimer`.
  `HistoryExact` is inductive on top of it, with three lemmas on sequences: an
  event recorded is the last one, an event moved to the batch keeps its place, a
  batch given up leaves the rest in order. Then the process: `RuntimeInv` says
  that the owner keeps worker and channel open until the phases of serving and
  closing are over, that by then the DNS service has ended or was dropped, and
  that a service that ended has no handler left; a handler that records
  therefore finds the channel open (`NothingTurnedAway`). `RuntimeRunsWorker`
  shows every step of the process to be one of `StoreWorker`'s or none, so that
  both properties of the worker hold in it (`RuntimeHistory`). Then the start.
  `StartInv`: a lookup has found addresses of the name only (`Asked`); the
  members built so far are no more than the entries, each fits the entry at its
  place (`Fits`) and has addresses in order of family (`Prepared`); what the
  member being built waits for says what its entry is, and with the ECH list to
  come it has its addresses (`Awaited`); the members registered are those of the
  groups that are done, each at the place its id says, and each fits the entry
  there (`Enrolled`); and at each step of
  `build_runtime` it is known whether the worker runs and which ports are kept
  (`Hosted`). `BuiltAsConfigured` speaks of the end only, so none of this can be
  left out. Below it are lemmas on the operators: `sort_by_family` of a list
  with an address has one, and puts one family before the other, a finite set
  has an ascending list, and shift and mask leave the first bits of a word at every prefix, the
  whole width included. It yields `BuiltAsConfigured`, and that a start that
  fails leaves nothing behind (`FailureLeavesNothing`). For
  `WholeIfMarked` the request in progress has to be followed (`Fetching`): it is
  for a source that is a URL, what has come is no more than the text and the
  limit, and nothing has come before the body. Last, the whole: `LifeRunsRuntime` shows the steps of a
  start to be stutters of `Runtime`, so that what was proved of the runtime and
  the worker holds from `main` on (`LifeHistory`).
* **Store_proofs.** First opening the file. `SchemaInv`: an opener at work holds
  its process's lock, and the writer is the one with a transaction open
  (`Locked`); what an opener has read as version decides where it may stand, and
  a transaction about to be committed was made from the file as it is
  (`Staged`); the file is the first one until it has the current version, and if
  that was made from nothing, its maker is known (`Past`). Neither property is
  inductive alone: a commit must know what its transaction was made from. It
  yields `FileSurvives` and `RefusedForCause` for any number of threads,
  processes, files and crashes. Then the history. `HistoryInv` has four parts.
  `Tables`: ids are not repeated, a bucket's totals are never less than its
  rows, and equal to them unless it begins before the latest cutoff; a bucket
  without totals has no rows. Lemmas on finite sets follow the counts through an
  insert and a cleanup. `Addressed`: the addresses of a number are all there or
  all gone. `Served`: what a request asked for, how far its thread is, how it
  was answered and what its page shows go together; `AddressesAreOwn` needs
  this, because the page is read by three statements with inserts and cleanups
  between them. `Limited`: readers do not exceed the permits.
  `TrendCoversWindow` is arithmetic on bucket boundaries, for any hour that
  divides a day. `StoreRunsHistory` and `StoreKeepsSchema` carry everything over
  to the store as a whole, from opening its file (`StoreCorrect`).
* **Cache_proofs.** `CacheInv`: the types, the account (`UsedExact`), a record of
  uses without repetition, and the map in its order. The properties are about
  `put` as a whole, so the argument goes through the operators: removing a key,
  removing a prefix and trimming each leave out positions and keep the order of
  the rest (`Thins`), and take their costs from the sum. The sum is a fold; that
  it exists and adds up is shown by looking at the least length at which it would
  not (`LeastNumber`, `UpTo`), since no induction rule can be used.
* **Stats_proofs.** `HistoryInv` compares buckets with the log of all calls: for
  every hour `c` that is `Settled` (no reading of the clock so far has pruned
  anything after it), the buckets after `c` and the calls filed after `c` have
  the same number, the same successes and the same sum of latencies. Sums over
  all buckets would not do: pruning takes buckets away and the log keeps their
  calls, and a call after the clock was set back is filed under a later hour
  than its own. `WindowInv`: the window is the end of the log. A call either
  joins the last bucket or opens the next; each changes the sums after `c` by
  the same amount as the log's (`JoinOld`, `JoinNew`, `PopFront`).
  `PicksByWeight` needs no history: the weights are positive (`WeightPositive`),
  and the loop of `pick_weighted` stops at the first partial sum beyond the roll
  (`RollInShare`). The sums are folds over finite sets; that one can be taken
  apart at any element is `SumRemove`, by induction on subsets
  (`SubsetInduction`).
* **Pipeline_proofs.** `PipelineInv`: what a handler holds at each of its stages
  (query, name looked up, reply), that a refresh is for a name that is not one of
  the hosts', `CacheInv`, and `CacheHoldsAnswers`. `RepliesAreOwn` is not
  inductive without the latter: the answer a handler takes from the cache was put
  there by another one. Every step is shown to keep it and to be a step of
  `Cache` for a key and a message `Cache` allows (`PipelineRunsCache`), so that
  the cache's theorems hold in the pipeline (`PipelineCacheSound`).

Each inductive invariant was checked with TLC on the instance of its run before
it was proved.

Only model-checked:

* all liveness (`AbandonedTasksStop`, the liveness of `BudgetSpec`, `QueryEnds`,
  `QueriesAnswered`, `WorkerStops`, `RunReturns`, `StartupEnds`), which is out of
  this prover's reach.

Every invariant and action property of the passing runs is a theorem.

## 5. Not modelled

TLS, HTTP and QUIC; DNS wire encoding; SQLite itself; the search filter and
the rows of rankings and response_time; DTO layout and static assets;
deserialisation and defaults of the configuration; names and URLs as text; the
frontend; `f64` rounding; poisoned locks. A start is modelled up to the point
where the process serves; the refresh of the rules while it serves is in
`Rules`, with every source failing or not as a whole, which `WholeIfMarked`
justifies but for the case it excepts.

## 6. Plan

1. A run for "the last successful ruleset is retained" (`src/README.md:243`),
   which a refresh with one failing source contradicts.
2. The overlap of the frontend's fetches.
3. The rounding of `f64` in the weights, which `PicksByWeight` leaves out.
