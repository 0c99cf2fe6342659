------------------------------- MODULE Hedged -------------------------------
(***************************************************************************)
(* One resolution by the budget-scoped retry engine, HedgedResolver::      *)
(* resolve_attributed (upstream/hedged.rs), over the members of one        *)
(* UpstreamGroup (upstream/group.rs): the engine's select loop, the tasks  *)
(* of its JoinSet, the member each task is trying, and the verdicts the    *)
(* tries leave in the members' statistics.                                 *)
(*                                                                         *)
(* An attempt slot stands for a task; it is reused once the engine has     *)
(* joined the task: MAX_IN_FLIGHT slots are as good as unboundedly many.   *)
(* Time is a clock in abstract ticks.  It may run ahead of the engine and  *)
(* of the tasks: a busy executor polls a timer late, never early.          *)
(***************************************************************************)
EXTENDS Integers, FiniteSets

CONSTANTS
  Slots,        \* task slots of the JoinSet
  Members,      \* members of the upstream group
  None,         \* no member
  MAX_ATTEMPTS, \* members one attempt tries (group.rs)
  MAX_IN_FLIGHT,\* cap on parallel attempts (hedged.rs)
  RETRY_FLOOR,  \* least distance of a relaunch from the last launch
  Intervals,    \* values of hedged_retry_ms considered; 0 turns parallel hedging off
  MaxWait,      \* upstream_timeout_ms, the budget
  MaxTime,      \* bound: the clock of a checked instance stops here
  Unwinds       \* a panicking task unwinds (FALSE: the release profile aborts)

ASSUME HedgedAssumption ==
  /\ Members # {} /\ None \notin Members   \* build_group rejects an empty group
  /\ IsFiniteSet(Slots) /\ Cardinality(Slots) = MAX_IN_FLIGHT
  /\ MAX_ATTEMPTS \in Nat \ {0}
  /\ MAX_IN_FLIGHT \in Nat \ {0}
  /\ RETRY_FLOOR \in Nat /\ Intervals \subseteq Nat /\ MaxWait \in Nat
  /\ MaxTime \in Nat
  /\ Unwinds \in BOOLEAN

VARIABLES
  interval,     \* the engine's hedging interval, fixed for its life
  now,          \* the clock
  engine,       \* where resolve_attributed is
  succeeded,    \* the flag shared with the attempts (QUERY_SUCCEEDED)
  in_flight,    \* the engine's own count of tasks it has not joined
  attempts,     \* the JoinSet: slots of the tasks not yet joined
  aborted,      \* slots whose task has been told to stop
  next_hedge, last_spawn, retry_at,
  pc,           \* what each task is doing
  tried,        \* members each task has tried
  current,      \* the member each task is waiting for, or was last
  answered,     \* the member named with the answer
  started,      \* history: tries begun, per member
  successes, soft_fails, timeouts, \* verdicts in UpstreamStats, per member
  waived        \* history: tries cancelled without a verdict, per member

timers == <<next_hedge, last_spawn, retry_at>>
tasks == <<pc, tried, current>>
stats == <<started, successes, soft_fails, timeouts, waived>>
vars == <<interval, now, engine, succeeded, in_flight, attempts, aborted, timers, tasks,
          answered, stats>>

Deadline == MaxWait
max_in_flight == IF interval = 0 THEN 1 ELSE MAX_IN_FLIGHT

\* "won" and "expired": inside stop_attempts, on the way to "ok" and "err".
EngineStates == {"running", "won", "expired", "ok", "err", "dropped"}
Live == {"queued", "trying"}
Finished == {"ok", "err", "cancelled"}
TaskStates == {"free"} \cup Live \cup Finished

TypeOK ==
  /\ interval \in Intervals
  /\ now \in Nat
  /\ engine \in EngineStates
  /\ succeeded \in BOOLEAN
  /\ in_flight \in Nat
  /\ attempts \subseteq Slots /\ aborted \subseteq Slots
  /\ next_hedge \in Nat /\ last_spawn \in Nat /\ retry_at \in Nat
  /\ pc \in [Slots -> TaskStates]
  /\ tried \in [Slots -> SUBSET Members]
  /\ current \in [Slots -> Members \cup {None}]
  /\ answered \in Members \cup {None}
  /\ started \in [Members -> Nat] /\ waived \in [Members -> Nat]
  /\ successes \in [Members -> Nat] /\ soft_fails \in [Members -> Nat]
  /\ timeouts \in [Members -> Nat]
-----------------------------------------------------------------------------
(* The engine                                                              *)

Zero == [m \in Members |-> 0]

\* The first attempt is launched before the loop is entered.
Init ==
  /\ interval \in Intervals
  /\ now = 0 /\ engine = "running" /\ succeeded = FALSE /\ in_flight = 1
  /\ next_hedge = interval /\ last_spawn = 0 /\ retry_at = 0
  /\ \E s \in Slots : /\ attempts = {s}
                      /\ pc = [t \in Slots |-> IF t = s THEN "queued" ELSE "free"]
  /\ aborted = {}
  /\ tried = [s \in Slots |-> {}] /\ current = [s \in Slots |-> None]
  /\ answered = None
  /\ started = Zero /\ waived = Zero
  /\ successes = Zero /\ soft_fails = Zero /\ timeouts = Zero

\* The branches of the biased select, in its order: a branch is taken only
\* when the ones above it are not ready.
JoinReady == in_flight > 0 /\ \E s \in attempts : pc[s] \in Finished
DeadlineReady == now >= Deadline
HedgeReady == interval # 0 /\ now >= next_hedge
RetryReady == in_flight = 0 /\ now >= retry_at

Later(t, u) == IF t >= u THEN t ELSE u

\* Mutant: a launch that is not counted.
SpawnUncounted ==
  \E s \in Slots :
    /\ pc[s] = "free"
    /\ pc' = [pc EXCEPT ![s] = "queued"]
    /\ tried' = [tried EXCEPT ![s] = {}]
    /\ current' = [current EXCEPT ![s] = None]
    /\ attempts' = attempts \cup {s}
    /\ last_spawn' = now
    /\ UNCHANGED in_flight

\* spawn_attempt, with the bookkeeping both of its callers do: a task enters
\* the JoinSet; the runtime polls it later.
Spawn ==
  \E s \in Slots :
    /\ pc[s] = "free"
    /\ pc' = [pc EXCEPT ![s] = "queued"]
    /\ tried' = [tried EXCEPT ![s] = {}]
    /\ current' = [current EXCEPT ![s] = None]
    /\ attempts' = attempts \cup {s}
    /\ in_flight' = in_flight + 1
    /\ last_spawn' = now

\* Mutant: the siblings are aborted while the flag is still unset.
JoinOkUnflagged(s) ==
  /\ engine = "running" /\ JoinReady
  /\ s \in attempts /\ pc[s] = "ok"
  /\ in_flight' = in_flight - 1
  /\ answered' = current[s]
  /\ engine' = "won"
  /\ attempts' = attempts \ {s} /\ aborted' = attempts \ {s}
  /\ pc' = [pc EXCEPT ![s] = "free"]
  /\ UNCHANGED <<interval, now, succeeded, timers, tried, current, stats>>

\* join_next yields an answer: the flag is set before the siblings are aborted.
JoinOk(s) ==
  /\ engine = "running" /\ JoinReady
  /\ s \in attempts /\ pc[s] = "ok"
  /\ in_flight' = in_flight - 1
  /\ succeeded' = TRUE
  /\ answered' = current[s]
  /\ engine' = "won"
  /\ attempts' = attempts \ {s} /\ aborted' = attempts \ {s}
  /\ pc' = [pc EXCEPT ![s] = "free"]
  /\ UNCHANGED <<interval, now, timers, tried, current, stats>>

\* JoinErr up to what it does to the count, the retry timer and the engine.
JoinErrWith(s, left, retry, next) ==
  /\ engine = "running" /\ JoinReady
  /\ s \in attempts /\ pc[s] = "err"
  /\ in_flight' = left /\ retry_at' = retry /\ engine' = next
  /\ attempts' = attempts \ {s}
  /\ pc' = [pc EXCEPT ![s] = "free"]
  /\ UNCHANGED <<interval, now, succeeded, aborted, next_hedge, last_spawn, tried, current, answered,
                 stats>>

\* Mutants: the count is taken down twice, in the branch and in its error arm;
\* the floor is forgotten; an error of the last attempt ends the query.
JoinErrTwice(s) == JoinErrWith(s, in_flight - 2, retry_at, engine)
JoinErrNoFloor(s) == JoinErrWith(s, in_flight - 1, now, engine)
JoinErrFinal(s) ==
  JoinErrWith(s, in_flight - 1, retry_at, IF in_flight = 1 THEN "expired" ELSE engine)

\* join_next yields an error, a JoinError included: not a final verdict.
JoinErr(s) ==
  JoinErrWith(s, in_flight - 1,
              IF in_flight = 1 THEN Later(now, last_spawn + RETRY_FLOOR) ELSE retry_at,
              engine)

\* The budget is used up: abort what is in flight, the flag still unset.
Expire ==
  /\ engine = "running" /\ ~JoinReady /\ DeadlineReady
  /\ engine' = "expired"
  /\ aborted' = attempts
  /\ UNCHANGED <<interval, now, succeeded, in_flight, attempts, timers, tasks, answered, stats>>

\* Mutant: the hedge timer is polled before the deadline.
HedgeFirst ==
  /\ engine = "running" /\ ~JoinReady /\ HedgeReady
  /\ next_hedge' = next_hedge + interval
  /\ \/ in_flight < max_in_flight /\ Spawn
     \/ in_flight >= max_in_flight /\ UNCHANGED <<tasks, attempts, in_flight, last_spawn>>
  /\ UNCHANGED <<interval, now, engine, succeeded, aborted, retry_at, answered, stats>>

\* The hedge timer: launch a parallel attempt, unless the cap is reached.
Hedge ==
  /\ engine = "running" /\ ~JoinReady /\ ~DeadlineReady /\ HedgeReady
  /\ next_hedge' = next_hedge + interval
  /\ \/ in_flight < max_in_flight /\ Spawn
     \/ in_flight >= max_in_flight /\ UNCHANGED <<tasks, attempts, in_flight, last_spawn>>
  /\ UNCHANGED <<interval, now, engine, succeeded, aborted, retry_at, answered, stats>>

\* The retry timer: everything in flight failed, launch one more.
Retry ==
  /\ engine = "running" /\ ~JoinReady /\ ~DeadlineReady /\ ~HedgeReady /\ RetryReady
  /\ Spawn
  /\ UNCHANGED <<interval, now, engine, succeeded, aborted, next_hedge, retry_at, answered, stats>>

\* stop_attempts: join one aborted task, whatever it ended with.
Reap(s) ==
  /\ engine \in {"won", "expired"}
  /\ s \in attempts /\ pc[s] \in Finished
  /\ attempts' = attempts \ {s} /\ aborted' = aborted \ {s}
  /\ pc' = [pc EXCEPT ![s] = "free"]
  /\ UNCHANGED <<interval, now, engine, succeeded, in_flight, timers, tried, current, answered, stats>>

\* Mutant: the tasks are told to stop and not waited for.
ReturnAtOnce ==
  /\ engine \in {"won", "expired"}
  /\ engine' = IF engine = "won" THEN "ok" ELSE "err"
  /\ attempts' = {}
  /\ UNCHANGED <<interval, now, succeeded, in_flight, aborted, timers, tasks, answered, stats>>

\* The JoinSet is empty: resolve_attributed returns.
Return ==
  /\ engine \in {"won", "expired"} /\ attempts = {}
  /\ engine' = IF engine = "won" THEN "ok" ELSE "err"
  /\ UNCHANGED <<interval, now, succeeded, in_flight, attempts, aborted, timers, tasks, answered, stats>>

\* Mutant: dropping the set detaches its tasks.
DropFutureDetach ==
  /\ engine \in {"running", "won", "expired"}
  /\ engine' = "dropped"
  /\ attempts' = {}
  /\ UNCHANGED <<interval, now, succeeded, in_flight, aborted, timers, tasks, answered, stats>>

\* The caller drops the future (query_timeout, or the server aborts its
\* handlers): dropping the JoinSet aborts its tasks and joins none.
DropFuture ==
  /\ engine \in {"running", "won", "expired"}
  /\ engine' = "dropped"
  /\ attempts' = {} /\ aborted' = aborted \cup attempts
  /\ UNCHANGED <<interval, now, succeeded, in_flight, timers, tasks, answered, stats>>
-----------------------------------------------------------------------------
(* One task: UpstreamGroup::resolve_member                                 *)

\* try_member begins: the task waits for m under an armed AttemptGuard.
\* pick_weighted may return any member not tried yet.
Try(s, m) ==
  /\ pc' = [pc EXCEPT ![s] = "trying"]
  /\ tried' = [tried EXCEPT ![s] = @ \cup {m}]
  /\ current' = [current EXCEPT ![s] = m]
  /\ started' = [started EXCEPT ![m] = @ + 1]

End(s, state) == pc' = [pc EXCEPT ![s] = state] /\ UNCHANGED <<tried, current, started>>

MayTry(s) == Cardinality(tried[s]) < MAX_ATTEMPTS /\ Members \ tried[s] # {}

\* The task's first poll; an aborted task does not get one.  A poll under way
\* when the abort lands runs to its end, so the steps below do not ask.
Start(s) ==
  /\ pc[s] = "queued" /\ s \notin aborted
  /\ \E m \in Members : Try(s, m)
  /\ UNCHANGED <<interval, now, engine, succeeded, in_flight, attempts, aborted, timers, answered,
                 successes, soft_fails, timeouts, waived>>

MemberOk(s) ==
  /\ pc[s] = "trying"
  /\ successes' = [successes EXCEPT ![current[s]] = @ + 1]
  /\ End(s, "ok")
  /\ UNCHANGED <<interval, now, engine, succeeded, in_flight, attempts, aborted, timers, answered,
                 soft_fails, timeouts, waived>>

\* Mutant: the guard is not disarmed when the member fails.
MemberErrArmed(s) ==
  /\ pc[s] = "trying"
  /\ soft_fails' = [soft_fails EXCEPT ![current[s]] = @ + 1]
  /\ timeouts' = [timeouts EXCEPT ![current[s]] = @ + 1]
  /\ \/ MayTry(s) /\ \E m \in Members \ tried[s] : Try(s, m)
     \/ ~MayTry(s) /\ End(s, "err")
  /\ UNCHANGED <<interval, now, engine, succeeded, in_flight, attempts, aborted, timers, answered,
                 successes, waived>>

\* The member failed: a soft failure, and in the same poll the next member.
MemberErr(s) ==
  /\ pc[s] = "trying"
  /\ soft_fails' = [soft_fails EXCEPT ![current[s]] = @ + 1]
  /\ \/ MayTry(s) /\ \E m \in Members \ tried[s] : Try(s, m)
     \/ ~MayTry(s) /\ End(s, "err")
  /\ UNCHANGED <<interval, now, engine, succeeded, in_flight, attempts, aborted, timers, answered,
                 successes, timeouts, waived>>

\* Mutant: no guard; a cancelled try leaves no verdict.
DropGuardSilent(s) == waived' = [waived EXCEPT ![current[s]] = @ + 1] /\ UNCHANGED timeouts

\* AttemptGuard::drop of an armed guard: a cancelled try counts as a timeout,
\* unless a sibling has already won.
DropGuard(s) ==
  IF succeeded THEN /\ waived' = [waived EXCEPT ![current[s]] = @ + 1]
                    /\ UNCHANGED timeouts
               ELSE /\ timeouts' = [timeouts EXCEPT ![current[s]] = @ + 1]
                    /\ UNCHANGED waived

\* The runtime drops an aborted task; one that was never polled has no guard.
Cancel(s) ==
  /\ s \in aborted
  /\ \/ pc[s] = "trying" /\ DropGuard(s)
     \/ pc[s] = "queued" /\ UNCHANGED <<timeouts, waived>>
  /\ End(s, "cancelled")
  /\ UNCHANGED <<interval, now, engine, succeeded, in_flight, attempts, aborted, timers, answered,
                 successes, soft_fails>>

\* A member panics and the task unwinds through its guard (a JoinError).
Panic(s) ==
  /\ Unwinds
  /\ pc[s] = "trying"
  /\ DropGuard(s)
  /\ End(s, "err")
  /\ UNCHANGED <<interval, now, engine, succeeded, in_flight, attempts, aborted, timers, answered,
                 successes, soft_fails>>
-----------------------------------------------------------------------------
Tick == now < MaxTime /\ now' = now + 1
        /\ UNCHANGED <<interval, engine, succeeded, in_flight, attempts, aborted, timers, tasks,
                       answered, stats>>

EngineStep == \/ \E s \in Slots : JoinOk(s) \/ JoinErr(s) \/ Reap(s)
              \/ Expire \/ Hedge \/ Retry \/ Return

TaskStep(s) == Start(s) \/ MemberOk(s) \/ MemberErr(s) \/ Cancel(s) \/ Panic(s)

Next == EngineStep \/ DropFuture \/ Tick \/ \E s \in Slots : TaskStep(s)

\* The executor polls a ready engine and drops an aborted task; the clock
\* runs.  Nothing makes a member answer, or the caller drop the future.
Fairness == /\ WF_vars(EngineStep) /\ WF_vars(Tick)
            /\ \A s \in Slots : WF_vars(Cancel(s))

Spec == Init /\ [][Next]_vars
FairSpec == Spec /\ Fairness
-----------------------------------------------------------------------------
(* Properties                                                              *)

Armed(m) == {s \in Slots : pc[s] = "trying" /\ current[s] = m}
Verdicts(m) == successes[m] + soft_fails[m] + timeouts[m]

\* While the loop runs, in_flight counts the tasks of the JoinSet exactly, so
\* the expect on join_next never fires and the cap is a cap on tasks; serial
\* mode (interval = 0) never has two (hedged.rs, the select loop).
InFlightExact ==
  engine = "running" => /\ in_flight = Cardinality(attempts)
                        /\ in_flight <= max_in_flight

\* Every try of a member ends in exactly one verdict, whoever ends it: the
\* member, a panic, the budget, a winning sibling or a dropped future
\* (AttemptGuard and try_member in group.rs).
TriesAccounted ==
  \A m \in Members :
    started[m] = Verdicts(m) + waived[m] + Cardinality(Armed(m))

\* When the query fails, no member comes out of it unscathed: every try it
\* was given is in its statistics ("without this guard a black-hole upstream
\* would keep looking perfectly healthy", group.rs).
NoSilentFailure ==
  engine = "err" => \A m \in Members : started[m] = Verdicts(m)

\* Nothing of the resolution runs on after resolve_attributed has returned
\* (stop_attempts joins every task it aborts).
NothingLeftRunning ==
  engine \in {"ok", "err"} => attempts = {} /\ \A s \in Slots : pc[s] = "free"

\* Once an answer is accepted no member is charged with a timeout for having
\* been slower: the flag is set before any sibling can be cancelled.
LosersNotCharged == [][answered # None => timeouts' = timeouts]_vars

\* No attempt is launched once the budget is used up, however late the engine
\* is polled: the deadline comes before both launching branches of the select.
NoLaunchPastBudget ==
  [][(\E s \in Slots : pc[s] = "free" /\ pc'[s] = "queued") => now < Deadline]_vars

\* The tasks of a dropped resolution stop too, though nobody joins them
\* (JoinSet's drop aborts them).
AbandonedTasksStop ==
  engine = "dropped" ~> \A s \in Slots : pc[s] \notin Live

\* The engine keeps the promise of Budget: answered, or out of budget.
verdict == IF engine \in {"running", "won", "expired"} THEN "pending" ELSE engine
B == INSTANCE Budget
ImplementsBudget == B!BudgetSpec

\* "a fast-failing upstream (e.g. instant RST) is retried at most every
\* RETRY_FLOOR" (hedged.rs:14): serial retries keep the floor's distance, each
\* launch from the one before.
RetriesThrottled ==
  [][interval = 0 /\ in_flight' > in_flight => now >= last_spawn + RETRY_FLOOR]_vars
=============================================================================
