-------------------------------- MODULE Stats --------------------------------
(***************************************************************************)
(* What a group remembers of its members and how it chooses among them:    *)
(* UpstreamStats (stats.rs), with the sliding window behind the selection  *)
(* weight and the hourly history behind the dashboard, and the weighted    *)
(* choice (upstream/selector.rs, UpstreamGroup::weights).                  *)
(*                                                                         *)
(* Members are numbered as in the group.  A call reads the wall clock,     *)
(* which may be set back between two calls.  A weight is a fraction; the   *)
(* weights of a group are compared over a common denominator.              *)
(***************************************************************************)
EXTENDS Integers, Sequences, FiniteSetsExt

CONSTANTS
  Count,       \* number of members
  Window,      \* stats_window, at least 1
  Retentions,  \* values of the retention considered, in ticks; 0: for ever
  HOUR,        \* ticks in an hour
  Clock,       \* readings of the wall clock
  Latencies,   \* of a successful call
  COLD,        \* latency assumed of a member without a success
  K,           \* failure penalty
  MaxRecords   \* bound: calls recorded in a checked instance

ASSUME StatsAssumption ==
  /\ Count \in Nat \ {0} /\ Window \in Nat \ {0} /\ HOUR \in Nat \ {0}
  /\ Retentions \subseteq Nat /\ Clock \subseteq Nat /\ Latencies \subseteq Nat
  /\ COLD \in Nat /\ K \in Nat /\ MaxRecords \in Nat

VARIABLES
  retention,   \* of this configuration
  samples,     \* the sliding window of each member, oldest first
  history,     \* the hour buckets of each member, oldest first
  log          \* history: what has been recorded of each member

vars == <<retention, samples, history, log>>

Members == 1..Count
Failure == [ok |-> FALSE, latency |-> 0]
Success(l) == [ok |-> TRUE, latency |-> l]

Init ==
  /\ retention \in Retentions
  /\ samples = [m \in Members |-> <<>>] /\ history = [m \in Members |-> <<>>]
  /\ log = [m \in Members |-> <<>>]
-----------------------------------------------------------------------------
(* Recording                                                               *)

push(w, s) == IF Len(w) = Window THEN Append(Tail(w), s) ELSE Append(w, s)

Hour(t) == (t \div HOUR) * HOUR

\* The bucket of an hour is over, and out of the retention period at t.
Outdated(b, t) == retention # 0 /\ b.hour + HOUR <= t - retention

Back(queue) == queue[Len(queue)]
NewBucket(hour) == [hour |-> hour, samples |-> 0, successes |-> 0, latency_sum |-> 0]
Counting(b, s) ==
  [hour |-> b.hour, samples |-> b.samples + 1,
   successes |-> b.successes + (IF s.ok THEN 1 ELSE 0),
   latency_sum |-> b.latency_sum + s.latency]

\* Mutant: every hour that is not the last one gets a bucket of its own.
BucketedByHour(h, t, s) ==
  IF h # <<>> /\ Back(h).hour = Hour(t)
  THEN [h EXCEPT ![Len(h)] = Counting(Back(h), s)]
  ELSE Append(h, Counting(NewBucket(Hour(t)), s))

\* The sample joins the last bucket, unless its hour is later: when the clock
\* has been set back, the buckets stay in order.
Bucketed(h, t, s) ==
  IF h # <<>> /\ Back(h).hour >= Hour(t)
  THEN [h EXCEPT ![Len(h)] = Counting(Back(h), s)]
  ELSE Append(h, Counting(NewBucket(Hour(t)), s))

\* pop_front while the front is outdated.
Pruned(h, t) ==
  LET kept == {i \in DOMAIN h : ~Outdated(h[i], t)}
  IN  IF kept = {} THEN <<>> ELSE SubSeq(h, Min(kept), Len(h))

record_history(h, t, s) == Pruned(Bucketed(h, t, s), t)

Recorded == SumFunction([m \in Members |-> Len(log[m])])

\* One call's outcome: into the window, and into the history if it counts.
Record(m, t, s, counts) ==
  /\ Recorded < MaxRecords
  /\ samples' = [samples EXCEPT ![m] = push(@, s)]
  /\ history' = [history EXCEPT ![m] = IF counts THEN record_history(@, t, s) ELSE @]
  /\ log' = [log EXCEPT ![m] = Append(@, [at |-> t, sample |-> s, counts |-> counts])]
  /\ UNCHANGED retention

record_success(m, t, l) == Record(m, t, Success(l), TRUE)
\* A soft failure reads no clock.
record_soft_fail(m) == Record(m, 0, Failure, FALSE)
record_timeout(m, t) == Record(m, t, Failure, TRUE)

Next ==
  \E m \in Members :
    \/ \E t \in Clock : record_timeout(m, t) \/ \E l \in Latencies : record_success(m, t, l)
    \/ record_soft_fail(m)

Spec == Init /\ [][Next]_vars
-----------------------------------------------------------------------------
(* The dashboard                                                           *)

SumOf(h, is, field) == SumFunctionOnSet([i \in DOMAIN h |-> h[i][field]], is)

snapshot_at(m, t) ==
  LET h == history[m]
      current == {i \in DOMAIN h : ~Outdated(h[i], t)}
  IN  [samples |-> SumOf(h, current, "samples"), successes |-> SumOf(h, current, "successes"),
       latency_sum |-> SumOf(h, current, "latency_sum")]
-----------------------------------------------------------------------------
(* The selection                                                           *)

Failures(w) == Quantify(DOMAIN w, LAMBDA i : ~w[i].ok)
LatencySum(w) == SumFunction([i \in DOMAIN w |-> w[i].latency])

\* avg_latency_ms + 1 and 1 + k * failure_rate, each over its denominator.
Slowness(w) ==
  LET n == Len(w) - Failures(w)
  IN  IF n = 0 THEN <<COLD + 1, 1>> ELSE <<LatencySum(w) + n, n>>
Unreliability(w) == IF w = <<>> THEN <<1, 1>> ELSE <<Len(w) + K * Failures(w), Len(w)>>

weight(w) == [num |-> Slowness(w)[2] * Unreliability(w)[2],
              den |-> Slowness(w)[1] * Unreliability(w)[1]]

Heavier(a, b) == a.num * b.den > b.num * a.den

\* UpstreamGroup::weights, multiplied with the product of the denominators.
weights(tried) ==
  LET dens == [j \in Members |-> weight(samples[j]).den]
  IN  [m \in Members |->
         IF m \in tried THEN 0
         ELSE weight(samples[m]).num
                * FoldFunctionOnSet(LAMBDA d, p : d * p, 1, dens, Members \ {m})]

Positive(ws) == {i \in DOMAIN ws : ws[i] > 0}
Sum(ws, is) == SumFunctionOnSet(ws, is)
UpTo(is, i) == {j \in is : j <= i}

\* Mutant: the end of a member's share is its own.
pick_weightedClosed(ws, roll, of) ==
  LET total == Sum(ws, Positive(ws))
  IN  IF total = 0 THEN Min({(roll * Len(ws)) \div of + 1, Len(ws)})
      ELSE Min({i \in Positive(ws) : roll * total <= Sum(ws, UpTo(Positive(ws), i)) * of})

\* The choice for the roll roll/of, a number in [0,1): the first member whose
\* share of the cumulated weight the roll is below; uniform when no weight is
\* positive.  (The code's last resort is for rounding errors only.)
pick_weighted(ws, roll, of) ==
  LET total == Sum(ws, Positive(ws))
  IN  IF total = 0 THEN Min({(roll * Len(ws)) \div of + 1, Len(ws)})
      ELSE Min({i \in Positive(ws) : roll * total < Sum(ws, UpTo(Positive(ws), i)) * of})
-----------------------------------------------------------------------------
(* Properties                                                              *)

\* Of a log: the calls that count; the latest hour seen by each of them; and
\* those the dashboard has to show at t.
Counted(calls) == {i \in DOMAIN calls : calls[i].counts}
Filed(calls, i) == Max({Hour(calls[j].at) : j \in UpTo(Counted(calls), i)})
Shown(calls, t) ==
  LET cutoff == Max({t} \cup {calls[i].at : i \in Counted(calls)}) - retention
  IN  {i \in Counted(calls) : retention = 0 \/ Filed(calls, i) + HOUR > cutoff}

\* What the dashboard shows of a member at any later time is exactly what a
\* full log of its calls says, however the wall clock has been set in between:
\* each call filed under the latest hour seen until then, and forgotten once
\* that hour is out of the retention period of a reading of the clock
\* (record_history and snapshot_at).  What the selection looks at is the last
\* calls, as many as the window holds, those the history leaves out included.
SnapshotExact ==
  \A m \in Members, t \in Clock :
    LET calls == log[m]
        shown == Shown(calls, t)
        recent == Min({Window, Len(calls)})
    IN  /\ snapshot_at(m, t) =
             [samples |-> Cardinality(shown),
              successes |-> Quantify(shown, LAMBDA i : calls[i].sample.ok),
              latency_sum |-> SumFunctionOnSet([i \in shown |-> calls[i].sample.latency], shown)]
        /\ samples[m] = [i \in 1..recent |-> calls[Len(calls) - recent + i].sample]

\* The rolls that choose a member are its share of the weight, from the first
\* to the last of them, and every untried member has a share: no roll gives a
\* member that was tried, whatever the statistics (pick_weighted and weights;
\* resolve_member provides for that "with all-zero weights", group.rs:84).
PicksByWeight ==
  \A tried \in SUBSET Members \ {Members} :
    LET ws == weights(tried)
        total == Sum(ws, Members)
    IN  \A m \in Members \ tried :
          LET start == Sum(ws, 1..(m - 1))
          IN  /\ ws[m] > 0
              /\ pick_weighted(ws, start, total) = m
              /\ pick_weighted(ws, start + ws[m] - 1, total) = m

\* "lowers this member's selection weight via the sliding window"
\* (stats.rs:109, of an active transport error): no failure makes a member
\* weigh more than before.
FailureLowersWeight ==
  [][\A m \in Members :
       log'[m] # log[m] /\ ~Back(log'[m]).sample.ok
         => ~Heavier(weight(samples'[m]), weight(samples[m]))]_vars
=============================================================================
