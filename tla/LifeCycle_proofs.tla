--------------------------- MODULE LifeCycle_proofs ---------------------------
(***************************************************************************)
(* The start, the service and the end of the process, for any constants.   *)
(*                                                                         *)
(* The worker and the runtime: HistoryExact and FlushedUnlessTimer for     *)
(* every capacity, batch size and number of events, and however many       *)
(* recorders there are; that Runtime drives the worker the way StoreWorker *)
(* says; and NothingTurnedAway for any number of handlers and any          *)
(* timeouts.                                                               *)
(*                                                                         *)
(* The start: WholeIfMarked and BuiltAsConfigured for any configurations,     *)
(* addresses, replies, texts and limits, and that a start that fails       *)
(* leaves nothing behind.                                                  *)
(*                                                                         *)
(* And the whole: a process that starts and serves does what Runtime says, *)
(* so that what is proved of the runtime and of the worker holds of it.    *)
(***************************************************************************)
EXTENDS LifeCycle, FiniteSetTheorems, SequenceTheorems, WellFoundedInduction, TLAPS
-----------------------------------------------------------------------------
(* The worker                                                              *)

\* Events of the database, of the batch and of the channel, in this order.
Joint(s, b, q) == s \o b \o q

Rising(s) == \A i, j \in 1..Len(s) : i < j => s[i] < s[j]

\* What each step of the worker's loop finds: the batch is empty while it waits,
\* and has an event from recv to the end of the round.  A round that saw the end
\* of the channel has left it empty, and nobody can fill it again.
Rounds ==
  /\ queue \in Seq(Nat) /\ events \in Seq(Nat) /\ stored \in Seq(Nat)
  /\ recorded \in Nat /\ missed \in SUBSET Nat
  /\ worker \in {"waiting", "draining", "stopped"} => events = <<>>
  /\ worker \in {"collecting", "writing"} => events # <<>> /\ woke = "event"
  /\ worker = "checking" =>
       \/ woke = "event" /\ events # <<>>
       \/ woke = "end" /\ queue = <<>> /\ is_closed
       \/ woke = "timer"
  /\ worker = "stopped" /\ woke # "timer" => queue = <<>>
-----------------------------------------------------------------------------
(* Sequences of numbers                                                    *)

\* Concatenation of event sequences.
LEMMA Joined ==
  /\ \A s, t \in Seq(Nat) : s \o t \in Seq(Nat)
  /\ \A s, t, u \in Seq(Nat) : (s \o t) \o u = s \o (t \o u)
<1>1. ASSUME NEW s \in Seq(Nat), NEW t \in Seq(Nat) PROVE s \o t \in Seq(Nat)
  BY ConcatProperties
<1>2. ASSUME NEW s \in Seq(Nat), NEW t \in Seq(Nat), NEW u \in Seq(Nat)
      PROVE  (s \o t) \o u = s \o (t \o u)
  BY SMTT(30)
<1> QED
  BY <1>1, <1>2, Zenon

\* The events of the parts of a sequence are those of the whole.
LEMMA RangeConcat ==
  ASSUME NEW s \in Seq(Nat), NEW t \in Seq(Nat)
  PROVE  Range(s \o t) = Range(s) \cup Range(t)
<1>1. /\ s \o t \in Seq(Nat) /\ Len(s \o t) = Len(s) + Len(t)
      /\ \A i \in 1 .. Len(s) + Len(t) :
           (s \o t)[i] = IF i <= Len(s) THEN s[i] ELSE t[i - Len(s)]
  BY ConcatProperties
<1>2. /\ Len(s) \in Nat /\ DOMAIN s = 1..Len(s) /\ Len(t) \in Nat /\ DOMAIN t = 1..Len(t)
      /\ DOMAIN (s \o t) = 1..(Len(s) + Len(t))
  BY <1>1, LenProperties
<1>3. ASSUME NEW i \in DOMAIN (s \o t)
      PROVE  (s \o t)[i] \in Range(s) \cup Range(t)
  <2>1. CASE i <= Len(s)
    BY <1>1, <1>2, <2>1 DEF Range
  <2>2. CASE i > Len(s)
    <3>1. i - Len(s) \in DOMAIN t /\ (s \o t)[i] = t[i - Len(s)]
      BY <1>1, <1>2, <2>2
    <3> QED
      BY <3>1 DEF Range
  <2> QED
    BY <1>2, <2>1, <2>2
<1>4. ASSUME NEW i \in DOMAIN s
      PROVE  s[i] \in Range(s \o t)
  <2>1. i \in DOMAIN (s \o t) /\ (s \o t)[i] = s[i]
    BY <1>1, <1>2
  <2> QED
    BY <2>1 DEF Range
<1>5. ASSUME NEW i \in DOMAIN t
      PROVE  t[i] \in Range(s \o t)
  <2>1. /\ i + Len(s) \in 1..Len(s) + Len(t) /\ ~(i + Len(s) <= Len(s))
        /\ i + Len(s) - Len(s) = i
    BY <1>2
  <2>2. i + Len(s) \in DOMAIN (s \o t) /\ (s \o t)[i + Len(s)] = t[i]
    BY <1>1, <1>2, <2>1
  <2> QED
    BY <2>2 DEF Range
<1> QED
  BY <1>3, <1>4, <1>5, Zenon DEF Range

\* Taking the first event from the channel into the batch moves no event.
LEMMA MoveHead ==
  ASSUME NEW s \in Seq(Nat), NEW b \in Seq(Nat), NEW q \in Seq(Nat), q # <<>>
  PROVE  /\ Tail(q) \in Seq(Nat) /\ Append(b, Head(q)) \in Seq(Nat)
         /\ Joint(s, Append(b, Head(q)), Tail(q)) = Joint(s, b, q)
<1>1. /\ Head(q) \in Nat /\ Tail(q) \in Seq(Nat) /\ Len(Tail(q)) = Len(q) - 1
      /\ Head(q) = q[1] /\ \A i \in 1..Len(Tail(q)) : Tail(q)[i] = q[i + 1]
  BY HeadTailProperties
<1> DEFINE h == <<Head(q)>>
<1>2. h \in Seq(Nat) /\ Append(b, Head(q)) = b \o h /\ Append(b, Head(q)) \in Seq(Nat)
  BY <1>1, AppendIsConcat, AppendProperties
<1>3. h \o Tail(q) = q
  <2>1. Len(q) \in Nat \ {0} /\ Len(h) = 1 /\ h[1] = q[1]
    BY <1>1, EmptySeq
  <2>2. /\ h \o Tail(q) \in Seq(Nat) /\ Len(h \o Tail(q)) = Len(h) + Len(Tail(q))
        /\ \A i \in 1 .. Len(h) + Len(Tail(q)) :
             (h \o Tail(q))[i] = IF i <= Len(h) THEN h[i] ELSE Tail(q)[i - Len(h)]
    BY <1>1, <1>2, ConcatProperties
  <2>3. \A i \in 1..Len(q) : (h \o Tail(q))[i] = q[i]
    BY <1>1, <2>1, <2>2
  <2>4. Len(h \o Tail(q)) = Len(q)
    BY <1>1, <2>1, <2>2
  <2> HIDE DEF h
  <2> QED
    BY <2>2, <2>3, <2>4, SeqEqual, Zenon
<1> HIDE DEF h
<1>4. s \o (b \o h) = (s \o b) \o h /\ s \o b \in Seq(Nat)
  BY <1>2, Joined, Zenon
<1>5. ((s \o b) \o h) \o Tail(q) = (s \o b) \o (h \o Tail(q))
  <2>1. s \o b \in Seq(Nat) /\ h \in Seq(Nat) /\ Tail(q) \in Seq(Nat)
    BY <1>1, <1>2, <1>4
  <2> QED
    BY <2>1, Joined, ZenonT(40)
<1> QED
  BY <1>1, <1>2, <1>3, <1>4, <1>5, Zenon DEF Joint

\* Giving up a batch leaves the events around it in order, and none of its own.
LEMMA DropMiddle ==
  ASSUME NEW s \in Seq(Nat), NEW b \in Seq(Nat), NEW q \in Seq(Nat), Rising(Joint(s, b, q))
  PROVE  /\ Rising(Joint(s, <<>>, q))
         /\ Range(Joint(s, b, q)) = Range(Joint(s, <<>>, q)) \cup Range(b)
         /\ Range(Joint(s, <<>>, q)) \cap Range(b) = {}
<1> DEFINE k == s \o b \o q
           d == s \o q
<1>1. s \o b \in Seq(Nat) /\ k \in Seq(Nat) /\ d \in Seq(Nat)
  BY ConcatProperties
<1>2. /\ Len(s) \in Nat /\ Len(b) \in Nat /\ Len(q) \in Nat
      /\ Len(k) = Len(s) + Len(b) + Len(q) /\ Len(d) = Len(s) + Len(q)
      /\ DOMAIN s = 1..Len(s) /\ DOMAIN b = 1..Len(b) /\ DOMAIN d = 1..Len(d)
  BY <1>1, LenProperties, ConcatProperties
<1>3. \A i \in 1..Len(d) : d[i] = IF i <= Len(s) THEN s[i] ELSE q[i - Len(s)]
  BY <1>2, ConcatProperties
<1>4. \A i \in 1..Len(k) :
        k[i] = IF i <= Len(s) THEN s[i]
               ELSE IF i <= Len(s) + Len(b) THEN b[i - Len(s)]
               ELSE q[i - (Len(s) + Len(b))]
  <2>1. Len(s \o b) = Len(s) + Len(b)
    BY ConcatProperties
  <2>2. \A i \in 1..Len(s) + Len(b) :
          (s \o b)[i] = IF i <= Len(s) THEN s[i] ELSE b[i - Len(s)]
    BY ConcatProperties
  <2>3. \A i \in 1..Len(s \o b) + Len(q) :
          k[i] = IF i <= Len(s \o b) THEN (s \o b)[i] ELSE q[i - Len(s \o b)]
    BY <1>1, ConcatProperties
  <2> HIDE DEF k
  <2> QED
    BY <1>2, <2>1, <2>2, <2>3
<1>5. Range(k) = Range(d) \cup Range(b)
  <2>1. Range(s \o b) = Range(s) \cup Range(b)
    BY RangeConcat, Zenon
  <2>2. Range(k) = Range(s \o b) \cup Range(q)
    BY <1>1, RangeConcat, Zenon
  <2>3. Range(d) = Range(s) \cup Range(q)
    BY RangeConcat, Zenon
  <2> HIDE DEF k, d
  <2> QED
    BY <2>1, <2>2, <2>3, Zenon
<1>6. \A i, j \in 1..Len(k) : i < j => k[i] < k[j]
  BY Zenon DEF Rising, Joint
<1> HIDE DEF k, d
<1> DEFINE at(i) == IF i <= Len(s) THEN i ELSE i + Len(b)
<1>7. ASSUME NEW i \in 1..Len(d)
      PROVE  at(i) \in 1..Len(k) /\ d[i] = k[at(i)]
  <2>1. CASE i <= Len(s)
    <3>1. at(i) = i /\ i \in 1..Len(k)
      BY <1>2, <2>1
    <3>2. d[i] = s[i] /\ k[i] = s[i]
      BY <1>3, <1>4, <2>1, <3>1
    <3> QED
      BY <3>1, <3>2
  <2>2. CASE ~(i <= Len(s))
    <3>1. /\ at(i) = i + Len(b) /\ i + Len(b) \in 1..Len(k)
          /\ ~(i + Len(b) <= Len(s)) /\ ~(i + Len(b) <= Len(s) + Len(b))
          /\ i + Len(b) - (Len(s) + Len(b)) = i - Len(s)
      BY <1>2, <2>2
    <3>2. d[i] = q[i - Len(s)] /\ k[i + Len(b)] = q[i + Len(b) - (Len(s) + Len(b))]
      BY <1>3, <1>4, <2>2, <3>1
    <3> QED
      BY <3>1, <3>2
  <2> QED
    BY <2>1, <2>2
<1>8. ASSUME NEW i \in 1..Len(b)
      PROVE  i + Len(s) \in 1..Len(k) /\ b[i] = k[i + Len(s)]
  <2>1. /\ i + Len(s) \in 1..Len(k) /\ ~(i + Len(s) <= Len(s))
        /\ i + Len(s) <= Len(s) + Len(b) /\ i + Len(s) - Len(s) = i
    BY <1>2
  <2> QED
    BY <1>4, <2>1
<1>9. Rising(d)
  <2>1. \A i, j \in 1..Len(d) : i < j => at(i) < at(j)
    BY <1>2
  <2> QED
    BY <1>6, <1>7, <2>1, Zenon DEF Rising
<1>10. Range(d) \cap Range(b) = {}
  <2> SUFFICES ASSUME NEW i \in 1..Len(d), NEW j \in 1..Len(b), d[i] = b[j]
               PROVE  FALSE
    BY <1>2 DEF Range
  <2>1. at(i) \in 1..Len(k) /\ j + Len(s) \in 1..Len(k) /\ k[at(i)] = k[j + Len(s)]
    BY <1>7, <1>8, Zenon
  <2>2. at(i) < j + Len(s) \/ j + Len(s) < at(i)
    BY <1>2
  <2> HIDE DEF at
  <2>3. k[at(i)] \in Nat
    BY <1>1, <2>1, ElementOfSeq, Zenon
  <2>4. k[at(i)] < k[j + Len(s)] \/ k[j + Len(s)] < k[at(i)]
    BY <1>6, <2>1, <2>2, Zenon
  <2> QED
    BY <2>1, <2>3, <2>4
<1>11. Joint(s, b, q) = k /\ Joint(s, <<>>, q) = d
  BY ConcatEmptySeq DEF Joint, k, d
<1> QED
  BY <1>5, <1>9, <1>10, <1>11

\* A new event is the last one, and greater than those before it.
LEMMA AddLast ==
  ASSUME NEW s \in Seq(Nat), NEW b \in Seq(Nat), NEW q \in Seq(Nat),
         NEW n \in Nat, NEW m \in Nat, m = n + 1, Rising(Joint(s, b, q)),
         Range(Joint(s, b, q)) \subseteq 1..n
  PROVE  /\ Rising(Joint(s, b, Append(q, m)))
         /\ Range(Joint(s, b, Append(q, m))) = Range(Joint(s, b, q)) \cup {m}
<1> USE DEF Joint
<1> DEFINE k == s \o b \o q
           e == <<m>>
<1>1. s \o b \in Seq(Nat) /\ k \in Seq(Nat) /\ e \in Seq(Nat)
  BY ConcatProperties
<1>2. s \o b \o Append(q, m) = k \o e
  <2>1. Append(q, m) = q \o e
    BY AppendIsConcat
  <2> HIDE DEF e
  <2>2. (s \o b) \o (q \o e) = ((s \o b) \o q) \o e
    BY <1>1, Joined, ZenonT(40)
  <2> QED
    BY <2>1, <2>2, Zenon
<1>3. Range(k \o e) = Range(k) \cup Range(e) /\ Range(e) = {m}
  <2>1. Range(e) = {m}
    BY DEF Range
  <2> QED
    BY <1>1, <2>1, RangeConcat, Zenon
<1>4. Rising(k \o e)
  <2>1. /\ Len(k \o e) = Len(k) + 1 /\ Len(k) \in Nat /\ DOMAIN k = 1..Len(k)
        /\ \A i \in 1..Len(k) + 1 : (k \o e)[i] = IF i <= Len(k) THEN k[i] ELSE m
    <3>1. Len(e) = 1 /\ e[1] = m
      OBVIOUS
    <3>2. /\ Len(k \o e) = Len(k) + Len(e)
          /\ \A i \in 1..Len(k) + Len(e) :
               (k \o e)[i] = IF i <= Len(k) THEN k[i] ELSE e[i - Len(k)]
      BY <1>1, ConcatProperties
    <3>3. Len(k) \in Nat /\ DOMAIN k = 1..Len(k)
      BY <1>1, LenProperties
    <3> HIDE DEF k, e
    <3>4. ASSUME NEW i \in 1..Len(k) + 1
          PROVE  (k \o e)[i] = IF i <= Len(k) THEN k[i] ELSE m
      <4>1. i \in 1..Len(k) + Len(e) /\ (~(i <= Len(k)) => i - Len(k) = 1)
        BY <3>1, <3>3
      <4> QED
        BY <3>1, <3>2, <4>1
    <3> QED
      BY <3>1, <3>2, <3>3, <3>4
  <2>2. \A i \in 1..Len(k) : k[i] \in 1..n
    BY <2>1, Zenon DEF Range
  <2>3. \A i, j \in 1..Len(k) : i < j => k[i] < k[j]
    BY Zenon DEF Rising
  <2> HIDE DEF k, e
  <2> QED
    BY <2>1, <2>2, <2>3 DEF Rising
<1> QED
  BY <1>2, <1>3, <1>4, Zenon
-----------------------------------------------------------------------------
(* The rounds of the worker                                                *)

\* start leaves the channel and the batch empty.
LEMMA RoundsInitial == Init => Rounds
  BY DEF Init, Rounds

\* Every step of the holders, of the owner and of the worker keeps it.  That the
\* end of the channel is final rests on try_record's refusal once the receiver
\* is closed, and on the clones of the recorder, which only become fewer.
LEMMA RoundsInductive == Rounds /\ [Next]_vars => Rounds'
<1> SUFFICES ASSUME Rounds, [Next]_vars PROVE Rounds'
  OBVIOUS
<1> USE DEF Rounds, is_closed
<1>1. CASE TryRecord
  <2>1. Append(queue, recorded + 1) \in Seq(Nat) /\ recorded + 1 \in Nat
    BY AppendProperties
  <2> QED
    BY <1>1, <2>1, Zenon DEF TryRecord, Gone
<1>2. CASE \E h \in recorders : DropRecorder(h)
  BY <1>2 DEF DropRecorder
<1>3. CASE Stop
  BY <1>3 DEF Stop
<1>4. CASE Detach
  BY <1>4 DEF Detach
<1>5. CASE StopReturns
  BY <1>5, Zenon DEF StopReturns, channel
<1>6. CASE Exit
  BY <1>6, EmptySeq, Zenon DEF Exit, channel
<1>7. CASE Receive
  <2>1. queue # <<>> => /\ <<Head(queue)>> \in Seq(Nat) /\ <<Head(queue)>> # <<>>
                        /\ Tail(queue) \in Seq(Nat)
    BY HeadTailProperties
  <2> QED
    BY <1>7, <2>1, Zenon DEF Receive, RecvFirst
<1>8. CASE Drain
  <2>1. queue # <<>> => /\ <<Head(queue)>> \in Seq(Nat) /\ <<Head(queue)>> # <<>>
                        /\ Tail(queue) \in Seq(Nat)
    BY HeadTailProperties
  <2> QED
    BY <1>8, <2>1, Zenon DEF Drain, RecvFirst
<1>9. CASE Shutdown
  BY <1>9 DEF Shutdown
<1>10. CASE Timer
  BY <1>10 DEF Timer, channel
<1>11. CASE Collect
  <2>1. queue # <<>> => /\ Append(events, Head(queue)) \in Seq(Nat)
                        /\ Append(events, Head(queue)) # <<>> /\ Tail(queue) \in Seq(Nat)
    BY HeadTailProperties, AppendProperties
  <2> QED
    BY <1>11, <2>1, Zenon DEF Collect
<1>12. CASE Write
  <2>1. stored \o events \in Seq(Nat) /\ Range(events) \subseteq Nat
    BY ConcatProperties, LenProperties DEF Range
  <2> QED
    BY <1>12, <2>1, Zenon DEF Write, channel
<1>13. CASE Check
  BY <1>13, EmptySeq DEF Check, channel
<1>14. CASE UNCHANGED vars
  BY <1>14 DEF vars, channel
<1> QED
  BY <1>1, <1>2, <1>3, <1>4, <1>5, <1>6, <1>7, <1>8, <1>9, <1>10, <1>11, <1>12, <1>13,
     <1>14, Zenon DEF Next, WorkerStep

\* Every behaviour of the worker keeps Rounds.
LEMMA RoundsInvariant == Spec => []Rounds
  BY RoundsInitial, RoundsInductive, PTL DEF Spec

\* A worker that ended because it was told to, or because no recorder is left,
\* has left nothing in the channel (run_store_worker_with_interval), for every
\* capacity and batch size.
THEOREM FlushedUnlessTimerAlways == Spec => []FlushedUnlessTimer
<1>1. Rounds => FlushedUnlessTimer
  BY DEF Rounds, FlushedUnlessTimer
<1> QED
  BY <1>1, RoundsInvariant, PTL
-----------------------------------------------------------------------------
(* The history                                                             *)

kept == Joint(stored, InHand, queue)

\* What HistoryExact says of the events kept and of those missed.
Exact(k, m, n) == Rising(k) /\ Range(k) \cap m = {} /\ Range(k) \cup m = 1..n

\* HistoryExact in terms of Exact.
LEMMA ExactDef == HistoryExact <=> Exact(kept, missed, recorded)
  BY DEF HistoryExact, Exact, Rising, kept, Joint

\* A step that keeps the events where they are, or moves them along, keeps the
\* history exact.
LEMMA ExactMoved ==
  ASSUME Exact(kept, missed, recorded), kept' = kept, missed' = missed, recorded' = recorded
  PROVE  Exact(kept, missed, recorded)'
  BY DEF Exact

\* No step stores an event twice, out of order, or loses one untold.
LEMMA ExactInductive ==
  Rounds /\ Exact(kept, missed, recorded) /\ [Next]_vars => Exact(kept, missed, recorded)'
<1> SUFFICES ASSUME Rounds, Exact(kept, missed, recorded), [Next]_vars
             PROVE  Exact(kept, missed, recorded)'
  OBVIOUS
<1> USE ExactMoved
<1>t. /\ queue \in Seq(Nat) /\ events \in Seq(Nat) /\ stored \in Seq(Nat) /\ InHand \in Seq(Nat)
      /\ recorded \in Nat
  BY EmptySeq DEF Rounds, InHand
<1>1. CASE TryRecord
  <2>1. InHand' = InHand /\ stored' = stored /\ recorded' = recorded + 1
    BY <1>1 DEF TryRecord, InHand
  <2>2. CASE queue' = queue /\ missed' = missed \cup {recorded + 1}
    <3>1. kept' = kept
      BY <2>1, <2>2 DEF kept
    <3>2. 1..(recorded + 1) = 1..recorded \cup {recorded + 1} /\ recorded + 1 \notin 1..recorded
      BY <1>t
    <3>3. Range(kept) \subseteq 1..recorded
      BY DEF Exact
    <3>4. /\ Range(kept) \cap (missed \cup {recorded + 1}) = {}
          /\ Range(kept) \cup (missed \cup {recorded + 1}) = 1..(recorded + 1)
      BY <3>2, <3>3 DEF Exact
    <3> QED
      BY <2>1, <2>2, <3>1, <3>4 DEF Exact
  <2>3. CASE queue' = Append(queue, recorded + 1) /\ missed' = missed
    <3>1. kept' = Joint(stored, InHand, Append(queue, recorded + 1))
      BY <2>1, <2>3 DEF kept
    <3>2. /\ Rising(Joint(stored, InHand, queue))
          /\ Range(Joint(stored, InHand, queue)) \subseteq 1..recorded
      BY DEF Exact, kept
    <3>3. Rising(kept') /\ Range(kept') = Range(kept) \cup {recorded + 1}
      <4>1. /\ Rising(Joint(stored, InHand, Append(queue, recorded + 1)))
            /\ Range(Joint(stored, InHand, Append(queue, recorded + 1)))
                 = Range(Joint(stored, InHand, queue)) \cup {recorded + 1}
        <5>1. PICK m \in Nat : m = recorded + 1
          BY <1>t
        <5>2. /\ Rising(Joint(stored, InHand, Append(queue, m)))
              /\ Range(Joint(stored, InHand, Append(queue, m)))
                   = Range(Joint(stored, InHand, queue)) \cup {m}
          BY <1>t, <3>2, <5>1, AddLast
        <5> QED
          BY <5>1, <5>2
      <4> QED
        BY <3>1, <4>1, Zenon DEF kept
    <3>4. 1..(recorded + 1) = 1..recorded \cup {recorded + 1} /\ recorded + 1 \notin 1..recorded
      BY <1>t
    <3>5. /\ (Range(kept) \cup {recorded + 1}) \cap missed = {}
          /\ (Range(kept) \cup {recorded + 1}) \cup missed = 1..(recorded + 1)
      BY <3>4 DEF Exact
    <3> QED
      BY <2>1, <2>3, <3>3, <3>5, Zenon DEF Exact
  <2> QED
    BY <1>1, <2>2, <2>3 DEF TryRecord
<1>2. CASE \E h \in recorders : DropRecorder(h)
  BY <1>2 DEF DropRecorder, kept, InHand
<1>3. CASE Stop
  BY <1>3 DEF Stop, kept, InHand
<1>4. CASE Detach
  BY <1>4 DEF Detach, kept, InHand
<1>5. CASE StopReturns
  BY <1>5, Zenon DEF StopReturns, channel, kept, InHand
<1>6. CASE Exit
  BY <1>6, Zenon DEF Exit, channel, kept, InHand
<1>7. CASE (Receive \/ Drain) /\ queue # <<>>
  <2>1. InHand' = Append(InHand, Head(queue)) /\ queue' = Tail(queue)
    <3>1. InHand = <<>> /\ InHand' = <<Head(queue)>> /\ queue' = Tail(queue)
      BY <1>7, Zenon DEF Receive, Drain, RecvFirst, InHand, Rounds
    <3>2. Append(<<>>, Head(queue)) = <<Head(queue)>>
      OBVIOUS
    <3> QED
      BY <3>1, <3>2, Zenon
  <2>2. stored' = stored /\ missed' = missed /\ recorded' = recorded
    BY <1>7 DEF Receive, Drain
  <2>3. Joint(stored, Append(InHand, Head(queue)), Tail(queue)) = Joint(stored, InHand, queue)
    BY <1>t, <1>7, MoveHead
  <2>4. kept' = kept
    BY <2>1, <2>2, <2>3 DEF kept
  <2> QED
    BY <2>2, <2>4
<1>8. CASE (Receive \/ Drain) /\ queue = <<>>
  <2>1. InHand = <<>> /\ InHand' = <<>> /\ queue' = queue
    BY <1>8 DEF Receive, Drain, RecvFirst, InHand, Rounds
  <2> QED
    BY <1>8, <2>1 DEF Receive, Drain, kept
<1>9. CASE Shutdown
  BY <1>9 DEF Shutdown, kept, InHand
<1>10. CASE Timer
  BY <1>10 DEF Timer, channel, kept, InHand, Rounds
<1>11. CASE Collect
  <2>1. InHand = events /\ InHand' = events'
    BY <1>11 DEF Collect, InHand
  <2>2. stored' = stored /\ missed' = missed /\ recorded' = recorded
    BY <1>11 DEF Collect
  <2>3. CASE queue # <<>> /\ events' = Append(events, Head(queue)) /\ queue' = Tail(queue)
    <3>1. Joint(stored, Append(events, Head(queue)), Tail(queue)) = Joint(stored, events, queue)
      BY <1>t, <2>3, MoveHead
    <3>2. kept' = kept
      BY <2>1, <2>2, <2>3, <3>1 DEF kept
    <3> QED
      BY <2>2, <3>2
  <2>4. CASE events' = events /\ queue' = queue
    BY <2>1, <2>2, <2>4 DEF kept
  <2> QED
    BY <1>11, <2>3, <2>4 DEF Collect
<1>12. CASE Write
  <2>1. InHand = events /\ InHand' = <<>> /\ queue' = queue /\ recorded' = recorded
    BY <1>12 DEF Write, InHand, channel
  <2>2. CASE stored' = stored \o events /\ missed' = missed
    <3>1. (stored \o events) \o <<>> = stored \o events
      BY <1>t, ConcatProperties, ConcatEmptySeq
    <3>2. kept' = kept
      BY <2>1, <2>2, <3>1, Zenon DEF kept, Joint
    <3> QED
      BY <2>1, <2>2, <3>2
  <2>3. CASE stored' = stored /\ missed' = missed \cup Range(events)
    <3>1. kept = Joint(stored, events, queue) /\ kept' = Joint(stored, <<>>, queue)
      BY <2>1, <2>3 DEF kept
    <3>2. Rising(Joint(stored, events, queue))
      BY <3>1 DEF Exact
    <3>3. /\ Rising(kept') /\ Range(kept) = Range(kept') \cup Range(events)
          /\ Range(kept') \cap Range(events) = {}
      BY <1>t, <3>1, <3>2, DropMiddle, Zenon
    <3>4. /\ Range(kept') \cap (missed \cup Range(events)) = {}
          /\ Range(kept') \cup (missed \cup Range(events)) = 1..recorded
      BY <3>3 DEF Exact
    <3> QED
      BY <2>1, <2>3, <3>3, <3>4 DEF Exact
  <2> QED
    BY <1>12, <2>2, <2>3 DEF Write
<1>13. CASE Check
  <2>1. InHand = <<>> /\ InHand' = <<>>
    BY <1>13 DEF Check, InHand
  <2> QED
    BY <1>13, <2>1 DEF Check, channel, kept
<1>14. CASE UNCHANGED vars
  BY <1>14 DEF vars, channel, kept, InHand
<1> QED
  BY <1>1, <1>2, <1>3, <1>4, <1>5, <1>6, <1>7, <1>8, <1>9, <1>10, <1>11, <1>12, <1>13,
     <1>14, Zenon DEF Next, WorkerStep

\* The history is exact whatever the capacity, the batch size and the number of
\* recorders: no event is stored twice or out of order, and every event is in
\* the database, on its way there, or was refused (try_record, insert_events).
THEOREM HistoryExactAlways == Spec => []HistoryExact
<1>1. Init => Exact(kept, missed, recorded)
  <2> SUFFICES ASSUME Init PROVE Exact(kept, missed, recorded)
    OBVIOUS
  <2>1. InHand = <<>> /\ stored = <<>> /\ queue = <<>> /\ missed = {} /\ recorded = 0
    BY DEF Init, InHand
  <2>2. kept = <<>>
    BY <2>1, EmptySeq, ConcatEmptySeq DEF kept, Joint
  <2>3. Len(<<>>) = 0 /\ Range(<<>>) = {} /\ 1..0 = {}
    BY DEF Range
  <2> QED
    BY <2>1, <2>2, <2>3 DEF Exact, Rising
<1>2. Spec => []Exact(kept, missed, recorded)
  BY <1>1, ExactInductive, RoundsInvariant, PTL DEF Spec
<1> QED
  BY <1>2, ExactDef, PTL
-----------------------------------------------------------------------------
(* The process around the worker                                           *)

\* What run_until's order keeps true: it stops the worker only once the DNS
\* service is over, and that is over in order only without handlers; until the
\* owner stops or leaves it, its own recorder keeps the channel open and the
\* worker from ending.
RuntimeInv ==
  /\ handler \in [Handlers -> {"none", "handling", "replying"}]
  /\ phase \in {"serving", "closing"} => owner = "running"
  /\ phase \notin {"serving", "closing"} => dns \in {"ended", "dropped"}
  /\ dns = "ended" => Idle
  /\ owner = "running" => /\ shutdown = "held" /\ ~closed /\ Owner \in recorders
                          /\ worker = "stopped" => woke = "event"
  /\ worker = "killed" => owner = "gave up"
  /\ NothingTurnedAway

\* build_runtime's worker and services.
LEMMA RuntimeInitial == RuntimeInit => RuntimeInv
BY StoreWorkerAssumption DEF RuntimeInit, Init, RuntimeInv, Idle, NothingTurnedAway

\* Every step of the process.  The one that could turn an event away is a
\* handler's record: while a handler runs and the service has not been dropped,
\* nobody has told the worker to stop.
LEMMA RuntimeInductive == RuntimeInv /\ [RuntimeNext]_allVars => RuntimeInv'
<1> SUFFICES ASSUME RuntimeInv, [RuntimeNext]_allVars PROVE RuntimeInv'
  OBVIOUS
<1> USE DEF RuntimeInv, NothingTurnedAway, NeverRan, workerVars, vars, channel
<1>1. ASSUME NEW h \in Handlers, Packet(h) PROVE RuntimeInv'
  BY <1>1, Zenon DEF Packet, Polled, Idle
<1>2. ASSUME NEW h \in Handlers, Handle(h) PROVE RuntimeInv'
  <2>1. /\ handler[h] = "handling" /\ TryRecord
        /\ handler' = [handler EXCEPT ![h] = "replying"]
        /\ turned' = IF closed \/ Gone THEN turned \cup {recorded'} ELSE turned
        /\ UNCHANGED <<phase, dns>>
    BY <1>2, Zenon DEF Handle
  <2>2. UNCHANGED <<recorders, closed, shutdown, worker, woke, owner>>
    BY <2>1, Zenon DEF TryRecord
  <2>3. dns # "ended"
    BY <2>1, Zenon DEF Idle
  <2>4. dns = "dropped" \/ ~(closed \/ Gone) \/ NeverRan
    BY <2>3, Zenon DEF Gone
  <2> QED
    BY <2>1, <2>2, <2>3, <2>4, Zenon DEF Idle
<1>3. ASSUME NEW h \in Handlers, End(h) PROVE RuntimeInv'
  BY <1>3, Zenon DEF End, Idle
<1>4. CASE DropPipeline
  <2>1. Pipeline # Owner
    BY StoreWorkerAssumption, RuntimeAssumption, Zenon
  <2> QED
    BY <1>4, <2>1, Zenon DEF DropPipeline, DropRecorder, serviceVars, Idle
<1>5. CASE DnsStops
  BY <1>5, Zenon DEF DnsStops, Idle, Polled
<1>6. CASE HttpEnds
  BY <1>6, Zenon DEF HttpEnds, Idle
<1>7. CASE First
  BY <1>7 DEF First, Idle
<1>8. CASE DnsEnds
  BY <1>8, Zenon DEF DnsEnds, Idle
<1>9. CASE DnsAborts
  BY <1>9, Zenon DEF DnsAborts, Idle, Polled
<1>10. CASE Closed
  BY <1>10 DEF Closed, Idle
<1>11. CASE ClosingTimesOut
  BY <1>11 DEF ClosingTimesOut, Idle
<1>12. CASE Tick
  BY <1>12, Zenon DEF Tick, Idle
<1>13. CASE StopWorker
  BY <1>13 DEF StopWorker, Stop, serviceVars, Idle
<1>14. CASE Return
  BY <1>14, Zenon DEF Return, StopReturns, Idle
<1>15. CASE Abandon
  BY <1>15 DEF Abandon, Detach, Idle
<1>16. CASE Killed
  BY <1>16, Zenon DEF Killed, Exit, Gone, serviceVars, Idle
<1>17. CASE WorkerStep /\ UNCHANGED serviceVars
  <2>1. UNCHANGED <<phase, dns, handler, turned>>
    BY <1>17, Zenon DEF serviceVars
  <2>2. CASE Receive \/ Drain
    <3>1. /\ worker \notin {"stopped", "killed"} /\ worker' \notin {"stopped", "killed"}
          /\ UNCHANGED <<owner, shutdown, closed, recorders>>
      BY <2>2, Zenon DEF Receive, Drain, RecvFirst
    <3> QED
      BY <2>1, <3>1, Zenon DEF Idle
  <2>3. CASE Shutdown
    BY <2>1, <2>3 DEF Shutdown, Idle
  <2>4. CASE Timer \/ Collect \/ Write
    <3>1. /\ worker \notin {"stopped", "killed"} /\ worker' \notin {"stopped", "killed"}
          /\ UNCHANGED <<owner, shutdown, closed, recorders>>
      BY <2>4, Zenon DEF Timer, Collect, Write
    <3> QED
      BY <2>1, <3>1, Zenon DEF Idle
  <2>5. CASE Check
    BY <2>1, <2>5 DEF Check, is_closed, Idle
  <2> QED
    BY <1>17, <2>2, <2>3, <2>4, <2>5, Zenon DEF WorkerStep
<1>18. CASE UNCHANGED allVars
  BY <1>18, Zenon DEF allVars, serviceVars, Idle
<1> QED
  BY <1>1, <1>2, <1>3, <1>4, <1>5, <1>6, <1>7, <1>8, <1>9, <1>10, <1>11, <1>12, <1>13,
     <1>14, <1>15, <1>16, <1>17, <1>18, Zenon DEF RuntimeNext, ServiceStep

\* The order in which run_until ends things, for every behaviour of the process.
THEOREM RuntimeInvariant == RuntimeSpec => []RuntimeInv
BY RuntimeInitial, RuntimeInductive, PTL DEF RuntimeSpec

\* No event is refused by a closed history while a handler that was not dropped
\* with its service can still record one, for any number of handlers and any
\* timeouts (run_until, run_udp_socket_until).
THEOREM NothingTurnedAwayAlways == RuntimeSpec => []NothingTurnedAway
<1>1. RuntimeInv => NothingTurnedAway
  BY Zenon DEF RuntimeInv
<1> QED
  BY <1>1, RuntimeInvariant, PTL

\* The process drives the worker as StoreWorker says: handlers record, the
\* pipeline and run_until drop their recorders, run_until stops the worker or
\* leaves it.
THEOREM RuntimeRunsWorker == RuntimeSpec => Spec
<1>1. RuntimeInit => Init
  BY DEF RuntimeInit
<1>2. [RuntimeNext]_allVars => [Next]_vars
  <2> SUFFICES ASSUME [RuntimeNext]_allVars PROVE [Next]_vars
    OBVIOUS
  <2>1. ASSUME UNCHANGED workerVars PROVE [Next]_vars
    BY <2>1 DEF workerVars
  <2>2. ASSUME NEW h \in Handlers, Packet(h) \/ End(h) PROVE UNCHANGED workerVars
    BY <2>2 DEF Packet, End
  <2>3. ASSUME NEW h \in Handlers, Handle(h) PROVE Next
    BY <2>3 DEF Handle, Next
  <2>4. ASSUME DropPipeline PROVE Next
    BY <2>4 DEF DropPipeline, DropRecorder, Next
  <2>5. ASSUME DnsStops \/ HttpEnds \/ First \/ ServiceStep PROVE UNCHANGED workerVars
    BY <2>5 DEF DnsStops, HttpEnds, First, ServiceStep, DnsEnds, DnsAborts, Closed,
                ClosingTimesOut, Tick
  <2>6. ASSUME StopWorker \/ Return \/ Abandon \/ Killed PROVE Next
    BY <2>6 DEF StopWorker, Return, Abandon, Killed, Next
  <2>7. ASSUME UNCHANGED allVars PROVE UNCHANGED workerVars
    BY <2>7 DEF allVars
  <2>8. ASSUME WorkerStep PROVE Next
    BY <2>8 DEF Next
  <2> QED
    BY <2>1, <2>2, <2>3, <2>4, <2>5, <2>6, <2>7, <2>8, Zenon DEF RuntimeNext
<1> QED
  BY <1>1, <1>2, PTL DEF RuntimeSpec, Spec

\* So the history is exact, and flushed by a worker that was told to stop, in
\* every behaviour of the process.
THEOREM RuntimeHistory == RuntimeSpec => [](HistoryExact /\ FlushedUnlessTimer)
BY RuntimeRunsWorker, HistoryExactAlways, FlushedUnlessTimerAlways, PTL
-----------------------------------------------------------------------------
(* The start: numbers and finite sets                                      *)

\* A nonempty set of natural numbers has a least one (the order of a
\* BTreeSet, bootstrap.rs).
LEMMA LeastNumber ==
  ASSUME NEW T \in SUBSET Nat, T # {}
  PROVE  \E n \in T : \A m \in T : n <= m
<1>1. PICK n \in T : \A m \in T : ~(<<m, n>> \in OpToRel(<, Nat))
  BY NatLessThanWellFounded, WFMin, Zenon
<1>2. ASSUME NEW m \in T PROVE n <= m
  <2>1. m \in Nat /\ n \in Nat
    OBVIOUS
  <2>2. ~(m < n)
    BY <1>1, <2>1, Zenon DEF OpToRel
  <2> QED
    BY <2>1, <2>2
<1> QED
  BY <1>2

\* A set with 0 and with every successor, up to a bound, of what it has.
LEMMA Steps ==
  ASSUME NEW n \in Nat, NEW T, 0 \in T,
         \A k \in 0..(n - 1) : k \in T => k + 1 \in T
  PROVE  0..n \subseteq T
<1> SUFFICES ASSUME (0..n) \ T # {} PROVE FALSE
  OBVIOUS
<1>1. PICK k \in (0..n) \ T : \A m \in (0..n) \ T : k <= m
  <2>1. (0..n) \ T \in SUBSET Nat
    OBVIOUS
  <2> QED
    BY <2>1, LeastNumber, Zenon
<1>2. k # 0 /\ k \in 0..n
  OBVIOUS
<1>3. k - 1 \in 0..(n - 1) /\ k - 1 \in 0..n /\ ~(k <= k - 1)
  BY <1>2
<1>4. k - 1 \in T
  BY <1>1, <1>3
<1>5. (k - 1) + 1 = k
  BY <1>2
<1> QED
  BY <1>1, <1>3, <1>4, <1>5

\* What holds of a finite set as soon as it holds of the set without any one of
\* its elements holds of every subset: the form of every induction over the
\* addresses of a name.
LEMMA SubsetInduction ==
  ASSUME NEW S, IsFiniteSet(S), NEW T,
         \A s \in SUBSET S : (\A x \in s : s \ {x} \in T) => s \in T
  PROVE  SUBSET S \subseteq T
<1> DEFINE bad == {s \in SUBSET S : s \notin T}
           sizes == {Cardinality(s) : s \in bad}
<1> SUFFICES ASSUME bad # {} PROVE FALSE
  OBVIOUS
<1>1. ASSUME NEW s \in SUBSET S PROVE IsFiniteSet(s) /\ Cardinality(s) \in Nat
  BY FS_Subset, FS_CardinalityType, Zenon
<1>2. sizes \in SUBSET Nat /\ sizes # {}
  BY <1>1
<1>3. PICK n \in sizes : \A k \in sizes : n <= k
  <2> HIDE DEF sizes
  <2> QED
    BY <1>2, LeastNumber, Zenon
<1>4. PICK s \in bad : Cardinality(s) = n
  OBVIOUS
<1>5. PICK x \in s : s \ {x} \notin T
  BY <1>4, Zenon
<1>6. s \ {x} \in bad
  BY <1>5
<1>7. Cardinality(s \ {x}) = Cardinality(s) - 1
  <2>1. IsFiniteSet(s)
    BY <1>1
  <2> QED
    BY <2>1, <1>5, FS_RemoveElement, Zenon
<1>8. Cardinality(s \ {x}) \in sizes
  BY <1>6
<1>9. Cardinality(s) \in Nat
  BY <1>1
<1>10. n <= Cardinality(s \ {x})
  BY <1>3, <1>8, Zenon
<1> QED
  BY <1>4, <1>7, <1>9, <1>10
-----------------------------------------------------------------------------
(* Lists of addresses                                                      *)

Addresses == V4 \cup V6
Types == {"A", "AAAA", "HTTPS"}
Echs == {"none", "good", "unusable", "undecodable"}
Names == [kind : {"plain", "dot", "doh"}, url : STRING, at : Seq(Addresses)]
Member == [name : Names, ips : Seq(Addresses), ech : Echs]
Metric == [group : {"primary", "fallback"}, id : {"primary", "fallback"} \X Nat,
           name : Names, ips : Seq(Addresses), ech : Echs]

\* Addresses to be dialled: the preferred family first.
Dialled(s, prefer_ipv6) ==
  /\ s \in Seq(Addresses) /\ s # <<>>
  /\ \A k, l \in DOMAIN s : (s[k] \in V6) = prefer_ipv6 /\ (s[l] \in V6) # prefer_ipv6 => k < l

\* The recursion of Only, as a function of its own.
KeptOf(f, family, s) ==
  f = [n \in 0..Len(s) |->
         IF n = 0 THEN <<>>
         ELSE IF s[n] \in family THEN Append(f[n - 1], s[n]) ELSE f[n - 1]]
Kept(family, s) == CHOOSE f : KeptOf(f, family, s)

\* The recursion over a list is well defined (sort_by_family).
LEMMA KeptExists ==
  ASSUME NEW family, NEW S, NEW s \in Seq(S)
  PROVE  \E f : KeptOf(f, family, s)
<1> DEFINE n == Len(s)
           Rec(f, i) == IF i = 0 THEN <<>>
                        ELSE IF s[i] \in family THEN Append(f[i - 1], s[i]) ELSE f[i - 1]
           OK(f, k) == f = [i \in 0..k |-> Rec(f, i)]
           T == {k \in 0..n : \E f : OK(f, k)}
<1>1. n \in Nat
  OBVIOUS
<1>2. 0 \in T
  <2> DEFINE g == [i \in 0..0 |-> <<>>]
  <2>1. \A i \in 0..0 : i = 0
    OBVIOUS
  <2>2. \A i \in 0..0 : Rec(g, i) = <<>>
    BY <2>1
  <2>3. OK(g, 0)
    BY <2>2, Zenon
  <2>4. 0 \in 0..n
    BY <1>1
  <2> HIDE DEF g, OK
  <2> QED
    BY <2>3, <2>4
<1>3. ASSUME NEW k \in 0..(n - 1), k \in T PROVE k + 1 \in T
  <2>1. PICK f : OK(f, k)
    BY <1>3, Zenon
  <2> DEFINE g == [i \in 0..(k + 1) |-> Rec(f, i)]
  <2>2. k \in Nat /\ k + 1 \in 0..n
    BY <1>1
  <2>3. \A i \in 0..k : i \in 0..(k + 1)
    BY <2>2
  <2>4. ASSUME NEW i \in 0..k PROVE g[i] = f[i]
    <3>1. g[i] = Rec(f, i)
      BY <2>3, Zenon
    <3>2. f[i] = Rec(f, i)
      BY <2>1, Zenon
    <3> QED
      BY <3>1, <3>2, Zenon
  <2>5. ASSUME NEW i \in 0..(k + 1) PROVE Rec(f, i) = Rec(g, i)
    <3>1. CASE i = 0
      BY <3>1
    <3>2. CASE i # 0
      <4>1. i - 1 \in 0..k
        BY <2>2, <3>2
      <4>2. g[i - 1] = f[i - 1]
        BY <2>4, <4>1, Zenon
      <4> HIDE DEF g
      <4> QED
        BY <4>2, Zenon
    <3> QED
      BY <3>1, <3>2
  <2>6. OK(g, k + 1)
    BY <2>5, Zenon
  <2> HIDE DEF g, OK
  <2> QED
    BY <2>2, <2>6
<1>4. n \in T
  <2> HIDE DEF T, n
  <2>1. 0..n \subseteq T
    BY <1>1, <1>2, <1>3, Steps, Zenon
  <2> QED
    BY <1>1, <2>1
<1> QED
  BY <1>4, Zenon DEF KeptOf

\* An address joins those of its family (sort_by_family).
LEMMA AppendKeeps ==
  ASSUME NEW S, NEW q \in Seq(S), NEW x \in S, NEW r, r = Append(q, x)
  PROVE  r \in Seq(S) /\ r # <<>>
BY AppendProperties

\* r is q and one more, x, of S.
OneLonger(r, q, x, S) ==
  /\ r \in Seq(S) /\ Len(r) = Len(q) + 1
  /\ \A i \in DOMAIN r : (i \in DOMAIN q /\ r[i] = q[i]) \/ (i = Len(q) + 1 /\ r[i] = x)

\* A member joins those of its group, which stay where they are (build_group).
LEMMA MemberJoins ==
  ASSUME NEW S, NEW q \in Seq(S), NEW x \in S, NEW r, r = Append(q, x)
  PROVE  OneLonger(r, q, x, S)
BY AppendProperties DEF OneLonger

\* Members are counted from one (build_group).
LEMMA IndexFacts ==
  ASSUME NEW S, NEW q \in Seq(S)
  PROVE  \A i \in DOMAIN q : i \in Nat /\ i >= 1 /\ q[i] \in S
OBVIOUS

\* A group without members.
LEMMA NoMembers ==
  ASSUME NEW S
  PROVE  <<>> \in Seq(S) /\ DOMAIN <<>> = {} /\ Len(<<>>) = 0
OBVIOUS

\* The first group is placed from the start (build_pipeline).
LEMMA FirstPlaces ==
  ASSUME NEW u \in Nat, NEW k \in Nat, NEW n, NEW r, NEW i, n = 0, r = u, i \in 1..(n + r)
  PROVE  i \in 1..(u + k) /\ i - n = i
OBVIOUS

\* There is room for one more member while some entry has none (build_group).
LEMMA OneMore ==
  ASSUME NEW k \in Nat, NEW n \in Nat, k < n
  PROVE  k + 1 <= n
OBVIOUS

\* What is kept of a list are addresses of the family, and nothing is kept only if
\* there are none (sort_by_family).
LEMMA OnlyFacts ==
  ASSUME NEW family, NEW S, NEW s \in Seq(S)
  PROVE  /\ Only(family, s) \in Seq(family)
         /\ Only(family, s) = <<>> => \A i \in DOMAIN s : s[i] \notin family
<1> DEFINE n == Len(s)
           f == Kept(family, s)
           T == {k \in 0..n : /\ f[k] \in Seq(family)
                              /\ f[k] = <<>> => \A i \in 1..k : s[i] \notin family}
<1>1. n \in Nat /\ DOMAIN s = 1..n
  OBVIOUS
<1>2. Only(family, s) = f[n]
  BY Zenon DEF Only, Kept, KeptOf
<1>3. KeptOf(f, family, s)
  BY KeptExists, Zenon DEF Kept
<1>4. ASSUME NEW k \in 0..n
      PROVE  f[k] = IF k = 0 THEN <<>>
                    ELSE IF s[k] \in family THEN Append(f[k - 1], s[k]) ELSE f[k - 1]
  BY <1>3, Zenon DEF KeptOf
<1> HIDE DEF f
<1>5. 0 \in T
  <2>1. 0 \in 0..n /\ 1..0 = {}
    BY <1>1
  <2>2. f[0] = <<>>
    BY <1>4, <2>1
  <2>3. f[0] \in Seq(family) /\ \A i \in 1..0 : s[i] \notin family
    BY <2>1, <2>2
  <2> QED
    BY <2>1, <2>3, Zenon
<1>6. ASSUME NEW k \in 0..(n - 1), k \in T PROVE k + 1 \in T
  <2>1. k + 1 \in 0..n /\ k + 1 # 0 /\ (k + 1) - 1 = k /\ 1..(k + 1) = (1..k) \cup {k + 1}
    BY <1>1
  <2>2. f[k + 1] = IF s[k + 1] \in family THEN Append(f[k], s[k + 1]) ELSE f[k]
    BY <1>4, <2>1
  <2>3. f[k] \in Seq(family) /\ (f[k] = <<>> => \A i \in 1..k : s[i] \notin family)
    BY <1>6, Zenon
  <2>4. CASE s[k + 1] \in family
    <3>0. f[k + 1] = Append(f[k], s[k + 1])
      BY <2>2, <2>4, Zenon
    <3>1. f[k + 1] \in Seq(family) /\ f[k + 1] # <<>>
      BY <2>3, <2>4, <3>0, AppendKeeps, Zenon
    <3> QED
      BY <2>1, <3>1, Zenon
  <2>5. CASE s[k + 1] \notin family
    BY <2>1, <2>2, <2>3, <2>5
  <2> QED
    BY <2>4, <2>5
<1>7. n \in T
  <2> HIDE DEF T, n
  <2>1. 0..n \subseteq T
    BY <1>1, <1>5, <1>6, Steps, Zenon
  <2> QED
    BY <1>1, <2>1
<1> QED
  BY <1>1, <1>2, <1>7, Zenon

\* One list after the other.
LEMMA AfterEachOther ==
  ASSUME NEW A, NEW B, NEW s \in Seq(A), NEW t \in Seq(B)
  PROVE  /\ s \o t \in Seq(A \cup B)
         /\ s \o t = <<>> => s = <<>> /\ t = <<>>
         /\ \A i \in DOMAIN (s \o t) :
              IF i <= Len(s) THEN (s \o t)[i] \in A ELSE (s \o t)[i] \in B
         /\ \A i \in DOMAIN (s \o t) : i \in Nat
<1>1. s \in Seq(A \cup B) /\ t \in Seq(A \cup B)
  OBVIOUS
<1>2. /\ s \o t \in Seq(A \cup B) /\ Len(s \o t) = Len(s) + Len(t)
      /\ \A i \in 1..(Len(s) + Len(t)) :
           (s \o t)[i] = IF i <= Len(s) THEN s[i] ELSE t[i - Len(s)]
  BY <1>1, ConcatProperties, Zenon
<1>3. Len(s) \in Nat /\ Len(t) \in Nat /\ DOMAIN (s \o t) = 1..(Len(s) + Len(t))
  BY <1>2
<1>4. ASSUME NEW i \in DOMAIN (s \o t)
      PROVE  i \in Nat /\ IF i <= Len(s) THEN (s \o t)[i] \in A ELSE (s \o t)[i] \in B
  <2>1. CASE i <= Len(s)
    <3>1. i \in 1..Len(s) /\ (s \o t)[i] = s[i]
      BY <1>2, <1>3, <2>1
    <3> QED
      BY <2>1, <3>1
  <2>2. CASE ~(i <= Len(s))
    <3>1. i - Len(s) \in 1..Len(t) /\ (s \o t)[i] = t[i - Len(s)] /\ i \in Nat
      BY <1>2, <1>3, <2>2
    <3> QED
      BY <2>2, <3>1
  <2> QED
    BY <2>1, <2>2, Zenon
<1>5. s \o t = <<>> => s = <<>> /\ t = <<>>
  BY <1>2, <1>3
<1> QED
  BY <1>2, <1>4, <1>5, Zenon

\* The preferred family comes first, and nothing becomes no list
\* (sort_by_family).
LEMMA SortFacts ==
  ASSUME NEW s \in Seq(Addresses), s # <<>>, NEW p \in BOOLEAN
  PROVE  Dialled(sort_by_family(s, p), p)
<1> DEFINE a == IF p THEN V6 ELSE V4
           b == IF p THEN V4 ELSE V6
           u == Only(a, s)
           v == Only(b, s)
           r == u \o v
<1>1. sort_by_family(s, p) = r
  BY DEF sort_by_family
<1>2. \A x \in V4 : x \notin V6
  BY BootstrapAssumption
<1>3. a \cup b = Addresses
  BY DEF Addresses
<1> HIDE DEF a, b
<1>4. /\ u \in Seq(a) /\ (u = <<>> => \A i \in DOMAIN s : s[i] \notin a)
      /\ v \in Seq(b) /\ (v = <<>> => \A i \in DOMAIN s : s[i] \notin b)
  BY OnlyFacts, Zenon
<1> HIDE DEF u, v
<1>5. /\ r \in Seq(a \cup b) /\ (r = <<>> => u = <<>> /\ v = <<>>)
      /\ \A i \in DOMAIN r : i \in Nat /\ IF i <= Len(u) THEN r[i] \in a ELSE r[i] \in b
  BY <1>4, AfterEachOther, Zenon
<1>6. r # <<>>
  <2>1. 1 \in DOMAIN s /\ s[1] \in Addresses
    BY EmptySeq, LenProperties
  <2> HIDE DEF r
  <2> QED
    BY <1>3, <1>4, <1>5, <2>1, Zenon
<1>7. ASSUME NEW k \in DOMAIN r, NEW l \in DOMAIN r, (r[k] \in V6) = p, (r[l] \in V6) # p
      PROVE  k < l
  <2>1. r[k] \notin b
    BY <1>2, <1>7 DEF b
  <2>2. r[l] \notin a
    BY <1>2, <1>7 DEF a
  <2>3. k <= Len(u) /\ ~(l <= Len(u)) /\ k \in Nat /\ l \in Nat
    BY <1>5, <2>1, <2>2, Zenon
  <2>4. Len(u) \in Nat
    BY <1>4
  <2> QED
    BY <2>3, <2>4
<1> HIDE DEF r
<1> QED
  BY <1>1, <1>3, <1>5, <1>6, <1>7, Zenon DEF Dialled

\* One address is kept, or none (sort_by_family).
LEMMA OneKept ==
  ASSUME NEW family, NEW a
  PROVE  Only(family, <<a>>) = IF a \in family THEN <<a>> ELSE <<>>
<1> DEFINE s == <<a>>
           f == Kept(family, s)
<1>1. s \in Seq({a}) /\ Len(s) = 1 /\ s[1] = a /\ 0 \in 0..1 /\ 1 \in 0..1 /\ 1 - 1 = 0 /\ 1 # 0
  OBVIOUS
<1>2. Only(family, s) = f[Len(s)]
  BY Zenon DEF Only, Kept, KeptOf
<1> HIDE DEF s
<1>3. KeptOf(f, family, s)
  BY <1>1, KeptExists, Zenon DEF Kept
<1> HIDE DEF f
<1>4. ASSUME NEW k \in 0..1
      PROVE  f[k] = IF k = 0 THEN <<>>
                    ELSE IF s[k] \in family THEN Append(f[k - 1], s[k]) ELSE f[k - 1]
  BY <1>1, <1>3, Zenon DEF KeptOf
<1>5. f[0] = <<>>
  BY <1>1, <1>4, Zenon
<1>6. f[1] = IF a \in family THEN Append(<<>>, a) ELSE <<>>
  BY <1>1, <1>4, <1>5, Zenon
<1>7. Append(<<>>, a) = <<a>>
  OBVIOUS
<1> QED
  BY <1>1, <1>2, <1>6, <1>7, Zenon DEF s

\* A list of one address is sorted (sort_by_family).
LEMMA OneSorted ==
  ASSUME NEW a \in Addresses, NEW p \in BOOLEAN
  PROVE  sort_by_family(<<a>>, p) = <<a>>
<1>1. a \in V4 \/ a \in V6
  BY DEF Addresses
<1>2. ~(a \in V4 /\ a \in V6)
  BY BootstrapAssumption
<1>3. <<>> \o <<a>> = <<a>> /\ <<a>> \o <<>> = <<a>>
  OBVIOUS
<1>4. Only(V4, <<a>>) = IF a \in V4 THEN <<a>> ELSE <<>>
  BY OneKept, Zenon
<1>5. Only(V6, <<a>>) = IF a \in V6 THEN <<a>> ELSE <<>>
  BY OneKept, Zenon
<1> QED
  BY <1>1, <1>2, <1>3, <1>4, <1>5, Zenon DEF sort_by_family

Rises(a) == \A i, j \in DOMAIN a : i < j => a[i] < a[j]

\* A finite set of numbers has an order (BTreeSet).
LEMMA AscendingFacts ==
  ASSUME NEW S \in SUBSET Nat, IsFiniteSet(S)
  PROVE  Ascending(S) \in Seq(S) /\ (S # {} => Ascending(S) # <<>>)
<1> DEFINE T == {s \in SUBSET S : \E a \in [1..Cardinality(s) -> s] : Rises(a)}
<1>1. ASSUME NEW s \in SUBSET S PROVE IsFiniteSet(s) /\ Cardinality(s) \in Nat
  BY FS_Subset, FS_CardinalityType, Zenon
<1>2. ASSUME NEW s \in SUBSET S, \A x \in s : s \ {x} \in T
      PROVE  s \in T
  <2>1. CASE s = {}
    <3>1. Cardinality(s) = 0
      BY <2>1, FS_EmptySet, Zenon
    <3> DEFINE a == [i \in 1..0 |-> i]
    <3>2. 1..0 = {}
      OBVIOUS
    <3>3. a \in [1..Cardinality(s) -> s] /\ Rises(a)
      BY <2>1, <3>1, <3>2 DEF Rises
    <3> HIDE DEF a
    <3> QED
      BY <3>3
  <2>2. CASE s # {}
    <3>1. PICK x \in s : \A y \in s : x <= y
      <4>1. s \in SUBSET Nat
        OBVIOUS
      <4> QED
        BY <2>2, <4>1, LeastNumber, Zenon
    <3> DEFINE r == s \ {x}
               n == Cardinality(r)
    <3>2. Cardinality(r) = Cardinality(s) - 1 /\ Cardinality(r) \in Nat /\ Cardinality(s) \in Nat
      <4>1. r \in SUBSET S
        OBVIOUS
      <4> QED
        BY <1>1, <4>1, FS_RemoveElement, Zenon
    <3>3. PICK a \in [1..n -> r] : Rises(a)
      BY <1>2, Zenon
    <3>4. n \in Nat /\ Cardinality(s) = n + 1
      BY <3>2
    <3> HIDE DEF n
    <3> DEFINE b == [i \in 1..(n + 1) |-> IF i = 1 THEN x ELSE a[i - 1]]
    <3>5. \A i \in 1..(n + 1) : i # 1 => i - 1 \in 1..n
      BY <3>4
    <3>6. b \in [1..(n + 1) -> s]
      BY <3>3, <3>5, Zenon
    <3>7. ASSUME NEW i \in 1..(n + 1), NEW j \in 1..(n + 1), i < j PROVE b[i] < b[j]
      <4>1. j # 1 /\ j - 1 \in 1..n /\ b[j] = a[j - 1]
        BY <3>4, <3>5, <3>7
      <4>2. a[j - 1] \in s /\ a[j - 1] # x /\ x \in Nat /\ a[j - 1] \in Nat
        BY <3>3, <4>1, Zenon
      <4>3. CASE i = 1
        BY <3>1, <4>1, <4>2, <4>3
      <4>4. CASE i # 1
        <5>1. i - 1 \in 1..n /\ i - 1 < j - 1 /\ b[i] = a[i - 1]
          BY <3>4, <3>5, <3>7, <4>1, <4>4, SMTT(30)
        <5> QED
          BY <3>3, <4>1, <5>1, Zenon DEF Rises
      <4> QED
        BY <4>3, <4>4
    <3>8. Rises(b)
      BY <3>7 DEF Rises
    <3> HIDE DEF b
    <3> QED
      BY <3>4, <3>6, <3>8
  <2> QED
    BY <2>1, <2>2
<1>3. SUBSET S \subseteq T
  <2> HIDE DEF T
  <2> QED
    BY <1>2, SubsetInduction, Zenon
<1>4. \E a \in [1..Cardinality(S) -> S] : Rises(a)
  BY <1>3
<1>5. Ascending(S) \in [1..Cardinality(S) -> S]
  BY <1>4, Zenon DEF Ascending, Rises
<1>6. Cardinality(S) \in Nat /\ (S # {} => Cardinality(S) # 0)
  BY FS_CardinalityType, FS_EmptySet, Zenon
<1> HIDE DEF T
<1> QED
  BY <1>5, <1>6
-----------------------------------------------------------------------------
(* The inductive invariant of the start                                    *)

\* A lookup asks for records of some types, and finds addresses of the name.
Asked ==
  lookup \in [types : Seq(Types), at : Nat, stage : Nat, ips : SUBSET Addresses, ech : Echs]

\* A member that waits is a DoH upstream's, without an address of its own or with
\* one; it asks for an ECH list only if its entry gives none.
Awaited ==
  /\ Unbuilt /\ Entry.kind = "doh"
  /\ IF building = "addresses" THEN ~Entry.ip
     ELSE ips # <<>> /\ (Entry.ip => ips = <<Entry.at>>)
  /\ building = "https" => Entry.ech = "none"

\* The members of the group being built: no more than its entries, each its own
\* entry's, with addresses in the order they are dialled in.
Prepared ==
  /\ group \in Seq(Member) /\ ips \in Seq(Addresses)
  /\ building # "none" => Awaited
  /\ \A i \in DOMAIN group :
       Dialled(group[i].ips, config.prefer_ipv6) /\ Fits(group[i], Entries[i])
  /\ IF InGroup THEN Len(group) <= Len(Entries) ELSE group = <<>>

\* The id of the i-th member registered, of which n are upstreams.
Place(i, n) == IF i <= n THEN <<"primary", i - 1>> ELSE <<"fallback", i - 1 - n>>

\* The entries, the primary group's and then the fallback's.
Configured == config.upstream \o config.fallback

\* Registered are the members of the groups that are done, in order.
Enrolled ==
  /\ metrics \in Seq(Metric)
  /\ \A i \in DOMAIN metrics :
       /\ metrics[i].id = Place(i, Len(config.upstream)) /\ metrics[i].group = metrics[i].id[1]
       /\ Dialled(metrics[i].ips, config.prefer_ipv6) /\ Fits(metrics[i], Configured[i])
  /\ Len(metrics) = CASE boot = "fallback" -> Len(config.upstream)
                      [] boot \in {"http", "dns", "built"} ->
                           Len(config.upstream) + Len(config.fallback)
                      [] OTHER -> 0

\* What each step of build_runtime finds of the worker, the ports and the subnet.
Boots == {"config", "store", "worker", "bootstrap", "rules", "primary", "fallback", "http", "dns",
          "built", "serving", "failed"}
Hosted ==
  /\ boot \in Boots
  /\ boot \in {"config", "store", "worker"} => recorder = "none"
  /\ boot \in {"bootstrap", "rules", "primary", "fallback", "http", "dns", "built"} =>
       recorder = "running"
  /\ boot \in {"primary", "fallback", "http", "dns", "built"} =>
       subnet = subnet_from_config(config.fixed_subnet)
  /\ boot \in {"dns", "built"} => http_port = "own"
  /\ boot = "built" => dns_port = "own"
  /\ http_port = "own" => boot \in {"dns", "built", "serving"}
  /\ dns_port = "own" => boot \in {"built", "serving"}
  /\ boot = "failed" => recorder # "running"

StartInv == config \in Configs /\ source \in Nat \ {0} /\ Asked /\ Prepared /\ Enrolled /\ Hosted

\* What a configuration is.
LEMMA ConfigFacts ==
  ASSUME config \in Configs
  PROVE  /\ config.upstream \in Seq(UpstreamConfig) /\ config.fallback \in Seq(UpstreamConfig)
         /\ config.prefer_ipv6 \in BOOLEAN /\ config.fixed_subnet \in Subnet
         /\ config.rule_sources \in Seq(RuleSource)
<1>1. config \in Config
  BY StartupAssumption, Zenon
<1> QED
  BY <1>1 DEF Config

\* The shift and the mask leave the first bits of an address, for every prefix
\* from none of the bits to all of them, and a longer one is no subnet (mask_ip,
\* parse_subnet, subnet_from_config).
LEMMA SubnetFacts ==
  ASSUME NEW s \in Subnet
  PROVE  subnet_from_config(s) =
           IF s.family # "none" /\ s.prefix <= Bits[s.family] THEN Network(s) ELSE NoSubnet
<1>1. CASE s.family = "none"
  BY <1>1, Zenon DEF subnet_from_config
<1>2. CASE s.family # "none"
  <2> DEFINE w == Bits[s.family]
             p == s.prefix
             mask == IF p = 0 THEN {} ELSE ShiftedMax(w - p, w)
  <2>1. s.family \in {"v4", "v6"} /\ s.addr \in Word(w) /\ p \in Nat
    BY <1>2 DEF Subnet, NoSubnet
  <2>2. w \in Nat \ {0}
    BY <2>1, EcsAssumption, Zenon
  <2>3. \A b \in s.addr : b \in 0..(w - 1)
    BY <2>1 DEF Word
  <2> HIDE DEF w, p
  <2>4. CASE p > w
    <3>1. ~(p <= w)
      BY <2>1, <2>2, <2>4
    <3> QED
      BY <1>2, <2>4, <3>1, Zenon DEF subnet_from_config, w, p
  <2>5. CASE ~(p > w)
    <3>1. p <= w
      BY <2>1, <2>2, <2>5
    <3>2. s.addr \cap mask = {b \in s.addr : b >= w - p}
      <4>1. CASE p = 0
        <5>1. \A b \in s.addr : ~(b >= w - p)
          BY <2>1, <2>2, <2>3, <4>1
        <5> QED
          BY <4>1, <5>1
      <4>2. CASE p # 0
        <5>1. (w - p) % w = w - p
          BY <2>1, <2>2, <3>1, <4>2
        <5> QED
          BY <2>3, <4>2, <5>1 DEF ShiftedMax
      <4> QED
        BY <4>1, <4>2, Zenon
    <3>3. subnet_from_config(s) = mask_ip(s.family, s.addr, s.prefix)
      BY <1>2, <2>5, Zenon DEF subnet_from_config, w, p
    <3>4. mask_ip(s.family, s.addr, s.prefix) = Network(s)
      BY <3>2 DEF mask_ip, Network, w, p
    <3> QED
      BY <1>2, <3>1, <3>3, <3>4, Zenon DEF w, p
  <2> QED
    BY <2>4, <2>5, Zenon
<1> QED
  BY <1>1, <1>2

\* A list of one address.
LEMMA OneAddress ==
  ASSUME NEW a \in Addresses, NEW p \in BOOLEAN
  PROVE  <<a>> \in Seq(Addresses) /\ <<a>> # <<>> /\ Dialled(<<a>>, p)
<1>1. <<a>> \in Seq(Addresses) /\ <<a>> # <<>> /\ DOMAIN <<a>> = {1} /\ <<a>>[1] = a
  OBVIOUS
<1> QED
  BY <1>1 DEF Dialled

\* resolve_ips of a lookup that has found addresses.
LEMMA ResolvedFacts ==
  ASSUME config \in Configs, Asked, lookup.ips # {}
  PROVE  Dialled(resolve_ips, config.prefer_ipv6)
<1>1. lookup.ips \in SUBSET Addresses
  BY DEF Asked
<1>2. Addresses \in SUBSET Nat /\ IsFiniteSet(Addresses)
  BY BootstrapAssumption DEF Addresses
<1>3. lookup.ips \in SUBSET Nat /\ IsFiniteSet(lookup.ips)
  BY <1>1, <1>2, FS_Subset, Zenon
<1>4. Ascending(lookup.ips) \in Seq(lookup.ips) /\ Ascending(lookup.ips) # <<>>
  BY <1>3, AscendingFacts, Zenon
<1>5. Ascending(lookup.ips) \in Seq(Addresses)
  BY <1>1, <1>4
<1>6. config.prefer_ipv6 \in BOOLEAN
  BY ConfigFacts, Zenon
<1> QED
  BY <1>4, <1>5, <1>6, SortFacts, Zenon DEF resolve_ips

\* No lookup.
LEMMA NoLookupAsked ==
  ASSUME lookup' = NoLookup
  PROVE  Asked'
BY DEF NoLookup, Asked, Addresses, Echs

\* A lookup that begins.
LEMMA LookupAsked ==
  ASSUME NEW types \in Seq(Types), lookup' = Lookup(types)
  PROVE  Asked'
BY Zenon DEF NoLookup, Lookup, Asked, Addresses, Echs

\* A query of the lookup is over.
LEMMA QueryAsked ==
  ASSUME Asked, InLookup, NEW a \in SUBSET Addresses, NEW e \in Echs, QueryOver(a, e)
  PROVE  Asked'
<1>1. Tail(lookup.types) \in Seq(Types)
  BY DEF Asked, InLookup
<1> QED
  BY <1>1 DEF Asked, QueryOver

\* The next server of the lookup is asked, or the query is over.
LEMMA NextAsked ==
  ASSUME Asked, InLookup, NextServer
  PROVE  Asked'
<1>1. CASE lookup.at < Len(config.bootstrap)
  <2>1. lookup' = [[lookup EXCEPT !.at = lookup.at + 1] EXCEPT !.stage = 1]
    BY <1>1, Zenon DEF NextServer
  <2>2. [lookup EXCEPT !.at = lookup.at + 1]
          \in [types : Seq(Types), at : Nat, stage : Nat, ips : SUBSET Addresses, ech : Echs]
    BY DEF Asked
  <2> QED
    BY <2>1, <2>2, Zenon DEF Asked
<1>2. CASE ~(lookup.at < Len(config.bootstrap))
  BY <1>2, QueryAsked DEF NextServer, Echs
<1> QED
  BY <1>1, <1>2

\* A lookup collects addresses of the name, and no other query's (query,
\* resolve_ips; the id of a message is compared in upstream/plain.rs, dot.rs and
\* doh.rs).
LEMMA LookupStep ==
  ASSUME Asked, BootstrapStep
  PROVE  Asked' /\ config' = config
<1>1. CASE Advance
  BY <1>1 DEF Advance, Asked
<1>2. CASE ExchangeFails
  BY <1>2, NextAsked DEF ExchangeFails
<1>3. ASSUME InLookup, NEW m \in Replies(Head(lookup.types)) \cup Strays, ReplyArrives(m)
      PROVE  Asked' /\ config' = config
  <2>1. CASE m.own
    <3>1. m \in Replies(Head(lookup.types))
      BY <2>1, Zenon DEF Strays
    <3>2. Head(lookup.types) \in Types
      BY <1>3 DEF Asked, InLookup
    <3>3. m.ips \in SUBSET Addresses /\ m.ech \in Echs
      BY <3>1, <3>2, Zenon DEF Replies, Types, Addresses, Echs
    <3> QED
      BY <1>3, <2>1, <3>3, QueryAsked DEF ReplyArrives
  <2>2. CASE ~m.own
    BY <1>3, <2>2, NextAsked DEF ReplyArrives
  <2> QED
    BY <2>1, <2>2, Zenon
<1> QED
  BY <1>1, <1>2, <1>3 DEF BootstrapStep

\* A source is a file, a URL or nothing (load_sources).
LEMMA LoadSourceCases ==
  ASSUME config \in Configs, source \in Nat \ {0}, LoadSource
  PROVE  \/ Skip
         \/ /\ config.rule_sources[source].kind = "path"
            /\ \E n \in Lengths : Merge(n, n, TRUE)
         \/ /\ config.rule_sources[source].kind = "url"
            /\ fetch' = [NoFetch EXCEPT !.stage = "request", !.url = config.rule_sources[source].url]
            /\ UNCHANGED <<source, merged, lookup, config>>
<1>1. source \in DOMAIN config.rule_sources
  BY ConfigFacts DEF LoadSource, Loading
<1>2. config.rule_sources[source] \in RuleSource
  BY <1>1, ConfigFacts
<1>3. config.rule_sources[source].kind \in {"path", "url", "neither"}
  BY <1>2 DEF RuleSource
<1> QED
  BY <1>3, Zenon DEF LoadSource

\* load_sources goes through the sources one by one.
LEMMA NextSource ==
  ASSUME NEW k \in Nat \ {0}, NEW n \in {k, k + 1}
  PROVE  n \in Nat \ {0}
OBVIOUS

\* Every step of load_sources leaves a lookup of addresses, or none.
LEMMA FetchAsked ==
  ASSUME config \in Configs, source \in Nat \ {0}, Asked, FetchStep
  PROVE  Asked' /\ config' = config /\ source' \in Nat \ {0}
<1>s. source' \in {source, source + 1} => source' \in Nat \ {0}
  BY NextSource, Zenon
<1>1. CASE lookup' = lookup /\ config' = config /\ source' \in {source, source + 1}
  BY <1>s, <1>1 DEF Asked
<1>2. CASE lookup' = NoLookup /\ config' = config /\ source' \in {source, source + 1}
  BY <1>s, <1>2, NoLookupAsked
<1>3. CASE lookup' = Lookup(<<"A", "AAAA">>) /\ config' = config /\ source' \in {source, source + 1}
  <2>1. <<"A", "AAAA">> \in Seq(Types)
    BY DEF Types
  <2> QED
    BY <1>s, <1>3, <2>1, LookupAsked, Zenon
<1>4. CASE LoadSource
  <2>1. \/ Skip \/ (\E n \in Lengths : Merge(n, n, TRUE))
        \/ UNCHANGED <<source, merged, lookup, config>>
    BY <1>4, LoadSourceCases, Zenon
  <2> QED
    BY <1>1, <1>2, <2>1, Zenon DEF Skip, Merge
<1>5. CASE Request
  BY <1>1, <1>2, <1>3, <1>5, Zenon DEF Request, Skip, To
<1>6. CASE Resolved
  BY <1>2, <1>6, Zenon DEF Resolved, Skip
<1>7. CASE Connects \/ Handshake
  BY <1>1, <1>7, Zenon DEF Connects, Handshake
<1>8. CASE ConnectFails \/ Frame
  BY <1>1, <1>2, <1>8, Zenon DEF ConnectFails, Frame, Skip
<1>9. CASE \E url \in Urls \cup {fetch.url} : Redirect(url)
  BY <1>1, <1>9, Zenon DEF Redirect
<1>10. CASE \E n \in Lengths, framed \in BOOLEAN : Success(n, framed)
  BY <1>1, <1>10, Zenon DEF Success
<1>11. CASE BodyEnds
  BY <1>1, <1>11, Zenon DEF BodyEnds, Merge
<1>12. CASE FetchFails \/ FetchTimeout
  BY <1>2, <1>12, Zenon DEF FetchFails, FetchTimeout, Skip
<1> QED
  BY <1>4, <1>5, <1>6, <1>7, <1>8, <1>9, <1>10, <1>11, <1>12, Zenon DEF FetchStep
-----------------------------------------------------------------------------
(* The steps of a start                                                    *)

\* The invariant holds when main begins.
LEMMA StartInitial == StartInit => StartInv
<1> SUFFICES ASSUME StartInit PROVE StartInv
  BY Zenon
<1> USE DEF StartInit, FetchInit
<1>1. Asked
  BY DEF NoLookup, Asked, Addresses, Echs
<1>2. Prepared
  BY DEF Prepared, InGroup
<1>3. Enrolled
  BY DEF Enrolled
<1>4. Hosted
  BY DEF Hosted, Boots
<1> QED
  BY <1>1, <1>2, <1>3, <1>4 DEF StartInv

\* Nothing about the members changes while nothing is done to them.
LEMMA PreparedStays ==
  ASSUME Prepared, UNCHANGED <<config, boot, building, ips, group>>
  PROVE  Prepared'
<1>1. InGroup' = InGroup /\ Entries' = Entries /\ Entry' = Entry /\ Unbuilt' = Unbuilt
  BY Zenon DEF InGroup, Entries, Entry, Unbuilt
<1>2. Awaited' = Awaited
  BY <1>1, Zenon DEF Awaited
<1>3. ASSUME NEW i \in DOMAIN group PROVE Fits(group'[i], Entries'[i]) = Fits(group[i], Entries[i])
  BY <1>1, Zenon
<1> QED
  BY <1>1, <1>2, <1>3, Zenon DEF Prepared

\* Nor about those registered.
LEMMA EnrolledStays ==
  ASSUME Enrolled, UNCHANGED <<config, metrics>>,
         \/ boot' = boot
         \/ boot \notin {"fallback", "http", "dns", "built"}
              /\ boot' \notin {"fallback", "http", "dns", "built"}
         \/ boot \in {"http", "dns", "built"} /\ boot' \in {"http", "dns", "built"}
  PROVE  Enrolled'
<1>1. Configured' = Configured
  BY Zenon DEF Configured
<1> QED
  BY <1>1, Zenon DEF Enrolled

\* It is about the variables of the start.
LEMMA StartStutter == StartInv /\ UNCHANGED startVars => StartInv'
<1> SUFFICES ASSUME StartInv, UNCHANGED startVars PROVE StartInv'
  BY Zenon
<1> USE DEF startVars, fetchVars, buildVars, hostVars
<1>1. config' \in Configs /\ source' \in Nat \ {0} /\ Asked'
  BY DEF StartInv, Asked
<1>2. Prepared'
  BY PreparedStays, Zenon DEF StartInv
<1>3. Enrolled'
  BY EnrolledStays, Zenon DEF StartInv
<1>4. Hosted'
  BY Zenon DEF StartInv, Hosted
<1> QED
  BY <1>1, <1>2, <1>3, <1>4, Zenon DEF StartInv

\* An error drops what was built, tells the worker and gives the HTTP port back
\* (the error paths of build_runtime).
LEMMA AbortKeeps ==
  ASSUME StartInv, Abort, boot \in {"bootstrap", "primary", "fallback", "http", "dns"}
  PROVE  StartInv'
<1> USE DEF Abort, fetchVars
<1>1. config' \in Configs /\ source' \in Nat \ {0}
  BY DEF StartInv
<1>2. Asked'
  BY NoLookupAsked, Zenon
<1>3. Prepared'
  <2>1. group' = <<>> /\ ips' = <<>> /\ building' = "none" /\ ~InGroup'
    BY Zenon DEF InGroup
  <2> QED
    BY <2>1, NoMembers, Zenon DEF Prepared
<1>4. Enrolled'
  <2>1. metrics' = <<>> /\ boot' = "failed"
    BY Zenon
  <2> QED
    BY <2>1, NoMembers, Zenon DEF Enrolled
<1>5. Hosted'
  BY DEF StartInv, Hosted, Boots
<1> QED
  BY <1>1, <1>2, <1>3, <1>4, <1>5, Zenon DEF StartInv

\* A member is complete (build_member).
LEMMA PushKeeps ==
  ASSUME StartInv, Unbuilt, NEW m \in Member, Dialled(m.ips, config.prefer_ipv6),
         Fits(m, Entry), Push(m)
  PROVE  StartInv'
<1> USE DEF Push, fetchVars, hostVars
<1>1. config' \in Configs /\ source' \in Nat \ {0}
  BY DEF StartInv
<1>2. Asked'
  BY NoLookupAsked, Zenon
<1>3. Prepared'
  <2>1. group \in Seq(Member) /\ Len(group) < Len(Entries) /\ InGroup
    BY Zenon DEF StartInv, Prepared, Unbuilt
  <2>2. /\ group' \in Seq(Member) /\ Len(group') = Len(group) + 1
        /\ \A i \in DOMAIN group' : \/ (i \in DOMAIN group /\ group'[i] = group[i])
                                   \/ (i = Len(group) + 1 /\ group'[i] = m)
    <3>1. group' = Append(group, m)
      BY Zenon
    <3>2. OneLonger(group', group, m, Member)
      BY <2>1, <3>1, MemberJoins, Zenon
    <3> QED
      BY <3>2, Zenon DEF OneLonger
  <2>4. InGroup' /\ Entries' = Entries
    BY <2>1, Zenon DEF InGroup, Entries
  <2>3. ASSUME NEW i \in DOMAIN group'
        PROVE  Dialled(group'[i].ips, config'.prefer_ipv6) /\ Fits(group'[i], Entries'[i])
    <3>1. CASE i \in DOMAIN group /\ group'[i] = group[i]
      BY <2>4, <3>1, Zenon DEF StartInv, Prepared
    <3>2. CASE i = Len(group) + 1 /\ group'[i] = m
      BY <2>4, <3>2, Zenon DEF Entry
    <3> QED
      BY <2>2, <3>1, <3>2, Zenon
  <2>5. Len(Entries) \in Nat
    BY ConfigFacts, SMTT(30) DEF StartInv, Entries
  <2>6. Len(group') <= Len(Entries')
    <3>1. Len(group) \in Nat
      BY <2>1, LenProperties, Zenon
    <3> QED
      BY <2>1, <2>2, <2>4, <2>5, <3>1, OneMore, Zenon
  <2>7. ips' \in Seq(Addresses) /\ building' = "none"
    OBVIOUS
  <2> QED
    BY <2>2, <2>3, <2>4, <2>6, <2>7, Zenon DEF Prepared
<1>4. Enrolled'
  BY EnrolledStays, Zenon DEF StartInv
<1>5. Hosted'
  BY DEF StartInv, Hosted
<1> QED
  BY <1>1, <1>2, <1>3, <1>4, <1>5, Zenon DEF StartInv

\* A member waits for what it needs (build_member).
LEMMA WaitKeeps ==
  ASSUME StartInv, NEW for \in {"addresses", "ech", "https", "resolver"},
         NEW a \in Seq(Addresses), NEW types \in Seq(Types),
         Unbuilt, Entry.kind = "doh",
         IF for = "addresses" THEN ~Entry.ip ELSE a # <<>> /\ (Entry.ip => a = <<Entry.at>>),
         for = "https" => Entry.ech = "none", Wait(for, a, types)
  PROVE  StartInv'
<1> USE DEF Wait, fetchVars, hostVars
<1>1. config' \in Configs /\ source' \in Nat \ {0}
  BY DEF StartInv
<1>2. Asked'
  BY NoLookupAsked, LookupAsked, Zenon
<1>3. Prepared'
  <2>1. InGroup' = InGroup /\ Entries' = Entries /\ Entry' = Entry /\ Unbuilt' = Unbuilt
    BY Zenon DEF InGroup, Entries, Entry, Unbuilt
  <2>2. Awaited'
    BY <2>1, Zenon DEF Awaited
  <2>3. group' = group /\ config' = config /\ ips' = a
    BY Zenon
  <2> QED
    BY <2>1, <2>2, <2>3, Zenon DEF StartInv, Prepared
<1>4. Enrolled'
  BY EnrolledStays, Zenon DEF StartInv
<1>5. Hosted'
  BY DEF StartInv, Hosted
<1> QED
  BY <1>1, <1>2, <1>3, <1>4, <1>5, Zenon DEF StartInv

\* A step that leaves the members and the lookup alone.
LEMMA BootKeeps ==
  ASSUME StartInv, UNCHANGED <<config, lookup, fetchVars, building, ips, group, metrics>>,
         \/ boot \in {"config", "store", "worker", "bootstrap"}
              /\ boot' \in {"store", "worker", "bootstrap", "rules", "failed"}
         \/ boot = "rules" /\ boot' = "primary"
         \/ boot = "http" /\ boot' = "dns"
         \/ boot = "dns" /\ boot' = "built",
         Hosted'
  PROVE  StartInv'
<1>1. config' \in Configs /\ source' \in Nat \ {0}
  BY Zenon DEF StartInv, fetchVars
<1>2. Asked'
  BY Zenon DEF StartInv, Asked
<1>3. Prepared'
  <2>1. Len(config.upstream) \in Nat
    BY ConfigFacts DEF StartInv
  <2>2. group = <<>>
    BY DEF StartInv, Prepared, InGroup
  <2>3. Len(group) = 0
    BY <2>2
  <2> QED
    <3>1. InGroup' => Entries' = config.upstream
      BY Zenon DEF InGroup, Entries
    <3>2. 0 <= Len(config.upstream)
      BY <2>1
    <3>3. group' = <<>> /\ Len(group') = 0
      BY <2>2, <2>3, Zenon
    <3>4. InGroup' => Len(group') <= Len(Entries')
      BY <3>1, <3>2, <3>3, Zenon
    <3>5. building' = "none"
      <4>1. ~Unbuilt
        BY Zenon DEF Unbuilt, InGroup
      <4> QED
        BY <4>1, Zenon DEF StartInv, Prepared, Awaited
    <3>6. ips' \in Seq(Addresses)
      BY Zenon DEF StartInv, Prepared
    <3> QED
      BY <3>3, <3>4, <3>5, <3>6, NoMembers, Zenon DEF Prepared
<1>4. Enrolled'
  BY EnrolledStays, Zenon DEF StartInv
<1> QED
  BY <1>1, <1>2, <1>3, <1>4 DEF StartInv

\* main, and the steps of build_runtime before and after the pipeline.
LEMMA HostSteps ==
  ASSUME StartInv,
         \/ LoadConfig \/ OpenStore \/ StartWorker \/ BuildBootstrap
         \/ RulesLoaded \/ BindHttp \/ BindDns
  PROVE  StartInv'
<1> USE DEF buildVars, hostVars
<1>1. CASE LoadConfig
  <2>1. Hosted'
    BY <1>1 DEF LoadConfig, StartInv, Hosted, Boots
  <2> QED
    BY <1>1, <2>1, BootKeeps, Zenon DEF LoadConfig
<1>2. CASE OpenStore
  <2>1. Hosted'
    BY <1>2 DEF OpenStore, StartInv, Hosted, Boots
  <2> QED
    BY <1>2, <2>1, BootKeeps, Zenon DEF OpenStore
<1>3. CASE StartWorker
  <2>1. Hosted'
    BY <1>3 DEF StartWorker, StartInv, Hosted, Boots
  <2> QED
    BY <1>3, <2>1, BootKeeps, Zenon DEF StartWorker
<1>4. CASE BuildBootstrap
  <2>1. CASE Abort
    BY <1>4, <2>1, AbortKeeps, ZenonT(30) DEF BuildBootstrap
  <2>2. CASE ~Abort
    <3>1. Hosted'
      BY <1>4, <2>2, Zenon DEF BuildBootstrap, StartInv, Hosted, Boots
    <3> QED
      BY <1>4, <2>2, <3>1, BootKeeps, ZenonT(30) DEF BuildBootstrap
  <2> QED
    BY <2>1, <2>2
<1>5. CASE RulesLoaded
  <2>1. Hosted'
    BY <1>5, Zenon DEF RulesLoaded, StartInv, Hosted, Boots
  <2> QED
    BY <1>5, <2>1, BootKeeps, Zenon DEF RulesLoaded
<1>6. CASE BindHttp
  <2>1. CASE Abort
    BY <1>6, <2>1, AbortKeeps, Zenon DEF BindHttp
  <2>2. CASE ~Abort
    <3>1. Hosted'
      BY <1>6, <2>2 DEF BindHttp, StartInv, Hosted, Boots
    <3> QED
      BY <1>6, <2>2, <3>1, BootKeeps, Zenon DEF BindHttp
  <2> QED
    BY <2>1, <2>2, Zenon
<1>7. CASE BindDns
  <2>1. CASE Abort
    BY <1>7, <2>1, AbortKeeps, Zenon DEF BindDns
  <2>2. CASE ~Abort
    <3>1. Hosted'
      BY <1>7, <2>2 DEF BindDns, StartInv, Hosted, Boots
    <3> QED
      BY <1>7, <2>2, <3>1, BootKeeps, Zenon DEF BindDns
  <2> QED
    BY <2>1, <2>2
<1> QED
  BY <1>1, <1>2, <1>3, <1>4, <1>5, <1>6, <1>7, Zenon

\* There is an entry after those that have a member (build_group).
LEMMA NextPlace ==
  ASSUME NEW S, NEW T, NEW q \in Seq(S), NEW e \in Seq(T), Len(q) < Len(e)
  PROVE  Len(q) + 1 \in DOMAIN e /\ e[Len(q) + 1] \in T
OBVIOUS

\* The entry whose member is built is one of the configuration's.
LEMMA EntryFacts ==
  ASSUME StartInv, Unbuilt
  PROVE  /\ Entry \in UpstreamConfig /\ boot \in {"primary", "fallback"}
         /\ config.prefer_ipv6 \in BOOLEAN
<1>1. Entries \in Seq(UpstreamConfig) /\ config.prefer_ipv6 \in BOOLEAN
  BY ConfigFacts DEF StartInv, Entries
<1>2. group \in Seq(Member) /\ Len(group) < Len(Entries)
  BY DEF StartInv, Prepared, Unbuilt
<1>3. Entries[Len(group) + 1] \in UpstreamConfig
  BY <1>1, <1>2, NextPlace, Zenon
<1> QED
  BY <1>1, <1>3, Zenon DEF Entry, Unbuilt, InGroup

\* A member's name is made of its entry (build_member).
LEMMA NameFacts ==
  ASSUME NEW u \in UpstreamConfig
  PROVE  name(u) \in Names
<1>1. u.kind \in {"plain", "dot", "doh"} /\ u.url \in STRING /\ u.at \in Addresses
  BY DEF UpstreamConfig, Addresses
<1>2. <<>> \in Seq(Addresses) /\ <<u.at>> \in Seq(Addresses)
  BY <1>1
<1> QED
  BY <1>1, <1>2 DEF name, Names

\* The addresses and the ECH list are those the entry gives, if it gives any.
Given(u, a, e) ==
  /\ (u.kind # "doh" \/ u.ip) => a = <<u.at>>
  /\ u.kind # "doh" => e = "none"
  /\ u.kind = "doh" /\ u.ech # "none" => e = u.ech

\* A plain or DoT upstream's member, and a DoH upstream's (build_member).
LEMMA MadeFits ==
  ASSUME NEW u \in UpstreamConfig, NEW a \in Seq(Addresses), NEW e \in Echs,
         NEW m, m = [name |-> name(u), ips |-> a, ech |-> e],
         Given(u, a, e)
  PROVE  m \in Member /\ m.ips = a /\ Fits(m, u)
<1>1. m.name = name(u) /\ m.ips = a /\ m.ech = e
  OBVIOUS
<1>2. name(u) \in Names
  BY NameFacts, Zenon
<1>3. m \in Member
  BY <1>2 DEF Member
<1> QED
  BY <1>1, <1>3, Zenon DEF Fits, Given

\* build_member, from the entry to the member.
LEMMA MemberSteps ==
  ASSUME StartInv, BuildMember \/ AddressesKnown \/ FindEch \/ NewDoh
  PROVE  StartInv'
<1>1. /\ Unbuilt /\ Entry \in UpstreamConfig /\ boot \in {"primary", "fallback"}
      /\ config.prefer_ipv6 \in BOOLEAN
  <2>1. Unbuilt
    BY Zenon DEF BuildMember, AddressesKnown, FindEch, NewDoh
  <2> QED
    BY <2>1, EntryFacts, Zenon
<1>2. CASE Abort
  BY <1>1, <1>2, AbortKeeps
<1>3. /\ <<Entry.at>> \in Seq(Addresses) /\ <<Entry.at>> # <<>>
      /\ Dialled(<<Entry.at>>, config.prefer_ipv6) /\ Entry.ech \in Echs
  <2>1. Entry.at \in Addresses /\ Entry.ech \in Echs
    BY <1>1 DEF UpstreamConfig, Addresses, Echs
  <2> QED
    BY <1>1, <2>1, OneAddress, Zenon
<1>4. <<>> \in Seq(Types) /\ <<"A", "AAAA">> \in Seq(Types) /\ <<"HTTPS">> \in Seq(Types)
      /\ <<>> \in Seq(Addresses)
  BY DEF Types
<1>5. CASE BuildMember /\ ~Abort
  <2>1. CASE Entry.kind # "doh"
    <3> DEFINE a == <<Entry.at>>
               e == "none"
               m == [name |-> name(Entry), ips |-> a, ech |-> e]
    <3>1. e \in Echs
      BY DEF Echs
    <3>2. Given(Entry, a, e)
      BY <2>1, Zenon DEF Given
    <3>3. Push(m)
      BY <1>5, <2>1, Zenon DEF BuildMember
    <3>4. a \in Seq(Addresses) /\ Dialled(a, config.prefer_ipv6)
      BY <1>3, Zenon
    <3> HIDE DEF a, e
    <3>5. m = [name |-> name(Entry), ips |-> a, ech |-> e]
      OBVIOUS
    <3> HIDE DEF m
    <3>6. m \in Member /\ m.ips = a /\ Fits(m, Entry)
      BY <1>1, <3>1, <3>2, <3>4, <3>5, MadeFits, Zenon
    <3> QED
      BY <1>1, <3>3, <3>4, <3>6, PushKeeps, Zenon
  <2>2. CASE Entry.kind = "doh" /\ Entry.ip
    <3>1. Wait("ech", <<Entry.at>>, <<>>)
      BY <1>5, <2>2, Zenon DEF BuildMember
    <3> QED
      BY <1>1, <1>3, <1>4, <2>2, <3>1, WaitKeeps, Zenon
  <2>3. CASE Entry.kind = "doh" /\ ~Entry.ip
    <3>1. Wait("addresses", <<>>, <<"A", "AAAA">>)
      BY <1>5, <2>3, Zenon DEF BuildMember
    <3> QED
      BY <1>1, <1>4, <2>3, <3>1, WaitKeeps, Zenon
  <2> QED
    BY <2>1, <2>2, <2>3, Zenon
<1>a. building # "none" => Awaited
  BY Zenon DEF StartInv, Prepared
<1>6. CASE AddressesKnown /\ ~Abort
  <2>1. building = "addresses" /\ lookup.ips # {} /\ Wait("ech", resolve_ips, <<>>)
    BY <1>6, Zenon DEF AddressesKnown
  <2>2. Dialled(resolve_ips, config.prefer_ipv6)
    BY <2>1, ResolvedFacts, Zenon DEF StartInv
  <2>3. resolve_ips \in Seq(Addresses) /\ resolve_ips # <<>>
    BY <2>2, Zenon DEF Dialled
  <2>4. Entry.kind = "doh" /\ ~Entry.ip
    BY <1>a, <2>1, Zenon DEF Awaited
  <2> QED
    BY <1>1, <1>4, <2>1, <2>3, <2>4, WaitKeeps, Zenon
<1>7. CASE FindEch /\ ~Abort
  <2>1. building = "ech" /\ ips \in Seq(Addresses)
    BY <1>7, Zenon DEF FindEch, StartInv, Prepared
  <2>2. Entry.kind = "doh" /\ ips # <<>> /\ (Entry.ip => ips = <<Entry.at>>)
    BY <1>a, <2>1, Zenon DEF Awaited
  <2>3. CASE Entry.ech = "none" /\ Wait("https", ips, <<"HTTPS">>)
    BY <1>1, <1>4, <2>1, <2>2, <2>3, WaitKeeps, Zenon
  <2>4. CASE Wait("resolver", ips, <<>>)
    BY <1>1, <1>4, <2>1, <2>2, <2>4, WaitKeeps, Zenon
  <2> QED
    BY <1>7, <2>3, <2>4, Zenon DEF FindEch
<1>8. CASE NewDoh /\ ~Abort
  <2> DEFINE e == IF building = "https" THEN lookup.ech ELSE Entry.ech
             a == sort_by_family(ips, config.prefer_ipv6)
             m == [name |-> name(Entry), ips |-> a, ech |-> e]
  <2>1. building \in {"https", "resolver"} /\ ips \in Seq(Addresses)
    BY <1>8, Zenon DEF NewDoh, StartInv, Prepared
  <2>2. /\ Entry.kind = "doh" /\ ips # <<>> /\ (Entry.ip => ips = <<Entry.at>>)
        /\ building = "https" => Entry.ech = "none"
    BY <1>a, <2>1, Zenon DEF Awaited
  <2>3. e \in Echs /\ (Entry.ech # "none" => e = Entry.ech)
    <3>1. lookup.ech \in Echs
      BY DEF StartInv, Asked
    <3> QED
      BY <1>3, <2>2, <3>1, Zenon
  <2>4. Dialled(a, config.prefer_ipv6)
    BY <1>1, <2>1, <2>2, SortFacts, Zenon
  <2>5. a \in Seq(Addresses)
    BY <2>4, Zenon DEF Dialled
  <2>6. Entry.ip => a = <<Entry.at>>
    <3>1. Entry.at \in Addresses
      BY <1>1 DEF UpstreamConfig, Addresses
    <3> QED
      BY <1>1, <2>2, <3>1, OneSorted, Zenon
  <2>7. Push(m)
    BY <1>8, Zenon DEF NewDoh
  <2> HIDE DEF e, a
  <2>8. m = [name |-> name(Entry), ips |-> a, ech |-> e]
    OBVIOUS
  <2> HIDE DEF m
  <2>9. Given(Entry, a, e)
    BY <2>2, <2>3, <2>6, Zenon DEF Given
  <2>10. m \in Member /\ m.ips = a /\ Fits(m, Entry)
    BY <1>1, <2>3, <2>5, <2>8, <2>9, MadeFits, Zenon
  <2> QED
    BY <1>1, <2>4, <2>7, <2>10, PushKeeps, Zenon
<1> QED
  BY <1>2, <1>5, <1>6, <1>7, <1>8, Zenon

Joins(m, s, t) ==
  /\ Len(m) = Len(s) + Len(t) /\ DOMAIN m = 1..(Len(s) + Len(t))
  /\ \A i \in 1..(Len(s) + Len(t)) : m[i] = IF i <= Len(s) THEN s[i] ELSE t[i - Len(s)]

\* One list of members after the other.
LEMMA OneAfterOther ==
  ASSUME NEW S, NEW s \in Seq(S), NEW t \in Seq(S)
  PROVE  s \o t \in Seq(S) /\ Joins(s \o t, s, t)
<1>1. /\ s \o t \in Seq(S) /\ Len(s \o t) = Len(s) + Len(t)
      /\ \A i \in 1..(Len(s) + Len(t)) :
           (s \o t)[i] = IF i <= Len(s) THEN s[i] ELSE t[i - Len(s)]
  BY ConcatProperties
<1> QED
  BY <1>1 DEF Joins

\* What is registered of a member (UpstreamMetricsBuilder::register).
LEMMA MetricFacts ==
  ASSUME NEW g \in {"primary", "fallback"}, NEW i \in Nat, i >= 1, NEW m \in Member
  PROVE  [group |-> g, id |-> <<g, i - 1>>, name |-> m.name, ips |-> m.ips, ech |-> m.ech]
           \in Metric
BY DEF Member, Metric

\* The group's members are registered in order, after those of the primary
\* group (build_group, UpstreamMetricsBuilder::register).
LEMMA GroupSteps ==
  ASSUME StartInv, GroupBuilt
  PROVE  StartInv'
<1>1. boot \in {"primary", "fallback"}
  BY Zenon DEF GroupBuilt, InGroup
<1>2. CASE Abort
  BY <1>1, <1>2, AbortKeeps
<1>3. CASE ~Abort
  <2>1. /\ metrics' = metrics \o Registered(boot) /\ group' = <<>> /\ group # <<>>
        /\ boot' = IF boot = "primary" /\ config.fallback # <<>> THEN "fallback" ELSE "http"
        /\ UNCHANGED <<config, lookup, fetchVars, building, ips, subnet, hostVars>>
    BY <1>3, Zenon DEF GroupBuilt
  <2>2. config' \in Configs /\ source' \in Nat \ {0} /\ Asked'
    BY <2>1 DEF StartInv, Asked, fetchVars
  <2>3. Len(config.upstream) \in Nat /\ Len(config.fallback) \in Nat
        /\ (config.fallback = <<>> => Len(config.fallback) = 0)
    BY ConfigFacts, SMTT(30) DEF StartInv
  <2>4. Hosted'
    BY <1>1, <2>1, Zenon DEF StartInv, Hosted, Boots, hostVars
  <2>5. Prepared'
    <3>1. Len(group') = 0 /\ group' \in Seq(Member)
      BY <2>1
    <3>2. DOMAIN group' = {}
      BY <2>1
    <3>3. InGroup' => Len(group') <= Len(Entries')
      <4>1. InGroup' => Entries' = config.fallback
        BY <2>1, Zenon DEF InGroup, Entries
      <4>2. 0 <= Len(config.fallback)
        BY <2>3
      <4> QED
        BY <3>1, <4>1, <4>2, Zenon
    <3>4. building' = "none" /\ ips' \in Seq(Addresses)
      BY <2>1, Zenon DEF StartInv, Prepared, Awaited, GroupBuilt
    <3> QED
      BY <2>1, <3>1, <3>2, <3>3, <3>4, Zenon DEF Prepared
  <2>6. Enrolled'
    <3> DEFINE r == Registered(boot)
               n == Len(metrics)
               u == Len(config.upstream)
    <3>1. group \in Seq(Member) /\ Len(group) = Len(Entries)
      <4>1. Len(Entries) \in Nat
        BY <2>3 DEF Entries
      <4> QED
        BY <4>1 DEF GroupBuilt, StartInv, Prepared, Unbuilt
    <3>2. r \in Seq(Metric) /\ Len(r) = Len(group)
      <4>1. \A i \in DOMAIN group : i \in Nat /\ i >= 1 /\ group[i] \in Member
        BY <3>1, IndexFacts, Zenon
      <4>2. \A i \in DOMAIN group : r[i] \in Metric
        BY <1>1, <4>1, MetricFacts, Zenon DEF Registered
      <4> QED
        BY <3>1, <4>2 DEF Registered
    <3>3. \A i \in 1..Len(r) :
            /\ r[i].id = <<boot, i - 1>> /\ r[i].group = boot /\ r[i].id[1] = boot
            /\ Dialled(r[i].ips, config.prefer_ipv6) /\ Fits(r[i], Entries[i])
      <4>1. \A i \in DOMAIN group :
              Dialled(group[i].ips, config.prefer_ipv6) /\ Fits(group[i], Entries[i])
        BY Zenon DEF StartInv, Prepared
      <4>2. \A i \in 1..Len(r) : i \in DOMAIN group
        BY <3>1, <3>2
      <4>3. \A i \in DOMAIN group : /\ r[i].id = <<boot, i - 1>> /\ r[i].group = boot
                                     /\ r[i].name = group[i].name
                                     /\ r[i].ips = group[i].ips /\ r[i].ech = group[i].ech
        BY Zenon DEF Registered
      <4>5. \A i \in DOMAIN group : Fits(group[i], Entries[i]) => Fits(r[i], Entries[i])
        <5> HIDE DEF r
        <5> QED
          BY <4>3, Zenon DEF Fits
      <4>4. \A i \in DOMAIN group : r[i].id[1] = boot
        BY <4>3, SMTT(30)
      <4> QED
        BY <4>1, <4>2, <4>3, <4>4, <4>5, Zenon
    <3>4. metrics \in Seq(Metric) /\ n \in Nat /\ DOMAIN metrics = 1..n
      <4>1. metrics \in Seq(Metric)
        BY Zenon DEF StartInv, Enrolled
      <4> QED
        BY <4>1
    <3>5. n = IF boot = "fallback" THEN u ELSE 0
      BY <1>1, Zenon DEF StartInv, Enrolled
    <3>6. Len(r) \in Nat /\ Len(r) = IF boot = "fallback" THEN Len(config.fallback) ELSE u
      BY <1>1, <2>3, <3>1, <3>2 DEF Entries
    <3>7. /\ metrics' \in Seq(Metric) /\ Len(metrics') = n + Len(r)
          /\ DOMAIN metrics' = 1..(n + Len(r))
          /\ \A i \in 1..(n + Len(r)) : metrics'[i] = IF i <= n THEN metrics[i] ELSE r[i - n]
      <4>1. metrics' = metrics \o r
        BY <2>1, Zenon
      <4> HIDE DEF r, n
      <4>2. metrics' \in Seq(Metric) /\ Joins(metrics', metrics, r)
        BY <3>2, <3>4, <4>1, OneAfterOther, Zenon
      <4> QED
        BY <4>2, Zenon DEF Joins, n
    <3>a. Joins(Configured, config.upstream, config.fallback)
      BY ConfigFacts, OneAfterOther, Zenon DEF StartInv, Configured
    <3> HIDE DEF r
    <3>8. ASSUME NEW i \in DOMAIN metrics'
          PROVE  /\ metrics'[i].id = Place(i, u) /\ metrics'[i].group = metrics'[i].id[1]
                 /\ Dialled(metrics'[i].ips, config.prefer_ipv6)
                 /\ Fits(metrics'[i], Configured[i])
      <4>1. CASE i <= n
        <5>1. i \in DOMAIN metrics /\ metrics'[i] = metrics[i]
          BY <3>4, <3>6, <3>7, <4>1
        <5> QED
          BY <5>1, Zenon DEF StartInv, Enrolled
      <4>2. CASE ~(i <= n)
        <5>1. i - n \in 1..Len(r) /\ metrics'[i] = r[i - n]
          BY <3>4, <3>6, <3>7, <4>2, SMTT(30)
        <5>2. /\ metrics'[i].id = <<boot, (i - n) - 1>> /\ metrics'[i].group = metrics'[i].id[1]
              /\ Dialled(metrics'[i].ips, config.prefer_ipv6)
              /\ Fits(metrics'[i], Entries[i - n])
          BY <3>3, <5>1, Zenon
        <5>3. CASE boot = "fallback"
          <6>1. ~(i <= u) /\ (i - n) - 1 = i - 1 - u
            BY <2>3, <3>5, <3>7, <4>2, <5>3
          <6>2. Entries[i - n] = Configured[i]
            <7>1. n = u /\ Len(r) = Len(config.fallback) /\ Entries = config.fallback
              BY <3>5, <3>6, <5>3, Zenon DEF Entries
            <7>2. i \in 1..(u + Len(config.fallback))
              BY <3>7, <7>1, Zenon
            <7> QED
              BY <3>a, <6>1, <7>1, <7>2, Zenon DEF Joins
          <6> QED
            BY <5>2, <5>3, <6>1, <6>2, Zenon DEF Place
        <5>4. CASE boot = "primary"
          <6>1. i <= u /\ (i - n) - 1 = i - 1
            BY <2>3, <3>5, <3>6, <3>7, <5>4
          <6>2. Entries[i - n] = Configured[i]
            <7>1. n = 0 /\ Len(r) = u /\ Entries = config.upstream
              BY <3>5, <3>6, <5>4, Zenon DEF Entries
            <7>2. i \in 1..(u + Len(config.fallback)) /\ i - n = i
              <8>1. i \in 1..(n + Len(r))
                BY <3>7, Zenon
              <8>2. u \in Nat /\ Len(config.fallback) \in Nat
                BY <2>3, Zenon
              <8>3. n = 0 /\ Len(r) = u
                BY <7>1, Zenon
              <8> HIDE DEF n, r, u
              <8> QED
                BY <8>1, <8>2, <8>3, FirstPlaces
            <7> QED
              BY <3>a, <6>1, <7>1, <7>2, Zenon DEF Joins
          <6> QED
            BY <5>2, <5>4, <6>1, <6>2, Zenon DEF Place
        <5> QED
          BY <1>1, <5>3, <5>4, Zenon
      <4> QED
        BY <4>1, <4>2, Zenon
    <3>9. Len(metrics') = CASE boot' = "fallback" -> u
                            [] boot' \in {"http", "dns", "built"} -> u + Len(config.fallback)
                            [] OTHER -> 0
      <4>1. Len(metrics') = n + Len(r)
        BY <3>7, Zenon
      <4> HIDE DEF n, u
      <4>2. CASE boot = "primary" /\ config.fallback # <<>>
        <5>1. n + Len(r) = u /\ boot' = "fallback"
          BY <2>1, <2>3, <3>5, <3>6, <4>2 DEF u
        <5> QED
          BY <4>1, <5>1, Zenon
      <4>3. CASE ~(boot = "primary" /\ config.fallback # <<>>)
        <5>1. n + Len(r) = u + Len(config.fallback) /\ boot' = "http"
          <6>1. CASE boot = "fallback"
            BY <2>1, <2>3, <3>5, <3>6, <6>1, Zenon DEF u
          <6>2. CASE boot = "primary"
            <7>1. Len(config.fallback) = 0 /\ n = 0 /\ Len(r) = u
              BY <2>3, <3>5, <3>6, <4>3, <6>2, Zenon DEF u
            <7> QED
              BY <2>1, <2>3, <4>3, <6>2, <7>1, SMTT(30) DEF u
          <6> QED
            BY <1>1, <6>1, <6>2, Zenon
        <5> QED
          BY <4>1, <5>1
      <4> QED
        BY <4>2, <4>3
    <3>10. config' = config /\ Configured' = Configured
      BY <2>1, Zenon DEF Configured
    <3> QED
      BY <3>7, <3>8, <3>9, <3>10, Zenon DEF Enrolled
  <2> QED
    BY <2>2, <2>4, <2>5, <2>6 DEF StartInv
<1> QED
  BY <1>2, <1>3

\* While the rules are loaded and while a lookup goes on, nothing else changes.
LEMMA LoadSteps ==
  ASSUME StartInv, Loads(FetchStep) \/ Looks(BootstrapStep)
  PROVE  StartInv'
<1>1. Asked' /\ config' = config /\ source' \in Nat \ {0}
  <2>1. CASE Loads(FetchStep)
    BY <2>1, FetchAsked, Zenon DEF Loads, StartInv
  <2>2. CASE Looks(BootstrapStep)
    <3>1. Asked' /\ config' = config
      BY <2>2, LookupStep, Zenon DEF Looks, StartInv
    <3>2. source' = source
      BY <2>2, Zenon DEF Looks, fetchVars
    <3> QED
      BY <3>1, <3>2 DEF StartInv
  <2> QED
    BY <2>1, <2>2
<1>2. UNCHANGED <<boot, building, ips, group, metrics, subnet, recorder, http_port, dns_port>>
  BY DEF Loads, Looks, buildVars, hostVars
<1>3. Prepared'
  BY <1>1, <1>2, PreparedStays, Zenon DEF StartInv
<1>4. Enrolled'
  BY <1>1, <1>2, EnrolledStays, Zenon DEF StartInv
<1>5. Hosted'
  BY <1>1, <1>2 DEF StartInv, Hosted
<1> QED
  BY <1>1, <1>3, <1>4, <1>5, Zenon DEF StartInv

\* Every step of a start keeps the invariant.
LEMMA StartInductive == StartInv /\ [StartNext]_startVars => StartInv'
BY StartStutter, HostSteps, MemberSteps, GroupSteps, LoadSteps, Zenon DEF StartNext, OwnStep

\* run_until begins where build_runtime has returned.
LEMMA ServeKeeps ==
  ASSUME StartInv, Serve
  PROVE  StartInv'
<1> USE DEF Serve
<1>1. config' \in Configs /\ source' \in Nat \ {0}
  BY DEF StartInv
<1>2. Asked'
  BY NoLookupAsked
<1>3. Prepared'
  <2>1. group' = <<>> /\ ips' = <<>> /\ building' = "none" /\ ~InGroup'
    BY Zenon DEF InGroup
  <2> QED
    BY <2>1, NoMembers, Zenon DEF Prepared
<1>4. Enrolled'
  <2>1. metrics' = <<>> /\ boot' = "serving"
    BY Zenon
  <2> QED
    BY <2>1, NoMembers, Zenon DEF Enrolled
<1>5. Hosted'
  BY DEF StartInv, Hosted, Boots
<1> QED
  BY <1>1, <1>2, <1>3, <1>4, <1>5, Zenon DEF StartInv

\* The inductive invariant of the start, over the whole life of the process.
LEMMA StartInvariant == LifeSpec => []StartInv
<1>1. LifeInit => StartInv
  BY StartInitial, Zenon DEF LifeInit
<1>2. StartInv /\ [LifeNext]_lifeVars => StartInv'
  <2> SUFFICES ASSUME StartInv, [LifeNext]_lifeVars PROVE StartInv'
    OBVIOUS
  <2>1. [StartNext]_startVars => StartInv'
    BY StartInductive, Zenon
  <2>2. Serve => StartInv'
    BY ServeKeeps, Zenon
  <2> QED
    BY <2>1, <2>2, Zenon DEF LifeNext, Starting, Serving, lifeVars
<1> QED
  BY <1>1, <1>2, PTL DEF LifeSpec
-----------------------------------------------------------------------------
(* What the start promises                                                 *)

\* The ids of the members differ (build_pipeline).
LEMMA PlacesDiffer ==
  ASSUME NEW n \in Nat, NEW i \in Nat, NEW j \in Nat, i # j
  PROVE  Place(i, n) # Place(j, n)
<1>1. ASSUME NEW a, NEW b, NEW c \in Int, NEW d \in Int, <<a, c>> = <<b, d>> PROVE a = b /\ c = d
  BY <1>1
<1>2. "primary" # "fallback"
  OBVIOUS
<1> QED
  BY <1>1, <1>2 DEF Place

\* What is served is what is configured, for every configuration, whatever the
\* bootstrap servers and the servers of rules reply, and however many addresses a
\* name has (build_pipeline, build_runtime, resolve_ips, sort_by_family,
\* mask_ip).
THEOREM ServedAsConfigured == LifeSpec => []BuiltAsConfigured
<1>1. StartInv => BuiltAsConfigured
  <2> SUFFICES ASSUME StartInv, boot = "built" PROVE BuiltAsConfigured
    BY Zenon DEF BuiltAsConfigured
  <2> DEFINE u == Len(config.upstream)
  <2>1. recorder = "running" /\ http_port = "own" /\ dns_port = "own"
    BY DEF StartInv, Hosted
  <2>2. u \in Nat
    BY ConfigFacts DEF StartInv
  <2>3. Len(metrics) = u + Len(config.fallback)
    BY DEF StartInv, Enrolled
  <2>4. metrics \in Seq(Metric)
    BY Zenon DEF StartInv, Enrolled
  <2>5. \A i \in DOMAIN metrics : i \in Nat
    BY <2>4
  <2> HIDE DEF u
  <2>6. \A i \in DOMAIN metrics :
          /\ metrics[i].id = Place(i, u) /\ metrics[i].group = metrics[i].id[1]
          /\ Dialled(metrics[i].ips, config.prefer_ipv6) /\ Fits(metrics[i], Configured[i])
    BY Zenon DEF StartInv, Enrolled, u
  <2>7. \A i, j \in DOMAIN metrics : i # j => metrics[i].id # metrics[j].id
    <3> SUFFICES ASSUME NEW i \in DOMAIN metrics, NEW j \in DOMAIN metrics, i # j
                 PROVE  metrics[i].id # metrics[j].id
      OBVIOUS
    <3>1. Place(i, u) # Place(j, u)
      BY <2>2, <2>5, PlacesDiffer, Zenon
    <3>2. metrics[i].id = Place(i, u) /\ metrics[j].id = Place(j, u)
      BY <2>6, Zenon
    <3> QED
      BY <3>1, <3>2, Zenon
  <2>8. ASSUME NEW i \in DOMAIN metrics
        PROVE  metrics[i].group = IF i <= u THEN "primary" ELSE "fallback"
    <3>1. metrics[i].group = Place(i, u)[1]
      BY <2>6, Zenon
    <3> QED
      BY <3>1 DEF Place
  <2>9. ASSUME NEW i \in DOMAIN metrics
        PROVE  metrics[i].ips # <<>> /\ Range(metrics[i].ips) \subseteq V4 \cup V6
    <3>1. metrics[i].ips \in Seq(Addresses) /\ metrics[i].ips # <<>>
      BY <2>6, Zenon DEF Dialled
    <3>2. \A k \in DOMAIN metrics[i].ips : metrics[i].ips[k] \in Addresses
      BY <3>1
    <3> QED
      BY <3>1, <3>2, Zenon DEF Range, Addresses
  <2>10. ASSUME NEW i \in DOMAIN metrics
         PROVE  \A k, l \in DOMAIN metrics[i].ips :
                  (metrics[i].ips[k] \in V6) = config.prefer_ipv6
                  /\ (metrics[i].ips[l] \in V6) # config.prefer_ipv6 => k < l
    BY <2>6, Zenon DEF Dialled
  <2>12. ASSUME NEW i \in DOMAIN metrics
         PROVE  Fits(metrics[i], (config.upstream \o config.fallback)[i])
    BY <2>6, Zenon DEF Configured
  <2>11. subnet = IF config.fixed_subnet.family # "none"
                     /\ config.fixed_subnet.prefix <= Bits[config.fixed_subnet.family]
                  THEN Network(config.fixed_subnet) ELSE NoSubnet
    <3>1. subnet = subnet_from_config(config.fixed_subnet) /\ config.fixed_subnet \in Subnet
      BY ConfigFacts DEF StartInv, Hosted
    <3> QED
      BY <3>1, SubnetFacts, Zenon
  <2> QED
    BY <2>1, <2>3, <2>7, <2>8, <2>9, <2>10, <2>11, <2>12, Zenon DEF BuiltAsConfigured, u
<1> QED
  BY <1>1, StartInvariant, PTL

\* A start that has failed has left nothing behind: the worker has been told to
\* stop or was never there, and no port is kept (the error paths of
\* build_runtime).
FailedLeavesNothing ==
  boot = "failed" => recorder # "running" /\ "own" \notin {http_port, dns_port}

\* A start leaves nothing behind wherever it fails (build_runtime).
THEOREM FailureLeavesNothing == LifeSpec => []FailedLeavesNothing
<1>1. StartInv => FailedLeavesNothing
  BY DEF StartInv, Hosted, FailedLeavesNothing
<1> QED
  BY <1>1, StartInvariant, PTL

\* What has come of a text is no more than the text, and no more than the limit.
Counted(f) ==
  /\ DOMAIN f = DOMAIN NoFetch
  /\ f.length \in Nat /\ f.got \in Nat /\ f.got <= f.length /\ f.got <= MAX_BODY
  /\ f.stage # "body" => f.got = 0

\* What is fetched is a source's that is a URL.
Fetching == Counted(fetch) /\ (fetch.stage # "none" => config.rule_sources[source].kind = "url")

\* No request.
LEMMA NoneCounted == Counted(NoFetch)
BY FetchAssumption DEF Counted, NoFetch

\* What does not count may change (fetch_url).
LEMMA FieldSet ==
  ASSUME NEW f, Counted(f), NEW k \in {"ips", "url", "redirects", "framed"}, NEW v
  PROVE  Counted([f EXCEPT ![k] = v]) /\ [f EXCEPT ![k] = v].stage = f.stage
<1> DEFINE g == [f EXCEPT ![k] = v]
<1>1. /\ "stage" \in DOMAIN f /\ "length" \in DOMAIN f /\ "got" \in DOMAIN f
      /\ k # "stage" /\ k # "length" /\ k # "got"
  BY Zenon DEF Counted, NoFetch
<1>2. g.stage = f.stage /\ g.length = f.length /\ g.got = f.got /\ DOMAIN g = DOMAIN f
  BY <1>1
<1> HIDE DEF g
<1>3. Counted(g)
  BY <1>2, Zenon DEF Counted
<1> QED
  BY <1>2, <1>3, Zenon DEF g

\* On to a step before the body, with the text still to come (fetch_url).
LEMMA StageSet ==
  ASSUME NEW f, Counted(f), f.stage # "body", NEW v
  PROVE  /\ Counted([f EXCEPT !.stage = v]) /\ [f EXCEPT !.stage = v].stage = v
         /\ [f EXCEPT !.stage = v].got = 0
<1> DEFINE g == [f EXCEPT !.stage = v]
<1>1. "stage" \in DOMAIN f /\ "length" \in DOMAIN f /\ "got" \in DOMAIN f
  BY Zenon DEF Counted, NoFetch
<1>2. g.stage = v /\ g.length = f.length /\ g.got = f.got /\ DOMAIN g = DOMAIN f
  BY <1>1
<1> HIDE DEF g
<1>3. Counted(g) /\ g.got = 0
  BY <1>2, Zenon DEF Counted
<1> QED
  BY <1>2, <1>3, Zenon DEF g

\* The response says what the body will be (fetch_url).
LEMMA LengthSet ==
  ASSUME NEW f, Counted(f), f.got = 0, NEW n \in Nat
  PROVE  Counted([f EXCEPT !.length = n]) /\ [f EXCEPT !.length = n].stage = f.stage
<1> DEFINE g == [f EXCEPT !.length = n]
<1>1. "stage" \in DOMAIN f /\ "length" \in DOMAIN f /\ "got" \in DOMAIN f
  BY Zenon DEF Counted, NoFetch
<1>2. g.stage = f.stage /\ g.length = n /\ g.got = 0 /\ DOMAIN g = DOMAIN f
  BY <1>1
<1> HIDE DEF g
<1>3. 0 \in Nat /\ 0 <= n /\ 0 <= MAX_BODY
  BY FetchAssumption
<1>4. Counted(g)
  BY <1>2, <1>3, Zenon DEF Counted
<1> QED
  BY <1>2, <1>4, Zenon DEF g

\* A frame comes (fetch_url).
LEMMA GotSet ==
  ASSUME NEW f, Counted(f), f.stage = "body", f.got < f.length, ~(f.got + 1 > MAX_BODY)
  PROVE  /\ Counted([f EXCEPT !.got = f.got + 1])
         /\ [f EXCEPT !.got = f.got + 1].stage = f.stage
<1> DEFINE g == [f EXCEPT !.got = f.got + 1]
<1>1. "stage" \in DOMAIN f /\ "length" \in DOMAIN f /\ "got" \in DOMAIN f
  BY Zenon DEF Counted, NoFetch
<1>2. g.stage = f.stage /\ g.length = f.length /\ g.got = f.got + 1 /\ DOMAIN g = DOMAIN f
  BY <1>1
<1> HIDE DEF g
<1>3. f.got \in Nat /\ f.length \in Nat /\ MAX_BODY \in Nat
  BY FetchAssumption, Zenon DEF Counted
<1>4. f.got + 1 \in Nat /\ f.got + 1 <= f.length /\ f.got + 1 <= MAX_BODY
  BY <1>3
<1>5. Counted(g)
  BY <1>2, <1>4, Zenon DEF Counted
<1> QED
  BY <1>2, <1>5, Zenon DEF g

\* A request goes on with the same source (fetch_url).
LEMMA FetchingOn ==
  ASSUME Fetching, fetch.stage # "none", Counted(fetch'), UNCHANGED <<source, config>>
  PROVE  Fetching'
BY Zenon DEF Fetching

\* A source is done with (load_sources).
LEMMA FetchingDone ==
  ASSUME fetch' = NoFetch
  PROVE  Fetching'
<1>1. fetch'.stage = "none"
  BY DEF NoFetch
<1> QED
  BY <1>1, NoneCounted, Zenon DEF Fetching

\* The next request of a source that is a URL (load_sources, fetch_url).
LEMMA Requested ==
  ASSUME NEW f, f = [NoFetch EXCEPT !.stage = "request"], NEW u, NEW r
  PROVE  Counted([f EXCEPT !.url = u]) /\ Counted([[f EXCEPT !.url = u] EXCEPT !.redirects = r])
<1>1. Counted(f)
  <2>1. NoFetch.stage # "body"
    BY DEF NoFetch
  <2> QED
    BY <2>1, NoneCounted, StageSet, Zenon
<1> DEFINE g == [f EXCEPT !.url = u]
<1>2. Counted(g)
  BY <1>1, FieldSet, Zenon
<1> HIDE DEF g
<1>3. Counted([g EXCEPT !.redirects = r])
  BY <1>2, FieldSet, Zenon
<1> QED
  BY <1>2, <1>3, Zenon DEF g

\* Every step of load_sources counts what has come of a text.
LEMMA FetchCounts ==
  ASSUME config \in Configs, source \in Nat \ {0}, Fetching, FetchStep
  PROVE  Fetching'
<1>0. Counted(fetch)
  BY Zenon DEF Fetching
<1>1. CASE Skip
  BY <1>1, FetchingDone, Zenon DEF Skip
<1>2. ASSUME NEW a, NEW b, NEW c, Merge(a, b, c) PROVE Fetching'
  BY <1>2, FetchingDone, Zenon DEF Merge
<1>3. CASE LoadSource
  <2>1. CASE /\ config.rule_sources[source].kind = "url"
             /\ fetch' = [NoFetch EXCEPT !.stage = "request", !.url = config.rule_sources[source].url]
             /\ UNCHANGED <<source, merged, lookup, config>>
    <3>1. Counted(fetch')
      BY <2>1, Requested, Zenon
    <3> QED
      BY <2>1, <3>1, Zenon DEF Fetching
  <2> QED
    BY <1>1, <1>2, <1>3, <2>1, LoadSourceCases, Zenon
<1>4. CASE Request /\ ~Skip
  <2>1. fetch.stage = "request" /\ fetch.stage # "body" /\ UNCHANGED <<source, config>>
    BY <1>4, Zenon DEF Request
  <2>2. CASE To("resolve")
    <3>1. Counted(fetch')
      BY <1>0, <2>1, <2>2, StageSet, Zenon DEF To
    <3> QED
      BY <2>1, <3>1, FetchingOn, Zenon
  <2>3. CASE fetch' = [fetch EXCEPT !.stage = "connect", !.ips = <<Min(V4)>>]
    <3>1. Counted([fetch EXCEPT !.stage = "connect"])
      BY <1>0, <2>1, StageSet, Zenon
    <3>2. Counted(fetch')
      BY <2>3, <3>1, FieldSet, Zenon
    <3> QED
      BY <2>1, <3>2, FetchingOn, Zenon
  <2> QED
    BY <1>4, <2>2, <2>3, Zenon DEF Request
<1>5. CASE Resolved /\ ~Skip
  <2>1. /\ fetch.stage = "resolve" /\ fetch.stage # "body" /\ UNCHANGED <<source, config>>
        /\ fetch' = [fetch EXCEPT !.stage = "connect", !.ips = resolve_ips]
    BY <1>5, Zenon DEF Resolved
  <2>2. Counted([fetch EXCEPT !.stage = "connect"])
    BY <1>0, <2>1, StageSet, Zenon
  <2>3. Counted(fetch')
    BY <2>1, <2>2, FieldSet, Zenon
  <2> QED
    BY <2>1, <2>3, FetchingOn, Zenon
<1>6. CASE Connects \/ Handshake
  <2>1. /\ fetch.stage # "body" /\ fetch.stage # "none" /\ UNCHANGED <<source, config>>
        /\ \E v : fetch' = [fetch EXCEPT !.stage = v]
    BY <1>6, Zenon DEF Connects, Handshake, To
  <2>2. Counted(fetch')
    <3>1. PICK v : fetch' = [fetch EXCEPT !.stage = v]
      BY <2>1, Zenon
    <3>2. Counted([fetch EXCEPT !.stage = v])
      BY <1>0, <2>1, StageSet, Zenon
    <3> QED
      BY <3>1, <3>2, Zenon
  <2> QED
    BY <2>1, <2>2, FetchingOn, Zenon
<1>7. CASE ConnectFails /\ ~Skip
  <2>1. /\ fetch.stage # "none" /\ UNCHANGED <<source, config>>
        /\ fetch' = [fetch EXCEPT !.ips = Tail(fetch.ips)]
    BY <1>7, Zenon DEF ConnectFails
  <2>2. Counted(fetch')
    BY <1>0, <2>1, FieldSet, Zenon
  <2> QED
    BY <2>1, <2>2, FetchingOn, Zenon
<1>8. ASSUME NEW url, Redirect(url) PROVE Fetching'
  <2>1. /\ fetch.stage # "none" /\ UNCHANGED <<source, config>>
        /\ fetch' = [NoFetch EXCEPT !.stage = "request", !.url = url,
                                    !.redirects = fetch.redirects + 1]
    BY <1>8, Zenon DEF Redirect
  <2>2. Counted(fetch')
    BY <2>1, Requested, Zenon
  <2> QED
    BY <2>1, <2>2, FetchingOn, Zenon
<1>9. ASSUME NEW n \in Lengths, NEW framed \in BOOLEAN, Success(n, framed) PROVE Fetching'
  <2>1. /\ fetch.stage = "response" /\ fetch.stage # "body" /\ fetch.stage # "none"
        /\ UNCHANGED <<source, config>>
        /\ fetch' = [fetch EXCEPT !.stage = "body", !.length = n, !.framed = framed]
    BY <1>9, Zenon DEF Success
  <2>2. n \in Nat
    BY FetchAssumption
  <2> DEFINE g == [fetch EXCEPT !.stage = "body"]
             h == [g EXCEPT !.length = n]
  <2>3. Counted(g) /\ g.got = 0
    BY <1>0, <2>1, StageSet, Zenon
  <2>4. fetch' = [h EXCEPT !.framed = framed]
    BY <2>1, Zenon
  <2> HIDE DEF g
  <2>5. Counted(h)
    BY <2>2, <2>3, LengthSet, Zenon
  <2> HIDE DEF h
  <2>6. Counted(fetch')
    BY <2>4, <2>5, FieldSet, Zenon
  <2> QED
    BY <2>1, <2>6, FetchingOn, Zenon
<1>10. CASE Frame /\ ~Skip
  <2>1. /\ fetch.stage = "body" /\ fetch.stage # "none" /\ UNCHANGED <<source, config>>
        /\ fetch.got < fetch.length /\ ~(fetch.got + 1 > MAX_BODY)
        /\ fetch' = [fetch EXCEPT !.got = fetch.got + 1]
    BY <1>10, Zenon DEF Frame
  <2>2. Counted(fetch')
    BY <1>0, <2>1, GotSet, Zenon
  <2> QED
    BY <2>1, <2>2, FetchingOn, Zenon
<1>11. CASE BodyEnds
  BY <1>2, <1>11, Zenon DEF BodyEnds
<1>12. CASE FetchFails \/ FetchTimeout
  BY <1>1, <1>12, Zenon DEF FetchFails, FetchTimeout
<1> QED
  BY <1>1, <1>3, <1>4, <1>5, <1>6, <1>7, <1>8, <1>9, <1>10, <1>11, <1>12, Zenon DEF FetchStep

\* One more text (load_sources).
LEMMA OneMerged ==
  ASSUME WholeIfMarked, NEW got, NEW length, NEW marked, Merge(got, length, marked),
         got = length \/ (~marked /\ got < length),
         config.rule_sources[source].kind = "url" => got <= MAX_BODY
  PROVE  WholeIfMarked'
<1> DEFINE t == [source |-> source, got |-> got, length |-> length, marked |-> marked]
<1>1. merged' = merged \cup {t} /\ config' = config
  BY Zenon DEF Merge
<1>2. t.source = source /\ t.got = got /\ t.length = length /\ t.marked = marked
  BY Zenon
<1> HIDE DEF t
<1> QED
  BY <1>1, <1>2, Zenon DEF WholeIfMarked

\* A text is merged once all of it has come, or once its connection has ended if
\* nothing else says where it ends (fetch_url, load_sources).
LEMMA MergedWhole ==
  ASSUME config \in Configs, source \in Nat \ {0}, Fetching, WholeIfMarked, FetchStep
  PROVE  WholeIfMarked'
<1>2. CASE UNCHANGED <<merged, config>>
  BY <1>2, Zenon DEF WholeIfMarked
<1>3. CASE LoadSource
  <2>1. ASSUME NEW n \in Lengths, config.rule_sources[source].kind = "path", Merge(n, n, TRUE)
        PROVE  WholeIfMarked'
    <3>1. config.rule_sources[source].kind # "url"
      BY <2>1
    <3> QED
      BY <2>1, <3>1, OneMerged, Zenon
  <2> QED
    BY <1>2, <1>3, <2>1, LoadSourceCases, Zenon DEF Skip
<1>4. CASE BodyEnds
  <2>1. /\ config.rule_sources[source].kind = "url" /\ fetch.got <= MAX_BODY
        /\ fetch.got \in Nat /\ fetch.length \in Nat /\ fetch.got <= fetch.length
    BY <1>4, Zenon DEF BodyEnds, Fetching, Counted
  <2>2. fetch.got = fetch.length \/ fetch.got < fetch.length
    BY <2>1
  <2>3. (Marked => fetch.got = fetch.length) /\ Merge(fetch.got, fetch.length, Marked)
    BY <1>4, Zenon DEF BodyEnds
  <2> QED
    BY <2>1, <2>2, <2>3, OneMerged, Zenon
<1>5. CASE Request \/ Resolved \/ Connects \/ ConnectFails \/ Handshake
  BY <1>2, <1>5, Zenon DEF Request, Resolved, Connects, ConnectFails, Handshake, Skip
<1>6. CASE \/ \E url \in Urls \cup {fetch.url} : Redirect(url)
           \/ \E n \in Lengths, framed \in BOOLEAN : Success(n, framed)
  BY <1>2, <1>6, Zenon DEF Redirect, Success
<1>7. CASE Frame \/ FetchFails \/ FetchTimeout
  BY <1>2, <1>7, Zenon DEF Frame, FetchFails, FetchTimeout, Skip
<1> QED
  BY <1>3, <1>4, <1>5, <1>6, <1>7, Zenon DEF FetchStep

Loaded == Fetching /\ WholeIfMarked

\* The rules of a source are those of its whole text, of any length, for any limit,
\* any redirects and timeouts, and wherever connections break, but for a body
\* over plain HTTP that only the end of its connection ends; and no text that was
\* fetched is above the limit (fetch_url, load_sources).
THEOREM RulesWhole == LifeSpec => []WholeIfMarked
<1>1. LifeInit => Loaded
  <2> SUFFICES ASSUME LifeInit PROVE Loaded
    OBVIOUS
  <2>1. fetch = NoFetch /\ merged = {}
    BY Zenon DEF LifeInit, StartInit, FetchInit
  <2>2. NoFetch.stage = "none"
    BY DEF NoFetch
  <2> QED
    BY <2>1, <2>2, NoneCounted, Zenon DEF Loaded, Fetching, WholeIfMarked
<1>2. Loaded /\ StartInv /\ [LifeNext]_lifeVars => Loaded'
  <2> SUFFICES ASSUME Loaded, StartInv, [LifeNext]_lifeVars PROVE Loaded'
    OBVIOUS
  <2>1. CASE UNCHANGED <<config, fetchVars>>
    BY <2>1, Zenon DEF Loaded, Fetching, WholeIfMarked, fetchVars
  <2>2. CASE fetch' = NoFetch /\ merged' = {}
    BY <2>2, FetchingDone, Zenon DEF Loaded, WholeIfMarked
  <2>3. CASE FetchStep
    BY <2>3, FetchCounts, MergedWhole, Zenon DEF StartInv, Loaded
  <2>4. UNCHANGED <<config, fetchVars>> \/ (fetch' = NoFetch /\ merged' = {}) \/ FetchStep
    <3>1. CASE UNCHANGED lifeVars \/ Serving(RuntimeNext)
      BY <3>1 DEF lifeVars, Serving, startVars
    <3>2. CASE Serve
      BY <3>2 DEF Serve
    <3>3. CASE StartNext
      <4>2. CASE OwnStep
        BY <4>2, Zenon
           DEF OwnStep, LoadConfig, OpenStore, StartWorker, BuildBootstrap, RulesLoaded, BuildMember,
               AddressesKnown, FindEch, NewDoh, GroupBuilt, BindHttp, BindDns, Abort, Push, Wait
      <4>3. CASE Looks(BootstrapStep)
        BY <4>3, LookupStep, Zenon DEF Looks, StartInv
      <4>4. CASE Loads(FetchStep)
        BY <4>4, Zenon DEF Loads
      <4> QED
        BY <3>3, <4>2, <4>3, <4>4, Zenon DEF StartNext
    <3> QED
      BY <3>1, <3>2, <3>3, Zenon DEF LifeNext, Starting
  <2> QED
    BY <2>1, <2>2, <2>3, <2>4, Zenon
<1>3. Loaded => WholeIfMarked
  BY Zenon DEF Loaded
<1> QED
  BY <1>1, <1>2, <1>3, StartInvariant, PTL DEF LifeSpec
-----------------------------------------------------------------------------
(* The life of the process                                                 *)

\* A process that starts and then serves is, for the services and the worker, a
\* runtime that has not begun to serve, and then one that serves: the steps of
\* build_runtime are stutters of run_until's specification (main.rs).
THEOREM LifeRunsRuntime == LifeSpec => RuntimeSpec
<1>1. LifeInit => RuntimeInit
  BY Zenon DEF LifeInit
<1>2. [LifeNext]_lifeVars => [RuntimeNext]_allVars
  <2>1. Starting(StartNext) => UNCHANGED allVars
    BY Zenon DEF Starting
  <2>2. Serve => UNCHANGED allVars
    BY DEF Serve
  <2>3. Serving(RuntimeNext) => RuntimeNext
    BY Zenon DEF Serving
  <2>4. UNCHANGED lifeVars => UNCHANGED allVars
    BY DEF lifeVars
  <2> QED
    BY <2>1, <2>2, <2>3, <2>4, Zenon DEF LifeNext
<1> QED
  BY <1>1, <1>2, PTL DEF LifeSpec, RuntimeSpec

\* From main to its end: the history is what was recorded, in order and without
\* gaps but the counted ones; what was recorded before the worker is told to stop
\* is in the database, unless the timer was first; and no query's event finds the
\* history closed, unless the DNS service had to be dropped or the worker never
\* ran (main.rs, dashboard/mod.rs, store.rs).
THEOREM LifeHistory == LifeSpec => [](HistoryExact /\ FlushedUnlessTimer /\ NothingTurnedAway)
BY LifeRunsRuntime, RuntimeHistory, NothingTurnedAwayAlways, PTL
===============================================================================
