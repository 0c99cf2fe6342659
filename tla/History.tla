------------------------------- MODULE History -------------------------------
(***************************************************************************)
(* The query history (dashboard/store.rs): the detail rows with their      *)
(* response addresses, the hourly and daily totals kept beside them, the   *)
(* cleanup, and the dashboard's reads (dashboard/http.rs), whose           *)
(* parameters are validated and which run on a blocking thread under a     *)
(* limited number of permits and a deadline (database_operation).          *)
(*                                                                         *)
(* SQLite (external) runs a transaction, or a statement outside one, as    *)
(* one step, or it fails and changes nothing.  The detail page is read by  *)
(* several statements without a transaction; trend, rankings and           *)
(* response_time are one statement each, a "summary" here.                 *)
(***************************************************************************)
EXTENDS Integers, Sequences, FiniteSetsExt

CONSTANTS
  HOUR, DAY,     \* in ticks
  Retentions,    \* values of retention_days considered; 0: for ever
  HOURLY_DAYS,   \* up to this retention the trend is by the hour (15)
  TREND_DAYS,    \* the length of the trend when nothing is forgotten (30)
  Clock,         \* readings of the wall clock
  Addresses,     \* response addresses
  Events,        \* what is recorded: [at, blocked, ips]
  Pages,         \* pages asked for: [page, page_size]
  MAX_QUERY_PAGE_SIZE,  \* 200
  I64_MAX,       \* the largest offset SQLite takes
  Requests,      \* dashboard requests
  Permits,       \* DATABASE_READ_CONCURRENCY
  MaxRows        \* bound: events written in a checked instance

ASSUME HistoryAssumption ==
  /\ HOUR \in Nat \ {0} /\ DAY \in Nat \ {0} /\ DAY % HOUR = 0
  /\ Retentions \subseteq Nat /\ HOURLY_DAYS \in Nat /\ TREND_DAYS \in Nat \ {0}
  /\ Clock \subseteq Nat
  /\ Events \subseteq [at : Clock, blocked : BOOLEAN, ips : SUBSET Addresses]
  /\ Pages \subseteq [page : Nat, page_size : Nat]
  /\ MAX_QUERY_PAGE_SIZE \in Nat \ {0} /\ I64_MAX \in Nat /\ Permits \in Nat \ {0} /\ MaxRows \in Nat

VARIABLES
  retention_days,       \* of this configuration
  query_logs,           \* the detail rows: [id, at, blocked], and their number
  query_response_ips,   \* pairs of a row's id and an address
  hourly, daily,        \* totals: [bucket -> [total, blocked]], present buckets only
  sequence,             \* the last id given out (AUTOINCREMENT, as Store::open declares it)
  params,               \* what a dashboard request asks for
  request,              \* what it is waiting for, or how it was answered
  late,                 \* whether its deadline has passed
  reader,               \* the blocking thread of a request, which holds a permit
  page,                 \* what it has read
  cutoff,               \* history: the latest cutoff of a cleanup
  answers               \* history: the addresses of each row ever written

tables == <<query_logs, query_response_ips, hourly, daily, sequence>>
reads == <<params, request, late, reader, page>>
vars == <<retention_days, tables, reads, cutoff, answers>>

Row == [id : 1..MaxRows, number : 1..MaxRows, at : Clock, blocked : BOOLEAN]
Totals == [total : Nat, blocked : Nat]
NoPage == [total |-> 0, rows |-> <<>>, ips |-> {}]

Summary == [kind |-> "summary"]
Malformed == [kind |-> "malformed"]  \* not UTF-8, not a number, too long a search
Params == {Summary, Malformed} \cup 
            {[kind |-> "queries", page |-> p.page, page_size |-> p.page_size] : p \in Pages}

Waiting == {"queued", "reading"}

Init ==
  /\ retention_days \in Retentions
  /\ query_logs = {} /\ query_response_ips = {} /\ sequence = 0
  /\ hourly = <<>> /\ daily = <<>>
  /\ params = [r \in Requests |-> Summary] /\ request = [r \in Requests |-> "none"]
  /\ late = [r \in Requests |-> FALSE] /\ reader = [r \in Requests |-> "none"]
  /\ page = [r \in Requests |-> NoPage]
  /\ cutoff = -DAY * retention_days /\ answers = <<>>
-----------------------------------------------------------------------------
(* Writing                                                                 *)

\* Mutant: to the next bucket.
bucket_startNext(t, interval) == ((t \div interval) + 1) * interval

bucket_start(t, interval) == (t \div interval) * interval

Plus(e) == IF e.blocked THEN 1 ELSE 0

\* INSERT ... ON CONFLICT DO UPDATE.
Counted(totals, bucket, e) ==
  [b \in DOMAIN totals \cup {bucket} |->
     IF b # bucket THEN totals[b]
     ELSE IF b \in DOMAIN totals
     THEN [total |-> totals[b].total + 1, blocked |-> totals[b].blocked + Plus(e)]
     ELSE [total |-> 1, blocked |-> Plus(e)]]

\* Mutant: the id follows the largest one in the table.
InsertReusingId(e) ==
  LET id == Max({0} \cup {row.id : row \in query_logs}) + 1
  IN  /\ sequence < MaxRows
      /\ sequence' = sequence + 1
      /\ query_logs' = query_logs \cup
           {[id |-> id, number |-> sequence + 1, at |-> e.at, blocked |-> e.blocked]}
      /\ query_response_ips' = query_response_ips \cup {<<id, ip>> : ip \in e.ips}
      /\ hourly' = Counted(hourly, bucket_start(e.at, HOUR), e)
      /\ daily' = Counted(daily, bucket_start(e.at, DAY), e)
      /\ answers' = Append(answers, e.ips)
      /\ UNCHANGED <<retention_days, reads, cutoff>>

\* insert_events, for one event (StoreWorker is about batches).
Insert(e) ==
  LET id == sequence + 1
  IN  /\ sequence < MaxRows
      /\ sequence' = id
      /\ query_logs' = query_logs \cup
           {[id |-> id, number |-> sequence + 1, at |-> e.at, blocked |-> e.blocked]}
      /\ query_response_ips' = query_response_ips \cup {<<id, ip>> : ip \in e.ips}
      /\ hourly' = Counted(hourly, bucket_start(e.at, HOUR), e)
      /\ daily' = Counted(daily, bucket_start(e.at, DAY), e)
      /\ answers' = Append(answers, e.ips)
      /\ UNCHANGED <<retention_days, reads, cutoff>>

\* Mutant: a bucket goes as soon as it starts before the cutoff.
KeptFromStart(totals, interval, c) ==
  [b \in {k \in DOMAIN totals : k >= c} |-> totals[b]]

\* The totals whose bucket does not end at or before the cutoff.
Kept(totals, interval, c) ==
  [b \in {k \in DOMAIN totals : k + interval > c} |-> totals[b]]

\* cleanup: the rows before the cutoff with their addresses (ON DELETE
\* CASCADE), and the totals that are entirely before it.
Cleanup(t) ==
  LET c == t - DAY * retention_days
      old == {row \in query_logs : row.at < c}
  IN  /\ retention_days # 0
      /\ query_logs' = query_logs \ old
      /\ query_response_ips' =
           {p \in query_response_ips : \A row \in old : p[1] # row.id}
      /\ hourly' = Kept(hourly, HOUR, c) /\ daily' = Kept(daily, DAY, c)
      /\ cutoff' = Max({c, cutoff})
      /\ UNCHANGED <<retention_days, sequence, reads, answers>>
-----------------------------------------------------------------------------
(* Reading: the requests and their threads                                 *)

Reading == {r \in Requests : reader[r] # "none"}

\* With 200 "ok", 400 "bad_request", 503 "timeout", or 500: "sqlite", "refused"
\* by the store, "expired" in read_connection.
Answer(r, status) == request' = [request EXCEPT ![r] = status]

\* Mutant: nobody looks at the offset.
validateNoOffset(p) ==
  /\ p.kind # "malformed"
  /\ p.kind = "queries" => p.page >= 1 /\ p.page_size \in 1..MAX_QUERY_PAGE_SIZE

\* validate_query_encoding and QueryParams::validate.
validate(p) ==
  /\ p.kind # "malformed"
  /\ p.kind = "queries" =>
       /\ p.page >= 1 /\ p.page_size \in 1..MAX_QUERY_PAGE_SIZE
       /\ (p.page - 1) * p.page_size <= I64_MAX

\* A handler is called: it turns the request away, or waits for a permit.
Ask(r, p) ==
  /\ request[r] \notin Waiting /\ reader[r] = "none"
  /\ params' = [params EXCEPT ![r] = IF validate(p) THEN p ELSE Malformed]
  /\ Answer(r, IF validate(p) THEN "queued" ELSE "bad_request")
  /\ late' = [late EXCEPT ![r] = FALSE] /\ page' = [page EXCEPT ![r] = NoPage]
  /\ UNCHANGED <<retention_days, tables, reader, cutoff, answers>>

\* Mutant: the permit goes back when its request is answered.
AcquireByRequest(r) ==
  /\ request[r] = "queued" /\ Cardinality({q \in Requests : request[q] = "reading"}) < Permits
  /\ Answer(r, "reading")
  /\ reader' = [reader EXCEPT ![r] = "connect"]
  /\ UNCHANGED <<retention_days, tables, params, late, page, cutoff, answers>>

\* acquire_owned and spawn_blocking: the thread takes the permit along.
Acquire(r) ==
  /\ request[r] = "queued" /\ Cardinality(Reading) < Permits
  /\ Answer(r, "reading")
  /\ reader' = [reader EXCEPT ![r] = "connect"]
  /\ UNCHANGED <<retention_days, tables, params, late, page, cutoff, answers>>

\* DATABASE_REQUEST_TIMEOUT passes ...
Expire(r) ==
  /\ request[r] \in Waiting /\ ~late[r]
  /\ late' = [late EXCEPT ![r] = TRUE]
  /\ UNCHANGED <<retention_days, tables, params, request, reader, page, cutoff, answers>>

\* ... and the request is answered; a thread it has goes on.
Timeout(r) ==
  /\ request[r] \in Waiting /\ late[r]
  /\ Answer(r, "timeout")
  /\ UNCHANGED <<retention_days, tables, params, late, reader, page, cutoff, answers>>

\* The thread returns; its request, if it still waits, gets the outcome.
Return(r, status) ==
  /\ reader' = [reader EXCEPT ![r] = "none"]
  /\ IF request[r] = "reading" THEN Answer(r, status) ELSE UNCHANGED request
  /\ UNCHANGED <<retention_days, tables, params, late, cutoff, answers>>

\* classify_sqlite_error_ref: interrupted, busy and locked are the deadline's
\* doing once it has passed.
classify(interrupted, exhausted) == IF interrupted /\ exhausted THEN "timeout" ELSE "sqlite"

\* A statement fails, or the progress handler interrupts it.
ReadFails(r, interrupted) ==
  /\ reader[r] # "none"
  /\ Return(r, classify(interrupted, late[r])) /\ UNCHANGED page
-----------------------------------------------------------------------------
(* queries_with_deadline, statement by statement                           *)

To(r, stage) ==
  /\ reader' = [reader EXCEPT ![r] = stage]
  /\ UNCHANGED <<retention_days, tables, params, request, late, cutoff, answers>>

\* The store's own look at the parameters, and read_connection.
Connect(r) ==
  LET p == params[r]
      offset == (Max({p.page, 1}) - 1) * p.page_size
      accepted == p.page_size \in 1..MAX_QUERY_PAGE_SIZE /\ offset <= I64_MAX
  IN  /\ reader[r] = "connect" /\ UNCHANGED page
      /\ IF p.kind = "queries" /\ ~accepted THEN Return(r, "refused")
         ELSE IF late[r] THEN Return(r, "expired")
         ELSE To(r, IF p.kind = "queries" THEN "count" ELSE "summarise")

\* trend, rankings and response_time: one statement.
Summarise(r) == reader[r] = "summarise" /\ Return(r, "ok") /\ UNCHANGED page

CountRows(r) ==
  /\ reader[r] = "count"
  /\ page' = [page EXCEPT ![r].total = Cardinality(query_logs)]
  /\ To(r, "list")

\* ORDER BY timestamp_ms DESC, id DESC: the rows before this one, the row that
\* n rows are before.
Newer(row) == {x \in query_logs : x.at > row.at \/ (x.at = row.at /\ x.id > row.id)}

Nth(n) == CHOOSE row \in query_logs : Cardinality(Newer(row)) = n

\* LIMIT page_size OFFSET (page - 1) * page_size.
Listed(p) ==
  LET offset == (p.page - 1) * p.page_size
  IN  [i \in 1..Min({p.page_size, Cardinality(query_logs) - offset}) |-> Nth(offset + i - 1)]

ListRows(r) ==
  /\ reader[r] = "list"
  /\ page' = [page EXCEPT ![r].rows = Listed(params[r])]
  /\ IF Listed(params[r]) = <<>> THEN Return(r, "ok") ELSE To(r, "addresses")

ReadAddresses(r) ==
  /\ reader[r] = "addresses"
  /\ page' = [page EXCEPT ![r].ips =
       {p \in query_response_ips : \E i \in DOMAIN page[r].rows : page[r].rows[i].id = p[1]}]
  /\ Return(r, "ok")

Next ==
  \/ \E e \in Events : Insert(e)
  \/ \E t \in Clock : Cleanup(t)
  \/ \E r \in Requests : \/ \E p \in Params : Ask(r, p)
                         \/ Acquire(r) \/ Expire(r) \/ Timeout(r)
                         \/ \E interrupted \in BOOLEAN : ReadFails(r, interrupted)
                         \/ Connect(r) \/ Summarise(r)
                         \/ CountRows(r) \/ ListRows(r) \/ ReadAddresses(r)

Spec == Init /\ [][Next]_vars
-----------------------------------------------------------------------------
(* The trend                                                               *)

\* trend at time t: one bucket after the other, empty ones included.
trend(t) ==
  LET hours == retention_days \in 1..HOURLY_DAYS
      interval == IF hours THEN HOUR ELSE DAY
      totals == IF hours THEN hourly ELSE daily
      end == bucket_start(t, interval)
      start == IF retention_days = 0 THEN end - (TREND_DAYS - 1) * DAY
               ELSE bucket_start(t - DAY * retention_days, interval)
  IN  [i \in 1..((end - start) \div interval + 1) |->
         LET b == start + (i - 1) * interval
         IN  [bucket |-> b, length |-> interval,
              total |-> IF b \in DOMAIN totals THEN totals[b].total ELSE 0,
              blocked |-> IF b \in DOMAIN totals THEN totals[b].blocked ELSE 0]]
-----------------------------------------------------------------------------
(* Properties                                                              *)

RowsIn(b, length) == {row \in query_logs : row.at \in b..(b + length - 1)}

\* The totals beside the details agree with them: a bucket no cleanup has cut
\* into counts exactly the rows that are there, any other one at least those,
\* however cleanups, late events and a clock that is set back are mixed
\* (insert_events and cleanup).
TotalsMatchDetails ==
  \A table \in {<<hourly, HOUR>>, <<daily, DAY>>} : \A row \in query_logs :
    LET b == bucket_start(row.at, table[2])
        rows == RowsIn(b, table[2])
        blocked == Cardinality({x \in rows : x.blocked})
    IN  /\ b \in DOMAIN table[1]
        /\ table[1][b].total >= Cardinality(rows) /\ table[1][b].blocked >= blocked
        /\ b >= cutoff => table[1][b] = [total |-> Cardinality(rows), blocked |-> blocked]

\* "all buckets intersecting the exact retention window are returned"
\* (README.md:168), and no others: at any time, every instant of the window is
\* in exactly one bucket of the trend (trend_with_deadline).
TrendCoversWindow ==
  \A t \in Clock :
    LET span == DAY * (IF retention_days = 0 THEN TREND_DAYS - 1 ELSE retention_days)
        shown == trend(t)
    IN  /\ \A x \in (t - span)..t :
             Cardinality({i \in DOMAIN shown :
               x \in shown[i].bucket..(shown[i].bucket + shown[i].length - 1)}) = 1
        /\ \A i \in DOMAIN shown :
             /\ shown[i].bucket <= t
             /\ retention_days # 0 => shown[i].bucket + shown[i].length > t - span

\* A row of the page is shown with all its addresses, or with none if it was
\* cleaned up after the rows were listed; never with another row's
\* (queries_with_deadline reads rows and addresses in two statements).
AddressesAreOwn ==
  \A r \in Requests : reader[r] = "none" => \A i \in DOMAIN page[r].rows :
    LET row == page[r].rows[i]
        ips == {a \in Addresses : <<row.id, a>> \in page[r].ips}
    IN  ips \in {{}, answers[row.number]}

\* Never more threads in the database than permits, however many requests have
\* been given up on ("let _permit = permit" in database_operation).
ReadsLimited == Cardinality(Reading) <= Permits

\* The status says what happened: what the handler has let through is never
\* turned away by the store, at any offset; a request is told that it took too
\* long only when it did; and a page is answered with at most what was asked for
\* (QueryParams::validate against queries_with_deadline, database_call).
StatusIsHonest ==
  \A r \in Requests :
    /\ request[r] # "refused"
    /\ request[r] \in {"timeout", "expired"} => late[r]
    /\ page[r].rows # <<>> => Len(page[r].rows) <= params[r].page_size
=============================================================================
