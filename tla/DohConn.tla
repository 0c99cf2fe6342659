------------------------------- MODULE DohConn -------------------------------
(***************************************************************************)
(* The reused connection of a DoH upstream, shared by concurrent requests: *)
(* DohResolver::resolve_h2 (upstream/doh.rs) and H3Conn::request           *)
(* (upstream/doh3.rs).  Both take or open the connection under an async    *)
(* mutex, send outside it, and on a failure forget the connection and try  *)
(* once more.  They differ in two places: H3 looks whether a connection is *)
(* closed before reusing it, and forgets only the one it failed on.        *)
(* A connection is the number of its generation; H2 keeps no such number,  *)
(* here it only names the connection.                                      *)
(***************************************************************************)
EXTENDS Integers

CONSTANTS
  Requests, \* concurrent requests to this upstream
  Free,     \* the mutex is not held
  Http3s    \* values of the http3 option considered

ASSUME DohAssumption == Free \notin Requests /\ Http3s \subseteq BOOLEAN

VARIABLES
  http3,           \* the option, fixed for the life of the resolver
  state,           \* the connection kept for reuse; 0: none
  next_generation,
  alive,           \* connections that are not closed
  lock,            \* the request that holds the mutex
  pc, attempt,     \* of each request
  generation,      \* the connection each request last took
  faulty           \* history: connections some request failed on

vars == <<http3, state, next_generation, alive, lock, pc, attempt, generation, faulty>>

Running == {"locking", "connecting", "sending", "invalidating"}

ConnTypeOK ==
  /\ http3 \in Http3s
  /\ state \in Nat /\ next_generation \in Nat \ {0}
  /\ alive \subseteq 1..(next_generation - 1) /\ faulty \subseteq 1..(next_generation - 1)
  /\ lock \in Requests \cup {Free}
  /\ pc \in [Requests -> {"idle", "ok", "failed"} \cup Running]
  /\ attempt \in [Requests -> {0, 1}]
  /\ generation \in [Requests -> Nat]

Init ==
  /\ http3 \in Http3s
  /\ state = 0 /\ next_generation = 1 /\ alive = {} /\ faulty = {} /\ lock = Free
  /\ pc = [r \in Requests |-> "idle"]
  /\ attempt = [r \in Requests |-> 0]
  /\ generation = [r \in Requests |-> 0]

Goto(r, l) == pc' = [pc EXCEPT ![r] = l]

Begin(r) ==
  /\ pc[r] = "idle"
  /\ Goto(r, "locking")
  /\ UNCHANGED <<http3, state, next_generation, alive, lock, attempt, generation, faulty>>

\* The kept connection, if it may be reused.
Reusable == IF http3 /\ state \notin alive THEN 0 ELSE state

\* The mutex is free, and there is a connection: take it and unlock.
Reuse(r) ==
  /\ pc[r] = "locking" /\ lock = Free /\ Reusable # 0
  /\ generation' = [generation EXCEPT ![r] = state]
  /\ Goto(r, "sending")
  /\ UNCHANGED <<http3, state, next_generation, alive, lock, attempt, faulty>>

\* The mutex is free, and there is none: connect, holding the mutex.
Lock(r) ==
  /\ pc[r] = "locking" /\ lock = Free /\ Reusable = 0
  /\ lock' = r /\ state' = 0
  /\ Goto(r, "connecting")
  /\ UNCHANGED <<http3, next_generation, alive, attempt, generation, faulty>>

\* Mutant: a generation number is given out twice.
ConnectedSameGeneration(r) ==
  /\ pc[r] = "connecting"
  /\ state' = next_generation
  /\ alive' = alive \cup {next_generation}
  /\ generation' = [generation EXCEPT ![r] = next_generation]
  /\ lock' = Free
  /\ Goto(r, "sending")
  /\ UNCHANGED <<http3, next_generation, attempt, faulty>>

Connected(r) ==
  /\ pc[r] = "connecting"
  /\ next_generation' = next_generation + 1
  /\ state' = next_generation
  /\ alive' = alive \cup {next_generation}
  /\ generation' = [generation EXCEPT ![r] = next_generation]
  /\ lock' = Free
  /\ Goto(r, "sending")
  /\ UNCHANGED <<http3, attempt, faulty>>

\* No address of the upstream accepts: the request fails without a retry.
ConnectFailed(r) ==
  /\ pc[r] = "connecting"
  /\ lock' = Free
  /\ Goto(r, "failed")
  /\ UNCHANGED <<http3, state, next_generation, alive, attempt, generation, faulty>>

\* The answer is in; it may still be rejected: its id, its encoding, and over
\* H2 its status, or its body breaks off with the connection.  A rejection is
\* final and leaves the kept connection alone.
Answered(r) ==
  /\ pc[r] = "sending"
  /\ \/ generation[r] \in alive /\ Goto(r, "ok")
     \/ (generation[r] \in alive \/ ~http3) /\ Goto(r, "failed")
  /\ UNCHANGED <<http3, state, next_generation, alive, lock, attempt, generation, faulty>>

\* The request fails on its connection: closed, or this stream reset, or over
\* H3 any other error, a status among them.
SendFailed(r) ==
  /\ pc[r] = "sending"
  /\ faulty' = faulty \cup {generation[r]}
  /\ Goto(r, "invalidating")
  /\ UNCHANGED <<http3, state, next_generation, alive, lock, attempt, generation>>

\* Mutants: H3 forgets the kept connection whatever its generation; the
\* connection is not forgotten.
InvalidateAny(r) ==
  /\ pc[r] = "invalidating" /\ lock = Free
  /\ state' = 0
  /\ attempt' = [attempt EXCEPT ![r] = 1]
  /\ Goto(r, IF attempt[r] = 1 THEN "failed" ELSE "locking")
  /\ UNCHANGED <<http3, next_generation, alive, lock, generation, faulty>>
InvalidateNone(r) ==
  /\ pc[r] = "invalidating" /\ lock = Free
  /\ attempt' = [attempt EXCEPT ![r] = 1]
  /\ Goto(r, IF attempt[r] = 1 THEN "failed" ELSE "locking")
  /\ UNCHANGED <<http3, state, next_generation, alive, lock, generation, faulty>>

\* Forget the connection, under the mutex: H3 by generation, H2 whichever it
\* is.  The second failure is the request's.
Invalidate(r) ==
  /\ pc[r] = "invalidating" /\ lock = Free
  /\ state' = IF ~http3 \/ state = generation[r] THEN 0 ELSE state
  /\ attempt' = [attempt EXCEPT ![r] = 1]
  /\ Goto(r, IF attempt[r] = 1 THEN "failed" ELSE "locking")
  /\ UNCHANGED <<http3, next_generation, alive, lock, generation, faulty>>

\* Mutant: the mutex stays locked when its holder is dropped.
DropLocked(r) ==
  /\ pc[r] \in Running
  /\ Goto(r, "failed")
  /\ UNCHANGED <<http3, state, next_generation, alive, lock, attempt, generation, faulty>>

\* The future is dropped at any of its awaits, by the resolver's own timeout
\* or by the engine above: its guard releases the mutex.
Drop(r) ==
  /\ pc[r] \in Running
  /\ lock' = IF lock = r THEN Free ELSE lock
  /\ Goto(r, "failed")
  /\ UNCHANGED <<http3, state, next_generation, alive, attempt, generation, faulty>>

\* A connection closes: the peer, the keep-alive or the idle timeout.
Close(g) ==
  /\ g \in alive
  /\ alive' = alive \ {g}
  /\ UNCHANGED <<http3, state, next_generation, lock, pc, attempt, generation, faulty>>

Step(r) ==
  \/ Begin(r) \/ Reuse(r) \/ Lock(r) \/ Connected(r) \/ ConnectFailed(r)
  \/ Answered(r) \/ SendFailed(r) \/ Invalidate(r) \/ Drop(r)

Next == (\E r \in Requests : Step(r)) \/ (\E g \in alive : Close(g))

Spec == Init /\ [][Next]_vars
-----------------------------------------------------------------------------
(* Properties                                                              *)

\* The mutex is held across an await by a connecting request and by no other:
\* requests multiplex ("the request is sent outside the lock"), and one that
\* is dropped or fails while connecting leaves it free (doh.rs, doh3.rs).
LockOnlyConnecting ==
  \A r \in Requests : lock = r <=> pc[r] = "connecting"

\* The second try never goes to the connection the first one failed on,
\* whatever the other requests do in between ("reconnects and retries once on
\* a send failure", doh3.rs).
RetryOnFresh ==
  [][\A r \in Requests :
       pc[r] # "sending" /\ pc'[r] = "sending" => generation'[r] > generation[r]]_vars

\* A kept connection is given up only for a cause: it is closed, or a request
\* failed on it.
ForCause == state # 0 /\ state' # state => state \in faulty \/ state \notin alive

\* Over H3 a late failure on an old connection does not cost the others their
\* new one (invalidate_generation; "stale generation does not clear newer
\* connection", doh3.rs tests).
H3GivesUpForCause == [][http3 => ForCause]_vars

\* "connection is dead, reconnect on the next round" (doh.rs:183): so it is
\* over H2.
GivesUpForCause == [][ForCause]_vars
=============================================================================
