--------------------------- MODULE DohConn_proofs ---------------------------
(***************************************************************************)
(* The shared DoH connection, for any number of requests.                  *)
(***************************************************************************)
EXTENDS DohConn, TLAPS

USE DohAssumption DEF DohAssumption

-----------------------------------------------------------------------------
\* What holds between the steps of resolve_h2 and of H3Conn::request: the
\* connection kept is the newest one and, while somebody connects, none; a
\* request about to take a connection has never taken the one that is kept; a
\* request about to invalidate one has failed on it.
Sharing ==
  /\ state \in {0, next_generation - 1}
  /\ lock # Free => state = 0
  /\ \A r \in Requests :
       /\ lock = r <=> pc[r] = "connecting"
       /\ generation[r] < next_generation
       /\ pc[r] = "idle" => generation[r] = 0
       /\ pc[r] \in {"locking", "connecting"} => state = 0 \/ generation[r] < state
       /\ pc[r] \in {"sending", "invalidating"} => generation[r] # 0
       /\ pc[r] = "invalidating" => generation[r] \in faulty

\* Both hold at the start: no connection, no request begun.
LEMMA SharingInitial == Init => ConnTypeOK /\ Sharing
  BY DEF Init, ConnTypeOK, Sharing, Running

\* Every step of a request, and a connection that closes at any time, keeps the
\* types and the invariant (resolve_h2 and request, step by step).
LEMMA SharingInductive == ConnTypeOK /\ Sharing /\ [Next]_vars => ConnTypeOK' /\ Sharing'
<1> SUFFICES ASSUME ConnTypeOK, Sharing, [Next]_vars PROVE ConnTypeOK' /\ Sharing'
  OBVIOUS
<1> USE DEF ConnTypeOK, Sharing, Goto, Running
<1>1. ASSUME NEW r \in Requests, Begin(r) PROVE ConnTypeOK' /\ Sharing'
  <2>1. ConnTypeOK'
    BY <1>1 DEF Begin
  <2>2. Sharing'
    BY <1>1, <2>1 DEF Begin
  <2> QED
    BY <2>1, <2>2, Zenon
<1>2. ASSUME NEW r \in Requests, Reuse(r) PROVE ConnTypeOK' /\ Sharing'
  <2>1. ConnTypeOK'
    BY <1>2 DEF Reuse, Reusable
  <2>2. Sharing'
    BY <1>2, <2>1 DEF Reuse, Reusable
  <2> QED
    BY <2>1, <2>2, Zenon
<1>3. ASSUME NEW r \in Requests, Lock(r) PROVE ConnTypeOK' /\ Sharing'
  <2>1. ConnTypeOK'
    BY <1>3 DEF Lock, Reusable
  <2>2. Sharing'
    BY <1>3, <2>1 DEF Lock, Reusable
  <2> QED
    BY <2>1, <2>2, Zenon
<1>4. ASSUME NEW r \in Requests, Connected(r) PROVE ConnTypeOK' /\ Sharing'
  <2>1. ConnTypeOK'
    BY <1>4 DEF Connected
  <2>2. Sharing'
    BY <1>4, <2>1 DEF Connected
  <2> QED
    BY <2>1, <2>2, Zenon
<1>5. ASSUME NEW r \in Requests, ConnectFailed(r) PROVE ConnTypeOK' /\ Sharing'
  <2>1. ConnTypeOK'
    BY <1>5 DEF ConnectFailed
  <2>2. Sharing'
    BY <1>5, <2>1 DEF ConnectFailed
  <2> QED
    BY <2>1, <2>2, Zenon
<1>6. ASSUME NEW r \in Requests, Answered(r) PROVE ConnTypeOK' /\ Sharing'
  <2>1. ConnTypeOK'
    BY <1>6 DEF Answered
  <2>2. Sharing'
    BY <1>6, <2>1 DEF Answered
  <2> QED
    BY <2>1, <2>2, Zenon
<1>7. ASSUME NEW r \in Requests, SendFailed(r) PROVE ConnTypeOK' /\ Sharing'
  <2>1. generation[r] \in 1..(next_generation - 1)
    BY <1>7 DEF SendFailed
  <2>2. faulty' \subseteq 1..(next_generation' - 1)
    BY <1>7, <2>1, Zenon DEF SendFailed
  <2>3. ConnTypeOK'
    BY <1>7, <2>2 DEF SendFailed
  <2>4. Sharing'
    BY <1>7, <2>3 DEF SendFailed
  <2> QED
    BY <2>3, <2>4, Zenon
<1>8. ASSUME NEW r \in Requests, Invalidate(r) PROVE ConnTypeOK' /\ Sharing'
  <2>1. ConnTypeOK'
    BY <1>8 DEF Invalidate
  <2>2. Sharing'
    BY <1>8, <2>1 DEF Invalidate
  <2> QED
    BY <2>1, <2>2, Zenon
<1>9. ASSUME NEW r \in Requests, Drop(r) PROVE ConnTypeOK' /\ Sharing'
  <2>1. ConnTypeOK'
    BY <1>9 DEF Drop
  <2>2. Sharing'
    BY <1>9, <2>1 DEF Drop
  <2> QED
    BY <2>1, <2>2, Zenon
<1>10. ASSUME NEW g \in alive, Close(g) PROVE ConnTypeOK' /\ Sharing'
  BY <1>10 DEF Close
<1>11. CASE UNCHANGED vars
  BY <1>11 DEF vars
<1> QED
  BY <1>1, <1>2, <1>3, <1>4, <1>5, <1>6, <1>7, <1>8, <1>9, <1>10, <1>11, Zenon DEF Next, Step

\* The types of the resolver's state are kept by every interleaving of its
\* requests (resolve_h2 and request).
THEOREM ConnTypeCorrect == Spec => []ConnTypeOK
  BY SharingInitial, SharingInductive, PTL DEF Spec

\* The invariant holds in every state of every behaviour.
THEOREM Shared == Spec => [](ConnTypeOK /\ Sharing)
  BY SharingInitial, SharingInductive, PTL DEF Spec

\* The mutex is held by a connecting request only, however requests fail or
\* are dropped.
THEOREM LockIsReleased == Spec => []LockOnlyConnecting
<1>1. Sharing => LockOnlyConnecting
  BY Zenon DEF Sharing, LockOnlyConnecting
<1> QED
  BY <1>1, Shared, PTL

\* A retry goes to a newer connection than the one it failed on: the kept one
\* is always the newest, and a request at the mutex never took it.
THEOREM RetriesAreFresh == Spec => RetryOnFresh
<1> DEFINE Fresh == \A r \in Requests : pc[r] # "sending" /\ pc'[r] = "sending"
                                         => generation'[r] > generation[r]
<1>1. ConnTypeOK /\ Sharing /\ [Next]_vars => [Fresh]_vars
  <2> SUFFICES ASSUME ConnTypeOK, Sharing, [Next]_vars,
                      NEW q \in Requests, pc[q] # "sending", pc'[q] = "sending"
               PROVE  generation'[q] > generation[q]
    OBVIOUS
  <2> USE DEF ConnTypeOK, Sharing, Goto, Running
  <2>1. ASSUME NEW r \in Requests, Reuse(r) PROVE generation'[q] > generation[q]
    BY <2>1 DEF Reuse, Reusable
  <2>2. ASSUME NEW r \in Requests, Connected(r) PROVE generation'[q] > generation[q]
    BY <2>2 DEF Connected
  <2>3. ASSUME NEW r \in Requests,
               \/ Begin(r) \/ Lock(r) \/ ConnectFailed(r) \/ Answered(r)
               \/ SendFailed(r) \/ Invalidate(r) \/ Drop(r)
        PROVE  FALSE
    BY <2>3 DEF Begin, Lock, ConnectFailed, Answered, SendFailed, Invalidate, Drop
  <2>4. ASSUME NEW g \in alive, Close(g) PROVE FALSE
    BY <2>4 DEF Close
  <2>5. CASE UNCHANGED vars
    BY <2>5 DEF vars
  <2> QED
    BY <2>1, <2>2, <2>3, <2>4, <2>5 DEF Next, Step
<1>2. RetryOnFresh <=> [][Fresh]_vars
  BY DEF RetryOnFresh
<1> QED
  BY <1>1, <1>2, Shared, PTL DEF Spec

\* Over H3 the kept connection is given up only when it is closed or a request
\* failed on that very connection (invalidate_generation).
THEOREM H3KeepsLiveConnection == Spec => H3GivesUpForCause
<1>1. ConnTypeOK /\ Sharing /\ [Next]_vars => [http3 => ForCause]_vars
  <2> SUFFICES ASSUME ConnTypeOK, Sharing, [Next]_vars,
                      http3, state # 0, state' # state
               PROVE  state \in faulty \/ state \notin alive
    BY DEF ForCause
  <2> USE DEF ConnTypeOK, Sharing, Goto, Running
  <2>1. ASSUME NEW r \in Requests, Lock(r) PROVE state \notin alive
    BY <2>1 DEF Lock, Reusable
  <2>2. ASSUME NEW r \in Requests, Connected(r) PROVE FALSE
    BY <2>2 DEF Connected
  <2>3. ASSUME NEW r \in Requests, Invalidate(r) PROVE state \in faulty
    BY <2>3 DEF Invalidate
  <2>4. ASSUME NEW r \in Requests,
               \/ Begin(r) \/ Reuse(r) \/ ConnectFailed(r) \/ Answered(r)
               \/ SendFailed(r) \/ Drop(r)
        PROVE  FALSE
    BY <2>4, Zenon DEF Begin, Reuse, ConnectFailed, Answered, SendFailed, Drop
  <2>5. ASSUME NEW g \in alive, Close(g) PROVE FALSE
    BY <2>5 DEF Close
  <2>6. CASE UNCHANGED vars
    BY <2>6 DEF vars
  <2> QED
    BY <2>1, <2>2, <2>3, <2>4, <2>5, <2>6 DEF Next, Step
<1>2. H3GivesUpForCause <=> [][http3 => ForCause]_vars
  BY DEF H3GivesUpForCause
<1> QED
  BY <1>1, <1>2, Shared, PTL DEF Spec
=============================================================================
