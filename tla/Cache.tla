------------------------------- MODULE Cache -------------------------------
(***************************************************************************)
(* The optimistic LRU cache with a memory budget (cache.rs).  The map and  *)
(* its running total of bytes change only under one mutex, so a locked     *)
(* section is one step; the lookup counter is an atomic that a caller      *)
(* bumps before it takes the lock, so a lookup is two steps, with other    *)
(* callers' steps in between.                                              *)
(*                                                                         *)
(* The linked hash map is the sequence of its entries, least recently used *)
(* first.  A message is a model value; its wire length and TTL are         *)
(* constants, and so is the length of a key's name.                        *)
(***************************************************************************)
EXTENDS Integers, Sequences, SequencesExt

CONSTANTS
  Callers,        \* tasks that use the cache
  Keys, Messages,
  None,
  NameLen,        \* [Keys -> Nat]
  WireLen,        \* [Messages -> Nat]
  Ttl,            \* [Messages -> Nat], least TTL of the answers, 60 if none
  ENTRY_OVERHEAD,
  MaxBytes,       \* max_bytes, the budget
  MaxNow,         \* bound: the clock of a checked instance stops here
  MaxLookups      \* bound: lookups of a checked instance

ASSUME CacheAssumption ==
  /\ None \notin Keys
  /\ NameLen \in [Keys -> Nat] /\ WireLen \in [Messages -> Nat]
  /\ Ttl \in [Messages -> Nat]
  /\ ENTRY_OVERHEAD \in Nat \ {0} /\ MaxBytes \in Nat \ {0}
  /\ MaxNow \in Nat /\ MaxLookups \in Nat

VARIABLES
  entries, used_bytes,  \* CacheMap
  lookups, hits,        \* the two counters
  now,                  \* the clock, in TTL units
  looking,              \* the key a caller has counted a lookup for, or None
  recency               \* history: the keys in the order of their last use

map == <<entries, used_bytes>>
counters == <<lookups, hits>>
cacheVars == <<map, counters, now, looking, recency>>

entry_cost(k, m) == ENTRY_OVERHEAD + NameLen[k] + 3 * WireLen[m]

Entry(k, m) == [key |-> k, message |-> m, expires_at |-> now + Ttl[m],
                cost |-> entry_cost(k, m)]

TotalCost(es) == FoldLeft(LAMBDA sum, e : sum + e.cost, 0, es)
KeysOf(es) == {es[i].key : i \in DOMAIN es}
Find(es, k) == CHOOSE i \in DOMAIN es : es[i].key = k
Without(es, k) == IF k \in KeysOf(es) THEN RemoveAt(es, Find(es, k)) ELSE es
Suffix(es, n) == SubSeq(es, n + 1, Len(es))

CacheInit ==
  /\ entries = <<>> /\ used_bytes = 0
  /\ lookups = 0 /\ hits = 0 /\ now = 0
  /\ looking = [c \in Callers |-> None]
  /\ recency = <<>>

Touch(k) == recency' = Append(RemoveFirst(recency, k), k)
-----------------------------------------------------------------------------
(* get                                                                     *)

CountLookup(c, k) ==
  /\ looking[c] = None /\ lookups < MaxLookups
  /\ lookups' = lookups + 1
  /\ looking' = [looking EXCEPT ![c] = k]
  /\ UNCHANGED <<map, hits, now, recency>>

\* Mutant: the entry is read where it is.
HitInPlace(c) ==
  LET k == looking[c]
  IN  /\ k \in KeysOf(entries)
      /\ hits' = hits + 1
      /\ looking' = [looking EXCEPT ![c] = None]
      /\ Touch(k)
      /\ UNCHANGED <<map, lookups, now>>

\* to_back: a hit moves the entry to the tail; it is returned even if expired.
Hit(c) ==
  LET k == looking[c]
      e == entries[Find(entries, k)]
  IN  /\ k \in KeysOf(entries)
      /\ entries' = Append(Without(entries, k), e)
      /\ hits' = hits + 1
      /\ looking' = [looking EXCEPT ![c] = None]
      /\ Touch(k)
      /\ UNCHANGED <<used_bytes, lookups, now>>

Expired(e) == now >= e.expires_at

Miss(c) ==
  /\ looking[c] # None /\ looking[c] \notin KeysOf(entries)
  /\ looking' = [looking EXCEPT ![c] = None]
  /\ UNCHANGED <<map, counters, now, recency>>
-----------------------------------------------------------------------------
(* put                                                                     *)

\* What put leaves of the map when the allocator refuses refused times in a
\* row before it grants the reservation: the map without the key's old entry
\* and without its refused least recent ones.
Reserved(k, refused) == Suffix(Without(entries, k), refused)

\* Mutant: the cost of a removed entry is not subtracted.
UsedKept(left) == used_bytes

\* The bytes the counter says are left: it is decremented entry by entry.
UsedAfter(left) == used_bytes - (TotalCost(entries) - TotalCost(left))

\* pop_front while the total is over the budget.
Trim(es, used) ==
  LET Over(n) == used - (TotalCost(es) - TotalCost(Suffix(es, n))) > MaxBytes
      n == CHOOSE n \in 0..Len(es) : /\ ~Over(n) \/ n = Len(es)
                                     /\ \A i \in 0..(n - 1) : Over(i)
  IN  Suffix(es, n)

PutTooLarge(k, m) == entry_cost(k, m) > MaxBytes /\ UNCHANGED cacheVars

\* Mutant: the entry's size is not compared with the budget.
PutAnySize(k, m, refused) ==
  LET left == Reserved(k, refused)
      full == Append(left, Entry(k, m))
      used == UsedAfter(left) + entry_cost(k, m)
  IN  /\ entries' = Trim(full, used)
      /\ used_bytes' = used - (TotalCost(full) - TotalCost(entries'))
      /\ Touch(k)
      /\ UNCHANGED <<counters, now, looking>>

PutStored(k, m, refused) ==
  LET left == Reserved(k, refused)
      full == Append(left, Entry(k, m))
      used == UsedAfter(left) + entry_cost(k, m)
  IN  /\ entry_cost(k, m) <= MaxBytes
      /\ entries' = Trim(full, used)
      /\ used_bytes' = used - (TotalCost(full) - TotalCost(entries'))
      /\ Touch(k)
      /\ UNCHANGED <<counters, now, looking>>

\* Memory is refused even with the map empty: the write is given up, the old
\* entries are gone.
PutRefused(k, m) ==
  /\ entry_cost(k, m) <= MaxBytes
  /\ entries' = <<>> /\ used_bytes' = UsedAfter(<<>>)
  /\ UNCHANGED <<counters, now, looking, recency>>

Put(k, m) ==
  \/ PutTooLarge(k, m)
  \/ \E refused \in 0..Len(Without(entries, k)) : PutStored(k, m, refused)
  \/ PutRefused(k, m)
-----------------------------------------------------------------------------
Elapse == now < MaxNow /\ now' = now + 1 /\ UNCHANGED <<map, counters, looking, recency>>

CacheNext ==
  \/ \E c \in Callers : Hit(c) \/ Miss(c) \/ \E k \in Keys : CountLookup(c, k)
  \/ \E k \in Keys, m \in Messages : Put(k, m)
  \/ Elapse

CacheSpec == CacheInit /\ [][CacheNext]_cacheVars
-----------------------------------------------------------------------------
(* Properties                                                              *)

\* "both are guarded by the same lock so the total never drifts from the map
\* contents" (cache.rs:31), through replacements, refusals and evictions; and
\* between two calls the total is within the budget.
UsedExact == used_bytes = TotalCost(entries) /\ used_bytes <= MaxBytes

\* The front of the map is the least recently used key: what is evicted next
\* is what was touched longest ago (to_back in get, re-insertion in put).
LeastRecentFirst ==
  /\ KeysOf(entries) \subseteq ToSet(recency)
  /\ \A i, j \in DOMAIN entries : \A a, b \in DOMAIN recency :
       recency[a] = entries[i].key /\ recency[b] = entries[j].key => (i < j <=> a < b)

\* "this only ever evicts older entries" (cache.rs:114): the entry just
\* put or read is still there, at the tail, however much had to go.
PutKept ==
  [][recency' # recency => entries' # <<>> /\ Last(entries').key = Last(recency')]_cacheVars
=============================================================================
