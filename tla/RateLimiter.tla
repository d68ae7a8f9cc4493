----------------------------- MODULE RateLimiter -----------------------------
(***************************************************************************)
(* RateLimiter of routes.py, used once for calls and once for the token    *)
(* endpoint, each time from request handlers on the event loop, so that    *)
(* allow() runs as one step.  A bucket holds the time of each request of a *)
(* key; here it holds the numbers of these requests in the log of all      *)
(* requests, which tells requests of the same instant apart.               *)
(***************************************************************************)
EXTENDS Integers, Sequences, FiniteSets

CONSTANTS Keys, MaxEvents, Window,
          MaxKeys,       \* max_keys: beyond it stale buckets are purged
          MaxRequests,   \* bound on the length of the log
          MaxTime        \* bound on the clock

ASSUME RateLimiterAssumption ==
  /\ MaxEvents \in Nat /\ Window \in Nat /\ MaxKeys \in Nat
  /\ MaxRequests \in Nat /\ MaxTime \in Nat

VARIABLES now,      \* time.monotonic()
          buckets,  \* _buckets; a key that is not in the dictionary has {}
          log       \* history: every request, [key, at, allowed]

vars == <<now, buckets, log>>

Init ==
  /\ now = 0
  /\ buckets = [k \in Keys |-> {}]
  /\ log = << >>

At(i) == log[i].at
Stored == {k \in Keys : buckets[k] # {}}
WindowStart == now - Window

\* Mutant of Stale: a bucket is stale once its first request has left the window.
StaleByFirst(k) ==
  \E i \in buckets[k] : At(i) < WindowStart /\ \A j \in buckets[k] : i <= j

\* The last request of the bucket has left the window.
Stale(k) ==
  \E i \in buckets[k] : At(i) < WindowStart /\ \A j \in buckets[k] : j <= i

\* Mutant of Purged: the oversized store is left alone.
PurgedNever == buckets

\* The buckets after the purge.
Purged ==
  IF Cardinality(Stored) > MaxKeys
    THEN [k \in Keys |-> IF Stale(k) THEN {} ELSE buckets[k]]
    ELSE buckets

\* Mutant of Kept: the buckets of all keys are taken together.
KeptOfAll(k) == {i \in UNION {Purged[j] : j \in Keys} : At(i) >= WindowStart}

\* Mutant of Kept: the window is open at its start.
KeptAfterStart(k) == {i \in Purged[k] : At(i) > WindowStart}

\* The requests of k that are still in the window.
Kept(k) == {i \in Purged[k] : At(i) >= WindowStart}

\* allow(): the request is recorded, then judged.
Allow(k) ==
  LET bucket == Kept(k) \cup {Len(log) + 1} IN
  /\ Len(log) < MaxRequests
  /\ buckets' = [Purged EXCEPT ![k] = bucket]
  /\ log' = Append(log, [key |-> k, at |-> now,
                         allowed |-> Cardinality(bucket) <= MaxEvents])
  /\ UNCHANGED now

TimePasses ==
  /\ now < MaxTime
  /\ now' = now + 1
  /\ UNCHANGED <<buckets, log>>

Next == (\E k \in Keys : Allow(k)) \/ TimePasses

Spec == Init /\ [][Next]_vars
-----------------------------------------------------------------------------
TypeOK ==
  /\ now \in 0..MaxTime
  /\ log \in Seq([key : Keys, at : 0..now, allowed : BOOLEAN])
  /\ \A k \in Keys : buckets[k] \subseteq {i \in 1..Len(log) : log[i].key = k}

\* Forgetting requests that left the window, and whole clients when the store is too
\* large, never changes an answer: the limiter decides as one with an unbounded memory.
Unbounded == INSTANCE SlidingWindow
ImplementsSlidingWindow == Unbounded!Spec

AllowedIn(k, from, to) ==
  {i \in 1..Len(log) : log[i].key = k /\ log[i].allowed /\ from <= At(i) /\ At(i) <= to}

\* No client gets more than MaxEvents requests through in any Window of time, wherever
\* it starts, bursts at the end of one window and the start of the next included.
AtMostPerWindow ==
  \A k \in Keys, i \in 1..Len(log) :
    Cardinality(AllowedIn(k, At(i), At(i) + Window)) <= MaxEvents

\* The store outgrows MaxKeys by more than the key just added only while every key in
\* it had a request in the Window before the last one: it never keeps idle clients.
StoreHoldsRecentClients ==
  Cardinality(Stored) > MaxKeys + 1 =>
    \A k \in Stored : \E i \in buckets[k] : At(i) >= At(Len(log)) - Window
=============================================================================
