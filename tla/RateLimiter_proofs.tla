-------------------------- MODULE RateLimiter_proofs --------------------------
(***************************************************************************)
(* Proofs about the rate limiter, for any set of clients, any quota and    *)
(* window and any limit on the store.                                      *)
(***************************************************************************)
EXTENDS RateLimiter, FiniteSetTheorems, FunctionTheorems, WellFoundedInduction, TLAPS

Entries == [key : Keys, at : Nat, allowed : BOOLEAN]
OfKey(k) == {i \in 1..Len(log) : log[i].key = k}

\* The log is in the order of the clock.
LogOK ==
  /\ now \in 0..MaxTime /\ log \in Seq(Entries)
  /\ \A i \in 1..Len(log) : At(i) <= now
  /\ \A i, j \in 1..Len(log) : i <= j => At(i) <= At(j)

\* Nothing that still counts has been forgotten.  This needs the order of the log: a
\* bucket is dropped for the age of its last request alone.
BucketsOK ==
  /\ buckets \in [Keys -> SUBSET (1..Len(log))]
  /\ \A k \in Keys : buckets[k] \subseteq OfKey(k)
  /\ \A k \in Keys : \A i \in OfKey(k) : At(i) >= WindowStart => i \in buckets[k]

\* The quota itself is inductive on top of these two: the request that would exceed it is
\* judged over every request of its window.
IInv == LogOK /\ BucketsOK /\ AtMostPerWindow

USE RateLimiterAssumption

LEMMA InitEstablishes == Init => IInv /\ Unbounded!Init
  BY DEF Init, IInv, LogOK, BucketsOK, AtMostPerWindow, OfKey, Entries, Unbounded!Init, At

LEMMA LogTypes ==
  ASSUME LogOK, NEW i \in 1..Len(log)
  PROVE  log[i] \in Entries /\ At(i) \in Int /\ log[i].at = At(i)
  <1>1. log[i] \in Entries
    BY DEF LogOK
  <1> QED
    BY <1>1 DEF Entries, At

LEMMA LogFinite ==
  ASSUME LogOK, NEW S \in SUBSET (1..Len(log))
  PROVE  IsFiniteSet(S) /\ Len(log) \in Nat
  <1>1. Len(log) \in Nat
    BY DEF LogOK
  <1>2. IsFiniteSet(1..Len(log))
    BY <1>1, FS_Interval
  <1> QED
    BY <1>1, <1>2, FS_Subset

\* The purge and the filter lose no request that is in the window, and keep no other.
LEMMA KeptIsRecent ==
  ASSUME IInv, NEW k \in Keys
  PROVE  /\ Kept(k) = Unbounded!Recent(k)
         /\ Purged \in [Keys -> SUBSET (1..Len(log))]
         /\ \A l \in Keys : Purged[l] \subseteq buckets[l]
         /\ \A l \in Keys : \A i \in buckets[l] : At(i) >= WindowStart => i \in Purged[l]
  <1>1. ASSUME NEW l \in Keys, NEW i \in buckets[l], At(i) >= WindowStart, Stale(l)
        PROVE  FALSE
    <2>1. PICK m \in buckets[l] : At(m) < WindowStart /\ \A j \in buckets[l] : j <= m
      BY <1>1 DEF Stale
    <2>2. i \in 1..Len(log) /\ m \in 1..Len(log) /\ i <= m
      BY <2>1 DEF IInv, BucketsOK
    <2>3. At(i) <= At(m) /\ At(i) \in Int /\ At(m) \in Int
      BY <2>2, LogTypes DEF IInv, LogOK
    <2> QED
      BY <2>1, <2>3, <1>1 DEF WindowStart, IInv, LogOK
  <1>2. /\ Purged \in [Keys -> SUBSET (1..Len(log))]
        /\ \A l \in Keys : Purged[l] \subseteq buckets[l]
        /\ \A l \in Keys : \A i \in buckets[l] : At(i) >= WindowStart => i \in Purged[l]
    BY <1>1 DEF Purged, IInv, BucketsOK
  <1>3. Kept(k) = Unbounded!Recent(k)
    BY <1>2 DEF Kept, IInv, BucketsOK, OfKey, At, WindowStart, Unbounded!Recent
  <1> QED
    BY <1>2, <1>3

\* A window that starts now holds the requests of this instant: the window of any of them.
LEMMA WindowFromNow ==
  ASSUME IInv, NEW k \in Keys
  PROVE  Cardinality(AllowedIn(k, now, now + Window)) <= MaxEvents
  <1> DEFINE A == AllowedIn(k, now, now + Window)
  <1>1. CASE A = {}
    BY <1>1, FS_EmptySet
  <1>2. CASE A # {}
    <2>1. PICK i \in A : TRUE
      BY <1>2
    <2>2. i \in 1..Len(log) /\ At(i) = now
      BY <2>1, LogTypes DEF AllowedIn, IInv, LogOK
    <2> QED
      BY <2>2 DEF IInv, AtMostPerWindow
  <1> QED
    BY <1>1, <1>2

LEMMA AllowKeeps ==
  ASSUME IInv, NEW k \in Keys, Allow(k)
  PROVE  IInv' /\ Unbounded!Request(k)
  <1> DEFINE n == Len(log) + 1
             R == Unbounded!Recent(k)
             e == [key |-> k, at |-> now, allowed |-> Cardinality(R \cup {n}) <= MaxEvents]
  <1>1. /\ Kept(k) = R /\ Purged \in [Keys -> SUBSET (1..Len(log))]
        /\ \A l \in Keys : Purged[l] \subseteq buckets[l]
        /\ \A l \in Keys : \A i \in buckets[l] : At(i) >= WindowStart => i \in Purged[l]
    BY KeptIsRecent
  <1>2. log \in Seq(Entries) /\ n \in Nat /\ now \in Nat /\ n - 1 = Len(log)
    BY DEF IInv, LogOK
  <1>3. e \in Entries /\ log' = Append(log, e) /\ now' = now
        /\ buckets' = [Purged EXCEPT ![k] = R \cup {n}]
    BY <1>1, <1>2 DEF Allow, Entries
  <1> HIDE DEF R, e
  <1>4. /\ log' \in Seq(Entries) /\ Len(log') = n /\ log'[n] = e
        /\ \A i \in 1..Len(log) : log'[i] = log[i]
    BY <1>2, <1>3
  <1>5. e.key = k /\ e.at = now /\ e.allowed = (Cardinality(R \cup {n}) <= MaxEvents)
    BY DEF e
  <1>6. R \subseteq 1..Len(log) /\ R = {i \in 1..Len(log) : log[i].key = k /\ At(i) >= WindowStart}
    BY DEF R, Unbounded!Recent, At, WindowStart
  <1>7. LogOK'
    BY <1>2, <1>3, <1>4, <1>5 DEF IInv, LogOK, At, Entries
  <1>8. BucketsOK'
    <2>1. buckets' \in [Keys -> SUBSET (1..Len(log'))]
      BY <1>1, <1>2, <1>3, <1>4, <1>6
    <2>2. ASSUME NEW l \in Keys PROVE buckets'[l] \subseteq OfKey(l)'
      <3>1. CASE l = k
        BY <3>1, <1>1, <1>2, <1>3, <1>4, <1>5, <1>6 DEF OfKey
      <3>2. CASE l # k
        BY <3>2, <1>1, <1>2, <1>3, <1>4 DEF OfKey, IInv, BucketsOK
      <3> QED
        BY <3>1, <3>2
    <2>3. ASSUME NEW l \in Keys, NEW i \in OfKey(l)', At(i)' >= WindowStart'
          PROVE  i \in buckets'[l]
      <3>1. i \in 1..n /\ log'[i].key = l
        BY <2>3, <1>4 DEF OfKey
      <3>2. CASE i = n
        BY <3>1, <3>2, <1>1, <1>3, <1>4, <1>5
      <3>3. CASE i # n
        <4>1. i \in 1..Len(log) /\ log[i].key = l /\ At(i) >= WindowStart
          BY <3>1, <3>3, <2>3, <1>2, <1>3, <1>4 DEF At, WindowStart
        <4>2. i \in Purged[l]
          BY <4>1, <1>1 DEF IInv, BucketsOK, OfKey
        <4> QED
          BY <4>1, <4>2, <1>1, <1>3, <1>6
      <3> QED
        BY <3>2, <3>3
    <2> QED
      BY <2>1, <2>2, <2>3 DEF BucketsOK
  <1>9. AtMostPerWindow'
    <2> SUFFICES ASSUME NEW l \in Keys, NEW i \in 1..n
                 PROVE  Cardinality(AllowedIn(l, At(i), At(i) + Window)') <= MaxEvents
      BY <1>4 DEF AtMostPerWindow, At
    <2> DEFINE A == AllowedIn(l, At(i), At(i) + Window)'
    <2>1. A = {j \in 1..n : /\ log'[j].key = l /\ log'[j].allowed
                            /\ log'[i].at <= log'[j].at /\ log'[j].at <= log'[i].at + Window}
      BY <1>4 DEF AllowedIn, At
    <2>2. \A j \in 1..Len(log) : log[j].at \in Int /\ log[j].at <= now /\ log[j] \in Entries
      BY LogTypes DEF IInv, LogOK, At
    <2>3. CASE n \in A
      <3>1. l = k /\ Cardinality(R \cup {n}) <= MaxEvents /\ now <= log'[i].at + Window
        BY <2>1, <2>3, <1>4, <1>5
      <3>2. A \subseteq R \cup {n}
        <4> SUFFICES ASSUME NEW j \in A, j # n PROVE j \in R
          OBVIOUS
        <4>1. j \in 1..Len(log) /\ log[j].key = k /\ log'[i].at <= log[j].at
          BY <2>1, <3>1, <1>2, <1>4
        <4>2. log'[i].at \in Int
          BY <2>2, <1>2, <1>4, <1>5
        <4> QED
          BY <4>1, <4>2, <3>1, <2>2, <1>2, <1>6 DEF At, WindowStart
      <3>3. IsFiniteSet(R \cup {n})
        BY <1>2, <1>6, LogFinite, FS_AddElement DEF IInv
      <3> QED
        BY <3>1, <3>2, <3>3, FS_Subset, FS_CardinalityType
    <2>4. CASE n \notin A /\ i # n
      <3>1. A = AllowedIn(l, At(i), At(i) + Window) /\ i \in 1..Len(log)
        BY <2>1, <2>4, <1>2, <1>4 DEF AllowedIn, At
      <3> QED
        BY <3>1 DEF IInv, AtMostPerWindow
    <2>5. CASE n \notin A /\ i = n
      <3>1. A = AllowedIn(l, now, now + Window)
        BY <2>1, <2>5, <1>2, <1>4, <1>5 DEF AllowedIn, At
      <3> QED
        BY <3>1, WindowFromNow
    <2> QED
      BY <2>3, <2>4, <2>5
  <1>10. Cardinality(R \cup {n}) = Cardinality(R) + 1
    <2>1. IsFiniteSet(R)
      BY <1>6, LogFinite DEF IInv
    <2>2. n \notin R
      BY <1>2, <1>6
    <2> QED
      BY <2>1, <2>2, FS_AddElement
  <1>11. Unbounded!Request(k)
    <2>1. e = [key |-> k, at |-> now, allowed |-> Cardinality(R) + 1 <= MaxEvents]
      BY <1>10 DEF e
    <2>2. Unbounded!Cardinality(R) = Cardinality(R)
      BY Zenon DEF Cardinality, Unbounded!Cardinality
    <2> QED
      BY <2>1, <2>2, <1>3 DEF Unbounded!Request, R
  <1> QED
    BY <1>7, <1>8, <1>9, <1>11 DEF IInv

LEMMA TimeKeeps ==
  ASSUME IInv, TimePasses
  PROVE  IInv' /\ Unbounded!TimePasses
  <1>1. now' = now + 1 /\ log' = log /\ buckets' = buckets /\ now \in Nat
    BY DEF TimePasses, IInv, LogOK
  <1>2. \A i \in 1..Len(log) : At(i) \in Int
    BY LogTypes DEF IInv
  <1>3. LogOK'
    <2>1. now' \in 0..MaxTime
      BY <1>1 DEF TimePasses, IInv, LogOK
    <2> QED BY <1>1, <1>2, <2>1 DEF IInv, LogOK, At
  <1>4. BucketsOK'
    BY <1>1, <1>2 DEF IInv, BucketsOK, OfKey, At, WindowStart
  <1>5. AtMostPerWindow'
    BY <1>1 DEF IInv, AtMostPerWindow, AllowedIn, At
  <1>6. Unbounded!TimePasses
    BY <1>1 DEF Unbounded!TimePasses
  <1> QED
    BY <1>3, <1>4, <1>5, <1>6 DEF IInv

LEMMA NextKeeps ==
  ASSUME IInv, [Next]_vars
  PROVE  IInv' /\ [Unbounded!Next]_<<now, log>>
  <1>1. CASE \E k \in Keys : Allow(k)
    BY <1>1, AllowKeeps DEF Unbounded!Next
  <1>2. CASE TimePasses
    BY <1>2, TimeKeeps DEF Unbounded!Next
  <1>3. CASE UNCHANGED vars
    <2>1. now' = now /\ buckets' = buckets /\ log' = log
      BY <1>3 DEF vars
    <2>2. LogOK' /\ BucketsOK' /\ AtMostPerWindow'
      BY <2>1 DEF IInv, LogOK, BucketsOK, AtMostPerWindow, OfKey, AllowedIn, At, WindowStart
    <2> QED
      BY <2>1, <2>2 DEF IInv
  <1> QED
    BY <1>1, <1>2, <1>3 DEF Next

\* The limiter with its purged buckets answers every request as one that remembers all.
THEOREM LimiterImplementsSlidingWindow == Spec => ImplementsSlidingWindow
  <1>1. Init => IInv /\ Unbounded!Init
    BY InitEstablishes
  <1>2. IInv /\ [Next]_vars => IInv' /\ [Unbounded!Next]_<<now, log>>
    BY NextKeeps
  <1> QED
    BY <1>1, <1>2, PTL DEF Spec, ImplementsSlidingWindow, Unbounded!Spec

\* No client gets more than MaxEvents requests through in any Window of time.
THEOREM QuotaHolds == Spec => []AtMostPerWindow
  <1>1. Init => IInv
    BY InitEstablishes
  <1>2. IInv /\ [Next]_vars => IInv'
    BY NextKeeps
  <1>3. IInv => AtMostPerWindow
    BY DEF IInv
  <1> QED
    BY <1>1, <1>2, <1>3, PTL DEF Spec
-----------------------------------------------------------------------------
(* The size of the store.                                                  *)

\* A request of the bucket with the fewest after it is its last.
LEMMA LastOf ==
  ASSUME NEW n \in Nat, NEW S \in SUBSET (1..n), S # {}
  PROVE  \E m \in S : \A i \in S : i <= m
  <1> DEFINE After(i) == {j \in S : i < j}
             T == {After(i) : i \in S}
  <1>1. IsFiniteSet(1..n) /\ FiniteSubsetsOf(1..n) = SUBSET (1..n)
    BY FS_Interval, FS_FiniteSubsetsOfFinite
  <1>2. T \subseteq FiniteSubsetsOf(1..n) /\ T # {}
    <2>1. \A i \in S : After(i) \in SUBSET (1..n)
      OBVIOUS
    <2>2. PICK i \in S : TRUE
      OBVIOUS
    <2>3. After(i) \in T
      OBVIOUS
    <2>4. T \subseteq SUBSET (1..n)
      BY <2>1
    <2> QED BY <1>1, <2>3, <2>4
  <1>3. PICK t \in T : \A u \in T : <<u, t>> \notin StrictSubsetOrdering(1..n)
    BY <1>2, FS_StrictSubsetOrderingWellFounded, WFMin
  <1>4. PICK m \in S : t = After(m)
    OBVIOUS
  <1>5. ASSUME NEW i \in S, m < i PROVE FALSE
    <2> \A j \in S : j \in Int
      OBVIOUS
    <2>1. After(i) \subseteq After(m) /\ i \in After(m) /\ i \notin After(i)
      <3>1. ASSUME NEW j \in After(i) PROVE j \in After(m)
        BY <1>5
      <3>2. i \in After(m)
        BY <1>5
      <3>3. i \notin After(i)
        OBVIOUS
      <3> QED BY <3>1, <3>2, <3>3
    <2>2. After(i) \in SUBSET (1..n) /\ After(m) \in SUBSET (1..n)
      OBVIOUS
    <2>3. <<After(i), After(m)>> \in StrictSubsetOrdering(1..n)
      BY <2>1, <2>2, Zenon DEF StrictSubsetOrdering
    <2> QED BY <1>3, <1>4, <2>3
  <1> QED BY <1>5

\* What the purge spares has a request in the window: its last.
LEMMA SparedIsRecent ==
  ASSUME IInv, Cardinality(Stored) > MaxKeys, NEW k \in Keys, Purged[k] # {}
  PROVE  \E i \in Purged[k] : At(i) >= WindowStart
  <1>1. ~Stale(k) /\ Purged[k] = buckets[k]
    BY DEF Purged
  <1>2. buckets[k] \in SUBSET (1..Len(log)) /\ Len(log) \in Nat
    BY DEF IInv, BucketsOK, LogOK
  <1>3. PICK m \in buckets[k] : \A i \in buckets[k] : i <= m
    BY <1>1, <1>2, LastOf
  <1>4. ~(At(m) < WindowStart)
    BY <1>1, <1>3 DEF Stale
  <1>5. At(m) \in Int /\ WindowStart \in Int
    BY <1>2, LogTypes DEF IInv, LogOK, WindowStart
  <1> QED BY <1>1, <1>3, <1>4, <1>5

\* Only clients in the log have a bucket, so the store is finite whatever Keys is.
LEMMA StoreIsFinite ==
  ASSUME IInv
  PROVE  IsFiniteSet(Stored)
  <1> DEFINE f == [i \in 1..Len(log) |-> log[i].key]
             T == {log[i].key : i \in 1..Len(log)}
  <1>1. f \in Surjection(1..Len(log), T)
    BY DEF Surjection
  <1>2. IsFiniteSet(1..Len(log))
    BY LogFinite DEF IInv
  <1>3. IsFiniteSet(T)
    BY <1>1, <1>2, FS_Surjection
  <1>4. Stored \subseteq T
    BY DEF Stored, IInv, BucketsOK, OfKey
  <1> QED BY <1>3, <1>4, FS_Subset

StoreInv == IInv /\ StoreHoldsRecentClients

LEMMA AllowKeepsStore ==
  ASSUME IInv, NEW k \in Keys, Allow(k)
  PROVE  StoreHoldsRecentClients'
  <1> DEFINE n == Len(log) + 1
  <1>1. /\ Kept(k) = Unbounded!Recent(k) /\ Purged \in [Keys -> SUBSET (1..Len(log))]
        /\ \A l \in Keys : Purged[l] \subseteq buckets[l]
    BY KeptIsRecent
  <1>2. Len(log) \in Nat /\ now \in Int /\ \A i \in 1..Len(log) : At(i) \in Int
    BY LogTypes DEF IInv, LogOK
  <1>3. /\ buckets' = [Purged EXCEPT ![k] = Kept(k) \cup {n}]
        /\ Len(log') = n /\ log'[n].at = now
        /\ \A i \in 1..Len(log) : log'[i] = log[i]
    BY <1>2 DEF Allow, IInv, LogOK
  <1>4. Stored' \subseteq Stored \cup {k}
    BY <1>1, <1>3 DEF Stored
  <1>5. CASE Cardinality(Stored) > MaxKeys
    <2>1. ASSUME NEW l \in Stored'
          PROVE  \E i \in buckets'[l] : log'[i].at >= log'[Len(log')].at - Window
      <3>1. CASE l = k
        <4>1. n \in buckets'[l]
          BY <1>1, <1>3, <3>1
        <4> QED BY <1>2, <1>3, <4>1
      <3>2. CASE l # k
        <4>1. l \in Keys /\ buckets'[l] = Purged[l] /\ Purged[l] # {}
          BY <1>1, <1>3, <2>1, <3>2 DEF Stored
        <4>2. PICK i \in Purged[l] : At(i) >= WindowStart
          BY <1>5, <4>1, SparedIsRecent
        <4>3. i \in 1..Len(log) /\ log'[i].at >= WindowStart
          BY <1>1, <1>3, <4>1, <4>2 DEF At
        <4> QED BY <1>3, <4>1, <4>2, <4>3 DEF WindowStart
      <3> QED BY <3>1, <3>2
    <2> QED BY <2>1 DEF StoreHoldsRecentClients, At
  <1>6. CASE ~(Cardinality(Stored) > MaxKeys)
    <2>1. IsFiniteSet(Stored)
      BY StoreIsFinite
    <2>2. Cardinality(Stored) \in Nat
      BY <2>1, FS_CardinalityType
    <2>3. /\ IsFiniteSet(Stored \cup {k})
          /\ Cardinality(Stored \cup {k}) <= Cardinality(Stored) + 1
      BY <2>1, <2>2, FS_AddElement
    <2>4. IsFiniteSet(Stored') /\ Cardinality(Stored') <= Cardinality(Stored \cup {k})
      BY <1>4, <2>3, FS_Subset
    <2>5. Cardinality(Stored') \in Nat /\ Cardinality(Stored \cup {k}) \in Nat
      BY <2>3, <2>4, FS_CardinalityType
    <2>6. ~(Cardinality(Stored') > MaxKeys + 1)
      BY <1>6, <2>2, <2>3, <2>4, <2>5
    <2> QED BY <2>6 DEF StoreHoldsRecentClients
  <1> QED BY <1>5, <1>6

LEMMA StoreKept ==
  ASSUME StoreInv, [Next]_vars
  PROVE  StoreInv'
  <1>1. IInv'
    BY NextKeeps DEF StoreInv
  <1>2. ASSUME NEW k \in Keys, Allow(k) PROVE StoreHoldsRecentClients'
    BY <1>2, AllowKeepsStore DEF StoreInv
  <1>3. CASE TimePasses \/ UNCHANGED vars
    <2>1. buckets' = buckets /\ log' = log
      BY <1>3 DEF TimePasses, vars
    <2> QED BY <1>1, <2>1 DEF StoreInv, StoreHoldsRecentClients, Stored, At
  <1> QED BY <1>1, <1>2, <1>3 DEF Next, StoreInv

\* A store that outgrows MaxKeys holds only clients that sent a request in the last window.
THEOREM StoreIsRecent == Spec => []StoreHoldsRecentClients
  <1>1. Init => StoreInv
    <2> SUFFICES ASSUME Init PROVE StoreHoldsRecentClients
      BY InitEstablishes DEF StoreInv
    <2>1. Stored = {}
      BY DEF Init, Stored
    <2>2. Cardinality(Stored) = 0
      BY <2>1, FS_EmptySet
    <2> QED BY <2>1 DEF StoreHoldsRecentClients
  <1>2. StoreInv /\ [Next]_vars => StoreInv'
    BY StoreKept
  <1>3. StoreInv => StoreHoldsRecentClients
    BY DEF StoreInv
  <1> QED BY <1>1, <1>2, <1>3, PTL DEF Spec

\* The clock and the log keep their types, and a bucket holds requests of its key only.
THEOREM TypeCorrect == Spec => []TypeOK
  <1>1. Init => IInv
    BY InitEstablishes
  <1>2. IInv /\ [Next]_vars => IInv'
    BY NextKeeps
  <1>3. IInv => TypeOK
    <2> SUFFICES ASSUME IInv PROVE TypeOK
      OBVIOUS
    <2> DEFINE E == [key : Keys, at : 0..now, allowed : BOOLEAN]
    <2>1. ASSUME NEW i \in 1..Len(log) PROVE log[i] \in E
      <3>1. log[i] \in Entries /\ log[i].at <= now /\ now \in Nat
        BY DEF IInv, LogOK, At
      <3>2. log[i].at \in 0..now
        BY <3>1 DEF Entries
      <3> QED BY <3>1, <3>2, Zenon DEF Entries
    <2>2. log \in Seq(E)
      <3>1. Len(log) \in Nat /\ log = [i \in 1..Len(log) |-> log[i]]
        BY DEF IInv, LogOK
      <3> HIDE DEF E
      <3> QED BY <2>1, <3>1
    <2>3. \A k \in Keys : buckets[k] \subseteq {i \in 1..Len(log) : log[i].key = k}
      BY DEF IInv, BucketsOK, OfKey
    <2>4. now \in 0..MaxTime
      BY DEF IInv, LogOK
    <2> QED BY <2>2, <2>3, <2>4 DEF TypeOK
  <1> QED BY <1>1, <1>2, <1>3, PTL DEF Spec
=============================================================================
