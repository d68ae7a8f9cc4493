--------------------------- MODULE RtpPorts_proofs ---------------------------
(***************************************************************************)
(* Proofs about the RTP port allocator, for every port range and any       *)
(* number of calls: its invariants, that it implements PortPool, and the   *)
(* order in which it hands ports out.                                      *)
(***************************************************************************)
EXTENDS RtpPortReuse, SequenceTheorems, TLAPS

\* The conjunction that is inductive: disjointness of the free list and the
\* leases needs the list to be duplicate-free, and a release keeps inUse equal
\* to the leased ports only because no other call holds the same one.
IInv == TypeOK /\ NoPortLost /\ LeaseExclusive

LEMMA PortsAreNumbers == Ports \subseteq Nat /\ NoPort \notin Ports /\ Refused \notin Ports
  <1>1. Start \in Nat
    BY PortRangeAssumption DEF Start
  <1>2. PortCount \in Nat
    BY <1>1, PortRangeAssumption DEF PortCount, Start
  <1>3. \A i \in 1..PortCount : InitialFree[i] \in Nat
    BY <1>1, <1>2 DEF InitialFree
  <1> QED BY <1>3, NoPortAssumption DEF Ports

\* The initial list holds every port once.
LEMMA InitEstablishes == Init => IInv
  <1> SUFFICES ASSUME Init PROVE IInv
    OBVIOUS
  <1>1. Start \in Nat /\ PortCount \in Nat
    BY PortRangeAssumption DEF Start, PortCount
  <1>2. free \in Seq(Ports) /\ Len(free) = PortCount
    <2>1. InitialFree \in [1..PortCount -> Ports]
      BY DEF InitialFree, Ports
    <2>2. free = InitialFree
      BY DEF Init
    <2> QED BY <1>1, <2>1, <2>2
  <1>3. \A i, j \in 1..PortCount : InitialFree[i] = InitialFree[j] => i = j
    BY <1>1 DEF InitialFree
  <1>4. FreePorts = Ports
    BY <1>2 DEF Init, FreePorts, Ports
  <1>5. {lease[c] : c \in Callers} \cap Ports = {}
    BY PortsAreNumbers DEF Init
  <1> QED
    BY <1>2, <1>3, <1>4, <1>5 DEF Init, IInv, TypeOK, NoPortLost, LeaseExclusive

\* Popping the head of a list without duplicates removes exactly that element.
LEMMA PopUnique ==
  ASSUME NEW S, NEW s \in Seq(S), s # << >>,
         \A i, j \in 1..Len(s) : s[i] = s[j] => i = j
  PROVE  /\ Tail(s) \in Seq(S)
         /\ {Tail(s)[i] : i \in 1..Len(Tail(s))} = {s[i] : i \in 1..Len(s)} \ {s[1]}
         /\ \A i, j \in 1..Len(Tail(s)) : Tail(s)[i] = Tail(s)[j] => i = j
  <1>1. /\ Tail(s) \in Seq(S) /\ Len(Tail(s)) = Len(s) - 1
        /\ \A i \in 1..Len(Tail(s)) : Tail(s)[i] = s[i + 1]
    BY HeadTailProperties
  <1>2. Len(s) \in Nat \ {0}
    BY EmptySeq
  <1>3. ASSUME NEW i \in 1..Len(s), i # 1
        PROVE  i - 1 \in 1..Len(Tail(s)) /\ Tail(s)[i - 1] = s[i]
    <2>1. i - 1 \in 1..Len(Tail(s)) /\ (i - 1) + 1 = i
      BY <1>1, <1>2, <1>3
    <2> QED BY <1>1, <2>1
  <1>4. ASSUME NEW i \in 1..Len(Tail(s))
        PROVE  i + 1 \in 1..Len(s) /\ i + 1 # 1 /\ Tail(s)[i] = s[i + 1]
    BY <1>1, <1>2
  <1>5. \A i, j \in 1..Len(Tail(s)) : Tail(s)[i] = Tail(s)[j] => i = j
    BY <1>1, <1>2, <1>4
  <1>6. {Tail(s)[i] : i \in 1..Len(Tail(s))} = {s[i] : i \in 1..Len(s)} \ {s[1]}
    BY <1>2, <1>3, <1>4
  <1> QED BY <1>1, <1>5, <1>6

LEMMA AcquireKeeps ==
  ASSUME IInv, NEW c \in Callers, Acquire(c)
  PROVE  /\ IInv' /\ inUse' = inUse \cup {lease'[c]} /\ lease'[c] \in Ports \ inUse
         /\ free # << >> /\ free' = Tail(free)
  <1> USE DEF IInv, TypeOK, NoPortLost, LeaseExclusive
  <1>1. PICK i \in 1..Len(free) :
          /\ free[i] \notin inUse
          /\ \A j \in 1..(i - 1) : free[j] \in inUse
          /\ free' = SubSeq(free, i + 1, Len(free))
          /\ inUse' = inUse \cup {free[i]}
          /\ lease' = [lease EXCEPT ![c] = free[i]]
    BY DEF Acquire
  <1>2. i = 1
    <2>1. free[1] \notin inUse
      BY DEF FreePorts
    <2>2. i # 1 => 1 \in 1..(i - 1)
      BY <1>1
    <2> QED BY <1>1, <2>1, <2>2
  <1>3. free # << >> /\ free' = Tail(free)
    <2>1. free' = SubSeq(free, 2, Len(free)) /\ free # << >>
      BY <1>1, <1>2
    <2> QED BY <2>1, TailIsSubSeq
  <1>3a. /\ Tail(free) \in Seq(Ports)
         /\ {Tail(free)[k] : k \in 1..Len(Tail(free))} = {free[k] : k \in 1..Len(free)} \ {free[1]}
         /\ \A k, j \in 1..Len(Tail(free)) : Tail(free)[k] = Tail(free)[j] => k = j
    <2>1. free \in Seq(Ports) /\ \A k, j \in 1..Len(free) : free[k] = free[j] => k = j
      OBVIOUS
    <2> HIDE DEF IInv, TypeOK, NoPortLost, LeaseExclusive
    <2> QED BY <1>3, <2>1, PopUnique
  <1>4. free[1] \in Ports /\ free[1] # NoPort
    BY <1>2, PortsAreNumbers
  <1>5. TypeOK'
    <2>1. free' \in Seq(Ports)
      BY <1>3, <1>3a
    <2> QED BY <1>1, <1>2, <1>4, <2>1
  <1>6. FreePorts' = FreePorts \ {free[1]}
    <2>1. FreePorts' = {Tail(free)[k] : k \in 1..Len(Tail(free))}
      BY <1>3 DEF FreePorts
    <2>2. FreePorts = {free[k] : k \in 1..Len(free)}
      BY DEF FreePorts
    <2> QED BY <1>3a, <2>1, <2>2
  <1>7. \A k, j \in 1..Len(free') : free'[k] = free'[j] => k = j
    BY <1>3, <1>3a
  <1>8. {lease'[d] : d \in Callers} \cap Ports
          = ({lease[d] : d \in Callers} \cap Ports) \cup {free[1]}
    BY <1>1, <1>2, <1>4 DEF Acquire
  <1>9. NoPortLost'
    <2>1. free[1] \in FreePorts
      BY <1>2 DEF FreePorts
    <2>2. inUse' = {lease'[d] : d \in Callers} \cap Ports
      BY <1>1, <1>2, <1>8
    <2>3. FreePorts' \cap inUse' = {} /\ FreePorts' \cup inUse' = Ports
      BY <1>1, <1>2, <1>6, <2>1
    <2> QED BY <1>7, <2>2, <2>3
  <1>10. LeaseExclusive'
    BY <1>1, <1>2
  <1> QED BY <1>1, <1>2, <1>3, <1>4, <1>5, <1>9, <1>10

LEMMA AcquireFailsKeeps ==
  ASSUME IInv, NEW c \in Callers, AcquireFails(c)
  PROVE  IInv' /\ Ports \subseteq inUse /\ free' = free
  <1> USE DEF IInv, TypeOK, NoPortLost, LeaseExclusive
  <1>1. FreePorts = {}
    BY DEF AcquireFails
  <1>2. free = << >> /\ free' = free /\ FreePorts' = FreePorts
    BY <1>1 DEF AcquireFails, FreePorts
  <1>3. lease' = [lease EXCEPT ![c] = Refused] /\ inUse' = inUse
    BY DEF AcquireFails
  <1>4. {lease'[d] : d \in Callers} \cap Ports = {lease[d] : d \in Callers} \cap Ports
    BY <1>3, PortsAreNumbers DEF AcquireFails
  <1> QED BY <1>1, <1>2, <1>3, <1>4, PortsAreNumbers

LEMMA ReleaseKeeps ==
  ASSUME IInv, NEW c \in Callers, Release(c)
  PROVE  IInv' /\ lease[c] \in Ports \ FreePorts /\ free' = Append(free, lease[c])
  <1> USE DEF IInv, TypeOK, NoPortLost, LeaseExclusive
  <1>1. lease[c] \in inUse /\ lease[c] \notin FreePorts /\ lease[c] \in Ports
    BY DEF Release
  <1>2. /\ free' = Append(free, lease[c])
        /\ inUse' = inUse \ {lease[c]}
        /\ lease' = [lease EXCEPT ![c] = NoPort]
    BY <1>1 DEF Release
  <1>3. /\ free' \in Seq(Ports)
        /\ Len(free') = Len(free) + 1
        /\ \A j \in 1..Len(free) : free'[j] = free[j]
        /\ free'[Len(free) + 1] = lease[c]
    BY <1>1, <1>2
  <1>4. TypeOK'
    BY <1>2, <1>3
  <1>5. FreePorts' = FreePorts \cup {lease[c]}
    <2>1. FreePorts' \subseteq FreePorts \cup {lease[c]}
      BY <1>3 DEF FreePorts
    <2>2. ASSUME NEW p \in FreePorts PROVE p \in FreePorts'
      <3>1. PICK j \in 1..Len(free) : p = free[j]
        BY DEF FreePorts
      <3>2. j \in 1..Len(free') /\ free'[j] = p
        BY <1>3, <3>1
      <3> QED BY <3>2 DEF FreePorts
    <2>3. lease[c] \in FreePorts'
      <3>1. Len(free) + 1 \in 1..Len(free')
        BY <1>3
      <3> QED BY <1>3, <3>1 DEF FreePorts
    <2> QED BY <2>1, <2>2, <2>3
  <1>6. \A k, j \in 1..Len(free') : free'[k] = free'[j] => k = j
    <2>1. \A j \in 1..Len(free) : free[j] # lease[c]
      BY <1>1 DEF FreePorts
    <2> QED BY <1>3, <2>1
  <1>7. inUse' = {lease'[d] : d \in Callers} \cap Ports
    <2>1. \A d \in Callers : d # c => lease[d] # lease[c]
      BY <1>1
    <2> QED BY <1>1, <1>2, <2>1, PortsAreNumbers
  <1>8. NoPortLost'
    BY <1>1, <1>2, <1>5, <1>6, <1>7
  <1>9. LeaseExclusive'
    BY <1>2, PortsAreNumbers
  <1> QED BY <1>1, <1>2, <1>4, <1>8, <1>9

LEMMA NextKeeps == IInv /\ [Next]_vars => IInv'
  <1> SUFFICES ASSUME IInv, [Next]_vars PROVE IInv'
    OBVIOUS
  <1>1. ASSUME NEW c \in Callers, Acquire(c) PROVE IInv'
    BY <1>1, AcquireKeeps
  <1>2. ASSUME NEW c \in Callers, Release(c) PROVE IInv'
    BY <1>2, ReleaseKeeps
  <1>3. ASSUME UNCHANGED vars PROVE IInv'
    BY <1>3 DEF vars, IInv, TypeOK, NoPortLost, LeaseExclusive, FreePorts
  <1>4. ASSUME NEW c \in Callers, AcquireFails(c) PROVE IInv'
    BY <1>4, AcquireFailsKeeps
  <1> QED BY <1>1, <1>2, <1>3, <1>4 DEF Next

\* The allocator's bookkeeping is exact and no port is leased twice, for every
\* port range that AppConfig.validate accepts and any number of calls.
THEOREM AllocatorSafe == Spec => [](TypeOK /\ NoPortLost /\ LeaseExclusive)
  <1>1. Spec => []IInv
    BY InitEstablishes, NextKeeps, PTL DEF Spec
  <1> QED BY <1>1, PTL DEF IInv

\* The allocator implements the port pool: exclusive leases, and a refusal only
\* when every even port of the range is leased.
THEOREM AllocatorImplementsPool == Spec => ImplementsPool
  <1>1. Init => Pool!Init
    BY DEF Init, Pool!Init
  <1>2. IInv /\ [Next]_vars => [Pool!Next]_lease
    <2> SUFFICES ASSUME IInv, [Next]_vars PROVE [Pool!Next]_lease
      OBVIOUS
    <2>1. inUse = Pool!Leased
      BY DEF IInv, NoPortLost, Pool!Leased
    <2>2. ASSUME NEW c \in Callers, Acquire(c) PROVE Pool!Next
      <3>1. lease'[c] \in Ports \ Pool!Leased
        BY <2>1, <2>2, AcquireKeeps
      <3>2. lease' = [lease EXCEPT ![c] = lease'[c]]
        BY <2>2 DEF Acquire, IInv, TypeOK
      <3>3. Pool!Take(c)
        BY <2>2, <3>1, <3>2 DEF Pool!Take, Acquire
      <3> QED BY <3>3 DEF Pool!Next
    <2>3. ASSUME NEW c \in Callers, Release(c) PROVE Pool!Next
      BY <2>3 DEF Release, Pool!Give, Pool!Next
    <2>4. ASSUME NEW c \in Callers, AcquireFails(c) PROVE Pool!Next
      <3>1. Pool!Refuse(c)
        BY <2>1, <2>4, AcquireFailsKeeps DEF Pool!Refuse, AcquireFails
      <3> QED BY <3>1 DEF Pool!Next
    <2> QED BY <2>2, <2>3, <2>4 DEF Next, vars
  <1>3. Spec => []IInv
    BY InitEstablishes, NextKeeps, PTL DEF Spec
  <1> QED BY <1>1, <1>2, <1>3, PTL DEF Spec, ImplementsPool, Pool!Spec

\* What a step does to the free list: pop the head, append a port, or nothing.
LEMMA FreeSteps ==
  ASSUME IInv, [Next]_vars
  PROVE  \/ free' = free
         \/ free # << >> /\ free' = Tail(free)
         \/ \E p \in Ports \ FreePorts : free' = Append(free, p)
  <1>1. ASSUME NEW c \in Callers, Acquire(c) PROVE free # << >> /\ free' = Tail(free)
    BY <1>1, AcquireKeeps
  <1>2. ASSUME NEW c \in Callers, AcquireFails(c) PROVE free' = free
    BY <1>2, AcquireFailsKeeps
  <1>3. ASSUME NEW c \in Callers, Release(c)
        PROVE  lease[c] \in Ports \ FreePorts /\ free' = Append(free, lease[c])
    BY <1>3, ReleaseKeeps
  <1> QED BY <1>1, <1>2, <1>3 DEF Next, vars

\* A free port waits only for ports before it on the list.
WaitsInOrder ==
  /\ ahead \in [Ports -> SUBSET Ports]
  /\ \A i \in 1..Len(free) : ahead[free[i]] \subseteq {free[j] : j \in 1..(i - 1)}

LEMMA OrderKept ==
  ASSUME IInv, [Next]_vars, WaitsInOrder, Remember
  PROVE  WaitsInOrder' /\ (\A p \in FreePorts \ FreePorts' : ahead[p] = {})
  <1> USE DEF WaitsInOrder
  <1>1. free \in Seq(Ports) /\ FreePorts \subseteq Ports
    BY DEF IInv, TypeOK, FreePorts
  <1>2. ahead' \in [Ports -> SUBSET Ports]
    BY <1>1 DEF Remember
  <1>3. \A p \in FreePorts : ahead'[p] = ahead[p] \cap FreePorts'
    BY <1>1 DEF Remember
  <1>4. \A i \in 1..Len(free) : free[i] \in FreePorts
    BY DEF FreePorts
  <1>5. CASE free' = free
    <2>1. FreePorts' = FreePorts
      BY <1>5 DEF FreePorts
    <2>2. \A i \in 1..Len(free) : ahead'[free[i]] \subseteq {free[j] : j \in 1..(i - 1)}
      BY <1>3, <1>4
    <2> QED BY <1>2, <1>5, <2>1, <2>2
  <1>6. CASE free # << >> /\ free' = Tail(free)
    <2>1. /\ Tail(free) \in Seq(Ports) /\ Len(Tail(free)) = Len(free) - 1
          /\ \A i \in 1..Len(Tail(free)) : Tail(free)[i] = free[i + 1]
      BY <1>1, <1>6, HeadTailProperties
    <2>2. Len(free) \in Nat \ {0}
      BY <1>1, <1>6, EmptySeq
    <2>3. {Tail(free)[i] : i \in 1..Len(Tail(free))} = {free[i] : i \in 1..Len(free)} \ {free[1]}
      <3>1. \A i, j \in 1..Len(free) : free[i] = free[j] => i = j
        BY DEF IInv, NoPortLost
      <3> QED BY <1>1, <1>6, <3>1, PopUnique
    <2>4. FreePorts' = FreePorts \ {free[1]}
      BY <1>6, <2>3 DEF FreePorts
    <2>5. ASSUME NEW i \in 1..Len(free'), NEW q \in ahead'[free'[i]]
          PROVE  q \in {free'[j] : j \in 1..(i - 1)}
      <3>1. i + 1 \in 1..Len(free) /\ free'[i] = free[i + 1] /\ (i + 1) - 1 = i
        BY <1>6, <2>1, <2>2
      <3>2. q \in ahead[free[i + 1]] /\ q \in FreePorts'
        BY <1>3, <1>4, <2>5, <3>1
      <3>3. PICK j \in 1..i : q = free[j]
        BY <3>1, <3>2
      <3>4. j # 1
        BY <2>4, <3>2, <3>3
      <3>5. j - 1 \in 1..(i - 1) /\ j - 1 \in 1..Len(Tail(free)) /\ (j - 1) + 1 = j
        BY <1>6, <2>1, <2>2, <3>3, <3>4
      <3>6. free'[j - 1] = q
        BY <1>6, <2>1, <3>3, <3>5
      <3> QED BY <3>5, <3>6
    <2>6. ahead[free[1]] = {}
      BY <2>2
    <2> QED BY <1>2, <2>4, <2>5, <2>6
  <1>7. ASSUME NEW p \in Ports \ FreePorts, free' = Append(free, p)
        PROVE  WaitsInOrder' /\ FreePorts \subseteq FreePorts'
    <2>1. /\ Len(free') = Len(free) + 1 /\ Len(free) \in Nat
          /\ \A j \in 1..Len(free) : free'[j] = free[j]
          /\ free'[Len(free) + 1] = p
      BY <1>1, <1>7
    <2>2. FreePorts \subseteq FreePorts' /\ p \in FreePorts'
      <3>1. \A j \in 1..Len(free) : j \in 1..Len(free') /\ free[j] = free'[j]
        BY <2>1
      <3>2. Len(free) + 1 \in 1..Len(free')
        BY <2>1
      <3> QED BY <2>1, <3>1, <3>2 DEF FreePorts
    <2>3. ASSUME NEW i \in 1..Len(free)
          PROVE  ahead'[free'[i]] \subseteq {free'[j] : j \in 1..(i - 1)}
      <3>1. free'[i] = free[i] /\ ahead'[free[i]] \subseteq {free[j] : j \in 1..(i - 1)}
        BY <1>3, <1>4, <2>1
      <3>2. \A j \in 1..(i - 1) : free'[j] = free[j]
        BY <2>1
      <3> QED BY <3>1, <3>2
    <2>4. ahead'[p] \subseteq {free'[j] : j \in 1..Len(free)}
      <3>1. ahead'[p] = FreePorts
        BY <1>7, <2>2 DEF Remember
      <3> QED BY <2>1, <3>1 DEF FreePorts
    <2>5. \A i \in 1..Len(free') : i \in 1..Len(free) \/ (i = Len(free) + 1 /\ i - 1 = Len(free))
      BY <2>1
    <2> QED BY <1>2, <2>1, <2>2, <2>3, <2>4, <2>5
  <1> QED BY <1>5, <1>6, <1>7, FreeSteps

\* A released port is handed out only after every port that was free when it was
\* released, for every port range and any number of calls: the waiting is in the order
\* of the list, whose head Acquire takes because no free port is in use.
THEOREM ReleasedIsReusedLast == ReuseSpec => ReusedLast
  <1> DEFINE Step == \A p \in FreePorts \ FreePorts' : ahead[p] = {}
             Inv == IInv /\ WaitsInOrder
  <1>1. ReuseInit => Inv
    BY InitEstablishes, PortsAreNumbers DEF ReuseInit, WaitsInOrder, IInv, TypeOK
  <1>2. Inv /\ [ReuseNext]_reuseVars => Inv'
    <2>1. Inv /\ ReuseNext => Inv'
      BY NextKeeps, OrderKept DEF ReuseNext
    <2>2. Inv /\ UNCHANGED reuseVars => Inv'
      BY NextKeeps DEF reuseVars, vars, WaitsInOrder
    <2> QED BY <2>1, <2>2
  <1>3. Inv /\ [ReuseNext]_reuseVars => [Step]_reuseVars
    BY OrderKept DEF ReuseNext
  <1> QED BY <1>1, <1>2, <1>3, PTL DEF ReuseSpec, ReusedLast
=============================================================================
