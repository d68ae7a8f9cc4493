------------------------------ MODULE RtpPorts ------------------------------
(***************************************************************************)
(* _RtpPortAllocator and the way SipController.make_call uses it: a port   *)
(* is acquired before the call's connection is built and released in the   *)
(* finally block.  Both operations run under the allocator's lock, so each *)
(* is one action.                                                          *)
(***************************************************************************)
EXTENDS Integers, Sequences, FiniteSets

CONSTANTS PortMin, PortMax,  \* SipConfig.rtp_port_min, rtp_port_max
          Callers,           \* the threads running make_call
          NoPort,            \* the caller has no call in flight
          Refused            \* acquire raised RuntimeError in the caller's last call

\* AppConfig.validate accepts a range exactly when the second conjunct holds.
ASSUME PortRangeAssumption ==
  /\ PortMin \in Nat /\ PortMax \in Nat
  /\ (PortMax - PortMin) \div 2 >= 1
ASSUME NoPortAssumption == NoPort \notin Nat /\ Refused \notin Nat /\ NoPort # Refused

VARIABLES free,   \* _free: the ports in the order they will be handed out
          inUse,  \* _in_use
          lease   \* make_call's local variable port, NoPort or Refused

vars == <<free, inUse, lease>>

\* start in _RtpPortAllocator.__init__: the first even port of the range
Start == IF PortMin % 2 = 0 THEN PortMin ELSE PortMin + 1

PortCount == (PortMax - Start) \div 2 + 1
InitialFree == [i \in 1..PortCount |-> Start + 2 * (i - 1)]

Ports == {InitialFree[i] : i \in 1..PortCount}
FreePorts == {free[i] : i \in 1..Len(free)}

Init == /\ free = InitialFree
        /\ inUse = {}
        /\ lease = [c \in Callers |-> NoPort]

\* Mutant of Acquire: the head of the list is read, not popped.
AcquireWithoutPop(c) ==
  /\ lease[c] \notin Ports
  /\ free # << >>
  /\ inUse' = inUse \cup {free[1]}
  /\ lease' = [lease EXCEPT ![c] = free[1]]
  /\ UNCHANGED free

\* Mutant of Acquire: the port released last is popped.
AcquireLast(c) ==
  /\ lease[c] \notin Ports
  /\ free # << >>
  /\ free' = SubSeq(free, 1, Len(free) - 1)
  /\ inUse' = inUse \cup {free[Len(free)]}
  /\ lease' = [lease EXCEPT ![c] = free[Len(free)]]

\* The loop of acquire pops, and drops, the ports that are in use before it.
Acquire(c) ==
  /\ lease[c] \notin Ports
  /\ \E i \in 1..Len(free) :
       /\ free[i] \notin inUse
       /\ \A j \in 1..(i - 1) : free[j] \in inUse
       /\ free' = SubSeq(free, i + 1, Len(free))
       /\ inUse' = inUse \cup {free[i]}
       /\ lease' = [lease EXCEPT ![c] = free[i]]

\* The loop has emptied the list without finding a port: RuntimeError.
AcquireFails(c) ==
  /\ lease[c] \notin Ports
  /\ FreePorts \subseteq inUse
  /\ free' = << >>
  /\ lease' = [lease EXCEPT ![c] = Refused]
  /\ UNCHANGED inUse

\* Mutant of Release: the port is not returned.
ReleaseDropsPort(c) ==
  /\ lease[c] \in Ports
  /\ inUse' = inUse \ {lease[c]}
  /\ lease' = [lease EXCEPT ![c] = NoPort]
  /\ UNCHANGED free

\* Mutant of Release: also the call that got no port releases one.
ReleaseUnguarded(c) ==
  /\ lease[c] # NoPort
  /\ inUse' = inUse \ {lease[c]}
  /\ free' = Append(free, lease[c])
  /\ lease' = [lease EXCEPT ![c] = NoPort]

Release(c) ==
  /\ lease[c] \in Ports
  /\ inUse' = inUse \ {lease[c]}
  /\ free' = IF lease[c] \in FreePorts THEN free ELSE Append(free, lease[c])
  /\ lease' = [lease EXCEPT ![c] = NoPort]

Next == \E c \in Callers : Acquire(c) \/ AcquireFails(c) \/ Release(c)

Spec == Init /\ [][Next]_vars
-----------------------------------------------------------------------------
TypeOK == /\ free \in Seq(Ports)
          /\ inUse \subseteq Ports
          /\ lease \in [Callers -> Ports \cup {NoPort, Refused}]

Pool == INSTANCE PortPool

\* The allocator implements the port pool: two calls in flight never share an
\* RTP port, and "No free RTP ports" is raised only when every even port of the
\* range is leased (acquire and release never lose or duplicate a port).
ImplementsPool == Pool!Spec

\* Every port is on the free list exactly once or leased to exactly one call: no
\* sequence of calls and releases leaks a port or puts one on the list twice.
NoPortLost ==
  /\ inUse = {lease[c] : c \in Callers} \cap Ports
  /\ FreePorts \cap inUse = {}
  /\ FreePorts \cup inUse = Ports
  /\ \A i, j \in 1..Len(free) : free[i] = free[j] => i = j

\* Two calls in flight never hold the same port.
LeaseExclusive ==
  \A c, d \in Callers : lease[c] = lease[d] /\ c # d => lease[c] \notin Ports
=============================================================================
