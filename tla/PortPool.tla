------------------------------ MODULE PortPool ------------------------------
(***************************************************************************)
(* What the RTP port allocator of sip_controller.py promises its callers,  *)
(* without its free list and its in-use set: a port is leased to at most   *)
(* one call at a time, and a call is refused only when every port is out.  *)
(***************************************************************************)
CONSTANTS Ports,    \* the ports that may be leased
          Callers,  \* the threads running SipController.make_call
          NoPort,   \* the caller has no call in flight
          Refused   \* the caller's last call was refused a port

VARIABLE lease      \* the port each caller holds, NoPort or Refused

Leased == {lease[c] : c \in Callers} \cap Ports

Init == lease = [c \in Callers |-> NoPort]

Take(c) == /\ lease[c] \notin Ports
           /\ \E p \in Ports \ Leased : lease' = [lease EXCEPT ![c] = p]

Refuse(c) == /\ lease[c] \notin Ports
             /\ Ports \subseteq Leased
             /\ lease' = [lease EXCEPT ![c] = Refused]

Give(c) == /\ lease[c] \in Ports
           /\ lease' = [lease EXCEPT ![c] = NoPort]

Next == \E c \in Callers : Take(c) \/ Refuse(c) \/ Give(c)

Spec == Init /\ [][Next]_lease
=============================================================================
