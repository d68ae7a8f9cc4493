---------------------------- MODULE RtpPortReuse ----------------------------
(***************************************************************************)
(* The order in which RtpPorts hands ports out, stated with a history      *)
(* variable: for every port, the ports that it has to wait for.            *)
(***************************************************************************)
EXTENDS RtpPorts

VARIABLE ahead  \* the ports that were free when a port was released and still are

reuseVars == <<vars, ahead>>

ReuseInit == Init /\ ahead = [p \in Ports |-> {}]

\* A port that becomes free waits for all that are free; one that is handed out is
\* no longer waited for.
Remember ==
  ahead' = [p \in Ports |-> IF p \in FreePorts' \ FreePorts
                              THEN FreePorts
                              ELSE ahead[p] \cap FreePorts']

ReuseNext == Next /\ Remember

ReuseSpec == ReuseInit /\ [][ReuseNext]_reuseVars
-----------------------------------------------------------------------------
\* A released port is handed out only after every port that was free when it was
\* released, over all the acquires and releases in between: late RTP of the call
\* that just ended does not reach the next call while another port is available
\* (pop(0) in acquire, append in release).
ReusedLast == [][\A p \in FreePorts \ FreePorts' : ahead[p] = {}]_reuseVars
=============================================================================
