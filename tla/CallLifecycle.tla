---------------------------- MODULE CallLifecycle ----------------------------
(***************************************************************************)
(* What a client that polls GET /call/{id} may rely on, whatever happens   *)
(* behind it: a call goes queued -> synthesizing -> calling -> outcome, it *)
(* may fail after synthesizing has begun, its outcome never changes, and   *)
(* its record is forgotten only once it has an outcome.                    *)
(***************************************************************************)
CONSTANT Calls

VARIABLES status,  \* CallRecord.status, "none" before the request
          store    \* the calls the service still knows

Outcomes == {"completed", "failed", "no_answer", "busy"}

Moves == {<<"queued", "synthesizing">>, <<"synthesizing", "calling">>,
          <<"synthesizing", "failed">>} \cup ({"calling"} \X Outcomes)

Init == status = [c \in Calls |-> "none"] /\ store = {}

\* A new call is known at once; finished calls may be forgotten to make room.
Accept(c) == /\ status[c] = "none"
             /\ status' = [status EXCEPT ![c] = "queued"]
             /\ \E old \in SUBSET {d \in store : status[d] \in Outcomes} :
                  store' = (store \cup {c}) \ old

Advance(c) == /\ \E s \in Outcomes \cup {"synthesizing", "calling"} :
                   /\ <<status[c], s>> \in Moves
                   /\ status' = [status EXCEPT ![c] = s]
              /\ UNCHANGED store

Next == \E c \in Calls : Accept(c) \/ Advance(c)

Spec == Init /\ [][Next]_<<status, store>>
=============================================================================
