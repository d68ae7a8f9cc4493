------------------------------- MODULE SipCall -------------------------------
(***************************************************************************)
(* One call of SipConnection.make_call on its own, already registered,     *)
(* connection: the INVITE with its 407 retry, the ringing loop, playback,  *)
(* BYE and CANCEL (SipConnection._invite), against the proxy and callee at *)
(* the other end of the connection, which are not part of the repository.  *)
(*                                                                         *)
(* A read returns what has arrived: over TCP a non-empty prefix of the     *)
(* messages on their way, as one buffer; over UDP one datagram, in any     *)
(* order, and datagrams may be lost.  Deadlines are events that may happen *)
(* at any time in the state that waits for them.                           *)
(***************************************************************************)
EXTENDS Integers, Sequences, SequencesExt

CONSTANTS Transports,  \* configured transports: "tcp" (TLS is alike), "udp"
          Repeat,      \* CallRequest.repeat
          Rejections,  \* final responses other than 200 the far end may give
          MaxDown      \* bound on responses in flight, for the far end's repeats

ASSUME SipCallAssumption ==
  /\ Transports \subseteq {"tcp", "udp"}
  /\ Repeat \in Nat \ {0}
  /\ Rejections \subseteq 300..699
  /\ MaxDown \in Nat

VARIABLES
  pc,           \* where _invite is
  pending,      \* pending: a buffer read but not yet examined
  inviteCseq,   \* invite_cseq; the INVITE's Via branch is unique to it
  pendingCseq,  \* _pending_invite_cseq and _pending_invite_branch
  rep,          \* playbacks started
  media,        \* an ffmpeg process is running
  result,       \* the CallResult returned, or "raised"
  up, down,     \* messages on their way to and from the far end
  transport,    \* _transport
  alive,        \* the connection carries messages
  far,          \* state of the far end for the last INVITE it got
  farCseq,      \* CSeq of that INVITE
  final,        \* final response the far end gave to it (0 = none)
  unacked       \* <<CSeq, status>> of non-2xx finals the far end has no ACK for

invite  == <<inviteCseq, pendingCseq>>
uacVars == <<pc, pending, invite, rep, media, result>>
conn    == <<transport, alive>>
farVars == <<far, farCseq, final, unacked>>
vars    == <<uacVars, up, down, conn, farVars>>

\* auth: a 407 carries a Digest challenge
Resp(status, cseq, method) ==
  [kind |-> "resp", status |-> status, cseq |-> cseq, method |-> method, auth |-> FALSE]
Challenge(m) == [m EXCEPT !.auth = TRUE]
ByeRequest == [kind |-> "BYE", status |-> 0, cseq |-> 1, method |-> "BYE", auth |-> FALSE]
\* A request's branch is that of INVITE number b, or 0 when made afresh.
Req(kind, cseq, b) == [kind |-> kind, cseq |-> cseq, branch |-> b]

\* _invite has returned or raised: "cancelled" when it gave the INVITE up with a
\* CANCEL, "done" in every other way.
Done == pc \in {"done", "cancelled"}
InDialog == pc \in {"stream", "play", "delay", "hangup", "byewait"}

Init ==
  /\ pc = "start" /\ pending = << >> /\ inviteCseq = 0 /\ pendingCseq = 0
  /\ rep = 0 /\ media = FALSE /\ result = "none"
  /\ up = << >> /\ down = << >> /\ transport \in Transports /\ alive = TRUE
  /\ far = "idle" /\ farCseq = 0 /\ final = 0 /\ unacked = {}
-----------------------------------------------------------------------------
(* Reading (_recv_until) and sending (_send).                              *)

\* Message k may be the next to arrive at the end of channel c.
Arrives(c, k) == k \in 1..Len(c) /\ (transport = "tcp" => k = 1)

\* A read returns the non-empty buffer b; more may be left in the socket.
Receive(b) ==
  \/ /\ transport = "tcp"
     /\ \E k \in 1..Len(down) : b = SubSeq(down, 1, k) /\ down' = SubSeq(down, k + 1, Len(down))
  \/ /\ transport = "udp"
     /\ \E k \in 1..Len(down) : b = <<down[k]>> /\ down' = RemoveAt(down, k)

\* A read returns "": nothing came in time, or the peer has closed.
ReceiveNothing(b) == b = << >> /\ UNCHANGED down

Buffers == {SubSeq(down, i, k) : i, k \in 1..Len(down)} \cup {<< >>}

\* On a dead connection what is sent is lost, unless sending raises (Fail).
Send(ms) == up' = IF alive THEN up \o ms ELSE up

\* What the regular expressions find in a buffer: a request line anywhere, the
\* first and the last status line, the first and the last CSeq.
HasBye(b) == \E i \in 1..Len(b) : b[i].kind = "BYE"
FirstCseq(b) == b[1].cseq
Challenged(b) == \E i \in 1..Len(b) :
                   /\ b[i].status = 407 /\ b[i].auth
                   /\ \A j \in 1..(i - 1) : b[j].kind # "resp"

Finish(r) == pc' = "done" /\ result' = r
GiveUp    == pc' = "cancelled" /\ result' = "no_answer"
-----------------------------------------------------------------------------
(* The INVITE and its 407 retry.                                           *)

SendInvite ==
  /\ pc = "start"
  /\ Send(<<Req("INVITE", 1, 1)>>)
  /\ inviteCseq' = 1 /\ pendingCseq' = 1
  /\ pc' = "first"
  /\ UNCHANGED <<pending, rep, media, result, down, conn, farVars>>

\* The 407 is ACKed on the branch of its INVITE and a new INVITE follows.
RetrySends(b) == <<Req("ACK", FirstCseq(b), inviteCseq), Req("INVITE", 2, 2)>>

\* Mutant of Retry: CANCEL keeps the branch and CSeq of the first INVITE.
RetryKeepsPending ==
  /\ pc = "first"
  /\ \E b \in Buffers : Receive(b) /\ Challenged(b) /\ Send(RetrySends(b))
  /\ inviteCseq' = 2 /\ pendingCseq' = pendingCseq
  /\ pc' = "retry"
  /\ UNCHANGED <<pending, rep, media, result, conn, farVars>>

\* The first read starts with a 407 that carries a challenge.
Retry ==
  /\ pc = "first"
  /\ \E b \in Buffers : Receive(b) /\ Challenged(b) /\ Send(RetrySends(b))
  /\ inviteCseq' = 2 /\ pendingCseq' = 2
  /\ pc' = "retry"
  /\ UNCHANGED <<pending, rep, media, result, conn, farVars>>

\* Any other first buffer, and any second one, is left to the ringing loop.
EnterLoop ==
  /\ pc \in {"first", "retry"}
  /\ \E b \in Buffers : /\ Receive(b) \/ ReceiveNothing(b)
                        /\ pc = "first" => ~Challenged(b)
                        /\ pending' = b
  /\ pc' = "loop"
  /\ UNCHANGED <<invite, rep, media, result, up, conn, farVars>>
-----------------------------------------------------------------------------
(* The ringing loop.                                                       *)

\* The buffer the loop examines next: pending if there is one, else a read.
Examine(b) == /\ pending' = << >>
              /\ b # << >>
              /\ IF pending # << >> THEN b = pending /\ UNCHANGED down ELSE Receive(b)
LoopBuffers == Buffers \cup {pending}

\* Mutant of Relevant: responses to a superseded INVITE are acted on.
AnyInviteResponse(m) == m.kind = "resp" /\ m.method = "INVITE"

\* The response is one to the INVITE in flight.
Relevant(m) == m.kind = "resp" /\ m.method = "INVITE" /\ m.cseq = inviteCseq

\* The loop looks at the last response of a buffer without a BYE.
LoopStatus(b) == IF ~HasBye(b) /\ Relevant(Last(b)) THEN Last(b).status ELSE 0

LoopBye ==
  /\ pc = "loop"
  /\ \E b \in LoopBuffers :
       Examine(b) /\ HasBye(b) /\ Send(<<Req("200BYE", FirstCseq(b), 0)>>)
  /\ Finish("no_answer")
  /\ UNCHANGED <<invite, rep, media, conn, farVars>>

\* 100, 180, 183, responses of other transactions, and the statuses the loop
\* has no branch for.
LoopSkip ==
  /\ pc = "loop"
  /\ \E b \in LoopBuffers :
       Examine(b) /\ ~HasBye(b) /\ LoopStatus(b) < 400 /\ LoopStatus(b) # 200
  /\ UNCHANGED <<pc, invite, rep, media, result, up, conn, farVars>>

LoopAnswer ==
  /\ pc = "loop"
  /\ \E b \in LoopBuffers :
       Examine(b) /\ LoopStatus(b) = 200 /\ Send(<<Req("ACK", FirstCseq(b), 0)>>)
  /\ pc' = "stream"
  /\ UNCHANGED <<invite, rep, media, result, conn, farVars>>

Classify(status) == CASE status \in {486, 600} -> "busy"
                      [] status \in {487, 408} -> "no_answer"
                      [] status = 603          -> "declined"
                      [] OTHER                 -> "failed"

\* Mutant of ErrorAckBranch: the ACK of an error gets a branch of its own (the
\* cause of the 482 Loop Detected failures).
FreshBranch == 0

\* The ACK of a final error completes the INVITE transaction on its branch.
ErrorAckBranch == inviteCseq

LoopReject ==
  /\ pc = "loop"
  /\ \E b \in LoopBuffers :
       /\ Examine(b) /\ LoopStatus(b) >= 400
       /\ Send(<<Req("ACK", FirstCseq(b), ErrorAckBranch)>>)
       /\ Finish(Classify(LoopStatus(b)))
  /\ UNCHANGED <<invite, rep, media, conn, farVars>>

\* ring_deadline has passed, or a read has raised: the INVITE is CANCELled, and
\* a failure to send the CANCEL is swallowed.
Cancel ==
  /\ pc = "loop" /\ pending = << >>
  /\ \/ /\ Send(<<Req("CANCEL", pendingCseq, pendingCseq)>>)
        /\ pc' = "cancelwait" /\ UNCHANGED result
     \/ ~alive /\ GiveUp /\ UNCHANGED up
  /\ UNCHANGED <<pending, invite, rep, media, down, conn, farVars>>

\* Mutant of CancelWait: the read has no timeout.
CancelWaitForAnswer ==
  /\ pc = "cancelwait"
  /\ \E b \in Buffers : Receive(b)
  /\ GiveUp
  /\ UNCHANGED <<pending, invite, rep, media, up, conn, farVars>>

\* One more read, whose outcome is not looked at.
CancelWait ==
  /\ pc = "cancelwait"
  /\ \E b \in Buffers : Receive(b) \/ ReceiveNothing(b)
  /\ GiveUp
  /\ UNCHANGED <<pending, invite, rep, media, up, conn, farVars>>
-----------------------------------------------------------------------------
(* Playback and hanging up.                                                *)

StartPlayback ==
  /\ pc = "stream"
  /\ media' = TRUE /\ rep' = rep + 1
  /\ pc' = "play"
  /\ UNCHANGED <<pending, invite, result, up, down, conn, farVars>>

ByeCseq == inviteCseq + 1

\* _stream_rtp returned None: no RTP destination, no WAV file, ffmpeg failed.
AbortPlayback ==
  /\ pc = "stream"
  /\ Send(<<Req("BYE", ByeCseq, 0)>>)
  /\ Finish("failed")
  /\ UNCHANGED <<pending, invite, rep, media, down, conn, farVars>>

\* Mutant of RemoteBye: the call returns while ffmpeg keeps streaming.
RemoteByeKeepsMedia ==
  /\ pc \in {"play", "delay"}
  /\ \E b \in Buffers :
       Receive(b) /\ HasBye(b) /\ Send(<<Req("200BYE", FirstCseq(b), 0)>>)
  /\ Finish("completed")
  /\ UNCHANGED <<pending, invite, rep, media, conn, farVars>>

\* A BYE read during a playback or the pause after it is answered, ffmpeg is
\* stopped and the call is over.
RemoteBye ==
  /\ pc \in {"play", "delay"}
  /\ \E b \in Buffers :
       Receive(b) /\ HasBye(b) /\ Send(<<Req("200BYE", FirstCseq(b), 0)>>)
  /\ media' = FALSE
  /\ Finish("completed")
  /\ UNCHANGED <<pending, invite, rep, conn, farVars>>

\* Everything else is dropped, a repeated 200 OK included; so is a BYE whose
\* answer cannot be sent, because the exception is caught inside the loop.
DropMessage ==
  /\ pc \in {"play", "delay"}
  /\ \E b \in Buffers : Receive(b) /\ (HasBye(b) => ~alive)
  /\ UNCHANGED <<uacVars, up, conn, farVars>>

\* Mutant of EndPlayback: one playback too many.
EndPlaybackLate ==
  /\ pc = "play"
  /\ media' = FALSE
  /\ pc' = IF rep <= Repeat THEN "delay" ELSE "hangup"
  /\ UNCHANGED <<pending, invite, rep, result, up, down, conn, farVars>>

\* ffmpeg has exited, or the playback deadline has passed and it is stopped.
EndPlayback ==
  /\ pc = "play"
  /\ media' = FALSE
  /\ pc' = IF rep < Repeat THEN "delay" ELSE "hangup"
  /\ UNCHANGED <<pending, invite, rep, result, up, down, conn, farVars>>

\* repeat_delay is over; past the deadline no further playback starts.
EndDelay ==
  /\ pc = "delay"
  /\ pc' \in {"stream", "hangup"}
  /\ UNCHANGED <<pending, invite, rep, media, result, up, down, conn, farVars>>

\* Mutant of HangUp: the connection is closed without a BYE.
HangUpSilently ==
  /\ pc = "hangup"
  /\ pc' = "byewait"
  /\ UNCHANGED <<pending, invite, rep, media, result, up, down, conn, farVars>>

HangUp ==
  /\ pc = "hangup"
  /\ Send(<<Req("BYE", ByeCseq, 0)>>)
  /\ pc' = "byewait"
  /\ UNCHANGED <<pending, invite, rep, media, result, down, conn, farVars>>

\* The answer to the BYE, or none: only the log differs.
ByeWait ==
  /\ pc = "byewait"
  /\ \E b \in Buffers : Receive(b) \/ ReceiveNothing(b)
  /\ Finish("completed")
  /\ UNCHANGED <<pending, invite, rep, media, up, conn, farVars>>

\* An exception leaves _invite: on a dead connection any send, and any read
\* before the ringing loop; and Popen failing otherwise than by FileNotFoundError,
\* which the call does not follow with a BYE.
Fail ==
  /\ \/ ~alive /\ pc \in {"start", "first", "retry", "stream", "hangup"} /\ UNCHANGED <<pending, down>>
     \/ ~alive /\ pc = "loop"
        /\ \E b \in LoopBuffers :
             Examine(b) /\ (HasBye(b) \/ LoopStatus(b) = 200 \/ LoopStatus(b) >= 400)
     \/ pc = "stream" /\ UNCHANGED <<pending, down>>
  /\ Finish("raised")
  /\ UNCHANGED <<invite, rep, media, up, conn, farVars>>

UacNext ==
  \/ SendInvite \/ Retry \/ EnterLoop
  \/ LoopBye \/ LoopSkip \/ LoopAnswer \/ LoopReject \/ Cancel \/ CancelWait
  \/ StartPlayback \/ AbortPlayback \/ RemoteBye \/ DropMessage \/ EndPlayback
  \/ EndDelay \/ HangUp \/ ByeWait \/ Fail
-----------------------------------------------------------------------------
(* The far end, and the connection.                                        *)

FarSends(ms) == down' = down \o ms

\* An INVITE rings; the proxy may answer 100 Trying at once.
FarInvite(m) ==
  /\ m.kind = "INVITE"
  /\ far' = "ringing" /\ farCseq' = m.cseq /\ final' = 0
  /\ FarSends(<< >>) \/ FarSends(<<Resp(100, m.cseq, "INVITE")>>)
  /\ UNCHANGED unacked

\* An ACK on an INVITE's branch completes its transaction; any other ACK is for
\* the dialog.
FarAck(m) ==
  /\ m.kind = "ACK"
  /\ unacked' = {u \in unacked : u[1] # m.cseq \/ u[1] # m.branch}
  /\ far' = IF far = "answered" /\ m.branch = 0 /\ m.cseq = farCseq THEN "talking" ELSE far
  /\ UNCHANGED <<farCseq, final, down>>

FarCancel(m) ==
  /\ m.kind = "CANCEL"
  /\ IF far = "ringing" /\ m.cseq = farCseq /\ m.branch = farCseq
       THEN /\ far' = "rejected" /\ final' = 487
            /\ unacked' = unacked \cup {<<farCseq, 487>>}
            /\ FarSends(<<Resp(200, m.cseq, "CANCEL"), Resp(487, farCseq, "INVITE")>>)
       ELSE /\ FarSends(<<Resp(IF m.cseq = farCseq THEN 200 ELSE 481, m.cseq, "CANCEL")>>)
            /\ UNCHANGED <<far, final, unacked>>
  /\ UNCHANGED farCseq

FarBye(m) ==
  /\ m.kind = "BYE"
  /\ IF far \in {"answered", "talking"}
       THEN far' = "released" /\ FarSends(<<Resp(200, m.cseq, "BYE")>>)
       ELSE UNCHANGED far /\ FarSends(<<Resp(481, m.cseq, "BYE")>>)
  /\ UNCHANGED <<farCseq, final, unacked>>

FarByeAnswered(m) == m.kind = "200BYE" /\ UNCHANGED <<farVars, down>>

FarReceive ==
  /\ \E k \in 1..Len(up) :
       /\ Arrives(up, k) /\ up' = RemoveAt(up, k)
       /\ LET m == up[k] IN
            FarInvite(m) \/ FarAck(m) \/ FarCancel(m) \/ FarBye(m) \/ FarByeAnswered(m)
  /\ UNCHANGED <<uacVars, conn>>

FarAlert == /\ far = "ringing" /\ Len(down) < MaxDown
            /\ \E status \in {180, 183} : FarSends(<<Resp(status, farCseq, "INVITE")>>)
            /\ UNCHANGED <<uacVars, up, conn, farVars>>

FarAnswer == /\ far = "ringing"
             /\ far' = "answered" /\ final' = 200
             /\ FarSends(<<Resp(200, farCseq, "INVITE")>>)
             /\ UNCHANGED <<uacVars, up, conn, farCseq, unacked>>

FarReject == /\ far = "ringing"
             /\ \E status \in Rejections :
                  LET m == Resp(status, farCseq, "INVITE") IN
                  /\ final' = status
                  /\ unacked' = unacked \cup {<<farCseq, status>>}
                  /\ \/ far' = "rejected" /\ FarSends(<<m>>)
                     \/ status = 407 /\ far' = "challenged" /\ FarSends(<<Challenge(m)>>)
             /\ UNCHANGED <<uacVars, up, conn, farCseq>>

\* A final response is repeated until its ACK comes (a 200 over TCP as well).
FarRepeat == /\ Len(down) < MaxDown
             /\ \/ far = "answered"
                \/ transport = "udp" /\ <<farCseq, final>> \in unacked
             /\ LET m == Resp(final, farCseq, "INVITE") IN
                FarSends(<<IF far = "challenged" THEN Challenge(m) ELSE m>>)
             /\ UNCHANGED <<uacVars, up, conn, farVars>>

\* The callee hangs up, or gives up waiting for the ACK of its 200 OK.
FarHangUp == /\ far \in {"answered", "talking"}
             /\ far' = "released"
             /\ FarSends(<<ByeRequest>>)
             /\ UNCHANGED <<uacVars, up, conn, farCseq, final, unacked>>

\* The TCP connection breaks: nothing more arrives at the far end.
ConnLost == /\ transport = "tcp" /\ alive /\ ~Done
            /\ alive' = FALSE /\ up' = << >>
            /\ UNCHANGED <<uacVars, down, transport, farVars>>

DatagramLost == /\ transport = "udp"
                /\ \/ \E k \in 1..Len(up) : up' = RemoveAt(up, k) /\ UNCHANGED down
                   \/ \E k \in 1..Len(down) : down' = RemoveAt(down, k) /\ UNCHANGED up
                /\ UNCHANGED <<uacVars, conn, farVars>>

FarNext == \/ FarReceive \/ FarAlert \/ FarAnswer \/ FarReject \/ FarRepeat \/ FarHangUp
           \/ ConnLost \/ DatagramLost

Next == UacNext \/ FarNext

\* The thread running _invite keeps going: reads time out, deadlines pass and
\* ffmpeg exits or is stopped.  The far end takes in what reaches it and gives up
\* on an answer that is never ACKed, but talks as long as it likes.
Fairness ==
  /\ WF_vars(SendInvite) /\ WF_vars(EnterLoop)
  /\ WF_vars(LoopBye \/ LoopSkip \/ LoopAnswer \/ LoopReject) /\ WF_vars(Cancel)
  /\ WF_vars(CancelWait) /\ WF_vars(StartPlayback \/ AbortPlayback)
  /\ WF_vars(EndPlayback) /\ WF_vars(EndDelay) /\ WF_vars(HangUp) /\ WF_vars(ByeWait)
  /\ WF_vars(FarReceive) /\ WF_vars(far = "answered" /\ FarHangUp)

Spec == Init /\ [][Next]_vars
FairSpec == Spec /\ Fairness
-----------------------------------------------------------------------------
TypeOK ==
  /\ pc \in {"start", "first", "retry", "loop", "cancelwait", "stream", "play",
             "delay", "hangup", "byewait", "done", "cancelled"}
  /\ inviteCseq \in 0..2 /\ pendingCseq \in 0..2 /\ farCseq \in 0..2
  /\ rep \in 0..Repeat /\ media \in BOOLEAN /\ alive \in BOOLEAN
  /\ result \in {"none", "completed", "no_answer", "busy", "declined", "failed", "raised"}
  /\ far \in {"idle", "ringing", "challenged", "rejected", "answered", "talking", "released"}
  /\ final \in Rejections \cup {0, 200, 487}
  /\ unacked \subseteq (1..2) \X (Rejections \cup {487})
  /\ \A i \in 1..Len(pending) : pending[i].kind \in {"resp", "BYE"}
  /\ \A i \in 1..Len(down) : down[i].kind \in {"resp", "BYE"}
  /\ \A i \in 1..Len(up) : up[i].kind \in {"INVITE", "ACK", "CANCEL", "BYE", "200BYE"}

\* The call is over, its connection held, and everything it sent has arrived.
Settled == Done /\ transport = "tcp" /\ alive /\ up = << >>

\* When a call over TCP has returned, nobody is left ringing or in conversation
\* with the announcer: the CANCEL reached the INVITE that was ringing (also after
\* a 407 retry), and every answer the call saw was followed by a BYE of either
\* side.  A callee is left without one in one case only: its 200 OK crossed the
\* CANCEL, whose response is the last thing that _invite reads, unexamined.
NobodyLeftOnTheLine ==
  Settled /\ result # "raised" =>
    /\ far \notin {"ringing", "talking"}
    /\ far = "answered" => pc = "cancelled"

\* Every final error is ACKed on the branch of its own INVITE, the 407 before a
\* retry included, so the proxy closes the transaction instead of repeating the
\* response or forwarding a stray ACK.  The exception is an answer to the last
\* INVITE that crosses or answers its CANCEL, or that the ringing loop has no
\* branch for (a 3xx), which _invite waits out and CANCELs: it acts on none.
ErrorsActedOnAreAcked ==
  Settled /\ result # "raised" =>
    \A u \in unacked : pc = "cancelled" /\ u[1] = inviteCseq

\* Each result says what the callee did to the INVITE that counted: completed,
\* busy and declined are never reported for another answer or for the answer to an
\* INVITE that the retry has superseded, and failed is never reported for a call
\* that is still open or was declined, busy or timed out.
ResultMatchesCallee ==
  /\ result = "completed" => final = 200
  /\ result = "busy"      => final \in {486, 600}
  /\ result = "declined"  => final = 603
  /\ result = "failed"    => final \notin {0, 408, 486, 487, 600, 603}

Dialog == INSTANCE CallDialog WITH
            phase <- IF Done THEN "over" ELSE IF InDialog THEN "connected" ELSE "inviting",
            heard <- rep > 0

\* The call as its result describes it: media only in an answered call and never
\* after the call, completed only if a playback was started, busy / declined /
\* no_answer only if the callee was never connected.
ImplementsDialog == Dialog!Spec

\* make_call returns, whatever the far end, the connection and ffmpeg do.
CallReturns == <>Done

\* As long as the connection lives, the callee's phone is eventually free again,
\* also when its answer crossed the CANCEL (then only because the callee gives up).
CalleeReleased ==
  <>[](far \notin {"ringing", "answered", "talking"} \/ result = "raised"
      \/ transport = "udp" \/ ~alive)

\* The comment "Handle 407 Proxy Authentication Required (single retry)": a call does
\* not fail on the far end's first request for credentials.
ChallengeIsRetried == Settled /\ result = "failed" /\ far = "challenged" => inviteCseq = 2
=============================================================================
