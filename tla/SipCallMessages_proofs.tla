------------------------ MODULE SipCallMessages_proofs -----------------------
(***************************************************************************)
(* Proofs about the messages of a call, on their way in both directions:   *)
(* its result says what the callee did, for any transport, number of       *)
(* playbacks and set of rejections, and over TCP nothing is owed to the    *)
(* far end when it has returned.                                           *)
(***************************************************************************)
EXTENDS SipCall, SequenceTheorems, TLAPS

Messages == [kind : {"resp", "BYE"}, status : Nat, cseq : Nat,
             method : {"INVITE", "CANCEL", "BYE"}, auth : BOOLEAN]
Requests == [kind : {"INVITE", "ACK", "CANCEL", "BYE", "200BYE"}, cseq : Nat, branch : Nat]

\* The far end has given its final response to the last INVITE.
Decided == far \notin {"idle", "ringing"}

\* A final response to the last INVITE is the one the far end gave; no INVITE was
\* challenged before it arrived.
Honest(m) ==
  /\ m.kind = "resp" /\ m.method = "INVITE" =>
       /\ m.cseq <= farCseq
       /\ m.cseq = farCseq /\ m.status >= 200 => m.status = final /\ Decided
  /\ m.status = 407 => farCseq > 0

Truths == {m \in Messages : Honest(m)}

HeardOK == down \in Seq(Truths) /\ pending \in Seq(Truths)

\* At most one INVITE is on its way, the newest.
SentOK ==
  /\ up \in Seq(Requests)
  /\ \A i \in 1..Len(up) :
       up[i].kind = "INVITE" => up[i].cseq = inviteCseq /\ farCseq < inviteCseq
  /\ \A i, k \in 1..Len(up) : up[i].kind = "INVITE" /\ up[k].kind = "INVITE" => i = k

FarOK ==
  /\ farCseq \in Nat /\ final \in Nat /\ farCseq <= inviteCseq
  /\ far = "idle" <=> farCseq = 0
  /\ ~Decided => final = 0

PlaceOK ==
  /\ inviteCseq \in Nat /\ pendingCseq \in Nat
  /\ pc = "start" => inviteCseq = 0
  /\ pc = "first" => inviteCseq = 1
  /\ pc \notin {"done", "cancelled"} => result = "none"

\* What the call has acted on is the far end's decision about the INVITE in flight.
ActedOn ==
  /\ InDialog => Decided /\ farCseq = inviteCseq /\ final = 200
  /\ result \in {"completed", "busy", "declined", "failed"} => Decided /\ farCseq = inviteCseq
  /\ ResultMatchesCallee

\* ResultMatchesCallee alone says nothing of the messages a result is drawn from.
IInv == HeardOK /\ SentOK /\ FarOK /\ PlaceOK /\ ActedOn

LEMMA InitEstablishes == Init => IInv
  BY DEF Init, IInv, HeardOK, SentOK, FarOK, Decided, PlaceOK, ActedOn, InDialog,
         ResultMatchesCallee
-----------------------------------------------------------------------------
(* Channels.                                                               *)

LEMMA RemoveAtSeq ==
  ASSUME NEW S, NEW s \in Seq(S), NEW k \in 1..Len(s)
  PROVE  /\ RemoveAt(s, k) \in Seq(S) /\ Len(RemoveAt(s, k)) = Len(s) - 1
         /\ \A i \in 1..(Len(s) - 1) :
              RemoveAt(s, k)[i] = IF i < k THEN s[i] ELSE s[i + 1]
  <1> DEFINE a == SubSeq(s, 1, k - 1)
             b == SubSeq(s, k + 1, Len(s))
  <1>1. Len(s) \in Nat /\ k \in Int
    OBVIOUS
  <1>2. a \in Seq(S) /\ Len(a) = k - 1 /\ \A i \in 1..(k - 1) : a[i] = s[i]
    BY SubSeqProperties
  <1>3. b \in Seq(S) /\ Len(b) = Len(s) - k /\ \A i \in 1..(Len(s) - k) : b[i] = s[k + i]
    BY SubSeqProperties
  <1> HIDE DEF a, b
  <1>4. /\ a \o b \in Seq(S) /\ Len(a \o b) = Len(a) + Len(b)
        /\ \A i \in 1..(Len(a) + Len(b)) :
             (a \o b)[i] = IF i <= Len(a) THEN a[i] ELSE b[i - Len(a)]
    BY <1>2, <1>3, ConcatProperties
  <1>5. ASSUME NEW i \in 1..(Len(s) - 1)
        PROVE  (a \o b)[i] = IF i < k THEN s[i] ELSE s[i + 1]
    <2>1. (a \o b)[i] = IF i <= k - 1 THEN a[i] ELSE b[i - (k - 1)]
      BY <1>1, <1>2, <1>3, <1>4
    <2>2. CASE i < k
      <3>1. i \in 1..(k - 1)
        BY <1>1, <2>2
      <3> QED BY <1>2, <2>1, <2>2, <3>1
    <2>3. CASE ~(i < k)
      <3>1. i - (k - 1) \in 1..(Len(s) - k) /\ k + (i - (k - 1)) = i + 1 /\ ~(i <= k - 1)
        BY <1>1, <2>3
      <3> QED BY <1>3, <2>1, <2>3, <3>1
    <2> QED BY <2>2, <2>3
  <1>6. Len(a) + Len(b) = Len(s) - 1
    BY <1>1, <1>2, <1>3
  <1> QED BY <1>4, <1>5, <1>6 DEF RemoveAt, a, b

\* What is read was on its way.
LEMMA ReceiveSeq ==
  ASSUME NEW S, down \in Seq(S), NEW b, Receive(b)
  PROVE  b \in Seq(S) /\ b # << >> /\ down' \in Seq(S)
  <1>1. CASE \E k \in 1..Len(down) :
               b = SubSeq(down, 1, k) /\ down' = SubSeq(down, k + 1, Len(down))
    <2>1. PICK k \in 1..Len(down) :
            b = SubSeq(down, 1, k) /\ down' = SubSeq(down, k + 1, Len(down))
      BY <1>1
    <2>2. b \in Seq(S) /\ Len(b) = k
      BY <2>1, SubSeqProperties
    <2>3. down' \in Seq(S)
      BY <2>1, SubSeqProperties
    <2> QED BY <2>2, <2>3
  <1>2. CASE \E k \in 1..Len(down) : b = <<down[k]>> /\ down' = RemoveAt(down, k)
    BY <1>2, RemoveAtSeq
  <1> QED BY <1>1, <1>2 DEF Receive

LEMMA ExamineSeq ==
  ASSUME NEW S, down \in Seq(S), pending \in Seq(S), NEW b, Examine(b)
  PROVE  b \in Seq(S) /\ b # << >> /\ down' \in Seq(S) /\ pending' \in Seq(S)
  BY ReceiveSeq DEF Examine

LEMMA LoseSent ==
  ASSUME SentOK, NEW k \in 1..Len(up), up' = RemoveAt(up, k), UNCHANGED <<inviteCseq, farCseq>>
  PROVE  SentOK'
  <1>1. /\ up' \in Seq(Requests) /\ Len(up') = Len(up) - 1
        /\ \A i \in 1..(Len(up) - 1) : up'[i] = IF i < k THEN up[i] ELSE up[i + 1]
    BY RemoveAtSeq DEF SentOK
  <1>2. Len(up) \in Nat /\ k \in Nat
    BY DEF SentOK
  <1> DEFINE was(i) == IF i < k THEN i ELSE i + 1
  <1>3. \A i \in 1..Len(up') : was(i) \in 1..Len(up) /\ up'[i] = up[was(i)]
    BY <1>1, <1>2
  <1>4. \A i, j \in 1..Len(up') : was(i) = was(j) => i = j
    BY <1>1, <1>2
  <1> HIDE DEF was
  <1>5. ASSUME NEW i \in 1..Len(up'), up'[i].kind = "INVITE"
        PROVE  up'[i].cseq = inviteCseq /\ farCseq < inviteCseq
    BY <1>3, <1>5 DEF SentOK
  <1>6. ASSUME NEW i \in 1..Len(up'), NEW j \in 1..Len(up'),
               up'[i].kind = "INVITE", up'[j].kind = "INVITE"
        PROVE  i = j
    BY <1>3, <1>4, <1>6 DEF SentOK
  <1> QED BY <1>1, <1>5, <1>6 DEF SentOK

\* A request other than INVITE may be sent at any time.
LEMMA SendOther ==
  ASSUME SentOK, NEW r \in Requests, r.kind # "INVITE", Send(<<r>>),
         UNCHANGED <<inviteCseq, farCseq>>
  PROVE  SentOK'
  <1>1. CASE up' = up
    BY <1>1 DEF SentOK
  <1>2. CASE up' = up \o <<r>>
    <2>1. /\ up' \in Seq(Requests) /\ Len(up') = Len(up) + 1
          /\ \A i \in 1..Len(up) : up'[i] = up[i]
          /\ up'[Len(up) + 1] = r
      BY <1>2 DEF SentOK
    <2>2. \A i \in 1..Len(up') : i \in 1..Len(up) \/ i = Len(up) + 1
      BY <2>1 DEF SentOK
    <2> QED BY <2>1, <2>2 DEF SentOK
  <1> QED BY <1>1, <1>2 DEF Send

LEMMA SameTruths == UNCHANGED farVars => Truths' = Truths
  BY DEF farVars, Truths, Honest, Decided
-----------------------------------------------------------------------------
(* The call.                                                               *)

\* A step of the call after its INVITEs, which acts on no final response but ends, if at
\* all, a dialog as completed or failed.
LEMMA ProceedKeeps ==
  ASSUME IInv, UNCHANGED <<farVars, invite>>, SentOK',
         down' \in Seq(Truths), pending' \in Seq(Truths),
         pc \notin {"done", "cancelled"}, pc' \notin {"start", "first"},
         pc' \notin {"done", "cancelled"} => result' = result,
         InDialog' => InDialog,
         \/ result' \in {result, "no_answer", "raised"}
         \/ InDialog /\ result' \in {"completed", "failed"}
  PROVE  IInv'
  <1>1. HeardOK'
    BY SameTruths DEF HeardOK
  <1>2. FarOK' /\ PlaceOK'
    BY DEF IInv, FarOK, PlaceOK, Decided, farVars, invite
  <1>3. Decided' = Decided /\ UNCHANGED <<farCseq, inviteCseq, final>>
    BY DEF Decided, farVars, invite
  <1>4. ActedOn'
    BY <1>3 DEF IInv, PlaceOK, ActedOn, ResultMatchesCallee
  <1> QED BY <1>1, <1>2, <1>4 DEF IInv

LEMMA SameSent == SentOK /\ UNCHANGED <<up, inviteCseq, farCseq>> => SentOK'
  BY DEF SentOK

LEMMA InviteKeeps ==
  ASSUME IInv, SendInvite
  PROVE  IInv'
  <1>1. /\ pc = "start" /\ pc' = "first" /\ inviteCseq = 0 /\ inviteCseq' = 1 /\ pendingCseq' = 1
        /\ UNCHANGED <<pending, result, down, farVars>>
    BY DEF IInv, PlaceOK, SendInvite
  <1>2. farCseq = 0 /\ farCseq' = 0
    BY <1>1 DEF IInv, FarOK, farVars
  <1>3. \A i \in 1..Len(up) : up[i].kind # "INVITE"
    BY <1>1, <1>2 DEF IInv, SentOK
  <1>4. SentOK'
    <2> DEFINE r == Req("INVITE", 1, 1)
    <2>1. r \in Requests /\ r.kind = "INVITE" /\ r.cseq = 1
      BY DEF Req, Requests
    <2>2. up' = up \/ up' = up \o <<r>>
      BY DEF SendInvite, Send
    <2> HIDE DEF r
    <2>3. CASE up' = up
      BY <1>3, <2>3 DEF IInv, SentOK
    <2>4. CASE up' = up \o <<r>>
      <3>1. /\ up' \in Seq(Requests) /\ Len(up') = Len(up) + 1
            /\ \A i \in 1..Len(up) : up'[i] = up[i]
            /\ up'[Len(up) + 1] = r
        BY <2>1, <2>4 DEF IInv, SentOK
      <3>2. \A i \in 1..Len(up') : up'[i].kind = "INVITE" => i = Len(up) + 1
        BY <1>3, <3>1 DEF IInv, SentOK
      <3> QED BY <1>1, <1>2, <2>1, <3>1, <3>2 DEF SentOK
    <2> QED BY <2>2, <2>3, <2>4
  <1>5. HeardOK'
    BY <1>1, SameTruths DEF IInv, HeardOK
  <1>6. FarOK' /\ PlaceOK'
    BY <1>1, <1>2 DEF IInv, FarOK, PlaceOK, Decided, farVars
  <1>7. ActedOn'
    BY <1>1 DEF IInv, PlaceOK, ActedOn, ResultMatchesCallee, InDialog
  <1> QED BY <1>4, <1>5, <1>6, <1>7 DEF IInv

\* The 407 that is retried shows that the first INVITE has arrived.
LEMMA RetryKeeps ==
  ASSUME IInv, Retry
  PROVE  IInv'
  <1>1. /\ pc = "first" /\ pc' = "retry" /\ inviteCseq = 1 /\ inviteCseq' = 2 /\ pendingCseq' = 2
        /\ UNCHANGED <<pending, result, farVars>>
    BY DEF IInv, PlaceOK, Retry
  <1>2. PICK b \in Buffers : Receive(b) /\ Challenged(b) /\ Send(RetrySends(b))
    BY DEF Retry
  <1>3. b \in Seq(Truths) /\ b # << >> /\ down' \in Seq(Truths)
    BY <1>2, ReceiveSeq DEF IInv, HeardOK
  <1>4. farCseq = 1 /\ farCseq' = 1
    <2>1. PICK i \in 1..Len(b) : b[i].status = 407
      BY <1>2 DEF Challenged
    <2>2. b[i] \in Truths
      BY <1>3
    <2>3. farCseq > 0
      BY <2>1, <2>2 DEF Truths, Honest
    <2> QED BY <1>1, <2>3 DEF IInv, FarOK, farVars
  <1>5. \A i \in 1..Len(up) : up[i].kind # "INVITE"
    BY <1>1, <1>4 DEF IInv, SentOK
  <1>6. SentOK'
    <2> DEFINE a == Req("ACK", FirstCseq(b), inviteCseq)
               r == Req("INVITE", 2, 2)
    <2>1. /\ a \in Requests /\ a.kind # "INVITE"
          /\ r \in Requests /\ r.kind = "INVITE" /\ r.cseq = 2
      <3>1. b[1] \in Messages
        BY <1>3 DEF Truths
      <3> QED BY <1>1, <3>1 DEF Req, Requests, Messages, FirstCseq
    <2>2. up' = up \/ up' = up \o <<a, r>>
      BY <1>2 DEF Send, RetrySends
    <2> HIDE DEF a, r
    <2>3. CASE up' = up
      BY <1>5, <2>3 DEF IInv, SentOK
    <2>4. CASE up' = up \o <<a, r>>
      <3>1. /\ up' \in Seq(Requests) /\ Len(up') = Len(up) + 2
            /\ \A i \in 1..Len(up) : up'[i] = up[i]
            /\ up'[Len(up) + 1] = a /\ up'[Len(up) + 2] = r
        BY <2>1, <2>4 DEF IInv, SentOK
      <3>2. \A i \in 1..Len(up') : i \in 1..Len(up) \/ i = Len(up) + 1 \/ i = Len(up) + 2
        BY <3>1 DEF IInv, SentOK
      <3>3. \A i \in 1..Len(up') : up'[i].kind = "INVITE" => i = Len(up) + 2
        BY <1>5, <2>1, <3>1, <3>2
      <3> QED BY <1>1, <1>4, <2>1, <3>1, <3>3 DEF SentOK
    <2> QED BY <2>2, <2>3, <2>4
  <1>7. HeardOK'
    BY <1>1, <1>3, SameTruths DEF IInv, HeardOK
  <1>8. FarOK' /\ PlaceOK'
    BY <1>1, <1>4 DEF IInv, FarOK, PlaceOK, Decided, farVars
  <1>9. ActedOn'
    BY <1>1 DEF IInv, PlaceOK, ActedOn, ResultMatchesCallee, InDialog
  <1> QED BY <1>6, <1>7, <1>8, <1>9 DEF IInv

\* The last message of the buffer is the decision about the INVITE in flight.
LEMMA LoopStatusIsFinal ==
  ASSUME IInv, NEW b \in Seq(Truths), b # << >>, LoopStatus(b) >= 200
  PROVE  Decided /\ farCseq = inviteCseq /\ final = LoopStatus(b)
  <1>1. Last(b) \in Truths
    BY DEF Last
  <1>2. Relevant(Last(b)) /\ Last(b).status = LoopStatus(b)
    BY DEF LoopStatus
  <1>3. Honest(Last(b)) /\ Last(b) \in Messages
    BY <1>1 DEF Truths
  <1>4. farCseq \in Nat /\ inviteCseq \in Nat /\ farCseq <= inviteCseq
    BY DEF IInv, FarOK, PlaceOK
  <1>5. Last(b).cseq = farCseq
    BY <1>2, <1>3, <1>4 DEF Honest, Relevant
  <1> QED BY <1>2, <1>3, <1>5 DEF Honest, Relevant

LEMMA AnswerKeeps ==
  ASSUME IInv, LoopAnswer
  PROVE  IInv'
  <1>1. PICK b \in LoopBuffers :
          Examine(b) /\ LoopStatus(b) = 200 /\ Send(<<Req("ACK", FirstCseq(b), 0)>>)
    BY DEF LoopAnswer
  <1>2. b \in Seq(Truths) /\ b # << >> /\ down' \in Seq(Truths) /\ pending' \in Seq(Truths)
    BY <1>1, ExamineSeq DEF IInv, HeardOK
  <1>3. Decided /\ farCseq = inviteCseq /\ final = 200
    BY <1>1, <1>2, LoopStatusIsFinal
  <1>4. pc = "loop" /\ pc' = "stream" /\ UNCHANGED <<invite, result, farVars>>
    BY DEF LoopAnswer
  <1>5. Req("ACK", FirstCseq(b), 0) \in Requests /\ Req("ACK", FirstCseq(b), 0).kind = "ACK"
    <2>1. b[1] \in Messages
      BY <1>2 DEF Truths
    <2> QED BY <2>1 DEF Req, Requests, Messages, FirstCseq
  <1>6. SentOK'
    BY <1>1, <1>4, <1>5, SendOther DEF IInv, invite, farVars
  <1>7. HeardOK' /\ FarOK' /\ PlaceOK'
    BY <1>2, <1>4, SameTruths DEF IInv, HeardOK, FarOK, PlaceOK, Decided, farVars, invite
  <1>8. ActedOn'
    BY <1>3, <1>4 DEF IInv, PlaceOK, ActedOn, ResultMatchesCallee, Decided, farVars, invite
  <1> QED BY <1>6, <1>7, <1>8 DEF IInv

LEMMA RejectKeeps ==
  ASSUME IInv, LoopReject
  PROVE  IInv'
  <1>1. PICK b \in LoopBuffers :
          /\ Examine(b) /\ LoopStatus(b) >= 400
          /\ Send(<<Req("ACK", FirstCseq(b), ErrorAckBranch)>>)
          /\ Finish(Classify(LoopStatus(b)))
    BY DEF LoopReject
  <1>2. b \in Seq(Truths) /\ b # << >> /\ down' \in Seq(Truths) /\ pending' \in Seq(Truths)
    BY <1>1, ExamineSeq DEF IInv, HeardOK
  <1>3. LoopStatus(b) \in Nat
    <2>1. Last(b) \in Messages
      BY <1>2 DEF Last, Truths
    <2> QED BY <2>1 DEF LoopStatus, Messages
  <1>4. Decided /\ farCseq = inviteCseq /\ final = LoopStatus(b)
    BY <1>1, <1>2, <1>3, LoopStatusIsFinal
  <1>5. pc = "loop" /\ pc' = "done" /\ UNCHANGED <<invite, farVars>>
    BY <1>1 DEF LoopReject, Finish
  <1>6. /\ Req("ACK", FirstCseq(b), ErrorAckBranch) \in Requests
        /\ Req("ACK", FirstCseq(b), ErrorAckBranch).kind = "ACK"
    <2>1. b[1] \in Messages
      BY <1>2 DEF Truths
    <2> QED BY <2>1 DEF Req, Requests, Messages, FirstCseq, ErrorAckBranch, IInv, PlaceOK
  <1>7. SentOK'
    BY <1>1, <1>5, <1>6, SendOther DEF IInv, invite, farVars
  <1>8. HeardOK' /\ FarOK' /\ PlaceOK'
    BY <1>2, <1>5, SameTruths DEF IInv, HeardOK, FarOK, PlaceOK, Decided, farVars, invite
  <1>9. ActedOn'
    <2>1. ~InDialog' /\ Decided' /\ farCseq' = inviteCseq' /\ final' = LoopStatus(b)
      BY <1>4, <1>5 DEF InDialog, Decided, farVars, invite
    <2>2. result' = Classify(final')
      BY <1>1, <2>1 DEF Finish
    <2>3. ResultMatchesCallee'
      BY <1>1, <1>3, <2>1, <2>2 DEF ResultMatchesCallee, Classify
    <2> QED BY <2>1, <2>3 DEF ActedOn
  <1> QED BY <1>7, <1>8, <1>9 DEF IInv

\* A step that sends one request other than INVITE, or none.
SendsOne ==
  \/ up' = up
  \/ \E r \in Requests : r.kind # "INVITE" /\ Send(<<r>>)

LEMMA SendsOneKeeps ==
  ASSUME IInv, SendsOne, UNCHANGED <<farVars, invite>>
  PROVE  SentOK'
  BY SameSent, SendOther DEF SendsOne, IInv, farVars, invite

LEMMA ByeAnswer ==
  ASSUME NEW b \in Seq(Truths), b # << >>
  PROVE  Req("200BYE", FirstCseq(b), 0) \in {r \in Requests : r.kind # "INVITE"}
  <1>1. b[1] \in Messages
    BY DEF Truths
  <1> QED BY <1>1 DEF Req, Requests, Messages, FirstCseq

LEMMA ByeSent ==
  ASSUME IInv
  PROVE  Req("BYE", ByeCseq, 0) \in {r \in Requests : r.kind # "INVITE"}
  BY DEF IInv, PlaceOK, Req, Requests, ByeCseq

LEMMA RingingKeeps ==
  ASSUME IInv, EnterLoop \/ LoopBye \/ LoopSkip \/ Cancel \/ CancelWait
  PROVE  IInv'
  <1>1. UNCHANGED <<farVars, invite>> /\ pc \in {"first", "retry", "loop", "cancelwait"}
    BY DEF EnterLoop, LoopBye, LoopSkip, Cancel, CancelWait
  <1>2. down' \in Seq(Truths) /\ pending' \in Seq(Truths)
    <2>1. CASE EnterLoop \/ CancelWait
      <3>1. PICK b \in Buffers : /\ Receive(b) \/ ReceiveNothing(b)
                                 /\ pending' \in {b, pending}
        BY <2>1 DEF EnterLoop, CancelWait
      <3>2. down \in Seq(Truths) /\ pending \in Seq(Truths)
        BY DEF IInv, HeardOK
      <3>3. CASE Receive(b)
        <4>1. b \in Seq(Truths) /\ down' \in Seq(Truths)
          BY <3>1, <3>2, <3>3, ReceiveSeq
        <4> QED BY <3>1, <3>2, <4>1
      <3>4. CASE ReceiveNothing(b)
        <4>1. b \in Seq(Truths) /\ down' \in Seq(Truths)
          BY <3>2, <3>4 DEF ReceiveNothing
        <4> QED BY <3>1, <3>2, <4>1
      <3> QED BY <3>1, <3>3, <3>4
    <2>2. CASE LoopBye \/ LoopSkip
      BY <2>2, ExamineSeq DEF LoopBye, LoopSkip, IInv, HeardOK
    <2>3. CASE Cancel
      BY <2>3 DEF Cancel, IInv, HeardOK
    <2> QED BY <2>1, <2>2, <2>3
  <1>3. SendsOne
    <2>1. CASE EnterLoop \/ CancelWait \/ LoopSkip
      BY <2>1 DEF EnterLoop, CancelWait, LoopSkip, SendsOne
    <2>2. CASE LoopBye
      <3>1. PICK b \in LoopBuffers : Examine(b) /\ Send(<<Req("200BYE", FirstCseq(b), 0)>>)
        BY <2>2 DEF LoopBye
      <3>2. b \in Seq(Truths) /\ b # << >>
        BY <3>1, ExamineSeq DEF IInv, HeardOK
      <3> QED BY <3>1, <3>2, ByeAnswer DEF SendsOne
    <2>3. CASE Cancel
      <3>1. Req("CANCEL", pendingCseq, pendingCseq) \in {r \in Requests : r.kind # "INVITE"}
        BY DEF IInv, PlaceOK, Req, Requests
      <3> QED BY <2>3, <3>1 DEF Cancel, SendsOne
    <2> QED BY <2>1, <2>2, <2>3
  <1>4. /\ pc' \in {"loop", "cancelwait", "done", "cancelled"}
        /\ pc' \notin {"done", "cancelled"} => result' = result
        /\ result' \in {result, "no_answer"}
    BY DEF EnterLoop, LoopBye, LoopSkip, Cancel, CancelWait, Finish, GiveUp
  <1> QED BY <1>1, <1>2, <1>3, <1>4, SendsOneKeeps, ProceedKeeps DEF InDialog

LEMMA PlaybackKeeps ==
  ASSUME IInv, StartPlayback \/ EndPlayback \/ EndDelay \/ DropMessage \/ RemoteBye
  PROVE  IInv'
  <1>1. UNCHANGED <<farVars, invite>> /\ pc \in {"stream", "play", "delay"}
    BY DEF StartPlayback, EndPlayback, EndDelay, DropMessage, RemoteBye, uacVars
  <1>2. down' \in Seq(Truths) /\ pending' \in Seq(Truths)
    <2>1. CASE StartPlayback \/ EndPlayback \/ EndDelay
      BY <2>1 DEF StartPlayback, EndPlayback, EndDelay, IInv, HeardOK
    <2>2. CASE DropMessage \/ RemoteBye
      BY <2>2, ReceiveSeq DEF DropMessage, RemoteBye, uacVars, IInv, HeardOK
    <2> QED BY <2>1, <2>2
  <1>3. SendsOne
    <2>1. CASE StartPlayback \/ EndPlayback \/ EndDelay \/ DropMessage
      BY <2>1 DEF StartPlayback, EndPlayback, EndDelay, DropMessage, SendsOne
    <2>2. CASE RemoteBye
      <3>1. PICK b \in Buffers : Receive(b) /\ Send(<<Req("200BYE", FirstCseq(b), 0)>>)
        BY <2>2 DEF RemoteBye
      <3>2. b \in Seq(Truths) /\ b # << >>
        BY <3>1, ReceiveSeq DEF IInv, HeardOK
      <3> QED BY <3>1, <3>2, ByeAnswer DEF SendsOne
    <2> QED BY <2>1, <2>2
  <1>4. /\ pc' \in {"stream", "play", "delay", "hangup", "done"}
        /\ pc' # "done" => result' = result
        /\ result' \in {result, "completed"}
    BY <1>1 DEF StartPlayback, EndPlayback, EndDelay, DropMessage, RemoteBye, Finish, uacVars
  <1> QED BY <1>1, <1>2, <1>3, <1>4, SendsOneKeeps, ProceedKeeps DEF InDialog

LEMMA HangUpKeeps ==
  ASSUME IInv, AbortPlayback \/ HangUp \/ ByeWait
  PROVE  IInv'
  <1>1. UNCHANGED <<farVars, invite>> /\ pc \in {"stream", "hangup", "byewait"}
    BY DEF AbortPlayback, HangUp, ByeWait
  <1>2. down' \in Seq(Truths) /\ pending' \in Seq(Truths)
    <2>1. CASE AbortPlayback \/ HangUp
      BY <2>1 DEF AbortPlayback, HangUp, IInv, HeardOK
    <2>2. CASE ByeWait
      BY <2>2, ReceiveSeq DEF ByeWait, ReceiveNothing, IInv, HeardOK
    <2> QED BY <2>1, <2>2
  <1>3. SendsOne
    BY ByeSent DEF AbortPlayback, HangUp, ByeWait, SendsOne
  <1>4. /\ pc' \in {"byewait", "done"}
        /\ pc' # "done" => result' = result
        /\ result' \in {result, "completed", "failed"}
    BY DEF AbortPlayback, HangUp, ByeWait, Finish
  <1> QED BY <1>1, <1>2, <1>3, <1>4, SendsOneKeeps, ProceedKeeps DEF InDialog

LEMMA FailKeeps ==
  ASSUME IInv, Fail
  PROVE  IInv'
  <1>1. /\ UNCHANGED <<farVars, invite, up>> /\ pc \notin {"done", "cancelled"}
        /\ pc' = "done" /\ result' = "raised"
    BY DEF Fail, Finish
  <1>2. down' \in Seq(Truths) /\ pending' \in Seq(Truths)
    BY ExamineSeq DEF Fail, IInv, HeardOK
  <1> QED BY <1>1, <1>2, SendsOneKeeps, ProceedKeeps DEF SendsOne, InDialog

LEMMA UacKeeps == IInv /\ UacNext => IInv'
  BY InviteKeeps, RetryKeeps, AnswerKeeps, RejectKeeps, RingingKeeps, PlaybackKeeps,
     HangUpKeeps, FailKeeps DEF UacNext
-----------------------------------------------------------------------------
(* The far end and the connection.                                         *)

\* What the far end may do to its state: what was true of its messages stays true.
LEMMA FarStepKeeps ==
  ASSUME IInv, UNCHANGED uacVars, SentOK', FarOK',
         Truths \subseteq Truths', down' \in Seq(Truths'),
         Decided /\ farCseq = inviteCseq => Decided' /\ UNCHANGED <<farCseq, final>>
  PROVE  IInv'
  <1>1. pending' \in Seq(Truths')
    BY DEF uacVars, IInv, HeardOK
  <1>2. PlaceOK'
    BY DEF uacVars, invite, IInv, PlaceOK
  <1>3. UNCHANGED <<result, inviteCseq>> /\ InDialog' = InDialog
    BY DEF uacVars, invite, InDialog
  <1>4. ActedOn'
    <2>1. InDialog \/ result \in {"completed", "busy", "declined", "failed"} =>
            Decided' /\ UNCHANGED <<farCseq, final>>
      BY DEF IInv, ActedOn
    <2> QED BY <1>3, <2>1 DEF IInv, ActedOn, ResultMatchesCallee
  <1> QED BY <1>1, <1>2, <1>4 DEF IInv, HeardOK

\* A step that decides nothing and sends what is true already.
LEMMA SpeakKeeps ==
  ASSUME IInv, down' \in Seq(Truths), UNCHANGED <<uacVars, farCseq, final>>,
         SentOK', Decided' = Decided, far' = "idle" <=> far = "idle"
  PROVE  IInv'
  <1>1. Truths' = Truths
    BY DEF Truths, Honest
  <1>2. FarOK'
    BY DEF IInv, FarOK, uacVars, invite
  <1> QED BY <1>1, <1>2, FarStepKeeps

LEMMA SaysTruth ==
  ASSUME IInv, NEW m \in Truths, FarSends(<<m>>)
  PROVE  down' \in Seq(Truths)
  BY DEF FarSends, IInv, HeardOK

LEMMA SameSentByFar == SentOK /\ UNCHANGED <<uacVars, up, farCseq>> => SentOK'
  BY SameSent DEF uacVars, invite

\* The decision: it is told with the message that announces it.
LEMMA DecideKeeps ==
  ASSUME IInv, far = "ringing", far' \in {"challenged", "rejected", "answered"},
         NEW status \in Nat, final' = status, UNCHANGED <<uacVars, farCseq>>, SentOK',
         NEW ms \in Seq(Messages), FarSends(ms),
         \A i \in 1..Len(ms) :
           \/ ms[i].method = "CANCEL" /\ ms[i].status # 407
           \/ ms[i].cseq = farCseq /\ ms[i].status = status
  PROVE  IInv'
  <1>1. ~Decided /\ Decided' /\ farCseq > 0 /\ farCseq' = farCseq
    BY DEF Decided, IInv, FarOK
  <1>2. Truths \subseteq Truths'
    BY <1>1 DEF Truths, Honest
  <1>3. \A i \in 1..Len(ms) : ms[i] \in Truths'
    BY <1>1 DEF Truths, Honest, IInv, FarOK
  <1>4. ms \in Seq(Truths')
    BY <1>3
  <1>5. down' \in Seq(Truths')
    BY <1>2, <1>4 DEF FarSends, IInv, HeardOK
  <1>6. FarOK'
    BY <1>1 DEF IInv, FarOK, uacVars, invite, Decided
  <1> QED BY <1>1, <1>2, <1>5, <1>6, FarStepKeeps

LEMMA OtherTruths ==
  ASSUME IInv, NEW m \in Messages,
         \/ m.method # "INVITE" /\ m.status # 407
         \/ m.cseq = farCseq /\ (m.status < 200 \/ m.status = final)
  PROVE  m \in Truths
  BY DEF IInv, FarOK, Decided, Truths, Honest, Messages

\* The INVITE that arrives was the only one on its way.
LEMMA InviteArrives ==
  ASSUME SentOK, NEW k \in 1..Len(up), up[k].kind = "INVITE", up' = RemoveAt(up, k)
  PROVE  SentOK'
  <1>1. /\ up' \in Seq(Requests) /\ Len(up') = Len(up) - 1
        /\ \A i \in 1..(Len(up) - 1) : up'[i] = IF i < k THEN up[i] ELSE up[i + 1]
    BY RemoveAtSeq DEF SentOK
  <1>2. Len(up) \in Nat /\ k \in Nat
    BY DEF SentOK
  <1>3. ASSUME NEW i \in 1..Len(up') PROVE up'[i].kind # "INVITE"
    <2>1. i \in 1..Len(up) /\ i + 1 \in 1..Len(up) /\ (i < k => i # k) /\ (~(i < k) => i + 1 # k)
      BY <1>1, <1>2
    <2> QED BY <1>1, <2>1 DEF SentOK
  <1> QED BY <1>1, <1>3 DEF SentOK

LEMMA FarReceiveKeeps ==
  ASSUME IInv, FarReceive
  PROVE  IInv'
  <1>1. PICK k \in 1..Len(up) :
          /\ up' = RemoveAt(up, k)
          /\ \/ FarInvite(up[k]) \/ FarAck(up[k]) \/ FarCancel(up[k]) \/ FarBye(up[k])
             \/ FarByeAnswered(up[k])
    BY DEF FarReceive
  <1> DEFINE m == up[k]
  <1>2. UNCHANGED uacVars
    BY DEF FarReceive
  <1>3. m \in Requests
    BY DEF IInv, SentOK
  <1>4. UNCHANGED farCseq => SentOK'
    BY <1>1, <1>2, LoseSent DEF IInv, uacVars, invite
  <1> HIDE DEF m
  <1>5. CASE FarInvite(m)
    <2>1. /\ far' = "ringing" /\ farCseq' = m.cseq /\ final' = 0 /\ m.kind = "INVITE"
          /\ FarSends(<< >>) \/ FarSends(<<Resp(100, m.cseq, "INVITE")>>)
      BY <1>5 DEF FarInvite
    <2>2. m.cseq = inviteCseq /\ farCseq < inviteCseq
      BY <2>1 DEF m, IInv, SentOK
    <2>3. farCseq \in Nat /\ inviteCseq \in Nat /\ inviteCseq' = inviteCseq
      BY <1>2 DEF IInv, FarOK, PlaceOK, uacVars, invite
    <2>4. Truths \subseteq Truths'
      BY <2>1, <2>2, <2>3 DEF Truths, Honest, Messages
    <2>5. Resp(100, m.cseq, "INVITE") \in Truths'
      BY <1>3, <2>1, <2>2, <2>3 DEF Resp, Truths, Honest, Messages, Requests
    <2>6. down' \in Seq(Truths')
      <3>1. down \in Seq(Truths')
        BY <2>4 DEF IInv, HeardOK
      <3> DEFINE r == Resp(100, m.cseq, "INVITE")
      <3>2. r \in Truths' /\ (down' = down \o << >> \/ down' = down \o <<r>>)
        BY <2>1, <2>5 DEF FarSends
      <3> HIDE DEF r
      <3> QED BY <3>1, <3>2
    <2>7. SentOK'
      BY <1>1, <2>1, InviteArrives DEF m, IInv
    <2>8. FarOK'
      BY <2>1, <2>2, <2>3 DEF FarOK, Decided
    <2> QED BY <1>2, <2>2, <2>3, <2>4, <2>6, <2>7, <2>8, FarStepKeeps
  <1>6. CASE FarAck(m)
    BY <1>2, <1>4, <1>6, SpeakKeeps DEF FarAck, Decided, IInv, HeardOK
  <1>7. CASE FarCancel(m)
    <2>1. CASE far = "ringing" /\ m.cseq = farCseq /\ m.branch = farCseq
      <3> DEFINE ms == <<Resp(200, m.cseq, "CANCEL"), Resp(487, farCseq, "INVITE")>>
      <3>1. far' = "rejected" /\ final' = 487 /\ FarSends(ms) /\ farCseq' = farCseq
        BY <1>7, <2>1 DEF FarCancel
      <3>2. ms \in Seq(Messages) /\ Len(ms) = 2
        BY <1>3 DEF Resp, Messages, Requests, IInv, FarOK
      <3>3. \A i \in 1..Len(ms) : \/ ms[i].method = "CANCEL" /\ ms[i].status # 407
                                  \/ ms[i].cseq = farCseq /\ ms[i].status = 487
        BY <3>2 DEF Resp
      <3> HIDE DEF ms
      <3> QED BY <1>2, <1>4, <2>1, <3>1, <3>2, <3>3, DecideKeeps
    <2>2. CASE ~(far = "ringing" /\ m.cseq = farCseq /\ m.branch = farCseq)
      <3> DEFINE a == Resp(IF m.cseq = farCseq THEN 200 ELSE 481, m.cseq, "CANCEL")
      <3>1. FarSends(<<a>>) /\ UNCHANGED <<far, final, farCseq>>
        BY <1>7, <2>2 DEF FarCancel
      <3>2. a \in Messages /\ a.method # "INVITE" /\ a.status # 407
        BY <1>3 DEF Resp, Messages, Requests
      <3> HIDE DEF a
      <3>3. down' \in Seq(Truths)
        BY <3>1, <3>2, OtherTruths, SaysTruth
      <3> QED BY <1>2, <1>4, <3>1, <3>3, SpeakKeeps DEF Decided
    <2> QED BY <2>1, <2>2
  <1>8. CASE FarBye(m)
    <2>1. PICK status \in {200, 481} : FarSends(<<Resp(status, m.cseq, "BYE")>>)
      BY <1>8 DEF FarBye
    <2>2. Resp(status, m.cseq, "BYE") \in Messages
      BY <1>3 DEF Resp, Messages, Requests
    <2>3. Resp(status, m.cseq, "BYE").method # "INVITE" /\ Resp(status, m.cseq, "BYE").status # 407
      BY DEF Resp
    <2>4. down' \in Seq(Truths)
      BY <2>1, <2>2, <2>3, OtherTruths, SaysTruth
    <2> QED BY <1>2, <1>4, <1>8, <2>4, SpeakKeeps DEF FarBye, Decided
  <1>9. CASE FarByeAnswered(m)
    BY <1>2, <1>4, <1>9, SpeakKeeps DEF FarByeAnswered, farVars, Decided, IInv, HeardOK
  <1> QED BY <1>1, <1>5, <1>6, <1>7, <1>8, <1>9 DEF m

LEMMA FarDecidesKeeps ==
  ASSUME IInv, FarAnswer \/ FarReject
  PROVE  IInv'
  <1>1. UNCHANGED <<uacVars, up, farCseq>> /\ far = "ringing"
    BY DEF FarAnswer, FarReject
  <1>2. Rejections \subseteq Nat
    BY SipCallAssumption
  <1>3. PICK status \in Nat :
          /\ far' \in {"challenged", "rejected", "answered"} /\ final' = status
          /\ \E ms \in {<<Resp(status, farCseq, "INVITE")>>,
                       <<Challenge(Resp(status, farCseq, "INVITE"))>>} : FarSends(ms)
    <2>1. CASE FarAnswer
      BY <2>1 DEF FarAnswer
    <2>2. CASE FarReject
      BY <1>2, <2>2 DEF FarReject
    <2> QED BY <2>1, <2>2
  <1>4. PICK ms \in {<<Resp(status, farCseq, "INVITE")>>,
                     <<Challenge(Resp(status, farCseq, "INVITE"))>>} : FarSends(ms)
    BY <1>3
  <1>5. PICK r : ms = <<r>> /\ r \in Messages /\ r.cseq = farCseq /\ r.status = status
    <2>1. farCseq \in Nat
      BY DEF IInv, FarOK
    <2>2. CASE ms = <<Resp(status, farCseq, "INVITE")>>
      <3>1. /\ Resp(status, farCseq, "INVITE") \in Messages
            /\ Resp(status, farCseq, "INVITE").cseq = farCseq
            /\ Resp(status, farCseq, "INVITE").status = status
        BY <2>1 DEF Resp, Messages
      <3> QED BY <2>2, <3>1
    <2>3. CASE ms = <<Challenge(Resp(status, farCseq, "INVITE"))>>
      <3>1. /\ Challenge(Resp(status, farCseq, "INVITE")) \in Messages
            /\ Challenge(Resp(status, farCseq, "INVITE")).cseq = farCseq
            /\ Challenge(Resp(status, farCseq, "INVITE")).status = status
        BY <2>1 DEF Resp, Challenge, Messages
      <3> QED BY <2>3, <3>1
    <2> QED BY <2>2, <2>3
  <1>6. /\ ms \in Seq(Messages)
        /\ \A i \in 1..Len(ms) :
             \/ ms[i].method = "CANCEL" /\ ms[i].status # 407
             \/ ms[i].cseq = farCseq /\ ms[i].status = status
    BY <1>5
  <1>7. SentOK' /\ UNCHANGED <<uacVars, farCseq>>
    BY <1>1, SameSentByFar DEF IInv
  <1> QED BY <1>1, <1>3, <1>4, <1>6, <1>7, DecideKeeps

LEMMA FarSpeaksKeeps ==
  ASSUME IInv, FarAlert \/ FarRepeat \/ FarHangUp
  PROVE  IInv'
  <1>1. UNCHANGED <<uacVars, up, farCseq, final>>
    BY DEF FarAlert, FarRepeat, FarHangUp, farVars
  <1>2. PICK m \in Truths : FarSends(<<m>>)
    <2>1. CASE FarAlert
      <3>1. PICK status \in {180, 183} : FarSends(<<Resp(status, farCseq, "INVITE")>>)
        BY <2>1 DEF FarAlert
      <3>2. /\ Resp(status, farCseq, "INVITE") \in Messages
            /\ Resp(status, farCseq, "INVITE").cseq = farCseq
            /\ Resp(status, farCseq, "INVITE").status < 200
        BY DEF Resp, Messages, IInv, FarOK
      <3> QED BY <3>1, <3>2, OtherTruths
    <2>2. CASE FarRepeat
      <3> DEFINE a == Resp(final, farCseq, "INVITE")
      <3>1. FarSends(<<a>>) \/ FarSends(<<Challenge(a)>>)
        BY <2>2 DEF FarRepeat
      <3>2. /\ a \in Messages /\ a.cseq = farCseq /\ a.status = final
            /\ Challenge(a) \in Messages /\ Challenge(a).cseq = farCseq
            /\ Challenge(a).status = final
        BY DEF Resp, Challenge, Messages, IInv, FarOK
      <3> HIDE DEF a
      <3> QED BY <3>1, <3>2, OtherTruths
    <2>3. CASE FarHangUp
      <3>1. ByeRequest \in Messages /\ ByeRequest.method # "INVITE" /\ ByeRequest.status # 407
        BY DEF ByeRequest, Messages
      <3> QED BY <2>3, <3>1, OtherTruths DEF FarHangUp
    <2> QED BY <2>1, <2>2, <2>3
  <1>3. Decided' = Decided /\ (far' = "idle" <=> far = "idle")
    BY DEF FarAlert, FarRepeat, FarHangUp, farVars, Decided
  <1>4. down' \in Seq(Truths)
    BY <1>2, SaysTruth
  <1> QED BY <1>1, <1>3, <1>4, SameSentByFar, SpeakKeeps DEF IInv

LEMMA LossKeeps ==
  ASSUME IInv, ConnLost \/ DatagramLost \/ UNCHANGED vars
  PROVE  IInv'
  <1>1. UNCHANGED <<uacVars, farVars>>
    BY DEF ConnLost, DatagramLost, vars
  <1>2. down' \in Seq(Truths)
    BY RemoveAtSeq DEF ConnLost, DatagramLost, vars, IInv, HeardOK
  <1>3. SentOK'
    <2>1. CASE ConnLost
      <3>1. up' = << >>
        BY <2>1 DEF ConnLost
      <3> QED BY <3>1 DEF SentOK
    <2>2. CASE DatagramLost \/ UNCHANGED vars
      BY <1>1, <2>2, LoseSent, SameSent DEF DatagramLost, vars, uacVars, invite, farVars, IInv
    <2> QED BY <2>1, <2>2
  <1> QED BY <1>1, <1>2, <1>3, SpeakKeeps DEF farVars, Decided

LEMMA NextKeeps == IInv /\ [Next]_vars => IInv'
  BY UacKeeps, FarReceiveKeeps, FarDecidesKeeps, FarSpeaksKeeps, LossKeeps DEF Next, FarNext

\* What make_call reports is what the callee did to the INVITE that counted, whatever is
\* lost, reordered or repeated and whenever the connection dies.
THEOREM ResultIsTrue == Spec => []ResultMatchesCallee
  <1>1. IInv => ResultMatchesCallee
    BY DEF IInv, ActedOn
  <1> QED BY <1>1, InitEstablishes, NextKeeps, PTL DEF Spec
-----------------------------------------------------------------------------
(* The requests a call over TCP owes to the far end: the ACK of an error,  *)
(* the CANCEL of an INVITE that rings, the BYE of an answered call.        *)

Ringing == pc \in {"start", "first", "retry", "loop"}
Sent(kind) == \E i \in 1..Len(up) : up[i].kind = kind
AckSent(n) == \E i \in 1..Len(up) : up[i] = Req("ACK", n, n)

\* A response is to the INVITE in flight or to what the call sent after it.  A BYE is the
\* callee's last word.
Fresh(m) ==
  /\ m.kind = "resp" => m.cseq >= inviteCseq /\ (Ringing => m.method = "INVITE")
  /\ m.kind = "BYE" => m.cseq = 1 /\ m.status = 0 /\ far = "released"

FreshMessages == {m \in Messages : Fresh(m)}

\* While the first INVITE is in flight, a challenge is the last that was said.
HeardFresh ==
  /\ down \in Seq(FreshMessages) /\ pending \in Seq(FreshMessages)
  /\ pc \in {"start", "first", "retry"} => pending = << >>
  /\ pc = "first" => \A i \in 1..Len(down) :
       down[i].status = 407 => i = Len(down) /\ far \in {"challenged", "rejected"}

SentFresh ==
  /\ pendingCseq = inviteCseq
  /\ pc = "start" => up = << >> /\ down = << >>
  /\ pc = "first" => \A i \in 1..Len(up) : up[i].kind = "INVITE"
  /\ Ringing => ~Sent("CANCEL") /\ ~Sent("BYE")
  /\ \A i \in 1..Len(up) : up[i].kind \in {"CANCEL", "BYE"} => up[i].cseq >= inviteCseq

FarFresh ==
  /\ farCseq < inviteCseq => far \in {"idle", "challenged", "rejected"}
  /\ far \in {"answered", "talking", "released"} => final = 200
  /\ unacked \subseteq Nat \X (300..699)
  /\ \A u \in unacked : 0 < u[1] /\ u[1] <= farCseq /\ (u[1] = farCseq => u[2] = final)

\* An error is ACKed, or its ACK is on its way, if it answers an INVITE that was retried or
\* the call was ended otherwise than by a CANCEL.
ErrorsOwed ==
  \A u \in unacked : AckSent(u[1]) \/ (u[1] = inviteCseq /\ ~InDialog /\ pc # "done")

CancelBehind(i) == \E k \in (i + 1)..Len(up) : up[k] = Req("CANCEL", inviteCseq, inviteCseq)

\* A call that gives up has its CANCEL behind any INVITE that may still ring.
CancelOwed ==
  pc = "cancelwait" \/ result = "no_answer" =>
    /\ far = "ringing" => CancelBehind(0)
    /\ \A i \in 1..Len(up) : up[i].kind = "INVITE" => CancelBehind(i)

\* A call over a live connection that ends otherwise than by a CANCEL has heard the
\* callee's decision.  If the callee answered, the call has hung up, or its BYE is on its way; only
\* a connected call ACKs an answer.
ByeOwed ==
  /\ pc = "done" => Decided /\ farCseq = inviteCseq
  /\ (pc = "byewait" \/ (pc = "done" /\ result # "raised")) /\ far \in {"answered", "talking"}
       => Sent("BYE")
  /\ far = "talking" \/ (\E i \in 1..Len(up) : up[i].kind = "ACK" /\ up[i].branch = 0)
       => InDialog \/ result \in {"completed", "failed", "raised"}

TInv ==
  /\ HeardFresh /\ SentFresh /\ FarFresh
  /\ alive => ErrorsOwed /\ CancelOwed /\ ByeOwed

LEMMA TInitEstablishes == Init => TInv
  BY DEF Init, TInv, HeardFresh, FreshMessages, SentFresh, FarFresh, ErrorsOwed, CancelOwed,
         ByeOwed, Sent, InDialog

\* What a call sends comes after what it has sent.
Grows == Len(up') >= Len(up) /\ \A i \in 1..Len(up) : up'[i] = up[i]

LEMMA SendGrows ==
  ASSUME SentOK, NEW r \in Requests, Send(<<r>>)
  PROVE  /\ Grows
         /\ alive => Len(up') = Len(up) + 1 /\ up'[Len(up) + 1] = r
         /\ ~alive => up' = up
         /\ \A i \in 1..Len(up') : up'[i] = r \/ (i \in 1..Len(up) /\ up'[i] = up[i])
  BY DEF SentOK, Send, Grows

LEMMA GrowthKeeps ==
  ASSUME SentOK, Grows, inviteCseq' = inviteCseq, Len(up') \in Nat
  PROVE  /\ \A n : AckSent(n) => \E i \in 1..Len(up') : up'[i] = Req("ACK", n, n)
         /\ \A kind : Sent(kind) => \E i \in 1..Len(up') : up'[i].kind = kind
         /\ \A i \in Nat : CancelBehind(i) =>
              \E k \in (i + 1)..Len(up') : up'[k] = Req("CANCEL", inviteCseq, inviteCseq)
  <1>1. Len(up) \in Nat
    BY DEF SentOK
  <1>2. \A i \in 1..Len(up) : i \in 1..Len(up') /\ up'[i] = up[i]
    BY <1>1 DEF Grows
  <1> QED BY <1>1, <1>2 DEF AckSent, Sent, CancelBehind

\* What a step of the call leaves of what is heard, sent and decided.
LEMMA ProceedFresh ==
  ASSUME IInv, TInv, UNCHANGED <<farVars, invite>>,
         down' \in Seq(FreshMessages), pending' \in Seq(FreshMessages),
         pc' \notin {"start", "first", "retry"}, Ringing' => Ringing /\ up' = up,
         \/ up' = up
         \/ \E r \in Requests : /\ Send(<<r>>)
                                /\ r.kind \in {"CANCEL", "BYE"} => r.cseq >= inviteCseq
  PROVE  HeardFresh' /\ SentFresh' /\ FarFresh'
  <1>1. FreshMessages \subseteq FreshMessages'
    BY DEF FreshMessages, Fresh, farVars, invite
  <1>2. HeardFresh'
    BY <1>1 DEF HeardFresh
  <1>3. \A i \in 1..Len(up') : up'[i].kind \in {"CANCEL", "BYE"} => up'[i].cseq >= inviteCseq
    <2>1. CASE up' = up
      BY <2>1 DEF TInv, SentFresh
    <2>2. CASE \E r \in Requests : /\ Send(<<r>>)
                                   /\ r.kind \in {"CANCEL", "BYE"} => r.cseq >= inviteCseq
      BY <2>2, SendGrows DEF IInv, TInv, SentFresh
    <2> QED BY <2>1, <2>2
  <1>4. SentFresh'
    BY <1>3 DEF TInv, SentFresh, Sent, invite
  <1>5. FarFresh'
    BY DEF TInv, FarFresh, farVars, invite
  <1> QED BY <1>2, <1>4, <1>5

\* A step of the call that acts on no response of the callee.
LEMMA ProceedOwed ==
  ASSUME IInv, TInv, IInv', Grows, alive, UNCHANGED <<farVars, invite>>,
         pc \notin {"done", "cancelled"}, InDialog' => InDialog,
         \/ InDialog \/ pc' # "done"
         \/ \A u \in unacked : u[1] # inviteCseq
  PROVE  ErrorsOwed'
  <1>1. \A n : AckSent(n) => \E i \in 1..Len(up') : up'[i] = Req("ACK", n, n)
    BY GrowthKeeps DEF IInv, SentOK, invite
  <1>2. ASSUME NEW u \in unacked
        PROVE  AckSent(u[1]) \/ (u[1] = inviteCseq /\ ~InDialog' /\ pc' # "done")
    BY DEF TInv, ErrorsOwed
  <1> QED BY <1>1, <1>2 DEF ErrorsOwed, AckSent, farVars, invite

\* The remaining obligations are untouched by a step that concludes nothing, and a dialog
\* goes on until it is over.
LEMMA ProceedSilent ==
  ASSUME IInv, TInv, IInv', UNCHANGED <<farVars, invite, up, alive>>,
         pc \notin {"start", "done", "cancelled"}, pc' \notin {"start", "first", "retry"}, Ringing' => Ringing,
         down' \in Seq(FreshMessages), pending' \in Seq(FreshMessages),
         InDialog' => InDialog,
         \/ pc' = "done" /\ result' = "raised" /\ (InDialog \/ ~alive)
         \/ result' = result /\ pc' \notin {"byewait", "cancelwait", "done", "cancelled"}
         \/ pc = "byewait" /\ pc' = "done" /\ result' = "completed"
         \/ pc = "cancelwait" /\ pc' = "cancelled" /\ result' = "no_answer",
         InDialog => InDialog' \/ result' \in {"completed", "failed", "raised"}
  PROVE  TInv'
  <1>1. HeardFresh' /\ SentFresh' /\ FarFresh'
    BY ProceedFresh
  <1>2. result = "none"
    BY DEF IInv, PlaceOK
  <1> SUFFICES ASSUME alive PROVE ErrorsOwed' /\ CancelOwed' /\ ByeOwed'
    BY <1>1 DEF TInv
  <1>3. Grows
    BY DEF IInv, SentOK, Grows
  <1>4. ErrorsOwed'
    BY <1>2, <1>3, ProceedOwed DEF InDialog
  <1>5. CancelOwed'
    BY <1>2 DEF TInv, CancelOwed, CancelBehind, farVars, invite
  <1>6. ByeOwed'
    <2>1. pc' = "done" => Decided' /\ farCseq' = inviteCseq'
      BY DEF IInv, ActedOn, Decided, InDialog, farVars, invite
    <2> QED BY <1>2, <2>1 DEF TInv, ByeOwed, Sent, farVars, invite, InDialog
  <1> QED BY <1>4, <1>5, <1>6

LEMMA SilentFresh ==
  ASSUME IInv, TInv, IInv', pc # "start",
         \/ EnterLoop \/ LoopSkip \/ CancelWait \/ StartPlayback \/ DropMessage
         \/ EndPlayback \/ EndDelay \/ ByeWait \/ Fail
  PROVE  TInv'
  <1>1. down \in Seq(FreshMessages) /\ pending \in Seq(FreshMessages)
    BY DEF TInv, HeardFresh
  <1>2. CASE EnterLoop \/ CancelWait \/ ByeWait
    <2>1. PICK b \in Buffers : /\ Receive(b) \/ ReceiveNothing(b)
                               /\ pending' \in {b, pending}
      BY <1>2 DEF EnterLoop, CancelWait, ByeWait
    <2>2. b \in Seq(FreshMessages) /\ down' \in Seq(FreshMessages)
      <3>1. CASE Receive(b)
        BY <1>1, <3>1, ReceiveSeq
      <3>2. CASE ReceiveNothing(b)
        BY <1>1, <3>2 DEF ReceiveNothing
      <3> QED BY <2>1, <3>1, <3>2
    <2>3. pending' \in Seq(FreshMessages)
      BY <1>1, <2>1, <2>2
    <2> QED BY <1>2, <2>2, <2>3, ProceedSilent
            DEF EnterLoop, CancelWait, ByeWait, Finish, GiveUp, Ringing, InDialog, conn
  <1>3. CASE LoopSkip
    <2>1. down' \in Seq(FreshMessages) /\ pending' \in Seq(FreshMessages)
      BY <1>1, <1>3, ExamineSeq DEF LoopSkip
    <2> QED BY <1>3, <2>1, ProceedSilent DEF LoopSkip, Ringing, InDialog, conn
  <1>4. CASE StartPlayback \/ EndPlayback \/ EndDelay
    BY <1>1, <1>4, ProceedSilent
       DEF StartPlayback, EndPlayback, EndDelay, Ringing, InDialog, conn
  <1>5. CASE DropMessage
    <2>1. down' \in Seq(FreshMessages) /\ pending' \in Seq(FreshMessages)
      BY <1>1, <1>5, ReceiveSeq DEF DropMessage, uacVars
    <2> QED BY <1>5, <2>1, ProceedSilent DEF DropMessage, uacVars, Ringing, InDialog, conn
  <1>6. CASE Fail
    <2>1. down' \in Seq(FreshMessages) /\ pending' \in Seq(FreshMessages)
      BY <1>1, <1>6, ExamineSeq DEF Fail
    <2> QED BY <1>6, <2>1, ProceedSilent DEF Fail, Finish, Ringing, InDialog, conn
  <1> QED BY <1>2, <1>3, <1>4, <1>5, <1>6

LEMMA StartFails ==
  ASSUME IInv, TInv, IInv', Fail, pc = "start"
  PROVE  TInv'
  <1>1. /\ ~alive /\ ~alive' /\ pc' = "done" /\ UNCHANGED <<farVars, invite, up, pending, down>>
    BY DEF Fail, Finish, conn
  <1>2. FreshMessages \subseteq FreshMessages'
    BY <1>1 DEF FreshMessages, Fresh, Ringing, farVars, invite
  <1> QED BY <1>1, <1>2 DEF TInv, HeardFresh, SentFresh, FarFresh, Sent, Ringing, farVars, invite

\* No INVITE is on its way, and none rings, once the far end has decided about the newest.
LEMMA NothingToCancel ==
  ASSUME SentOK', farCseq' = inviteCseq', inviteCseq' \in Nat, far' # "ringing"
  PROVE  CancelOwed'
  BY DEF SentOK, CancelOwed

LEMMA InviteFresh ==
  ASSUME IInv, TInv, IInv', SendInvite
  PROVE  TInv'
  <1>1. /\ pc = "start" /\ pc' = "first" /\ inviteCseq' = 1 /\ pendingCseq' = 1 /\ inviteCseq = 0
        /\ result = "none" /\ result' = "none" /\ up = << >> /\ down = << >>
        /\ pending = << >> /\ UNCHANGED <<down, pending, farVars, alive>>
    BY DEF SendInvite, IInv, PlaceOK, TInv, SentFresh, HeardFresh, conn
  <1>2. farCseq = 0 /\ far = "idle"
    BY <1>1 DEF IInv, FarOK
  <1>3. up' = << >> \/ up' = <<Req("INVITE", 1, 1)>>
    BY <1>1 DEF SendInvite, Send
  <1>4. unacked = {}
    BY <1>2 DEF TInv, FarFresh
  <1>5. HeardFresh'
    BY <1>1 DEF HeardFresh
  <1>6. SentFresh'
    BY <1>1, <1>3 DEF SentFresh, Sent, Req
  <1>7. FarFresh'
    BY <1>1, <1>2, <1>4 DEF FarFresh, farVars
  <1>8. ErrorsOwed' /\ CancelOwed' /\ ByeOwed'
    BY <1>1, <1>2, <1>3, <1>4 DEF ErrorsOwed, CancelOwed, ByeOwed, Req, InDialog, farVars
  <1> QED BY <1>5, <1>6, <1>7, <1>8 DEF TInv

\* The challenge was the last to be said: nothing about the old INVITE is left to be read.
LEMMA RetryFresh ==
  ASSUME transport = "tcp", IInv, TInv, IInv', Retry
  PROVE  TInv'
  <1>1. /\ pc = "first" /\ pc' = "retry" /\ inviteCseq = 1 /\ inviteCseq' = 2 /\ pendingCseq' = 2
        /\ result = "none" /\ result' = "none" /\ pending' = << >>
        /\ UNCHANGED <<farVars, alive>>
    BY DEF Retry, IInv, PlaceOK, TInv, HeardFresh, conn
  <1>2. PICK b \in Buffers : Receive(b) /\ Challenged(b) /\ Send(RetrySends(b))
    BY DEF Retry
  <1>3. PICK k \in 1..Len(down) : b = SubSeq(down, 1, k) /\ down' = SubSeq(down, k + 1, Len(down))
    BY <1>2 DEF Receive
  <1>4. down \in Seq(Truths) /\ down \in Seq(FreshMessages) /\ Len(down) \in Nat
    BY DEF IInv, HeardOK, TInv, HeardFresh
  <1>5. Len(b) = k /\ \A i \in 1..k : b[i] = down[i]
    BY <1>3, <1>4
  <1>6. PICK i \in 1..k : down[i].status = 407
    BY <1>2, <1>5 DEF Challenged
  <1>7. i = Len(down) /\ far \in {"challenged", "rejected"}
    BY <1>1, <1>4, <1>6 DEF TInv, HeardFresh
  <1>8. down' = << >>
    BY <1>3, <1>4, <1>7
  <1>9. farCseq = 1
    <2>1. down[i] \in Truths
      BY <1>4, <1>7
    <2> QED BY <1>1, <1>6, <2>1 DEF Truths, Honest, IInv, FarOK
  <1>10. FirstCseq(b) = 1
    <2>1. b[1] = down[1] /\ down[1] \in Truths /\ down[1] \in FreshMessages
      BY <1>4, <1>5
    <2> QED BY <1>1, <1>9, <2>1
            DEF FirstCseq, Truths, Honest, FreshMessages, Fresh, Messages, Ringing
  <1>11. RetrySends(b) = <<Req("ACK", 1, 1), Req("INVITE", 2, 2)>>
    BY <1>1, <1>10 DEF RetrySends
  <1>12. up \in Seq(Requests) /\ Len(up) \in Nat /\ \A n \in 1..Len(up) : up[n].kind = "INVITE"
    BY <1>1 DEF IInv, SentOK, TInv, SentFresh
  <1>13. up = << >>
    BY <1>1, <1>9, <1>12 DEF IInv, SentOK
  <1>14. (up' = << >> /\ ~alive) \/ up' = <<Req("ACK", 1, 1), Req("INVITE", 2, 2)>>
    BY <1>2, <1>11, <1>13 DEF Send
  <1>15. HeardFresh'
    BY <1>1, <1>8 DEF HeardFresh
  <1>16. SentFresh'
    BY <1>1, <1>14 DEF SentFresh, Sent, Req
  <1>17. FarFresh'
    BY <1>1, <1>7, <1>9 DEF TInv, FarFresh, farVars
  <1>18. alive => ErrorsOwed'
    <2>1. ASSUME alive, NEW u \in unacked PROVE u[1] = 1
      BY <1>9 DEF TInv, FarFresh
    <2>2. ASSUME alive PROVE up'[1] = Req("ACK", 1, 1) /\ 1 \in 1..Len(up')
      BY <1>14, <2>2
    <2> QED BY <1>1, <2>1, <2>2 DEF ErrorsOwed, AckSent, farVars
  <1>19. CancelOwed'
    BY <1>1 DEF CancelOwed
  <1>20. ByeOwed'
    BY <1>1, <1>7, <1>14 DEF ByeOwed, Req, InDialog, farVars
  <1> QED BY <1>1, <1>15, <1>16, <1>17, <1>18, <1>19, <1>20 DEF TInv

\* A step of the call that sends r.
LEMMA SendKeeps ==
  ASSUME IInv, TInv, IInv', UNCHANGED <<farVars, invite, alive>>,
         pc \notin {"start", "first", "retry", "done", "cancelled"},
         pc' \in {"stream", "byewait", "cancelwait", "done"},
         down' \in Seq(FreshMessages), pending' \in Seq(FreshMessages),
         NEW r \in Requests, Send(<<r>>), r.kind \in {"CANCEL", "BYE"} => r.cseq >= inviteCseq,
         r.kind = "ACK" /\ r.branch = 0 => InDialog',
         InDialog => InDialog' \/ result' \in {"completed", "failed", "raised"},
         alive => ErrorsOwed' /\ CancelOwed',
         pc' = "done" => Decided' /\ farCseq' = inviteCseq',
         \/ pc' \notin {"byewait", "done"}
         \/ far \notin {"answered", "talking"}
         \/ r.kind = "BYE"
  PROVE  TInv'
  <1>1. HeardFresh' /\ SentFresh' /\ FarFresh'
    BY ProceedFresh DEF Ringing
  <1>2. result = "none"
    BY DEF IInv, PlaceOK
  <1> SUFFICES ASSUME alive PROVE ByeOwed'
    BY <1>1 DEF TInv
  <1>3. Len(up) \in Nat /\ Len(up') = Len(up) + 1 /\ up'[Len(up) + 1] = r
    BY SendGrows DEF IInv, SentOK
  <1>4. ASSUME NEW i \in 1..Len(up'), up'[i].kind = "ACK", up'[i].branch = 0
        PROVE  InDialog' \/ result' \in {"completed", "failed", "raised"}
    <2>1. CASE up'[i] = r
      BY <1>4, <2>1
    <2>2. CASE i \in 1..Len(up) /\ up'[i] = up[i]
      BY <1>2, <1>4, <2>2 DEF TInv, ByeOwed
    <2> QED BY <2>1, <2>2, SendGrows DEF IInv
  <1>5. far' = "talking" => InDialog' \/ result' \in {"completed", "failed", "raised"}
    BY <1>2 DEF TInv, ByeOwed, farVars
  <1>6. /\ pc' = "byewait" \/ pc' = "done"
        /\ far' \in {"answered", "talking"}
        => \E i \in 1..Len(up') : up'[i].kind = "BYE"
    BY <1>3 DEF farVars
  <1> QED BY <1>4, <1>5, <1>6 DEF ByeOwed, Sent

LEMMA AnswerFresh ==
  ASSUME IInv, TInv, IInv', LoopAnswer
  PROVE  TInv'
  <1>1. PICK b \in LoopBuffers :
          Examine(b) /\ LoopStatus(b) = 200 /\ Send(<<Req("ACK", FirstCseq(b), 0)>>)
    BY DEF LoopAnswer
  <1>2. /\ pc = "loop" /\ pc' = "stream" /\ result = "none" /\ result' = "none"
        /\ UNCHANGED <<farVars, invite, alive>>
    BY DEF LoopAnswer, IInv, PlaceOK, conn
  <1>3. down \in Seq(FreshMessages) /\ pending \in Seq(FreshMessages)
    BY DEF TInv, HeardFresh
  <1>4. /\ b \in Seq(Truths) /\ b # << >>
        /\ down' \in Seq(FreshMessages) /\ pending' \in Seq(FreshMessages)
    BY <1>1, <1>3, ExamineSeq DEF IInv, HeardOK
  <1>5. farCseq = inviteCseq /\ final = 200
    BY <1>1, <1>4, LoopStatusIsFinal
  <1> DEFINE r == Req("ACK", FirstCseq(b), 0)
  <1>6. r \in Requests /\ r.kind = "ACK"
    <2>1. b[1] \in Messages
      BY <1>4 DEF Truths
    <2> QED BY <2>1 DEF Req, Requests, Messages, FirstCseq
  <1>7. Send(<<r>>)
    BY <1>1
  <1> HIDE DEF r
  <1>8. alive => ErrorsOwed'
    <2>1. ASSUME alive PROVE \A n : AckSent(n) => \E i \in 1..Len(up') : up'[i] = Req("ACK", n, n)
      BY <1>2, <1>6, <1>7, <2>1, SendGrows, GrowthKeeps DEF IInv, SentOK, invite
    <2>2. ASSUME alive, NEW u \in unacked PROVE AckSent(u[1])
      BY <1>5, <2>2 DEF TInv, ErrorsOwed, FarFresh
    <2> QED BY <1>2, <2>1, <2>2 DEF ErrorsOwed, AckSent, farVars
  <1>9. CancelOwed'
    BY <1>2 DEF CancelOwed
  <1> QED BY <1>2, <1>4, <1>6, <1>7, <1>8, <1>9, SendKeeps DEF InDialog

LEMMA RejectFresh ==
  ASSUME IInv, TInv, IInv', LoopReject
  PROVE  TInv'
  <1>1. PICK b \in LoopBuffers :
          /\ Examine(b) /\ LoopStatus(b) >= 400
          /\ Send(<<Req("ACK", FirstCseq(b), ErrorAckBranch)>>)
          /\ Finish(Classify(LoopStatus(b)))
    BY DEF LoopReject
  <1>2. pc = "loop" /\ pc' = "done" /\ UNCHANGED <<farVars, invite, alive>>
    BY <1>1 DEF LoopReject, Finish, conn
  <1>3. down \in Seq(FreshMessages) /\ pending \in Seq(FreshMessages)
    BY DEF TInv, HeardFresh
  <1>4. /\ b \in Seq(Truths) /\ b \in Seq(FreshMessages) /\ b # << >>
        /\ down' \in Seq(FreshMessages) /\ pending' \in Seq(FreshMessages)
    BY <1>1, <1>3, ExamineSeq DEF IInv, HeardOK
  <1>5. Decided /\ farCseq = inviteCseq /\ final = LoopStatus(b) /\ LoopStatus(b) \in Nat
    <2>1. LoopStatus(b) \in Nat
      BY <1>4 DEF LoopStatus, Truths, Messages, Last
    <2> QED BY <1>1, <1>4, <2>1, LoopStatusIsFinal
  <1>6. FirstCseq(b) = inviteCseq
    <2>1. b[1] \in Truths /\ b[1] \in FreshMessages /\ 1 \in 1..Len(b)
      BY <1>4
    <2>2. b[1].kind = "resp"
      BY <1>1, <2>1 DEF LoopStatus, HasBye, Truths, Messages
    <2> QED BY <1>2, <1>5, <2>1, <2>2
            DEF FirstCseq, Truths, Honest, FreshMessages, Fresh, Messages, Ringing, IInv, PlaceOK
  <1> DEFINE r == Req("ACK", inviteCseq, inviteCseq)
  <1>7. r \in Requests /\ r.kind = "ACK" /\ r.branch # 0
    BY <1>2, <1>5 DEF Req, Requests, IInv, PlaceOK, FarOK, Decided
  <1>8. Send(<<r>>)
    BY <1>1, <1>6 DEF ErrorAckBranch
  <1>9. alive => ErrorsOwed'
    <2> SUFFICES ASSUME alive PROVE ErrorsOwed'
      OBVIOUS
    <2>1. \A n : AckSent(n) => \E i \in 1..Len(up') : up'[i] = Req("ACK", n, n)
      BY <1>2, <1>7, <1>8, SendGrows, GrowthKeeps DEF IInv, SentOK, invite
    <2>2. \E i \in 1..Len(up') : up'[i] = r
      BY <1>7, <1>8, SendGrows DEF IInv, SentOK
    <2>3. ASSUME NEW u \in unacked PROVE AckSent(u[1]) \/ u[1] = inviteCseq
      BY DEF TInv, ErrorsOwed
    <2> QED BY <1>2, <2>1, <2>2, <2>3 DEF r, ErrorsOwed, AckSent, farVars
  <1> HIDE DEF r
  <1>10. CancelOwed'
    BY <1>2, <1>5, NothingToCancel DEF IInv, PlaceOK, Decided, farVars, invite
  <1>11. far \notin {"answered", "talking"}
    BY <1>1, <1>5 DEF TInv, FarFresh
  <1>12. Decided' /\ farCseq' = inviteCseq'
    BY <1>2, <1>5 DEF Decided, farVars, invite
  <1> QED BY <1>2, <1>4, <1>7, <1>8, <1>9, <1>10, <1>11, <1>12, SendKeeps DEF InDialog

\* A BYE of the callee is its last word: nothing rings, nobody talks.
LEMMA ByeHeard ==
  ASSUME IInv, FarFresh, NEW b \in Seq(FreshMessages), HasBye(b)
  PROVE  far = "released" /\ farCseq = inviteCseq
  <1>1. PICK i \in 1..Len(b) : b[i].kind = "BYE"
    BY DEF HasBye
  <1>2. b[i] \in FreshMessages
    OBVIOUS
  <1> QED BY <1>1, <1>2 DEF FreshMessages, Fresh, FarFresh, IInv, FarOK, PlaceOK

LEMMA ByeHeardFresh ==
  ASSUME IInv, TInv, IInv', LoopBye \/ RemoteBye
  PROVE  TInv'
  <1>1. /\ pc \in {"loop", "play", "delay"} /\ pc' = "done"
        /\ result' = IF pc = "loop" THEN "no_answer" ELSE "completed"
        /\ UNCHANGED <<farVars, invite, alive>>
    BY DEF LoopBye, RemoteBye, Finish, conn
  <1>2. down \in Seq(FreshMessages) /\ pending \in Seq(FreshMessages)
    BY DEF TInv, HeardFresh
  <1>3. PICK b : /\ HasBye(b) /\ Send(<<Req("200BYE", FirstCseq(b), 0)>>)
                 /\ b \in Seq(Truths) /\ b \in Seq(FreshMessages) /\ b # << >>
                 /\ down' \in Seq(FreshMessages) /\ pending' \in Seq(FreshMessages)
    <2>1. CASE LoopBye
      <3>1. PICK b \in LoopBuffers :
              Examine(b) /\ HasBye(b) /\ Send(<<Req("200BYE", FirstCseq(b), 0)>>)
        BY <2>1 DEF LoopBye
      <3> QED BY <1>2, <3>1, ExamineSeq DEF IInv, HeardOK
    <2>2. CASE RemoteBye
      <3>1. PICK b \in Buffers :
              Receive(b) /\ HasBye(b) /\ Send(<<Req("200BYE", FirstCseq(b), 0)>>)
        BY <2>2 DEF RemoteBye
      <3>2. pending' = pending
        BY <2>2 DEF RemoteBye
      <3> QED BY <1>2, <3>1, <3>2, ReceiveSeq DEF IInv, HeardOK
    <2> QED BY <2>1, <2>2
  <1>4. far = "released" /\ farCseq = inviteCseq
    BY <1>3, ByeHeard DEF TInv
  <1> DEFINE r == Req("200BYE", FirstCseq(b), 0)
  <1>5. r \in Requests
    BY <1>3, ByeAnswer
  <1>6. Send(<<r>>) /\ r.kind = "200BYE"
    BY <1>3 DEF Req
  <1> HIDE DEF r
  <1>7. alive => ErrorsOwed'
    <2>1. \A u \in unacked : u[1] # inviteCseq
      BY <1>4 DEF TInv, FarFresh
    <2>2. pc \notin {"done", "cancelled"} /\ (InDialog' => InDialog)
      BY <1>1 DEF InDialog
    <2>3. Grows
      BY <1>5, <1>6, SendGrows DEF IInv
    <2> QED BY <1>1, <2>1, <2>2, <2>3, ProceedOwed
  <1>8. CancelOwed'
    BY <1>1, <1>4, NothingToCancel DEF IInv, PlaceOK, farVars, invite
  <1>9. Decided' /\ farCseq' = inviteCseq'
    BY <1>1, <1>4 DEF Decided, farVars, invite
  <1> QED BY <1>1, <1>3, <1>4, <1>5, <1>6, <1>7, <1>8, <1>9, SendKeeps DEF InDialog

LEMMA CancelFresh ==
  ASSUME IInv, TInv, IInv', Cancel
  PROVE  TInv'
  <1>1. /\ pc = "loop" /\ result = "none" /\ UNCHANGED <<farVars, invite, alive, pending, down>>
        /\ pendingCseq = inviteCseq
    BY DEF Cancel, IInv, PlaceOK, TInv, SentFresh, conn
  <1>2. down' \in Seq(FreshMessages) /\ pending' \in Seq(FreshMessages)
    BY <1>1 DEF TInv, HeardFresh
  <1> DEFINE r == Req("CANCEL", inviteCseq, inviteCseq)
  <1>3. CASE pc' = "cancelwait" /\ Send(<<r>>) /\ result' = result
    <2>1. r \in Requests /\ r.kind = "CANCEL" /\ r.cseq = inviteCseq
      BY DEF Req, Requests, IInv, PlaceOK
    <2> HIDE DEF r
    <2>2. alive => ErrorsOwed'
      BY <1>1, <1>3, <2>1, SendGrows, ProceedOwed DEF IInv, InDialog
    <2>3. alive => CancelOwed'
      <3> SUFFICES ASSUME alive PROVE CancelOwed'
        OBVIOUS
      <3>1. /\ Len(up) \in Nat /\ Len(up') = Len(up) + 1 /\ up'[Len(up) + 1] = r
            /\ \A i \in 1..Len(up') : up'[i] = r \/ i \in 1..Len(up)
        BY <1>3, <2>1, SendGrows DEF IInv, SentOK
      <3>2. \A i \in 0..Len(up) : \E k \in (i + 1)..Len(up') : up'[k] = r
        BY <3>1
      <3>3. r = Req("CANCEL", inviteCseq', inviteCseq')
        BY <1>1 DEF r, invite
      <3>4. \A i \in 1..Len(up') : up'[i].kind = "INVITE" => i \in 0..Len(up)
        BY <2>1, <3>1
      <3> QED BY <3>1, <3>2, <3>3, <3>4 DEF CancelOwed, CancelBehind
    <2> QED BY <1>1, <1>2, <1>3, <2>1, <2>2, <2>3, SendKeeps DEF InDialog, IInv, PlaceOK
  <1>4. CASE ~alive /\ pc' = "cancelled" /\ up' = up
    <2>1. HeardFresh' /\ SentFresh' /\ FarFresh'
      BY <1>1, <1>2, <1>4, ProceedFresh DEF Ringing
    <2> QED BY <1>1, <1>4, <2>1 DEF TInv
  <1> QED BY <1>1, <1>3, <1>4 DEF Cancel, GiveUp

LEMMA HangUpFresh ==
  ASSUME IInv, TInv, IInv', AbortPlayback \/ HangUp
  PROVE  TInv'
  <1> DEFINE r == Req("BYE", ByeCseq, 0)
  <1>1. /\ pc \in {"stream", "hangup"} /\ UNCHANGED <<farVars, invite, alive, pending, down>>
        /\ Send(<<r>>) /\ result = "none"
        /\ \/ pc' = "done" /\ result' = "failed"
           \/ pc' = "byewait" /\ result' = result
    BY DEF AbortPlayback, HangUp, Finish, conn, IInv, PlaceOK
  <1>2. down' \in Seq(FreshMessages) /\ pending' \in Seq(FreshMessages)
    BY <1>1 DEF TInv, HeardFresh
  <1>3. r \in Requests /\ r.kind = "BYE" /\ r.cseq >= inviteCseq
    BY DEF Req, Requests, ByeCseq, IInv, PlaceOK
  <1> HIDE DEF r
  <1>4. alive => ErrorsOwed'
    BY <1>1, <1>3, SendGrows, ProceedOwed DEF IInv, InDialog
  <1>5. CancelOwed'
    BY <1>1 DEF CancelOwed
  <1>6. Decided' /\ farCseq' = inviteCseq'
    BY <1>1 DEF IInv, ActedOn, InDialog, Decided, farVars, invite
  <1> QED BY <1>1, <1>2, <1>3, <1>4, <1>5, <1>6, SendKeeps DEF InDialog

LEMMA UacFresh ==
  ASSUME transport = "tcp", IInv, TInv, IInv', UacNext
  PROVE  TInv'
  BY InviteFresh, RetryFresh, SilentFresh, StartFails, AnswerFresh, RejectFresh,
     ByeHeardFresh, CancelFresh, HangUpFresh
     DEF UacNext, EnterLoop, LoopSkip, CancelWait, StartPlayback, DropMessage, EndPlayback,
         EndDelay, ByeWait

\* The far end says ms.
LEMMA SayFresh ==
  ASSUME TInv, UNCHANGED uacVars, far = "released" => far' = "released",
         pc = "first" => far \notin {"challenged", "rejected"},
         NEW ms, ms \in Seq(FreshMessages'), FarSends(ms), pc # "start",
         \A i \in 1..Len(ms) :
           ms[i].status = 407 => i = Len(ms) /\ far' \in {"challenged", "rejected"}
  PROVE  HeardFresh'
  <1>1. UNCHANGED <<pc, pending, inviteCseq>>
    BY DEF uacVars, invite
  <1>2. ASSUME NEW m \in FreshMessages PROVE m \in FreshMessages'
    BY <1>1 DEF FreshMessages, Fresh, Ringing
  <1>3. down \in Seq(FreshMessages') /\ pending' \in Seq(FreshMessages')
    BY <1>1, <1>2 DEF TInv, HeardFresh
  <1>4. down' \in Seq(FreshMessages')
    BY <1>3 DEF FarSends
  <1>5. ASSUME pc = "first", NEW i \in 1..Len(down'), down'[i].status = 407
        PROVE  i = Len(down') /\ far' \in {"challenged", "rejected"}
    <2>1. /\ Len(down) \in Nat /\ Len(ms) \in Nat /\ Len(down') = Len(down) + Len(ms)
          /\ down'[i] = IF i <= Len(down) THEN down[i] ELSE ms[i - Len(down)]
      BY <1>3 DEF FarSends
    <2>2. CASE i <= Len(down)
      <3>1. down[i].status # 407
        BY <1>5, <2>1, <2>2 DEF TInv, HeardFresh
      <3> QED BY <1>5, <2>1, <2>2, <3>1
    <2>3. CASE i > Len(down)
      <3>1. i - Len(down) \in 1..Len(ms) /\ ms[i - Len(down)].status = 407
        BY <1>5, <2>1, <2>3
      <3> QED BY <2>1, <3>1
    <2> QED BY <2>1, <2>2, <2>3
  <1> QED BY <1>1, <1>3, <1>4, <1>5 DEF TInv, HeardFresh

LEMMA SameSentFresh ==
  ASSUME TInv, UNCHANGED uacVars, UNCHANGED <<up, down>> \/ (up' = up /\ pc # "start")
  PROVE  SentFresh'
  BY DEF TInv, SentFresh, Sent, Ringing, uacVars, invite

LEMMA NothingSaid ==
  ASSUME TInv, UNCHANGED uacVars, down' = down, far' = far
  PROVE  HeardFresh'
  <1>1. FreshMessages' = FreshMessages
    BY DEF FreshMessages, Fresh, Ringing, uacVars, invite
  <1> QED BY <1>1 DEF TInv, HeardFresh, uacVars, invite

\* What rings, or is answered, is the INVITE in flight.
LEMMA NewestRings ==
  ASSUME IInv, FarFresh, far \in {"ringing", "answered", "talking"}
  PROVE  farCseq = inviteCseq /\ farCseq \in Nat /\ farCseq > 0 /\ pc # "start"
  BY DEF IInv, FarOK, FarFresh, PlaceOK

\* The far end decides about an INVITE that rings: a rejection is to be ACKed.
LEMMA DecideFresh ==
  ASSUME IInv, TInv, FarAnswer \/ FarReject
  PROVE  TInv'
  <1>1. UNCHANGED <<uacVars, up, conn, farCseq>> /\ far = "ringing"
    BY DEF FarAnswer, FarReject
  <1>2. farCseq = inviteCseq /\ farCseq \in Nat /\ farCseq > 0 /\ pc # "start" /\ final = 0
    BY <1>1, NewestRings DEF TInv, IInv, FarOK, Decided
  <1>3. PICK status \in Nat :
          /\ final' = status
          /\ \/ far' = "answered" /\ status = 200 /\ unacked' = unacked
             \/ /\ far' \in {"challenged", "rejected"} /\ status \in 300..699
                /\ unacked' = unacked \cup {<<farCseq, status>>}
          /\ \E ms \in {<<Resp(status, farCseq, "INVITE")>>,
                       <<Challenge(Resp(status, farCseq, "INVITE"))>>} : FarSends(ms)
    <2>1. CASE FarAnswer
      BY <2>1 DEF FarAnswer
    <2>2. CASE FarReject
      <3>1. Rejections \subseteq 300..699 /\ \A status \in 300..699 : status \in Nat
        BY SipCallAssumption
      <3> QED BY <2>2, <3>1 DEF FarReject
    <2> QED BY <2>1, <2>2
  <1>4. PICK ms \in {<<Resp(status, farCseq, "INVITE")>>,
                     <<Challenge(Resp(status, farCseq, "INVITE"))>>} : FarSends(ms)
    BY <1>3
  <1>5. PICK r : ms = <<r>> /\ r \in FreshMessages' /\ r.status = status
    <2>1. ASSUME NEW r, r.kind = "resp", r.cseq = farCseq, r.method = "INVITE", r \in Messages
          PROVE  r \in FreshMessages'
      BY <1>1, <1>2, <2>1 DEF FreshMessages, Fresh, uacVars, invite
    <2>2. CASE ms = <<Resp(status, farCseq, "INVITE")>>
      <3> DEFINE r == Resp(status, farCseq, "INVITE")
      <3>1. r \in Messages /\ r.kind = "resp" /\ r.cseq = farCseq /\ r.method = "INVITE"
            /\ r.status = status
        BY <1>2 DEF Resp, Messages
      <3> HIDE DEF r
      <3>2. ms = <<r>>
        BY <2>2 DEF r
      <3> QED BY <2>1, <3>1, <3>2
    <2>3. CASE ms = <<Challenge(Resp(status, farCseq, "INVITE"))>>
      <3> DEFINE r == Challenge(Resp(status, farCseq, "INVITE"))
      <3>1. r \in Messages /\ r.kind = "resp" /\ r.cseq = farCseq /\ r.method = "INVITE"
            /\ r.status = status
        BY <1>2 DEF Resp, Challenge, Messages
      <3> HIDE DEF r
      <3>2. ms = <<r>>
        BY <2>3 DEF r
      <3> QED BY <2>1, <3>1, <3>2
    <2> QED BY <2>2, <2>3
  <1>6. HeardFresh'
    <2>1. ms \in Seq(FreshMessages') /\ Len(ms) = 1 /\ ms[1].status = status
      BY <1>5
    <2>2. \A i \in 1..Len(ms) :
            ms[i].status = 407 => i = Len(ms) /\ far' \in {"challenged", "rejected"}
      BY <1>3, <2>1
    <2>3. UNCHANGED uacVars /\ far # "released" /\ far \notin {"challenged", "rejected"}
      BY <1>1
    <2> QED BY <1>2, <1>4, <2>1, <2>2, <2>3, SayFresh
  <1>7. SentFresh'
    BY <1>1, <1>2, SameSentFresh
  <1>8. FarFresh'
    <2>1. \A u \in unacked : u[1] # farCseq
      BY <1>2 DEF TInv, FarFresh
    <2> QED BY <1>1, <1>2, <1>3, <2>1 DEF TInv, FarFresh, uacVars, invite
  <1> SUFFICES ASSUME alive' PROVE ErrorsOwed' /\ CancelOwed' /\ ByeOwed'
    BY <1>6, <1>7, <1>8 DEF TInv
  <1>9. /\ ~InDialog /\ result \notin {"completed", "busy", "declined", "failed"}
        /\ pc \notin {"byewait", "done"}
    BY <1>1 DEF IInv, ActedOn, Decided, InDialog, TInv, ByeOwed, conn
  <1>10. ErrorsOwed'
    BY <1>1, <1>2, <1>3, <1>9
       DEF TInv, ErrorsOwed, AckSent, InDialog, uacVars, invite, conn
  <1>11. CancelOwed'
    BY <1>1, <1>3 DEF TInv, CancelOwed, CancelBehind, uacVars, invite, conn
  <1>12. ByeOwed'
    BY <1>1, <1>3, <1>9 DEF TInv, ByeOwed, Sent, InDialog, uacVars, invite, conn
  <1> QED BY <1>10, <1>11, <1>12

LEMMA SpeakFresh ==
  ASSUME transport = "tcp", IInv, TInv, FarAlert \/ FarRepeat \/ FarHangUp
  PROVE  TInv'
  <1>1. /\ UNCHANGED <<uacVars, up, conn, farCseq, final, unacked>>
        /\ far \in {"ringing", "answered", "talking"}
        /\ far' = far \/ (far' = "released" /\ far # "ringing")
    BY DEF FarAlert, FarRepeat, FarHangUp, farVars
  <1>2. farCseq = inviteCseq /\ farCseq \in Nat /\ farCseq > 0 /\ pc # "start"
    BY <1>1, NewestRings DEF TInv
  <1>3. PICK r : FarSends(<<r>>) /\ r \in FreshMessages' /\ r.status # 407
    <2>1. CASE FarAlert \/ FarRepeat
      <3>1. PICK status \in {180, 183, 200} : FarSends(<<Resp(status, farCseq, "INVITE")>>)
        <4>1. CASE FarAlert
          BY <4>1 DEF FarAlert
        <4>2. CASE FarRepeat
          BY <1>1, <4>2 DEF FarRepeat, TInv, FarFresh
        <4> QED BY <2>1, <4>1, <4>2
      <3> DEFINE m == Resp(status, farCseq, "INVITE")
      <3>2. /\ m \in Messages /\ m.kind = "resp" /\ m.cseq = farCseq /\ m.method = "INVITE"
            /\ m.status # 407
        BY <1>2 DEF Resp, Messages
      <3>3. FarSends(<<m>>)
        BY <3>1
      <3> HIDE DEF m
      <3>4. m \in FreshMessages'
        BY <1>1, <1>2, <3>2 DEF FreshMessages, Fresh, uacVars, invite
      <3> QED BY <3>2, <3>3, <3>4
    <2>2. CASE FarHangUp
      <3>1. /\ ByeRequest \in Messages /\ ByeRequest.kind = "BYE" /\ ByeRequest.cseq = 1
            /\ ByeRequest.status = 0
        BY DEF ByeRequest, Messages
      <3>2. FarSends(<<ByeRequest>>) /\ far' = "released"
        BY <2>2 DEF FarHangUp
      <3>3. ByeRequest \in FreshMessages'
        BY <3>1, <3>2 DEF FreshMessages, Fresh
      <3> QED BY <3>1, <3>2, <3>3
    <2> QED BY <2>1, <2>2
  <1>4. HeardFresh'
    <2>1. <<r>> \in Seq(FreshMessages')
      BY <1>3
    <2>2. \A i \in 1..Len(<<r>>) : <<r>>[i].status # 407
      BY <1>3
    <2>3. UNCHANGED uacVars /\ far # "released" /\ far \notin {"challenged", "rejected"}
      BY <1>1
    <2> QED BY <1>2, <1>3, <2>1, <2>2, <2>3, SayFresh, ZenonT(30)
  <1>5. SentFresh'
    BY <1>1, <1>2, SameSentFresh
  <1>6. FarFresh'
    BY <1>1, <1>2 DEF TInv, FarFresh, uacVars, invite
  <1> SUFFICES ASSUME alive' PROVE ErrorsOwed' /\ CancelOwed' /\ ByeOwed'
    BY <1>4, <1>5, <1>6 DEF TInv
  <1>7. ErrorsOwed'
    BY <1>1 DEF TInv, ErrorsOwed, AckSent, InDialog, uacVars, invite, conn
  <1>8. CancelOwed'
    BY <1>1 DEF TInv, CancelOwed, CancelBehind, uacVars, invite, conn
  <1>9. ByeOwed'
    BY <1>1 DEF TInv, ByeOwed, Decided, Sent, InDialog, uacVars, invite, conn
  <1> QED BY <1>7, <1>8, <1>9

\* The far end takes in the oldest request; the others move up.
TakesIn(m) ==
  /\ up # << >> /\ m = up[1] /\ m \in Requests
  /\ Len(up) \in Nat /\ Len(up') = Len(up) - 1
  /\ \A i \in 1..(Len(up) - 1) : up'[i] = up[i + 1]

LEMMA TakeIn ==
  ASSUME transport = "tcp", IInv, FarReceive
  PROVE  \E m : /\ TakesIn(m) /\ UNCHANGED <<uacVars, conn>>
                /\ FarInvite(m) \/ FarAck(m) \/ FarCancel(m) \/ FarBye(m) \/ FarByeAnswered(m)
  <1>1. PICK k \in 1..Len(up) :
          /\ Arrives(up, k) /\ up' = RemoveAt(up, k)
          /\ \/ FarInvite(up[k]) \/ FarAck(up[k]) \/ FarCancel(up[k]) \/ FarBye(up[k])
             \/ FarByeAnswered(up[k])
    BY DEF FarReceive
  <1>2. k = 1 /\ up \in Seq(Requests) /\ UNCHANGED <<uacVars, conn>>
    BY <1>1 DEF Arrives, FarReceive, IInv, SentOK
  <1>3. TakesIn(up[1])
    <2>1. 1 \in 1..Len(up) /\ up' = RemoveAt(up, 1)
      BY <1>1, <1>2
    <2>2. /\ Len(RemoveAt(up, 1)) = Len(up) - 1
          /\ \A i \in 1..(Len(up) - 1) :
               RemoveAt(up, 1)[i] = IF i < 1 THEN up[i] ELSE up[i + 1]
      BY <1>2, <2>1, RemoveAtSeq
    <2>3. Len(up') = Len(up) - 1 /\ \A i \in 1..(Len(up) - 1) : up'[i] = up[i + 1]
      BY <2>1, <2>2
    <2> QED BY <1>2, <2>1, <2>3 DEF TakesIn
  <1> QED BY <1>1, <1>2, <1>3

\* What is on its way behind m stays on its way.
LEMMA Behind ==
  ASSUME NEW m, TakesIn(m)
  PROVE  /\ \A k \in 2..Len(up) : k - 1 \in 1..Len(up') /\ up'[k - 1] = up[k]
         /\ \A i \in 1..Len(up') : i + 1 \in 1..Len(up) /\ up'[i] = up[i + 1]
         /\ \A n : AckSent(n) => m = Req("ACK", n, n)
                                 \/ \E i \in 1..Len(up') : up'[i] = Req("ACK", n, n)
         /\ \A kind : Sent(kind) => m.kind = kind \/ \E i \in 1..Len(up') : up'[i].kind = kind
         /\ \A i \in Nat : CancelBehind(i + 1) =>
              \E k \in (i + 1)..Len(up') : up'[k] = Req("CANCEL", inviteCseq, inviteCseq)
  <1>1. \A k \in 2..Len(up) : k - 1 \in 1..Len(up') /\ up'[k - 1] = up[k]
    BY DEF TakesIn
  <1>2. \A i \in 1..Len(up') : i + 1 \in 1..Len(up) /\ up'[i] = up[i + 1]
    BY DEF TakesIn
  <1>3. ASSUME NEW k \in 1..Len(up) PROVE up[k] = m \/ k \in 2..Len(up)
    BY DEF TakesIn
  <1>4. ASSUME NEW n, AckSent(n)
        PROVE  m = Req("ACK", n, n) \/ \E i \in 1..Len(up') : up'[i] = Req("ACK", n, n)
    BY <1>1, <1>3, <1>4 DEF AckSent
  <1>5. ASSUME NEW kind, Sent(kind)
        PROVE  m.kind = kind \/ \E i \in 1..Len(up') : up'[i].kind = kind
    BY <1>1, <1>3, <1>5 DEF Sent
  <1>6. ASSUME NEW i \in Nat, CancelBehind(i + 1)
        PROVE  \E k \in (i + 1)..Len(up') : up'[k] = Req("CANCEL", inviteCseq, inviteCseq)
    <2>1. PICK k \in (i + 2)..Len(up) : up[k] = Req("CANCEL", inviteCseq, inviteCseq)
      BY <1>6 DEF CancelBehind
    <2>2. k - 1 \in (i + 1)..Len(up')
      BY <2>1 DEF TakesIn
    <2>3. k \in 2..Len(up)
      BY <2>1 DEF TakesIn
    <2> QED BY <1>1, <2>1, <2>2, <2>3
  <1> QED BY <1>1, <1>2, <1>4, <1>5, <1>6

LEMMA TakeInSent ==
  ASSUME TInv, NEW m, TakesIn(m), UNCHANGED uacVars
  PROVE  SentFresh'
  <1>1. pc # "start"
    BY DEF TInv, SentFresh, TakesIn
  <1>2. \A i \in 1..Len(up') : i + 1 \in 1..Len(up) /\ up'[i] = up[i + 1]
    BY Behind
  <1> QED BY <1>1, <1>2 DEF TInv, SentFresh, Sent, Ringing, uacVars, invite

\* The far end takes in m and its INVITE does not begin to ring.
LEMMA TakeInKeeps ==
  ASSUME TInv, NEW m, TakesIn(m), UNCHANGED <<uacVars, conn>>, HeardFresh', FarFresh',
         far' = "ringing" => far = "ringing" /\ m # Req("CANCEL", inviteCseq, inviteCseq),
         far' \in {"answered", "talking"} => far \in {"answered", "talking"} /\ m.kind # "BYE",
         far' = "talking" => far = "talking" \/ (m.kind = "ACK" /\ m.branch = 0),
         farCseq' = farCseq, Decided => Decided', alive' => ErrorsOwed'
  PROVE  TInv'
  <1>1. SentFresh'
    BY TakeInSent
  <1>2. UNCHANGED <<pc, result, inviteCseq, alive>> /\ InDialog' = InDialog
    BY DEF uacVars, invite, conn, InDialog
  <1> SUFFICES ASSUME alive PROVE CancelOwed' /\ ByeOwed'
    BY <1>1, <1>2 DEF TInv
  <1>3. CancelOwed'
    <2> SUFFICES ASSUME pc = "cancelwait" \/ result = "no_answer"
                 PROVE  /\ far' = "ringing" => CancelBehind(0)'
                        /\ \A i \in 1..Len(up') : up'[i].kind = "INVITE" => CancelBehind(i)'
      BY <1>2 DEF CancelOwed
    <2>1. ASSUME far' = "ringing" PROVE CancelBehind(0)'
      <3>1. PICK k \in 1..Len(up) : up[k] = Req("CANCEL", inviteCseq, inviteCseq)
        BY <2>1 DEF TInv, CancelOwed, CancelBehind
      <3>2. k \in 2..Len(up)
        BY <2>1, <3>1 DEF TakesIn
      <3> QED BY <1>2, <3>1, <3>2, Behind DEF CancelBehind
    <2>2. ASSUME NEW i \in 1..Len(up'), up'[i].kind = "INVITE" PROVE CancelBehind(i)'
      <3>1. i + 1 \in 1..Len(up) /\ up[i + 1].kind = "INVITE"
        BY <2>2, Behind
      <3>2. CancelBehind(i + 1) /\ i \in Nat
        BY <3>1 DEF TInv, CancelOwed, TakesIn
      <3>3. \E k \in (i + 1)..Len(up') : up'[k] = Req("CANCEL", inviteCseq, inviteCseq)
        BY <3>2, Behind
      <3> QED BY <1>2, <3>3 DEF CancelBehind
    <2> QED BY <2>1, <2>2
  <1>4. ByeOwed'
    <2>0. pc = "done" => Decided' /\ farCseq' = inviteCseq
      BY DEF TInv, ByeOwed
    <2>1. ASSUME pc = "byewait" \/ (pc = "done" /\ result # "raised"),
                 far' \in {"answered", "talking"}
          PROVE  \E i \in 1..Len(up') : up'[i].kind = "BYE"
      <3>1. Sent("BYE")
        BY <2>1 DEF TInv, ByeOwed
      <3> QED BY <2>1, <3>1, Behind
    <2>2. ASSUME \/ far' = "talking"
                 \/ \E i \in 1..Len(up') : up'[i].kind = "ACK" /\ up'[i].branch = 0
          PROVE  InDialog \/ result \in {"completed", "failed", "raised"}
      <3>1. far = "talking" \/ \E i \in 1..Len(up) : up[i].kind = "ACK" /\ up[i].branch = 0
        BY <2>2, Behind DEF TakesIn
      <3> QED BY <3>1 DEF TInv, ByeOwed
    <2> QED BY <1>2, <2>0, <2>1, <2>2 DEF ByeOwed, Sent
  <1> QED BY <1>3, <1>4

LEMMA InviteArrivesFresh ==
  ASSUME IInv, TInv, IInv', NEW m, TakesIn(m), UNCHANGED <<uacVars, conn>>, FarInvite(m)
  PROVE  TInv'
  <1>1. /\ m.kind = "INVITE" /\ far' = "ringing" /\ farCseq' = m.cseq /\ final' = 0
        /\ FarSends(<< >>) \/ FarSends(<<Resp(100, m.cseq, "INVITE")>>)
        /\ unacked' = unacked
    BY DEF FarInvite
  <1>2. m.cseq = inviteCseq /\ farCseq < inviteCseq /\ inviteCseq \in Nat /\ farCseq \in Nat
    BY <1>1 DEF TakesIn, IInv, SentOK, PlaceOK, FarOK
  <1>3. /\ UNCHANGED <<pc, result, inviteCseq, alive, pending>> /\ pc # "start"
        /\ UNCHANGED uacVars /\ InDialog' = InDialog
    BY DEF uacVars, invite, conn, InDialog, TakesIn, TInv, SentFresh
  <1>4. far # "released"
    BY <1>2 DEF TInv, FarFresh
  <1>5. /\ pc = "first" => far \notin {"challenged", "rejected"}
        /\ alive => pc # "done"
    BY <1>2 DEF IInv, PlaceOK, FarOK, TInv, ByeOwed
  <1>6. HeardFresh'
    <2>1. CASE FarSends(<< >>)
      <3> DEFINE ms == << >>
      <3>1. ms \in Seq(FreshMessages') /\ \A i \in 1..Len(ms) : ms[i].status # 407
        OBVIOUS
      <3>2. FarSends(ms)
        BY <2>1
      <3> HIDE DEF ms
      <3> QED BY <1>3, <1>4, <1>5, <3>1, <3>2, SayFresh
    <2>2. CASE FarSends(<<Resp(100, m.cseq, "INVITE")>>)
      <3> DEFINE r == Resp(100, m.cseq, "INVITE")
      <3>1. r \in Messages /\ r.kind = "resp" /\ r.cseq = m.cseq /\ r.method = "INVITE"
            /\ r.status # 407
        BY <1>2 DEF Resp, Messages
      <3>2. FarSends(<<r>>)
        BY <2>2
      <3> HIDE DEF r
      <3>3. r \in FreshMessages'
        BY <1>2, <1>3, <3>1 DEF FreshMessages, Fresh
      <3> DEFINE ms == <<r>>
      <3>4. ms \in Seq(FreshMessages') /\ \A i \in 1..Len(ms) : ms[i].status # 407
        BY <3>1, <3>3
      <3>5. FarSends(ms)
        BY <3>2
      <3> HIDE DEF ms
      <3> QED BY <1>3, <1>4, <1>5, <3>4, <3>5, SayFresh
    <2> QED BY <1>1, <2>1, <2>2
  <1>7. SentFresh'
    BY TakeInSent
  <1>8. FarFresh'
    BY <1>1, <1>2, <1>3 DEF TInv, FarFresh
  <1> SUFFICES ASSUME alive PROVE ErrorsOwed' /\ CancelOwed' /\ ByeOwed'
    BY <1>3, <1>6, <1>7, <1>8 DEF TInv
  <1>9. ErrorsOwed'
    <2>1. ASSUME NEW n, AckSent(n) PROVE \E i \in 1..Len(up') : up'[i] = Req("ACK", n, n)
      BY <1>1, <2>1, Behind DEF Req
    <2> QED BY <1>1, <1>3, <2>1 DEF TInv, ErrorsOwed, AckSent
  <1>10. CancelOwed'
    <2> SUFFICES ASSUME pc = "cancelwait" \/ result = "no_answer"
                 PROVE  /\ CancelBehind(0)'
                        /\ \A i \in 1..Len(up') : up'[i].kind = "INVITE" => CancelBehind(i)'
      BY <1>3 DEF CancelOwed
    <2>1. ASSUME NEW i \in Nat, i + 1 \in 1..Len(up), up[i + 1].kind = "INVITE"
          PROVE  CancelBehind(i)'
      <3>1. CancelBehind(i + 1)
        BY <2>1 DEF TInv, CancelOwed
      <3>2. \E k \in (i + 1)..Len(up') : up'[k] = Req("CANCEL", inviteCseq, inviteCseq)
        BY <3>1, Behind
      <3> QED BY <1>3, <3>2 DEF CancelBehind
    <2>2. CancelBehind(0)'
      <3>1. 0 \in Nat /\ 0 + 1 \in 1..Len(up) /\ up[0 + 1].kind = "INVITE"
        BY <1>1 DEF TakesIn
      <3> QED BY <2>1, <3>1
    <2>3. ASSUME NEW i \in 1..Len(up'), up'[i].kind = "INVITE" PROVE CancelBehind(i)'
      <3>1. i \in Nat /\ i + 1 \in 1..Len(up) /\ up[i + 1].kind = "INVITE"
        BY <2>3, Behind DEF TakesIn
      <3> QED BY <2>1, <3>1
    <2> QED BY <2>2, <2>3
  <1>11. ByeOwed'
    <2>1. \A i \in 1..Len(up') : i + 1 \in 1..Len(up) /\ up'[i] = up[i + 1]
      BY Behind
    <2> QED BY <1>1, <1>3, <1>5, <2>1 DEF TInv, ByeOwed
  <1> QED BY <1>9, <1>10, <1>11

LEMMA AckArrivesFresh ==
  ASSUME IInv, TInv, NEW m, TakesIn(m), UNCHANGED <<uacVars, conn>>,
         FarAck(m) \/ FarByeAnswered(m)
  PROVE  TInv'
  <1>1. /\ UNCHANGED <<farCseq, final, down>> /\ m.kind \in {"ACK", "200BYE"}
        /\ unacked' \subseteq unacked
        /\ \A u \in unacked' : m # Req("ACK", u[1], u[1])
        /\ far' = far \/ (far = "answered" /\ far' = "talking" /\ m.kind = "ACK" /\ m.branch = 0)
    BY DEF FarAck, FarByeAnswered, farVars, Req
  <1>2. UNCHANGED <<inviteCseq, result, alive, pc, pending>> /\ InDialog' = InDialog
    BY DEF uacVars, invite, conn, InDialog
  <1>3. HeardFresh'
    <2>1. FreshMessages' = FreshMessages
      BY <1>1, <1>2 DEF FreshMessages, Fresh, Ringing
    <2> QED BY <1>1, <1>2, <2>1 DEF TInv, HeardFresh
  <1>4. FarFresh'
    BY <1>1, <1>2 DEF TInv, FarFresh
  <1>5. alive' => ErrorsOwed'
    <2>1. ASSUME alive, NEW u \in unacked'
          PROVE  \/ \E i \in 1..Len(up') : up'[i] = Req("ACK", u[1], u[1])
                 \/ u[1] = inviteCseq /\ ~InDialog /\ pc # "done"
      BY <1>1, <2>1, Behind DEF TInv, ErrorsOwed
    <2> QED BY <1>2, <2>1 DEF ErrorsOwed, AckSent
  <1>6. m # Req("CANCEL", inviteCseq, inviteCseq) /\ m.kind # "BYE"
    BY <1>1 DEF Req
  <1>7. Decided => Decided'
    BY <1>1 DEF Decided
  <1> QED BY <1>1, <1>3, <1>4, <1>5, <1>6, <1>7, TakeInKeeps

LEMMA CancelArrivesFresh ==
  ASSUME IInv, TInv, IInv', NEW m, TakesIn(m), UNCHANGED <<uacVars, conn>>, FarCancel(m)
  PROVE  TInv'
  <1>1. /\ UNCHANGED <<inviteCseq, result, alive, pc, pending>> /\ InDialog' = InDialog
        /\ m \in Requests /\ m.kind = "CANCEL" /\ farCseq' = farCseq /\ m.cseq >= inviteCseq
        /\ inviteCseq \in Nat
    BY DEF uacVars, invite, conn, InDialog, TakesIn, FarCancel, TInv, SentFresh, IInv, PlaceOK
  <1>2. ~Ringing /\ ~Ringing' /\ pc \notin {"start", "first"} /\ UNCHANGED uacVars
    BY <1>1 DEF TInv, SentFresh, Sent, TakesIn, Ringing
  <1>3. ASSUME NEW r \in Messages, r.kind = "resp", r.cseq >= inviteCseq
        PROVE  r \in FreshMessages'
    BY <1>1, <1>2, <1>3 DEF FreshMessages, Fresh
  <1>4. CASE far = "ringing" /\ m.cseq = farCseq /\ m.branch = farCseq
    <2>1. farCseq = inviteCseq /\ farCseq > 0 /\ final = 0
      BY <1>4, NewestRings DEF TInv, IInv, FarOK, Decided
    <2>2. /\ far' = "rejected" /\ final' = 487 /\ unacked' = unacked \cup {<<farCseq, 487>>}
          /\ FarSends(<<Resp(200, m.cseq, "CANCEL"), Resp(487, farCseq, "INVITE")>>)
      BY <1>4 DEF FarCancel
    <2> DEFINE a == Resp(200, m.cseq, "CANCEL")
               b == Resp(487, farCseq, "INVITE")
    <2>3. /\ a \in Messages /\ a.kind = "resp" /\ a.cseq >= inviteCseq /\ a.status # 407
          /\ b \in Messages /\ b.kind = "resp" /\ b.cseq >= inviteCseq /\ b.status # 407
      BY <1>1, <2>1 DEF Resp, Messages, Requests
    <2>4. FarSends(<<a, b>>)
      BY <2>2
    <2> HIDE DEF a, b
    <2>5. /\ <<a, b>> \in Seq(FreshMessages')
          /\ \A i \in 1..Len(<<a, b>>) : <<a, b>>[i].status # 407
      BY <1>3, <2>3
    <2>6. HeardFresh'
      BY <1>2, <1>4, <2>2, <2>4, <2>5, SayFresh, ZenonT(30)
    <2>7. \A u \in unacked : u[1] # farCseq
      BY <2>1 DEF TInv, FarFresh
    <2>8. FarFresh'
      BY <1>1, <2>1, <2>2, <2>7 DEF TInv, FarFresh
    <2>9. ~InDialog /\ (alive => pc # "done")
      BY <1>4 DEF IInv, ActedOn, Decided, TInv, ByeOwed
    <2>10. alive' => ErrorsOwed'
      <3>1. ASSUME alive, NEW u \in unacked
            PROVE  u[1] = inviteCseq \/ \E i \in 1..Len(up') : up'[i] = Req("ACK", u[1], u[1])
        <4>1. m # Req("ACK", u[1], u[1])
          BY <1>1 DEF Req
        <4> QED BY <3>1, <4>1, Behind DEF TInv, ErrorsOwed
      <3> QED BY <1>1, <2>1, <2>2, <2>9, <3>1 DEF ErrorsOwed, AckSent
    <2>11. farCseq' = farCseq /\ (Decided => Decided')
      BY <1>4, <2>2 DEF Decided, FarCancel
    <2> QED BY <2>2, <2>6, <2>8, <2>10, <2>11, TakeInKeeps
  <1>5. CASE ~(far = "ringing" /\ m.cseq = farCseq /\ m.branch = farCseq)
    <2> DEFINE a == Resp(IF m.cseq = farCseq THEN 200 ELSE 481, m.cseq, "CANCEL")
    <2>1. UNCHANGED <<far, final, unacked>> /\ FarSends(<<a>>)
      BY <1>5 DEF FarCancel
    <2>2. a \in Messages /\ a.kind = "resp" /\ a.cseq >= inviteCseq /\ a.status # 407
      BY <1>1 DEF Resp, Messages, Requests
    <2> HIDE DEF a
    <2>3. HeardFresh'
      <3> DEFINE ms == <<a>>
      <3>1. ms \in Seq(FreshMessages') /\ \A i \in 1..Len(ms) : ms[i].status # 407
        BY <1>3, <2>2
      <3>2. FarSends(ms) /\ far' = far
        BY <2>1
      <3> HIDE DEF ms
      <3> QED BY <1>2, <3>1, <3>2, SayFresh
    <2>4. FarFresh'
      BY <1>1, <2>1 DEF TInv, FarFresh
    <2>5. alive' => ErrorsOwed'
      <3>1. ASSUME NEW n, AckSent(n) PROVE \E i \in 1..Len(up') : up'[i] = Req("ACK", n, n)
        BY <1>1, <3>1, Behind DEF Req
      <3> QED BY <1>1, <2>1, <3>1 DEF TInv, ErrorsOwed, AckSent
    <2>6. far = "ringing" => m # Req("CANCEL", inviteCseq, inviteCseq)
      BY <1>5, NewestRings DEF Req, TInv
    <2>7. farCseq' = farCseq /\ (Decided => Decided')
      BY <2>1 DEF Decided, FarCancel
    <2> QED BY <1>1, <2>1, <2>3, <2>4, <2>5, <2>6, <2>7, TakeInKeeps
  <1> QED BY <1>4, <1>5

LEMMA ByeArrivesFresh ==
  ASSUME IInv, TInv, IInv', NEW m, TakesIn(m), UNCHANGED <<uacVars, conn>>, FarBye(m)
  PROVE  TInv'
  <1>1. /\ UNCHANGED <<inviteCseq, result, alive, pc, pending, farCseq, final, unacked>>
        /\ InDialog' = InDialog
        /\ m \in Requests /\ m.kind = "BYE" /\ m.cseq >= inviteCseq /\ inviteCseq \in Nat
    BY DEF uacVars, invite, conn, InDialog, TakesIn, FarBye, TInv, SentFresh, IInv, PlaceOK
  <1>2. ~Ringing /\ ~Ringing' /\ pc \notin {"start", "first"} /\ UNCHANGED uacVars
    BY <1>1 DEF TInv, SentFresh, Sent, TakesIn, Ringing
  <1>3. PICK status \in {200, 481} :
          /\ FarSends(<<Resp(status, m.cseq, "BYE")>>)
          /\ \/ far \in {"answered", "talking"} /\ far' = "released"
             \/ far \notin {"answered", "talking"} /\ far' = far
    BY DEF FarBye
  <1> DEFINE a == Resp(status, m.cseq, "BYE")
  <1>4. a \in Messages /\ a.kind = "resp" /\ a.cseq >= inviteCseq /\ a.status # 407
    BY <1>1 DEF Resp, Messages, Requests
  <1>5. FarSends(<<a>>)
    BY <1>3
  <1> HIDE DEF a
  <1>6. a \in FreshMessages'
    BY <1>1, <1>2, <1>4 DEF FreshMessages, Fresh
  <1> DEFINE ms == <<a>>
  <1>7. ms \in Seq(FreshMessages') /\ FarSends(ms) /\ \A i \in 1..Len(ms) : ms[i].status # 407
    BY <1>4, <1>5, <1>6
  <1> HIDE DEF ms
  <1>8. HeardFresh'
    BY <1>2, <1>3, <1>7, SayFresh
  <1>9. FarFresh'
    BY <1>1, <1>3 DEF TInv, FarFresh
  <1>10. alive' => ErrorsOwed'
    <2>1. ASSUME NEW n, AckSent(n) PROVE \E i \in 1..Len(up') : up'[i] = Req("ACK", n, n)
      BY <1>1, <2>1, Behind DEF Req
    <2> QED BY <1>1, <2>1 DEF TInv, ErrorsOwed, AckSent
  <1>11. m # Req("CANCEL", inviteCseq, inviteCseq)
    BY <1>1 DEF Req
  <1>12. farCseq' = farCseq /\ (Decided => Decided')
    BY <1>1 DEF Decided, FarBye
  <1> QED BY <1>1, <1>3, <1>8, <1>9, <1>10, <1>11, <1>12, TakeInKeeps

LEMMA LossFresh ==
  ASSUME transport = "tcp", TInv, ConnLost \/ DatagramLost \/ UNCHANGED vars
  PROVE  TInv'
  <1>1. CASE ConnLost
    <2>1. UNCHANGED <<uacVars, down, farVars>> /\ ~alive' /\ up' = << >>
      BY <1>1 DEF ConnLost
    <2>2. HeardFresh'
      BY <2>1, NothingSaid DEF farVars
    <2>3. SentFresh' /\ FarFresh'
      BY <2>1 DEF TInv, SentFresh, FarFresh, Sent, Ringing, uacVars, invite, farVars
    <2> QED BY <2>1, <2>2, <2>3 DEF TInv
  <1>2. CASE DatagramLost
    BY <1>2 DEF DatagramLost
  <1>3. CASE UNCHANGED vars
    <2>1. UNCHANGED <<uacVars, down, farVars, up, alive>>
      BY <1>3 DEF vars, conn
    <2>2. HeardFresh'
      BY <2>1, NothingSaid DEF farVars
    <2>3. SentFresh' /\ FarFresh'
      BY <2>1 DEF TInv, SentFresh, FarFresh, Sent, Ringing, uacVars, invite, farVars
    <2>4. ErrorsOwed' = ErrorsOwed /\ CancelOwed' = CancelOwed /\ ByeOwed' = ByeOwed
      BY <2>1 DEF ErrorsOwed, CancelOwed, ByeOwed, AckSent, CancelBehind, Sent, InDialog, Decided,
                  uacVars, invite, farVars
    <2> QED BY <2>1, <2>2, <2>3, <2>4 DEF TInv
  <1> QED BY <1>1, <1>2, <1>3

\* A call that is over has one of its results; one that gave up has no_answer.
Concluded ==
  /\ pc = "done" => result \in {"completed", "no_answer", "busy", "declined", "failed", "raised"}
  /\ pc = "cancelled" => result = "no_answer"

LEMMA NextConcludes == Concluded /\ [Next]_vars => Concluded'
  <1>1. ASSUME UacNext PROVE Concluded'
    <2>1. ASSUME SendInvite \/ Retry \/ EnterLoop \/ LoopAnswer \/ StartPlayback \/ EndPlayback
                 \/ EndDelay \/ HangUp
          PROVE  pc' \notin {"done", "cancelled"}
      BY <2>1 DEF SendInvite, Retry, EnterLoop, LoopAnswer, StartPlayback, EndPlayback, EndDelay,
                  HangUp
    <2>2. ASSUME LoopSkip \/ DropMessage PROVE pc' \notin {"done", "cancelled"}
      BY <2>2 DEF LoopSkip, DropMessage, uacVars
    <2>3. ASSUME LoopBye \/ AbortPlayback \/ RemoteBye \/ ByeWait \/ Fail
          PROVE  pc' = "done" /\ result' \in {"no_answer", "failed", "completed", "raised"}
      BY <2>3 DEF LoopBye, AbortPlayback, RemoteBye, ByeWait, Fail, Finish
    <2>4. ASSUME Cancel \/ CancelWait
          PROVE  pc' = "cancelwait" \/ (pc' = "cancelled" /\ result' = "no_answer")
      BY <2>4 DEF Cancel, CancelWait, GiveUp
    <2>5. ASSUME LoopReject
          PROVE  pc' = "done" /\ result' \in {"busy", "no_answer", "declined", "failed"}
      BY <2>5 DEF LoopReject, Finish, Classify
    <2> QED BY <1>1, <2>1, <2>2, <2>3, <2>4, <2>5 DEF UacNext, Concluded
  <1>2. ASSUME FarNext PROVE UNCHANGED <<pc, result>>
    BY <1>2 DEF FarNext, FarReceive, FarAlert, FarAnswer, FarReject, FarRepeat, FarHangUp,
         ConnLost, DatagramLost, uacVars
  <1> QED BY <1>1, <1>2 DEF Next, vars, uacVars, Concluded

LEMMA NextFresh ==
  IInv /\ IInv' /\ (transport = "tcp" => TInv) /\ [Next]_vars => (transport = "tcp" => TInv)'
  <1> SUFFICES ASSUME IInv, IInv', transport = "tcp", TInv, [Next]_vars
               PROVE  TInv'
    <2>1. ASSUME UacNext PROVE UNCHANGED conn
      BY <2>1 DEF UacNext, SendInvite, Retry, EnterLoop, LoopBye, LoopSkip, LoopAnswer, LoopReject,
           Cancel, CancelWait, StartPlayback, AbortPlayback, RemoteBye, DropMessage, EndPlayback,
           EndDelay, HangUp, ByeWait, Fail
    <2>2. ASSUME FarNext PROVE transport' = transport
      BY <2>2 DEF FarNext, FarReceive, FarAlert, FarAnswer, FarReject, FarRepeat, FarHangUp,
           ConnLost, DatagramLost, conn
    <2> QED BY <2>1, <2>2 DEF Next, vars, conn
  <1>1. CASE UacNext
    BY <1>1, UacFresh
  <1>2. CASE FarReceive
    BY <1>2, TakeIn, InviteArrivesFresh, AckArrivesFresh, CancelArrivesFresh, ByeArrivesFresh
  <1>3. CASE FarAnswer \/ FarReject
    BY <1>3, DecideFresh
  <1>4. CASE FarAlert \/ FarRepeat \/ FarHangUp
    BY <1>4, SpeakFresh
  <1>5. CASE ConnLost \/ DatagramLost \/ UNCHANGED vars
    BY <1>5, LossFresh
  <1> QED BY <1>1, <1>2, <1>3, <1>4, <1>5 DEF Next, FarNext

\* Over a connection that lives, a call that has returned and whose requests have arrived
\* has ACKed every error it acted on, and leaves no phone ringing and nobody talking to it.
THEOREM NothingIsOwed == Spec => [](ErrorsActedOnAreAcked /\ NobodyLeftOnTheLine)
  <1> DEFINE Inv == IInv /\ Concluded /\ (transport = "tcp" => TInv)
  <1>1. Init => Inv
    BY InitEstablishes, TInitEstablishes DEF Init, Concluded
  <1>2. Inv /\ [Next]_vars => Inv'
    BY NextKeeps, NextConcludes, NextFresh
  <1>3. Inv => ErrorsActedOnAreAcked /\ NobodyLeftOnTheLine
    <2> SUFFICES ASSUME IInv, Concluded, TInv, Settled
                 PROVE  ErrorsActedOnAreAcked /\ NobodyLeftOnTheLine
      BY DEF ErrorsActedOnAreAcked, NobodyLeftOnTheLine, Settled
    <2>1. /\ ErrorsOwed /\ CancelOwed /\ ByeOwed /\ FarFresh
          /\ up = << >> /\ ~InDialog /\ pc \in {"done", "cancelled"}
      BY DEF TInv, Settled, Done, InDialog
    <2>2. ErrorsActedOnAreAcked
      BY <2>1 DEF ErrorsActedOnAreAcked, ErrorsOwed, AckSent
    <2>3. NobodyLeftOnTheLine
      BY <2>1 DEF NobodyLeftOnTheLine, CancelOwed, CancelBehind, ByeOwed, Sent, IInv, ActedOn,
                  Decided, Concluded
    <2> QED BY <2>2, <2>3
  <1> QED BY <1>1, <1>2, <1>3, PTL DEF Spec
-----------------------------------------------------------------------------
(* Types, and the number of playbacks.                                     *)

Names ==
  /\ pc \in {"start", "first", "retry", "loop", "cancelwait", "stream", "play",
             "delay", "hangup", "byewait", "done", "cancelled"}
  /\ result \in {"none", "completed", "no_answer", "busy", "declined", "failed", "raised"}
  /\ far \in {"idle", "ringing", "challenged", "rejected", "answered", "talking", "released"}

Flags == media \in BOOLEAN /\ alive \in BOOLEAN

Numbers ==
  /\ inviteCseq \in 0..2 /\ pendingCseq \in 0..2 /\ farCseq \in 0..2
  /\ final \in Rejections \cup {0, 200, 487}
  /\ unacked \subseteq (1..2) \X (Rejections \cup {487})

\* Before another playback starts there is one left.
Playbacks ==
  /\ rep \in 0..Repeat
  /\ pc \in {"start", "first", "retry", "loop"} => rep = 0
  /\ pc \in {"stream", "delay"} => rep < Repeat

TypesInv == Names /\ Flags /\ Numbers /\ Playbacks

LEMMA TypesInitially == Init => TypesInv
  <1> SUFFICES ASSUME Init PROVE TypesInv
    OBVIOUS
  <1>1. Flags
    BY Zenon DEF Init, Flags
  <1>2. Names /\ Numbers
    BY DEF Init, Names, Numbers
  <1>3. Playbacks
    BY SipCallAssumption DEF Init, Playbacks
  <1> QED BY <1>1, <1>2, <1>3 DEF TypesInv

LEMMA NamesKept == Names /\ [Next]_vars => Names'
  <1> SUFFICES ASSUME Names, [Next]_vars PROVE Names'
    OBVIOUS
  <1>1. CASE UacNext
    <2>1. far' = far
      BY <1>1 DEF UacNext, SendInvite, Retry, EnterLoop, LoopBye, LoopSkip, LoopAnswer, LoopReject,
           Cancel, CancelWait, StartPlayback, AbortPlayback, RemoteBye, DropMessage, EndPlayback,
           EndDelay, HangUp, ByeWait, Fail, farVars
    <2>2. ASSUME SendInvite \/ Retry \/ EnterLoop \/ LoopSkip \/ LoopAnswer \/ StartPlayback
                 \/ DropMessage \/ EndPlayback \/ EndDelay \/ HangUp
          PROVE  /\ result' = result
                 /\ pc' \in {pc, "first", "retry", "loop", "stream", "play", "delay", "hangup",
                            "byewait"}
      BY <2>2 DEF SendInvite, Retry, EnterLoop, LoopSkip, LoopAnswer, StartPlayback, DropMessage,
           EndPlayback, EndDelay, HangUp, uacVars
    <2>3. ASSUME LoopBye \/ LoopReject \/ CancelWait \/ AbortPlayback \/ RemoteBye \/ ByeWait
                 \/ Fail \/ Cancel
          PROVE  \/ pc' = "cancelwait" /\ result' = result
                 \/ /\ pc' \in {"done", "cancelled"}
                    /\ result' \in {"completed", "no_answer", "busy", "declined", "failed",
                                    "raised"}
      BY <2>3, ZenonT(30) DEF LoopBye, LoopReject, CancelWait, AbortPlayback, RemoteBye, ByeWait, Fail, Cancel,
           Finish, GiveUp, Classify
    <2> QED BY <1>1, <2>1, <2>2, <2>3 DEF UacNext, Names
  <1>2. CASE FarNext
    <2>1. UNCHANGED <<pc, result>>
      BY <1>2 DEF FarNext, FarReceive, FarAlert, FarAnswer, FarReject, FarRepeat, FarHangUp,
           ConnLost, DatagramLost, uacVars
    <2>2. far' \in {far, "ringing", "challenged", "rejected", "answered", "talking", "released"}
      BY <1>2, ZenonT(30) DEF FarNext, FarReceive, FarAlert, FarAnswer, FarReject, FarRepeat, FarHangUp,
           ConnLost, DatagramLost, FarInvite, FarAck, FarCancel, FarBye, FarByeAnswered, farVars
    <2> QED BY <2>1, <2>2 DEF Names
  <1>3. CASE UNCHANGED vars
    BY <1>3 DEF vars, uacVars, farVars, Names
  <1> QED BY <1>1, <1>2, <1>3 DEF Next

LEMMA FlagsKept == Flags /\ [Next]_vars => Flags'
  <1> SUFFICES ASSUME Flags, [Next]_vars PROVE Flags'
    OBVIOUS
  <1>1. media' \in BOOLEAN
    <2>1. \/ media' = media \/ media' = TRUE \/ media' = FALSE
      <3>1. CASE UacNext
        BY <3>1, Zenon DEF UacNext, SendInvite, Retry, EnterLoop, LoopBye, LoopSkip, LoopAnswer,
             LoopReject, Cancel, CancelWait, StartPlayback, AbortPlayback, RemoteBye, DropMessage,
             EndPlayback, EndDelay, HangUp, ByeWait, Fail, uacVars
      <3>2. CASE FarNext
        BY <3>2, Zenon DEF FarNext, FarReceive, FarAlert, FarAnswer, FarReject, FarRepeat,
             FarHangUp, ConnLost, DatagramLost, uacVars
      <3>3. CASE UNCHANGED vars
        BY <3>3, Zenon DEF vars, uacVars
      <3> QED BY <3>1, <3>2, <3>3, Zenon DEF Next
    <2> QED BY <2>1, Zenon DEF Flags
  <1>2. alive' \in BOOLEAN
    <2>1. \/ alive' = alive \/ alive' = FALSE
      <3>1. CASE UacNext
        BY <3>1, Zenon DEF UacNext, SendInvite, Retry, EnterLoop, LoopBye, LoopSkip, LoopAnswer,
             LoopReject, Cancel, CancelWait, StartPlayback, AbortPlayback, RemoteBye, DropMessage,
             EndPlayback, EndDelay, HangUp, ByeWait, Fail, conn
      <3>2. CASE FarNext
        BY <3>2, Zenon DEF FarNext, FarReceive, FarAlert, FarAnswer, FarReject, FarRepeat,
             FarHangUp, ConnLost, DatagramLost, conn
      <3>3. CASE UNCHANGED vars
        BY <3>3, Zenon DEF vars, conn
      <3> QED BY <3>1, <3>2, <3>3, Zenon DEF Next
    <2> QED BY <2>1, Zenon DEF Flags
  <1> QED BY <1>1, <1>2, Zenon DEF Flags

\* The invariant of the messages bounds what the far end learns: an INVITE that arrives has
\* the CSeq of the last one sent, and one that rings has a CSeq.
LEMMA NumbersKept == IInv /\ Numbers /\ [Next]_vars => Numbers'
  <1> SUFFICES ASSUME IInv, Numbers, [Next]_vars PROVE Numbers'
    OBVIOUS
  <1>1. CASE UacNext
    <2>1. UNCHANGED farVars
      BY <1>1 DEF UacNext, SendInvite, Retry, EnterLoop, LoopBye, LoopSkip, LoopAnswer, LoopReject,
           Cancel, CancelWait, StartPlayback, AbortPlayback, RemoteBye, DropMessage, EndPlayback,
           EndDelay, HangUp, ByeWait, Fail
    <2>2. UNCHANGED invite \/ (inviteCseq' \in {1, 2} /\ pendingCseq' \in {1, 2})
      BY <1>1 DEF UacNext, SendInvite, Retry, EnterLoop, LoopBye, LoopSkip, LoopAnswer, LoopReject,
           Cancel, CancelWait, StartPlayback, AbortPlayback, RemoteBye, DropMessage, EndPlayback,
           EndDelay, HangUp, ByeWait, Fail, uacVars
    <2> QED BY <2>1, <2>2 DEF Numbers, farVars, invite
  <1>2. CASE FarNext
    <2>1. UNCHANGED <<inviteCseq, pendingCseq>>
      BY <1>2 DEF FarNext, FarReceive, FarAlert, FarAnswer, FarReject, FarRepeat, FarHangUp,
           ConnLost, DatagramLost, uacVars, invite
    <2>2. far = "ringing" => farCseq \in 1..2
      BY DEF IInv, FarOK, Numbers
    <2>3. CASE FarReceive
      <3>1. PICK k \in 1..Len(up) :
              \/ FarInvite(up[k]) \/ FarAck(up[k]) \/ FarCancel(up[k]) \/ FarBye(up[k])
              \/ FarByeAnswered(up[k])
        BY <2>3 DEF FarReceive
      <3>2. CASE FarInvite(up[k])
        <4>1. up[k].cseq = inviteCseq
          BY <3>2 DEF FarInvite, IInv, SentOK
        <4> QED BY <2>1, <3>2, <4>1 DEF FarInvite, Numbers
      <3>3. CASE FarCancel(up[k])
        BY <2>1, <2>2, <3>3 DEF FarCancel, Numbers
      <3>4. CASE FarAck(up[k]) \/ FarBye(up[k]) \/ FarByeAnswered(up[k])
        <4>1. UNCHANGED <<farCseq, final>> /\ unacked' \subseteq unacked
          BY <3>4 DEF FarAck, FarBye, FarByeAnswered, farVars
        <4> QED BY <2>1, <4>1 DEF Numbers
      <3> QED BY <3>1, <3>2, <3>3, <3>4
    <2>4. CASE FarReject
      <3>1. PICK status \in Rejections :
              final' = status /\ unacked' = unacked \cup {<<farCseq, status>>}
        BY <2>4 DEF FarReject
      <3> QED BY <2>1, <2>2, <2>4, <3>1 DEF FarReject, Numbers
    <2>5. CASE FarAnswer
      BY <2>1, <2>5 DEF FarAnswer, Numbers
    <2>6. CASE FarAlert \/ FarRepeat \/ FarHangUp \/ ConnLost \/ DatagramLost
      <3>1. UNCHANGED <<farCseq, final, unacked>>
        BY <2>6 DEF FarAlert, FarRepeat, FarHangUp, ConnLost, DatagramLost, farVars
      <3> QED BY <2>1, <3>1 DEF Numbers
    <2> QED BY <1>2, <2>3, <2>4, <2>5, <2>6 DEF FarNext
  <1>3. CASE UNCHANGED vars
    BY <1>3 DEF vars, uacVars, invite, farVars, Numbers
  <1> QED BY <1>1, <1>2, <1>3 DEF Next

LEMMA PlaybacksKept == Playbacks /\ [Next]_vars => Playbacks'
  <1> SUFFICES ASSUME Playbacks, [Next]_vars PROVE Playbacks'
    OBVIOUS
  <1>1. CASE StartPlayback
    BY <1>1, SipCallAssumption DEF StartPlayback, Playbacks
  <1>2. CASE EndPlayback
    BY <1>2, SipCallAssumption DEF EndPlayback, Playbacks
  <1>3. CASE LoopAnswer
    BY <1>3, SipCallAssumption DEF LoopAnswer, Playbacks
  <1>4. ASSUME \/ SendInvite \/ Retry \/ EnterLoop \/ LoopBye \/ LoopSkip \/ LoopReject
               \/ Cancel \/ CancelWait \/ AbortPlayback \/ RemoteBye \/ DropMessage
               \/ EndDelay \/ HangUp \/ ByeWait \/ Fail
        PROVE  /\ rep' = rep
               /\ \/ pc' = pc
                  \/ pc' \in {"cancelwait", "hangup", "byewait", "done", "cancelled"}
                  \/ pc \in {"start", "first", "retry"} /\ pc' \in {"first", "retry", "loop"}
                  \/ pc = "delay" /\ pc' = "stream"
    BY <1>4 DEF SendInvite, Retry, EnterLoop, LoopBye, LoopSkip, LoopReject, Cancel, CancelWait,
         AbortPlayback, RemoteBye, DropMessage, EndDelay, HangUp, ByeWait, Fail, Finish, GiveUp, uacVars
  <1>5. ASSUME FarNext \/ UNCHANGED vars PROVE rep' = rep /\ pc' = pc
    BY <1>5 DEF FarNext, FarReceive, FarAlert, FarAnswer, FarReject, FarRepeat, FarHangUp,
         ConnLost, DatagramLost, uacVars, vars
  <1>6. CASE UacNext
    BY <1>1, <1>2, <1>3, <1>4, <1>6 DEF UacNext, Playbacks
  <1> QED BY <1>5, <1>6 DEF Next, Playbacks

\* Every variable keeps its type; in particular the announcement is played at most Repeat
\* times, no INVITE follows the retry, and the channels carry SIP messages only.
THEOREM TypeCorrect == Spec => []TypeOK
  <1> DEFINE Inv == IInv /\ TypesInv
  <1>1. Init => Inv
    BY InitEstablishes, TypesInitially
  <1>2. Inv /\ [Next]_vars => Inv'
    BY NextKeeps, NamesKept, FlagsKept, NumbersKept, PlaybacksKept DEF TypesInv
  <1>3. Inv => TypeOK
    <2> SUFFICES ASSUME IInv, TypesInv PROVE TypeOK
      OBVIOUS
    <2>1. \A i \in 1..Len(pending) : pending[i].kind \in {"resp", "BYE"}
      BY DEF IInv, HeardOK, Truths, Messages
    <2>2. \A i \in 1..Len(down) : down[i].kind \in {"resp", "BYE"}
      BY DEF IInv, HeardOK, Truths, Messages
    <2>3. \A i \in 1..Len(up) : up[i].kind \in {"INVITE", "ACK", "CANCEL", "BYE", "200BYE"}
      <3>1. \A i \in 1..Len(up) : up[i] \in Requests
        BY DEF IInv, SentOK
      <3> QED BY <3>1, Zenon DEF Requests
    <2> QED BY <2>1, <2>2, <2>3, Zenon DEF TypesInv, Names, Flags, Numbers, Playbacks, TypeOK
  <1> QED BY <1>1, <1>2, <1>3, PTL DEF Spec
=============================================================================
