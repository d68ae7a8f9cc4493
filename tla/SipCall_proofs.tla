--------------------------- MODULE SipCall_proofs ---------------------------
(***************************************************************************)
(* Theorems about SipCall, for any transport, number of playbacks, set of  *)
(* rejections and bound on the responses in flight.  Nothing is used about *)
(* the far end or the connection: whatever arrives, in whatever order, the *)
(* place in _invite decides what the call may report.                      *)
(***************************************************************************)
EXTENDS SipCall, TLAPS

\* Before the 200 OK has been acted on.
Inviting == {"start", "first", "retry", "loop", "cancelwait"}

Ended    == {"done", "cancelled"}

\* Where in _invite the call has a result, a media stream and a playback behind it.
\* No conjunct is inductive alone: that completed means heard needs Heard, and that
\* the media is off where the call returns needs Streaming.
Places    == pc \in Inviting \cup {"stream", "play", "delay", "hangup", "byewait"} \cup Ended
Concluded == result = "none" <=> pc \notin Ended
Streaming == media \in BOOLEAN /\ (media <=> pc = "play")
Heard     == rep \in Nat /\ (pc \in {"play", "delay", "hangup", "byewait"} => rep > 0)

IInv == Places /\ Concluded /\ Streaming /\ Heard

DialogStep == [Dialog!Next]_(Dialog!dialogVars)

LEMMA InitEstablishes == Init => IInv /\ Dialog!Init
  <1> SUFFICES ASSUME Init PROVE IInv /\ Dialog!Init
    OBVIOUS
  <1>1. pc = "start" /\ rep = 0 /\ media = FALSE /\ result = "none"
    BY DEF Init
  <1>2. IInv
    BY <1>1 DEF IInv, Places, Concluded, Streaming, Heard, Inviting, Ended
  <1>3. ~(rep > 0)
    BY <1>1
  <1>4. Dialog!Init
    BY <1>1, <1>3 DEF Dialog!Init, Done, InDialog
  <1> QED
    BY <1>2, <1>4

\* A step inside one phase that starts no playback and leaves media alone.
LEMMA QuietKeeps ==
  ASSUME IInv, UNCHANGED <<rep, media, result>>,
         \/ pc \in Inviting /\ pc' \in Inviting
         \/ pc = "delay" /\ pc' \in {"stream", "hangup"}
         \/ pc = "hangup" /\ pc' = "byewait"
         \/ pc' = pc
  PROVE  IInv' /\ DialogStep
  BY DEF IInv, Places, Concluded, Streaming, Heard, Inviting, Ended, DialogStep,
         Dialog!dialogVars, Done, InDialog

\* A call that ends before it was answered.
LEMMA RefusalKeeps ==
  ASSUME IInv, pc \in Inviting, UNCHANGED <<rep, media>>, NEW r, Finish(r) \/ (GiveUp /\ r = "no_answer"),
         r \in {"busy", "declined", "no_answer", "failed", "raised"}
  PROVE  IInv' /\ DialogStep
  <1>1. IInv'
    BY DEF IInv, Places, Concluded, Streaming, Heard, Inviting, Ended, Finish, GiveUp
  <1>2. Dialog!NotConnected
    BY DEF IInv, Concluded, Inviting, Ended, Finish, GiveUp, Dialog!NotConnected, Done, InDialog
  <1> QED
    BY <1>1, <1>2 DEF DialogStep, Dialog!Next

\* A call that ends after it was answered: media is off, or stopped by the step.
LEMMA EndKeeps ==
  ASSUME IInv, InDialog, rep' = rep, media' = FALSE, NEW r, Finish(r),
         r \in {"completed", "failed", "raised"},
         r = "completed" => pc # "stream"
  PROVE  IInv' /\ DialogStep
  <1>1. IInv'
    BY DEF IInv, Places, Concluded, Streaming, Heard, Ended, InDialog, Finish
  <1>2. Dialog!Finish
    BY DEF IInv, Concluded, Heard, Ended, InDialog, Finish, Dialog!Finish, Done
  <1> QED
    BY <1>1, <1>2 DEF DialogStep, Dialog!Next

LEMMA InvitingKeeps ==
  ASSUME IInv, SendInvite \/ Retry \/ EnterLoop \/ LoopSkip
  PROVE  IInv' /\ DialogStep
  BY QuietKeeps DEF SendInvite, Retry, EnterLoop, LoopSkip, Inviting

LEMMA LoopEndsKeep ==
  ASSUME IInv, LoopBye \/ LoopReject \/ Cancel \/ CancelWait
  PROVE  IInv' /\ DialogStep
  <1>1. CASE LoopBye
    BY <1>1, RefusalKeeps DEF LoopBye, Inviting
  <1>2. CASE LoopReject
    <2>1. PICK b \in LoopBuffers : Finish(Classify(LoopStatus(b)))
      BY <1>2 DEF LoopReject
    <2>2. Classify(LoopStatus(b)) \in {"busy", "declined", "no_answer", "failed"}
      BY DEF Classify
    <2> QED
      BY <1>2, <2>1, <2>2, RefusalKeeps DEF LoopReject, Inviting
  <1>3. CASE Cancel
    <2>1. CASE pc' = "cancelwait" /\ UNCHANGED result
      BY <1>3, <2>1, QuietKeeps DEF Cancel, Inviting, GiveUp
    <2>2. CASE GiveUp
      BY <1>3, <2>2, RefusalKeeps DEF Cancel, Inviting, GiveUp
    <2> QED
      BY <1>3, <2>1, <2>2 DEF Cancel
  <1>4. CASE CancelWait
    BY <1>4, RefusalKeeps DEF CancelWait, Inviting
  <1> QED
    BY <1>1, <1>2, <1>3, <1>4

LEMMA AnswerKeeps ==
  ASSUME IInv, LoopAnswer
  PROVE  IInv' /\ DialogStep
  <1>1. pc = "loop" /\ pc' = "stream" /\ UNCHANGED <<rep, media, result>>
    BY DEF LoopAnswer
  <1>2. IInv'
    BY <1>1 DEF IInv, Places, Concluded, Streaming, Heard, Inviting, Ended
  <1>3. Dialog!Connect
    BY <1>1 DEF Dialog!Connect, Done, InDialog
  <1> QED
    BY <1>2, <1>3 DEF DialogStep, Dialog!Next

LEMMA PlaybackKeeps ==
  ASSUME IInv, StartPlayback \/ EndPlayback
  PROVE  IInv' /\ DialogStep
  <1>1. CASE StartPlayback
    <2>1. IInv'
      BY <1>1 DEF StartPlayback, IInv, Places, Concluded, Streaming, Heard, Inviting, Ended
    <2>2. Dialog!StartMedia
      BY <1>1 DEF StartPlayback, IInv, Streaming, Heard, Dialog!StartMedia, Done, InDialog
    <2> QED
      BY <2>1, <2>2 DEF DialogStep, Dialog!Next
  <1>2. CASE EndPlayback
    <2>1. IInv'
      BY <1>2 DEF EndPlayback, IInv, Places, Concluded, Streaming, Heard, Inviting, Ended
    <2>2. Dialog!StopMedia
      BY <1>2 DEF EndPlayback, IInv, Streaming, Dialog!StopMedia, Done, InDialog
    <2> QED
      BY <2>1, <2>2 DEF DialogStep, Dialog!Next
  <1> QED
    BY <1>1, <1>2

LEMMA ConnectedKeeps ==
  ASSUME IInv, DropMessage \/ EndDelay \/ HangUp
  PROVE  IInv' /\ DialogStep
  BY QuietKeeps DEF DropMessage, EndDelay, HangUp, uacVars

LEMMA HangingUpKeeps ==
  ASSUME IInv, AbortPlayback \/ RemoteBye \/ ByeWait
  PROVE  IInv' /\ DialogStep
  <1>1. CASE AbortPlayback
    BY <1>1, EndKeeps DEF AbortPlayback, IInv, Streaming, InDialog
  <1>2. CASE RemoteBye
    BY <1>2, EndKeeps DEF RemoteBye, InDialog
  <1>3. CASE ByeWait
    BY <1>3, EndKeeps DEF ByeWait, IInv, Streaming, InDialog
  <1> QED
    BY <1>1, <1>2, <1>3

LEMMA FailKeeps ==
  ASSUME IInv, Fail
  PROVE  IInv' /\ DialogStep
  <1>1. Finish("raised") /\ UNCHANGED <<rep, media>>
    BY DEF Fail
  <1>2. CASE pc \in Inviting
    BY <1>1, <1>2, RefusalKeeps
  <1>3. CASE pc \in {"stream", "hangup"}
    BY <1>1, <1>3, EndKeeps DEF IInv, Streaming, InDialog
  <1> QED
    BY <1>2, <1>3 DEF Fail, Inviting

\* The far end and the connection touch nothing of the call's own state.
LEMMA FarKeeps ==
  ASSUME IInv, FarNext \/ UNCHANGED vars
  PROVE  IInv' /\ DialogStep
  <1>1. UNCHANGED uacVars
    BY DEF FarNext, FarReceive, FarAlert, FarAnswer, FarReject, FarRepeat, FarHangUp,
           ConnLost, DatagramLost, vars
  <1> QED
    BY <1>1, QuietKeeps DEF uacVars

LEMMA NextKeeps ==
  ASSUME IInv, [Next]_vars
  PROVE  IInv' /\ DialogStep
  BY InvitingKeeps, LoopEndsKeep, AnswerKeeps, PlaybackKeeps, ConnectedKeeps,
     HangingUpKeeps, FailKeeps, FarKeeps DEF Next, UacNext

\* A call implements the dialog its result describes, whatever the far end sends and
\* however the connection fails: make_call reports completed, busy, declined,
\* no_answer or failed only as CallDialog allows.
THEOREM CallImplementsDialog == Spec => ImplementsDialog
  <1>1. Init => IInv /\ Dialog!Init
    BY InitEstablishes
  <1>2. IInv /\ [Next]_vars => IInv' /\ [Dialog!Next]_(Dialog!dialogVars)
    BY NextKeeps DEF DialogStep
  <1> QED
    BY <1>1, <1>2, PTL DEF Spec, ImplementsDialog, Dialog!Spec
=============================================================================
