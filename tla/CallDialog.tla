----------------------------- MODULE CallDialog -----------------------------
(***************************************************************************)
(* What SipConnection.make_call promises whoever reads its CallResult,     *)
(* without any SIP message: a call that is never answered carries no       *)
(* media, busy / declined / no_answer are reported only for such calls,    *)
(* completed only for a connected call in which audio was started, and no  *)
(* media stream outlives the call.                                         *)
(***************************************************************************)
VARIABLES phase,   \* "inviting", "connected" or "over"
          media,   \* ffmpeg is streaming
          heard,   \* a playback has started
          result   \* CallResult, "raised" for an exception, "none" before the end

dialogVars == <<phase, media, heard, result>>

Init == phase = "inviting" /\ ~media /\ ~heard /\ result = "none"

Connect == /\ phase = "inviting"
           /\ phase' = "connected"
           /\ UNCHANGED <<media, heard, result>>

NotConnected == /\ phase = "inviting"
                /\ phase' = "over"
                /\ result' \in {"busy", "declined", "no_answer", "failed", "raised"}
                /\ UNCHANGED <<media, heard>>

StartMedia == /\ phase = "connected" /\ ~media
              /\ media' = TRUE /\ heard' = TRUE
              /\ UNCHANGED <<phase, result>>

StopMedia == /\ phase = "connected" /\ media
             /\ media' = FALSE
             /\ UNCHANGED <<phase, heard, result>>

Finish == /\ phase = "connected"
          /\ phase' = "over" /\ media' = FALSE
          /\ result' \in {"completed", "failed", "raised"}
          /\ result' = "completed" => heard
          /\ UNCHANGED heard

Next == Connect \/ NotConnected \/ StartMedia \/ StopMedia \/ Finish

Spec == Init /\ [][Next]_dialogVars
=============================================================================
