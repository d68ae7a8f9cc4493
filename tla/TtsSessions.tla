----------------------------- MODULE TtsSessions -----------------------------
(***************************************************************************)
(* What the worker threads of TTSService share when they use the Zalo and  *)
(* the TTSFree backend: the Zalo cookie, and the TTSFree session with the  *)
(* process id, CSRF token and ref code of its page.  There is no lock:     *)
(* every access to one of these attributes is an action, and update_config *)
(* clears them from the event loop at any moment.                          *)
(*                                                                         *)
(* process stands for the process id, the CSRF token and the ref code,     *)
(* always read and written one after the other.  The web services are not  *)
(* part of the repository: they may refuse any request, and a process id   *)
(* names one job, that of the last text submitted under it.                *)
(***************************************************************************)
EXTENDS Integers

CONSTANTS Threads,    \* worker threads, one text each at a time
          MaxIssued   \* bound on the cookies and sessions the services issue

ASSUME TtsSessionsAssumption == MaxIssued \in Nat

VARIABLES
  cookie,           \* _zalo_cookie
  session, process, \* _ttsfree_session, _ttsfree_process
  clearing,         \* update_config has cleared session but not yet process
  issued,           \* cookies and sessions issued so far: their names are 1..issued
  job,              \* job[p]: whose text was last submitted under process id p
  pc,               \* pc[t]: where the backend is in thread t
  attempt,          \* attempt[t]: _attempt, 0 or 1
  got,              \* got[t]: what the last fetch of this call has returned
  used,             \* used[t]: the cookie, or session and process id, of the last request
  out,              \* out[t]: whose text the audio of t says
  disturbed,        \* history: threads under whom another wrote what they share
  crossed           \* history: threads whose process id another used since they submitted theirs

shared  == <<cookie, session, process, clearing>>
service == <<issued, job>>
locals  == <<pc, attempt, got, used, out>>
history == <<disturbed, crossed>>
vars == <<shared, service, locals, history>>

None == 0
Names == 0..MaxIssued

\* A call has its audio, or has raised: refused for its credentials, for want of a
\* session object (AttributeError), or for another reason.
Resting == {"idle", "done", "refused", "crashed", "error"}

Places == Resting \cup {"zalo", "fetch", "send", "answer", "ttsfree", "checkProcess", "init",
                        "writeSession", "writeProcess", "readSession", "readProcess",
                        "submit", "poll"}

Nobody == "nobody"

Init ==
  /\ cookie = None /\ session = None /\ process = None /\ clearing = FALSE
  /\ issued = 0 /\ job = [p \in Names |-> Nobody]
  /\ pc = [t \in Threads |-> "idle"]
  /\ attempt = [t \in Threads |-> 0]
  /\ got = [t \in Threads |-> None]
  /\ used = [t \in Threads |-> <<None, None>>]
  /\ out = [t \in Threads |-> Nobody]
  /\ disturbed = {} /\ crossed = {}
-----------------------------------------------------------------------------
Goto(t, l) == pc' = [pc EXCEPT ![t] = l]
Running == {u \in Threads : pc[u] \notin Resting}

\* t, or update_config, has written a shared attribute.
Disturb(others) == disturbed' = disturbed \cup others

\* A call of either backend.
Begin(t) ==
  /\ pc[t] \in Resting
  /\ \E l \in {"zalo", "ttsfree"} : Goto(t, l)
  /\ attempt' = [attempt EXCEPT ![t] = 0]
  /\ got' = [got EXCEPT ![t] = None]
  /\ used' = [used EXCEPT ![t] = <<None, None>>]
  /\ out' = [out EXCEPT ![t] = Nobody]
  /\ disturbed' = disturbed \ {t} /\ crossed' = crossed \ {t}
  /\ UNCHANGED <<shared, service>>

\* An HTTP GET returns a new cookie, or a page with a new session and process id.
Issue(t) ==
  /\ issued < MaxIssued
  /\ issued' = issued + 1
  /\ got' = [got EXCEPT ![t] = issued + 1]

\* The call returns or raises: its local variables are gone, and its text is no longer
\* anybody's.  What a refused call had fetched and used is kept for GivesUpOnFresh.
Return(t, how) ==
  /\ Goto(t, how)
  /\ attempt' = [attempt EXCEPT ![t] = 0]
  /\ job' = [p \in Names |-> IF job[p] = t THEN Nobody ELSE job[p]]
  /\ IF how = "refused"
       THEN UNCHANGED <<got, used>>
       ELSE /\ got' = [got EXCEPT ![t] = None]
            /\ used' = [used EXCEPT ![t] = <<None, None>>]

\* Another attempt, from l.
RetryAt(t, l) ==
  /\ Goto(t, l) /\ attempt' = [attempt EXCEPT ![t] = @ + 1]
  /\ UNCHANGED <<job, got, used>>

Fail(t, reason) == Return(t, reason) /\ UNCHANGED <<shared, issued, out, history>>
-----------------------------------------------------------------------------
(* _synthesize_zalo                                                        *)

CheckCookie(t) ==
  /\ pc[t] = "zalo"
  /\ Goto(t, IF cookie = None THEN "fetch" ELSE "send")
  /\ UNCHANGED <<shared, service, attempt, got, used, out, history>>

FetchCookie(t) ==
  /\ pc[t] = "fetch"
  /\ \/ /\ Issue(t) /\ cookie' = issued + 1 /\ Disturb(Running \ {t})
        /\ Goto(t, "send")
        /\ UNCHANGED <<session, process, clearing, job, attempt, used, out, crossed>>
     \/ Fail(t, "error")

\* The request is built with the cookie of this moment.
SendCookie(t) ==
  /\ pc[t] = "send"
  /\ used' = [used EXCEPT ![t] = <<cookie, cookie>>]
  /\ Goto(t, "answer")
  /\ UNCHANGED <<shared, service, attempt, got, out, history>>

Synthesized(t) ==
  /\ pc[t] = "answer" /\ used[t][1] # None
  /\ out' = [out EXCEPT ![t] = t]
  /\ Return(t, "done")
  /\ UNCHANGED <<shared, issued, history>>

ClearCookie(t) == cookie' = None /\ Disturb(Running \ {t})

\* Mutant of CookieRefused: one attempt too many.
CookieRefusedAgain(t) ==
  /\ pc[t] = "answer"
  /\ \/ attempt[t] > 1 /\ Return(t, "refused") /\ UNCHANGED <<cookie, disturbed>>
     \/ attempt[t] <= 1 /\ RetryAt(t, "fetch") /\ ClearCookie(t)
  /\ UNCHANGED <<session, process, clearing, issued, out, crossed>>

\* HTTP 401 or 403, or error code -429: the cookie is cleared and a fresh one tried,
\* once.  A second 401 or 403 leaves the cookie alone.
CookieRefused(t) ==
  /\ pc[t] = "answer"
  /\ \/ /\ attempt[t] = 1 /\ Return(t, "refused")
        /\ ClearCookie(t) \/ UNCHANGED <<cookie, disturbed>>
     \/ attempt[t] = 0 /\ RetryAt(t, "fetch") /\ ClearCookie(t)
  /\ UNCHANGED <<session, process, clearing, issued, out, crossed>>

\* Another error code or invalid JSON clears the cookie; the network's errors, and
\* those of the playlist, the segments and ffmpeg, do not.
ZaloFails(t) ==
  /\ pc[t] = "answer"
  /\ ClearCookie(t) \/ UNCHANGED <<cookie, disturbed>>
  /\ Return(t, "error")
  /\ UNCHANGED <<session, process, clearing, issued, out, crossed>>
-----------------------------------------------------------------------------
(* _synthesize_ttsfree                                                     *)

CheckSession(t) ==
  /\ pc[t] = "ttsfree"
  /\ Goto(t, IF session = None THEN "init" ELSE "checkProcess")
  /\ UNCHANGED <<shared, service, attempt, got, used, out, history>>

CheckProcess(t) ==
  /\ pc[t] = "checkProcess"
  /\ Goto(t, IF process = None THEN "init" ELSE "readSession")
  /\ UNCHANGED <<shared, service, attempt, got, used, out, history>>

\* _init_ttsfree_session: the home page, then the attributes one by one.
InitSession(t) ==
  /\ pc[t] = "init"
  /\ \/ /\ Issue(t) /\ Goto(t, "writeSession")
        /\ UNCHANGED <<shared, job, attempt, used, out, history>>
     \/ Fail(t, "error")

WriteSession(t) ==
  /\ pc[t] = "writeSession"
  /\ session' = got[t] /\ Disturb(Running \ {t})
  /\ Goto(t, "writeProcess")
  /\ UNCHANGED <<cookie, process, clearing, service, attempt, got, used, out, crossed>>

\* Mutant of WriteProcess: a page without a process id is accepted.
WriteProcessUnchecked(t) ==
  /\ pc[t] = "writeProcess"
  /\ process' \in {got[t], None} /\ Disturb(Running \ {t})
  /\ Goto(t, "readSession")
  /\ UNCHANGED <<cookie, session, clearing, service, attempt, got, used, out, crossed>>

WriteProcess(t) ==
  /\ pc[t] = "writeProcess"
  /\ process' = got[t] /\ Disturb(Running \ {t})
  /\ Goto(t, "readSession")
  /\ UNCHANGED <<cookie, session, clearing, service, attempt, got, used, out, crossed>>

\* _ttsfree_convert copies the attributes one by one ...
ReadSession(t) ==
  /\ pc[t] = "readSession"
  /\ used' = [used EXCEPT ![t] = <<session, None>>]
  /\ Goto(t, "readProcess")
  /\ UNCHANGED <<shared, service, attempt, got, out, history>>

\* ... and uses session.cookies, also if there is no session any more.
ReadProcess(t) ==
  /\ pc[t] = "readProcess"
  /\ \/ /\ used[t][1] # None /\ Goto(t, "submit")
        /\ used' = [used EXCEPT ![t] = <<@[1], process>>] /\ UNCHANGED <<job, attempt, got>>
     \/ used[t][1] = None /\ Return(t, "crashed")
  /\ UNCHANGED <<shared, issued, out, history>>

\* voicegen.php takes the text under the process id.
Submit(t) ==
  LET p == used[t][2] IN
  /\ pc[t] = "submit" /\ p # None
  /\ job' = [job EXCEPT ![p] = t]
  /\ crossed' = (crossed \ {t})
                \cup {u \in Threads \ {t} : pc[u] = "poll" /\ used[u][2] = p}
  /\ Goto(t, "poll")
  /\ UNCHANGED <<shared, issued, attempt, got, used, out, disturbed>>

\* Mutant of Poll: the process id is read again.
PollRereads(t) ==
  /\ pc[t] = "poll" /\ process # None
  /\ out' = [out EXCEPT ![t] = job[process]]
  /\ Return(t, "done")
  /\ UNCHANGED <<shared, issued, history>>

\* processing.php reports the end of the job of this process id, whose audio is fetched.
Poll(t) ==
  /\ pc[t] = "poll"
  /\ out' = [out EXCEPT ![t] = job[used[t][2]]]
  /\ Return(t, "done")
  /\ UNCHANGED <<shared, issued, history>>

\* Mutant of SessionRefused: the retry uses the session that was refused.
SessionRefusedKept(t) ==
  /\ pc[t] \in {"submit", "poll"}
  /\ \/ attempt[t] = 1 /\ Return(t, "refused")
     \/ attempt[t] = 0 /\ RetryAt(t, "readSession")
  /\ UNCHANGED <<shared, issued, out, history>>

\* ffmpeg cannot convert the audio, or makes too little of it.
ConversionFails(t) == pc[t] = "poll" /\ Fail(t, "error")

\* A TTSException in any step of _ttsfree_convert: once more with a new session.
SessionRefused(t) ==
  /\ pc[t] \in {"submit", "poll"}
  /\ \/ attempt[t] = 1 /\ Return(t, "refused")
     \/ attempt[t] = 0 /\ RetryAt(t, "init")
  /\ crossed' = crossed \ {t}
  /\ UNCHANGED <<shared, issued, out, disturbed>>
-----------------------------------------------------------------------------
(* update_config, when the engine, speaker or voice has changed.           *)

ConfigClearsCookie ==
  /\ cookie # None
  /\ cookie' = None /\ Disturb(Running)
  /\ UNCHANGED <<session, process, clearing, service, locals, crossed>>

ConfigClearsSession ==
  /\ ~clearing /\ (session # None \/ process # None)
  /\ session' = None /\ clearing' = TRUE /\ Disturb(Running)
  /\ UNCHANGED <<cookie, process, service, locals, crossed>>

ConfigClearsProcess ==
  /\ clearing
  /\ process' = None /\ clearing' = FALSE /\ Disturb(Running)
  /\ UNCHANGED <<cookie, session, service, locals, crossed>>

ZaloNext(t) == \/ CheckCookie(t) \/ FetchCookie(t) \/ SendCookie(t)
               \/ Synthesized(t) \/ CookieRefused(t) \/ ZaloFails(t)

TtsFreeNext(t) ==
  \/ CheckSession(t) \/ CheckProcess(t)
  \/ InitSession(t) \/ WriteSession(t) \/ WriteProcess(t)
  \/ ReadSession(t) \/ ReadProcess(t)
  \/ Submit(t) \/ Poll(t) \/ SessionRefused(t) \/ ConversionFails(t)

Next == \/ \E t \in Threads : Begin(t) \/ ZaloNext(t) \/ TtsFreeNext(t)
        \/ ConfigClearsCookie \/ ConfigClearsSession \/ ConfigClearsProcess

Spec == Init /\ [][Next]_vars
-----------------------------------------------------------------------------
TypeOK ==
  /\ cookie \in Names /\ session \in Names /\ process \in Names /\ clearing \in BOOLEAN
  /\ issued \in Names /\ job \in [Names -> Threads \cup {Nobody}]
  /\ pc \in [Threads -> Places]
  /\ attempt \in [Threads -> 0..1]
  /\ got \in [Threads -> Names] /\ used \in [Threads -> Names \X Names]
  /\ out \in [Threads -> Threads \cup {Nobody}]
  /\ disturbed \subseteq Threads /\ crossed \subseteq Threads

\* A call nobody interferes with gives up on its credentials only when the service has
\* refused ones that this very call had fetched: whatever stale, missing or mixed
\* cookie, session and process id earlier calls and configuration changes left behind.
GivesUpOnFresh ==
  \A t \in Threads : pc[t] = "refused" /\ t \notin disturbed =>
    got[t] # None /\ used[t] = <<got[t], got[t]>>

\* No interference, no request without credentials: only another thread or a change of
\* the configuration can make a call send "None", or use a session that is None.
CredentialsPresent ==
  \A t \in Threads \ disturbed :
    /\ pc[t] # "crashed"
    /\ pc[t] \in {"answer", "submit", "poll"} => None \notin {used[t][1], used[t][2]}

\* The audio of a call says its own text, however the shared session was replaced
\* meanwhile, unless another call submitted a text under the same process id before
\* this one had its result.
OwnTextUnlessCrossed ==
  \A t \in Threads : pc[t] = "done" /\ t \notin crossed => out[t] = t
=============================================================================
