------------------------- MODULE TtsSessions_proofs -------------------------
(***************************************************************************)
(* Proofs about the shared credentials of the Zalo and TTSFree backends,   *)
(* for any number of threads and of cookies and sessions issued.           *)
(***************************************************************************)
EXTENDS TtsSessions, TLAPS

\* What a call that nobody has disturbed can rely on, at each place: the attributes it
\* has looked at or written still have these values, and a second attempt uses what it
\* has fetched itself.
Relies(t) ==
  /\ pc[t] \in {"zalo", "ttsfree", "checkProcess"} => attempt[t] = 0
  /\ pc[t] = "send" => cookie # None /\ (attempt[t] = 1 => cookie = got[t])
  /\ pc[t] = "checkProcess" => session # None
  /\ pc[t] = "writeSession" => got[t] # None
  /\ pc[t] = "writeProcess" => got[t] # None /\ session = got[t]
  /\ pc[t] = "readSession" =>
       /\ session # None /\ process # None
       /\ attempt[t] = 1 => session = got[t] /\ process = got[t]
  /\ pc[t] = "readProcess" =>
       /\ used[t][1] # None /\ process # None
       /\ attempt[t] = 1 => used[t][1] = got[t] /\ process = got[t]
  /\ pc[t] \in {"answer", "submit", "poll"} =>
       /\ used[t][1] # None /\ used[t][2] # None
       /\ attempt[t] = 1 => used[t] = <<got[t], got[t]>>
  /\ pc[t] # "crashed"
  /\ pc[t] = "refused" => got[t] # None /\ used[t] = <<got[t], got[t]>>

Undisturbed == \A t \in Threads \ disturbed : Relies(t)

\* The process id of a call names its own job until another call uses it.
OwnJob ==
  \A t \in Threads \ crossed :
    /\ pc[t] = "poll" => job[used[t][2]] = t
    /\ pc[t] = "done" => out[t] = t

\* Neither property is inductive: they speak of calls that have ended or sent a request,
\* IInv of every place before.
IInv == TypeOK /\ Undisturbed /\ OwnJob

USE TtsSessionsAssumption

LEMMA InitEstablishes == Init => IInv
  <1> SUFFICES ASSUME Init PROVE IInv
    OBVIOUS
  <1>1. None \in Names
    BY DEF None, Names
  <1>2. issued \in Names /\ used \in [Threads -> Names \X Names]
    BY <1>1 DEF Init, None
  <1>3. TypeOK
    <2>1. pc \in [Threads -> Places] /\ attempt \in [Threads -> 0..1]
      BY DEF Init, Places, Resting
    <2>2. job \in [Names -> Threads \cup {Nobody}] /\ out \in [Threads -> Threads \cup {Nobody}]
      BY DEF Init
    <2> QED
      BY <1>1, <1>2, <2>1, <2>2 DEF Init, TypeOK
  <1>4. Undisturbed /\ OwnJob
    BY DEF Init, Undisturbed, Relies, OwnJob
  <1> QED
    BY <1>3, <1>4 DEF IInv

\* What changes when a call returns, and that it keeps its type.
LEMMA ReturnEffect ==
  ASSUME TypeOK, NEW t \in Threads, NEW how \in Resting, Return(t, how)
  PROVE  /\ pc' \in [Threads -> Places] /\ pc' = [pc EXCEPT ![t] = how]
         /\ attempt' \in [Threads -> 0..1]
         /\ job' \in [Names -> Threads \cup {Nobody}]
         /\ got' \in [Threads -> Names] /\ used' \in [Threads -> Names \X Names]
         /\ \A u \in Threads \ {t} :
              attempt'[u] = attempt[u] /\ got'[u] = got[u] /\ used'[u] = used[u]
         /\ how = "refused" => got' = got /\ used' = used
         /\ \A p \in Names, u \in Threads \ {t} : job[p] = u => job'[p] = u
  <1>1. None \in Names
    BY DEF None, Names
  <1>2. pc' \in [Threads -> Places] /\ pc' = [pc EXCEPT ![t] = how]
    BY DEF TypeOK, Return, Goto, Places
  <1>3. job' \in [Names -> Threads \cup {Nobody}]
    BY DEF TypeOK, Return
  <1>4. attempt' \in [Threads -> 0..1]
    BY DEF TypeOK, Return
  <1>5. CASE how = "refused"
    BY <1>2, <1>3, <1>4, <1>5 DEF TypeOK, Return
  <1>6. CASE how # "refused"
    <2>1. <<None, None>> \in Names \X Names
      BY <1>1
    <2>2. got' \in [Threads -> Names] /\ used' \in [Threads -> Names \X Names]
      BY <1>1, <1>6, <2>1 DEF TypeOK, Return
    <2> QED
      BY <1>2, <1>3, <1>4, <1>6, <2>2 DEF TypeOK, Return
  <1> QED
    BY <1>5, <1>6

LEMMA BeginKeeps ==
  ASSUME IInv, NEW t \in Threads, Begin(t)
  PROVE  IInv'
  <1> USE DEF Goto, shared, service, locals, history
  <1>1. TypeOK'
    BY DEF IInv, TypeOK, Begin, Names, Places, Resting, None
  <1>2. ASSUME NEW u \in Threads \ disturbed'
        PROVE  Relies(u)'
    BY DEF IInv, TypeOK, Undisturbed, Relies, Begin, Names, Places, Resting, None
  <1>3. ASSUME NEW u \in Threads \ crossed'
        PROVE  /\ (pc[u] = "poll" => job[used[u][2]] = u)'
               /\ (pc[u] = "done" => out[u] = u)'
    BY DEF IInv, TypeOK, OwnJob, Begin, Names, Places
  <1> QED
    BY <1>1, <1>2, <1>3 DEF IInv, Undisturbed, OwnJob

LEMMA CheckCookieKeeps ==
  ASSUME IInv, NEW t \in Threads, CheckCookie(t)
  PROVE  IInv'
  <1> USE DEF Goto, shared, service, locals, history
  <1>1. TypeOK'
    BY DEF IInv, TypeOK, CheckCookie, Names, Places, Resting, None
  <1>2. ASSUME NEW u \in Threads \ disturbed'
        PROVE  Relies(u)'
    BY DEF IInv, TypeOK, Undisturbed, Relies, CheckCookie, Names, Places, Resting, None
  <1>3. ASSUME NEW u \in Threads \ crossed'
        PROVE  /\ (pc[u] = "poll" => job[used[u][2]] = u)'
               /\ (pc[u] = "done" => out[u] = u)'
    BY DEF IInv, TypeOK, OwnJob, CheckCookie, Names, Places
  <1> QED
    BY <1>1, <1>2, <1>3 DEF IInv, Undisturbed, OwnJob

LEMMA FetchCookieKeeps ==
  ASSUME IInv, NEW t \in Threads, FetchCookie(t)
  PROVE  IInv'
  <1> USE DEF shared, service, history, Fail, Issue, Disturb, Running
  <1>0. TypeOK
    BY DEF IInv
  <1>1. CASE Issue(t) /\ cookie' = issued + 1 /\ Disturb(Running \ {t}) /\ Goto(t, "send")
            /\ UNCHANGED <<session, process, clearing, job, attempt, used, out, crossed>>
    <2>1. TypeOK'
      BY <1>1 DEF IInv, TypeOK, Goto, RetryAt, Names, Places, Resting, None
    <2>2. ASSUME NEW u \in Threads \ disturbed'
          PROVE  Relies(u)'
      BY <1>1 DEF IInv, TypeOK, Undisturbed, Relies, Goto, RetryAt, Names, Places, Resting, None
    <2>3. ASSUME NEW u \in Threads \ crossed'
          PROVE  /\ (pc[u] = "poll" => job[used[u][2]] = u)'
                 /\ (pc[u] = "done" => out[u] = u)'
      BY <1>1 DEF IInv, TypeOK, OwnJob, Goto, RetryAt, Names, Places
    <2> QED
      BY <2>1, <2>2, <2>3 DEF IInv, Undisturbed, OwnJob
  <1>2. CASE Fail(t, "error")
    <2>0. Return(t, "error") /\ "error" \in Resting
      BY <1>2 DEF Resting
    <2>1. TypeOK'
      BY <1>0, <1>2, <2>0, ReturnEffect DEF TypeOK, Names, None
    <2>2. ASSUME NEW u \in Threads \ disturbed'
          PROVE  Relies(u)'
      BY <1>0, <1>2, <2>0, ReturnEffect DEF IInv, TypeOK, Undisturbed, Relies, Places, Resting
    <2>3. ASSUME NEW u \in Threads \ crossed'
          PROVE  /\ (pc[u] = "poll" => job[used[u][2]] = u)'
                 /\ (pc[u] = "done" => out[u] = u)'
      BY <1>0, <1>2, <2>0, ReturnEffect DEF IInv, TypeOK, OwnJob
    <2> QED
      BY <2>1, <2>2, <2>3 DEF IInv, Undisturbed, OwnJob
  <1> QED
    BY <1>1, <1>2 DEF FetchCookie

LEMMA SendCookieKeeps ==
  ASSUME IInv, NEW t \in Threads, SendCookie(t)
  PROVE  IInv'
  <1> USE DEF Goto, shared, service, locals, history
  <1>1. TypeOK'
    BY DEF IInv, TypeOK, SendCookie, Names, Places, Resting, None
  <1>2. ASSUME NEW u \in Threads \ disturbed'
        PROVE  Relies(u)'
    BY DEF IInv, TypeOK, Undisturbed, Relies, SendCookie, Names, Places, Resting, None
  <1>3. ASSUME NEW u \in Threads \ crossed'
        PROVE  /\ (pc[u] = "poll" => job[used[u][2]] = u)'
               /\ (pc[u] = "done" => out[u] = u)'
    BY DEF IInv, TypeOK, OwnJob, SendCookie, Names, Places
  <1> QED
    BY <1>1, <1>2, <1>3 DEF IInv, Undisturbed, OwnJob

LEMMA SynthesizedKeeps ==
  ASSUME IInv, NEW t \in Threads, Synthesized(t)
  PROVE  IInv'
  <1> USE DEF shared, service, history
  <1>0. Return(t, "done") /\ "done" \in Resting /\ TypeOK
    BY DEF IInv, Synthesized, Resting
  <1>1. TypeOK'
    BY <1>0, ReturnEffect DEF TypeOK, Synthesized, Names, None
  <1>2. ASSUME NEW u \in Threads \ disturbed'
        PROVE  Relies(u)'
    BY <1>0, ReturnEffect DEF IInv, TypeOK, Undisturbed, Relies, Synthesized, Places, Resting
  <1>3. ASSUME NEW u \in Threads \ crossed'
        PROVE  /\ (pc[u] = "poll" => job[used[u][2]] = u)'
               /\ (pc[u] = "done" => out[u] = u)'
    BY <1>0, ReturnEffect DEF IInv, TypeOK, OwnJob, Synthesized
  <1> QED
    BY <1>1, <1>2, <1>3 DEF IInv, Undisturbed, OwnJob

LEMMA CookieRefusedKeeps ==
  ASSUME IInv, NEW t \in Threads, CookieRefused(t)
  PROVE  IInv'
  <1> USE DEF shared, service, history, ClearCookie, Disturb, Running
  <1>0. TypeOK
    BY DEF IInv
  <1>1. CASE attempt[t] = 1 /\ Return(t, "refused")
    <2>0. Return(t, "refused") /\ "refused" \in Resting
      BY <1>1 DEF Resting
    <2>1. TypeOK'
      BY <1>0, <1>1, <2>0, ReturnEffect, SMTT(30) DEF TypeOK, CookieRefused, Names, None
    <2>2. ASSUME NEW u \in Threads \ disturbed'
          PROVE  Relies(u)'
      BY <1>0, <1>1, <2>0, ReturnEffect DEF IInv, TypeOK, Undisturbed, Relies, CookieRefused, Places, Resting
    <2>3. ASSUME NEW u \in Threads \ crossed'
          PROVE  /\ (pc[u] = "poll" => job[used[u][2]] = u)'
                 /\ (pc[u] = "done" => out[u] = u)'
      BY <1>0, <1>1, <2>0, ReturnEffect DEF IInv, TypeOK, OwnJob, CookieRefused
    <2> QED
      BY <2>1, <2>2, <2>3 DEF IInv, Undisturbed, OwnJob
  <1>2. CASE attempt[t] = 0 /\ RetryAt(t, "fetch") /\ ClearCookie(t)
    <2>1. TypeOK'
      BY <1>2 DEF IInv, TypeOK, CookieRefused, Goto, RetryAt, Names, Places, Resting, None
    <2>2. ASSUME NEW u \in Threads \ disturbed'
          PROVE  Relies(u)'
      BY <1>2 DEF IInv, TypeOK, Undisturbed, Relies, CookieRefused, Goto, RetryAt, Names, Places, Resting, None
    <2>3. ASSUME NEW u \in Threads \ crossed'
          PROVE  /\ (pc[u] = "poll" => job[used[u][2]] = u)'
                 /\ (pc[u] = "done" => out[u] = u)'
      BY <1>2 DEF IInv, TypeOK, OwnJob, CookieRefused, Goto, RetryAt, Names, Places
    <2> QED
      BY <2>1, <2>2, <2>3 DEF IInv, Undisturbed, OwnJob
  <1> QED
    BY <1>1, <1>2 DEF CookieRefused

LEMMA ZaloFailsKeeps ==
  ASSUME IInv, NEW t \in Threads, ZaloFails(t)
  PROVE  IInv'
  <1> USE DEF shared, service, history, ClearCookie, Disturb, Running
  <1>0. Return(t, "error") /\ "error" \in Resting /\ TypeOK
    BY DEF IInv, ZaloFails, Resting
  <1>1. TypeOK'
    BY <1>0, ReturnEffect, SMTT(30) DEF TypeOK, ZaloFails, Names, None
  <1>2. ASSUME NEW u \in Threads \ disturbed'
        PROVE  Relies(u)'
    BY <1>0, ReturnEffect, SMTT(30) DEF IInv, TypeOK, Undisturbed, Relies, ZaloFails, Places, Resting
  <1>3. ASSUME NEW u \in Threads \ crossed'
        PROVE  /\ (pc[u] = "poll" => job[used[u][2]] = u)'
               /\ (pc[u] = "done" => out[u] = u)'
    BY <1>0, ReturnEffect DEF IInv, TypeOK, OwnJob, ZaloFails
  <1> QED
    BY <1>1, <1>2, <1>3 DEF IInv, Undisturbed, OwnJob

LEMMA CheckSessionKeeps ==
  ASSUME IInv, NEW t \in Threads, CheckSession(t)
  PROVE  IInv'
  <1> USE DEF Goto, shared, service, locals, history
  <1>1. TypeOK'
    BY DEF IInv, TypeOK, CheckSession, Names, Places, Resting, None
  <1>2. ASSUME NEW u \in Threads \ disturbed'
        PROVE  Relies(u)'
    BY DEF IInv, TypeOK, Undisturbed, Relies, CheckSession, Names, Places, Resting, None
  <1>3. ASSUME NEW u \in Threads \ crossed'
        PROVE  /\ (pc[u] = "poll" => job[used[u][2]] = u)'
               /\ (pc[u] = "done" => out[u] = u)'
    BY DEF IInv, TypeOK, OwnJob, CheckSession, Names, Places
  <1> QED
    BY <1>1, <1>2, <1>3 DEF IInv, Undisturbed, OwnJob

LEMMA CheckProcessKeeps ==
  ASSUME IInv, NEW t \in Threads, CheckProcess(t)
  PROVE  IInv'
  <1> USE DEF Goto, shared, service, locals, history
  <1>1. TypeOK'
    BY DEF IInv, TypeOK, CheckProcess, Names, Places, Resting, None
  <1>2. ASSUME NEW u \in Threads \ disturbed'
        PROVE  Relies(u)'
    BY DEF IInv, TypeOK, Undisturbed, Relies, CheckProcess, Names, Places, Resting, None
  <1>3. ASSUME NEW u \in Threads \ crossed'
        PROVE  /\ (pc[u] = "poll" => job[used[u][2]] = u)'
               /\ (pc[u] = "done" => out[u] = u)'
    BY DEF IInv, TypeOK, OwnJob, CheckProcess, Names, Places
  <1> QED
    BY <1>1, <1>2, <1>3 DEF IInv, Undisturbed, OwnJob

LEMMA InitSessionKeeps ==
  ASSUME IInv, NEW t \in Threads, InitSession(t)
  PROVE  IInv'
  <1> USE DEF shared, service, history, Fail, Issue
  <1>0. TypeOK
    BY DEF IInv
  <1>1. CASE Issue(t) /\ Goto(t, "writeSession")
            /\ UNCHANGED <<shared, job, attempt, used, out, history>>
    <2>1. TypeOK'
      BY <1>1 DEF IInv, TypeOK, Goto, RetryAt, Names, Places, Resting, None
    <2>2. ASSUME NEW u \in Threads \ disturbed'
          PROVE  Relies(u)'
      BY <1>1 DEF IInv, TypeOK, Undisturbed, Relies, Goto, RetryAt, Names, Places, Resting, None
    <2>3. ASSUME NEW u \in Threads \ crossed'
          PROVE  /\ (pc[u] = "poll" => job[used[u][2]] = u)'
                 /\ (pc[u] = "done" => out[u] = u)'
      BY <1>1 DEF IInv, TypeOK, OwnJob, Goto, RetryAt, Names, Places
    <2> QED
      BY <2>1, <2>2, <2>3 DEF IInv, Undisturbed, OwnJob
  <1>2. CASE Fail(t, "error")
    <2>0. Return(t, "error") /\ "error" \in Resting
      BY <1>2 DEF Resting
    <2>1. TypeOK'
      BY <1>0, <1>2, <2>0, ReturnEffect DEF TypeOK, Names, None
    <2>2. ASSUME NEW u \in Threads \ disturbed'
          PROVE  Relies(u)'
      BY <1>0, <1>2, <2>0, ReturnEffect DEF IInv, TypeOK, Undisturbed, Relies, Places, Resting
    <2>3. ASSUME NEW u \in Threads \ crossed'
          PROVE  /\ (pc[u] = "poll" => job[used[u][2]] = u)'
                 /\ (pc[u] = "done" => out[u] = u)'
      BY <1>0, <1>2, <2>0, ReturnEffect DEF IInv, TypeOK, OwnJob
    <2> QED
      BY <2>1, <2>2, <2>3 DEF IInv, Undisturbed, OwnJob
  <1> QED
    BY <1>1, <1>2 DEF InitSession

LEMMA WriteSessionKeeps ==
  ASSUME IInv, NEW t \in Threads, WriteSession(t)
  PROVE  IInv'
  <1> USE DEF Goto, shared, service, locals, history, Disturb, Running
  <1>1. TypeOK'
    BY DEF IInv, TypeOK, WriteSession, Names, Places, Resting, None
  <1>2. ASSUME NEW u \in Threads \ disturbed'
        PROVE  Relies(u)'
    BY DEF IInv, TypeOK, Undisturbed, Relies, WriteSession, Names, Places, Resting, None
  <1>3. ASSUME NEW u \in Threads \ crossed'
        PROVE  /\ (pc[u] = "poll" => job[used[u][2]] = u)'
               /\ (pc[u] = "done" => out[u] = u)'
    BY DEF IInv, TypeOK, OwnJob, WriteSession, Names, Places
  <1> QED
    BY <1>1, <1>2, <1>3 DEF IInv, Undisturbed, OwnJob

LEMMA WriteProcessKeeps ==
  ASSUME IInv, NEW t \in Threads, WriteProcess(t)
  PROVE  IInv'
  <1> USE DEF Goto, shared, service, locals, history, Disturb, Running
  <1>1. TypeOK'
    BY DEF IInv, TypeOK, WriteProcess, Names, Places, Resting, None
  <1>2. ASSUME NEW u \in Threads \ disturbed'
        PROVE  Relies(u)'
    BY DEF IInv, TypeOK, Undisturbed, Relies, WriteProcess, Names, Places, Resting, None
  <1>3. ASSUME NEW u \in Threads \ crossed'
        PROVE  /\ (pc[u] = "poll" => job[used[u][2]] = u)'
               /\ (pc[u] = "done" => out[u] = u)'
    BY DEF IInv, TypeOK, OwnJob, WriteProcess, Names, Places
  <1> QED
    BY <1>1, <1>2, <1>3 DEF IInv, Undisturbed, OwnJob

LEMMA ReadSessionKeeps ==
  ASSUME IInv, NEW t \in Threads, ReadSession(t)
  PROVE  IInv'
  <1> USE DEF Goto, shared, service, locals, history
  <1>1. TypeOK'
    BY DEF IInv, TypeOK, ReadSession, Names, Places, Resting, None
  <1>2. ASSUME NEW u \in Threads \ disturbed'
        PROVE  Relies(u)'
    BY DEF IInv, TypeOK, Undisturbed, Relies, ReadSession, Names, Places, Resting, None
  <1>3. ASSUME NEW u \in Threads \ crossed'
        PROVE  /\ (pc[u] = "poll" => job[used[u][2]] = u)'
               /\ (pc[u] = "done" => out[u] = u)'
    BY DEF IInv, TypeOK, OwnJob, ReadSession, Names, Places
  <1> QED
    BY <1>1, <1>2, <1>3 DEF IInv, Undisturbed, OwnJob

LEMMA ReadProcessKeeps ==
  ASSUME IInv, NEW t \in Threads, ReadProcess(t)
  PROVE  IInv'
  <1> USE DEF shared, service, history
  <1>0. TypeOK
    BY DEF IInv
  <1>1. CASE used[t][1] # None /\ Goto(t, "submit")
            /\ used' = [used EXCEPT ![t] = <<@[1], process>>] /\ UNCHANGED <<job, attempt, got>>
    <2>1. TypeOK'
      BY <1>1 DEF IInv, TypeOK, ReadProcess, Goto, RetryAt, Names, Places, Resting, None
    <2>2. ASSUME NEW u \in Threads \ disturbed'
          PROVE  Relies(u)'
      BY <1>1 DEF IInv, TypeOK, Undisturbed, Relies, ReadProcess, Goto, RetryAt, Names, Places, Resting, None
    <2>3. ASSUME NEW u \in Threads \ crossed'
          PROVE  /\ (pc[u] = "poll" => job[used[u][2]] = u)'
                 /\ (pc[u] = "done" => out[u] = u)'
      BY <1>1 DEF IInv, TypeOK, OwnJob, ReadProcess, Goto, RetryAt, Names, Places
    <2> QED
      BY <2>1, <2>2, <2>3 DEF IInv, Undisturbed, OwnJob
  <1>2. CASE used[t][1] = None /\ Return(t, "crashed")
    <2>0. Return(t, "crashed") /\ "crashed" \in Resting
      BY <1>2 DEF Resting
    <2>1. TypeOK'
      BY <1>0, <1>2, <2>0, ReturnEffect DEF TypeOK, ReadProcess, Names, None
    <2>2. ASSUME NEW u \in Threads \ disturbed'
          PROVE  Relies(u)'
      BY <1>0, <1>2, <2>0, ReturnEffect DEF IInv, TypeOK, Undisturbed, Relies, ReadProcess, Places, Resting
    <2>3. ASSUME NEW u \in Threads \ crossed'
          PROVE  /\ (pc[u] = "poll" => job[used[u][2]] = u)'
                 /\ (pc[u] = "done" => out[u] = u)'
      BY <1>0, <1>2, <2>0, ReturnEffect, SMTT(30) DEF IInv, TypeOK, OwnJob, ReadProcess
    <2> QED
      BY <2>1, <2>2, <2>3 DEF IInv, Undisturbed, OwnJob
  <1> QED
    BY <1>1, <1>2 DEF ReadProcess

LEMMA SubmitKeeps ==
  ASSUME IInv, NEW t \in Threads, Submit(t)
  PROVE  IInv'
  <1> USE DEF Goto, shared, service, locals, history
  <1>1. TypeOK'
    BY DEF IInv, TypeOK, Submit, Names, Places, Resting, None
  <1>2. ASSUME NEW u \in Threads \ disturbed'
        PROVE  Relies(u)'
    BY DEF IInv, TypeOK, Undisturbed, Relies, Submit, Names, Places, Resting, None
  <1>3. ASSUME NEW u \in Threads \ crossed'
        PROVE  /\ (pc[u] = "poll" => job[used[u][2]] = u)'
               /\ (pc[u] = "done" => out[u] = u)'
    BY DEF IInv, TypeOK, OwnJob, Submit, Names, Places
  <1> QED
    BY <1>1, <1>2, <1>3 DEF IInv, Undisturbed, OwnJob

LEMMA PollKeeps ==
  ASSUME IInv, NEW t \in Threads, Poll(t)
  PROVE  IInv'
  <1> USE DEF shared, service, history
  <1>0. Return(t, "done") /\ "done" \in Resting /\ TypeOK
    BY DEF IInv, Poll, Resting
  <1>1. TypeOK'
    BY <1>0, ReturnEffect DEF TypeOK, Poll, Names, None
  <1>2. ASSUME NEW u \in Threads \ disturbed'
        PROVE  Relies(u)'
    BY <1>0, ReturnEffect, SMTT(30) DEF IInv, TypeOK, Undisturbed, Relies, Poll, Places, Resting
  <1>3. ASSUME NEW u \in Threads \ crossed'
        PROVE  /\ (pc[u] = "poll" => job[used[u][2]] = u)'
               /\ (pc[u] = "done" => out[u] = u)'
    BY <1>0, ReturnEffect DEF IInv, TypeOK, OwnJob, Poll
  <1> QED
    BY <1>1, <1>2, <1>3 DEF IInv, Undisturbed, OwnJob

LEMMA ConversionFailsKeeps ==
  ASSUME IInv, NEW t \in Threads, ConversionFails(t)
  PROVE  IInv'
  <1> USE DEF shared, service, history, Fail
  <1>0. Return(t, "error") /\ "error" \in Resting /\ TypeOK
    BY DEF IInv, ConversionFails, Resting
  <1>1. TypeOK'
    BY <1>0, ReturnEffect DEF TypeOK, ConversionFails, Names, None
  <1>2. ASSUME NEW u \in Threads \ disturbed'
        PROVE  Relies(u)'
    BY <1>0, ReturnEffect DEF IInv, TypeOK, Undisturbed, Relies, ConversionFails, Places, Resting
  <1>3. ASSUME NEW u \in Threads \ crossed'
        PROVE  /\ (pc[u] = "poll" => job[used[u][2]] = u)'
               /\ (pc[u] = "done" => out[u] = u)'
    BY <1>0, ReturnEffect DEF IInv, TypeOK, OwnJob, ConversionFails
  <1> QED
    BY <1>1, <1>2, <1>3 DEF IInv, Undisturbed, OwnJob

LEMMA SessionRefusedKeeps ==
  ASSUME IInv, NEW t \in Threads, SessionRefused(t)
  PROVE  IInv'
  <1> USE DEF shared, service, history
  <1>0. TypeOK
    BY DEF IInv
  <1>1. CASE attempt[t] = 1 /\ Return(t, "refused")
    <2>0. Return(t, "refused") /\ "refused" \in Resting
      BY <1>1 DEF Resting
    <2>1. TypeOK'
      BY <1>0, <1>1, <2>0, ReturnEffect DEF TypeOK, SessionRefused, Names, None
    <2>2. ASSUME NEW u \in Threads \ disturbed'
          PROVE  Relies(u)'
      BY <1>0, <1>1, <2>0, ReturnEffect DEF IInv, TypeOK, Undisturbed, Relies, SessionRefused, Places, Resting
    <2>3. ASSUME NEW u \in Threads \ crossed'
          PROVE  /\ (pc[u] = "poll" => job[used[u][2]] = u)'
                 /\ (pc[u] = "done" => out[u] = u)'
      BY <1>0, <1>1, <2>0, ReturnEffect DEF IInv, TypeOK, OwnJob, SessionRefused
    <2> QED
      BY <2>1, <2>2, <2>3 DEF IInv, Undisturbed, OwnJob
  <1>2. CASE attempt[t] = 0 /\ RetryAt(t, "init")
    <2>1. TypeOK'
      BY <1>2 DEF IInv, TypeOK, SessionRefused, Goto, RetryAt, Names, Places, Resting, None
    <2>2. ASSUME NEW u \in Threads \ disturbed'
          PROVE  Relies(u)'
      BY <1>2 DEF IInv, TypeOK, Undisturbed, Relies, SessionRefused, Goto, RetryAt, Names, Places, Resting, None
    <2>3. ASSUME NEW u \in Threads \ crossed'
          PROVE  /\ (pc[u] = "poll" => job[used[u][2]] = u)'
                 /\ (pc[u] = "done" => out[u] = u)'
      BY <1>2 DEF IInv, TypeOK, OwnJob, SessionRefused, Goto, RetryAt, Names, Places
    <2> QED
      BY <2>1, <2>2, <2>3 DEF IInv, Undisturbed, OwnJob
  <1> QED
    BY <1>1, <1>2 DEF SessionRefused

LEMMA ConfigKeeps ==
  ASSUME IInv, ConfigClearsCookie \/ ConfigClearsSession \/ ConfigClearsProcess
  PROVE  IInv'
  <1> USE DEF shared, service, locals, history, Disturb, Running,
              ConfigClearsCookie, ConfigClearsSession, ConfigClearsProcess
  <1>0. None \in Names
    BY DEF Names, None
  <1>1. TypeOK'
    BY <1>0 DEF IInv, TypeOK
  <1>2. ASSUME NEW u \in Threads \ disturbed'
        PROVE  Relies(u)'
    BY DEF IInv, TypeOK, Undisturbed, Relies, Resting
  <1>3. OwnJob'
    BY DEF IInv, OwnJob
  <1> QED
    BY <1>1, <1>2, <1>3 DEF IInv, Undisturbed

LEMMA NextKeeps ==
  ASSUME IInv, [Next]_vars
  PROVE  IInv'
  <1>1. ASSUME NEW t \in Threads, Begin(t) \/ ZaloNext(t)
        PROVE  IInv'
    BY <1>1, BeginKeeps, CheckCookieKeeps, FetchCookieKeeps, SendCookieKeeps,
       SynthesizedKeeps, CookieRefusedKeeps, ZaloFailsKeeps DEF ZaloNext
  <1>2. ASSUME NEW t \in Threads, TtsFreeNext(t)
        PROVE  IInv'
    BY <1>2, CheckSessionKeeps, CheckProcessKeeps, InitSessionKeeps, WriteSessionKeeps,
       WriteProcessKeeps, ReadSessionKeeps, ReadProcessKeeps, SubmitKeeps, PollKeeps,
       SessionRefusedKeeps, ConversionFailsKeeps DEF TtsFreeNext
  <1>3. CASE UNCHANGED vars
    BY <1>3 DEF IInv, TypeOK, Undisturbed, Relies, OwnJob, vars, shared, service, locals, history
  <1> QED
    BY <1>1, <1>2, <1>3, ConfigKeeps DEF Next

\* Undisturbed, a call sends the credentials it has looked at or fetched, and gives up
\* only on fresh ones: whatever other calls left behind.
THEOREM UndisturbedCallsAreServed == Spec => [](TypeOK /\ GivesUpOnFresh /\ CredentialsPresent)
  <1>1. Init => IInv
    BY InitEstablishes
  <1>2. IInv /\ [Next]_vars => IInv'
    BY NextKeeps
  <1>3. IInv => TypeOK /\ GivesUpOnFresh /\ CredentialsPresent
    BY DEF IInv, Undisturbed, Relies, GivesUpOnFresh, CredentialsPresent
  <1> QED
    BY <1>1, <1>2, <1>3, PTL DEF Spec

\* A call announces its own text unless another one used its process id.
THEOREM OwnTextSpoken == Spec => []OwnTextUnlessCrossed
  <1>1. Init => IInv
    BY InitEstablishes
  <1>2. IInv /\ [Next]_vars => IInv'
    BY NextKeeps
  <1>3. IInv => OwnTextUnlessCrossed
    BY DEF IInv, OwnJob, OwnTextUnlessCrossed
  <1> QED
    BY <1>1, <1>2, <1>3, PTL DEF Spec
=============================================================================
