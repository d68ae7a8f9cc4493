----------------------------- MODULE CallManager -----------------------------
(***************************************************************************)
(* CallManager: the records of the calls, one asyncio task per call        *)
(* running _execute, the default thread pool the tasks hand their blocking *)
(* jobs to, the WAV file of each call, the RTP ports (module RtpPorts),    *)
(* the eviction of old records, the webhook, and the cancellation of the   *)
(* tasks when the server stops.                                            *)
(*                                                                         *)
(* All coroutine code runs on one event loop, so the code between two      *)
(* awaits is one action.  What a job does inside its thread is abstracted  *)
(* to its outcome: SipCall models make_call, TtsCache models synthesize.   *)
(***************************************************************************)
EXTENDS Integers, Sequences, FiniteSets, SequencesExt

CONSTANTS Calls,             \* call ids
          Callbacks,         \* the calls whose request has a callback_url
          Workers,           \* threads of the event loop's default executor
          MaxRecords,        \* MAX_CALL_RECORDS
          MaxHops,           \* redirects _fire_webhook follows, 4 in the code
          PortMin, PortMax, NoPort, Refused

ASSUME CallManagerAssumption ==
  /\ Callbacks \subseteq Calls /\ IsFiniteSet(Calls)
  /\ Workers \in Nat \ {0} /\ MaxRecords \in Nat \ {0} /\ MaxHops \in Nat \ {0}

VARIABLES
  status,       \* CallRecord.status, "none" before the call is submitted
  store,        \* keys of _calls
  older,        \* older[c]: the calls whose updated_at is before that of c
  pc,           \* what the task of the call awaits
  wav,          \* the calls whose WAV file exists
  queue,        \* jobs waiting for a thread
  running,      \* jobs a thread is executing
  payload,      \* status in the webhook payload of the call
  hops,         \* webhook requests made for the call
  notified,     \* the calls whose callback URL has received the payload
  stopping,     \* the server is shutting down
  cancelled,    \* the calls whose task has been cancelled
  free, inUse, lease  \* the RTP ports, see RtpPorts

recordVars == <<status, store, older>>
poolVars   == <<queue, running>>
hookVars   == <<payload, hops, notified>>
portVars   == <<free, inUse, lease>>
stopVars   == <<stopping, cancelled>>
vars == <<recordVars, pc, wav, poolVars, hookVars, stopVars, portVars>>

Rtp == INSTANCE RtpPorts WITH Callers <- Calls

\* What RtpPorts assumes of the port range.
ASSUME RtpAssumption == Rtp!PortRangeAssumption /\ Rtp!NoPortAssumption

Terminal == {"completed", "failed", "no_answer", "busy"}
Statuses == Terminal \cup {"none", "queued", "synthesizing", "calling"}
JobKinds == {"synth", "measure", "call", "resolve"}

Init ==
  /\ status = [c \in Calls |-> "none"]
  /\ store = {}
  /\ older = [c \in Calls |-> {}]
  /\ pc = [c \in Calls |-> "idle"]
  /\ wav = {}
  /\ queue = << >> /\ running = {}
  /\ payload = [c \in Calls |-> "none"]
  /\ hops = [c \in Calls |-> 0]
  /\ notified = {}
  /\ stopping = FALSE /\ cancelled = {}
  /\ Rtp!Init
-----------------------------------------------------------------------------
(* Records.                                                                *)

\* updated_at of c becomes the latest of all.
Stamp(c) ==
  older' = [d \in Calls |-> IF d = c THEN {e \in Calls \ {c} : status[e] # "none"}
                                     ELSE older[d] \ {c}]

\* _transition
Transition(c, s) == status' = [status EXCEPT ![c] = s] /\ Stamp(c) /\ UNCHANGED store

\* Mutant of Oldest: the sort order is reversed.
Newest(T, k) == {r \in T : Cardinality({s \in T : r \in older[s]}) < k}

\* The k records of T updated longest ago.
Oldest(T, k) == {r \in T : Cardinality(older[r] \cap T) < k}

\* Mutant of Evictable: records in any state count as evictable past the limit.
AnyRecord(S) == S \cap {c \in Calls : status[c] # "none"}

Evictable(S) == {r \in S : status[r] \in Terminal}

\* _evict_old_records: the records it deletes from the table S.
Evicted(S) ==
  LET target == (MaxRecords * 9) \div 10
      hard   == (MaxRecords * 12) \div 10
      T      == Evictable(S)
      first  == Oldest(T, Cardinality(T) - target)
      rest   == S \ first
      second == IF Cardinality(rest) > hard
                  THEN Oldest(T \ first, Cardinality(rest) - target)
                  ELSE {}
  IN  IF Cardinality(S) <= MaxRecords THEN {} ELSE first \cup second

\* submit_call: the record is inserted before old ones are evicted.
Submit(c) ==
  /\ pc[c] = "idle" /\ ~stopping
  /\ status' = [status EXCEPT ![c] = "queued"] /\ Stamp(c)
  /\ store' = (store \cup {c}) \ Evicted(store \cup {c})
  /\ pc' = [pc EXCEPT ![c] = "queued"]
  /\ UNCHANGED <<wav, poolVars, hookVars, stopVars, portVars>>
-----------------------------------------------------------------------------
(* The thread pool.                                                        *)

\* asyncio.to_thread, run_in_executor: the task waits for its job.
Hand(c, kind) == /\ pc' = [pc EXCEPT ![c] = kind]
                 /\ queue' = Append(queue, <<c, kind>>)

TakeJob ==
  /\ queue # << >> /\ Cardinality(running) < Workers
  /\ running' = running \cup {Head(queue)}
  /\ queue' = Tail(queue)
  /\ UNCHANGED <<recordVars, pc, wav, hookVars, stopVars, portVars>>

Ends(c, kind) == <<c, kind>> \in running /\ running' = running \ {<<c, kind>>}

\* The task of the call still waits for the job (it has not been cancelled).
Awaited(c, kind) == pc[c] = kind
-----------------------------------------------------------------------------
(* _execute                                                                *)

\* The finally block: the WAV file is deleted and the webhook, if any, started
\* with the status s the record has by then.
Finally(c, s) ==
  /\ wav' = wav \ {c}
  /\ IF c \in Callbacks
       THEN /\ payload' = [payload EXCEPT ![c] = s]
            /\ hops' = [hops EXCEPT ![c] = 1]
            /\ Hand(c, "resolve")
       ELSE /\ pc' = [pc EXCEPT ![c] = "done"]
            /\ UNCHANGED <<payload, hops, queue>>
  /\ UNCHANGED notified

\* Mutant of Conclude: the payload is built before the outcome is recorded.
ConcludeEarlyPayload(c, s) == Transition(c, s) /\ Finally(c, status[c])

\* An outcome, or an exception: the last transition and the finally block.
Conclude(c, s) == Transition(c, s) /\ Finally(c, s)

Begin(c) ==
  /\ pc[c] = "queued"
  /\ Transition(c, "synthesizing")
  /\ Hand(c, "synth")
  /\ UNCHANGED <<wav, running, hookVars, stopVars, portVars>>

SynthOk(c) ==
  /\ Ends(c, "synth")
  /\ wav' = wav \cup {c}
  /\ IF Awaited(c, "synth") THEN Hand(c, "measure") ELSE UNCHANGED <<pc, queue>>
  /\ UNCHANGED <<recordVars, hookVars, stopVars, portVars>>

\* Mutant of SynthFails: the failure ends the task but is not recorded.
SynthFailureLost(c) ==
  /\ Ends(c, "synth")
  /\ pc' = [pc EXCEPT ![c] = "done"]
  /\ UNCHANGED <<recordVars, wav, queue, hookVars, stopVars, portVars>>

\* Every TTS backend failed; one of them may have left a file behind.
SynthFails(c) ==
  /\ Ends(c, "synth")
  /\ IF Awaited(c, "synth")
       THEN Conclude(c, "failed")
       ELSE wav' \in {wav, wav \cup {c}} /\ UNCHANGED <<recordVars, pc, queue, hookVars>>
  /\ UNCHANGED <<stopVars, portVars>>

\* Mutant of MeasureOk: the audio file is deleted once its length is known.
MeasureDeletes(c) ==
  /\ Ends(c, "measure")
  /\ wav' = wav \ {c}
  /\ IF Awaited(c, "measure")
       THEN Transition(c, "calling") /\ Hand(c, "call")
       ELSE UNCHANGED <<recordVars, pc, queue>>
  /\ UNCHANGED <<hookVars, stopVars, portVars>>

MeasureOk(c) ==
  /\ Ends(c, "measure")
  /\ IF Awaited(c, "measure")
       THEN Transition(c, "calling") /\ Hand(c, "call")
       ELSE UNCHANGED <<recordVars, pc, queue>>
  /\ UNCHANGED <<wav, hookVars, stopVars, portVars>>

MeasureFails(c) ==
  /\ Ends(c, "measure")
  /\ IF Awaited(c, "measure")
       THEN Conclude(c, "failed")
       ELSE UNCHANGED <<recordVars, wav, pc, queue, hookVars>>
  /\ UNCHANGED <<stopVars, portVars>>

\* SipController.make_call acquires a port ...
CallStarts(c) ==
  /\ <<c, "call">> \in running
  /\ Rtp!Acquire(c)
  /\ UNCHANGED <<recordVars, pc, wav, poolVars, hookVars, stopVars>>

\* ... or raises at once.
CallRefused(c) ==
  /\ Ends(c, "call")
  /\ Rtp!AcquireFails(c)
  /\ IF Awaited(c, "call")
       THEN Conclude(c, "failed")
       ELSE UNCHANGED <<recordVars, wav, pc, queue, hookVars>>
  /\ UNCHANGED stopVars

\* Mutant of StatusOf: an outcome missing from status_map reaches the record.
StatusAsIs(r) == r

\* status_map; a raised exception and a declined call both end as failed.
StatusOf(r) == IF r \in {"completed", "no_answer", "busy"} THEN r ELSE "failed"

CallResults == {"completed", "no_answer", "busy", "declined", "failed", "raised"}

\* Mutant of CallEnds: a port is returned only by a call that did not raise.
CallEndsLeaks(c) ==
  \E r \in CallResults :
    /\ Ends(c, "call") /\ lease[c] \in Rtp!Ports
    /\ IF r = "raised" THEN UNCHANGED portVars ELSE Rtp!Release(c)
    /\ IF Awaited(c, "call") THEN Conclude(c, StatusOf(r))
                             ELSE UNCHANGED <<recordVars, wav, pc, queue, hookVars>>
    /\ UNCHANGED stopVars

CallEnds(c) ==
  \E r \in CallResults :
    /\ Ends(c, "call") /\ Rtp!Release(c)
    /\ IF Awaited(c, "call") THEN Conclude(c, StatusOf(r))
                             ELSE UNCHANGED <<recordVars, wav, pc, queue, hookVars>>
    /\ UNCHANGED stopVars
-----------------------------------------------------------------------------
(* _fire_webhook                                                           *)

\* The host of the callback URL is resolved; a private or unresolvable one ends
\* the webhook, a public one is sent the payload.
Resolved(c) ==
  /\ Ends(c, "resolve")
  /\ IF Awaited(c, "resolve") THEN \E s \in {"post", "done"} : pc' = [pc EXCEPT ![c] = s]
                              ELSE UNCHANGED pc
  /\ UNCHANGED <<recordVars, wav, queue, hookVars, stopVars, portVars>>

\* The request fails or is answered: the end, or a redirect to follow.
Posted(c) ==
  /\ pc[c] = "post"
  /\ \/ /\ notified' \in {notified, notified \cup {c}}
        /\ pc' = [pc EXCEPT ![c] = "done"]
        /\ UNCHANGED <<hops, queue>>
     \/ /\ hops[c] < MaxHops
        /\ hops' = [hops EXCEPT ![c] = @ + 1]
        /\ Hand(c, "resolve")
        /\ UNCHANGED notified
  /\ UNCHANGED <<recordVars, wav, running, payload, stopVars, portVars>>
-----------------------------------------------------------------------------
(* Shutdown: the event loop cancels every task once.  CancelledError is    *)
(* not an Exception: no status is recorded, but the finally block runs.    *)
(* Jobs not yet started are dropped, running ones go on.                   *)

Shutdown == /\ ~stopping /\ stopping' = TRUE
            /\ UNCHANGED <<recordVars, pc, wav, poolVars, hookVars, cancelled, portVars>>

\* The queue without the job the task of c awaits, if no thread has taken it.
Withdrawn(c) ==
  LET places == {i \in 1..Len(queue) : queue[i] = <<c, pc[c]>>} IN
  IF places = {} THEN queue ELSE RemoveAt(queue, CHOOSE i \in places : TRUE)

CancelledAtFinally(c) ==
  /\ wav' = wav \ {c}
  /\ IF c \in Callbacks
       THEN /\ payload' = [payload EXCEPT ![c] = status[c]]
            /\ hops' = [hops EXCEPT ![c] = 1]
            /\ pc' = [pc EXCEPT ![c] = "resolve"]
            /\ queue' = Append(Withdrawn(c), <<c, "resolve">>)
       ELSE /\ pc' = [pc EXCEPT ![c] = "done"]
            /\ queue' = Withdrawn(c)
            /\ UNCHANGED <<payload, hops>>

\* Mutant of Cancel: a cancelled call is marked failed, whatever it was doing.
CancelMarksFailed(c) ==
  /\ stopping /\ pc[c] \notin {"idle", "done"} /\ c \notin cancelled
  /\ cancelled' = cancelled \cup {c}
  /\ pc' = [pc EXCEPT ![c] = "done"]
  /\ Transition(c, "failed")
  /\ queue' = Withdrawn(c)
  /\ UNCHANGED <<wav, payload, hops, running, notified, stopping, portVars>>

\* A task that has not begun, or is already in its finally block, just ends.
Cancel(c) ==
  /\ stopping /\ pc[c] \notin {"idle", "done"} /\ c \notin cancelled
  /\ cancelled' = cancelled \cup {c}
  /\ IF pc[c] \in {"synth", "measure", "call"}
       THEN CancelledAtFinally(c)
       ELSE /\ pc' = [pc EXCEPT ![c] = "done"]
            /\ queue' = Withdrawn(c)
            /\ UNCHANGED <<wav, payload, hops>>
  /\ UNCHANGED <<recordVars, running, notified, stopping, portVars>>
-----------------------------------------------------------------------------
Next ==
  \/ \E c \in Calls :
       \/ Submit(c) \/ Begin(c) \/ SynthOk(c) \/ SynthFails(c) \/ MeasureOk(c)
       \/ MeasureFails(c) \/ CallStarts(c) \/ CallRefused(c) \/ CallEnds(c)
       \/ Resolved(c) \/ Posted(c) \/ Cancel(c)
  \/ TakeJob
  \/ Shutdown

\* The event loop runs every task that can run, a thread takes the oldest job, and
\* every job ends (SipCall shows that make_call returns) but a synthesis: gTTS and
\* Valtec are called without a timeout, and TTSFree's stream has one per read only.
Fairness ==
  /\ WF_vars(TakeJob)
  /\ \A c \in Calls :
       /\ WF_vars(Begin(c)) /\ WF_vars(MeasureOk(c) \/ MeasureFails(c))
       /\ WF_vars(CallStarts(c) \/ CallRefused(c)) /\ WF_vars(CallEnds(c))
       /\ WF_vars(Resolved(c)) /\ WF_vars(Posted(c)) /\ WF_vars(Cancel(c))

Spec == Init /\ [][Next]_vars
FairSpec == Spec /\ Fairness
-----------------------------------------------------------------------------
TypeOK ==
  /\ status \in [Calls -> Statuses]
  /\ store \subseteq Calls
  /\ older \in [Calls -> SUBSET Calls]
  /\ pc \in [Calls -> JobKinds \cup {"idle", "queued", "post", "done"}]
  /\ wav \subseteq Calls
  /\ queue \in Seq(Calls \X JobKinds)
  /\ running \subseteq Calls \X JobKinds
  /\ payload \in [Calls -> Statuses]
  /\ hops \in [Calls -> 0..MaxHops]
  /\ notified \subseteq Calls
  /\ stopping \in BOOLEAN
  /\ cancelled \subseteq Calls
  /\ Rtp!TypeOK

\* A call that has no outcome yet is always known to GET /call/{id}: eviction
\* never drops it, however full the table is ("Never evicts records with in-flight
\* calls", _evict_old_records).
ActiveNeverEvicted ==
  \A c \in Calls : status[c] \notin Terminal \cup {"none"} => c \in store

\* Eviction goes by age: a finished record that survives was updated after every
\* record that was dropped.
EvictsOldestFirst ==
  [][\A r \in store \ store', s \in store' : status[s] \in Terminal => r \in older[s]]_vars

\* While make_call holds its port the WAV file it streams exists, and a call that
\* is over leaves no file behind (both only until the server is told to stop).
WavLifetime ==
  ~stopping =>
    /\ \A c \in Calls : lease[c] \in Rtp!Ports => c \in wav
    /\ \A c \in Calls : pc[c] \in {"resolve", "post", "done"} => c \notin wav

\* The webhook reports the status the record keeps for ever, never an earlier one.
\* It is an outcome, unless the call was cut short by the server stopping: then the
\* payload says, for good, that the call is still in progress.
WebhookReportsOutcome ==
  \A c \in Calls :
    payload[c] # "none" =>
      /\ payload[c] = status[c]
      /\ payload[c] \in Terminal \/ c \in cancelled

Lifecycle == INSTANCE CallLifecycle

\* The statuses a client sees follow the documented lifecycle, an outcome is never
\* revised, also not by shutdown, and only finished calls are forgotten.
ImplementsLifecycle == Lifecycle!Spec

\* A port is held by a thread inside make_call only: every end of the job returns
\* it, an exception and a call whose task was cancelled meanwhile included.
PortReturnedWithJob ==
  \A c \in Calls : lease[c] \in Rtp!Ports => <<c, "call">> \in running

Synthesizing == {c \in Calls : <<c, "synth">> \in running}

\* Every accepted call gets its outcome, even when there are fewer threads than
\* calls, webhooks compete with calls for them and other calls' synthesis hangs,
\* unless the server stops first: it takes a synthesis that hangs in every thread,
\* or its own, to keep a call from its outcome.
EveryCallConcludes ==
  []<>(Cardinality(Synthesizing) < Workers) =>
    \A c \in Calls :
      []<>(c \notin Synthesizing) =>
        (pc[c] = "queued" ~> (status[c] \in Terminal \/ stopping))
=============================================================================
