-------------------------- MODULE CallManager_proofs --------------------------
(***************************************************************************)
(* Proofs about the call manager, for any number of calls, callbacks and   *)
(* threads, any record limit and any port range: eviction spares the       *)
(* active calls and takes the oldest records, the webhook reports the      *)
(* outcome, the statuses follow the documented lifecycle, ports are used   *)
(* as RtpPorts says, no port outlives the job that leased it, and the WAV  *)
(* file of a call exists as long as the call needs it.                     *)
(***************************************************************************)
EXTENDS CallManager, FiniteSetTheorems, TLAPS

RecordsOK ==
  /\ status \in [Calls -> Statuses]
  /\ store \subseteq Calls
  /\ pc \in [Calls -> JobKinds \cup {"idle", "queued", "post", "done"}]
  /\ payload \in [Calls -> Statuses]
  /\ cancelled \subseteq Calls

\* Where the task is determines the status of the record, and only a task in its
\* finally block has a payload.
Phases ==
  \A c \in Calls :
    /\ pc[c] = "idle" => status[c] = "none"
    /\ status[c] = "none" => pc[c] = "idle"
    /\ pc[c] = "queued" => status[c] = "queued"
    /\ pc[c] \in {"synth", "measure"} => status[c] = "synthesizing"
    /\ pc[c] = "call" => status[c] = "calling"
    /\ payload[c] # "none" => pc[c] \in {"resolve", "post", "done"}

\* Inductive: that the last transition of a task starts from an active status, so that an
\* outcome is never revised and the payload stays true, is known only from Phases.
IInv == RecordsOK /\ Phases /\ ActiveNeverEvicted /\ WebhookReportsOutcome
-----------------------------------------------------------------------------
(* Steps of the records.                                                   *)

LEMMA EvictedAreTerminal ==
  ASSUME NEW S \in SUBSET Calls
  PROVE  Evicted(S) \subseteq {d \in S : status[d] \in Terminal}
  BY DEF Evicted, Oldest, Evictable

LEMMA SubmitKeeps ==
  ASSUME IInv, NEW c \in Calls, Submit(c)
  PROVE  IInv' /\ Lifecycle!Accept(c)
  <1> DEFINE E == Evicted(store \cup {c})
  <1>1. status[c] = "none" /\ pc[c] = "idle"
    BY DEF IInv, Phases, Submit
  <1>2. E \subseteq {d \in store \cup {c} : status[d] \in Terminal}
    <2>1. store \cup {c} \in SUBSET Calls
      BY DEF IInv, RecordsOK
    <2> QED BY <2>1, EvictedAreTerminal
  <1>3. E \subseteq {d \in store : status[d] \in Terminal}
    BY <1>1, <1>2 DEF Terminal
  <1>4. /\ status' = [status EXCEPT ![c] = "queued"]
        /\ store' = (store \cup {c}) \ E
        /\ pc' = [pc EXCEPT ![c] = "queued"]
        /\ UNCHANGED <<payload, cancelled>>
    BY DEF Submit, hookVars, stopVars
  <1> HIDE DEF E
  <1>5. RecordsOK'
    BY <1>4 DEF IInv, RecordsOK, Statuses
  <1>6. Phases'
    BY <1>1, <1>4 DEF IInv, RecordsOK, Phases
  <1>7. ActiveNeverEvicted'
    BY <1>1, <1>3, <1>4 DEF IInv, RecordsOK, ActiveNeverEvicted, Terminal
  <1>8. WebhookReportsOutcome'
    BY <1>1, <1>4 DEF IInv, RecordsOK, Phases, WebhookReportsOutcome
  <1>9. Lifecycle!Accept(c)
    <2>1. E \in SUBSET {d \in store : status[d] \in Lifecycle!Outcomes}
      BY <1>3 DEF Terminal, Lifecycle!Outcomes
    <2> QED BY <1>1, <1>4, <2>1 DEF Lifecycle!Accept
  <1> QED BY <1>5, <1>6, <1>7, <1>8, <1>9 DEF IInv

\* A task goes on: a transition between active statuses, and what it waits for next.
LEMMA ProgressKeeps ==
  ASSUME IInv, NEW c \in Calls, NEW s, NEW kind,
         \/ pc[c] = "queued" /\ s = "synthesizing" /\ kind = "synth"
         \/ pc[c] = "measure" /\ s = "calling" /\ kind = "call",
         Transition(c, s), Hand(c, kind), UNCHANGED <<hookVars, cancelled>>
  PROVE  IInv' /\ Lifecycle!Advance(c)
  <1>1. /\ status' = [status EXCEPT ![c] = s] /\ store' = store
        /\ pc' = [pc EXCEPT ![c] = kind]
        /\ UNCHANGED <<payload, cancelled>>
    BY DEF Transition, Hand, hookVars
  <1>2. <<status[c], s>> \in {<<"queued", "synthesizing">>, <<"synthesizing", "calling">>}
    BY DEF IInv, Phases
  <1>3. RecordsOK'
    BY <1>1 DEF IInv, RecordsOK, Statuses, JobKinds
  <1>4. Phases'
    BY <1>1, <1>2 DEF IInv, RecordsOK, Phases
  <1>5. ActiveNeverEvicted'
    BY <1>1, <1>2 DEF IInv, RecordsOK, ActiveNeverEvicted, Terminal
  <1>6. WebhookReportsOutcome'
    BY <1>1 DEF IInv, RecordsOK, Phases, WebhookReportsOutcome
  <1>7. Lifecycle!Advance(c)
    <2>1. <<status[c], s>> \in Lifecycle!Moves /\ s \in {"synthesizing", "calling"}
      BY <1>2 DEF Lifecycle!Moves
    <2> QED BY <1>1, <2>1 DEF Lifecycle!Advance
  <1> QED BY <1>3, <1>4, <1>5, <1>6, <1>7 DEF IInv

\* A task concludes: the outcome is recorded, and the payload of a webhook built from it.
LEMMA ConcludeKeeps ==
  ASSUME IInv, NEW c \in Calls, NEW s \in Terminal,
         \/ pc[c] \in {"synth", "measure"} /\ s = "failed"
         \/ pc[c] = "call",
         Conclude(c, s), UNCHANGED cancelled
  PROVE  IInv' /\ Lifecycle!Advance(c)
  <1>1. status' = [status EXCEPT ![c] = s] /\ store' = store
    BY DEF Conclude, Transition
  <1>2. \/ /\ pc' = [pc EXCEPT ![c] = "resolve"]
           /\ payload' = [payload EXCEPT ![c] = s]
        \/ /\ pc' = [pc EXCEPT ![c] = "done"]
           /\ payload' = payload
    BY DEF Conclude, Finally, Hand
  <1>3. \/ status[c] = "synthesizing" /\ s = "failed"
        \/ status[c] = "calling"
    BY DEF IInv, Phases
  <1>4. RecordsOK'
    BY <1>1, <1>2 DEF IInv, RecordsOK, Statuses, JobKinds
  <1>5. Phases'
    BY <1>1, <1>2, <1>3 DEF IInv, RecordsOK, Phases, Terminal
  <1>6. ActiveNeverEvicted'
    BY <1>1 DEF IInv, RecordsOK, ActiveNeverEvicted
  <1>7. WebhookReportsOutcome'
    BY <1>1, <1>2 DEF IInv, RecordsOK, Phases, WebhookReportsOutcome
  <1>8. Lifecycle!Advance(c)
    <2>1. <<status[c], s>> \in Lifecycle!Moves /\ s \in Lifecycle!Outcomes
      BY <1>3 DEF Lifecycle!Moves, Lifecycle!Outcomes, Terminal
    <2> QED BY <1>1, <2>1 DEF Lifecycle!Advance
  <1> QED BY <1>4, <1>5, <1>6, <1>7, <1>8 DEF IInv

\* A step that leaves the records alone keeps the invariant if the task stays where its
\* status allows, and a cancelled task may build a payload of its own.
LEMMA QuietKeeps ==
  ASSUME IInv, NEW c \in Calls, UNCHANGED <<status, store>>,
         cancelled \subseteq cancelled', cancelled' \subseteq cancelled \cup {c},
         \/ UNCHANGED <<pc, payload>>
         \/ /\ pc[c] = "synth" /\ pc' = [pc EXCEPT ![c] = "measure"]
            /\ UNCHANGED payload
         \/ /\ pc[c] # "idle" /\ payload' = payload
            /\ \E l \in {"resolve", "post", "done"} : pc' = [pc EXCEPT ![c] = l]
         \/ /\ pc[c] # "idle" /\ c \in cancelled'
            /\ payload' = [payload EXCEPT ![c] = status[c]]
            /\ pc' = [pc EXCEPT ![c] = "resolve"]
  PROVE  IInv'
  <1>1. RecordsOK'
    BY DEF IInv, RecordsOK, JobKinds
  <1>2. Phases'
    BY DEF IInv, RecordsOK, Phases
  <1>3. ActiveNeverEvicted'
    BY DEF IInv, ActiveNeverEvicted
  <1>4. WebhookReportsOutcome'
    BY DEF IInv, RecordsOK, WebhookReportsOutcome
  <1> QED BY <1>1, <1>2, <1>3, <1>4 DEF IInv
-----------------------------------------------------------------------------
(* Every action is one of these steps.                                     *)

RecordStep(c) == Lifecycle!Accept(c) \/ Lifecycle!Advance(c) \/ UNCHANGED <<status, store>>

LEMMA InitEstablishes == Init => IInv /\ Lifecycle!Init
  BY DEF Init, IInv, RecordsOK, Phases, ActiveNeverEvicted, WebhookReportsOutcome,
         Statuses, Lifecycle!Init

\* The end of a synthesis or of a measurement, awaited or not.
LEMMA JobEndsKeeps ==
  ASSUME IInv, NEW c \in Calls,
         SynthOk(c) \/ SynthFails(c) \/ MeasureOk(c) \/ MeasureFails(c)
  PROVE  IInv' /\ RecordStep(c)
  <1>1. UNCHANGED cancelled
    BY DEF SynthOk, SynthFails, MeasureOk, MeasureFails, stopVars
  <1>2. ASSUME SynthOk(c) PROVE IInv' /\ RecordStep(c)
    <2>1. /\ UNCHANGED <<status, store, payload>>
          /\ \/ pc[c] = "synth" /\ pc' = [pc EXCEPT ![c] = "measure"]
             \/ pc' = pc
      BY <1>2 DEF SynthOk, Awaited, Hand, recordVars, hookVars
    <2> QED BY <1>1, <2>1, QuietKeeps DEF RecordStep
  <1>3. ASSUME SynthFails(c) PROVE IInv' /\ RecordStep(c)
    <2>1. CASE Awaited(c, "synth")
      <3>1. Conclude(c, "failed") /\ pc[c] = "synth" /\ "failed" \in Terminal
        BY <1>3, <2>1 DEF SynthFails, Awaited, Terminal
      <3> QED BY <1>1, <3>1, ConcludeKeeps DEF RecordStep
    <2>2. CASE ~Awaited(c, "synth")
      <3>1. UNCHANGED <<status, store, pc, payload>>
        BY <1>3, <2>2 DEF SynthFails, recordVars, hookVars
      <3> QED BY <1>1, <3>1, QuietKeeps DEF RecordStep
    <2> QED BY <2>1, <2>2
  <1>4. ASSUME MeasureOk(c) PROVE IInv' /\ RecordStep(c)
    <2>1. CASE Awaited(c, "measure")
      <3>1. /\ Transition(c, "calling") /\ Hand(c, "call") /\ pc[c] = "measure"
            /\ UNCHANGED hookVars
        BY <1>4, <2>1 DEF MeasureOk, Awaited
      <3> QED BY <1>1, <3>1, ProgressKeeps DEF RecordStep
    <2>2. CASE ~Awaited(c, "measure")
      <3>1. UNCHANGED <<status, store, pc, payload>>
        BY <1>4, <2>2 DEF MeasureOk, recordVars, hookVars
      <3> QED BY <1>1, <3>1, QuietKeeps DEF RecordStep
    <2> QED BY <2>1, <2>2
  <1>5. ASSUME MeasureFails(c) PROVE IInv' /\ RecordStep(c)
    <2>1. CASE Awaited(c, "measure")
      <3>1. Conclude(c, "failed") /\ pc[c] = "measure" /\ "failed" \in Terminal
        BY <1>5, <2>1 DEF MeasureFails, Awaited, Terminal
      <3> QED BY <1>1, <3>1, ConcludeKeeps DEF RecordStep
    <2>2. CASE ~Awaited(c, "measure")
      <3>1. UNCHANGED <<status, store, pc, payload>>
        BY <1>5, <2>2 DEF MeasureFails, recordVars, hookVars
      <3> QED BY <1>1, <3>1, QuietKeeps DEF RecordStep
    <2> QED BY <2>1, <2>2
  <1> QED BY <1>2, <1>3, <1>4, <1>5

\* The start, the refusal and the end of make_call.
LEMMA CallJobKeeps ==
  ASSUME IInv, NEW c \in Calls, CallStarts(c) \/ CallRefused(c) \/ CallEnds(c)
  PROVE  IInv' /\ RecordStep(c)
  <1>1. UNCHANGED cancelled
    BY DEF CallStarts, CallRefused, CallEnds, stopVars
  <1>2. ASSUME CallStarts(c) PROVE IInv' /\ RecordStep(c)
    <2>1. UNCHANGED <<status, store, pc, payload>>
      BY <1>2 DEF CallStarts, recordVars, hookVars
    <2> QED BY <1>1, <2>1, QuietKeeps DEF RecordStep
  <1>3. ASSUME CallRefused(c) \/ CallEnds(c) PROVE IInv' /\ RecordStep(c)
    <2>1. CASE Awaited(c, "call")
      <3>1. \E s \in Terminal : Conclude(c, s)
        BY <1>3, <2>1 DEF CallRefused, CallEnds, StatusOf, Terminal
      <3>2. pc[c] = "call"
        BY <2>1 DEF Awaited
      <3> QED BY <1>1, <3>1, <3>2, ConcludeKeeps DEF RecordStep
    <2>2. CASE ~Awaited(c, "call")
      <3>1. UNCHANGED <<status, store, pc, payload>>
        BY <1>3, <2>2 DEF CallRefused, CallEnds, recordVars, hookVars
      <3> QED BY <1>1, <3>1, QuietKeeps DEF RecordStep
    <2> QED BY <2>1, <2>2
  <1> QED BY <1>2, <1>3

\* The webhook, and cancellation.
LEMMA HookAndCancelKeep ==
  ASSUME IInv, NEW c \in Calls, Resolved(c) \/ Posted(c) \/ Cancel(c)
  PROVE  IInv' /\ RecordStep(c)
  <1>1. UNCHANGED <<status, store>>
    BY DEF Resolved, Posted, Cancel, recordVars
  <1>2. ASSUME Resolved(c) PROVE IInv'
    <2>1. /\ UNCHANGED <<payload, cancelled>>
          /\ \/ pc' = pc
             \/ /\ pc[c] = "resolve"
                /\ \E l \in {"post", "done"} : pc' = [pc EXCEPT ![c] = l]
      BY <1>2 DEF Resolved, Awaited, hookVars, stopVars
    <2> QED BY <1>1, <2>1, QuietKeeps
  <1>3. ASSUME Posted(c) PROVE IInv'
    <2>1. /\ UNCHANGED <<payload, cancelled>> /\ pc[c] = "post"
          /\ \E l \in {"resolve", "done"} : pc' = [pc EXCEPT ![c] = l]
      BY <1>3 DEF Posted, Hand, stopVars
    <2> QED BY <1>1, <2>1, QuietKeeps
  <1>4. ASSUME Cancel(c) PROVE IInv'
    <2>1. pc[c] # "idle" /\ cancelled' = cancelled \cup {c}
      BY <1>4 DEF Cancel
    <2>2. \/ pc' = [pc EXCEPT ![c] = "done"] /\ payload' = payload
          \/ /\ payload' = [payload EXCEPT ![c] = status[c]]
             /\ pc' = [pc EXCEPT ![c] = "resolve"]
      BY <1>4 DEF Cancel, CancelledAtFinally
    <2> QED BY <1>1, <2>1, <2>2, QuietKeeps
  <1> QED BY <1>1, <1>2, <1>3, <1>4 DEF RecordStep

LEMMA NextKeeps ==
  ASSUME IInv, [Next]_vars
  PROVE  IInv' /\ [Lifecycle!Next]_<<status, store>>
  <1>1. ASSUME NEW c \in Calls, IInv' /\ RecordStep(c)
        PROVE  IInv' /\ [Lifecycle!Next]_<<status, store>>
    BY <1>1 DEF RecordStep, Lifecycle!Next
  <1>2. ASSUME NEW c \in Calls, Submit(c) PROVE IInv' /\ RecordStep(c)
    BY <1>2, SubmitKeeps DEF RecordStep
  <1>3. ASSUME NEW c \in Calls, Begin(c) PROVE IInv' /\ RecordStep(c)
    <2>1. /\ pc[c] = "queued" /\ Transition(c, "synthesizing") /\ Hand(c, "synth")
          /\ UNCHANGED <<hookVars, cancelled>>
      BY <1>3 DEF Begin, stopVars
    <2> QED BY <2>1, ProgressKeeps DEF RecordStep
  <1>4. ASSUME UNCHANGED <<status, store, pc, payload, cancelled>>
        PROVE  IInv' /\ [Lifecycle!Next]_<<status, store>>
    BY <1>4 DEF IInv, RecordsOK, Phases, ActiveNeverEvicted, WebhookReportsOutcome
  <1>5. ASSUME TakeJob \/ Shutdown \/ UNCHANGED vars
        PROVE  UNCHANGED <<status, store, pc, payload, cancelled>>
    BY <1>5 DEF TakeJob, Shutdown, vars, recordVars, hookVars, stopVars
  <1>6. CASE TakeJob \/ Shutdown \/ UNCHANGED vars
    BY <1>4, <1>5, <1>6
  <1>7. CASE \E c \in Calls :
               \/ Submit(c) \/ Begin(c) \/ SynthOk(c) \/ SynthFails(c) \/ MeasureOk(c)
               \/ MeasureFails(c) \/ CallStarts(c) \/ CallRefused(c) \/ CallEnds(c)
               \/ Resolved(c) \/ Posted(c) \/ Cancel(c)
    <2>1. PICK c \in Calls : IInv' /\ RecordStep(c)
      BY <1>2, <1>3, <1>7, JobEndsKeeps, CallJobKeeps, HookAndCancelKeep
    <2> QED BY <1>1, <2>1
  <1> QED BY <1>6, <1>7 DEF Next

\* An active call is never evicted and a webhook reports the status the record keeps, an
\* outcome if the call was not cut short, for any number of calls and threads and any record limit.
THEOREM RecordsSafe == Spec => [](ActiveNeverEvicted /\ WebhookReportsOutcome)
  <1>1. IInv /\ [Next]_vars => IInv'
    BY NextKeeps
  <1>2. Init => IInv
    BY InitEstablishes
  <1>3. IInv => ActiveNeverEvicted /\ WebhookReportsOutcome
    BY DEF IInv
  <1> QED BY <1>1, <1>2, <1>3, PTL DEF Spec

\* The records a client sees follow CallLifecycle.
THEOREM ManagerImplementsLifecycle == Spec => ImplementsLifecycle
  <1>1. Init => IInv /\ Lifecycle!Init
    BY InitEstablishes
  <1>2. IInv /\ [Next]_vars => IInv' /\ [Lifecycle!Next]_<<status, store>>
    BY NextKeeps
  <1> QED BY <1>1, <1>2, PTL DEF Spec, ImplementsLifecycle, Lifecycle!Spec
-----------------------------------------------------------------------------
(* The order of eviction.                                                  *)

Known == {c \in Calls : status[c] # "none"}

\* older is a strict total order of the records there have been.
OrderOK ==
  /\ older \in [Calls -> SUBSET Known]
  /\ \A c \in Calls : c \notin older[c]
  /\ \A c, d \in Known : c # d => c \in older[d] \/ d \in older[c]
  /\ \A e \in Calls : \A d \in older[e] : older[d] \subseteq older[e]
  /\ \A c \in Calls \ Known : older[c] = {}

\* A record that is not among the k oldest is younger than each of them.
LEMMA YoungerThanOldest ==
  ASSUME OrderOK, NEW T \in SUBSET Known, NEW k,
         NEW r \in Oldest(T, k), NEW s \in T \ Oldest(T, k), k \in Int
  PROVE  r \in older[s]
  <1>1. r \in T /\ r # s /\ r \in Known /\ s \in Known /\ r \in Calls /\ s \in Calls
    BY DEF Oldest, Known
  <1>2. Cardinality(older[r] \cap T) < k /\ ~(Cardinality(older[s] \cap T) < k)
    BY DEF Oldest
  <1>3. SUFFICES ASSUME s \in older[r] PROVE FALSE
    BY <1>1 DEF OrderOK
  <1>4. older[s] \cap T \subseteq older[r] \cap T
    BY <1>1, <1>3 DEF OrderOK
  <1>5. IsFiniteSet(older[r] \cap T)
    <2>1. older[r] \cap T \subseteq Calls
      BY DEF Known
    <2> QED BY <2>1, CallManagerAssumption, FS_Subset
  <1>6. Cardinality(older[s] \cap T) <= Cardinality(older[r] \cap T)
    BY <1>4, <1>5, FS_Subset
  <1>7. Cardinality(older[s] \cap T) \in Nat /\ Cardinality(older[r] \cap T) \in Nat
    BY <1>4, <1>5, FS_Subset, FS_CardinalityType
  <1> QED BY <1>2, <1>6, <1>7

LEMMA EvictsOldest ==
  ASSUME OrderOK, NEW S \in SUBSET Calls, NEW r \in Evicted(S),
         NEW s \in S \ Evicted(S), status[s] \in Terminal
  PROVE  r \in older[s]
  <1> DEFINE target == (MaxRecords * 9) \div 10
             hard   == (MaxRecords * 12) \div 10
             T      == Evictable(S)
             first  == Oldest(T, Cardinality(T) - target)
             rest   == S \ first
             second == Oldest(T \ first, Cardinality(rest) - target)
  <1>1. T \subseteq Known /\ s \in T /\ first \subseteq T
    BY DEF Evictable, Oldest, Known, Terminal
  <1>2. /\ r \in first \/ (r \in second /\ second \subseteq Evicted(S))
        /\ first \subseteq Evicted(S)
    BY DEF Evicted
  <1>3. s \notin first
    BY <1>2
  <1>4. target \in Int /\ Cardinality(T) \in Int /\ Cardinality(rest) \in Int
    <2>1. T \subseteq Calls /\ rest \subseteq Calls
      BY DEF Evictable, Known
    <2>2. IsFiniteSet(T) /\ IsFiniteSet(rest)
      BY <2>1, CallManagerAssumption, FS_Subset
    <2>3. Cardinality(T) \in Nat /\ Cardinality(rest) \in Nat
      BY <2>2, FS_CardinalityType
    <2> QED BY <2>3, CallManagerAssumption
  <1> HIDE DEF target, T, rest
  <1>5. CASE r \in first
    BY <1>1, <1>3, <1>4, <1>5, YoungerThanOldest
  <1>6. CASE r \in second /\ second \subseteq Evicted(S)
    <2>1. s \in (T \ first) \ second
      BY <1>1, <1>3, <1>6
    <2> QED BY <1>1, <1>4, <1>6, <2>1, YoungerThanOldest
  <1> QED BY <1>2, <1>5, <1>6

\* Every step that touches a record stamps it; only submit_call evicts.
LEMMA RecordSteps ==
  ASSUME [Next]_vars
  PROVE  /\ \/ UNCHANGED <<status, older>>
            \/ \E c \in Calls, s \in Statuses \ {"none"} :
                 status' = [status EXCEPT ![c] = s] /\ Stamp(c)
         /\ store' = store \/ \E c \in Calls : Submit(c)
  <1> DEFINE Stamped(c) == \E s \in Statuses \ {"none"} : Transition(c, s)
  <1>1. ASSUME NEW c \in Calls, NEW s \in Statuses \ {"none"}, Conclude(c, s) PROVE Stamped(c)
    BY <1>1 DEF Conclude
  <1>2. /\ {"queued", "synthesizing", "calling", "failed"} \subseteq Statuses \ {"none"}
        /\ \A r : StatusOf(r) \in Statuses \ {"none"}
    BY DEF Statuses, Terminal, StatusOf
  <1>3. ASSUME NEW c \in Calls, Submit(c)
        PROVE  status' = [status EXCEPT ![c] = "queued"] /\ Stamp(c)
    BY <1>3 DEF Submit
  <1>4. ASSUME NEW c \in Calls, Begin(c) \/ MeasureOk(c)
        PROVE  Stamped(c) \/ UNCHANGED recordVars
    BY <1>2, <1>4 DEF Begin, MeasureOk
  <1>5. ASSUME NEW c \in Calls,
               SynthFails(c) \/ MeasureFails(c) \/ CallRefused(c) \/ CallEnds(c)
        PROVE  Stamped(c) \/ UNCHANGED recordVars
    BY <1>1, <1>2, <1>5 DEF SynthFails, MeasureFails, CallRefused, CallEnds
  <1>6. ASSUME NEW c \in Calls,
               SynthOk(c) \/ CallStarts(c) \/ Resolved(c) \/ Posted(c) \/ Cancel(c)
        PROVE  UNCHANGED recordVars
    BY <1>6 DEF SynthOk, CallStarts, Resolved, Posted, Cancel
  <1>7. ASSUME TakeJob \/ Shutdown \/ UNCHANGED vars PROVE UNCHANGED recordVars
    BY <1>7 DEF TakeJob, Shutdown, vars
  <1>8. \/ \E c \in Calls : Submit(c)
        \/ \E c \in Calls : Stamped(c)
        \/ UNCHANGED recordVars
    BY <1>4, <1>5, <1>6, <1>7 DEF Next
  <1> QED BY <1>2, <1>3, <1>8 DEF Transition, recordVars

LEMMA OrderKept ==
  ASSUME OrderOK, RecordsOK, [Next]_vars
  PROVE  OrderOK'
  <1>1. CASE UNCHANGED <<status, older>>
    BY <1>1 DEF OrderOK, Known
  <1>2. ASSUME NEW c \in Calls, NEW s \in Statuses \ {"none"},
               status' = [status EXCEPT ![c] = s], Stamp(c)
        PROVE  OrderOK'
    <2>1. Known' = Known \cup {c} /\ Known \subseteq Calls
      BY <1>2 DEF Known, RecordsOK
    <2>2. /\ older' = [d \in Calls |-> IF d = c THEN Known \ {c} ELSE older[d] \ {c}]
      BY <1>2 DEF Stamp, Known
    <2> QED BY <2>1, <2>2 DEF OrderOK
  <1> QED BY <1>1, <1>2, RecordSteps

\* Records leave the table in the order of their last update.
THEOREM OldestEvicted == Spec => EvictsOldestFirst
  <1> DEFINE Step == \A r \in store \ store', s \in store' :
                       status[s] \in Terminal => r \in older[s]
             Inv == IInv /\ OrderOK
  <1>1. Init => Inv
    <2>1. Init => OrderOK
      BY DEF Init, OrderOK, Known
    <2> QED BY <2>1, InitEstablishes
  <1>2. Inv /\ [Next]_vars => Inv'
    BY NextKeeps, OrderKept DEF IInv
  <1>3. Inv /\ [Next]_vars => [Step]_vars
    <2> SUFFICES ASSUME Inv, Next, NEW r \in store \ store', NEW s \in store',
                        status[s] \in Terminal
                 PROVE  r \in older[s]
      OBVIOUS
    <2>1. PICK c \in Calls : Submit(c)
      BY RecordSteps
    <2>2. status[c] = "none" /\ store' = (store \cup {c}) \ Evicted(store \cup {c})
      BY <2>1 DEF Submit, IInv, Phases
    <2>3. store \cup {c} \in SUBSET Calls
      BY DEF IInv, RecordsOK
    <2> QED BY <2>2, <2>3, EvictsOldest
  <1> QED BY <1>1, <1>2, <1>3, PTL DEF Spec, EvictsOldestFirst
-----------------------------------------------------------------------------
(* The ports.                                                              *)

\* Only make_call touches the ports, by the operations of the allocator: the manager's
\* actions are built from them.
LEMMA PortsByAllocator == Spec => Rtp!Spec
  <1>1. Init => Rtp!Init
    BY DEF Init
  <1>2. [Next]_vars => [Rtp!Next]_(Rtp!vars)
    <2> SUFFICES ASSUME [Next]_vars PROVE [Rtp!Next]_(Rtp!vars)
      OBVIOUS
    <2>1. ASSUME NEW c \in Calls, CallStarts(c) \/ CallRefused(c) \/ CallEnds(c)
          PROVE  Rtp!Next
      BY <2>1 DEF CallStarts, CallRefused, CallEnds, Rtp!Next
    <2>2. ASSUME NEW c \in Calls,
                 \/ Submit(c) \/ Begin(c) \/ SynthOk(c) \/ SynthFails(c) \/ MeasureOk(c)
                 \/ MeasureFails(c) \/ Resolved(c) \/ Posted(c) \/ Cancel(c)
          PROVE  UNCHANGED portVars
      BY <2>2 DEF Submit, Begin, SynthOk, SynthFails, MeasureOk, MeasureFails, Resolved,
                  Posted, Cancel
    <2>3. ASSUME TakeJob \/ Shutdown \/ UNCHANGED vars PROVE UNCHANGED portVars
      BY <2>3 DEF TakeJob, Shutdown, vars
    <2> QED BY <2>1, <2>2, <2>3 DEF Next, portVars, Rtp!vars
  <1> QED BY <1>1, <1>2, PTL DEF Spec, Rtp!Spec

\* The history variable of RtpPortReuse is not in the theorems used here.
Allocator == INSTANCE RtpPorts_proofs WITH Callers <- Calls, ahead <- << >>

\* The allocator the manager uses is the one the theorems of RtpPorts_proofs are about.
LEMMA SameAllocator ==
  /\ Allocator!PortRangeAssumption /\ Allocator!NoPortAssumption
  /\ Rtp!Init => Allocator!Init
  /\ [Rtp!Next]_(Rtp!vars) => [Allocator!Next]_(Allocator!vars)
  /\ Allocator!NoPortLost /\ Allocator!LeaseExclusive => Rtp!NoPortLost /\ Rtp!LeaseExclusive
  /\ Allocator!TypeOK => Rtp!TypeOK
  <1> USE DEF Rtp!Start, Rtp!PortCount, Rtp!InitialFree, Rtp!Ports, Rtp!FreePorts,
              Allocator!Start, Allocator!PortCount, Allocator!InitialFree,
              Allocator!Ports, Allocator!FreePorts
  <1>1. Allocator!PortRangeAssumption /\ Allocator!NoPortAssumption
    BY RtpAssumption DEF Rtp!PortRangeAssumption, Rtp!NoPortAssumption,
                         Allocator!PortRangeAssumption, Allocator!NoPortAssumption
  <1>2. Rtp!Init => Allocator!Init
    BY DEF Rtp!Init, Allocator!Init
  <1>3. [Rtp!Next]_(Rtp!vars) => [Allocator!Next]_(Allocator!vars)
    <2>1. ASSUME NEW c \in Calls
          PROVE  /\ Rtp!Acquire(c) => Allocator!Acquire(c)
                 /\ Rtp!AcquireFails(c) => Allocator!AcquireFails(c)
                 /\ Rtp!Release(c) => Allocator!Release(c)
      BY DEF Rtp!Acquire, Rtp!AcquireFails, Rtp!Release,
             Allocator!Acquire, Allocator!AcquireFails, Allocator!Release
    <2> QED BY <2>1 DEF Rtp!Next, Allocator!Next, Rtp!vars, Allocator!vars
  <1>4. Allocator!NoPortLost /\ Allocator!LeaseExclusive => Rtp!NoPortLost /\ Rtp!LeaseExclusive
    BY DEF Rtp!NoPortLost, Rtp!LeaseExclusive, Allocator!NoPortLost, Allocator!LeaseExclusive
  <1>5. Allocator!TypeOK => Rtp!TypeOK
    BY DEF Rtp!TypeOK, Allocator!TypeOK
  <1> QED BY <1>1, <1>2, <1>3, <1>4, <1>5

\* The allocator's variables keep their types inside the manager.
LEMMA PortsTyped == Spec => []Rtp!TypeOK
  <1>1. Rtp!Spec => Allocator!Spec
    BY SameAllocator, PTL DEF Rtp!Spec, Allocator!Spec
  <1>2. Allocator!Spec => [](Allocator!TypeOK /\ Allocator!NoPortLost /\ Allocator!LeaseExclusive)
    BY SameAllocator, Allocator!AllocatorSafe
  <1> QED BY <1>1, <1>2, SameAllocator, PortsByAllocator, PTL

\* Two calls never stream from the same port, and the manager loses no port.
THEOREM PortsSafe == Spec => [](Rtp!NoPortLost /\ Rtp!LeaseExclusive)
  <1>1. Rtp!Spec => Allocator!Spec
    BY SameAllocator, PTL DEF Rtp!Spec, Allocator!Spec
  <1>2. Allocator!Spec => [](Allocator!TypeOK /\ Allocator!NoPortLost /\ Allocator!LeaseExclusive)
    BY SameAllocator, Allocator!AllocatorSafe
  <1> QED BY <1>1, <1>2, SameAllocator, PortsByAllocator, PTL
-----------------------------------------------------------------------------
(* Jobs and files: a port is held by a running make_call only, and the WAV *)
(* file of a call exists as long as it is needed.                          *)

Places == JobKinds \cup {"idle", "queued", "post", "done"}

\* Until the server stops, every job is one that its task waits for, and is in one place.
Jobs ==
  /\ queue \in Seq(Calls \X JobKinds)
  /\ running \subseteq Calls \X JobKinds
  /\ \A i, k \in 1..Len(queue) : queue[i] = queue[k] => i = k
  /\ \A i \in 1..Len(queue) : queue[i] \notin running
  /\ \A c \in Calls, kind \in JobKinds :
       /\ <<c, kind>> \in running => pc[c] = kind
       /\ \A i \in 1..Len(queue) : queue[i] = <<c, kind>> => pc[c] = kind

\* Where the task is determines whether the file exists.
Files ==
  \A c \in Calls :
    /\ pc[c] \in {"measure", "call"} => c \in wav
    /\ pc[c] \in {"resolve", "post", "done"} => c \notin wav

\* WavLifetime alone is not inductive: that the task of a thread inside make_call still
\* waits for it, and so has not deleted the file, is known only from Jobs.
JobsInv ==
  /\ pc \in [Calls -> Places]
  /\ lease = [c \in Calls |-> lease[c]]
  /\ PortReturnedWithJob
  /\ ~stopping => Jobs /\ Files

\* c has no job, neither waiting nor running in the next state.
NoJob(c) ==
  \A kind \in JobKinds :
    /\ <<c, kind>> \notin running'
    /\ \A i \in 1..Len(queue) : queue[i] # <<c, kind>>

LEMMA NotAPort == NoPort \notin Rtp!Ports /\ Refused \notin Rtp!Ports
  <1>1. Rtp!Ports \subseteq Nat
    BY RtpAssumption DEF Rtp!Ports, Rtp!InitialFree, Rtp!PortCount, Rtp!Start,
                         Rtp!PortRangeAssumption
  <1> QED BY <1>1, RtpAssumption DEF Rtp!NoPortAssumption
-----------------------------------------------------------------------------
(* Jobs.                                                                   *)

\* A job that ends was awaited, and was the only one of its call.
LEMMA EndsLast ==
  ASSUME Jobs, NEW c \in Calls, NEW kind \in JobKinds, Ends(c, kind)
  PROVE  NoJob(c) /\ Awaited(c, kind) /\ running' \subseteq running
  BY DEF Jobs, NoJob, Ends, Awaited

\* A task that awaits no job has none.
LEMMA IdleHasNone ==
  ASSUME Jobs, NEW c \in Calls, pc[c] \notin JobKinds, running' = running
  PROVE  NoJob(c)
  BY DEF Jobs, NoJob

\* A task without a job goes on, with or without a new one.
LEMMA TaskMoves ==
  ASSUME Jobs, NEW c \in Calls, NoJob(c), running' \subseteq running,
         pc \in [Calls -> Places], NEW l \in Places, pc' = [pc EXCEPT ![c] = l],
         \/ queue' = queue
         \/ l \in JobKinds /\ queue' = Append(queue, <<c, l>>)
  PROVE  Jobs'
  <1>1. CASE queue' = queue
    BY <1>1 DEF Jobs, NoJob
  <1>2. CASE l \in JobKinds /\ queue' = Append(queue, <<c, l>>)
    <2>1. /\ queue' \in Seq(Calls \X JobKinds) /\ Len(queue') = Len(queue) + 1
          /\ \A i \in 1..Len(queue) : queue'[i] = queue[i]
          /\ queue'[Len(queue) + 1] = <<c, l>>
      BY <1>2 DEF Jobs
    <2>2. \A i \in 1..Len(queue') : i \in 1..Len(queue) \/ i = Len(queue) + 1
      BY <2>1 DEF Jobs
    <2>3. \A i, k \in 1..Len(queue') : queue'[i] = queue'[k] => i = k
      BY <1>2, <2>1, <2>2 DEF Jobs, NoJob
    <2>4. \A i \in 1..Len(queue') : queue'[i] \notin running'
      BY <1>2, <2>1, <2>2 DEF Jobs, NoJob
    <2>5. ASSUME NEW d \in Calls, NEW kind \in JobKinds
          PROVE  /\ <<d, kind>> \in running' => pc'[d] = kind
                 /\ \A i \in 1..Len(queue') : queue'[i] = <<d, kind>> => pc'[d] = kind
      BY <1>2, <2>1, <2>2, <2>5 DEF Jobs, NoJob
    <2> QED BY <2>1, <2>3, <2>4, <2>5 DEF Jobs
  <1> QED BY <1>1, <1>2
-----------------------------------------------------------------------------
(* Steps.                                                                  *)

\* The task of c goes on to l, and its file is there, or not, as l requires.
TaskStep(c) ==
  \E l \in Places :
    /\ pc' = [pc EXCEPT ![c] = l]
    /\ queue' = queue \/ (l \in JobKinds /\ queue' = Append(queue, <<c, l>>))
    /\ wav' \in {wav, wav \cup {c}, wav \ {c}}
    /\ Files /\ ~stopping =>
         /\ l \in {"measure", "call"} => c \in wav'
         /\ l \in {"resolve", "post", "done"} => c \notin wav'

LEMMA TaskStepKeeps ==
  ASSUME JobsInv, NEW c \in Calls, TaskStep(c), ~stopping => NoJob(c), running' \subseteq running,
         UNCHANGED stopping, lease' = [d \in Calls |-> lease'[d]], PortReturnedWithJob'
  PROVE  JobsInv'
  <1>1. PICK l \in Places :
          /\ pc' = [pc EXCEPT ![c] = l]
          /\ queue' = queue \/ (l \in JobKinds /\ queue' = Append(queue, <<c, l>>))
          /\ wav' \in {wav, wav \cup {c}, wav \ {c}}
          /\ Files /\ ~stopping =>
               /\ l \in {"measure", "call"} => c \in wav'
               /\ l \in {"resolve", "post", "done"} => c \notin wav'
    BY DEF TaskStep
  <1>2. pc' \in [Calls -> Places]
    BY <1>1 DEF JobsInv
  <1>3. ~stopping' => Jobs'
    BY <1>1, TaskMoves DEF JobsInv
  <1>4. ~stopping' => Files'
    BY <1>1 DEF JobsInv, Files
  <1> QED BY <1>2, <1>3, <1>4 DEF JobsInv

\* A job ends; a task that does not wait for it, because it was cancelled, stays.
LEMMA JobStepKeeps ==
  ASSUME JobsInv, NEW c \in Calls, NEW kind \in JobKinds, Ends(c, kind),
         IF Awaited(c, kind) THEN TaskStep(c) ELSE UNCHANGED pc,
         UNCHANGED stopping, lease' = [d \in Calls |-> lease'[d]], PortReturnedWithJob'
  PROVE  JobsInv'
  <1>1. running' \subseteq running
    BY DEF Ends
  <1>2. ~stopping => NoJob(c) /\ Awaited(c, kind)
    BY EndsLast DEF JobsInv
  <1>3. CASE Awaited(c, kind)
    BY <1>1, <1>2, <1>3, TaskStepKeeps
  <1>4. CASE ~Awaited(c, kind)
    BY <1>2, <1>4 DEF JobsInv
  <1> QED BY <1>3, <1>4

\* Ports are not touched, and make_call does not end.
LEMMA PortsStay ==
  ASSUME JobsInv, lease' = lease,
         \A d \in Calls : <<d, "call">> \in running => <<d, "call">> \in running'
  PROVE  lease' = [d \in Calls |-> lease'[d]] /\ PortReturnedWithJob'
  BY DEF JobsInv, PortReturnedWithJob

\* The finally block deletes the file; the webhook, if any, begins.
LEMMA ConcludeIsTaskStep ==
  ASSUME JobsInv, NEW c \in Calls, NEW s, Conclude(c, s)
  PROVE  TaskStep(c)
  <1>1. /\ wav' = wav \ {c}
        /\ \/ pc' = [pc EXCEPT ![c] = "resolve"] /\ queue' = Append(queue, <<c, "resolve">>)
           \/ pc' = [pc EXCEPT ![c] = "done"] /\ queue' = queue
    BY DEF Conclude, Finally, Hand
  <1>2. "resolve" \in Places /\ "done" \in Places /\ "resolve" \in JobKinds
    BY DEF Places, JobKinds
  <1> QED BY <1>1, <1>2 DEF TaskStep
-----------------------------------------------------------------------------
(* The actions.                                                            *)

LEMMA JobsInitially == Init => JobsInv
  <1> SUFFICES ASSUME Init PROVE JobsInv
    OBVIOUS
  <1>1. pc = [c \in Calls |-> "idle"] /\ queue = << >> /\ running = {}
        /\ lease = [c \in Calls |-> NoPort]
    BY DEF Init, Rtp!Init
  <1>2. PortReturnedWithJob
    BY <1>1, NotAPort DEF PortReturnedWithJob
  <1>3. Jobs /\ Files
    BY <1>1 DEF Jobs, Files
  <1> QED BY <1>1, <1>2, <1>3 DEF JobsInv, Places

\* A task that awaits no job.
LEMMA TaskKeeps ==
  ASSUME JobsInv, NEW c \in Calls, Submit(c) \/ Begin(c) \/ Posted(c)
  PROVE  JobsInv'
  <1>1. running' = running /\ stopping' = stopping /\ lease' = lease /\ pc[c] \notin JobKinds
    BY DEF Submit, Begin, Posted, Hand, poolVars, stopVars, portVars, JobKinds
  <1>2. TaskStep(c)
    <2>1. {"queued", "synth", "done", "resolve"} \subseteq Places
          /\ "synth" \in JobKinds /\ "resolve" \in JobKinds
      BY DEF Places, JobKinds
    <2>2. CASE Submit(c)
      BY <2>1, <2>2 DEF Submit, poolVars, TaskStep
    <2>3. CASE Begin(c)
      BY <2>1, <2>3 DEF Begin, Hand, TaskStep
    <2>4. CASE Posted(c)
      <3>1. Files => c \notin wav
        BY <2>4 DEF Posted, Files
      <3> QED BY <2>1, <2>4, <3>1 DEF Posted, Hand, TaskStep
    <2> QED BY <2>2, <2>3, <2>4
  <1>3. ~stopping => NoJob(c)
    BY <1>1, IdleHasNone DEF JobsInv
  <1>4. lease' = [d \in Calls |-> lease'[d]] /\ PortReturnedWithJob'
    BY <1>1, PortsStay
  <1> QED BY <1>1, <1>2, <1>3, <1>4, TaskStepKeeps

\* The end of a synthesis, a measurement or a name resolution.
LEMMA ShortJobKeeps ==
  ASSUME JobsInv, NEW c \in Calls,
         SynthOk(c) \/ SynthFails(c) \/ MeasureOk(c) \/ MeasureFails(c) \/ Resolved(c)
  PROVE  JobsInv'
  <1>1. stopping' = stopping /\ lease' = lease
    BY DEF SynthOk, SynthFails, MeasureOk, MeasureFails, Resolved, stopVars, portVars
  <1>2. /\ {"measure", "call", "post", "done"} \subseteq Places
        /\ {"measure", "call"} \subseteq JobKinds
    BY DEF Places, JobKinds
  <1>3. \E kind \in {"synth", "measure", "resolve"} :
           Ends(c, kind) /\ IF Awaited(c, kind) THEN TaskStep(c) ELSE UNCHANGED pc
    <2>1. CASE SynthOk(c)
      BY <1>2, <2>1 DEF SynthOk, Hand, TaskStep
    <2>2. CASE SynthFails(c)
      BY <2>2, ConcludeIsTaskStep DEF SynthFails
    <2>3. CASE MeasureOk(c)
      <3>1. Awaited(c, "measure") /\ Files => c \in wav
        BY DEF Awaited, Files
      <3> QED BY <1>2, <2>3, <3>1 DEF MeasureOk, Hand, TaskStep
    <2>4. CASE MeasureFails(c)
      BY <2>4, ConcludeIsTaskStep DEF MeasureFails
    <2>5. CASE Resolved(c)
      <3>1. Awaited(c, "resolve") /\ Files => c \notin wav
        BY DEF Awaited, Files
      <3> QED BY <1>2, <2>5, <3>1 DEF Resolved, TaskStep
    <2> QED BY <2>1, <2>2, <2>3, <2>4, <2>5
  <1>4. PICK kind \in {"synth", "measure", "resolve"} :
           Ends(c, kind) /\ IF Awaited(c, kind) THEN TaskStep(c) ELSE UNCHANGED pc
    BY <1>3
  <1>5. lease' = [d \in Calls |-> lease'[d]] /\ PortReturnedWithJob'
    BY <1>1, <1>4, PortsStay DEF Ends
  <1> QED BY <1>1, <1>4, <1>5, JobStepKeeps DEF JobKinds

LEMMA CallStartsKeeps ==
  ASSUME JobsInv, NEW c \in Calls, CallStarts(c)
  PROVE  JobsInv'
  <1>1. /\ <<c, "call">> \in running
        /\ \E p : lease' = [lease EXCEPT ![c] = p]
        /\ UNCHANGED <<pc, wav, queue, running, stopping>>
    BY DEF CallStarts, Rtp!Acquire, poolVars, stopVars
  <1>2. lease' = [d \in Calls |-> lease'[d]] /\ PortReturnedWithJob'
    BY <1>1 DEF JobsInv, PortReturnedWithJob
  <1>3. ~stopping' => Jobs' /\ Files'
    BY <1>1 DEF JobsInv, Jobs, Files
  <1> QED BY <1>1, <1>2, <1>3 DEF JobsInv

\* The end of make_call, which gives up the port it may have held.
LEMMA CallEndsKeeps ==
  ASSUME JobsInv, NEW c \in Calls, CallRefused(c) \/ CallEnds(c)
  PROVE  JobsInv'
  <1>1. /\ Ends(c, "call") /\ stopping' = stopping
        /\ IF Awaited(c, "call") THEN TaskStep(c) ELSE UNCHANGED pc
    BY ConcludeIsTaskStep DEF CallRefused, CallEnds, stopVars
  <1>2. lease' = [lease EXCEPT ![c] = NoPort] \/ lease' = [lease EXCEPT ![c] = Refused]
    BY DEF CallRefused, CallEnds, Rtp!AcquireFails, Rtp!Release
  <1>3. lease' = [d \in Calls |-> lease'[d]] /\ lease'[c] \notin Rtp!Ports
        /\ \A d \in Calls \ {c} : lease'[d] = lease[d]
    BY <1>2, NotAPort DEF JobsInv
  <1>4. PortReturnedWithJob'
    BY <1>1, <1>3 DEF JobsInv, PortReturnedWithJob, Ends
  <1> QED BY <1>1, <1>3, <1>4, JobStepKeeps DEF JobKinds

LEMMA TakeJobKeeps ==
  ASSUME JobsInv, TakeJob
  PROVE  JobsInv'
  <1>1. /\ queue # << >> /\ queue' = Tail(queue) /\ running' = running \cup {Head(queue)}
        /\ UNCHANGED <<pc, wav, stopping, lease>>
    BY DEF TakeJob, stopVars, portVars
  <1>2. lease' = [d \in Calls |-> lease'[d]] /\ PortReturnedWithJob'
    BY <1>1, PortsStay
  <1>3. ASSUME ~stopping PROVE Jobs' /\ Files'
    <2>1. Jobs /\ Files
      BY <1>3 DEF JobsInv
    <2>2. /\ queue' \in Seq(Calls \X JobKinds) /\ Len(queue') = Len(queue) - 1
          /\ \A i \in 1..Len(queue') : queue'[i] = queue[i + 1]
          /\ Head(queue) = queue[1] /\ queue[1] \in Calls \X JobKinds
          /\ Len(queue) \in Nat \ {0}
      BY <1>1, <2>1 DEF Jobs
    <2>3. \A i \in 1..Len(queue') : i + 1 \in 1..Len(queue) /\ i + 1 # 1
      BY <2>2
    <2>4. ASSUME NEW i \in 1..Len(queue'), NEW k \in 1..Len(queue'), queue'[i] = queue'[k]
          PROVE  i = k
      <3>1. queue[i + 1] = queue[k + 1]
        BY <2>2, <2>4
      <3>2. i + 1 = k + 1
        BY <2>1, <2>3, <3>1 DEF Jobs
      <3> QED BY <2>2, <3>2
    <2>5. running' \subseteq Calls \X JobKinds
          /\ \A i \in 1..Len(queue') : queue'[i] \notin running'
      BY <1>1, <2>1, <2>2, <2>3 DEF Jobs
    <2>6. ASSUME NEW c \in Calls, NEW kind \in JobKinds
          PROVE  /\ <<c, kind>> \in running' => pc'[c] = kind
                 /\ \A i \in 1..Len(queue') : queue'[i] = <<c, kind>> => pc'[c] = kind
      <3>1. <<c, kind>> \in running' => pc[c] = kind
        <4>1. <<c, kind>> \in running \/ queue[1] = <<c, kind>> <=> <<c, kind>> \in running'
          BY <1>1, <2>2
        <4>2. 1 \in 1..Len(queue)
          BY <2>2
        <4> QED BY <2>1, <4>1, <4>2 DEF Jobs
      <3>2. ASSUME NEW i \in 1..Len(queue'), queue'[i] = <<c, kind>> PROVE pc[c] = kind
        <4>1. queue[i + 1] = <<c, kind>> /\ i + 1 \in 1..Len(queue)
          BY <2>2, <2>3, <3>2
        <4> QED BY <2>1, <4>1 DEF Jobs
      <3> QED BY <1>1, <3>1, <3>2
    <2> QED BY <1>1, <2>1, <2>2, <2>4, <2>5, <2>6 DEF Jobs, Files
  <1> QED BY <1>1, <1>2, <1>3 DEF JobsInv

\* From then on the files are not the subject of the invariant.
LEMMA ShutdownKeeps ==
  ASSUME JobsInv, Shutdown \/ \E c \in Calls : Cancel(c)
  PROVE  JobsInv'
  <1>1. running' = running /\ lease' = lease
    BY DEF Shutdown, Cancel, poolVars, portVars
  <1>2. stopping'
    <2>1. CASE Shutdown
      BY <2>1, Zenon DEF Shutdown
    <2>2. ASSUME NEW c \in Calls, Cancel(c) PROVE stopping'
      <3>1. stopping /\ stopping' = stopping
        BY <2>2 DEF Cancel
      <3> QED BY <3>1, Zenon
    <2> QED BY <2>1, <2>2, Zenon
  <1>3. pc' \in [Calls -> Places]
    <2>1. {"done", "resolve"} \subseteq Places
      BY DEF Places, JobKinds
    <2> QED BY <2>1 DEF JobsInv, Shutdown, Cancel, CancelledAtFinally
  <1>4. lease' = [d \in Calls |-> lease'[d]] /\ PortReturnedWithJob'
    BY <1>1, PortsStay
  <1> QED BY <1>2, <1>3, <1>4 DEF JobsInv

LEMMA NextKeepsJobs == JobsInv /\ [Next]_vars => JobsInv'
  <1> SUFFICES ASSUME JobsInv, [Next]_vars PROVE JobsInv'
    OBVIOUS
  <1>1. CASE UNCHANGED vars
    BY <1>1 DEF vars, poolVars, stopVars, portVars, JobsInv, PortReturnedWithJob, Jobs, Files
  <1>2. CASE TakeJob \/ Shutdown
    BY <1>2, TakeJobKeeps, ShutdownKeeps
  <1>3. ASSUME NEW c \in Calls,
               \/ Submit(c) \/ Begin(c) \/ SynthOk(c) \/ SynthFails(c) \/ MeasureOk(c)
               \/ MeasureFails(c) \/ CallStarts(c) \/ CallRefused(c) \/ CallEnds(c)
               \/ Resolved(c) \/ Posted(c) \/ Cancel(c)
        PROVE  JobsInv'
    BY <1>3, TaskKeeps, ShortJobKeeps, CallStartsKeeps, CallEndsKeeps, ShutdownKeeps
  <1> QED BY <1>1, <1>2, <1>3 DEF Next

\* No port outlives the thread that leased it, whatever the job's end and whether its
\* task is still there.
THEOREM PortsReturned == Spec => []PortReturnedWithJob
  <1>1. JobsInv => PortReturnedWithJob
    BY DEF JobsInv
  <1> QED BY <1>1, JobsInitially, NextKeepsJobs, PTL DEF Spec

\* Until the server stops, a call streams from a file that exists, and leaves none.
THEOREM FilesLiveAsNeeded == Spec => []WavLifetime
  <1>1. JobsInv => WavLifetime
    BY DEF JobsInv, PortReturnedWithJob, Jobs, Files, WavLifetime, JobKinds
  <1> QED BY <1>1, JobsInitially, NextKeepsJobs, PTL DEF Spec
-----------------------------------------------------------------------------
(* Types.                                                                  *)

\* What RecordsOK, OrderOK and the allocator's invariant leave of TypeOK.
TypesInv ==
  /\ queue \in Seq(Calls \X JobKinds)
  /\ running \subseteq Calls \X JobKinds
  /\ wav \subseteq Calls
  /\ hops \in [Calls -> 0..MaxHops]
  /\ notified \subseteq Calls
  /\ stopping \in BOOLEAN

\* Cancellation takes at most one job out of the queue.
LEMMA WithdrawnType ==
  ASSUME queue \in Seq(Calls \X JobKinds), NEW c \in Calls
  PROVE  Withdrawn(c) \in Seq(Calls \X JobKinds)
  <1> DEFINE J == Calls \X JobKinds
             places == {i \in 1..Len(queue) : queue[i] = <<c, pc[c]>>}
             i == CHOOSE i \in places : TRUE
  <1>1. CASE places = {}
    BY <1>1 DEF Withdrawn
  <1>2. CASE places # {}
    <2>1. Withdrawn(c) = SubSeq(queue, 1, i - 1) \o SubSeq(queue, i + 1, Len(queue))
      BY <1>2 DEF Withdrawn, RemoveAt
    <2>2. i \in 1..Len(queue)
      BY <1>2
    <2> HIDE DEF i
    <2>3. \A j \in 1..Len(queue) : queue[j] \in J
      OBVIOUS
    <2>4. SubSeq(queue, 1, i - 1) \in Seq(J) /\ SubSeq(queue, i + 1, Len(queue)) \in Seq(J)
      BY <2>2, <2>3
    <2> QED BY <2>1, <2>4
  <1> QED BY <1>1, <1>2

\* What a step of the task of c, or the end of one of its jobs, may do to these variables.
Effects(c) ==
  /\ \/ queue' = queue
     \/ queue' = Withdrawn(c)
     \/ \E kind \in JobKinds : \/ queue' = Append(queue, <<c, kind>>)
                              \/ queue' = Append(Withdrawn(c), <<c, kind>>)
  /\ running' \subseteq running
  /\ wav' \subseteq wav \cup {c}
  /\ \/ hops' = hops
     \/ hops' = [hops EXCEPT ![c] = 1]
     \/ hops[c] < MaxHops /\ hops' = [hops EXCEPT ![c] = @ + 1]
  /\ notified' \subseteq notified \cup {c}
  /\ UNCHANGED stopping

LEMMA EffectsTyped ==
  ASSUME TypesInv, NEW c \in Calls, Effects(c)
  PROVE  TypesInv'
  <1>1. queue' \in Seq(Calls \X JobKinds)
    <2>1. Withdrawn(c) \in Seq(Calls \X JobKinds)
      BY WithdrawnType DEF TypesInv
    <2>2. \A s \in Seq(Calls \X JobKinds), kind \in JobKinds :
            Append(s, <<c, kind>>) \in Seq(Calls \X JobKinds)
      OBVIOUS
    <2>3. queue \in Seq(Calls \X JobKinds)
      BY DEF TypesInv
    <2> QED BY <2>1, <2>2, <2>3, Zenon DEF Effects
  <1>2. running' \subseteq Calls \X JobKinds /\ wav' \subseteq Calls /\ notified' \subseteq Calls
    BY DEF TypesInv, Effects
  <1>3. hops' \in [Calls -> 0..MaxHops]
    BY CallManagerAssumption, SMTT(30) DEF TypesInv, Effects
  <1>4. stopping' \in BOOLEAN
    BY Zenon DEF TypesInv, Effects
  <1> QED BY <1>1, <1>2, <1>3, <1>4 DEF TypesInv

\* An outcome deletes the file, and may start the webhook.
LEMMA ConcludeEffects ==
  ASSUME NEW c \in Calls, NEW s, Conclude(c, s), running' \subseteq running, UNCHANGED stopping
  PROVE  Effects(c)
  BY DEF Conclude, Finally, Hand, Effects, JobKinds

LEMMA ActionEffects ==
  ASSUME NEW c \in Calls,
         \/ Submit(c) \/ Begin(c) \/ SynthOk(c) \/ SynthFails(c) \/ MeasureOk(c)
         \/ MeasureFails(c) \/ CallStarts(c) \/ CallRefused(c) \/ CallEnds(c)
         \/ Resolved(c) \/ Posted(c) \/ Cancel(c)
  PROVE  Effects(c)
  <1> USE DEF Hand, poolVars, hookVars, stopVars, JobKinds
  <1>1. CASE Submit(c)
    BY <1>1 DEF Submit, Effects
  <1>2. CASE Begin(c)
    BY <1>2 DEF Begin, Effects
  <1>3. CASE SynthOk(c)
    BY <1>3 DEF SynthOk, Ends, Effects
  <1>4. CASE SynthFails(c)
    <2>1. CASE Awaited(c, "synth")
      BY <1>4, <2>1, ConcludeEffects DEF SynthFails, Ends
    <2>2. CASE ~Awaited(c, "synth")
      BY <1>4, <2>2 DEF SynthFails, Ends, Effects
    <2> QED BY <2>1, <2>2
  <1>5. CASE MeasureOk(c)
    BY <1>5 DEF MeasureOk, Ends, Effects
  <1>6. CASE MeasureFails(c)
    <2>1. CASE Awaited(c, "measure")
      BY <1>6, <2>1, ConcludeEffects DEF MeasureFails, Ends
    <2>2. CASE ~Awaited(c, "measure")
      BY <1>6, <2>2 DEF MeasureFails, Ends, Effects
    <2> QED BY <2>1, <2>2
  <1>7. CASE CallStarts(c)
    BY <1>7 DEF CallStarts, Effects
  <1>8. CASE CallRefused(c) \/ CallEnds(c)
    <2>1. CASE Awaited(c, "call")
      BY <1>8, <2>1, ConcludeEffects DEF CallRefused, CallEnds, Ends
    <2>2. CASE ~Awaited(c, "call")
      BY <1>8, <2>2 DEF CallRefused, CallEnds, Ends, Effects
    <2> QED BY <2>1, <2>2
  <1>9. CASE Resolved(c)
    BY <1>9 DEF Resolved, Ends, Effects
  <1>10. CASE Posted(c)
    BY <1>10 DEF Posted, Effects
  <1>11. CASE Cancel(c)
    BY <1>11 DEF Cancel, CancelledAtFinally, Effects
  <1> QED BY <1>1, <1>2, <1>3, <1>4, <1>5, <1>6, <1>7, <1>8, <1>9, <1>10, <1>11

LEMMA NextKeepsTypes ==
  ASSUME TypesInv, [Next]_vars
  PROVE  TypesInv'
  <1>1. CASE \E c \in Calls : Effects(c)
    BY <1>1, EffectsTyped
  <1>2. CASE TakeJob
    <2>1. /\ queue # << >> /\ queue' = Tail(queue) /\ running' = running \cup {Head(queue)}
          /\ UNCHANGED <<wav, hops, notified>>
      BY <1>2 DEF TakeJob, hookVars
    <2>2. queue' \in Seq(Calls \X JobKinds) /\ Head(queue) \in Calls \X JobKinds
      BY <2>1 DEF TypesInv
    <2>3. stopping' \in BOOLEAN
      BY <1>2, Zenon DEF TakeJob, stopVars, TypesInv
    <2> QED BY <2>1, <2>2, <2>3 DEF TypesInv
  <1>3. CASE Shutdown \/ UNCHANGED vars
    <2>1. UNCHANGED <<queue, running, wav, hops, notified>>
      BY <1>3 DEF Shutdown, vars, poolVars, hookVars
    <2>2. stopping' \in BOOLEAN
      BY <1>3, Zenon DEF Shutdown, vars, stopVars, TypesInv
    <2> QED BY <2>1, <2>2 DEF TypesInv
  <1> QED BY <1>1, <1>2, <1>3, ActionEffects DEF Next

\* Every variable of the manager, the ports included, keeps its type.
THEOREM TypeCorrect == Spec => []TypeOK
  <1> DEFINE Inv == IInv /\ OrderOK /\ TypesInv
  <1>1. Init => Inv
    <2>1. Init => OrderOK
      BY DEF Init, OrderOK, Known
    <2>2. Init => TypesInv
      <3> SUFFICES ASSUME Init PROVE TypesInv
        OBVIOUS
      <3>1. stopping \in BOOLEAN
        BY Zenon DEF Init
      <3> QED BY <3>1, CallManagerAssumption DEF Init, TypesInv
    <2> QED BY <2>1, <2>2, InitEstablishes
  <1>2. Inv /\ [Next]_vars => Inv'
    BY NextKeeps, OrderKept, NextKeepsTypes DEF IInv
  <1>3. Inv /\ Rtp!TypeOK => TypeOK
    <2> SUFFICES ASSUME Inv, Rtp!TypeOK PROVE TypeOK
      OBVIOUS
    <2>1. older \in [Calls -> SUBSET Calls]
      BY DEF OrderOK, Known
    <2> QED BY <2>1, Zenon DEF IInv, RecordsOK, TypesInv, TypeOK
  <1>4. Spec => []Rtp!TypeOK
    BY PortsTyped
  <1> QED BY <1>1, <1>2, <1>3, <1>4, PTL DEF Spec
=============================================================================
