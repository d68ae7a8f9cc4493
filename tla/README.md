# voip-calling-service: a TLA+ verification project

The service (`src/services/api/app`, Python) turns a text into Vietnamese speech and
announces it by phone: `POST /call` is accepted at once, a background task synthesises a
WAV file (TTS engines with fallbacks, and a file cache), then a thread places a SIP call
over its own connection, streams the file with ffmpeg, and the outcome is kept in memory
and posted to a webhook. All paths below are relative to `src/services/api/app`.

## The system and its hard parts

| component | state | operations | interacts with |
|---|---|---|---|
| `_RtpPortAllocator` (sip_controller.py) | free list, in-use set | acquire, release | one lease per `SipController.make_call`, from many threads |
| `SipConnection._invite` (sip_controller.py) | INVITE branch and CSeq, ffmpeg process, socket | INVITE, 407 retry, ringing loop, playback, BYE, CANCEL | proxy, callee and network; the port above; the WAV file |
| registration (`SipController`, `SipConnection._register`) | connection, `_registered`, expiry, stop event | connect, refresh thread, disconnect, is_registered | main thread, refresh thread, proxy; `/health` |
| `CallManager` (call_manager.py) | call records, tasks, WAV files | submit, `_execute`, eviction, webhook | event loop, default thread pool, TTS, SIP |
| `TTSService` cache (tts_service.py) | cache directory, configuration | synthesize, cleanup_cache, update_config | worker threads, event loop, file system |
| TTS backends (tts_service.py) | Zalo cookie, TTSFree session | five `_synthesize_*`, `update_config` | web services, from several threads |
| `RateLimiter` (routes.py) | event times per key | allow | request handlers |
| routes, authentication, lifespan, models, configuration | none of their own | | |

What is hard here, and what makes each part correct:

- *Ports*: threads acquire and release at the limit of the range. No port is shared, lost or
  refused while free, and a port is not reused before those that were free when it was released.
- *The call*: answers cross the CANCEL, several messages share one TCP read, UDP loses and
  reorders them, the callee hangs up at any moment, the connection dies. The result must
  say what the callee did, nobody may be left ringing or in conversation, errors must
  be ACKed, no media may outlive the call, and the call must return.
- *Registration*: answers come after their deadline and are taken for the next attempt's;
  shutdown races the refresh. `/health` must not report a registration that is gone, the
  binding must not lapse while the proxy is well, and the thread must end.
- *Calls in the manager*: calls and webhooks compete for threads, old records are evicted,
  the server stops in the middle. Active calls stay known, outcomes are final, the
  WAV file lives exactly as long as it is needed, and every call concludes.
- *TTS sessions*: the cookie and the session, process id and CSRF token of a web page are
  attributes of one object that worker threads read, replace and clear without a lock. Stale
  ones must cost one retry and not the backend, a call nobody disturbs must be served, and the
  audio must say the call's own text.
- *Rate limiter*: requests that were refused count too, buckets are trimmed and clients purged.
  Forgetting must never change an answer, and no window may admit more than the quota.
- *Cache*: every file system call interleaves with those of other threads, with cleanup and
  with configuration changes. Nothing incomplete is served and no voice is stored under the
  key of another.

## Modules

Models, with the abstract specification each one is shown to implement:

- `PortPool` <- `RtpPorts`: the allocator. `free`, `inUse` are the Python attributes, `lease`
  is the local `port` of each `make_call`. `Acquire`, `AcquireFails`, `Release` are the bodies
  of `acquire` and `release`, atomic because both run under the lock. `RtpPortReuse` adds a
  history variable, which ports each free port has to wait for, and is what the run checks.
- `CallDialog` <- `SipCall`: one `_invite`. `pc` is the place in the function, `pending` the
  buffer handed to the ringing loop, `up` and `down` the two channels; `Far...` actions are
  proxy and callee. Over TCP a read returns any non-empty prefix of what is on its way as one
  buffer, because the code searches whole buffers with regular expressions; over UDP a read
  returns one datagram, in any order, and datagrams get lost. Deadlines are events that may
  happen at any time in the state that waits for them. A call is over as "cancelled" when it gave
  its INVITE up with a CANCEL and as "done" in every other way.
- `CallLifecycle` <- `CallManager` -> `RtpPorts`: one task per call. The code between two
  `await`s is one action; jobs handed to the thread pool queue, run and end. `make_call` takes
  and returns its port by the actions of `RtpPorts`, so what is proved about the
  allocator holds of the composition. `older` orders the records by `updated_at`. What happens
  inside a job is an outcome here: `SipCall` models it for calls, `TtsCache` for synthesis.
- `SipRegistration`: start-up, refresh thread, shutdown, the two steps of `_register`, the
  proxy. A read takes all that has arrived over TCP; over TLS `recv` returns one record, which is
  taken to be one response, and the others stay in the socket for the reads and attempts to come.
  Time is in ticks of 5 s, the granularity of the poll and of the response timeout;
  a thread that can go on does so before the next tick, which is what makes the 30 s margin
  mean something.
- `TtsCache`, with `MCTtsCache` for TLC: `synthesize` with one action per file system call,
  any number of threads in `cleanup_cache`, with the look and the unlink apart, `update_config`.
  A call returns a file, finds the cache file gone ("missing", FileNotFoundError), or fails:
  all backends did, or another OSError came outside the one `try` (`DiskError`).
- `TtsSessions`: `_synthesize_zalo` and `_synthesize_ttsfree` with one action per access to a
  shared attribute and per request; `update_config` clears them at any moment. `process` stands
  for the process id, the CSRF token and the ref code, which are read and written one after the
  other. `disturbed` and `crossed` are history: under whom another thread (or the
  configuration) wrote, and who shared a process id.
- `SlidingWindow` <- `RateLimiter`: `allow` is one action, because its callers are handlers on
  the event loop and it does not await. `SlidingWindow` keeps every request for ever.
- `RtpPorts_proofs`, `CallManager_proofs`, `SipCall_proofs`, `SipCallMessages_proofs`,
  `SipRegistration_proofs`, `TtsCache_proofs`, `TtsSessions_proofs`, `RateLimiter_proofs`: the
  theorems.

Definitions whose comment starts with "Mutant of" are deliberately broken variants of a
definition, one per checked property; no specification uses them. They
show that the property would catch such a mistake.

## Runs

| run | configuration | shows |
|---|---|---|
| `rtp_ports` | 5 callers, range 9..17 (odd bounds, 4 ports) | `NoPortLost`, `LeaseExclusive`, `ImplementsPool`, `ReusedLast` |
| `sip_call` | TCP and UDP, 2 playbacks, finals 302 407 408 486 603 besides 200 and 487, at most 2 responses in flight from repeats | `NobodyLeftOnTheLine`, `ErrorsActedOnAreAcked`, `ResultMatchesCallee`, `ImplementsDialog`, `CallReturns`, `CalleeReleased` |
| `call_manager` | 3 calls, one with a webhook, 2 threads, 1 port, table of 2 records | `ActiveNeverEvicted`, `EvictsOldestFirst`, `WavLifetime`, `WebhookReportsOutcome`, `PortReturnedWithJob`, `ImplementsLifecycle`, `EveryCallConcludes` |
| `registration` | TCP and TLS, binding of 55 s, answers within 5 s when the proxy is well, 2 requests and responses left over | `StaleReportEnds`, `NeverLapses`, `RegistrationResumes`, `RefreshThreadEnds` |
| `tts_cache` | 2 threads with the same text, 2 cleanups, 2 voices, 1 fallback | `StoresKeyVoice`, `ServedIsComplete`, `VanishesOnlyByCleanup` |
| `tts_sessions` | 2 threads, 3 cookies and sessions in all | `GivesUpOnFresh`, `CredentialsPresent`, `OwnTextUnlessCrossed` |
| `rate_limiter` | 3 clients, 2 requests in a window of 2 ticks, a store of 1, 6 requests in 4 ticks | `AtMostPerWindow`, `StoreHoldsRecentClients`, `ImplementsSlidingWindow` |

Three of these properties name what the code does not achieve, and say so in their comments:

- `NobodyLeftOnTheLine` and `ErrorsActedOnAreAcked` leave out what crosses a CANCEL: `_invite` reads
  one answer to it and looks at none (sip_controller.py:964-969), so a 200 that crossed it gets
  neither ACK nor BYE (`CalleeReleased` then rests on the callee giving up), and a 487 gets no ACK.
- `StaleReportEnds` allows over TLS half a refresh interval for each answer that can be outstanding
  between two attempts, besides the two intervals of TCP: the refreshes read the backlog one by
  one, and each 200 in it renews the report.
- `EveryCallConcludes` has two hypotheses: the call's own synthesis ends, and those of others do not
  hold every thread for ever.

Why the bounds are enough: five callers for four ports reach refusal and reuse in every
order. A call has at most two INVITEs and the far end one
dialog, so the statuses (one per class the code distinguishes; 600 is treated like 486) and
two playbacks, one before and one after the pause, cover every branch. Three calls with
two records make eviction choose, one port for two threads makes calls fail for want of
one, and a synthesis that hangs in one thread leaves the other. `MaxRecords` 2 makes target and
hard limit 1 and 2, so the second pass of eviction is exercised too. A binding of 11 ticks leaves
5 before the margin begins, and two leftovers let a 200 lie unread in the socket from one refresh
to the next, and over TLS a lag of one answer last for good; the violation of `reg_stale` needs 13
ticks. Two threads on one key and two cleanups, with any number of configuration changes between
any two steps, are the least that can disturb each other; threads and cleanups are symmetric, and
every property there is a safety property. Changing the engine, and not only its voice, is left to
`tts_poison`. Three cookies or sessions let each thread fetch one and one of them
retry. Three clients with a store of one make the purge run with one stale and one live bucket
besides the requesting client's, and six requests fill one window twice over.

Five runs are expected to find a violation. Each checks one statement of a comment or
docstring against the code:

- `sip_challenge` (`ChallengeIsRetried`): "Handle 407 Proxy Authentication Required (single
  retry)" (sip_controller.py:626), but only the first status of the first read counts: a 407 that
  comes after that read gave up, as in the trace, or behind a 100 Trying, makes the call fail.
- `reg_stale` (`ReportedIsBound`): "True only while the registration connection is alive AND
  unexpired" (sip_controller.py:1233), but `_register` takes any final response in the socket
  for the answer to the REGISTER it has just sent, without looking at the CSeq (:438): after two
  attempts that timed out, a 200 left unread renews the report of a binding that lapses.
  `StaleReportEnds`, in `registration`, bounds the damage.
- `reg_reconnect` (`ReconnectsIfDead`): "(or reconnect if dead)" (sip_controller.py:159), but
  `_sock` is never reset when the connection dies.
- `tts_poison` (`CacheCoherent`): a voice "must not be stored under the primary engine's cache
  key" (tts_service.py:194-196), but key, engine order and voice are read from the
  configuration at three different moments.
- `tts_cleanup` (`FilesInUseSurvive`): files that are hit "have their mtime refreshed by synthesize,
  so they survive cleanup" (tts_service.py:219-221), but a hit between the look at the age (:246)
  and the unlink (:249) is not noticed.

Behaviours the models have and no run is devoted to: the answer read after a CANCEL is not
looked at, so its 487 is never ACKed (sip_controller.py:916 says errors always are;
`ErrorsActedOnAreAcked` is about the errors the call acts on); a 100 Trying in the same read as
the 401 decides a registration attempt (sip_controller.py:345-347 calls that fixed; it costs one
retry); two conversions under one TTSFree process id make a call announce the other's text,
and `OwnTextUnlessCrossed` shows that nothing else does; a Zalo cookie cleared at the wrong moment
is sent as the text `None`.

## Fairness

- `SipCall`: the thread runs on, reads time out, ffmpeg exits or is killed at the deadline; the
  far end takes in what reaches it and gives up on an answer that is not ACKed (RFC 3261
  13.3.1.4). It need not answer an INVITE or a BYE, nor ever
  end a conversation itself.
- `CallManager`: the event loop runs ready tasks, a free thread takes the oldest job, and every job
  but synthesis ends; for calls that is `CallReturns` of `SipCall`. Synthesis may hang and hold its
  thread: gTTS is built without a timeout (tts_service.py:697), Valtec's `predict` waits without
  one (:844), and the event stream of TTSFree (:1070) has one per read only.
- `TtsSessions`, `RateLimiter` and `TtsCache` are checked for safety only and state no fairness.
- `SipRegistration`: both threads go on when they can, time passes, and the proxy answers what
  it was sent. `NeverLapses` and `RegistrationResumes` assume a proxy that is well only in
  their hypotheses.

## Proofs

Each theorem holds for every value of the constants that the named assumptions of its module
admit; the runs check the same formulas on their small instances.

`RtpPorts_proofs`, for every range that `AppConfig.validate` accepts and any number of
callers (`PortRangeAssumption`, `NoPortAssumption`):

- `AllocatorSafe`: `Spec => [](TypeOK /\ NoPortLost /\ LeaseExclusive)`. The conjunction is
  inductive only as a whole: that a release keeps `inUse` equal to the leased ports needs the
  leases to be exclusive, and that `acquire` hands out a port nobody has needs the free list
  to be disjoint from `inUse` and without duplicates. One lemma per action, and `PopUnique`
  about lists.
- `AllocatorImplementsPool`: `Spec => ImplementsPool`, from the same invariant.
- `ReleasedIsReusedLast`: `ReuseSpec => ReusedLast`. The invariant says that the ports a free port
  waits for stand before it in the list: appending keeps that because the port released is not
  on the list, and popping the head takes the only port that waits for none.

`CallManager_proofs`, for any set of calls, number of threads, table size and port range:

- `RecordsSafe`: `Spec => [](ActiveNeverEvicted /\ WebhookReportsOutcome)`. Neither is inductive:
  the last transition of a task must be known to start from an active status, or an outcome
  could be revised after its payload was built. `Phases` says so: the place a task has reached
  determines the status of its record, and only a task in its `finally` block has a payload, which
  is an outcome unless the task was cancelled.
  `IInv` is the conjunction of the four.
- `ManagerImplementsLifecycle`: `Spec => ImplementsLifecycle`, from the same `IInv`; the lemma of
  each group of actions proves both facts at once.
- `OldestEvicted`: `Spec => EvictsOldestFirst`. `older` must be known to be a strict total order of
  the records that exist (`OrderOK`), or the oldest of a set would not be unique.
- `PortsSafe`: no port is lost or shared in the composition. The manager's steps are steps of the
  allocator or leave it alone (`RtpAssumption` gives the range), so this follows from
  `AllocatorSafe` without an invariant of the manager.

- `PortsReturned`: `Spec => []PortReturnedWithJob`, and `FilesLiveAsNeeded`: `Spec => []WavLifetime`.
  The invariant (`Jobs`) says that every job is awaited by the task it belongs to and is either in
  the queue or with one thread, until a cancelled task abandons it; `Files` then ties the file of a
  call to the place its task has reached, which only holds until the server stops.
- `TypeCorrect`: `Spec => []TypeOK`. The queue and the threads hold jobs of the kinds a task can
  await, also after a cancellation withdrew some (`TypesInv`); the variables of the allocator get
  their types from `AllocatorSafe` through the refinement.

`SipCall_proofs`, for any set of transports, playbacks, rejections and channel bound:

- `CallImplementsDialog`: `Spec => ImplementsDialog`. The invariant (`Places`, `Concluded`,
  `Streaming`, `Heard`) ties media, result and the number of playbacks to the place in `_invite`;
  it mentions no message, so the theorem holds whatever the far end sends.

`SipCallMessages_proofs`, for the same constants:

- `ResultIsTrue`: `Spec => []ResultMatchesCallee`. The result is drawn from messages that were
  written earlier and may be read late, twice or out of order, so the invariant is about what
  is on its way: every final response in `down` or `pending` to the INVITE the far end has
  last seen is the decision it took (`Honest`), at most one INVITE is on its way and it is the
  newest (`SentOK`), and the decision is never revised once it was acted on (`ActedOn`). The lemmas
  on channels say that reading, losing and appending messages keep these facts.
- `NothingIsOwed`: `Spec => [](ErrorsActedOnAreAcked /\ NobodyLeftOnTheLine)`, on top of the same
  invariant, with the exceptions the two properties name for a call that ended in its CANCEL and
  for no other: a `no_answer` for a 408 or 487 is ACKed. Both speak of calls over TCP that are over, so the invariant (`TInv`) says what is on
  its way before: behind every INVITE that may still ring a CANCEL with its CSeq and branch
  (`CancelOwed`), for an answered call a BYE of either side (`ByeOwed`), for each error acted on its
  ACK (`ErrorsOwed`). The order of TCP is what makes them hold: a challenge is the last thing said
  about the first INVITE, so that nothing about it is read after the retry (`HeardFresh`).

- `TypeCorrect`: `Spec => []TypeOK`. Types of messages and places, and a count: a call is told to play
  its announcement `Repeat` times and never plays it more often (`Playbacks`).

`SipRegistration_proofs`, for any expiry, delay of the proxy's answers and lag:

- `ReportsEnd`: `Spec => []StaleReportEnds`. `registered` with a young `age` says nothing about the
  proxy unless the age of the 200 that set them is known. Over TCP the invariant bounds that of every
  200 still unread (`Fresh`): while an attempt waits it was granted at most one interval ago, at
  its deadline in that very instant; between attempts it is no older than `age`, or came after
  the last attempt. `ReportAge` carries that over to the report, and `Places` gives the reason why
  nobody else reads the socket: the threads hold the connection one at a time. Over TLS the requests
  and answers on their way form one line, read from the front (`Good(i)`: the i-th grants). Two
  grants never stand next to each other (`Lined`), so every other read at most renews the report,
  and `Credited` gives each place in the line the time that the reads before it can take. The proxy
  may be in any condition, lose or delay anything; at most `MaxPipe` answers are outstanding
  when time passes between two attempts.
- `BindingKept`: `Spec => NeverLapses`, over TCP and TLS, from two hypotheses: the binding lasts two
  ticks longer than the margin (`Margin + 1 < Expires`), and a healthy proxy answers within one tick
  (`MaxDelay <= 1`), which is the time the thread waits for a response. The second cannot be left
  out: with `MaxDelay` 2 TLC finds two attempts that time out and leave a 200 too many, a refresh
  that is content with it, and a next one whose answer is late again while the binding lapses. The
  invariant (`Timely`) lists the words the answers on their way can form, T for one that grants
  and F for one that does not, between two attempts (`Between`) and during the two steps of one
  (`FirstStep`, `SecondStep`), with the time since the last grant that goes with each: at most three
  are on their way, and a lag of one over TLS is among them. TLC checked that the formula is
  inductive for small expiries before it was proved. The property is temporal; no fairness is
  needed, because a thread that can go on goes on before the next tick.
- `TypeCorrect`: `Spec => []TypeOK`; in particular no attempt sends a third REGISTER.

`TtsCache_proofs`, for any threads, cleanups, engines and configurations:

- `CacheSound`: `Spec => [](TypeOK /\ StoresKeyVoice /\ ServedIsComplete)`. The strengthening follows a
  thread through its steps: what it writes is complete whoever reads it, and no cache file is
  ever a part of some audio (`StoresComplete`); its key is the configuration while nobody replaced
  that (`KeyIsConfig`); and the file it has seen is still there and as large while nobody
  unlinked it (`FileStays`).
- `HitsSurvive`: `Spec => []VanishesOnlyByCleanup`, from `FileStays`.

`TtsSessions_proofs`, for any number of threads:

- `UndisturbedCallsAreServed`: `Spec => [](TypeOK /\ GivesUpOnFresh /\ CredentialsPresent)`. What a
  call relies on at each place (`Relies`: which attribute is set, whether the credentials it
  uses are those it fetched) holds of every call that is not disturbed.
- `OwnTextSpoken`: `Spec => []OwnTextUnlessCrossed`, from `OwnJob`: the job of a call that waits is
  its own until another submits under the same process id.

`RateLimiter_proofs`, for any clients, quota, window and store limit:

- `LimiterImplementsSlidingWindow`: `Spec => ImplementsSlidingWindow`. A bucket is dropped for the
  age of its last request alone, which is sound only because the log is in the order of the
  clock (`LogOK`); `BucketsOK` says that nothing that still counts was forgotten.
- `QuotaHolds`: `Spec => []AtMostPerWindow`.
- `StoreIsRecent`: `Spec => []StoreHoldsRecentClients`. A store larger than `MaxKeys + 1` after a
  request was larger than `MaxKeys` before it and has just been purged. A bucket that the purge
  spares has a last request (`LastOf`, from the library's well-founded order on finite sets),
  which is recent; that the store is finite at all follows from `BucketsOK`.
- `TypeCorrect`: `Spec => []TypeOK`; a bucket holds only requests of its own key.

Every invariant and action property of the runs that pass is stated by a theorem. Model-checked
only are the properties that rest on fairness: `CallReturns`, `CalleeReleased`,
`EveryCallConcludes`, `RegistrationResumes` and `RefreshThreadEnds`. Liveness under fairness, with the
`ENABLED` it is defined by, is outside what TLAPS can prove, and so is induction over recursively
defined data; no module declares a RECURSIVE operator. The theorems are about the models: that
those follow the code is a matter of reading the definitions against the lines they stand for.

## Abstractions, and what is not modelled

- A call's own connection is taken as registered (`conn.connect()` registers first, and a failure
  there ends the call like any exception). Proxies that fork an INVITE, early
  dialogs, SDP, codecs, SRTP and digest values are not distinguished. A TCP read ends at a message
  boundary: a second message cut in the middle is not modelled.
- `SipRegistration` covers TCP and TLS with an `Expires` header in the 200; over UDP a restart of
  the proxy cannot be seen by the service. The proxy accepts its own nonces while it is well. Over
  TLS a record holds one response, as a proxy that writes each response by itself sends them;
  one that puts several into a record lies between the two transports modelled.
- The 5 s poll and the 5 s wait for a response are both one tick; times inside a tick are not
  ordered by a clock but interleave.
- In `TtsCache` a backend is its outcome (audio in the voice of the configuration it reads), and
  `tts_cache_enabled` is true. A temporary sibling file left by a crash is not modelled. A file
  expires only while no call and no cleanup is under way (the age limit is in days).
- In `TtsSessions` the web services may refuse any request; a process id names one job, that of
  the last text submitted under it (that is how `_ttsfree_convert` polls for it). A service that
  streams progress events for ever, and the retries of one HLS segment, are not modelled.
- The cache key leaves out `ttsfree_voice_service`; the configurations of `TtsCache` are those the
  key tells apart.
- `RateLimiter` models the decision of `allow`. What the handler does with a refusal is outside:
  the 429 of `POST /call` formats a name that is not defined (routes.py:144) and ends as a 500.
  The docstring at routes.py:46 calls the key store bounded; within one window it is not, which
  is why `StoreHoldsRecentClients` speaks of idle clients only.
- `MAX_CALL_RECORDS` is a small constant, with the code's 90 % and 120 % computed from it.
- Not modelled: authentication and token signing (a pure function of request and clock), request
  validation, configuration parsing, ffmpeg and audio conversion, HLS parsing, the IP address
  classification of webhooks (its outcome is a choice of `Resolved`), reads of
  records and cache statistics.

## Plan

What the next steps would be, in this order:

1. A registrar that grants 30 s or less (`Expires` no larger than the margin), where the refresh
   is continuous; `BindingKept` excludes it.
2. A theorem about what the proxy still has when `disconnect` races a refresh
   (sip_controller.py:1270): the thread may register once more, and at most once.
