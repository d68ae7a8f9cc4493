--------------------------- MODULE SipRegistration ---------------------------
(***************************************************************************)
(* The registration connection of SipController over TCP or TLS: the main  *)
(* thread's connect() at start-up and disconnect() at shutdown, the        *)
(* refresh thread, the two steps of SipConnection._register, and the proxy *)
(* that answers and keeps the binding.                                     *)
(*                                                                         *)
(* Time passes in ticks of 5 s: the poll of the refresh thread and the     *)
(* wait for a response both take one, REGISTER_REFRESH_MARGIN is six.  A   *)
(* thread that can go on does so before the next tick.                     *)
(***************************************************************************)
EXTENDS Integers, Sequences

CONSTANTS Expires,    \* ticks a binding lasts, as the Expires header says
          MaxDelay,   \* ticks within which a healthy proxy answers
          MaxPipe,    \* bound on the requests unanswered and responses unread between two attempts
          Long        \* bound on the ticks counted since the last grant

ASSUME SipRegistrationAssumption ==
  /\ Expires \in Nat \ {0} /\ MaxDelay \in Nat /\ MaxPipe \in Nat \ {0}
  /\ Long \in Nat /\ Long >= 2 * Expires

VARIABLES
  transport,   \* "tcp" or "tls", as configured
  main,        \* the main thread: start, connecting, serving, stopping, stopped
  thread,      \* the refresh thread: off, wait (for its poll), due, refreshing
  step,        \* the REGISTER _register waits for an answer to: 0 (none), 1, 2
  timer,       \* ticks until the poll or the wait for a response is over
  known,       \* _reg_conn is not None
  open,        \* _sock is not None
  registered,  \* _registered
  age,         \* ticks since _registered_at
  stop,        \* _refresh_stop
  link,        \* the TCP connection: none, up, silent (carries nothing), broken
  healthy,     \* the proxy answers in time, without 100 Trying, and grants valid requests
  up, down,    \* requests to the proxy, responses to the socket
  granted      \* ticks since the proxy last granted the binding, at most Long

connVars  == <<known, open, registered, age>>
netVars   == <<link, up, down>>
proxyVars == <<transport, healthy, granted>>
vars == <<main, thread, step, timer, connVars, stop, netVars, proxyVars>>

Margin == 6
Poll == 1
ReadTimeout == 1

Init ==
  /\ transport \in {"tcp", "tls"}
  /\ main = "start" /\ thread = "off" /\ step = 0 /\ timer = 0
  /\ known = FALSE /\ open = FALSE /\ registered = FALSE /\ age = 0
  /\ stop = FALSE /\ link = "none" /\ healthy = TRUE /\ up = << >> /\ down = << >> /\ granted = Long
-----------------------------------------------------------------------------
(* SipConnection.  The connection's lock is held from connect() or         *)
(* refresh() to the end of _register, that is while step # 0.              *)

\* auth: with the digest response to a challenge, whichever REGISTER it answered.
Request(auth) == [auth |-> auth, wait |-> 0, tried |-> FALSE]

Send(request) == up' = IF link = "up" THEN Append(up, request) ELSE up

\* _connect over a new socket, and the first REGISTER.
Dial ==
  /\ open' = TRUE /\ link' = "up"
  /\ up' = <<Request(FALSE)>> /\ down' = << >>
  /\ step' = 1 /\ timer' = ReadTimeout

\* _connect raised: the socket object stays behind, unconnected.
DialFails ==
  /\ open' = TRUE /\ link' = "broken"
  /\ up' = << >> /\ down' = << >>

\* The attempt raised, in connect() before the refresh thread was started or in
\* refresh(), where the exception is logged.
Raised ==
  /\ IF main = "connecting"
       THEN main' = "serving" /\ UNCHANGED <<thread, timer>>
       ELSE thread' = "wait" /\ timer' = Poll /\ UNCHANGED main
  /\ step' = 0

Returned ==
  /\ IF main = "connecting" THEN main' = "serving" ELSE UNCHANGED main
  /\ thread' = "wait" /\ timer' = Poll /\ step' = 0

\* Mutant of MarkRegistered: the time of the last success is kept.
MarkRegisteredOnce == registered' = TRUE /\ age' = IF registered THEN age ELSE 0

MarkRegistered == registered' = TRUE /\ age' = 0

\* _recv_final returns when the last status of a read is final; _register then looks
\* at the first one.
Final(status) == status >= 200

\* Mutant of Challenged: every 401 is answered.
ChallengedAgain(status) == status = 401

\* Only the first REGISTER of an attempt is repeated with credentials.
Challenged(status) == status = 401 /\ step = 1

\* One read of _recv_until takes what has arrived over TCP, and one record, that is one
\* response, over TLS; the others stay in the socket.
Received == IF transport = "tls" THEN 1 ELSE Len(down)

Read == down # << >> /\ down' = SubSeq(down, Received + 1, Len(down))

ReadAnswer ==
  /\ step # 0
  /\ Read /\ Final(down[Received])
  /\ LET status == Head(down) IN
       \/ /\ status = 200
          /\ MarkRegistered /\ Returned
          /\ UNCHANGED up
       \/ /\ Challenged(status) /\ link # "broken"
          /\ Send(Request(TRUE))
          /\ step' = step + 1 /\ timer' = ReadTimeout
          /\ UNCHANGED <<main, thread, registered, age>>
       \/ /\ status # 200
          /\ ~Challenged(status) \/ link = "broken"
          /\ Raised
          /\ UNCHANGED <<registered, age, up>>
  /\ UNCHANGED <<known, open, stop, link, proxyVars>>

\* The last status read is 100 Trying: _recv_final reads on.
ReadProvisional ==
  /\ step # 0
  /\ Read /\ ~Final(down[Received])
  /\ UNCHANGED <<main, thread, step, timer, connVars, stop, link, up, proxyVars>>

\* No final response in time.
ReadTimesOut ==
  /\ step # 0 /\ timer = 0
  /\ Raised
  /\ UNCHANGED <<connVars, stop, netVars, proxyVars>>

ReadRaises ==
  /\ step # 0 /\ link = "broken" /\ down = << >>
  /\ Raised
  /\ UNCHANGED <<connVars, stop, netVars, proxyVars>>
-----------------------------------------------------------------------------
(* SipController.connect and disconnect, each called once by the lifespan. *)

Connect ==
  /\ main = "start"
  /\ known' = TRUE
  /\ \/ Dial /\ main' = "connecting"
     \/ DialFails /\ main' = "serving" /\ UNCHANGED <<step, timer>>
  /\ UNCHANGED <<thread, registered, age, stop, proxyVars>>

\* disconnect() first sets the stop event ...
StopRefresh ==
  /\ main = "serving"
  /\ main' = "stopping" /\ stop' = TRUE
  /\ UNCHANGED <<thread, step, timer, connVars, netVars, proxyVars>>

\* ... and closes the connection as soon as its lock is free.
Disconnect ==
  /\ main = "stopping" /\ step = 0
  /\ main' = "stopped"
  /\ known' = FALSE /\ open' = FALSE /\ registered' = FALSE
  /\ link' = "none" /\ up' = << >> /\ down' = << >>
  /\ UNCHANGED <<thread, step, timer, age, stop, proxyVars>>
-----------------------------------------------------------------------------
(* The refresh thread.                                                     *)

\* Mutant of Unexpired: the margin is left out.
UnexpiredNoMargin == age < Expires

Unexpired == age < Expires - Margin

\* SipController.is_registered
IsRegistered == known /\ registered /\ Unexpired

\* Mutant of PollRegistration: the stop event is not looked at.
PollRegistrationOnly ==
  /\ thread = "wait" /\ timer = 0
  /\ IF registered /\ ~Unexpired
       THEN thread' = "due" /\ UNCHANGED timer
       ELSE thread' = "wait" /\ timer' = Poll
  /\ UNCHANGED <<main, step, connVars, stop, netVars, proxyVars>>

\* One turn of _refresh_loop up to the call of refresh(), made without a lock.
PollRegistration ==
  /\ thread = "wait" /\ (timer = 0 \/ stop)
  /\ IF stop \/ ~known
       THEN thread' = "off" /\ timer' = 0
       ELSE IF registered /\ ~Unexpired
              THEN thread' = "due" /\ UNCHANGED timer
              ELSE thread' = "wait" /\ timer' = Poll
  /\ UNCHANGED <<main, step, connVars, stop, netVars, proxyVars>>

\* refresh(): on the same socket, unless disconnect() has closed it meanwhile.
Refresh ==
  /\ thread = "due" /\ step = 0
  /\ \/ /\ open /\ link # "broken"
        /\ Send(Request(FALSE))
        /\ thread' = "refreshing" /\ step' = 1 /\ timer' = ReadTimeout
        /\ UNCHANGED <<open, link, down>>
     \/ /\ open /\ link = "broken"
        /\ thread' = "wait" /\ timer' = Poll
        /\ UNCHANGED <<open, step, netVars>>
     \/ ~open /\ Dial /\ thread' = "refreshing"
     \/ ~open /\ DialFails /\ thread' = "wait" /\ timer' = Poll /\ UNCHANGED step
  /\ UNCHANGED <<main, known, registered, age, stop, proxyVars>>
-----------------------------------------------------------------------------
(* The proxy and the network (not part of the repository).                 *)

Deliver(status) == down' = Append(down, status)

\* A proxy that is slow to answer sends 100 Trying first.
ProxyTries ==
  /\ ~healthy /\ up # << >> /\ ~Head(up).tried /\ Len(up) + Len(down) < MaxPipe
  /\ up' = [up EXCEPT ![1].tried = TRUE]
  /\ Deliver(100)
  /\ UNCHANGED <<main, thread, step, timer, connVars, stop, link, proxyVars>>

\* The first REGISTER is challenged, one with an answer to any of the connection's
\* challenges is granted.
ProxyAnswers ==
  /\ up # << >>
  /\ up' = Tail(up)
  /\ IF Head(up).auth THEN Deliver(200) /\ granted' = 0
                       ELSE Deliver(401) /\ UNCHANGED granted
  /\ UNCHANGED <<main, thread, step, timer, connVars, stop, link, transport, healthy>>

\* A proxy in trouble refuses, or does not accept its own nonce.
ProxyRefuses ==
  /\ ~healthy /\ up # << >>
  /\ up' = Tail(up)
  /\ Deliver(503) \/ Deliver(401)
  /\ UNCHANGED <<main, thread, step, timer, connVars, stop, link, proxyVars>>

ProxyTrouble == /\ healthy' = ~healthy
                /\ UNCHANGED <<main, thread, step, timer, connVars, stop, netVars, transport, granted>>

\* The connection stops carrying messages; sends and reads fail from then on, or
\* only later, what has arrived can still be read.
LinkLost == /\ \/ link = "up" /\ link' \in {"silent", "broken"}
               \/ link = "silent" /\ link' = "broken"
            /\ up' = << >>
            /\ UNCHANGED <<main, thread, step, timer, connVars, stop, down, proxyVars>>
-----------------------------------------------------------------------------
(* Time.                                                                   *)

\* No thread can go on without time passing, and no answer is overdue; the proxy lags at
\* most MaxPipe requests behind.
Idle ==
  /\ main \notin {"start", "stopping"} \/ (main = "stopping" /\ step # 0)
  /\ thread # "due"
  /\ thread = "wait" => timer > 0 /\ ~stop
  /\ step # 0 => timer > 0 /\ down = << >>
  /\ Len(up) <= MaxPipe
  /\ healthy => \A i \in 1..Len(up) : up[i].wait < MaxDelay

Waited(r) == [r EXCEPT !.wait = IF @ < MaxDelay THEN @ + 1 ELSE @]
Decrement(n) == IF n > 0 THEN n - 1 ELSE 0

Tick ==
  /\ Idle
  /\ timer' = Decrement(timer)
  /\ age' = IF registered /\ age < Expires THEN age + 1 ELSE age
  /\ granted' = IF granted < Long THEN granted + 1 ELSE granted
  /\ up' = [i \in 1..Len(up) |-> Waited(up[i])]
  /\ UNCHANGED <<main, thread, step, known, open, registered, stop, link, down,
                 transport, healthy>>

Next ==
  \/ Connect \/ StopRefresh \/ Disconnect
  \/ PollRegistration \/ Refresh
  \/ ReadAnswer \/ ReadProvisional \/ ReadTimesOut \/ ReadRaises
  \/ ProxyTries \/ ProxyAnswers \/ ProxyRefuses \/ ProxyTrouble \/ LinkLost
  \/ Tick

\* Both threads go on when they can, time passes, and the proxy answers.
Fairness ==
  /\ WF_vars(Connect) /\ WF_vars(Disconnect)
  /\ WF_vars(PollRegistration) /\ WF_vars(Refresh)
  /\ WF_vars(ReadAnswer \/ ReadProvisional \/ ReadTimesOut)
  /\ WF_vars(ProxyAnswers) /\ WF_vars(Tick)

Spec == Init /\ [][Next]_vars
FairSpec == Spec /\ Fairness
-----------------------------------------------------------------------------
TypeOK ==
  /\ transport \in {"tcp", "tls"}
  /\ main \in {"start", "connecting", "serving", "stopping", "stopped"}
  /\ thread \in {"off", "wait", "due", "refreshing"}
  /\ step \in 0..2 /\ timer \in 0..1
  /\ known \in BOOLEAN /\ open \in BOOLEAN /\ registered \in BOOLEAN
  /\ age \in 0..Expires
  /\ stop \in BOOLEAN /\ link \in {"none", "up", "silent", "broken"} /\ healthy \in BOOLEAN
  /\ \A i \in 1..Len(up) : up[i].auth \in BOOLEAN
  /\ \A i \in 1..Len(down) : down[i] \in {100, 200, 401, 503}
  /\ granted \in 0..Long

\* The docstring of is_registered, "True only while the registration connection is
\* alive AND unexpired": the proxy has the binding as long as it is reported, however
\* late the 200 that confirmed it was read, and however the refreshes since failed.
Bound == granted < Expires
ReportedIsBound == IsRegistered => Bound

\* However many answers came too late and were taken for those of later attempts, GET
\* /health stops reporting a registration that the proxy no longer renews.  Over TCP a 200
\* that was left unread is at most as old as the refresh before.  Over TLS the answers to
\* earlier requests are read one by one, and each that is outstanding lets the report
\* outlive the last grant by half a refresh interval more.
Interval == Expires - Margin
StaleReportEnds ==
  IsRegistered =>
    2 * granted < IF transport = "tcp" THEN 4 * Interval ELSE (MaxPipe + 2) * (Interval + 1)

\* While the proxy answers within MaxDelay and the connection lives, the binding made
\* at start-up never lapses: the poll, the margin and the retries leave time enough,
\* also when an answer comes too late and is taken for the answer to the next attempt.
NeverLapses ==
  [](healthy /\ (link = "up" \/ stop \/ main = "start")) =>
    [](thread = "off" \/ stop \/ Bound)

\* After any number of failed or half-answered refreshes GET /health reports the
\* registration again and again once the proxy answers promptly, as long as the connection
\* survives.  Over TLS the attempts may go on reading the answers to earlier ones, but such
\* a lag does not keep them from succeeding.
RegistrationResumes ==
  <>[](/\ healthy /\ \A i \in 1..Len(up) : up[i].wait = 0
       /\ link = "up" /\ thread # "off" /\ ~stop) => []<>IsRegistered

\* The refresh thread ends after disconnect(), whatever it was about to do.
RefreshThreadEnds == stop ~> thread = "off"

\* "Re-REGISTER on the existing connection (or reconnect if dead)", the docstring of
\* refresh: a dead connection is replaced, unless the server stops.
ReconnectsIfDead == thread # "off" /\ link # "up" ~> link = "up" \/ stop
=============================================================================
