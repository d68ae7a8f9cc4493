------------------------ MODULE SipRegistration_proofs ------------------------
(***************************************************************************)
(* Proofs about the registration connection, for any expiry, any delay of  *)
(* the proxy's answers and any lag: what the two threads may be doing at   *)
(* the same time, how old a registration can be that is still reported,    *)
(* and how long the binding of a healthy proxy goes without a grant.       *)
(***************************************************************************)
EXTENDS SipRegistration, SequenceTheorems, TLAPS

USE SipRegistrationAssumption DEF SipRegistrationAssumption, Margin, Poll, ReadTimeout

Requests == [auth : BOOLEAN, wait : 0..MaxDelay, tried : BOOLEAN]
Answers == {100, 200, 401, 503}

Flags ==
  /\ known \in BOOLEAN /\ open \in BOOLEAN /\ registered \in BOOLEAN
  /\ stop \in BOOLEAN /\ healthy \in BOOLEAN

Names ==
  /\ transport \in {"tcp", "tls"}
  /\ main \in {"start", "connecting", "serving", "stopping", "stopped"}
  /\ thread \in {"off", "wait", "due", "refreshing"}
  /\ link \in {"none", "up", "silent", "broken"}

Numbers == step \in 0..2 /\ timer \in 0..1 /\ age \in 0..Expires /\ granted \in 0..Long

Channels == up \in Seq(Requests) /\ down \in Seq(Answers)

\* The connection's lock: one thread at a time is in _register, and the refresh thread
\* exists only once start-up has registered.
Places ==
  /\ main = "start" => ~known /\ ~registered /\ step = 0 /\ thread = "off"
  /\ main = "connecting" => step # 0 /\ thread = "off" /\ ~registered
  /\ step # 0 => main = "connecting" \/ thread = "refreshing"
  /\ thread = "refreshing" => step # 0
  /\ known => open
  /\ main = "stopped" => ~known
  /\ known /\ thread # "off" => registered

\* A 200 that nobody has read yet.
Unread == \E i \in 1..Len(down) : down[i] = 200

\* While an answer is awaited, an unread 200 is at most as old as the refresh before, and
\* was granted in this very instant once the deadline is reached.
FreshForAttempt ==
  step # 0 =>
    /\ granted <= Interval
    /\ main = "connecting" \/ timer = 0 => granted = 0

\* Between two attempts an unread 200 came after the last success, or, when the refresh
\* is overdue, since the attempt that failed last.
FreshForNext ==
  thread \in {"wait", "due"} /\ link # "broken" =>
    /\ granted <= Interval
    /\ age < Interval => granted <= age
    /\ thread = "wait" /\ timer = 1 /\ age >= Interval => granted = 0

Fresh == known /\ Unread => FreshForAttempt /\ FreshForNext

\* The binding behind a report is at most one refresh interval older than the report says.
ReportAge == known /\ registered /\ age < Interval => granted <= Interval + age

\* StaleReportEnds is not inductive: which 200s may still be read, and how old they are by
\* then, is known only from Fresh, and that nobody else reads them from Places.
IInv == /\ Flags /\ Names /\ Numbers /\ Channels /\ Places
        /\ 0 < Interval /\ transport = "tcp" => Fresh /\ ReportAge
-----------------------------------------------------------------------------
(* Every action keeps the types.                                           *)

LEMMA TypesInit == Init => Names /\ Numbers /\ Channels
  <1> SUFFICES ASSUME Init PROVE Names /\ Numbers /\ Channels
    OBVIOUS
  <1>1. Names
    BY DEF Init, Names
  <1>2. Numbers
    BY DEF Init, Numbers
  <1>3. Channels
    BY DEF Init, Channels
  <1> QED BY <1>1, <1>2, <1>3

LEMMA AnswerTypes == 100 \in Answers /\ 200 \in Answers /\ 401 \in Answers /\ 503 \in Answers
  BY DEF Answers

LEMMA RequestTypes ==
  /\ Request(TRUE) \in Requests /\ Request(FALSE) \in Requests
  /\ \A r \in Requests : [r EXCEPT !.tried = TRUE] \in Requests
  /\ \A r \in Requests : Waited(r) \in Requests
  <1>1. 0 \in 0..MaxDelay
    OBVIOUS
  <1>2. Request(TRUE) \in Requests /\ Request(FALSE) \in Requests
    BY <1>1, Zenon DEF Request, Requests
  <1>3. ASSUME NEW r \in Requests PROVE [r EXCEPT !.tried = TRUE] \in Requests
    BY Zenon DEF Requests
  <1>4. ASSUME NEW r \in Requests PROVE Waited(r) \in Requests
    <2> DEFINE n == IF r.wait < MaxDelay THEN r.wait + 1 ELSE r.wait
    <2>1. r.wait \in 0..MaxDelay
      BY DEF Requests
    <2>2. n \in 0..MaxDelay
      BY <2>1
    <2>3. Waited(r) = [r EXCEPT !.wait = n]
      BY Zenon DEF Waited
    <2> HIDE DEF n
    <2>4. [r EXCEPT !.wait = n] \in Requests
      BY <2>2, Zenon DEF Requests
    <2> QED BY <2>3, <2>4
  <1> QED BY <1>2, <1>3, <1>4

LEMMA SendTypes ==
  ASSUME Channels, NEW r \in Requests, Send(r)
  PROVE  up' \in Seq(Requests)
  BY DEF Channels, Send

LEMMA DialTypes ==
  ASSUME Dial \/ DialFails
  PROVE  /\ up' \in Seq(Requests) /\ down' = << >>
         /\ link' \in {"up", "broken"}
  <1>1. up' = <<Request(FALSE)>> \/ up' = << >>
    BY DEF Dial, DialFails
  <1>2. <<Request(FALSE)>> \in Seq(Requests)
    <2> DEFINE r == Request(FALSE)
    <2>1. r \in Requests
      BY RequestTypes
    <2> HIDE DEF r
    <2>2. <<r>> \in Seq(Requests)
      BY <2>1
    <2> QED BY <2>2 DEF r
  <1>3. down' = << >> /\ link' \in {"up", "broken"}
    BY DEF Dial, DialFails
  <1>4. << >> \in Seq(Requests)
    OBVIOUS
  <1> QED BY <1>1, <1>2, <1>3, <1>4

\* The three ways an answer is taken.
Succeeds == Head(down) = 200 /\ MarkRegistered /\ Returned /\ UNCHANGED up
Repeats == /\ Head(down) # 200
           /\ Send(Request(TRUE)) /\ step = 1 /\ step' = 2 /\ timer' = 1
           /\ UNCHANGED <<main, thread, registered, age>>
Fails == Head(down) # 200 /\ Raised /\ UNCHANGED <<registered, age, up>>

LEMMA AnswerCases ==
  ASSUME ReadAnswer
  PROVE  /\ step # 0 /\ Read
         /\ UNCHANGED <<known, open, stop, link, transport, healthy, granted>>
         /\ Succeeds \/ Repeats \/ Fails
  <1>1. ASSUME Challenged(Head(down)), step' = step + 1
        PROVE  step = 1 /\ step' = 2 /\ Head(down) # 200
    BY <1>1 DEF Challenged
  <1> QED BY <1>1, Zenon DEF ReadAnswer, Succeeds, Repeats, Fails, proxyVars

\* What a read leaves in the socket.
LEMMA ReadShape ==
  ASSUME Channels, Read, transport \in {"tcp", "tls"}
  PROVE  /\ Len(down) \in Nat /\ Received \in 1..Len(down)
         /\ transport = "tls" => Received = 1
         /\ transport = "tcp" => down' = << >>
         /\ down' \in Seq(Answers) /\ Len(down') = Len(down) - Received
         /\ \A i \in 1..Len(down') : i + Received \in 1..Len(down) /\ down'[i] = down[i + Received]
  <1>1. /\ down \in Seq(Answers) /\ down # << >> /\ Len(down) \in Nat
        /\ down' = SubSeq(down, Received + 1, Len(down))
    BY DEF Read, Channels
  <1>2. Received \in 1..Len(down) /\ (transport = "tls" => Received = 1)
    BY <1>1 DEF Received
  <1>3. transport = "tcp" => Received = Len(down)
    BY DEF Received
  <1> DEFINE n == Received
  <1> HIDE DEF n
  <1>4. n \in 1..Len(down) /\ down' = SubSeq(down, n + 1, Len(down))
    BY <1>1, <1>2 DEF n
  <1>8. \A i \in n + 1..Len(down) : down[i] \in Answers
    BY <1>1, <1>4
  <1>9. /\ down' \in Seq(Answers)
        /\ Len(down') = IF n + 1 <= Len(down) THEN Len(down) - (n + 1) + 1 ELSE 0
        /\ \A i \in 1..Len(down) - (n + 1) + 1 : down'[i] = down[n + 1 + i - 1]
    <2> DEFINE a == n + 1
               b == Len(down)
    <2>1. a \in Int /\ b \in Int
      BY <1>1, <1>4
    <2>3. down' = SubSeq(down, a, b)
      BY <1>4
    <2>4. \A i \in a..b : down[i] \in Answers
      BY <1>8
    <2> HIDE DEF a, b
    <2>2. /\ SubSeq(down, a, b) \in Seq(Answers)
          /\ Len(SubSeq(down, a, b)) = IF a <= b THEN b - a + 1 ELSE 0
          /\ \A i \in 1..b - a + 1 : SubSeq(down, a, b)[i] = down[a + i - 1]
      BY <2>1, <2>4, SubSeqProperties
    <2> QED BY <2>3, <2>2 DEF a, b
  <1>5. down' \in Seq(Answers) /\ Len(down') = Len(down) - n
    BY <1>1, <1>4, <1>9
  <1>6. \A i \in 1..Len(down') : i + n \in 1..Len(down) /\ down'[i] = down[i + n]
    <2> SUFFICES ASSUME NEW i \in 1..Len(down')
                 PROVE  i + n \in 1..Len(down) /\ down'[i] = down[i + n]
      OBVIOUS
    <2>1. i \in 1..Len(down) - (n + 1) + 1 /\ n + 1 + i - 1 = i + n /\ i + n \in 1..Len(down)
      BY <1>1, <1>4, <1>5
    <2> QED BY <1>9, <2>1
  <1>7. n = Len(down) => down' = << >>
    BY <1>1, <1>4
  <1> QED BY <1>1, <1>2, <1>3, <1>5, <1>6, <1>7 DEF n

LEMMA TransportKept == [Next]_vars => transport' = transport
  BY Zenon
  DEF Next, Connect, StopRefresh, Disconnect, PollRegistration, Refresh, ReadAnswer,
      ReadProvisional, ReadTimesOut, ReadRaises, ProxyTries, ProxyAnswers, ProxyRefuses,
      ProxyTrouble, LinkLost, Tick, proxyVars, vars

LEMMA NamesKept ==
  ASSUME Names, [Next]_vars
  PROVE  Names'
  <1>1. CASE Next
    <2>1. main' \in {main, "connecting", "serving", "stopping", "stopped"}
      BY <1>1, Zenon
      DEF Next, Connect, StopRefresh, Disconnect, PollRegistration, Refresh, ReadAnswer,
          ReadProvisional, ReadTimesOut, ReadRaises, ProxyTries, ProxyAnswers, ProxyRefuses,
          ProxyTrouble, LinkLost, Tick, Raised, Returned
    <2>2. thread' \in {thread, "off", "wait", "due", "refreshing"}
      BY <1>1, Zenon
      DEF Next, Connect, StopRefresh, Disconnect, PollRegistration, Refresh, ReadAnswer,
          ReadProvisional, ReadTimesOut, ReadRaises, ProxyTries, ProxyAnswers, ProxyRefuses,
          ProxyTrouble, LinkLost, Tick, Raised, Returned
    <2>3. link' \in {link, "none", "up", "silent", "broken"}
      BY <1>1, Zenon
      DEF Next, Connect, StopRefresh, Disconnect, PollRegistration, Refresh, ReadAnswer,
          ReadProvisional, ReadTimesOut, ReadRaises, ProxyTries, ProxyAnswers, ProxyRefuses,
          ProxyTrouble, LinkLost, Tick, Dial, DialFails, netVars
    <2>4. transport' = transport
      BY TransportKept
    <2> QED BY <2>1, <2>2, <2>3, <2>4 DEF Names
  <1>2. CASE UNCHANGED vars
    BY <1>2 DEF vars, netVars, proxyVars, Names
  <1> QED BY <1>1, <1>2

\* What every step does to the channels.
LEMMA ChannelSteps ==
  ASSUME [Next]_vars, ~Tick
  PROVE  \/ up' = up /\ down' = down
         \/ \E r \in Requests : Send(r) /\ (Read \/ down' = down)
         \/ Read /\ up' = up
         \/ Dial
         \/ up' \in {up, << >>} /\ down' \in {down, << >>}
         \/ up # << >> /\ up' = Tail(up) /\ \E m \in Answers : down' = Append(down, m)
         \/ ProxyTries
  <1>1. CASE Connect \/ Refresh \/ Disconnect
    BY <1>1, RequestTypes, Zenon DEF Connect, Refresh, Disconnect, DialFails, netVars
  <1>2. CASE ReadAnswer
    BY <1>2, RequestTypes, Zenon DEF ReadAnswer
  <1>3. CASE \/ StopRefresh \/ PollRegistration \/ ReadProvisional \/ ReadTimesOut \/ ReadRaises
             \/ ProxyTrouble \/ LinkLost
    BY <1>3, Zenon DEF StopRefresh, PollRegistration, ReadProvisional, ReadTimesOut, ReadRaises,
                       ProxyTrouble, LinkLost, netVars
  <1>4. CASE ProxyAnswers \/ ProxyRefuses
    BY <1>4, AnswerTypes, ZenonT(30) DEF ProxyAnswers, ProxyRefuses, Deliver
  <1>5. CASE UNCHANGED vars
    BY <1>5, Zenon DEF vars, netVars
  <1> QED BY <1>1, <1>2, <1>3, <1>4, <1>5, Zenon DEF Next

LEMMA ChannelsKept ==
  ASSUME Channels, Names, [Next]_vars
  PROVE  Channels'
  <1>1. up \in Seq(Requests) /\ down \in Seq(Answers)
    BY DEF Channels
  <1>2. CASE Tick
    <2>1. \A i \in 1..Len(up) : Waited(up[i]) \in Requests
      <3> SUFFICES ASSUME NEW i \in 1..Len(up) PROVE Waited(up[i]) \in Requests
        OBVIOUS
      <3>1. up[i] \in Requests
        BY <1>1
      <3> QED BY <3>1, RequestTypes
    <2>2. up' = [i \in 1..Len(up) |-> Waited(up[i])] /\ down' = down /\ Len(up) \in Nat
      BY <1>1, <1>2 DEF Tick
    <2>3. up' \in Seq(Requests)
      BY <2>1, <2>2
    <2> QED BY <1>1, <2>2, <2>3 DEF Channels
  <1>3. CASE ProxyTries
    <2> DEFINE r == [up[1] EXCEPT !.tried = TRUE]
    <2>1. up # << >> /\ up' = [up EXCEPT ![1] = r] /\ down' = Append(down, 100)
      BY <1>3, Zenon DEF ProxyTries, Deliver
    <2>2. r \in Requests
      <3>1. up[1] \in Requests
        BY <1>1, <2>1
      <3> QED BY <3>1, RequestTypes
    <2> HIDE DEF r
    <2>3. up' \in Seq(Requests)
      BY <1>1, <2>1, <2>2
    <2>4. down' \in Seq(Answers)
      BY <1>1, <2>1, AnswerTypes
    <2> QED BY <2>3, <2>4 DEF Channels
  <1>4. CASE up # << >> /\ up' = Tail(up) /\ \E m \in Answers : down' = Append(down, m)
    <2>1. PICK m \in Answers : down' = Append(down, m)
      BY <1>4
    <2>2. down' \in Seq(Answers)
      BY <1>1, <2>1
    <2>3. up' \in Seq(Requests)
      BY <1>1, <1>4
    <2> QED BY <2>2, <2>3 DEF Channels
  <1>5. CASE Dial
    <2>1. up' \in Seq(Requests) /\ down' = << >>
      BY <1>5, DialTypes
    <2> QED BY <2>1 DEF Channels
  <1>6. CASE \E r \in Requests : Send(r) /\ (Read \/ down' = down)
    <2>1. PICK r \in Requests : Send(r) /\ (Read \/ down' = down)
      BY <1>6
    <2>2. up' \in Seq(Requests)
      BY <2>1, SendTypes
    <2>3. Read => down' \in Seq(Answers)
      BY ReadShape DEF Names
    <2> QED BY <1>1, <2>1, <2>2, <2>3, Zenon DEF Channels
  <1>10. CASE Read /\ up' = up
    <2>1. down' \in Seq(Answers)
      BY <1>10, ReadShape DEF Names
    <2> QED BY <1>1, <1>10, <2>1, Zenon DEF Channels
  <1>7. CASE up' \in {up, << >>} /\ down' \in {down, << >>}
    <2>1. << >> \in Seq(Requests) /\ << >> \in Seq(Answers)
      OBVIOUS
    <2> QED BY <1>1, <1>7, <2>1, Zenon DEF Channels
  <1>8. CASE up' = up /\ down' = down
    BY <1>1, <1>8 DEF Channels
  <1>9. CASE ~Tick
    <2>1. \/ up' = up /\ down' = down
          \/ \E r \in Requests : Send(r) /\ (Read \/ down' = down)
          \/ Read /\ up' = up
          \/ Dial
          \/ up' \in {up, << >>} /\ down' \in {down, << >>}
          \/ up # << >> /\ up' = Tail(up) /\ \E m \in Answers : down' = Append(down, m)
          \/ ProxyTries
      BY <1>9, ChannelSteps
    <2> QED BY <1>3, <1>4, <1>5, <1>6, <1>7, <1>8, <1>10, <2>1
  <1> QED BY <1>2, <1>9

LEMMA NumbersKept ==
  ASSUME Numbers, [Next]_vars
  PROVE  Numbers'
  <1>1. step' \in 0..2
    <2>1. step' \in {step, 0, 1} \/ ReadAnswer
      BY Zenon
      DEF Next, Connect, StopRefresh, Disconnect, PollRegistration, Refresh,
          ReadProvisional, ReadTimesOut, ReadRaises, ProxyTries, ProxyAnswers, ProxyRefuses,
          ProxyTrouble, LinkLost, Tick, Dial, DialFails, Raised, vars
    <2>2. ReadAnswer => step' \in {0, 2}
      BY AnswerCases DEF Succeeds, Repeats, Fails, Raised, Returned
    <2> QED BY <2>1, <2>2 DEF Numbers
  <1>2. timer' \in 0..1
    <2>1. timer' \in {timer, 0, 1} \/ Tick
      BY Zenon
      DEF Next, Connect, StopRefresh, Disconnect, PollRegistration, Refresh, ReadAnswer,
          ReadProvisional, ReadTimesOut, ReadRaises, ProxyTries, ProxyAnswers, ProxyRefuses,
          ProxyTrouble, LinkLost, Dial, DialFails, Raised, Returned, vars
    <2>2. Tick => timer' = Decrement(timer)
      BY DEF Tick
    <2> QED BY <2>1, <2>2 DEF Numbers, Decrement
  <1>3. age' \in 0..Expires
    <2>1. age' \in {age, 0} \/ Tick
      BY Zenon
      DEF Next, Connect, StopRefresh, Disconnect, PollRegistration, Refresh, ReadAnswer,
          ReadProvisional, ReadTimesOut, ReadRaises, ProxyTries, ProxyAnswers, ProxyRefuses,
          ProxyTrouble, LinkLost, MarkRegistered, vars, connVars
    <2>2. Tick => age' = age \/ (age < Expires /\ age' = age + 1)
      BY Zenon DEF Tick
    <2> QED BY <2>1, <2>2 DEF Numbers
  <1>4. granted' \in 0..Long
    <2>1. granted' \in {granted, 0} \/ Tick
      BY Zenon
      DEF Next, Connect, StopRefresh, Disconnect, PollRegistration, Refresh, ReadAnswer,
          ReadProvisional, ReadTimesOut, ReadRaises, ProxyTries, ProxyAnswers, ProxyRefuses,
          ProxyTrouble, LinkLost, vars, proxyVars
    <2>2. Tick => granted' = IF granted < Long THEN granted + 1 ELSE granted
      BY DEF Tick
    <2> QED BY <2>1, <2>2 DEF Numbers
  <1> QED BY <1>1, <1>2, <1>3, <1>4 DEF Numbers

LEMMA FlagsInit == Init => Flags
  BY DEF Init, Flags

LEMMA FlagsKept ==
  ASSUME Flags, [Next]_vars
  PROVE  Flags'
  <1>1. CASE Next
    <2>1. stop' = stop \/ stop' = TRUE
      BY <1>1, Zenon
      DEF Next, Connect, StopRefresh, Disconnect, PollRegistration, Refresh, ReadAnswer,
          ReadProvisional, ReadTimesOut, ReadRaises, ProxyTries, ProxyAnswers, ProxyRefuses,
          ProxyTrouble, LinkLost, Tick, connVars, proxyVars
    <2>2. known' = known \/ known' = TRUE \/ known' = FALSE
      BY <1>1, Zenon
      DEF Next, Connect, StopRefresh, Disconnect, PollRegistration, Refresh, ReadAnswer,
          ReadProvisional, ReadTimesOut, ReadRaises, ProxyTries, ProxyAnswers, ProxyRefuses,
          ProxyTrouble, LinkLost, Tick, connVars, proxyVars
    <2>3. open' = open \/ open' = TRUE \/ open' = FALSE
      BY <1>1, Zenon
      DEF Next, Connect, StopRefresh, Disconnect, PollRegistration, Refresh, ReadAnswer,
          ReadProvisional, ReadTimesOut, ReadRaises, ProxyTries, ProxyAnswers, ProxyRefuses,
          ProxyTrouble, LinkLost, Tick, Dial, DialFails, connVars, proxyVars
    <2>4. registered' = registered \/ registered' = TRUE \/ registered' = FALSE
      BY <1>1, Zenon
      DEF Next, Connect, StopRefresh, Disconnect, PollRegistration, Refresh, ReadAnswer,
          ReadProvisional, ReadTimesOut, ReadRaises, ProxyTries, ProxyAnswers, ProxyRefuses,
          ProxyTrouble, LinkLost, Tick, MarkRegistered, connVars, proxyVars
    <2>5. healthy' \in BOOLEAN
      BY <1>1, Zenon
      DEF Next, Connect, StopRefresh, Disconnect, PollRegistration, Refresh, ReadAnswer,
          ReadProvisional, ReadTimesOut, ReadRaises, ProxyTries, ProxyAnswers, ProxyRefuses,
          ProxyTrouble, LinkLost, Tick, connVars, proxyVars, Flags
    <2> QED BY <2>1, <2>2, <2>3, <2>4, <2>5, Zenon DEF Flags
  <1>2. CASE UNCHANGED vars
    BY <1>2, Zenon DEF vars, connVars, proxyVars, Flags
  <1> QED BY <1>1, <1>2
-----------------------------------------------------------------------------
(* The two threads.                                                        *)

LEMMA PlacesInit == Init => Places
  BY DEF Init, Places

LEMMA PlacesKept ==
  ASSUME Places, [Next]_vars
  PROVE  Places'
  <1> USE DEF Places, connVars, netVars, proxyVars
  <1>1. CASE Connect
    <2>1. main = "start" /\ open' /\ UNCHANGED <<thread, registered>>
      BY <1>1, Zenon DEF Connect, Dial, DialFails
    <2>2. \/ main' = "connecting" /\ step' = 1
          \/ main' = "serving" /\ step' = step
      BY <1>1, Zenon DEF Connect, Dial
    <2> QED BY <2>1, <2>2
  <1>2. CASE StopRefresh
    BY <1>2 DEF StopRefresh
  <1>3. CASE Disconnect
    BY <1>3 DEF Disconnect
  <1>4. CASE PollRegistration
    BY <1>4 DEF PollRegistration
  <1>5. CASE Refresh
    <2>1. /\ thread = "due" /\ step = 0 /\ UNCHANGED <<main, known, registered>>
          /\ open' = open \/ open'
      BY <1>5, Zenon DEF Refresh, Dial, DialFails
    <2>2. \/ thread' = "refreshing" /\ step' = 1
          \/ thread' = "wait" /\ step' = step
      BY <1>5, Zenon DEF Refresh, Dial
    <2> QED BY <2>1, <2>2
  <1>6. CASE ReadAnswer
    <2>1. /\ step # 0 /\ UNCHANGED <<known, open>>
          /\ Succeeds \/ Repeats \/ Fails
      BY <1>6, AnswerCases
    <2>2. CASE Succeeds
      BY <2>1, <2>2 DEF Succeeds, MarkRegistered, Returned
    <2>3. CASE Repeats
      BY <2>1, <2>3 DEF Repeats
    <2>4. CASE Fails
      BY <2>1, <2>4 DEF Fails, Raised
    <2> QED BY <2>1, <2>2, <2>3, <2>4
  <1>7. CASE ReadTimesOut \/ ReadRaises
    BY <1>7 DEF ReadTimesOut, ReadRaises, Raised
  <1>8. CASE \/ ReadProvisional \/ ProxyTries \/ ProxyAnswers \/ ProxyRefuses \/ ProxyTrouble
             \/ LinkLost \/ Tick \/ UNCHANGED vars
    <2>1. UNCHANGED <<main, thread, step, known, open, registered>>
      BY <1>8, Zenon DEF ReadProvisional, ProxyTries, ProxyAnswers, ProxyRefuses, ProxyTrouble,
                         LinkLost, Tick, vars
    <2> QED BY <2>1
  <1> QED BY <1>1, <1>2, <1>3, <1>4, <1>5, <1>6, <1>7, <1>8 DEF Next
-----------------------------------------------------------------------------
(* The age of an unread 200.                                               *)

LEMMA NothingUnread ==
  /\ down = << >> => ~Unread
  /\ down' = << >> => ~Unread'
  /\ down' = down => (Unread' <=> Unread)
  BY DEF Unread

LEMMA FirstIsUnread ==
  ASSUME Channels, down # << >>, Head(down) = 200
  PROVE  Unread
  BY DEF Channels, Unread

LEMMA OthersAppended ==
  ASSUME Channels, NEW m \in Answers, m # 200, down' = Append(down, m), Unread'
  PROVE  Unread
  <1>1. down \in Seq(Answers)
    BY DEF Channels
  <1>2. PICK i \in 1..Len(down') : down'[i] = 200
    BY DEF Unread
  <1>3. i \in 1..Len(down) /\ down[i] = 200
    BY <1>1, <1>2
  <1> QED BY <1>3 DEF Unread

LEMMA FreshReads ==
  ASSUME IInv, 0 < Interval, transport = "tcp",
         ReadAnswer \/ ReadProvisional \/ ReadTimesOut \/ ReadRaises
  PROVE  Fresh' /\ ReportAge'
  <1> USE DEF connVars, netVars, proxyVars
  <1>1. CASE ReadAnswer
    <2>1. /\ step # 0 /\ down # << >> /\ down' = << >>
          /\ UNCHANGED <<known, granted>>
          /\ Succeeds \/ Repeats \/ Fails
      BY <1>1, AnswerCases, ReadShape DEF IInv, Read
    <2>2. Fresh'
      BY <2>1, NothingUnread DEF Fresh
    <2>3. CASE Succeeds
      <3>1. age' = 0 /\ Head(down) = 200
        BY <2>3 DEF Succeeds, MarkRegistered
      <3>2. known => granted <= Interval
        BY <2>1, <3>1, FirstIsUnread DEF IInv, Fresh, FreshForAttempt
      <3> QED BY <2>1, <2>2, <3>1, <3>2 DEF ReportAge, IInv, Numbers, Interval
    <2>4. CASE Repeats \/ Fails
      <3>1. UNCHANGED <<registered, age>>
        BY <2>4 DEF Repeats, Fails
      <3> QED BY <2>1, <2>2, <3>1 DEF ReportAge, IInv, Interval
    <2> QED BY <2>1, <2>3, <2>4
  <1>2. CASE ReadProvisional
    <2>1. down' = << >> /\ UNCHANGED <<known, registered, age, granted>>
      BY <1>2, ReadShape DEF ReadProvisional, IInv
    <2> QED BY <2>1, NothingUnread DEF Fresh, ReportAge, IInv, Interval
  <1>3. CASE ReadTimesOut
    <2>1. /\ step # 0 /\ timer = 0 /\ step' = 0 /\ down' = down
          /\ UNCHANGED <<known, registered, age, granted>>
      BY <1>3 DEF ReadTimesOut, Raised
    <2>2. Fresh'
      <3>1. known' /\ Unread' => granted' = 0
        BY <2>1, NothingUnread DEF IInv, Fresh, FreshForAttempt
      <3> QED BY <2>1, <3>1 DEF Fresh, FreshForAttempt, FreshForNext, IInv, Numbers, Interval
    <2> QED BY <2>1, <2>2 DEF ReportAge, IInv, Interval
  <1>4. CASE ReadRaises
    <2>1. down = << >> /\ down' = down /\ UNCHANGED <<known, registered, age, granted>>
      BY <1>4 DEF ReadRaises
    <2> QED BY <2>1, NothingUnread DEF Fresh, ReportAge, IInv, Interval
  <1> QED BY <1>1, <1>2, <1>3, <1>4

LEMMA FreshThreads ==
  ASSUME IInv, 0 < Interval, transport = "tcp",
         Connect \/ StopRefresh \/ Disconnect \/ PollRegistration \/ Refresh
  PROVE  Fresh' /\ ReportAge'
  <1> USE DEF connVars, netVars, proxyVars
  <1>1. CASE Connect
    <2>1. ~registered' /\ down' = << >>
      BY <1>1 DEF Connect, Dial, DialFails, IInv, Places
    <2> QED BY <2>1, NothingUnread DEF Fresh, ReportAge
  <1>2. CASE StopRefresh
    <2>1. /\ main # "connecting" /\ main' # "connecting"
          /\ UNCHANGED <<thread, step, timer, known, registered, age, link, down, granted>>
      BY <1>2 DEF StopRefresh
    <2>2. Fresh'
      BY <2>1, NothingUnread DEF Fresh, FreshForAttempt, FreshForNext, IInv, Interval
    <2> QED BY <2>1, <2>2 DEF ReportAge, IInv, Interval
  <1>3. CASE Disconnect
    <2>1. ~known'
      BY <1>3 DEF Disconnect
    <2> QED BY <2>1 DEF Fresh, ReportAge
  <1>4. CASE PollRegistration
    <2>1. /\ thread = "wait"
          /\ UNCHANGED <<main, step, known, registered, age, link, down, granted>>
      BY <1>4 DEF PollRegistration
    <2>2. step = 0
      BY <2>1 DEF IInv, Places
    <2>3. Fresh'
      <3> SUFFICES ASSUME known', Unread' PROVE FreshForAttempt' /\ FreshForNext'
        BY DEF Fresh
      <3>1. known /\ Unread /\ registered
        BY <2>1, NothingUnread DEF IInv, Places
      <3>2. \/ thread' \in {"off", "due"}
            \/ thread' = "wait" /\ age < Interval
        BY <1>4, <3>1 DEF PollRegistration, Unexpired, Interval
      <3>3. FreshForNext
        BY <3>1 DEF IInv, Fresh
      <3>4. age \in Nat
        BY DEF IInv, Numbers
      <3> QED BY <2>1, <2>2, <3>2, <3>3, <3>4 DEF FreshForAttempt, FreshForNext, Interval
    <2> QED BY <2>1, <2>3 DEF ReportAge, IInv, Interval
  <1>5. CASE Refresh
    <2>1. /\ thread = "due" /\ step = 0
          /\ UNCHANGED <<main, known, registered, age, granted>>
      BY <1>5 DEF Refresh
    <2>2. Fresh'
      <3> SUFFICES ASSUME known', Unread' PROVE FreshForAttempt' /\ FreshForNext'
        BY DEF Fresh
      <3>1. known /\ open /\ main # "connecting"
        BY <2>1 DEF IInv, Places
      <3>2. /\ UNCHANGED <<link, down>>
            /\ \/ link # "broken" /\ thread' = "refreshing" /\ step' = 1 /\ timer' = 1
               \/ link = "broken" /\ step' = 0
        BY <1>5, <2>1, <3>1 DEF Refresh
      <3>3. Unread /\ FreshForNext
        BY <3>1, <3>2, NothingUnread DEF IInv, Fresh
      <3> QED BY <2>1, <3>1, <3>2, <3>3 DEF FreshForAttempt, FreshForNext, Interval
    <2> QED BY <2>1, <2>2 DEF ReportAge, IInv, Interval
  <1> QED BY <1>1, <1>2, <1>3, <1>4, <1>5

LEMMA FreshProxy ==
  ASSUME IInv, 0 < Interval, transport = "tcp",
         \/ ProxyTries \/ ProxyAnswers \/ ProxyRefuses \/ ProxyTrouble \/ LinkLost
         \/ UNCHANGED vars
  PROVE  Fresh' /\ ReportAge'
  <1> USE DEF connVars, netVars, proxyVars
  <1>1. UNCHANGED <<main, thread, step, timer, known, registered, age>>
    BY Zenon DEF ProxyTries, ProxyAnswers, ProxyRefuses, ProxyTrouble, LinkLost, vars
  <1>2. CASE granted' = 0
    BY <1>1, <1>2 DEF Fresh, FreshForAttempt, FreshForNext, ReportAge, IInv, Numbers, Interval
  <1>3. CASE granted' = granted /\ (Unread' => Unread) /\ (link = "broken" => link' = "broken")
    <2>1. Fresh'
      BY <1>1, <1>3 DEF Fresh, FreshForAttempt, FreshForNext, IInv, Interval
    <2> QED BY <1>1, <1>3, <2>1 DEF ReportAge, IInv, Interval
  <1>4. CASE ProxyAnswers
    <2>1. CASE Head(up).auth
      BY <1>2, <1>4, <2>1 DEF ProxyAnswers
    <2>2. CASE ~Head(up).auth
      <3>1. down' = Append(down, 401) /\ granted' = granted /\ link' = link
        BY <1>4, <2>2 DEF ProxyAnswers, Deliver
      <3>2. Unread' => Unread
        BY <3>1, OthersAppended, AnswerTypes DEF IInv
      <3> QED BY <1>3, <3>1, <3>2
    <2> QED BY <2>1, <2>2
  <1>5. CASE ProxyTries \/ ProxyRefuses
    <2>1. /\ granted' = granted /\ link' = link
          /\ \E m \in Answers \ {200} : down' = Append(down, m)
      <3>1. granted' = granted /\ link' = link
        BY <1>5, Zenon DEF ProxyTries, ProxyRefuses
      <3>2. \/ down' = Append(down, 100) \/ down' = Append(down, 503)
            \/ down' = Append(down, 401)
        BY <1>5, Zenon DEF ProxyTries, ProxyRefuses, Deliver
      <3> QED BY <3>1, <3>2, AnswerTypes
    <2>2. Unread' => Unread
      BY <2>1, OthersAppended DEF IInv
    <2> QED BY <1>3, <2>1, <2>2
  <1>6. CASE ProxyTrouble \/ LinkLost \/ UNCHANGED vars
    <2>1. granted' = granted /\ down' = down
      BY <1>6, Zenon DEF ProxyTrouble, LinkLost, vars
    <2>2. link = "broken" => link' = "broken"
      BY <1>6 DEF ProxyTrouble, LinkLost, vars
    <2> QED BY <1>3, <2>1, <2>2, NothingUnread
  <1> QED BY <1>4, <1>5, <1>6

LEMMA FreshTick ==
  ASSUME IInv, 0 < Interval, transport = "tcp", Tick
  PROVE  Fresh' /\ ReportAge'
  <1>1. /\ UNCHANGED <<main, thread, step, known, registered, link, down>>
        /\ timer' = Decrement(timer)
        /\ granted' = IF granted < Long THEN granted + 1 ELSE granted
    BY DEF Tick
  <1>2. registered => age' = IF age < Expires THEN age + 1 ELSE age
    BY DEF Tick
  <1>3. /\ timer \in 0..1 /\ age \in 0..Expires /\ granted \in 0..Long
        /\ granted' \in Int /\ granted' <= granted + 1 /\ timer' = 0
    BY <1>1 DEF IInv, Numbers, Decrement
  <1>4. /\ thread = "wait" => timer = 1
        /\ thread # "due"
        /\ step # 0 => down = << >>
    BY <1>3 DEF Tick, Idle
  <1>5. ReportAge'
    <2> SUFFICES ASSUME known', registered', age' < Interval PROVE granted' <= Interval + age'
      BY DEF ReportAge
    <2>1. known /\ registered
      BY <1>1
    <2>2. age' = age + 1
      BY <1>2, <1>3, <2>1 DEF Interval
    <2>3. age < Interval /\ age \in Int /\ granted \in Int /\ Interval \in Int
      BY <1>3, <2>2 DEF Interval
    <2>4. granted <= Interval + age
      BY <2>1, <2>3 DEF IInv, ReportAge
    <2> QED BY <1>3, <2>2, <2>3, <2>4
  <1>6. Fresh'
    <2> SUFFICES ASSUME known', Unread' PROVE FreshForAttempt' /\ FreshForNext'
      BY DEF Fresh
    <2>1. known /\ Unread
      BY <1>1, NothingUnread
    <2>2. step' = 0
      BY <1>1, <1>4, <2>1, NothingUnread
    <2>3. FreshForNext'
      <3> SUFFICES ASSUME thread = "wait", link # "broken" PROVE FreshForNext'
        BY <1>1, <1>4 DEF FreshForNext
      <3>1. registered
        BY <2>1 DEF IInv, Places
      <3>2. /\ granted <= Interval /\ (age < Interval => granted <= age)
            /\ (age >= Interval => granted = 0)
        BY <1>4, <2>1 DEF IInv, Fresh, FreshForNext
      <3> QED BY <1>1, <1>2, <1>3, <3>1, <3>2 DEF FreshForNext, Interval
    <2> QED BY <2>2, <2>3 DEF FreshForAttempt
  <1> QED BY <1>5, <1>6
-----------------------------------------------------------------------------
LEMMA InitEstablishes == Init => IInv
  <1> SUFFICES ASSUME Init PROVE IInv
    OBVIOUS
  <1>1. Flags /\ Names /\ Numbers /\ Channels /\ Places
    BY TypesInit, FlagsInit, PlacesInit
  <1>2. ~known
    BY DEF Init
  <1>3. Fresh /\ ReportAge
    BY <1>2 DEF Fresh, ReportAge
  <1> QED BY <1>1, <1>3 DEF IInv

LEMMA NextKeeps ==
  ASSUME IInv, [Next]_vars
  PROVE  IInv'
  <1>1. Flags' /\ Names' /\ Numbers' /\ Channels' /\ Places'
    BY FlagsKept, NamesKept, NumbersKept, ChannelsKept, PlacesKept DEF IInv
  <1>2. transport' = transport
    BY TransportKept
  <1>3. 0 < Interval /\ transport = "tcp" => Fresh' /\ ReportAge'
    BY FreshReads, FreshThreads, FreshProxy, FreshTick DEF Next
  <1> QED BY <1>1, <1>2, <1>3 DEF IInv, Interval

\* The variables keep their types, in particular no thread starts a third REGISTER of an
\* attempt.
THEOREM TypeCorrect == Spec => []TypeOK
  <1>1. IInv => TypeOK
    <2> SUFFICES ASSUME IInv PROVE TypeOK
      OBVIOUS
    <2>1. ASSUME NEW i \in 1..Len(up) PROVE up[i].auth \in BOOLEAN
      <3>1. up[i] \in Requests
        BY DEF IInv, Channels
      <3> QED BY <3>1, Zenon DEF Requests
    <2>2. \A i \in 1..Len(down) : down[i] \in {100, 200, 401, 503}
      BY DEF IInv, Channels, Answers
    <2> QED BY <2>1, <2>2, Zenon DEF IInv, Flags, Names, Numbers, TypeOK
  <1> QED BY <1>1, InitEstablishes, NextKeeps, PTL DEF Spec
-----------------------------------------------------------------------------
(* What is on its way.  The responses nobody has read and the requests     *)
(* nobody has answered form one queue: its first part is in down, the rest *)
(* in up.                                                                  *)

Arrived == Len(down)
Pending == Len(up)
InFlight == Pending + Arrived

\* The i-th in the queue is a 200, or a request that a healthy proxy answers with one.
Good(i) == IF i <= Arrived THEN down[i] = 200 ELSE up[i - Arrived].auth = TRUE

LEMMA Sizes ==
  ASSUME Channels
  PROVE  Arrived \in Nat /\ Pending \in Nat /\ InFlight \in Nat /\ InFlight = Pending + Arrived
  BY DEF Channels, Arrived, Pending, InFlight

\* The first n responses have been read, and at most one request sent.
LEMMA QueueRead ==
  ASSUME Channels, NEW n \in Nat, NEW r \in Requests,
         Len(down') = Len(down) - n, \A i \in 1..Len(down') : down'[i] = down[i + n],
         n <= Len(down),
         up' = up \/ up' = Append(up, r)
  PROVE  /\ Arrived' = Arrived - n
         /\ \A i \in 1..InFlight - n : Good(i)' = Good(i + n)
         /\ up' = up => Pending' = Pending /\ InFlight' = InFlight - n
         /\ up' = Append(up, r) => /\ Pending' = Pending + 1 /\ InFlight' = InFlight - n + 1
         /\ up' = Append(up, r) =>
              \A k : k = InFlight - n + 1 => Good(k)' = (r.auth = TRUE)
  <1>1. /\ up \in Seq(Requests) /\ Len(up) \in Nat /\ Len(down) \in Nat /\ Len(down') \in Int
        /\ Len(down') = Len(down) - n
    BY DEF Channels
  <1>2. /\ Len(up') \in Nat
        /\ up' = up => Len(up') = Len(up)
        /\ up' = Append(up, r) => Len(up') = Len(up) + 1 /\ up'[Len(up) + 1] = r
        /\ \A i \in 1..Len(up) : up'[i] = up[i]
    BY <1>1
  <1>3. ASSUME NEW i \in 1..Len(up) + Len(down) - n PROVE Good(i)' = Good(i + n)
    <2>1. CASE i <= Len(down) - n
      <3>1. i \in 1..Len(down') /\ i <= Len(down') /\ i + n <= Len(down)
        BY <1>1, <2>1
      <3>2. down'[i] = down[i + n]
        BY <3>1
      <3>3. Good(i)' = (down'[i] = 200)
        BY <3>1 DEF Good, Arrived
      <3>4. Good(i + n) = (down[i + n] = 200)
        BY <3>1 DEF Good, Arrived
      <3> QED BY <3>2, <3>3, <3>4
    <2>2. CASE ~(i <= Len(down) - n)
      <3> DEFINE j == i - Len(down')
      <3>1. j \in 1..Len(up) /\ ~(i <= Len(down')) /\ ~(i + n <= Len(down)) /\ i + n - Len(down) = j
        BY <1>1, <2>2
      <3>2. up'[j] = up[j]
        BY <1>2, <3>1
      <3>3. Good(i)' = (up'[j].auth = TRUE)
        BY <3>1 DEF Good, Arrived
      <3>4. Good(i + n) = (up[i + n - Len(down)].auth = TRUE)
        BY <3>1 DEF Good, Arrived
      <3> HIDE DEF j
      <3> QED BY <3>1, <3>2, <3>3, <3>4
    <2> QED BY <2>1, <2>2
  <1>4. ASSUME up' = Append(up, r), NEW k, k = Len(up) + Len(down) - n + 1
        PROVE  Good(k)' = (r.auth = TRUE)
    <2>1. ~(k <= Len(down')) /\ k - Len(down') = Len(up) + 1 /\ up'[Len(up) + 1] = r
      BY <1>1, <1>2, <1>4
    <2>2. Good(k)' = (up'[k - Len(down')].auth = TRUE)
      BY <2>1 DEF Good, Arrived
    <2> QED BY <2>1, <2>2
  <1>5. /\ InFlight = Len(up) + Len(down) /\ InFlight' = Len(up') + Len(down')
        /\ Arrived' = Len(down') /\ Arrived = Len(down) /\ Pending' = Len(up') /\ Pending = Len(up)
    BY DEF Arrived, Pending, InFlight
  <1>6. \A i \in 1..InFlight - n : Good(i)' = Good(i + n)
    <2> SUFFICES ASSUME NEW i \in 1..InFlight - n PROVE Good(i)' = Good(i + n)
      OBVIOUS
    <2>1. i \in 1..Len(up) + Len(down) - n
      BY <1>5
    <2> QED BY <1>3, <2>1
  <1>7. up' = Append(up, r) => \A k : k = InFlight - n + 1 => Good(k)' = (r.auth = TRUE)
    <2> SUFFICES ASSUME up' = Append(up, r), NEW k, k = InFlight - n + 1
                 PROVE  Good(k)' = (r.auth = TRUE)
      OBVIOUS
    <2>1. k = Len(up) + Len(down) - n + 1
      BY <1>5
    <2> QED BY <1>4, <2>1
  <1>8. up' = up => Pending' = Pending /\ InFlight' = InFlight - n
    BY <1>1, <1>2, <1>5
  <1>9. up' = Append(up, r) => Pending' = Pending + 1 /\ InFlight' = InFlight - n + 1
    BY <1>1, <1>2, <1>5
  <1> QED BY <1>1, <1>5, <1>6, <1>7, <1>8, <1>9

\* The proxy answers the first request; only one with credentials is granted.
LEMMA QueueAnswered ==
  ASSUME Channels, NEW m \in Answers, up # << >>, up' = Tail(up), down' = Append(down, m),
         m = 200 => up[1].auth = TRUE
  PROVE  /\ Arrived' = Arrived + 1 /\ Pending' = Pending - 1 /\ InFlight' = InFlight
         /\ Pending > 0
         /\ \A i \in 1..InFlight : i # Arrived + 1 => Good(i)' = Good(i)
         /\ \A i : i = Arrived + 1 => Good(i)' = (m = 200) /\ Good(i) = (up[1].auth = TRUE)
         /\ \A i \in 1..InFlight : Good(i)' => Good(i)
  <1>1. /\ up \in Seq(Requests) /\ Len(up) \in Nat /\ Len(up) > 0 /\ Len(up') = Len(up) - 1
        /\ \A i \in 1..Len(up) - 1 : up'[i] = up[i + 1]
    BY DEF Channels
  <1>2. /\ Len(down) \in Nat /\ Len(down') = Len(down) + 1 /\ down'[Len(down) + 1] = m
        /\ \A i \in 1..Len(down) : down'[i] = down[i]
    BY DEF Channels
  <1>3. ASSUME NEW i, i = Len(down) + 1
        PROVE  Good(i)' = (m = 200) /\ Good(i) = (up[1].auth = TRUE)
    <2>1. i <= Len(down') /\ ~(i <= Len(down)) /\ i - Len(down) = 1 /\ down'[i] = m
      BY <1>2, <1>3
    <2>2. Good(i)' = (down'[i] = 200)
      BY <2>1 DEF Good, Arrived
    <2>3. Good(i) = (up[i - Len(down)].auth = TRUE)
      BY <2>1 DEF Good, Arrived
    <2> QED BY <2>1, <2>2, <2>3
  <1>4. ASSUME NEW i \in 1..Len(up) + Len(down), i # Len(down) + 1 PROVE Good(i)' = Good(i)
    <2>1. CASE i <= Len(down)
      <3>1. i \in 1..Len(down) /\ i <= Len(down')
        BY <1>1, <1>2, <2>1
      <3> QED BY <1>2, <2>1, <3>1 DEF Good, Arrived
    <2>2. CASE ~(i <= Len(down))
      <3>1. /\ i - Len(down') \in 1..Len(up) - 1 /\ ~(i <= Len(down'))
            /\ i - Len(down') + 1 = i - Len(down)
        BY <1>1, <1>2, <1>4, <2>2
      <3>2. up'[i - Len(down')] = up[i - Len(down)]
        BY <1>1, <3>1
      <3> QED BY <2>2, <3>1, <3>2 DEF Good, Arrived
    <2> QED BY <2>1, <2>2
  <1>5. \A i \in 1..Len(up) + Len(down) : Good(i)' => Good(i)
    BY <1>3, <1>4
  <1>6. /\ InFlight = Len(up) + Len(down) /\ InFlight' = Len(up') + Len(down')
        /\ Arrived' = Len(down') /\ Arrived = Len(down) /\ Pending' = Len(up') /\ Pending = Len(up)
    BY DEF Arrived, Pending, InFlight
  <1>7. /\ Arrived' = Arrived + 1 /\ Pending' = Pending - 1 /\ InFlight' = InFlight
        /\ Pending > 0
    BY <1>1, <1>2, <1>6
  <1> QED BY <1>3, <1>4, <1>5, <1>6, <1>7

\* A 100 takes a place of its own, before the response it announces.
LEMMA QueueTried ==
  ASSUME Channels, up # << >>, up' = [up EXCEPT ![1].tried = TRUE], down' = Append(down, 100)
  PROVE  /\ Arrived' = Arrived + 1 /\ Pending' = Pending /\ InFlight' = InFlight + 1
         /\ \A i \in 1..Arrived : Good(i)' = Good(i)
         /\ \A i : i = Arrived + 1 => ~Good(i)'
         /\ \A i \in Arrived + 2..InFlight + 1 : Good(i)' = Good(i - 1)
  <1>1. /\ up \in Seq(Requests) /\ Len(up) \in Nat /\ Len(up) > 0
    BY DEF Channels
  <1>2. /\ Len(up') = Len(up)
        /\ \A i \in 1..Len(up) : up'[i].auth = up[i].auth
    <2> DEFINE t == [up[1] EXCEPT !.tried = TRUE]
    <2>1. up' = [up EXCEPT ![1] = t]
      BY Zenon
    <2>2. up[1] \in Requests
      BY <1>1
    <2>3. t.auth = up[1].auth
      BY <2>2, Zenon DEF Requests
    <2> HIDE DEF t
    <2> QED BY <1>1, <2>1, <2>3
  <1>3. /\ Len(down) \in Nat /\ Len(down') = Len(down) + 1 /\ down'[Len(down) + 1] = 100
        /\ \A i \in 1..Len(down) : down'[i] = down[i]
    BY AnswerTypes DEF Channels
  <1>4. ASSUME NEW i \in 1..Len(down) PROVE Good(i)' = Good(i)
    <2>1. i <= Len(down) /\ i <= Len(down') /\ down'[i] = down[i]
      BY <1>3
    <2> QED BY <2>1 DEF Good, Arrived
  <1>5. ASSUME NEW i, i = Len(down) + 1 PROVE ~Good(i)'
    <2>1. i <= Len(down') /\ down'[i] # 200
      BY <1>3, <1>5
    <2>2. Good(i)' = (down'[i] = 200)
      BY <2>1 DEF Good, Arrived
    <2> QED BY <2>1, <2>2
  <1>6. ASSUME NEW i \in Len(down) + 2..Len(up) + Len(down) + 1 PROVE Good(i)' = Good(i - 1)
    <2>1. /\ ~(i <= Len(down')) /\ ~(i - 1 <= Len(down))
          /\ i - Len(down') = i - 1 - Len(down) /\ i - Len(down') \in 1..Len(up)
      BY <1>1, <1>3, SMTT(30)
    <2> QED BY <1>2, <2>1 DEF Good, Arrived
  <1> QED BY <1>1, <1>2, <1>3, <1>4, <1>5, <1>6 DEF Arrived, Pending, InFlight

\* Time passes: nothing else happens to the queue.
LEMMA QueueAges ==
  ASSUME Channels, up' = [i \in 1..Len(up) |-> Waited(up[i])], down' = down
  PROVE  /\ Arrived' = Arrived /\ Pending' = Pending /\ InFlight' = InFlight
         /\ \A i \in 1..InFlight : Good(i)' = Good(i)
  <1>1. /\ up \in Seq(Requests) /\ Len(up) \in Nat /\ Len(up') = Len(up) /\ Len(down) \in Nat
    BY DEF Channels
  <1>2. \A i \in 1..Len(up) : up'[i].auth = up[i].auth
    <2> SUFFICES ASSUME NEW i \in 1..Len(up) PROVE up'[i].auth = up[i].auth
      OBVIOUS
    <2> DEFINE t == up[i]
               n == IF t.wait < MaxDelay THEN t.wait + 1 ELSE t.wait
    <2>1. up'[i] = [t EXCEPT !.wait = n]
      BY Zenon DEF Waited
    <2>2. t \in Requests
      BY <1>1
    <2> HIDE DEF n, t
    <2>3. [t EXCEPT !.wait = n].auth = t.auth
      BY <2>2, Zenon DEF Requests
    <2> QED BY <2>1, <2>3 DEF t
  <1>3. ASSUME NEW i \in 1..Len(up) + Len(down) PROVE Good(i)' = Good(i)
    <2>1. ~(i <= Len(down)) => i - Len(down) \in 1..Len(up)
      BY <1>1
    <2> QED BY <1>2, <2>1 DEF Good, Arrived
  <1> QED BY <1>1, <1>3 DEF Arrived, Pending, InFlight

\* What was on its way to the proxy, and back from it, may get lost.
LEMMA QueueLost ==
  ASSUME Channels, up' = << >> \/ up' = up, down' = down
  PROVE  /\ Arrived' = Arrived /\ InFlight' <= InFlight
         /\ \A i \in 1..InFlight' : i \in 1..InFlight /\ Good(i)' = Good(i)
  <1>1. Len(up) \in Nat /\ Len(down) \in Nat
    BY DEF Channels
  <1>2. CASE up' = << >>
    <2>1. Len(up') = 0
      BY <1>2
    <2>2. ASSUME NEW i \in 1..Len(down) PROVE Good(i)' = Good(i)
      BY <2>2 DEF Good, Arrived
    <2> QED BY <1>1, <2>1, <2>2 DEF Arrived, Pending, InFlight
  <1>3. CASE up' = up
    <2>1. \A i : Good(i)' = Good(i)
      BY <1>3 DEF Good, Arrived
    <2> QED BY <1>1, <1>3, <2>1 DEF Arrived, Pending, InFlight
  <1> QED BY <1>2, <1>3

LEMMA QueueSame ==
  ASSUME UNCHANGED <<up, down>>
  PROVE  /\ Arrived' = Arrived /\ Pending' = Pending /\ InFlight' = InFlight
         /\ \A i : Good(i)' = Good(i)
  BY DEF Good, Arrived, Pending, InFlight

\* A new connection carries nothing, or the first REGISTER.
LEMMA QueueNew ==
  ASSUME up' = <<Request(FALSE)>> \/ up' = << >>, down' = << >>
  PROVE  /\ Arrived' = 0 /\ Pending' = InFlight' /\ InFlight' \in 0..1
         /\ up' = << >> => InFlight' = 0
         /\ \A i \in 1..InFlight' : ~Good(i)'
  <1> DEFINE r == Request(FALSE)
  <1>1. (up' = <<r>> \/ up' = << >>) /\ r.auth = FALSE
    BY Zenon DEF Request
  <1> HIDE DEF r
  <1>2. Len(down') = 0 /\ Len(up') \in 0..1 /\ (up' = << >> => Len(up') = 0)
    BY <1>1
  <1>3. ASSUME NEW i \in 1..Len(up') PROVE ~Good(i)'
    <2>a. Len(up') = 1
      BY <1>2
    <2>b. up' # << >>
      BY <1>2, <2>a
    <2>0. up' = <<r>> /\ i = 1
      BY <1>1, <2>a, <2>b
    <2>1. ~(i <= Len(down')) /\ i - Len(down') = 1 /\ up'[1] = r
      BY <1>2, <2>0
    <2>2. Good(i)' = (up'[i - Len(down')].auth = TRUE)
      BY <2>1 DEF Good, Arrived
    <2> QED BY <1>1, <2>1, <2>2
  <1> QED BY <1>2, <1>3 DEF Arrived, Pending, InFlight

\* One record is read, and nothing or a request sent.
LEMMA RecordRead ==
  ASSUME Channels, Read, transport = "tls", NEW r \in Requests, up' = up \/ up' = Append(up, r)
  PROVE  /\ Arrived > 0 /\ Arrived' = Arrived - 1 /\ Head(down) = down[1]
         /\ Good(1) = (down[1] = 200)
         /\ \A i \in 1..Arrived' : i + 1 \in 1..Arrived /\ down'[i] = down[i + 1]
         /\ \A i \in 1..InFlight - 1 : Good(i)' = Good(i + 1)
         /\ up' = up => Pending' = Pending /\ InFlight' = InFlight - 1
         /\ up' = Append(up, r) => Pending' = Pending + 1 /\ InFlight' = InFlight
         /\ up' = Append(up, r) => \A k : k = InFlight => Good(k)' = (r.auth = TRUE)
  <1>1. /\ Len(down) \in Nat /\ 1 <= Len(down) /\ Len(down') = Len(down) - 1
        /\ \A i \in 1..Len(down') : i + 1 \in 1..Len(down) /\ down'[i] = down[i + 1]
    BY ReadShape
  <1>2. Head(down) = down[1]
    BY <1>1 DEF Channels
  <1>3. Good(1) = (down[1] = 200)
    BY <1>1 DEF Good, Arrived
  <1> DEFINE n == 1
  <1>4. n \in Nat /\ n <= Len(down) /\ Len(down') = Len(down) - n
        /\ \A i \in 1..Len(down') : down'[i] = down[i + n]
    BY <1>1
  <1> HIDE DEF n
  <1>5. /\ Arrived' = Arrived - n
        /\ \A i \in 1..InFlight - n : Good(i)' = Good(i + n)
        /\ up' = up => Pending' = Pending /\ InFlight' = InFlight - n
        /\ up' = Append(up, r) => /\ Pending' = Pending + 1 /\ InFlight' = InFlight - n + 1
        /\ up' = Append(up, r) =>
             \A k : k = InFlight - n + 1 => Good(k)' = (r.auth = TRUE)
    BY <1>4, QueueRead
  <1> USE DEF n
  <1>6. InFlight - 1 + 1 = InFlight
    BY Sizes
  <1>7. \A i \in 1..Arrived' : i + 1 \in 1..Arrived /\ down'[i] = down[i + 1]
    BY <1>1 DEF Arrived
  <1>8. Arrived > 0
    BY <1>1 DEF Arrived
  <1> QED BY <1>2, <1>3, <1>5, <1>6, <1>7, <1>8

-----------------------------------------------------------------------------
(* Over TLS the answers are read one by one.  Between two that grant there *)
(* is one that does not, so a refresh cannot read two grants in a row.     *)

LastRefused == \A k \in 1..InFlight : k = InFlight => ~Good(k)

Lined ==
  /\ link # "up" => Pending = 0
  /\ InFlight <= MaxPipe + 1
  /\ step = 0 \/ timer = 0 => InFlight <= MaxPipe
  /\ \A i \in 1..InFlight - 1 : ~(Good(i) /\ Good(i + 1))
  /\ step = 1 /\ link = "up" => LastRefused
  /\ thread = "wait" /\ age < Interval => (InFlight > 0 => ~Good(1))
  /\ thread \in {"due", "refreshing"} => age >= Interval

\* What the line keeps when nothing is read and nothing sent.
LEMMA LinedStays ==
  ASSUME Lined, 0 < Interval, Channels, UNCHANGED <<up, down>>, Interval' = Interval,
         link' = link,
         InFlight <= MaxPipe \/ (step' # 0 /\ (step' = step) /\ (timer' = timer)),
         step' = 1 => step = 1,
         thread' = "wait" /\ age' < Interval => thread = "wait" /\ age < Interval,
         thread' \in {"due", "refreshing"} => age' >= Interval
  PROVE  Lined'
  <1>1. /\ Pending' = Pending /\ InFlight' = InFlight /\ \A i : Good(i)' = Good(i)
    BY QueueSame
  <1>2. InFlight \in Nat
    BY Sizes
  <1>3. LastRefused => LastRefused'
    BY <1>1 DEF LastRefused
  <1> QED BY <1>1, <1>2, <1>3 DEF Lined

LEMMA LinedThreads ==
  ASSUME IInv, Lined, 0 < Interval, transport = "tls",
         \/ Connect \/ StopRefresh \/ Disconnect \/ PollRegistration \/ Refresh
         \/ ReadTimesOut \/ ReadRaises \/ ProxyTrouble \/ UNCHANGED vars
  PROVE  Lined'
  <1> USE DEF connVars, netVars, proxyVars
  <1>0. /\ Interval' = Interval /\ InFlight \in Nat /\ Pending \in Nat /\ Arrived \in Nat
        /\ InFlight = Pending + Arrived
        /\ step \in 0..2 /\ timer \in 0..1 /\ age \in 0..Expires /\ Channels
        /\ Interval \in Int /\ MaxPipe \in Nat \ {0}
    BY Sizes DEF IInv, Numbers, Interval
  <1>1. ASSUME up' = <<Request(FALSE)>> \/ up' = << >>, down' = << >>,
               link' = "up" \/ up' = << >>,
               thread' \in {"due", "refreshing"} => age' >= Interval
        PROVE  Lined'
    <2>1. /\ Pending' = InFlight' /\ InFlight' \in 0..1
          /\ up' = << >> => InFlight' = 0
          /\ \A i \in 1..InFlight' : ~Good(i)'
      BY <1>1, QueueNew
    <2>2. LastRefused'
      BY <2>1 DEF LastRefused
    <2>3. link' # "up" => Pending' = 0
      BY <1>1, <2>1
    <2>4. InFlight' <= MaxPipe /\ InFlight' <= MaxPipe + 1
      BY <1>0, <2>1
    <2>5. \A i \in 1..InFlight' - 1 : ~(Good(i)' /\ Good(i + 1)')
      <3>1. \A n \in 0..1 : \A i \in 1..n - 1 : FALSE
        OBVIOUS
      <3> QED BY <2>1, <3>1, Zenon
    <2>6. InFlight' > 0 => ~Good(1)'
      BY <2>1
    <2> QED BY <1>0, <1>1, <2>2, <2>3, <2>4, <2>5, <2>6 DEF Lined
  <1>2. CASE Connect
    <2>1. /\ up' = <<Request(FALSE)>> \/ up' = << >>
          /\ down' = << >> /\ (link' = "up" \/ up' = << >>) /\ thread' = thread
      BY <1>2, Zenon DEF Connect, Dial, DialFails
    <2>2. thread = "off"
      BY <1>2 DEF Connect, IInv, Places
    <2> QED BY <1>1, <2>1, <2>2
  <1>3. CASE Disconnect
    <2>1. /\ up' = << >> /\ down' = << >> /\ thread' = thread /\ age' = age
      BY <1>3, Zenon DEF Disconnect
    <2> QED BY <1>0, <1>1, <2>1 DEF Lined
  <1>4. CASE StopRefresh \/ ProxyTrouble \/ UNCHANGED vars
    <2>1. UNCHANGED <<up, down, link, step, timer, thread, age>>
      BY <1>4, Zenon DEF StopRefresh, ProxyTrouble, vars
    <2> QED BY <1>0, <2>1, LinedStays DEF Lined
  <1>5. CASE PollRegistration
    <2>1. UNCHANGED <<up, down, link, step, age>> /\ thread = "wait"
      BY <1>5, Zenon DEF PollRegistration
    <2>2. step = 0 /\ (known => registered)
      BY <2>1 DEF IInv, Places
    <2>3. thread' = "due" => age >= Interval
      BY <1>0, <1>5, <2>2 DEF PollRegistration, Unexpired, Interval
    <2>4. thread' \in {"off", "due", "wait"}
      BY <1>5, Zenon DEF PollRegistration
    <2>5. InFlight <= MaxPipe
      BY <2>2 DEF Lined
    <2> QED BY <1>0, <2>1, <2>2, <2>3, <2>4, <2>5, LinedStays
  <1>6. CASE Refresh
    <2>1. thread = "due" /\ step = 0 /\ age' = age /\ age >= Interval
      BY <1>6 DEF Refresh, Lined
    <2>2. \/ /\ Send(Request(FALSE)) /\ link' = link /\ down' = down
             /\ thread' = "refreshing" /\ step' = 1 /\ timer' = 1
          \/ UNCHANGED <<up, down, link, step>> /\ thread' = "wait"
          \/ /\ up' = <<Request(FALSE)>> \/ up' = << >>
             /\ down' = << >> /\ (link' = "up" \/ up' = << >>)
      BY <1>6, Zenon DEF Refresh, Dial, DialFails
    <2>3. CASE UNCHANGED <<up, down, link, step>> /\ thread' = "wait"
      BY <1>0, <2>1, <2>3, LinedStays DEF Lined
    <2>4. CASE /\ up' = <<Request(FALSE)>> \/ up' = << >>
               /\ down' = << >> /\ (link' = "up" \/ up' = << >>)
      BY <1>0, <1>1, <2>1, <2>4
    <2>5. CASE /\ Send(Request(FALSE)) /\ link' = link /\ down' = down
               /\ thread' = "refreshing" /\ step' = 1 /\ timer' = 1
      <3> DEFINE r == Request(FALSE)
                 n == 0
      <3>1. r \in Requests /\ r.auth = FALSE
        BY RequestTypes, Zenon DEF Request
      <3>2. up' = IF link = "up" THEN Append(up, r) ELSE up
        BY <2>5 DEF Send
      <3> HIDE DEF r
      <3>3. /\ n \in Nat /\ Len(down') = Len(down) - n /\ n <= Len(down)
            /\ \A i \in 1..Len(down') : down'[i] = down[i + n]
        BY <1>0, <2>5 DEF Channels
      <3> HIDE DEF n
      <3>4. /\ \A i \in 1..InFlight - n : Good(i)' = Good(i + n)
            /\ up' = up => Pending' = Pending /\ InFlight' = InFlight - n
            /\ up' = Append(up, r) => /\ Pending' = Pending + 1 /\ InFlight' = InFlight - n + 1
            /\ up' = Append(up, r) =>
                 \A k : k = InFlight - n + 1 => Good(k)' = (r.auth = TRUE)
        BY <1>0, <3>1, <3>2, <3>3, QueueRead
      <3> USE DEF n
      <3>5. \A i \in 1..InFlight : Good(i)' = Good(i)
        BY <1>0, <3>4
      <3>6. InFlight <= MaxPipe
        BY <2>1 DEF Lined
      <3>7. CASE link = "up"
        <4>0. up' = Append(up, r) /\ InFlight - n + 1 = InFlight + 1
          BY <1>0, <3>2, <3>7
        <4>1. /\ InFlight' = InFlight + 1 /\ \A k : k = InFlight + 1 => ~Good(k)'
          <5>1. InFlight' = InFlight + 1
            BY <3>4, <4>0
          <5>2. \A k : k = InFlight + 1 => Good(k)' = (r.auth = TRUE)
            BY <3>4, <4>0
          <5> QED BY <3>1, <5>1, <5>2
        <4>2. LastRefused'
          BY <4>1 DEF LastRefused
        <4>3. \A i \in 1..InFlight' - 1 : ~(Good(i)' /\ Good(i + 1)')
          <5> SUFFICES ASSUME NEW i \in 1..InFlight, Good(i)', Good(i + 1)' PROVE FALSE
            BY <1>0, <4>1
          <5>1. i # InFlight
            BY <4>1
          <5>2. i \in 1..InFlight - 1 /\ i + 1 \in 1..InFlight
            BY <1>0, <5>1
          <5> QED BY <3>5, <5>2 DEF Lined
        <4> QED BY <1>0, <2>1, <2>5, <3>6, <3>7, <4>1, <4>2, <4>3 DEF Lined
      <3>8. CASE link # "up"
        <4>1. InFlight' = InFlight /\ Pending' = Pending
          BY <1>0, <3>2, <3>4, <3>8
        <4>2. \A i \in 1..InFlight - 1 : ~(Good(i)' /\ Good(i + 1)')
          <5> SUFFICES ASSUME NEW i \in 1..InFlight - 1, Good(i)', Good(i + 1)' PROVE FALSE
            OBVIOUS
          <5>2. i \in 1..InFlight /\ i + 1 \in 1..InFlight
            BY <1>0
          <5> QED BY <3>5, <5>2 DEF Lined
        <4> QED BY <1>0, <2>1, <2>5, <3>6, <3>8, <4>1, <4>2 DEF Lined
      <3> QED BY <3>7, <3>8
    <2> QED BY <2>2, <2>3, <2>4, <2>5
  <1>7. CASE ReadTimesOut \/ ReadRaises
    <2>1. /\ step # 0 /\ step' = 0 /\ UNCHANGED <<up, down, link, age>>
          /\ \/ thread' = thread
             \/ main # "connecting" /\ thread' = "wait"
          /\ timer = 0 \/ (link = "broken" /\ down = << >>)
      BY <1>7, Zenon DEF ReadTimesOut, ReadRaises, Raised
    <2>2. main # "connecting" => age >= Interval
      BY <2>1 DEF IInv, Places, Lined
    <2>3. InFlight <= MaxPipe
      <3>1. down = << >> => Arrived = 0
        BY DEF Arrived
      <3> QED BY <1>0, <2>1, <3>1 DEF Lined
    <2> QED BY <1>0, <2>1, <2>2, <2>3, LinedStays DEF Lined
  <1> QED BY <1>2, <1>3, <1>4, <1>5, <1>6, <1>7

LEMMA LinedReads ==
  ASSUME IInv, Lined, 0 < Interval, transport = "tls", ReadAnswer \/ ReadProvisional
  PROVE  Lined'
  <1> USE DEF connVars, netVars, proxyVars
  <1>0. /\ Interval' = Interval /\ InFlight \in Nat /\ Pending \in Nat /\ Arrived \in Nat
        /\ InFlight = Pending + Arrived
        /\ step \in 0..2 /\ timer \in 0..1 /\ age \in 0..Expires /\ Channels
        /\ Interval \in Int /\ MaxPipe \in Nat \ {0}
    BY Sizes DEF IInv, Numbers, Interval
  <1> DEFINE r == Request(TRUE)
  <1>1. r \in Requests
    BY RequestTypes
  <1>2. /\ step # 0 /\ Read /\ link' = link
        /\ up' = up \/ (link = "up" /\ up' = Append(up, r) /\ step = 1 /\ step' = 2)
    <2>1. ReadAnswer => Succeeds \/ Repeats \/ Fails
      BY AnswerCases
    <2>2. ReadAnswer => up' = up \/ (Send(r) /\ step = 1 /\ step' = 2)
      BY <2>1, Zenon DEF Succeeds, Repeats, Fails
    <2>3. Send(r) => up' = up \/ (link = "up" /\ up' = Append(up, r))
      BY DEF Send
    <2>4. /\ step # 0 /\ Read /\ link' = link
          /\ ReadProvisional => up' = up
      BY Zenon DEF ReadAnswer, ReadProvisional
    <2> QED BY <2>2, <2>3, <2>4
  <1> HIDE DEF r
  <1>3. /\ Arrived > 0
        /\ Good(1) = (Head(down) = 200)
        /\ \A i \in 1..InFlight - 1 : Good(i)' = Good(i + 1)
        /\ up' = up => Pending' = Pending /\ InFlight' = InFlight - 1
        /\ up' = Append(up, r) => Pending' = Pending + 1 /\ InFlight' = InFlight
    BY <1>0, <1>1, <1>2, RecordRead, ZenonT(30)
  <1>4. \A i \in 1..InFlight - 2 : ~(Good(i)' /\ Good(i + 1)')
    <2> SUFFICES ASSUME NEW i \in 1..InFlight - 2, Good(i)', Good(i + 1)' PROVE FALSE
      OBVIOUS
    <2>1. i \in 1..InFlight - 1 /\ i + 1 \in 1..InFlight - 1
      BY <1>0
    <2>2. Good(i + 1) /\ Good(i + 1 + 1)
      BY <1>3, <2>1
    <2> QED BY <2>1, <2>2 DEF Lined
  <1>5. CASE up' = up
    <2>1. InFlight' = InFlight - 1 /\ Pending' = Pending /\ InFlight' \in Nat
      BY <1>0, <1>3, <1>5
    <2>2. \A i \in 1..InFlight' - 1 : ~(Good(i)' /\ Good(i + 1)')
      <3> SUFFICES ASSUME NEW i \in 1..InFlight' - 1 PROVE ~(Good(i)' /\ Good(i + 1)')
        OBVIOUS
      <3>1. i \in 1..InFlight - 2
        BY <1>0, <2>1
      <3> QED BY <1>4, <3>1
    <2>3. InFlight' <= MaxPipe
      BY <1>0, <2>1 DEF Lined
    <2>4. LastRefused => LastRefused'
      <3> SUFFICES ASSUME LastRefused, NEW k \in 1..InFlight', k = InFlight' PROVE ~Good(k)'
        BY DEF LastRefused
      <3>1. k \in 1..InFlight - 1 /\ k + 1 \in 1..InFlight /\ k + 1 = InFlight
        BY <1>0, <2>1
      <3>2. ~Good(k + 1)
        BY <3>1 DEF LastRefused
      <3> QED BY <1>3, <3>1, <3>2
    <2>5. Good(1) => (InFlight' > 0 => ~Good(1)')
      <3> SUFFICES ASSUME Good(1), InFlight' > 0 PROVE ~Good(1)'
        OBVIOUS
      <3>1. 1 \in 1..InFlight - 1
        BY <1>0, <2>1
      <3>2. Good(1)' = Good(1 + 1)
        BY <1>3, <3>1
      <3>3. ~Good(1 + 1)
        BY <3>1 DEF Lined
      <3> QED BY <3>2, <3>3
    <2>6. CASE ReadProvisional
      <3>1. UNCHANGED <<step, timer, thread, age>> /\ thread # "wait"
        <4>1. UNCHANGED <<step, timer, thread, age>>
          BY <2>6, Zenon DEF ReadProvisional
        <4> QED BY <1>2, <4>1 DEF IInv, Places
      <3> QED BY <1>0, <1>2, <2>1, <2>2, <2>3, <2>4, <3>1 DEF Lined
    <2>7. CASE ReadAnswer /\ Succeeds
      <3>1. step' = 0 /\ thread' = "wait" /\ Good(1)
        BY <1>3, <2>7 DEF Succeeds, Returned
      <3> QED BY <1>0, <1>2, <2>1, <2>2, <2>3, <2>5, <3>1 DEF Lined
    <2>8. CASE ReadAnswer /\ Repeats
      <3>1. step' = 2 /\ thread' = thread /\ age' = age /\ thread # "wait"
        BY <1>2, <2>8 DEF Repeats, IInv, Places
      <3> QED BY <1>0, <1>2, <2>1, <2>2, <2>3, <3>1 DEF Lined
    <2>9. CASE ReadAnswer /\ Fails
      <3>1. step' = 0 /\ age' = age
        BY <2>9 DEF Fails, Raised
      <3>2. \/ thread' = thread /\ thread # "wait"
            \/ thread' = "wait" /\ age >= Interval
        BY <1>2, <2>9 DEF Fails, Raised, IInv, Places, Lined
      <3> QED BY <1>0, <1>2, <2>1, <2>2, <2>3, <3>1, <3>2 DEF Lined
    <2> QED BY <2>6, <2>7, <2>8, <2>9, AnswerCases
  <1>6. CASE up' # up
    <2>1. /\ link = "up" /\ step = 1 /\ step' = 2 /\ up' = Append(up, r) /\ InFlight' = InFlight
      BY <1>2, <1>3, <1>6
    <2>2. ReadAnswer /\ Repeats
      <3>1. ReadAnswer
        BY <1>6 DEF ReadProvisional
      <3> QED BY <1>6, <3>1, AnswerCases DEF Succeeds, Fails
    <2>3. thread' = thread /\ age' = age /\ timer' = 1 /\ thread # "wait"
      BY <1>2, <2>2 DEF Repeats, IInv, Places
    <2>4. \A i \in 1..InFlight' - 1 : ~(Good(i)' /\ Good(i + 1)')
      <3> SUFFICES ASSUME NEW i \in 1..InFlight - 1, Good(i)', Good(i + 1)' PROVE FALSE
        BY <2>1
      <3>1. i = InFlight - 1
        BY <1>0, <1>4
      <3>2. Good(i + 1) /\ i + 1 \in 1..InFlight /\ i + 1 = InFlight
        BY <1>0, <1>3, <3>1
      <3> QED BY <2>1, <3>2 DEF Lined, LastRefused
    <2> QED BY <1>0, <1>2, <2>1, <2>3, <2>4 DEF Lined
  <1> QED BY <1>5, <1>6

LEMMA LinedProxy ==
  ASSUME IInv, Lined, 0 < Interval, transport = "tls",
         ProxyAnswers \/ ProxyRefuses \/ ProxyTries \/ LinkLost \/ Tick
  PROVE  Lined'
  <1> USE DEF connVars, netVars, proxyVars
  <1>0. /\ Interval' = Interval /\ InFlight \in Nat /\ Pending \in Nat /\ Arrived \in Nat
        /\ InFlight = Pending + Arrived
        /\ step \in 0..2 /\ timer \in 0..1 /\ age \in 0..Expires /\ Channels
        /\ Interval \in Int /\ MaxPipe \in Nat \ {0}
    BY Sizes DEF IInv, Numbers, Interval
  <1>1. CASE ProxyAnswers \/ ProxyRefuses
    <2>1. /\ up # << >> /\ up' = Tail(up) /\ UNCHANGED <<link, step, timer, thread, age>>
          /\ \E m \in Answers : down' = Append(down, m) /\ (m = 200 => Head(up).auth)
      BY <1>1, AnswerTypes DEF ProxyAnswers, ProxyRefuses, Deliver
    <2>2. PICK m \in Answers : down' = Append(down, m) /\ (m = 200 => Head(up).auth)
      BY <2>1
    <2>3. m = 200 => up[1].auth = TRUE
      <3>1. Head(up) = up[1] /\ up[1] \in Requests
        BY <1>0, <2>1 DEF Channels
      <3>2. up[1].auth \in BOOLEAN
        BY <3>1, Zenon DEF Requests
      <3> QED BY <2>2, <3>1, <3>2
    <2>4. /\ Pending' = Pending - 1 /\ InFlight' = InFlight /\ Pending > 0
          /\ \A i \in 1..InFlight : Good(i)' => Good(i)
      BY <1>0, <2>1, <2>2, <2>3, QueueAnswered
    <2>5. LastRefused => LastRefused'
      BY <2>4 DEF LastRefused
    <2>6. \A i \in 1..InFlight' - 1 : ~(Good(i)' /\ Good(i + 1)')
      <3> SUFFICES ASSUME NEW i \in 1..InFlight - 1, Good(i)', Good(i + 1)' PROVE FALSE
        BY <2>4
      <3>1. i \in 1..InFlight /\ i + 1 \in 1..InFlight
        BY <1>0
      <3> QED BY <2>4, <3>1 DEF Lined
    <2>7. InFlight > 0 /\ ~Good(1) => ~Good(1)'
      <3>1. InFlight > 0 => 1 \in 1..InFlight
        BY <1>0
      <3> QED BY <2>4, <3>1
    <2> QED BY <1>0, <2>1, <2>4, <2>5, <2>6, <2>7 DEF Lined
  <1>2. CASE ProxyTries
    <2>1. /\ up # << >> /\ up' = [up EXCEPT ![1].tried = TRUE] /\ down' = Append(down, 100)
          /\ UNCHANGED <<link, step, timer, thread, age>> /\ Len(up) + Len(down) < MaxPipe
      BY <1>2, Zenon DEF ProxyTries, Deliver
    <2>2. /\ Arrived' = Arrived + 1 /\ Pending' = Pending /\ InFlight' = InFlight + 1
          /\ \A i \in 1..Arrived : Good(i)' = Good(i)
          /\ \A i : i = Arrived + 1 => ~Good(i)'
          /\ \A i \in Arrived + 2..InFlight + 1 : Good(i)' = Good(i - 1)
      BY <1>0, <2>1, QueueTried
    <2>3. InFlight < MaxPipe /\ Pending > 0
      <3>1. Len(up) > 0
        BY <1>0, <2>1 DEF Channels
      <3> QED BY <2>1, <3>1 DEF InFlight, Pending, Arrived
    <2>4. \A i \in 1..InFlight' - 1 : ~(Good(i)' /\ Good(i + 1)')
      <3> SUFFICES ASSUME NEW i \in 1..InFlight, Good(i)', Good(i + 1)' PROVE FALSE
        BY <1>0, <2>2
      <3>1. i # Arrived + 1 /\ i + 1 # Arrived + 1
        BY <2>2
      <3>2. CASE i < Arrived
        <4>1. i \in 1..Arrived /\ i + 1 \in 1..Arrived /\ i \in 1..InFlight - 1
          BY <1>0, <2>3, <3>2
        <4> QED BY <2>2, <4>1 DEF Lined
      <3>3. CASE i > Arrived
        <4>1. /\ i \in Arrived + 2..InFlight + 1 /\ i + 1 \in Arrived + 2..InFlight + 1
              /\ i - 1 \in 1..InFlight - 1 /\ i + 1 - 1 = i - 1 + 1
          BY <1>0, <3>1, <3>3
        <4>2. Good(i - 1) /\ Good(i - 1 + 1)
          BY <2>2, <4>1
        <4> QED BY <4>1, <4>2 DEF Lined
      <3> QED BY <1>0, <3>1, <3>2, <3>3
    <2>5. LastRefused => LastRefused'
      <3> SUFFICES ASSUME LastRefused, NEW k \in 1..InFlight', k = InFlight' PROVE ~Good(k)'
        BY DEF LastRefused
      <3>1. /\ k \in Arrived + 2..InFlight + 1 /\ k - 1 \in 1..InFlight /\ k - 1 = InFlight
        BY <1>0, <2>2, <2>3
      <3>2. ~Good(k - 1)
        BY <3>1 DEF LastRefused
      <3> QED BY <2>2, <3>1, <3>2
    <2>6. (InFlight > 0 => ~Good(1)) => ~Good(1)'
      <3>1. CASE Arrived = 0
        <4>1. 1 = Arrived + 1
          BY <3>1
        <4> QED BY <2>2, <4>1
      <3>2. CASE Arrived # 0
        <4>1. 1 \in 1..Arrived /\ InFlight > 0
          BY <1>0, <3>2
        <4> QED BY <2>2, <4>1
      <3> QED BY <3>1, <3>2
    <2> QED BY <1>0, <2>1, <2>2, <2>3, <2>4, <2>5, <2>6, SMTT(30) DEF Lined
  <1>3. CASE LinkLost
    <2>1. up' = << >> /\ down' = down /\ UNCHANGED <<step, timer, thread, age>> /\ link' # "up"
      BY <1>3 DEF LinkLost
    <2>2. /\ InFlight' <= InFlight
          /\ \A i \in 1..InFlight' : i \in 1..InFlight /\ Good(i)' = Good(i)
      BY <1>0, <2>1, QueueLost
    <2>3. Pending' = 0 /\ InFlight' \in Nat
      BY <1>0, <2>1 DEF Pending, InFlight, Arrived, Channels
    <2>4. \A i \in 1..InFlight' - 1 : ~(Good(i)' /\ Good(i + 1)')
      <3>1. \A n \in Nat : n <= InFlight =>
              \A i \in 1..n - 1 : i \in 1..n /\ i + 1 \in 1..n /\ i \in 1..InFlight - 1
        BY <1>0
      <3>2. \A i \in 1..InFlight' - 1 :
              i \in 1..InFlight' /\ i + 1 \in 1..InFlight' /\ i \in 1..InFlight - 1
        BY <2>2, <2>3, <3>1, Zenon
      <3> QED BY <2>2, <3>2, Zenon DEF Lined
    <2>5. (InFlight > 0 => ~Good(1)) => (InFlight' > 0 => ~Good(1)')
      <3>1. InFlight' > 0 => 1 \in 1..InFlight' /\ InFlight > 0
        BY <1>0, <2>2, <2>3
      <3> QED BY <2>2, <3>1
    <2>6. InFlight' <= MaxPipe + 1 /\ (InFlight <= MaxPipe => InFlight' <= MaxPipe)
      BY <1>0, <2>2, <2>3 DEF Lined
    <2> QED BY <1>0, <2>1, <2>3, <2>4, <2>5, <2>6 DEF Lined
  <1>4. CASE Tick
    <2>1. /\ up' = [i \in 1..Len(up) |-> Waited(up[i])] /\ down' = down
          /\ UNCHANGED <<link, step, thread>> /\ Len(up) <= MaxPipe
          /\ step # 0 => down = << >>
          /\ thread # "due"
          /\ age' = age \/ (age < Expires /\ age' = age + 1)
      BY <1>4, Zenon DEF Tick, Idle
    <2>2. /\ Pending' = Pending /\ InFlight' = InFlight
          /\ \A i \in 1..InFlight : Good(i)' = Good(i)
      BY <1>0, <2>1, QueueAges
    <2>3. InFlight <= MaxPipe
      <3>1. Pending <= MaxPipe /\ (step # 0 => Arrived = 0)
        BY <2>1 DEF Pending, Arrived
      <3> QED BY <1>0, <3>1 DEF Lined
    <2>4. \A i \in 1..InFlight' - 1 : ~(Good(i)' /\ Good(i + 1)')
      <3> SUFFICES ASSUME NEW i \in 1..InFlight - 1, Good(i)', Good(i + 1)' PROVE FALSE
        BY <2>2
      <3>1. i \in 1..InFlight /\ i + 1 \in 1..InFlight
        BY <1>0
      <3> QED BY <2>2, <3>1 DEF Lined
    <2>5. (InFlight > 0 => ~Good(1)) => (InFlight' > 0 => ~Good(1)')
      <3>1. InFlight > 0 => 1 \in 1..InFlight
        BY <1>0
      <3> QED BY <2>2, <3>1
    <2>6. LastRefused => LastRefused'
      BY <2>2 DEF LastRefused
    <2>7. age' \in Int /\ age <= age'
      BY <1>0, <2>1
    <2> QED BY <1>0, <2>1, <2>2, <2>3, <2>4, <2>5, <2>6, <2>7 DEF Lined
  <1> QED BY <1>1, <1>2, <1>3, <1>4
-----------------------------------------------------------------------------
(* How old the 200s are that are still to be read over TLS.                *)

\* Half the ticks that n answers still to be read let a report go on without a grant.
Credit(n) == n * (Interval + 1)

LEMMA Credits ==
  ASSUME NEW n \in Int
  PROVE  /\ Credit(n) \in Int /\ Credit(n + 1) = Credit(n) + Interval + 1
         /\ Credit(n - 1) = Credit(n) - Interval - 1
         /\ 0 < Interval /\ n >= 0 => Credit(n) >= 0
         /\ Credit(0) = 0
  <1>1. Interval \in Int
    BY DEF Interval
  <1>2. 0 < Interval /\ n >= 0 => n * (Interval + 1) >= 0
    BY <1>1
  <1> QED BY <1>1, <1>2 DEF Credit

\* A 200 is the next to be read.
Lead == IF Arrived > 0 /\ down[1] = 200 THEN 1 ELSE 0

\* The thread will read on.
Watched == known /\ (step # 0 \/ (thread \in {"wait", "due"} /\ link # "broken"))

Slack ==
  IF thread = "wait" /\ age < Interval
    THEN 2 * age
    ELSE 2 * Interval - 2 + 2 * Lead + (IF thread = "wait" /\ timer = 1 THEN 0 ELSE 2)

Aged(i) == 2 * granted <= Credit(MaxPipe - i - Lead) + Slack

Credited ==
  /\ Watched => \A i \in 1..Arrived : down[i] = 200 => Aged(i)
  /\ known /\ Unread /\ step # 0 /\ (main = "connecting" \/ timer = 0) => granted = 0
  /\ known /\ registered /\ age < Interval => 2 * granted <= Credit(MaxPipe) + 2 * age

LeadMeans ==
  /\ Lead \in 0..1 /\ (Lead = 1 <=> (Arrived > 0 /\ down[1] = 200))
  /\ Lead = 1 => InFlight > 0 /\ Good(1)
  /\ Unread <=> \E i \in 1..Arrived : down[i] = 200

LEMMA LeadsHold == Channels => LeadMeans
  <1> SUFFICES ASSUME Channels PROVE LeadMeans
    OBVIOUS
  <1>1. Arrived > 0 /\ down[1] = 200 => InFlight > 0 /\ Good(1)
    BY Sizes DEF Good
  <1> QED BY <1>1 DEF LeadMeans, Lead, Unread, Arrived

LEMMA Leads ==
  ASSUME Channels
  PROVE  /\ Lead \in 0..1 /\ (Lead = 1 <=> (Arrived > 0 /\ down[1] = 200))
         /\ Lead = 1 => InFlight > 0 /\ Good(1)
         /\ Unread <=> \E i \in 1..Arrived : down[i] = 200
  BY LeadsHold DEF LeadMeans

LEMMA LeadsNext ==
  ASSUME Channels'
  PROVE  /\ Lead' \in 0..1 /\ (Lead' = 1 <=> (Arrived' > 0 /\ down'[1] = 200))
         /\ Lead' = 1 => InFlight' > 0 /\ Good(1)'
         /\ Unread' <=> \E i \in 1..Arrived' : down'[i] = 200
  <1>1. Channels' => LeadMeans'
    BY LeadsHold, PTL
  <1> QED BY <1>1 DEF LeadMeans

LEMMA SlackTypes ==
  ASSUME Numbers, Channels
  PROVE  Slack \in Int /\ Interval \in Int
  BY Leads DEF Slack, Numbers, Interval

\* A 200 that was granted in this instant is young enough wherever it is in the line.
GrantedNow == granted = 0
AllAged == \A i \in 1..Arrived : Aged(i)

LEMMA NowAged ==
  ASSUME 0 < Interval
  PROVE  IInv /\ Lined /\ GrantedNow => AllAged
  <1> SUFFICES ASSUME IInv, Lined, granted = 0, NEW i \in 1..Arrived PROVE Aged(i)
    BY DEF AllAged, GrantedNow
  <1>1. /\ InFlight \in Nat /\ Arrived \in Nat /\ Arrived <= InFlight
        /\ step \in 0..2 /\ timer \in 0..1 /\ age \in Nat /\ Interval \in Int /\ Channels
        /\ MaxPipe \in Nat /\ i \in Int /\ Lead \in 0..1
    BY Sizes, Leads DEF IInv, Numbers, Interval
  <1>2. /\ i <= MaxPipe + 1
        /\ i > MaxPipe => step # 0 /\ timer = 1
    BY <1>1 DEF Lined
  <1>3. thread = "wait" /\ age < Interval => Lead = 0 /\ step = 0
    BY <1>1, Leads DEF Lined, IInv, Places
  <1>4. step # 0 => thread # "wait"
    BY DEF IInv, Places
  <1>5. \A n \in Int : /\ Credit(n) \in Int /\ Credit(n - 1) = Credit(n) - Interval - 1
                       /\ n >= 0 => Credit(n) >= 0
                       /\ Credit(0) = 0
    BY Credits
  <1>6. CASE i <= MaxPipe
    <2> DEFINE n == MaxPipe - i
    <2>1. n \in Int /\ n >= 0
      BY <1>1, <1>6
    <2> HIDE DEF n
    <2>2. Credit(n) >= 0 /\ Credit(n) \in Int /\ Credit(n - 1) = Credit(n) - Interval - 1
      BY <1>5, <2>1
    <2>3. Lead = 0 => Credit(n - Lead) >= 0 /\ Credit(n - Lead) \in Int
      BY <2>1, <2>2
    <2>4. Lead = 1 => Credit(n - Lead) >= 0 - Interval - 1 /\ Credit(n - Lead) \in Int
      BY <1>1, <2>2
    <2>5. Lead = 0 => Slack >= 0
      BY <1>1 DEF Slack
    <2>6. Lead = 1 => Slack >= 2 * Interval
      BY <1>1, <1>3 DEF Slack
    <2>7. Slack \in Int
      BY SlackTypes DEF IInv
    <2> QED BY <1>1, <2>3, <2>4, <2>5, <2>6, <2>7 DEF Aged, n
  <1>7. CASE i > MaxPipe
    <2>1. MaxPipe - i = -1 /\ step # 0 /\ timer = 1 /\ thread # "wait"
      BY <1>1, <1>2, <1>4, <1>7
    <2>2. Slack = 2 * Interval + 2 * Lead
      BY <1>1, <2>1 DEF Slack
    <2>3. Credit(-1) = 0 - Interval - 1
      BY <1>1, <1>5
    <2>4. Credit(-2) = 0 - Interval - 1 - Interval - 1
      <3>1. -1 \in Int /\ -1 - 1 = -2
        OBVIOUS
      <3>2. Credit(-1 - 1) = Credit(-1) - Interval - 1
        BY <1>5, <3>1
      <3> QED BY <2>3, <3>1, <3>2
    <2>5. CASE Lead = 0
      <3>1. Credit(MaxPipe - i - Lead) = 0 - Interval - 1
        BY <1>1, <2>1, <2>3, <2>5
      <3> QED BY <1>1, <2>2, <2>5, <3>1 DEF Aged
    <2>6. CASE Lead = 1
      <3>1. MaxPipe - i - Lead = -2
        BY <1>1, <2>1, <2>6
      <3>2. Credit(MaxPipe - i - Lead) = 0 - Interval - 1 - Interval - 1
        BY <2>4, <3>1
      <3> QED BY <1>1, <2>2, <2>6, <3>2 DEF Aged
    <2> QED BY <1>1, <2>5, <2>6
  <1> QED BY <1>1, <1>6, <1>7

LEMMA GrantedNext ==
  ASSUME 0 < Interval
  PROVE  IInv' /\ Lined' /\ granted' = 0 => \A i \in 1..Arrived' : Aged(i)'
  <1>1. IInv' /\ Lined' /\ GrantedNow' => AllAged'
    BY NowAged, PTL
  <1> QED BY <1>1 DEF GrantedNow, AllAged

LEMMA AgedNext ==
  ASSUME NEW i \in Int, NEW l, NEW s, Lead' = l, Slack' = s,
         2 * granted' <= Credit(MaxPipe - i - l) + s
  PROVE  Aged(i)'
  BY DEF Aged, Credit, Interval

LEMMA SlackNext ==
  Slack' = IF thread' = "wait" /\ age' < Interval
             THEN 2 * age'
             ELSE 2 * Interval - 2 + 2 * Lead' + (IF thread' = "wait" /\ timer' = 1 THEN 0 ELSE 2)
  BY DEF Slack, Interval

LEMMA CreditedReads ==
  ASSUME IInv, IInv', Lined, Lined', Credited, 0 < Interval, transport = "tls",
         ReadAnswer \/ ReadProvisional
  PROVE  Credited'
  <1> USE DEF connVars, netVars, proxyVars
  <1>0. /\ Arrived \in Nat /\ Lead \in 0..1 /\ Lead' \in 0..1
        /\ step \in 0..2 /\ timer \in 0..1 /\ age \in 0..Expires /\ Channels /\ Channels'
        /\ Interval \in Int /\ MaxPipe \in Nat \ {0} /\ granted \in Nat
    BY Sizes, Leads, LeadsNext DEF IInv, Numbers, Interval
  <1> DEFINE r == Request(TRUE)
  <1>1. r \in Requests
    BY RequestTypes
  <1>2. /\ step # 0 /\ Read /\ UNCHANGED <<known, granted>>
        /\ up' = up \/ up' = Append(up, r)
    <2>1. ReadAnswer => Succeeds \/ Repeats \/ Fails
      BY AnswerCases
    <2>2. ReadAnswer => up' = up \/ Send(r)
      BY <2>1, Zenon DEF Succeeds, Repeats, Fails
    <2>3. Send(r) => up' = up \/ up' = Append(up, r)
      BY DEF Send
    <2>4. /\ step # 0 /\ Read /\ UNCHANGED <<known, granted>>
          /\ ReadProvisional => up' = up
      BY Zenon DEF ReadAnswer, ReadProvisional
    <2> QED BY <2>2, <2>3, <2>4
  <1> HIDE DEF r
  <1>3. /\ Arrived > 0 /\ Arrived' = Arrived - 1 /\ Head(down) = down[1]
        /\ \A i \in 1..Arrived' : i + 1 \in 1..Arrived /\ down'[i] = down[i + 1]
    BY <1>0, <1>1, <1>2, RecordRead
  <1>4. /\ Lead = 1 <=> Head(down) = 200
        /\ Unread' => Unread
    <2>1. \A i \in 1..Arrived' : down'[i] = 200 => i + 1 \in 1..Arrived /\ down[i + 1] = 200
      BY <1>3
    <2>2. Unread' => Unread
      BY <1>0, <2>1, Leads, LeadsNext
    <2> QED BY <1>0, <1>3, <2>2, Leads
  <1>5. /\ main # "connecting" => thread = "refreshing" /\ age >= Interval
        /\ main = "connecting" => thread = "off"
    BY <1>2 DEF IInv, Places, Lined
  <1>6. thread # "wait" /\ Slack = 2 * Interval + 2 * Lead
    BY <1>0, <1>5 DEF Slack
  <1>7. known => \A i \in 1..Arrived' :
          down'[i] = 200 => 2 * granted <= Credit(MaxPipe - (i + 1) - Lead) + Slack
    <2>1. known => Watched
      BY <1>2 DEF Watched
    <2> QED BY <1>3, <2>1 DEF Credited, Aged
  <1>8. \A n \in Int : /\ Credit(n) \in Int /\ Credit(n - 1) = Credit(n) - Interval - 1
                       /\ n >= 0 => Credit(n) >= 0
    BY Credits
  <1>9. known /\ Unread /\ main = "connecting" => granted = 0
    BY <1>2 DEF Credited
  <1>10. granted' = 0 => \A i \in 1..Arrived' : Aged(i)'
    BY GrantedNext
  <1>11. CASE ReadAnswer /\ Succeeds
    <2>1. /\ thread' = "wait" /\ age' = 0 /\ step' = 0 /\ Lead = 1 /\ registered'
      BY <1>4, <1>11 DEF Succeeds, Returned, MarkRegistered
    <2>2. Lead' = 0
      BY <1>0, <2>1, LeadsNext DEF Lined
    <2>3. Slack' = 0
      BY <2>1, SlackNext
    <2>4. ASSUME known, NEW i \in 1..Arrived', down'[i] = 200 PROVE Aged(i)'
      <3>1. CASE main = "connecting"
        <4>1. Unread
          BY <1>0, <1>4, <2>4, LeadsNext
        <4> QED BY <1>2, <1>9, <1>10, <2>4, <3>1, <4>1
      <3>2. CASE main # "connecting"
        <4> DEFINE n == MaxPipe - i
        <4>1. n \in Int /\ MaxPipe - (i + 1) - 1 = n - 1 - 1 /\ i \in Int
          BY <1>0
        <4>2. Slack = 2 * Interval + 2
          BY <1>6, <2>1
        <4>3. 2 * granted <= Credit(n - 1 - 1) + 2 * Interval + 2
          <5>1. 2 * granted <= Credit(n - 1 - 1) + Slack
            BY <1>7, <2>1, <2>4, <4>1
          <5>2. Credit(n - 1 - 1) \in Int
            BY <1>8, <4>1
          <5> QED BY <1>0, <4>2, <5>1, <5>2
        <4> HIDE DEF n
        <4>4. Credit(n - 1 - 1) = Credit(n) - Interval - 1 - Interval - 1 /\ Credit(n) \in Int
          BY <1>8, <4>1
        <4>5. 2 * granted' <= Credit(n - 0) + 0
          BY <1>0, <1>2, <4>1, <4>3, <4>4
        <4> USE DEF n
        <4> QED BY <2>2, <2>3, <4>1, <4>5, AgedNext
      <3> QED BY <3>1, <3>2
    <2>5. known => 2 * granted <= Credit(MaxPipe)
      <3>1. CASE main = "connecting"
        <4>1. Unread
          BY <1>0, <1>3, <2>1, Leads
        <4> QED BY <1>0, <1>8, <1>9, <3>1, <4>1
      <3>2. CASE main # "connecting"
        <4>1. known => Aged(1)
          <5>1. known => Watched
            BY <1>2 DEF Watched
          <5> QED BY <1>0, <1>3, <2>1, <5>1, Leads DEF Credited
        <4>2. known => 2 * granted <= Credit(MaxPipe - 1 - 1) + 2 * Interval + 2
          <5>1. Credit(MaxPipe - 1 - 1) \in Int
            BY <1>0, <1>8
          <5> QED BY <1>0, <1>6, <2>1, <4>1, <5>1 DEF Aged
        <4>3. /\ Credit(MaxPipe - 1 - 1) = Credit(MaxPipe) - Interval - 1 - Interval - 1
              /\ Credit(MaxPipe) \in Int
          BY <1>0, <1>8
        <4> QED BY <1>0, <4>2, <4>3
      <3> QED BY <3>1, <3>2
    <2>6. known => 2 * granted' <= Credit(MaxPipe)' + 2 * age'
      <3>1. Credit(MaxPipe)' = Credit(MaxPipe) /\ Credit(MaxPipe) \in Int
        BY <1>0, <1>8 DEF Credit, Interval
      <3> QED BY <1>0, <1>2, <2>1, <2>5, <3>1
    <2> QED BY <1>2, <2>1, <2>4, <2>6 DEF Credited, Watched
  <1>12. CASE ReadProvisional \/ (ReadAnswer /\ (Repeats \/ Fails))
    <2>1. /\ UNCHANGED <<registered, age>> /\ Lead = 0
          /\ \/ thread' = thread /\ main' = main /\ step' # 0
                /\ (timer' = 1 \/ timer' = timer)
             \/ thread' = "wait" /\ timer' = 1 /\ step' = 0 /\ main # "connecting"
             \/ thread' = "off" /\ step' = 0
      <3>1. ReadProvisional => /\ UNCHANGED <<registered, age, thread, main, step, timer>>
        BY Zenon DEF ReadProvisional
      <3>2. ReadProvisional => Lead # 1
        BY <1>3, <1>4 DEF ReadProvisional, Received, Final
      <3>3. ReadAnswer /\ (Repeats \/ Fails) => Lead # 1
        BY <1>4 DEF Repeats, Fails
      <3>4. Repeats => UNCHANGED <<registered, age, thread, main>> /\ step' # 0 /\ timer' = 1
        BY DEF Repeats
      <3>5. Fails => /\ UNCHANGED <<registered, age>> /\ step' = 0
                     /\ \/ thread' = "wait" /\ timer' = 1 /\ main # "connecting"
                        \/ thread' = "off"
        BY <1>5 DEF Fails, Raised
      <3> QED BY <1>0, <1>2, <1>12, <3>1, <3>2, <3>3, <3>4, <3>5
    <2>2. main' = "connecting" => main = "connecting"
      BY <1>12, Zenon DEF ReadProvisional, Repeats, Fails, Raised
    <2>3. ASSUME known, NEW i \in 1..Arrived', down'[i] = 200, thread' # "off" \/ step' # 0
          PROVE  Aged(i)'
      <3>1. CASE main = "connecting"
        <4>1. Unread
          BY <1>0, <1>4, <2>3, LeadsNext
        <4> QED BY <1>2, <1>9, <1>10, <2>3, <3>1, <4>1
      <3>2. CASE main # "connecting"
        <4> DEFINE n == MaxPipe - i
        <4>1. n \in Int /\ MaxPipe - (i + 1) - 0 = n - 1 /\ i \in Int
          BY <1>0
        <4>2. 2 * granted <= Credit(n - 1) + 2 * Interval
          <5>1. 2 * granted <= Credit(n - 1) + Slack
            BY <1>7, <2>1, <2>3, <4>1
          <5>2. Credit(n - 1) \in Int
            BY <1>8, <4>1
          <5> QED BY <1>0, <1>6, <2>1, <5>1, <5>2
        <4> HIDE DEF n
        <4>3. Credit(n - 1) = Credit(n) - Interval - 1 /\ Credit(n) \in Int
          BY <1>8, <4>1
        <4>a. ~(thread' = "wait" /\ age' < Interval)
          BY <1>0, <1>5, <2>1, <3>2
        <4>b. \/ Slack' = 2 * Interval - 2 + 2 * Lead' + 0
              \/ Slack' = 2 * Interval - 2 + 2 * Lead' + 2
          BY <4>a, SlackNext, Zenon
        <4>4. Slack' \in Int /\ Slack' >= 2 * Interval - 2 + 2 * Lead'
          BY <1>0, <4>b
        <4>6. CASE Lead' = 0
          <5>1. 2 * granted' <= Credit(n - 0) + Slack'
            BY <1>0, <1>2, <4>1, <4>2, <4>3, <4>4, <4>6
          <5> USE DEF n
          <5> QED BY <4>1, <4>6, <5>1, AgedNext
        <4>7. CASE Lead' = 1
          <5>1. 2 * granted' <= Credit(n - 1) + Slack'
            BY <1>0, <1>2, <4>1, <4>2, <4>3, <4>4, <4>7
          <5> USE DEF n
          <5> QED BY <4>1, <4>7, <5>1, AgedNext
        <4> QED BY <1>0, <4>6, <4>7
      <3> QED BY <3>1, <3>2
    <2>4. ASSUME known, Unread', step' # 0, main' = "connecting" \/ timer' = 0
          PROVE  granted' = 0
      <3>1. Unread /\ (main = "connecting" \/ timer = 0)
        BY <1>4, <2>1, <2>2, <2>4
      <3> QED BY <1>2, <2>4, <3>1 DEF Credited
    <2>5. known /\ registered /\ age < Interval => 2 * granted' <= Credit(MaxPipe)' + 2 * age'
      <3>1. Credit(MaxPipe)' = Credit(MaxPipe)
        BY DEF Credit, Interval
      <3> QED BY <1>2, <2>1, <3>1 DEF Credited
    <2>6. Watched' => thread' # "off" \/ step' # 0
      BY DEF Watched
    <2>7. Interval' = Interval
      BY DEF Interval
    <2> QED BY <1>2, <2>1, <2>3, <2>4, <2>5, <2>6, <2>7 DEF Credited, Watched
  <1> QED BY <1>11, <1>12, AnswerCases

\* Nothing is read, nothing arrives and no time passes: what is to be read stays as old.
LEMMA AgedStays ==
  ASSUME Channels, UNCHANGED <<down, granted>>, Slack' = Slack,
         Watched' => Watched, Watched => \A i \in 1..Arrived : down[i] = 200 => Aged(i)
  PROVE  Watched' => \A i \in 1..Arrived' : down'[i] = 200 => Aged(i)'
  <1>1. Lead' = Lead /\ Arrived' = Arrived /\ Interval' = Interval
    BY DEF Lead, Arrived, Interval
  <1>2. ASSUME NEW i \in 1..Arrived, Aged(i) PROVE Aged(i)'
    BY <1>1, <1>2 DEF Aged, Credit
  <1> QED BY <1>1, <1>2

LEMMA CreditedThreads ==
  ASSUME IInv, IInv', Lined, Lined', Credited, 0 < Interval, transport = "tls",
         \/ Connect \/ StopRefresh \/ Disconnect \/ PollRegistration \/ Refresh
         \/ ReadTimesOut \/ ReadRaises
  PROVE  Credited'
  <1> USE DEF connVars, netVars, proxyVars
  <1>0. /\ Interval \in Int /\ Interval' = Interval /\ Channels /\ Channels'
        /\ step \in 0..2 /\ timer \in 0..1 /\ age \in 0..Expires
        /\ Credit(MaxPipe)' = Credit(MaxPipe)
    BY DEF IInv, Numbers, Interval, Credit
  <1>1. down' = << >> => Arrived' = 0 /\ ~Unread'
    BY DEF Arrived, Unread
  <1>2. down' = down => Lead' = Lead /\ (Unread' <=> Unread)
    BY DEF Lead, Arrived, Unread
  <1>3. CASE Connect
    <2>1. down' = << >> /\ registered' = registered /\ ~registered
      BY <1>3 DEF Connect, Dial, DialFails, IInv, Places
    <2> QED BY <1>1, <2>1 DEF Credited
  <1>4. CASE Disconnect
    BY <1>4 DEF Disconnect, Credited, Watched
  <1>5. CASE StopRefresh
    <2>1. /\ UNCHANGED <<thread, step, timer, known, registered, age, link, down, granted>>
          /\ main' # "connecting" /\ main # "connecting"
      BY <1>5 DEF StopRefresh
    <2>2. Slack' = Slack /\ (Watched' => Watched)
      BY <1>0, <1>2, <2>1 DEF Slack, Watched
    <2>3. Watched' => \A i \in 1..Arrived' : down'[i] = 200 => Aged(i)'
      BY <1>0, <2>1, <2>2, AgedStays DEF Credited
    <2> QED BY <1>0, <1>2, <2>1, <2>3 DEF Credited
  <1>6. CASE PollRegistration
    <2>1. /\ UNCHANGED <<main, step, known, registered, age, link, down, granted>>
          /\ thread = "wait" /\ thread' \in {"off", "due", "wait"} /\ step = 0
      <3>1. /\ UNCHANGED <<main, step, known, registered, age, link, down, granted>>
            /\ thread = "wait" /\ thread' \in {"off", "due", "wait"}
        BY <1>6, Zenon DEF PollRegistration
      <3> QED BY <3>1 DEF IInv, Places
    <2>2. CASE known /\ thread' # "off"
      <3>1. registered /\ timer = 0
        BY <1>6, <2>1, <2>2 DEF PollRegistration, IInv, Places
      <3>2. \/ thread' = "due" /\ age >= Interval
            \/ thread' = "wait" /\ age < Interval
        BY <1>0, <1>6, <2>1, <2>2, <3>1 DEF PollRegistration, Unexpired, Interval
      <3>3. Slack' = Slack /\ (Watched' => Watched)
        BY <1>0, <1>2, <2>1, <3>1, <3>2 DEF Slack, Watched
      <3>4. Watched' => \A i \in 1..Arrived' : down'[i] = 200 => Aged(i)'
        BY <1>0, <2>1, <3>3, AgedStays DEF Credited
      <3> QED BY <1>0, <2>1, <3>4 DEF Credited
    <2>3. CASE ~known \/ thread' = "off"
      <3>1. ~Watched'
        BY <2>1, <2>3 DEF Watched
      <3> QED BY <1>0, <2>1, <3>1 DEF Credited
    <2> QED BY <2>2, <2>3
  <1>7. CASE Refresh
    <2>1. /\ UNCHANGED <<main, known, registered, age, granted>>
          /\ thread = "due" /\ step = 0 /\ main # "connecting"
      BY <1>7 DEF Refresh, IInv, Places
    <2>2. CASE known
      <3>1. /\ UNCHANGED <<link, down>>
            /\ \/ link # "broken" /\ thread' = "refreshing" /\ step' = 1 /\ timer' = 1
               \/ link = "broken" /\ step' = 0
        BY <1>7, <2>1, <2>2 DEF Refresh, IInv, Places
      <3>2. CASE link # "broken"
        <4>1. Slack' = Slack /\ (Watched' => Watched)
          BY <1>0, <1>2, <2>1, <2>2, <3>1, <3>2 DEF Slack, Watched
        <4>2. Watched' => \A i \in 1..Arrived' : down'[i] = 200 => Aged(i)'
          BY <1>0, <2>1, <3>1, <4>1, AgedStays DEF Credited
        <4> QED BY <1>0, <2>1, <3>1, <3>2, <4>2 DEF Credited
      <3>3. CASE link = "broken"
        <4>1. ~Watched'
          BY <3>1, <3>3 DEF Watched
        <4> QED BY <1>0, <2>1, <3>1, <3>3, <4>1 DEF Credited
      <3> QED BY <3>2, <3>3
    <2>3. CASE ~known
      BY <2>1, <2>3 DEF Credited, Watched
    <2> QED BY <2>2, <2>3
  <1>8. CASE ReadTimesOut
    <2>1. /\ step # 0 /\ timer = 0 /\ step' = 0
          /\ UNCHANGED <<known, registered, age, link, down, granted>>
      BY <1>8 DEF ReadTimesOut, Raised
    <2>2. known /\ Unread => granted' = 0
      BY <2>1 DEF Credited
    <2>3. Watched' => \A i \in 1..Arrived' : down'[i] = 200 => Aged(i)'
      <3> SUFFICES ASSUME known, NEW i \in 1..Arrived', down'[i] = 200 PROVE Aged(i)'
        BY <2>1 DEF Watched
      <3>1. Unread'
        BY <1>0, LeadsNext
      <3> QED BY <1>2, <2>1, <2>2, <3>1, GrantedNext
    <2> QED BY <1>0, <2>1, <2>3 DEF Credited
  <1>9. CASE ReadRaises
    <2>1. /\ down = << >> /\ down' = << >>
          /\ UNCHANGED <<known, registered, age, granted>>
      BY <1>9 DEF ReadRaises
    <2> QED BY <1>0, <1>1, <2>1 DEF Credited
  <1> QED BY <1>3, <1>4, <1>5, <1>6, <1>7, <1>8, <1>9

LEMMA CreditedProxy ==
  ASSUME IInv, IInv', Lined, Lined', Credited, 0 < Interval, transport = "tls",
         \/ ProxyTries \/ ProxyAnswers \/ ProxyRefuses \/ ProxyTrouble \/ LinkLost
         \/ UNCHANGED vars
  PROVE  Credited'
  <1> USE DEF connVars, netVars, proxyVars
  <1>0. /\ Interval \in Int /\ Interval' = Interval /\ Channels /\ Channels' /\ Arrived \in Nat
        /\ age \in 0..Expires /\ Credit(MaxPipe)' = Credit(MaxPipe) /\ Credit(MaxPipe) >= 0
        /\ Credit(MaxPipe) \in Int
    <2>1. Credit(MaxPipe) >= 0 /\ Credit(MaxPipe) \in Int
      BY Credits
    <2> QED BY <2>1, Sizes DEF IInv, Numbers, Interval, Credit
  <1>1. UNCHANGED <<main, thread, step, timer, known, registered, age>>
    BY Zenon DEF ProxyTries, ProxyAnswers, ProxyRefuses, ProxyTrouble, LinkLost, vars
  <1>2. CASE granted' = 0
    BY <1>0, <1>1, <1>2, GrantedNext DEF Credited
  <1>3. ASSUME granted' = granted, Lead' = Lead, link = "broken" => link' = "broken",
               \A i \in 1..Arrived' : down'[i] = 200 => (i \in 1..Arrived /\ down[i] = 200)
        PROVE  Credited'
    <2>1. Slack' = Slack /\ (Watched' => Watched)
      BY <1>0, <1>1, <1>3 DEF Slack, Watched
    <2>2. Unread' => Unread
      BY <1>0, <1>3, Leads, LeadsNext
    <2>3. ASSUME NEW i \in 1..Arrived', down'[i] = 200, Watched' PROVE Aged(i)'
      <3>1. Aged(i)
        BY <1>3, <2>1, <2>3 DEF Credited
      <3> QED BY <1>0, <1>3, <2>1, <3>1 DEF Aged, Credit
    <2> QED BY <1>0, <1>1, <1>3, <2>2, <2>3 DEF Credited
  <1>4. ASSUME NEW m \in Answers, m # 200, down' = Append(down, m), granted' = granted,
               link' = link
        PROVE  Credited'
    <2>1. /\ Len(down') = Len(down) + 1 /\ down'[Len(down) + 1] = m /\ Len(down) \in Nat
          /\ \A i \in 1..Len(down) : down'[i] = down[i]
      BY <1>0, <1>4 DEF Channels
    <2>2. \A i \in 1..Arrived' : down'[i] = 200 => (i \in 1..Arrived /\ down[i] = 200)
      <3> SUFFICES ASSUME NEW i \in 1..Len(down) + 1, down'[i] = 200
                   PROVE  i \in 1..Len(down) /\ down[i] = 200
        BY <2>1 DEF Arrived
      <3> QED BY <1>4, <2>1
    <2>3. Lead' = Lead
      <3>1. CASE Len(down) = 0
        BY <1>4, <2>1, <3>1 DEF Lead, Arrived
      <3>2. CASE Len(down) > 0
        BY <2>1, <3>2 DEF Lead, Arrived
      <3> QED BY <2>1, <3>1, <3>2
    <2> QED BY <1>3, <1>4, <2>2, <2>3
  <1>5. CASE ProxyAnswers
    <2>1. CASE Head(up).auth
      BY <1>2, <1>5, <2>1 DEF ProxyAnswers
    <2>2. CASE ~Head(up).auth
      <3>1. down' = Append(down, 401) /\ granted' = granted /\ link' = link
        BY <1>5, <2>2 DEF ProxyAnswers, Deliver
      <3> QED BY <1>4, <3>1, AnswerTypes
    <2> QED BY <2>1, <2>2
  <1>6. CASE ProxyTries \/ ProxyRefuses
    <2>1. /\ granted' = granted /\ link' = link
          /\ \E m \in Answers \ {200} : down' = Append(down, m)
      <3>1. granted' = granted /\ link' = link
        BY <1>6, Zenon DEF ProxyTries, ProxyRefuses
      <3>2. \/ down' = Append(down, 100) \/ down' = Append(down, 503)
            \/ down' = Append(down, 401)
        BY <1>6, Zenon DEF ProxyTries, ProxyRefuses, Deliver
      <3> QED BY <3>1, <3>2, AnswerTypes
    <2> QED BY <1>4, <2>1
  <1>7. CASE ProxyTrouble \/ LinkLost \/ UNCHANGED vars
    <2>1. granted' = granted /\ down' = down
      BY <1>7, Zenon DEF ProxyTrouble, LinkLost, vars
    <2>2. link = "broken" => link' = "broken"
      BY <1>7 DEF ProxyTrouble, LinkLost, vars
    <2>3. Lead' = Lead /\ Arrived' = Arrived
      BY <2>1 DEF Lead, Arrived
    <2> QED BY <1>3, <2>1, <2>2, <2>3
  <1> QED BY <1>5, <1>6, <1>7

LEMMA CreditedTick ==
  ASSUME IInv, IInv', Lined, Lined', Credited, 0 < Interval, transport = "tls", Tick
  PROVE  Credited'
  <1>1. /\ UNCHANGED <<main, thread, step, known, registered, link, down>>
        /\ timer' = Decrement(timer)
        /\ granted' = IF granted < Long THEN granted + 1 ELSE granted
    BY DEF Tick
  <1>2. registered => age' = IF age < Expires THEN age + 1 ELSE age
    BY DEF Tick
  <1>3. /\ timer \in 0..1 /\ age \in 0..Expires /\ granted \in 0..Long
        /\ granted' \in Int /\ granted' <= granted + 1 /\ timer' = 0
        /\ Interval \in Int /\ Interval' = Interval /\ Channels /\ Channels'
        /\ Credit(MaxPipe)' = Credit(MaxPipe) /\ Credit(MaxPipe) \in Int
    <2>1. Credit(MaxPipe) \in Int
      BY Credits
    <2> QED BY <1>1, <2>1 DEF IInv, Numbers, Decrement, Interval, Credit
  <1>4. /\ thread = "wait" => timer = 1
        /\ thread # "due"
        /\ step # 0 => down = << >>
    BY <1>3 DEF Tick, Idle
  <1>5. known /\ registered /\ age' < Interval => 2 * granted' <= Credit(MaxPipe) + 2 * age'
    <2> SUFFICES ASSUME known, registered, age' < Interval
                 PROVE  2 * granted' <= Credit(MaxPipe) + 2 * age'
      OBVIOUS
    <2>1. age' = age + 1 /\ age < Interval
      BY <1>2, <1>3 DEF Interval
    <2>2. 2 * granted <= Credit(MaxPipe) + 2 * age
      BY <2>1 DEF Credited
    <2> QED BY <1>3, <2>1, <2>2
  <1>6. Lead' = Lead /\ Arrived' = Arrived /\ (Unread' <=> Unread)
    BY <1>1 DEF Lead, Arrived, Unread
  <1>7. step # 0 => Arrived = 0 /\ ~Unread
    BY <1>4 DEF Arrived, Unread
  <1>8. ASSUME Watched', NEW i \in 1..Arrived', down'[i] = 200 PROVE Aged(i)'
    <2>1. step = 0 /\ known /\ thread = "wait" /\ link # "broken" /\ registered /\ Watched
      <3>1. step = 0
        BY <1>6, <1>7, <1>8
      <3> QED BY <1>1, <1>4, <1>8, <3>1 DEF Watched, IInv, Places
    <2>2. Aged(i) /\ i \in Int
      BY <1>1, <1>6, <1>8, <2>1 DEF Credited
    <2>3. Lead \in 0..1 /\ (age < Interval => Lead = 0)
      BY <1>3, <2>1, Leads DEF Lined
    <2>4. PICK c \in Int : c = Credit(MaxPipe - i - Lead)
      <3>1. MaxPipe - i - Lead \in Int
        BY <2>2, <2>3
      <3> QED BY <3>1, Credits
    <2>5. age' = IF age < Expires THEN age + 1 ELSE age
      BY <1>2, <2>1
    <2>6. Slack' = IF age' < Interval THEN 2 * age' ELSE 2 * Interval - 2 + 2 * Lead + 2
      BY <1>1, <1>3, <1>6, <2>1, SlackNext
    <2>7. Slack = IF age < Interval THEN 2 * age ELSE 2 * Interval - 2 + 2 * Lead
      BY <1>3, <1>4, <2>1, <2>3 DEF Slack
    <2>8. Slack' = Slack + 2
      <3>1. CASE age < Interval
        <4>1. age' = age + 1 /\ Lead = 0
          BY <1>3, <2>3, <2>5, <3>1 DEF Interval
        <4> QED BY <1>3, <2>6, <2>7, <3>1, <4>1
      <3>2. CASE ~(age < Interval)
        <4>1. ~(age' < Interval)
          BY <1>3, <2>5, <3>2
        <4> QED BY <1>3, <2>3, <2>6, <2>7, <3>2, <4>1
      <3> QED BY <3>1, <3>2
    <2>9. 2 * granted <= c + Slack
      BY <2>2, <2>4 DEF Aged
    <2>10. 2 * granted' <= Credit(MaxPipe - i - Lead) + Slack'
      <3>1. PICK s \in Int : s = Slack
        BY SlackTypes DEF IInv
      <3>2. \A g \in Int : g <= granted + 1 => 2 * g <= c + (s + 2)
        <4>1. 2 * granted <= c + s /\ granted \in Int
          BY <1>3, <2>9, <3>1
        <4> QED BY <4>1
      <3>3. 2 * granted' <= c + (s + 2)
        BY <1>3, <3>2, Zenon
      <3> QED BY <2>4, <2>8, <3>1, <3>3, Zenon
    <2> QED BY <1>6, <2>2, <2>10, AgedNext
  <1> QED BY <1>1, <1>3, <1>5, <1>6, <1>7, <1>8 DEF Credited

-----------------------------------------------------------------------------
\* Over TLS.
LineInv == IInv /\ (transport = "tls" => Lined /\ Credited)

LEMMA LineInit == Init => LineInv
  <1> SUFFICES ASSUME Init PROVE Lined /\ Credited /\ IInv
    BY DEF LineInv
  <1>1. IInv
    BY InitEstablishes
  <1>2. Arrived = 0 /\ Pending = 0 /\ InFlight = 0 /\ ~known /\ thread = "off" /\ step = 0
    BY DEF Init, Arrived, Pending, InFlight
  <1>3. Lined
    BY <1>2 DEF Lined
  <1> QED BY <1>1, <1>2, <1>3 DEF Credited, Watched

LEMMA LineKept ==
  ASSUME LineInv, [Next]_vars, 0 < Interval
  PROVE  LineInv'
  <1>1. IInv /\ IInv' /\ transport' = transport
    BY NextKeeps, TransportKept DEF LineInv
  <1> SUFFICES ASSUME transport = "tls" PROVE Lined' /\ Credited'
    BY <1>1 DEF LineInv
  <1>2. Lined /\ Credited
    BY DEF LineInv
  <1>3. Lined'
    BY <1>1, <1>2, LinedThreads, LinedReads, LinedProxy, Zenon DEF Next
  <1>4. Credited'
    BY <1>1, <1>2, <1>3, CreditedThreads, CreditedReads, CreditedProxy, CreditedTick, Zenon DEF Next
  <1> QED BY <1>3, <1>4

\* GET /health stops reporting a registration that the proxy no longer renews, whatever
\* answers came late, were lost or were taken for others: over TCP within two refresh
\* intervals, over TLS within half an interval more for every response still to be read.
THEOREM ReportsEnd == Spec => []StaleReportEnds
  <1>1. LineInv => StaleReportEnds
    <2> SUFFICES ASSUME LineInv, IsRegistered
                 PROVE  2 * granted < IF transport = "tcp"
                                        THEN 4 * Interval
                                        ELSE (MaxPipe + 2) * (Interval + 1)
      BY DEF StaleReportEnds
    <2>1. /\ known /\ registered /\ age < Interval /\ age \in Nat /\ granted \in Nat
          /\ Interval \in Int /\ transport \in {"tcp", "tls"}
      BY DEF IsRegistered, Unexpired, Interval, LineInv, IInv, Numbers, Names
    <2>2. CASE transport = "tcp"
      <3>1. granted <= Interval + age
        BY <2>1, <2>2 DEF LineInv, IInv, ReportAge
      <3> QED BY <2>1, <2>2, <3>1
    <2>3. CASE transport = "tls"
      <3>1. 2 * granted <= Credit(MaxPipe) + 2 * age
        BY <2>1, <2>3 DEF LineInv, Credited
      <3>2. Credit(MaxPipe + 1 + 1) = Credit(MaxPipe) + Interval + 1 + Interval + 1
        <4>1. MaxPipe \in Int /\ MaxPipe + 1 \in Int
          OBVIOUS
        <4>2. Credit(MaxPipe) \in Int
          BY <4>1, Credits
        <4> QED BY <2>1, <4>1, <4>2, Credits
      <3>3. Credit(MaxPipe + 1 + 1) = (MaxPipe + 2) * (Interval + 1)
        <4>1. MaxPipe + 1 + 1 = MaxPipe + 2
          OBVIOUS
        <4> QED BY <4>1 DEF Credit
      <3>4. Credit(MaxPipe) \in Int
        BY Credits
      <3>5. 2 * granted < Credit(MaxPipe + 1 + 1)
        BY <2>1, <3>1, <3>2, <3>4
      <3> QED BY <2>3, <3>3, <3>5
    <2> QED BY <2>1, <2>2, <2>3
  <1>2. CASE 0 < Interval
    <2>1. LineInv /\ [Next]_vars => LineInv'
      BY <1>2, LineKept
    <2> QED BY <1>1, <2>1, LineInit, PTL DEF Spec
  <1>3. CASE ~(0 < Interval)
    <2>1. IInv => StaleReportEnds
      <3> SUFFICES ASSUME IInv, IsRegistered PROVE FALSE
        BY DEF StaleReportEnds
      <3> QED BY <1>3 DEF IsRegistered, Unexpired, Interval, IInv, Numbers
    <2> QED BY <2>1, InitEstablishes, NextKeeps, PTL DEF Spec
  <1> QED BY <1>2, <1>3
-----------------------------------------------------------------------------
(* The binding of a healthy proxy.  Late answers shift the attempts against *)
(* the requests: which answers are on their way, and since when, bounds the *)
(* time until the next grant.  At most three are, T for one that grants and *)
(* F for one that does not, the first to be read first.                     *)

None == InFlight = 0
WordF == InFlight = 1 /\ ~Good(1)
WordT == InFlight = 1 /\ Good(1)
WordFF == InFlight = 2 /\ ~Good(1) /\ ~Good(2)
WordFT == InFlight = 2 /\ ~Good(1) /\ Good(2)
WordTF == InFlight = 2 /\ Good(1) /\ ~Good(2)
WordFTF == InFlight = 3 /\ ~Good(1) /\ Good(2) /\ ~Good(3)
WordTFT == InFlight = 3 /\ Good(1) /\ ~Good(2) /\ Good(3)

\* How long the proxy may still take for the last request; the first, or all, are due.
Left == MaxDelay - up[Len(up)].wait
FirstLate == up[1].wait = MaxDelay
AllLate == \A i \in 1..Len(up) : up[i].wait = MaxDelay

OnlyFinals == \A i \in 1..Len(down) : down[i] \in {200, 401}

\* Between two attempts.
RestNone ==
  None /\ granted + timer <= Interval + 1 /\ (age < Interval => granted <= age + 1)
RestF ==
  /\ WordF /\ granted + timer <= Interval + 3 /\ (age < Interval => granted <= age + 1)
  /\ timer = 0 => AllLate
RestT == WordT /\ Pending = 0 /\ age >= Interval /\ granted + timer <= 1
RestAskedT ==
  /\ WordT /\ Pending > 0 /\ age >= Interval /\ granted + Left <= Interval + 4
  /\ timer = 0 => Left = 0
RestFT ==
  /\ WordFT /\ Pending = 0 /\ granted <= age /\ granted <= Interval
  /\ thread = "wait" /\ timer = 1 /\ age >= Interval => granted = 0
RestAskedFT ==
  /\ WordFT /\ Pending > 0 /\ granted + Left <= Interval + 4 /\ (timer = 0 => Left = 0)
  /\ \/ age = 0
     \/ age = 1 /\ Left = 0
     \/ age >= Interval /\ thread = "wait" /\ timer = 1 /\ Left = 0
Between == RestNone \/ RestF \/ RestT \/ RestAskedT \/ RestFT \/ RestAskedFT

\* A REGISTER without credentials is the last thing sent.
FirstF == WordF /\ (thread = "refreshing" => granted + timer <= Interval + 2)
FirstFF ==
  /\ WordFF /\ timer = 1 /\ (thread = "refreshing" => granted <= Interval + 3)
  /\ Pending = 2 => FirstLate
FirstTF == WordTF /\ Arrived > 0 /\ thread = "refreshing" /\ timer = 1 /\ granted <= 1
FirstAskedTF ==
  /\ WordTF /\ Arrived = 0 /\ FirstLate
  /\ thread = "refreshing" /\ timer = 1 /\ granted <= Interval + 4
FirstFTF ==
  WordFTF /\ Arrived >= 2 /\ thread = "refreshing" /\ timer = 1 /\ granted <= Interval
FirstStep == FirstF \/ FirstFF \/ FirstTF \/ FirstAskedTF \/ FirstFTF

\* A REGISTER with credentials is.
SecondAsked ==
  /\ WordT \/ WordFT
  /\ Pending > 0 /\ (timer = 0 => Left = 0)
  /\ thread = "refreshing" => granted + timer <= Interval + 4
SecondGranted == (WordT \/ WordFT) /\ Pending = 0 /\ granted = 0
SecondTFT ==
  /\ WordTFT /\ transport = "tls" /\ Arrived > 0 /\ (Pending = 0 => granted = 0)
  /\ thread = "refreshing" /\ timer = 1 /\ granted <= Interval
SecondStep == SecondAsked \/ SecondGranted \/ SecondTFT

Timing ==
  /\ thread \in {"wait", "due"} => Between
  /\ thread = "due" => timer = 0
  /\ thread \in {"due", "refreshing"} => age >= Interval
  /\ step = 1 => FirstStep
  /\ step = 2 => SecondStep

Timely ==
  ~stop /\ main # "start" =>
    main \in {"connecting", "serving"} /\ known /\ OnlyFinals /\ Timing

\* The proxy answers in time, over a connection that lives.
Healthy == healthy /\ (link = "up" \/ stop \/ main = "start")

\* The service is running, over a connection that lives and to a healthy proxy.
Running ==
  /\ IInv /\ 1 < Interval /\ MaxDelay <= 1
  /\ ~stop /\ main \in {"connecting", "serving"} /\ known
  /\ OnlyFinals /\ Timing
  /\ healthy /\ link = "up"

LEMMA WaitTypes ==
  ASSUME Channels, NEW i \in 1..Len(up)
  PROVE  up[i].wait \in 0..MaxDelay
  <1>1. up[i] \in Requests
    BY DEF Channels
  <1> QED BY <1>1, Zenon DEF Requests

LEMMA Measures ==
  ASSUME Running
  PROVE  /\ Channels /\ Timing
         /\ 1 < Interval /\ Interval \in Int /\ Interval' = Interval /\ Expires = Interval + 6
         /\ step \in 0..2 /\ timer \in 0..1 /\ granted \in Nat /\ age \in 0..Expires
         /\ Pending \in Nat /\ Arrived \in Nat /\ InFlight = Pending + Arrived
         /\ Pending > 0 => Left \in 0..1
         /\ Pending = 0 => AllLate
         /\ Pending > 0 /\ AllLate => FirstLate
         /\ Pending = 1 /\ Left = 0 => FirstLate
  <1>1. Len(up) \in Nat /\ Len(down) \in Nat /\ Channels /\ MaxDelay \in Nat /\ MaxDelay <= 1
    BY SipRegistrationAssumption DEF Running, IInv, Channels
  <1>2. Len(up) > 0 => Left \in 0..1
    <2> SUFFICES ASSUME Len(up) > 0 PROVE Left \in 0..1
      OBVIOUS
    <2>1. up[Len(up)].wait \in 0..MaxDelay
      BY <1>1, WaitTypes
    <2> QED BY <1>1, <2>1 DEF Left
  <1>3. Len(up) = 0 => AllLate
    BY DEF AllLate
  <1>4. Len(up) > 0 /\ AllLate => FirstLate
    BY <1>1 DEF AllLate, FirstLate
  <1>5. Len(up) = 1 /\ Left = 0 => FirstLate
    <2> SUFFICES ASSUME Len(up) = 1, Left = 0 PROVE FirstLate
      OBVIOUS
    <2>1. up[1].wait \in 0..MaxDelay
      BY <1>1, WaitTypes
    <2> QED BY <1>1, <2>1 DEF Left, FirstLate
  <1>6. /\ step \in 0..2 /\ timer \in 0..1 /\ granted \in Nat /\ age \in 0..Expires
        /\ 1 < Interval /\ Timing /\ Expires \in Int
    BY SipRegistrationAssumption DEF Running, IInv, Numbers
  <1>7. Interval \in Int /\ Interval' = Interval /\ Expires = Interval + 6
    BY <1>6 DEF Interval, Margin
  <1> QED BY <1>1, <1>2, <1>3, <1>4, <1>5, <1>6, <1>7 DEF Pending, Arrived, InFlight

\* The same answers are on their way.
SameWords ==
  /\ InFlight' = InFlight
  /\ None' <=> None
  /\ WordF' <=> WordF
  /\ WordT' <=> WordT
  /\ WordFF' <=> WordFF
  /\ WordFT' <=> WordFT
  /\ WordTF' <=> WordTF
  /\ WordFTF' <=> WordFTF
  /\ WordTFT' <=> WordTFT

LEMMA WordsStay ==
  ASSUME Channels, InFlight' = InFlight, \A i \in 1..InFlight : Good(i)' = Good(i)
  PROVE  SameWords
  <1>1. InFlight \in Nat
    BY Sizes
  <1>2. /\ InFlight \in 1..3 => Good(1)' = Good(1)
        /\ InFlight \in 2..3 => Good(2)' = Good(2)
        /\ InFlight = 3 => Good(3)' = Good(3)
    BY <1>1
  <1> QED BY <1>1, <1>2
          DEF SameWords, None, WordF, WordT, WordFF, WordFT, WordTF, WordFTF, WordTFT

\* Nothing has happened to the queue.
SameChannels ==
  /\ SameWords
  /\ (AllLate' <=> AllLate) /\ (FirstLate' <=> FirstLate) /\ (OnlyFinals' <=> OnlyFinals)
  /\ Left' = Left /\ Pending' = Pending /\ Arrived' = Arrived

LEMMA ChannelsSame ==
  ASSUME Channels, UNCHANGED <<up, down>>
  PROVE  SameChannels
  <1>1. SameWords
    BY QueueSame, WordsStay
  <1> QED BY <1>1 DEF SameChannels, AllLate, FirstLate, OnlyFinals, Left, Pending, Arrived

\* A request without credentials is sent.
LEMMA WordsAsked ==
  ASSUME Running, Send(Request(FALSE)), UNCHANGED down
  PROVE  /\ Pending' = Pending + 1 /\ Arrived' = Arrived
         /\ OnlyFinals'
         /\ None => WordF'
         /\ WordF => WordFF'
         /\ WordT => WordTF'
         /\ WordFT => WordFTF'
         /\ Pending > 0 /\ FirstLate => FirstLate'
  <1> DEFINE r == Request(FALSE)
             n == 0
  <1>1. r \in Requests /\ r.auth = FALSE
    BY RequestTypes, Zenon DEF Request
  <1>2. up' = Append(up, r) /\ down' = down
    BY DEF Send, Running
  <1> HIDE DEF r
  <1>3. Channels /\ up \in Seq(Requests) /\ Len(up) \in Nat /\ Len(down) \in Nat
    BY Measures DEF Channels
  <1>4. n \in Nat /\ n <= Len(down) /\ Len(down') = Len(down) - n
        /\ \A i \in 1..Len(down') : down'[i] = down[i + n]
    BY <1>2, <1>3
  <1> HIDE DEF n
  <1>5. /\ Arrived' = Arrived - n
        /\ \A i \in 1..InFlight - n : Good(i)' = Good(i + n)
        /\ Pending' = Pending + 1 /\ InFlight' = InFlight - n + 1
        /\ \A k : k = InFlight - n + 1 => Good(k)' = (r.auth = TRUE)
    BY <1>1, <1>2, <1>3, <1>4, QueueRead
  <1> USE DEF n
  <1>6. /\ InFlight \in Nat /\ Arrived \in Nat /\ Arrived' = Arrived /\ InFlight' = InFlight + 1
        /\ InFlight > 0 => Good(1)' = Good(1)
        /\ InFlight > 1 => Good(2)' = Good(2)
    BY <1>3, <1>5, Sizes
  <1>11. /\ InFlight = 0 => 1 = InFlight - n + 1
         /\ InFlight = 1 => 2 = InFlight - n + 1
         /\ InFlight = 2 => 3 = InFlight - n + 1
    OBVIOUS
  <1> HIDE DEF n
  <1>12. /\ InFlight = 0 => ~Good(1)'
         /\ InFlight = 1 => ~Good(2)'
         /\ InFlight = 2 => ~Good(3)'
    BY <1>1, <1>5, <1>11, Zenon
  <1>7. /\ None => WordF'
        /\ WordF => WordFF'
        /\ WordT => WordTF'
        /\ WordFT => WordFTF'
    BY <1>6, <1>12 DEF None, WordF, WordT, WordFF, WordTF, WordFT, WordFTF
  <1>8. Len(up) > 0 => up'[1] = up[1]
    BY <1>1, <1>2, <1>3
  <1>9. Pending > 0 /\ FirstLate => FirstLate'
    BY <1>8 DEF Pending, FirstLate
  <1>10. OnlyFinals'
    BY <1>2 DEF OnlyFinals, Running
  <1> QED BY <1>5, <1>6, <1>7, <1>9, <1>10

\* The proxy answers the first request.
LEMMA WordsAnswered ==
  ASSUME Running, ProxyAnswers
  PROVE  /\ SameWords
         /\ Arrived' = Arrived + 1 /\ Pending' = Pending - 1 /\ Pending > 0
         /\ OnlyFinals'
         /\ AllLate => AllLate'
         /\ Pending > 1 => Left' = Left
         /\ \A k \in 1..3 : k = Arrived + 1 => /\ Good(k) => granted' = 0
                                               /\ ~Good(k) => granted' = granted
  <1> DEFINE m == IF Head(up).auth THEN 200 ELSE 401
  <1>1. /\ up # << >> /\ up' = Tail(up) /\ down' = Append(down, m) /\ m \in {200, 401}
        /\ m = 200 => granted' = 0
        /\ m = 401 => granted' = granted
    BY DEF ProxyAnswers, Deliver
  <1>2. up \in Seq(Requests) /\ down \in Seq(Answers) /\ Channels
    BY Measures DEF Channels
  <1>3. /\ Len(up) \in Nat /\ Len(up) > 0 /\ Len(up') = Len(up) - 1 /\ Head(up) = up[1]
        /\ \A i \in 1..Len(up') : up'[i] = up[i + 1] /\ i + 1 \in 1..Len(up)
    BY <1>1, <1>2
  <1>4. up[1].auth \in BOOLEAN
    <2>1. up[1] \in Requests
      BY <1>2, <1>3
    <2> QED BY <2>1, Zenon DEF Requests
  <1>5. (m = 200) = (up[1].auth = TRUE) /\ (m = 200 => up[1].auth = TRUE)
    BY <1>3, <1>4
  <1> HIDE DEF m
  <1>6. m \in Answers
    BY <1>1, AnswerTypes
  <1>7. /\ Arrived' = Arrived + 1 /\ Pending' = Pending - 1 /\ InFlight' = InFlight
        /\ Pending > 0
        /\ \A i \in 1..InFlight : i # Arrived + 1 => Good(i)' = Good(i)
        /\ \A i : i = Arrived + 1 => Good(i)' = (m = 200) /\ Good(i) = (up[1].auth = TRUE)
    BY <1>1, <1>2, <1>5, <1>6, QueueAnswered, ZenonT(30)
  <1>8. \A i \in 1..InFlight : Good(i)' = Good(i)
    BY <1>5, <1>7
  <1>9. SameWords
    BY <1>2, <1>7, <1>8, WordsStay
  <1>10. \A k \in 1..3 : k = Arrived + 1 => /\ Good(k) => granted' = 0
                                            /\ ~Good(k) => granted' = granted
    BY <1>1, <1>5, <1>7
  <1>11. OnlyFinals'
    <2>1. /\ Len(down) \in Nat /\ Len(down') = Len(down) + 1 /\ down'[Len(down) + 1] = m
          /\ \A i \in 1..Len(down) : down'[i] = down[i]
      BY <1>1, <1>2, <1>6
    <2> QED BY <1>1, <2>1 DEF OnlyFinals, Running
  <1>12. AllLate => AllLate'
    BY <1>3 DEF AllLate
  <1>13. Len(up) > 1 => Left' = Left
    <2> SUFFICES ASSUME Len(up) > 1 PROVE Left' = Left
      OBVIOUS
    <2>1. up'[Len(up')] = up[Len(up)]
      BY <1>3
    <2> QED BY <2>1 DEF Left
  <1> QED BY <1>7, <1>9, <1>10, <1>11, <1>12, <1>13 DEF Pending

\* Time passes: no answer was due.
LEMMA WordsAge ==
  ASSUME Running, Tick
  PROVE  /\ SameWords /\ Pending' = Pending /\ Arrived' = Arrived
         /\ OnlyFinals' /\ AllLate'
         /\ Pending > 0 => Left = 1 /\ Left' = 0 /\ ~FirstLate
  <1>1. /\ up' = [i \in 1..Len(up) |-> Waited(up[i])] /\ down' = down
        /\ \A i \in 1..Len(up) : up[i].wait < MaxDelay
    BY DEF Tick, Idle, Running
  <1>2. Channels /\ Len(up) \in Nat /\ Len(up') = Len(up) /\ up \in Seq(Requests)
    BY <1>1, Measures DEF Channels
  <1>3. SameWords /\ Pending' = Pending /\ Arrived' = Arrived
    BY <1>1, <1>2, QueueAges, WordsStay
  <1>4. \A i \in 1..Len(up) : up[i].wait = 0 /\ MaxDelay = 1
    <2> SUFFICES ASSUME NEW i \in 1..Len(up) PROVE up[i].wait = 0 /\ MaxDelay = 1
      OBVIOUS
    <2>1. up[i].wait \in 0..MaxDelay
      BY <1>2, WaitTypes
    <2> QED BY <1>1, <2>1, SipRegistrationAssumption DEF Running
  <1>5. \A i \in 1..Len(up) : up'[i].wait = MaxDelay
    <2> SUFFICES ASSUME NEW i \in 1..Len(up) PROVE up'[i].wait = MaxDelay
      OBVIOUS
    <2> DEFINE r == up[i]
               n == IF r.wait < MaxDelay THEN r.wait + 1 ELSE r.wait
    <2>1. up'[i] = [r EXCEPT !.wait = n]
      BY <1>1, Zenon DEF Waited
    <2>2. r \in Requests
      BY <1>2
    <2>4. n = MaxDelay
      BY <1>4
    <2> HIDE DEF n, r
    <2>3. [r EXCEPT !.wait = n].wait = n
      BY <2>2, Zenon DEF Requests
    <2> QED BY <2>1, <2>3, <2>4 DEF r
  <1>6. OnlyFinals'
    BY <1>1 DEF OnlyFinals, Running
  <1>7. AllLate'
    BY <1>2, <1>5, Zenon DEF AllLate
  <1>8. Len(up) > 0 => Left = 1 /\ Left' = 0 /\ ~FirstLate
    BY <1>2, <1>4, <1>5 DEF Left, FirstLate
  <1> QED BY <1>3, <1>6, <1>7, <1>8 DEF Pending

\* The answers that have arrived, or the first of them, are read, and nothing or a
\* request with credentials is sent.
LEMMA WordsRead ==
  ASSUME Running, Read, up' = up \/ Send(Request(TRUE))
  PROVE  /\ Received \in 1..Arrived /\ Arrived' = Arrived - Received /\ OnlyFinals'
         /\ transport = "tls" => Received = 1
         /\ transport = "tls" \/ Received = Arrived
         /\ Head(down) \in {200, 401} /\ (Head(down) = 200 <=> Good(1))
         /\ InFlight > Received /\ Received = 1 => (Good(1)' <=> Good(2))
         /\ InFlight > Received + 1 /\ Received = 1 => (Good(2)' <=> Good(3))
         /\ InFlight > Received /\ Received = 2 => (Good(1)' <=> Good(3))
         /\ up' = up => /\ InFlight' = InFlight - Received /\ Pending' = Pending /\ Left' = Left
         /\ Send(Request(TRUE)) => /\ InFlight' = InFlight - Received + 1 /\ Pending' = Pending + 1
                                   /\ InFlight = Received => Good(1)'
                                   /\ InFlight = Received + 1 => Good(2)'
                                   /\ InFlight = Received + 2 => Good(3)'
  <1>0. PICK n : n = Received
    OBVIOUS
  <1> DEFINE r == Request(TRUE)
  <1>1. r \in Requests /\ r.auth = TRUE
    BY RequestTypes, Zenon DEF Request
  <1>2. /\ up' = up \/ up' = Append(up, r)
        /\ Send(Request(TRUE)) => up' = Append(up, r)
    BY DEF Send, Running
  <1> HIDE DEF r
  <1>3. Channels /\ up \in Seq(Requests) /\ Len(up) \in Nat /\ transport \in {"tcp", "tls"}
    BY Measures DEF Channels, Running, IInv, Names
  <1>4. /\ Len(down) \in Nat /\ n \in 1..Len(down)
        /\ transport = "tls" => n = 1
        /\ transport = "tcp" => down' = << >>
        /\ down' \in Seq(Answers) /\ Len(down') = Len(down) - n
        /\ \A i \in 1..Len(down') : i + n \in 1..Len(down) /\ down'[i] = down[i + n]
    BY <1>0, <1>3, ReadShape
  <1>5. /\ n \in Nat /\ n <= Len(down) /\ Len(down') = Len(down) - n
        /\ \A i \in 1..Len(down') : down'[i] = down[i + n]
    BY <1>4
  <1>6. /\ Arrived' = Arrived - n
        /\ \A i \in 1..InFlight - n : Good(i)' = Good(i + n)
        /\ up' = up => Pending' = Pending /\ InFlight' = InFlight - n
        /\ up' = Append(up, r) => /\ Pending' = Pending + 1 /\ InFlight' = InFlight - n + 1
        /\ up' = Append(up, r) =>
             \A k : k = InFlight - n + 1 => Good(k)' = (r.auth = TRUE)
    BY <1>1, <1>2, <1>3, <1>5, QueueRead
  <1>7. InFlight \in Nat /\ Arrived = Len(down)
    BY <1>3, Sizes DEF Arrived
  <1>8. /\ InFlight > n /\ n = 1 => (Good(1)' <=> Good(2))
        /\ InFlight > n + 1 /\ n = 1 => (Good(2)' <=> Good(3))
        /\ InFlight > n /\ n = 2 => (Good(1)' <=> Good(3))
    BY <1>5, <1>6, <1>7, SMTT(30)
  <1>9. /\ InFlight = n => 1 = InFlight - n + 1
        /\ InFlight = n + 1 => 2 = InFlight - n + 1
        /\ InFlight = n + 2 => 3 = InFlight - n + 1
    BY <1>5, <1>7
  <1>10. up' = Append(up, r) => /\ InFlight = n => Good(1)'
                                /\ InFlight = n + 1 => Good(2)'
                                /\ InFlight = n + 2 => Good(3)'
    BY <1>1, <1>6, <1>9, Zenon
  <1>11. transport = "tls" \/ n = Arrived
    <2>1. transport = "tcp" => Len(down') = 0
      BY <1>4
    <2> QED BY <1>3, <1>4, <1>7, <2>1
  <1>12. Head(down) \in {200, 401} /\ (Head(down) = 200 <=> Good(1))
    <2>1. Head(down) = down[1] /\ down[1] \in {200, 401} /\ (down[1] = 200 <=> Good(1))
      BY <1>3, <1>4 DEF Channels, OnlyFinals, Running, Good, Arrived
    <2> QED BY <2>1
  <1>13. OnlyFinals'
    BY <1>4 DEF OnlyFinals, Running
  <1>14. up' = up => Left' = Left
    BY DEF Left
  <1>15. n \in 1..Arrived
    BY <1>4, <1>7
  <1>16. /\ up' = up => /\ InFlight' = InFlight - n /\ Pending' = Pending /\ Left' = Left
         /\ Send(Request(TRUE)) => /\ InFlight' = InFlight - n + 1 /\ Pending' = Pending + 1
                                   /\ InFlight = n => Good(1)'
                                   /\ InFlight = n + 1 => Good(2)'
                                   /\ InFlight = n + 2 => Good(3)'
    BY <1>2, <1>6, <1>10, <1>14, Zenon
  <1>17. /\ Received \in 1..Arrived /\ Arrived' = Arrived - Received
         /\ transport = "tls" => Received = 1
         /\ transport = "tls" \/ Received = Arrived
    BY <1>0, <1>4, <1>6, <1>11, <1>15
  <1>18. /\ InFlight > Received /\ Received = 1 => (Good(1)' <=> Good(2))
         /\ InFlight > Received + 1 /\ Received = 1 => (Good(2)' <=> Good(3))
         /\ InFlight > Received /\ Received = 2 => (Good(1)' <=> Good(3))
    BY <1>0, <1>8, Zenon
  <1>19. /\ up' = up => /\ InFlight' = InFlight - Received /\ Pending' = Pending
                        /\ Left' = Left
         /\ Send(Request(TRUE)) => /\ InFlight' = InFlight - Received + 1
                                   /\ Pending' = Pending + 1
                                   /\ InFlight = Received => Good(1)'
                                   /\ InFlight = Received + 1 => Good(2)'
                                   /\ InFlight = Received + 2 => Good(3)'
    BY <1>0, <1>16, Zenon
  <1> QED BY <1>12, <1>13, <1>17, <1>18, <1>19, Zenon

LEMMA TimingConnect ==
  ASSUME IInv, Connect, link' = "up"
  PROVE  main' = "connecting" /\ known' /\ OnlyFinals' /\ Timing'
  <1>1. Connect /\ Dial /\ main' = "connecting" /\ known'
    BY DEF Connect, DialFails
  <1>2. /\ thread' = "off" /\ step' = 1 /\ timer' = 1 /\ down' = << >>
        /\ up' = <<Request(FALSE)>>
    BY <1>1 DEF Connect, Dial, IInv, Places, ReadTimeout
  <1>3. Pending' = 1 /\ Pending' = InFlight' /\ (\A i \in 1..InFlight' : ~Good(i)')
    BY <1>2, QueueNew DEF Pending
  <1>4. OnlyFinals'
    BY <1>2 DEF OnlyFinals
  <1>5. InFlight' = 1 /\ ~Good(1)'
    BY <1>3
  <1>6. FirstStep'
    BY <1>2, <1>5 DEF FirstStep, FirstF, WordF
  <1> QED BY <1>1, <1>2, <1>4, <1>6 DEF Timing

LEMMA TimingPoll ==
  ASSUME Running, PollRegistration
  PROVE  OnlyFinals' /\ Timing'
  <1> USE DEF connVars, netVars, proxyVars
  <1>1. /\ thread = "wait" /\ timer = 0 /\ step' = step /\ age' = age /\ granted' = granted
        /\ UNCHANGED <<up, down>>
        /\ \/ thread' = "due" /\ timer' = 0 /\ age >= Interval
           \/ thread' = "wait" /\ timer' = 1 /\ ~(registered /\ age >= Interval)
    BY DEF PollRegistration, Running, Unexpired, Interval, IInv, Numbers, Poll
  <1>2. registered /\ step = 0
    BY <1>1 DEF Running, IInv, Places
  <1>3. Between
    BY <1>1, Measures DEF Timing
  <1>4. SameChannels /\ OnlyFinals'
    BY <1>1, ChannelsSame, Measures DEF SameChannels, Running
  <1>5. /\ SameWords /\ Pending' = Pending /\ Left' = Left /\ (AllLate' <=> AllLate)
        /\ InFlight' = InFlight
    BY <1>4 DEF SameChannels, SameWords
  <1>6. /\ 1 < Interval /\ Interval \in Int /\ Interval' = Interval /\ timer \in 0..1
        /\ granted \in Nat /\ age \in Nat /\ Pending \in Nat
        /\ Pending > 0 => Left \in 0..1
    BY Measures
  <1>7. CASE thread' = "due"
    <2>1. ASSUME RestNone PROVE Between'
      BY <1>1, <1>5, <1>6, <1>7, <2>1 DEF RestNone, SameWords, Between
    <2>2. ASSUME RestF PROVE Between'
      BY <1>1, <1>5, <1>6, <1>7, <2>2 DEF RestF, SameWords, Between
    <2>3. ASSUME RestT PROVE Between'
      BY <1>1, <1>5, <1>6, <1>7, <2>3 DEF RestT, SameWords, Between
    <2>4. ASSUME RestAskedT PROVE Between'
      BY <1>1, <1>5, <1>6, <1>7, <2>4 DEF RestAskedT, SameWords, Between
    <2>5. ASSUME RestFT PROVE Between'
      BY <1>1, <1>5, <1>6, <1>7, <2>5 DEF RestFT, SameWords, Between
    <2>6. ASSUME RestAskedFT PROVE Between'
      BY <1>1, <1>5, <1>6, <1>7, <2>6 DEF RestAskedFT, SameWords, Between
    <2>7. Between'
      BY <1>3, <2>1, <2>2, <2>3, <2>4, <2>5, <2>6 DEF Between
    <2> QED BY <1>1, <1>2, <1>4, <1>6, <1>7, <2>7 DEF Timing
  <1>8. CASE thread' = "wait"
    <2>0. age < Interval /\ timer' = 1
      BY <1>1, <1>2, <1>6, <1>8
    <2>1. ASSUME RestNone PROVE Between'
      BY <1>1, <1>5, <1>6, <2>0, <2>1 DEF RestNone, SameWords, Between
    <2>2. ASSUME RestF PROVE Between'
      BY <1>1, <1>5, <1>6, <2>0, <2>2 DEF RestF, SameWords, Between
    <2>3. ASSUME RestT \/ RestAskedT PROVE Between'
      BY <1>6, <2>0, <2>3 DEF RestT, RestAskedT
    <2>5. ASSUME RestFT PROVE Between'
      BY <1>1, <1>5, <1>6, <2>0, <2>5 DEF RestFT, SameWords, Between
    <2>6. ASSUME RestAskedFT PROVE Between'
      BY <1>1, <1>5, <1>6, <2>0, <2>6 DEF RestAskedFT, SameWords, Between
    <2>7. Between'
      BY <1>3, <2>1, <2>2, <2>3, <2>5, <2>6 DEF Between
    <2> QED BY <1>1, <1>2, <1>4, <1>6, <1>8, <2>7 DEF Timing
  <1> QED BY <1>1, <1>7, <1>8

LEMMA TimingRefresh ==
  ASSUME Running, Refresh
  PROVE  OnlyFinals' /\ Timing'
  <1> USE DEF connVars, netVars, proxyVars
  <1>1. /\ thread = "due" /\ step = 0 /\ age' = age /\ granted' = granted /\ UNCHANGED down
        /\ Send(Request(FALSE)) /\ thread' = "refreshing" /\ step' = 1 /\ timer' = 1
    <2>1. open
      BY DEF Running, IInv, Places
    <2> QED BY <2>1 DEF Refresh, Running, ReadTimeout
  <1>2. Between /\ timer = 0 /\ age >= Interval
    BY <1>1, Measures DEF Timing
  <1>3. /\ Pending' = Pending + 1 /\ Arrived' = Arrived
        /\ OnlyFinals'
        /\ None => WordF'
        /\ WordF => WordFF'
        /\ WordT => WordTF'
        /\ WordFT => WordFTF'
        /\ Pending > 0 /\ FirstLate => FirstLate'
    BY <1>1, WordsAsked
  <1>4. /\ 1 < Interval /\ Interval \in Int /\ Interval' = Interval
        /\ granted \in Nat /\ age \in Nat /\ Pending \in Nat /\ Arrived \in Nat
        /\ InFlight = Pending + Arrived
        /\ Pending > 0 => Left \in 0..1
        /\ Pending > 0 /\ AllLate => FirstLate
        /\ Pending = 1 /\ Left = 0 => FirstLate
    BY Measures
  <1>5. ASSUME RestNone PROVE FirstStep'
    BY <1>1, <1>2, <1>3, <1>4, <1>5 DEF RestNone, FirstStep, FirstF
  <1>6. ASSUME RestF PROVE FirstStep'
    BY <1>1, <1>2, <1>3, <1>4, <1>6 DEF RestF, FirstStep, FirstFF
  <1>7. ASSUME RestT PROVE FirstStep'
    BY <1>1, <1>2, <1>3, <1>4, <1>7 DEF RestT, FirstStep, FirstTF, WordT
  <1>8. ASSUME RestAskedT PROVE FirstStep'
    BY <1>1, <1>2, <1>3, <1>4, <1>8 DEF RestAskedT, FirstStep, FirstAskedTF, WordT
  <1>9. ASSUME RestFT PROVE FirstStep'
    BY <1>1, <1>2, <1>3, <1>4, <1>9 DEF RestFT, FirstStep, FirstFTF, WordFT
  <1>10. ~RestAskedFT
    BY <1>2, <1>4 DEF RestAskedFT
  <1>11. FirstStep'
    BY <1>2, <1>5, <1>6, <1>7, <1>8, <1>9, <1>10 DEF Between
  <1> QED BY <1>1, <1>2, <1>3, <1>4, <1>11 DEF Timing

\* A grant is read: the report is renewed.
LEMMA TimingSucceeds ==
  ASSUME Running, ReadAnswer, Succeeds
  PROVE  OnlyFinals' /\ Timing'
  <1>1. /\ step # 0 /\ Read /\ granted' = granted /\ transport' = transport
        /\ Head(down) = 200 /\ up' = up
        /\ age' = 0 /\ thread' = "wait" /\ timer' = 1 /\ step' = 0
    BY AnswerCases DEF Succeeds, MarkRegistered, Returned, Poll
  <1>2. /\ 1 < Interval /\ Interval \in Int /\ Interval' = Interval
        /\ step \in 0..2 /\ timer \in 0..1 /\ granted \in Nat
        /\ Pending \in Nat /\ Arrived \in Nat /\ InFlight = Pending + Arrived
        /\ Pending > 0 => Left \in 0..1
        /\ Timing
    BY Measures
  <1>4. /\ Received \in 1..Arrived /\ Arrived' = Arrived - Received /\ OnlyFinals'
        /\ transport = "tls" => Received = 1
        /\ Good(1)
        /\ InFlight > Received /\ Received = 1 => (Good(1)' <=> Good(2))
        /\ InFlight > Received + 1 /\ Received = 1 => (Good(2)' <=> Good(3))
    BY <1>1, WordsRead
  <1>12. InFlight' = InFlight - Received /\ Pending' = Pending /\ Left' = Left
    BY <1>1, WordsRead
  <1>5. main = "connecting" => thread = "off"
    BY DEF Running, IInv, Places
  <1>6. (step = 1 /\ FirstStep) \/ (step = 2 /\ SecondStep)
    BY <1>1, <1>2 DEF Timing
  <1>7. CASE step = 1 /\ FirstTF
    <2>1. /\ Received \in 1..2 /\ granted <= 1 /\ InFlight = 2 /\ ~Good(2) /\ Arrived > 0
      BY <1>2, <1>4, <1>12, <1>7 DEF FirstTF, WordTF
    <2>2. CASE Received = 1
      <3>1. WordF'
        BY <1>4, <1>12, <2>1, <2>2 DEF WordF
      <3>2. RestF'
        BY <1>1, <1>2, <2>1, <3>1 DEF RestF
      <3> QED BY <1>1, <1>4, <1>12, <3>2 DEF Timing, Between
    <2>3. CASE Received = 2
      <3>1. None'
        BY <1>2, <1>4, <1>12, <2>1, <2>3 DEF None
      <3>2. RestNone'
        BY <1>1, <1>2, <2>1, <3>1 DEF RestNone
      <3> QED BY <1>1, <1>4, <1>12, <3>2 DEF Timing, Between
    <2> QED BY <2>1, <2>2, <2>3
  <1>8. CASE step = 2 /\ SecondGranted
    <2>1. InFlight = 1 /\ granted = 0
      BY <1>4, <1>12, <1>8 DEF SecondGranted, WordT, WordFT
    <2>2. None'
      BY <1>2, <1>4, <1>12, <2>1 DEF None
    <2>3. RestNone'
      BY <1>1, <1>2, <2>1, <2>2 DEF RestNone
    <2> QED BY <1>1, <1>4, <1>12, <2>3 DEF Timing, Between
  <1>9. CASE step = 2 /\ SecondTFT
    <2>1. /\ Received = 1 /\ InFlight = 3 /\ ~Good(2) /\ Good(3) /\ granted <= Interval
          /\ Pending = 0 => granted = 0
      BY <1>4, <1>12, <1>9 DEF SecondTFT, WordTFT
    <2>2. WordFT'
      BY <1>4, <1>12, <2>1 DEF WordFT
    <2>3. CASE Pending = 0
      <3>1. RestFT'
        BY <1>1, <1>2, <1>4, <1>12, <2>1, <2>2, <2>3 DEF RestFT
      <3> QED BY <1>1, <1>4, <1>12, <3>1 DEF Timing, Between
    <2>4. CASE Pending > 0
      <3>1. RestAskedFT'
        BY <1>1, <1>2, <1>4, <1>12, <2>1, <2>2, <2>4 DEF RestAskedFT
      <3> QED BY <1>1, <1>4, <1>12, <3>1 DEF Timing, Between
    <2> QED BY <1>2, <2>3, <2>4
  <1>10. ~(step = 1 /\ (FirstF \/ FirstFF \/ FirstAskedTF \/ FirstFTF))
    BY <1>2, <1>4, <1>12 DEF FirstF, FirstFF, FirstAskedTF, FirstFTF, WordF, WordFF, WordFTF
  <1>11. ~(step = 2 /\ SecondAsked)
    BY <1>2, <1>4, <1>12 DEF SecondAsked, WordT, WordFT
  <1> QED BY <1>6, <1>7, <1>8, <1>9, <1>10, <1>11 DEF FirstStep, SecondStep

\* A challenge is answered.
LEMMA TimingRepeats ==
  ASSUME Running, ReadAnswer, Repeats
  PROVE  OnlyFinals' /\ Timing'
  <1>1. /\ Read /\ granted' = granted /\ transport' = transport
        /\ Head(down) # 200 /\ Send(Request(TRUE)) /\ step = 1 /\ step' = 2
        /\ timer' = 1 /\ age' = age /\ thread' = thread
    BY AnswerCases DEF Repeats
  <1>2. /\ 1 < Interval /\ Interval \in Int /\ Interval' = Interval
        /\ timer \in 0..1 /\ granted \in Nat
        /\ Pending \in Nat /\ Arrived \in Nat /\ InFlight = Pending + Arrived
        /\ Timing /\ Channels
    BY Measures
  <1>5. /\ Received \in 1..Arrived /\ Arrived' = Arrived - Received /\ OnlyFinals'
        /\ transport = "tls" => Received = 1
        /\ transport = "tls" \/ Received = Arrived
        /\ ~Good(1)
        /\ InFlight > Received /\ Received = 1 => (Good(1)' <=> Good(2))
        /\ InFlight > Received + 1 /\ Received = 1 => (Good(2)' <=> Good(3))
        /\ InFlight > Received /\ Received = 2 => (Good(1)' <=> Good(3))
    BY <1>1, WordsRead
  <1>11. /\ InFlight' = InFlight - Received + 1 /\ Pending' = Pending + 1
         /\ InFlight = Received => Good(1)'
         /\ InFlight = Received + 1 => Good(2)'
         /\ InFlight = Received + 2 => Good(3)'
    BY <1>1, WordsRead
  <1>6. FirstStep /\ (thread \in {"due", "refreshing"} => age >= Interval)
    BY <1>1, <1>2 DEF Timing
  <1>7. (WordT' \/ WordFT' \/ WordTFT') /\ (WordTFT' => FirstFTF /\ Received = 1 /\ Arrived' > 0)
    <2>1. CASE FirstF
      <3>1. InFlight = 1 /\ Received = 1
        BY <1>2, <1>5, <1>11, <2>1 DEF FirstF, WordF
      <3>2. WordT' /\ ~WordTFT'
        BY <1>5, <1>11, <3>1 DEF WordT, WordTFT
      <3> QED BY <3>2
    <2>2. CASE FirstFF
      <3>1. InFlight = 2 /\ Received \in 1..2 /\ ~Good(2)
        BY <1>2, <1>5, <1>11, <2>2 DEF FirstFF, WordFF
      <3>2. Received = 1 => WordFT' /\ ~WordTFT'
        BY <1>5, <1>11, <3>1 DEF WordFT, WordTFT
      <3>3. Received = 2 => WordT' /\ ~WordTFT'
        BY <1>5, <1>11, <3>1 DEF WordT, WordTFT
      <3> QED BY <3>1, <3>2, <3>3
    <2>3. CASE FirstFTF
      <3>1. InFlight = 3 /\ Received \in 1..3 /\ Good(2) /\ ~Good(3) /\ Arrived >= 2
        BY <1>2, <1>5, <1>11, <2>3 DEF FirstFTF, WordFTF
      <3>2. Received = 1 => WordTFT' /\ Arrived' > 0
        BY <1>2, <1>5, <1>11, <3>1 DEF WordTFT
      <3>3. Received = 2 => WordFT' /\ ~WordTFT'
        BY <1>5, <1>11, <3>1 DEF WordFT, WordTFT
      <3>4. Received = 3 => WordT' /\ ~WordTFT'
        BY <1>5, <1>11, <3>1 DEF WordT, WordTFT
      <3> QED BY <2>3, <3>1, <3>2, <3>3, <3>4
    <2>4. ~FirstTF /\ ~FirstAskedTF
      BY <1>5 DEF FirstTF, FirstAskedTF, WordTF
    <2> QED BY <1>6, <2>1, <2>2, <2>3, <2>4 DEF FirstStep
  <1>8. thread = "refreshing" => granted + 1 <= Interval + 4
    BY <1>2, <1>5, <1>11, <1>6 DEF FirstStep, FirstF, FirstFF, FirstTF, FirstAskedTF, FirstFTF, WordTF
  <1>9. SecondStep'
    <2>1. CASE WordTFT'
      <3>1. FirstFTF /\ Received = 1 /\ Arrived' > 0 /\ Pending' > 0 /\ transport = "tls"
        BY <1>2, <1>5, <1>11, <1>7, <2>1 DEF FirstFTF
      <3>2. SecondTFT'
        BY <1>1, <1>2, <2>1, <3>1 DEF FirstFTF, SecondTFT
      <3> QED BY <3>2 DEF SecondStep
    <2>2. CASE WordT' \/ WordFT'
      <3>1. SecondAsked'
        BY <1>1, <1>2, <1>5, <1>11, <1>8, <2>2 DEF SecondAsked
      <3> QED BY <3>1 DEF SecondStep
    <2> QED BY <1>7, <2>1, <2>2
  <1>10. step # 0 /\ thread \notin {"wait", "due"}
    BY <1>1 DEF Running, IInv, Places
  <1> QED BY <1>1, <1>2, <1>5, <1>6, <1>9, <1>10 DEF Timing

\* The second answer of an attempt is not a grant either.
LEMMA TimingFails ==
  ASSUME Running, ReadAnswer, Fails
  PROVE  OnlyFinals' /\ Timing'
  <1>1. /\ step # 0 /\ Read /\ granted' = granted /\ transport' = transport
        /\ Head(down) # 200 /\ up' = up
    BY AnswerCases DEF Fails
  <1>13. Raised
    BY DEF Fails
  <1>2. /\ 1 < Interval /\ Interval \in Int /\ Interval' = Interval
        /\ step \in 0..2 /\ timer \in 0..1 /\ granted \in Nat /\ age \in Nat
        /\ Pending \in Nat /\ Arrived \in Nat /\ InFlight = Pending + Arrived
        /\ Pending > 0 => Left \in 0..1
        /\ Timing
    BY Measures
  <1>4. /\ Received \in 1..Arrived /\ Arrived' = Arrived - Received /\ OnlyFinals'
        /\ transport = "tls" => Received = 1
        /\ transport = "tls" \/ Received = Arrived
        /\ Head(down) = 401
        /\ ~Good(1)
        /\ InFlight > Received /\ Received = 1 => (Good(1)' <=> Good(2))
    BY <1>1, WordsRead
  <1>12. InFlight' = InFlight - Received /\ Pending' = Pending /\ Left' = Left
    BY <1>1, WordsRead
  <1>5. step = 2 /\ age' = age
    <2>0. step' # step + 1 /\ link # "broken"
      BY <1>2, <1>13 DEF Raised, Running
    <2>1. ~Challenged(Head(down))
      BY <1>1, <2>0, Zenon DEF ReadAnswer
    <2>2. age' = age
      BY DEF Fails
    <2> QED BY <1>1, <1>2, <1>4, <1>12, <2>1, <2>2 DEF Challenged
  <1>6. CASE main = "connecting"
    <2>1. thread' = "off" /\ step' = 0
      BY <1>6, <1>13 DEF Raised, Running, IInv, Places
    <2> QED BY <1>4, <1>12, <2>1 DEF Timing
  <1>7. CASE main # "connecting"
    <2>1. thread = "refreshing" /\ thread' = "wait" /\ timer' = 1 /\ step' = 0
      BY <1>1, <1>7, <1>13 DEF Raised, Running, IInv, Places, Poll
    <2>2. SecondStep /\ age >= Interval
      BY <1>2, <1>5, <2>1 DEF Timing
    <2>3. CASE SecondAsked
      <3>1. /\ WordFT /\ Received = 1 /\ granted + timer <= Interval + 4 /\ (timer = 0 => Left = 0)
            /\ Pending > 0
        BY <1>2, <1>4, <1>12, <2>1, <2>3 DEF SecondAsked, WordT, WordFT
      <3>2. WordT'
        BY <1>4, <1>12, <3>1 DEF WordT, WordFT
      <3>3. RestAskedT'
        BY <1>1, <1>2, <1>4, <1>12, <1>5, <2>1, <2>2, <3>1, <3>2 DEF RestAskedT
      <3> QED BY <1>4, <1>12, <2>1, <3>3 DEF Timing, Between
    <2>4. CASE SecondGranted
      <3>1. InFlight = 2 /\ Good(2) /\ granted = 0 /\ Received \in 1..2 /\ Pending = 0
        BY <1>2, <1>4, <1>12, <2>4 DEF SecondGranted, WordT, WordFT
      <3>2. CASE Received = 1
        <4>1. WordT'
          BY <1>4, <1>12, <3>1, <3>2 DEF WordT
        <4>2. RestT'
          BY <1>1, <1>2, <1>4, <1>12, <1>5, <2>1, <2>2, <3>1, <4>1 DEF RestT
        <4> QED BY <1>4, <1>12, <2>1, <4>2 DEF Timing, Between
      <3>3. CASE Received = 2
        <4>1. None'
          BY <1>4, <1>12, <3>1, <3>3 DEF None
        <4>2. RestNone'
          BY <1>1, <1>2, <1>5, <2>1, <2>2, <3>1, <4>1 DEF RestNone
        <4> QED BY <1>4, <1>12, <2>1, <4>2 DEF Timing, Between
      <3> QED BY <3>1, <3>2, <3>3
    <2>5. ~SecondTFT
      BY <1>4, <1>12 DEF SecondTFT, WordTFT
    <2> QED BY <2>2, <2>3, <2>4, <2>5 DEF SecondStep
  <1> QED BY <1>6, <1>7

LEMMA TimingTimesOut ==
  ASSUME Running, ReadTimesOut
  PROVE  OnlyFinals' /\ Timing'
  <1>1. /\ step # 0 /\ timer = 0 /\ step' = 0
        /\ UNCHANGED <<up, down>> /\ granted' = granted /\ age' = age
        /\ \/ main = "connecting" /\ thread' = thread
           \/ main # "connecting" /\ thread' = "wait" /\ timer' = 1
    BY DEF ReadTimesOut, Raised, connVars, netVars, proxyVars, Poll
  <1>2. /\ 1 < Interval /\ Interval \in Int /\ Interval' = Interval
        /\ step \in 0..2 /\ granted \in Nat /\ age \in Nat
        /\ Pending \in Nat /\ Arrived \in Nat /\ InFlight = Pending + Arrived
        /\ Pending > 0 => Left \in 0..1
        /\ Timing
    BY Measures
  <1>3. SameChannels
    BY <1>1, ChannelsSame, Measures
  <1>4. /\ SameWords /\ Pending' = Pending /\ Left' = Left /\ (AllLate' <=> AllLate)
        /\ OnlyFinals'
    BY <1>3 DEF SameChannels, Running
  <1>5. CASE main = "connecting"
    <2>1. thread = "off"
      BY <1>5 DEF Running, IInv, Places
    <2> QED BY <1>1, <1>4, <1>5, <2>1 DEF Timing
  <1>6. CASE main # "connecting"
    <2>1. thread = "refreshing" /\ thread' = "wait" /\ timer' = 1
      BY <1>1, <1>6 DEF Running, IInv, Places
    <2>2. age >= Interval /\ ((step = 1 /\ FirstStep) \/ (step = 2 /\ SecondStep))
      BY <1>1, <1>2, <2>1 DEF Timing
    <2>3. CASE step = 1 /\ FirstStep
      <3>1. FirstF /\ granted <= Interval + 2
        BY <1>1, <1>2, <2>1, <2>3
        DEF FirstStep, FirstF, FirstFF, FirstTF, FirstAskedTF, FirstFTF
      <3>2. RestF'
        BY <1>1, <1>2, <1>4, <2>1, <2>2, <3>1 DEF RestF, FirstF, SameWords
      <3> QED BY <1>1, <1>4, <2>1, <3>2 DEF Timing, Between
    <2>4. CASE step = 2 /\ SecondAsked
      <3>1. /\ WordT \/ WordFT
            /\ Pending > 0 /\ Left = 0 /\ granted <= Interval + 4
        BY <1>1, <1>2, <2>1, <2>4 DEF SecondAsked
      <3>2. RestAskedT' \/ RestAskedFT'
        BY <1>1, <1>2, <1>4, <2>1, <2>2, <3>1 DEF RestAskedT, RestAskedFT, SameWords
      <3> QED BY <1>1, <1>4, <2>1, <3>2 DEF Timing, Between
    <2>5. CASE step = 2 /\ SecondGranted
      <3>1. (WordT \/ WordFT) /\ Pending = 0 /\ granted = 0
        BY <2>5 DEF SecondGranted
      <3>2. RestT' \/ RestFT'
        BY <1>1, <1>2, <1>4, <2>1, <2>2, <3>1 DEF RestT, RestFT, SameWords
      <3> QED BY <1>1, <1>4, <2>1, <3>2 DEF Timing, Between
    <2>6. ~SecondTFT
      BY <1>1 DEF SecondTFT
    <2> QED BY <2>2, <2>3, <2>4, <2>5, <2>6 DEF SecondStep
  <1> QED BY <1>5, <1>6

LEMMA TimingProxyAnswers ==
  ASSUME Running, ProxyAnswers
  PROVE  OnlyFinals' /\ Timing'
  <1>1. /\ UNCHANGED <<thread, step, transport>> /\ timer' = timer /\ age' = age
    BY DEF ProxyAnswers, connVars
  <1>2. /\ 1 < Interval /\ Interval \in Int /\ Interval' = Interval
        /\ step \in 0..2 /\ timer \in 0..1 /\ granted \in Nat /\ age \in Nat
        /\ Pending \in Nat /\ Arrived \in Nat /\ InFlight = Pending + Arrived
        /\ Pending > 0 => Left \in 0..1
        /\ Timing
    BY Measures
  <1>3. /\ SameWords
        /\ Arrived' = Arrived + 1 /\ Pending' = Pending - 1 /\ Pending > 0
        /\ OnlyFinals'
        /\ AllLate => AllLate'
        /\ Pending > 1 => Left' = Left
    BY WordsAnswered
  <1>4. /\ Arrived = 0 /\ Good(1) => granted' = 0
        /\ Arrived = 0 /\ ~Good(1) => granted' = granted
        /\ Arrived = 1 /\ Good(2) => granted' = 0
        /\ Arrived = 1 /\ ~Good(2) => granted' = granted
        /\ Arrived = 2 /\ Good(3) => granted' = 0
        /\ Arrived = 2 /\ ~Good(3) => granted' = granted
    BY WordsAnswered
  <1>5. ASSUME Between, thread \in {"wait", "due"} PROVE Between'
    <2>1. ~RestNone /\ ~RestT /\ ~RestFT
      BY <1>2, <1>3 DEF RestNone, RestT, RestFT, None
    <2>2. ASSUME RestF PROVE RestF'
      <3>1. granted' = granted
        BY <1>2, <1>3, <1>4, <2>2 DEF RestF, WordF
      <3> QED BY <1>1, <1>2, <1>3, <2>2, <3>1 DEF RestF, SameWords
    <2>3. ASSUME RestAskedT PROVE RestT'
      <3>1. granted' = 0 /\ Pending' = 0
        BY <1>2, <1>3, <1>4, <2>3 DEF RestAskedT, WordT
      <3> QED BY <1>1, <1>2, <1>3, <2>3, <3>1 DEF RestAskedT, RestT, SameWords
    <2>4. ASSUME RestAskedFT PROVE RestFT' \/ RestAskedFT'
      <3>1. \/ granted' = granted /\ Pending' > 0 /\ Left' = Left
            \/ granted' = 0 /\ Pending' = 0
        BY <1>2, <1>3, <1>4, <2>4 DEF RestAskedFT, WordFT
      <3>2. CASE granted' = granted /\ Pending' > 0 /\ Left' = Left
        BY <1>1, <1>2, <1>3, <2>4, <3>2 DEF RestAskedFT, SameWords
      <3>3. CASE granted' = 0 /\ Pending' = 0
        BY <1>1, <1>2, <1>3, <2>4, <3>3 DEF RestAskedFT, RestFT, SameWords
      <3> QED BY <3>1, <3>2, <3>3
    <2> QED BY <1>5, <2>1, <2>2, <2>3, <2>4 DEF Between
  <1>6. ASSUME FirstStep PROVE FirstStep'
    <2>1. ASSUME FirstF PROVE FirstF'
      <3>1. granted' = granted
        BY <1>2, <1>3, <1>4, <2>1 DEF FirstF, WordF
      <3> QED BY <1>1, <1>2, <1>3, <2>1, <3>1 DEF FirstF, SameWords
    <2>2. ASSUME FirstFF PROVE FirstFF'
      <3>1. granted' = granted /\ Pending' # 2
        BY <1>2, <1>3, <1>4, <2>2 DEF FirstFF, WordFF
      <3> QED BY <1>1, <1>2, <1>3, <2>2, <3>1 DEF FirstFF, SameWords
    <2>3. ASSUME FirstTF PROVE FirstTF'
      <3>1. granted' = granted
        BY <1>2, <1>3, <1>4, <2>3 DEF FirstTF, WordTF
      <3> QED BY <1>1, <1>2, <1>3, <2>3, <3>1 DEF FirstTF, SameWords
    <2>4. ASSUME FirstAskedTF PROVE FirstTF'
      <3>1. granted' = 0
        BY <1>2, <1>3, <1>4, <2>4 DEF FirstAskedTF, WordTF
      <3> QED BY <1>1, <1>2, <1>3, <2>4, <3>1 DEF FirstTF, FirstAskedTF, SameWords
    <2>5. ASSUME FirstFTF PROVE FirstFTF'
      <3>1. granted' = granted
        BY <1>2, <1>3, <1>4, <2>5 DEF FirstFTF, WordFTF
      <3> QED BY <1>1, <1>2, <1>3, <2>5, <3>1 DEF FirstFTF, SameWords
    <2> QED BY <1>6, <2>1, <2>2, <2>3, <2>4, <2>5 DEF FirstStep
  <1>7. ASSUME SecondStep PROVE SecondStep'
    <2>1. ~SecondGranted
      BY <1>2, <1>3 DEF SecondGranted
    <2>2. ASSUME SecondAsked PROVE SecondAsked' \/ SecondGranted'
      <3>1. \/ granted' = granted /\ Pending' > 0 /\ Left' = Left
            \/ granted' = 0 /\ Pending' = 0
        BY <1>2, <1>3, <1>4, <2>2 DEF SecondAsked, WordT, WordFT
      <3>2. CASE granted' = granted /\ Pending' > 0 /\ Left' = Left
        BY <1>1, <1>2, <1>3, <2>2, <3>2 DEF SecondAsked, SameWords
      <3>3. CASE granted' = 0 /\ Pending' = 0
        BY <1>3, <2>2, <3>3 DEF SecondAsked, SecondGranted, SameWords
      <3> QED BY <3>1, <3>2, <3>3
    <2>3. ASSUME SecondTFT PROVE SecondTFT'
      <3>1. \/ granted' = granted /\ Pending' > 0
            \/ granted' = 0
        BY <1>2, <1>3, <1>4, <2>3 DEF SecondTFT, WordTFT
      <3> QED BY <1>1, <1>2, <1>3, <2>3, <3>1 DEF SecondTFT, SameWords
    <2> QED BY <1>7, <2>1, <2>2, <2>3 DEF SecondStep
  <1> QED BY <1>1, <1>2, <1>3, <1>5, <1>6, <1>7 DEF Timing

LEMMA TimingTick ==
  ASSUME Running, Tick
  PROVE  OnlyFinals' /\ Timing'
  <1>1. /\ UNCHANGED <<thread, step, transport>> /\ thread # "due"
        /\ thread = "wait" => timer > 0
        /\ step # 0 => timer > 0 /\ down = << >>
        /\ timer' = Decrement(timer)
        /\ granted' = IF granted < Long THEN granted + 1 ELSE granted
    BY DEF Tick, Idle
  <1>2. thread \in {"wait", "refreshing"} => age' = IF age < Expires THEN age + 1 ELSE age
    <2>1. thread \in {"wait", "refreshing"} => registered
      BY DEF Running, IInv, Places
    <2> QED BY <2>1 DEF Tick
  <1>3. /\ 1 < Interval /\ Interval \in Int /\ Interval' = Interval /\ Expires = Interval + 6
        /\ step \in 0..2 /\ timer \in 0..1 /\ granted \in Nat /\ age \in 0..Expires
        /\ Pending \in Nat /\ Arrived \in Nat /\ InFlight = Pending + Arrived
        /\ Timing
    BY Measures
  <1>4. /\ SameWords /\ Pending' = Pending /\ Arrived' = Arrived
        /\ OnlyFinals' /\ AllLate'
        /\ Pending > 0 => Left = 1 /\ Left' = 0 /\ ~FirstLate
    BY WordsAge
  <1>5. /\ (thread \in {"wait", "refreshing"} \/ step # 0) => (timer = 1 /\ timer' = 0)
        /\ step # 0 => Arrived = 0
    <2>1. step # 0 => Arrived = 0
      BY <1>1 DEF Arrived
    <2>2. thread = "refreshing" => step # 0
      BY DEF Running, IInv, Places
    <2> QED BY <1>1, <1>3, <2>1, <2>2 DEF Decrement
  <1>6. PICK g \in Nat : granted' = g /\ g <= granted + 1
    BY <1>1, <1>3
  <1>7. ASSUME thread = "wait" PROVE Between'
    <2>1. Between /\ timer = 1 /\ timer' = 0
      BY <1>3, <1>5, <1>7 DEF Timing
    <2>2. PICK a \in Nat : age' = a /\ (a = age + 1 \/ (a = age /\ age > Interval))
      BY <1>2, <1>3, <1>7
    <2>3. ASSUME RestNone PROVE RestNone'
      <3>1. g <= Interval + 1 /\ (a < Interval => g <= a + 1)
        BY <1>3, <1>6, <2>1, <2>2, <2>3 DEF RestNone
      <3> QED BY <1>3, <1>4, <1>6, <2>1, <2>2, <2>3, <3>1 DEF RestNone, SameWords
    <2>4. ASSUME RestF PROVE RestF'
      <3>1. g <= Interval + 3 /\ (a < Interval => g <= a + 1)
        BY <1>3, <1>6, <2>1, <2>2, <2>4 DEF RestF
      <3> QED BY <1>3, <1>4, <1>6, <2>1, <2>2, <2>4, <3>1 DEF RestF, SameWords
    <2>5. ASSUME RestT PROVE RestT'
      <3>1. g <= 1 /\ a >= Interval
        BY <1>3, <1>6, <2>1, <2>2, <2>5 DEF RestT
      <3> QED BY <1>3, <1>4, <1>6, <2>1, <2>2, <2>5, <3>1 DEF RestT, SameWords
    <2>6. ASSUME RestAskedT PROVE RestAskedT'
      <3>1. g <= Interval + 4 /\ a >= Interval /\ Left' = 0
        BY <1>3, <1>4, <1>6, <2>2, <2>6 DEF RestAskedT
      <3> QED BY <1>3, <1>4, <1>6, <2>1, <2>2, <2>6, <3>1 DEF RestAskedT, SameWords
    <2>7. ASSUME RestFT PROVE RestFT'
      <3>1. g <= a /\ g <= Interval
        BY <1>3, <1>6, <1>7, <2>1, <2>2, <2>7 DEF RestFT
      <3> QED BY <1>3, <1>4, <1>6, <2>1, <2>2, <2>7, <3>1 DEF RestFT, SameWords
    <2>8. ASSUME RestAskedFT PROVE RestAskedFT'
      <3>1. Left = 1 /\ Left' = 0 /\ age = 0 /\ granted <= Interval + 3 /\ WordFT
        BY <1>3, <1>4, <2>8 DEF RestAskedFT
      <3>2. a = 1
        BY <1>3, <2>2, <3>1
      <3>3. g <= Interval + 4
        BY <1>3, <1>6, <3>1
      <3> QED BY <1>3, <1>4, <1>6, <2>1, <2>2, <2>8, <3>1, <3>2, <3>3 DEF RestAskedFT, SameWords
    <2> QED BY <2>1, <2>3, <2>4, <2>5, <2>6, <2>7, <2>8 DEF Between
  <1>8. ASSUME step = 1 PROVE FirstStep'
    <2>1. FirstStep /\ Arrived = 0 /\ timer = 1 /\ timer' = 0
      BY <1>3, <1>5, <1>8 DEF Timing
    <2>2. ~FirstFF /\ ~FirstTF /\ ~FirstAskedTF /\ ~FirstFTF
      BY <1>3, <1>4, <2>1 DEF FirstFF, FirstTF, FirstAskedTF, FirstFTF, WordFF, WordTF
    <2>3. FirstF
      BY <2>1, <2>2 DEF FirstStep
    <2>4. FirstF'
      BY <1>1, <1>3, <1>4, <1>6, <2>1, <2>3 DEF FirstF, SameWords
    <2> QED BY <2>4 DEF FirstStep
  <1>9. ASSUME step = 2 PROVE SecondStep'
    <2>1. SecondStep /\ Arrived = 0 /\ timer = 1 /\ timer' = 0
      BY <1>3, <1>5, <1>9 DEF Timing
    <2>2. SecondAsked
      BY <1>3, <2>1 DEF SecondStep, SecondGranted, SecondTFT, WordT, WordFT
    <2>3. SecondAsked'
      BY <1>1, <1>3, <1>4, <1>6, <2>1, <2>2 DEF SecondAsked, SameWords
    <2> QED BY <2>3 DEF SecondStep
  <1>10. thread = "refreshing" => age' >= Interval
    BY <1>2, <1>3 DEF Timing
  <1> QED BY <1>1, <1>3, <1>4, <1>7, <1>8, <1>9, <1>10 DEF Timing

LEMMA TimelyKept ==
  ASSUME IInv, 1 < Interval, MaxDelay <= 1, Timely, Healthy, Healthy', [Next]_vars
  PROVE  Timely'
  <1> SUFFICES ASSUME ~stop', main' # "start"
               PROVE  main' \in {"connecting", "serving"} /\ known' /\ OnlyFinals' /\ Timing'
    BY DEF Timely
  <1>1. healthy /\ healthy' /\ link' = "up"
    BY DEF Healthy
  <1>2. ~stop /\ ~StopRefresh
    <2>1. stop' = stop \/ stop'
      BY Zenon
      DEF Next, Connect, StopRefresh, Disconnect, PollRegistration, Refresh, ReadAnswer,
          ReadProvisional, ReadTimesOut, ReadRaises, ProxyTries, ProxyAnswers, ProxyRefuses,
          ProxyTrouble, LinkLost, Tick, connVars, proxyVars, vars
    <2>2. StopRefresh => stop'
      BY DEF StopRefresh
    <2> QED BY <2>1, <2>2
  <1>3. CASE main = "start"
    <2>1. Connect
      BY <1>1, <1>3, Zenon
      DEF Next, StopRefresh, Disconnect, PollRegistration, Refresh, ReadAnswer,
          ReadProvisional, ReadTimesOut, ReadRaises, ProxyTries, ProxyAnswers, ProxyRefuses,
          ProxyTrouble, LinkLost, Tick, Raised, Returned, vars
    <2> QED BY <1>1, <2>1, TimingConnect
  <1>4. CASE main # "start"
    <2>1. Running
      BY <1>2, <1>4 DEF Timely, Healthy, Running
    <2>2. OnlyFinals' /\ Timing'
      <3>1. ~Connect /\ ~Disconnect
        BY <2>1 DEF Running, Connect, Disconnect
      <3>2. ~ReadProvisional
        <4>1. ASSUME Read PROVE Final(down[Received])
          <5>1. Received \in 1..Len(down)
            BY <2>1, <4>1, ReadShape DEF Running, IInv, Channels, Names
          <5> QED BY <2>1, <5>1 DEF Running, OnlyFinals, Final
        <4> QED BY <4>1 DEF ReadProvisional
      <3>3. ~ReadRaises /\ ~ProxyTries /\ ~ProxyRefuses /\ ~ProxyTrouble /\ ~LinkLost
        BY <1>1, <2>1 DEF Running, ReadRaises, ProxyTries, ProxyRefuses, ProxyTrouble, LinkLost
      <3>4. CASE UNCHANGED vars
        <4>1. UNCHANGED <<main, thread, step, timer, transport, age, granted, up, down>>
          BY <3>4 DEF vars, connVars, netVars, proxyVars
        <4>2. SameChannels
          BY <2>1, <4>1, ChannelsSame DEF Running, IInv
        <4>3. Between' = Between
          BY <4>1, <4>2
          DEF SameChannels, SameWords, Between, RestNone, RestF, RestT, RestAskedT, RestFT,
              RestAskedFT
        <4>4. FirstStep' = FirstStep
          BY <4>1, <4>2
          DEF SameChannels, SameWords, FirstStep, FirstF, FirstFF, FirstTF, FirstAskedTF,
              FirstFTF
        <4>5. SecondStep' = SecondStep
          BY <4>1, <4>2
          DEF SameChannels, SameWords, SecondStep, SecondAsked, SecondGranted, SecondTFT
        <4> QED BY <2>1, <4>1, <4>2, <4>3, <4>4, <4>5 DEF Running, Timing, SameChannels
      <3>5. ReadAnswer => OnlyFinals' /\ Timing'
        BY <2>1, AnswerCases, TimingSucceeds, TimingRepeats, TimingFails
      <3> QED BY <1>2, <2>1, <3>1, <3>2, <3>3, <3>4, <3>5, TimingPoll, TimingRefresh,
                 TimingTimesOut, TimingProxyAnswers, TimingTick DEF Next
    <2>3. main' \in {"connecting", "serving"}
      <3>1. main' \in {main, "connecting", "serving"} \/ Disconnect
        BY <1>2, Zenon
        DEF Next, Connect, PollRegistration, Refresh, ReadAnswer,
            ReadProvisional, ReadTimesOut, ReadRaises, ProxyTries, ProxyAnswers, ProxyRefuses,
            ProxyTrouble, LinkLost, Tick, Raised, Returned, vars
      <3> QED BY <2>1, <3>1 DEF Running, Disconnect
    <2>4. known'
      <3>1. known' = known \/ known' \/ Disconnect
        BY Zenon
        DEF Next, Connect, StopRefresh, PollRegistration, Refresh, ReadAnswer,
            ReadProvisional, ReadTimesOut, ReadRaises, ProxyTries, ProxyAnswers, ProxyRefuses,
            ProxyTrouble, LinkLost, Tick, connVars, vars
      <3> QED BY <2>1, <3>1 DEF Running, Disconnect
    <2> QED BY <2>2, <2>3, <2>4
  <1> QED BY <1>3, <1>4

LEMMA TimelyIsBound ==
  ASSUME IInv, 1 < Interval, MaxDelay <= 1, Timely, thread # "off", ~stop
  PROVE  Bound
  <1>1. main # "start" /\ thread \in {"wait", "due", "refreshing"}
    BY DEF IInv, Names, Places
  <1>2. Timing /\ (thread = "refreshing" => step # 0)
    BY <1>1 DEF Timely, IInv, Places
  <1>3. /\ step \in 0..2 /\ timer \in 0..1 /\ granted \in Nat /\ Interval \in Int
        /\ Expires = Interval + 6
    BY SipRegistrationAssumption DEF IInv, Numbers, Interval, Margin
  <1>4. Pending > 0 => Left \in 0..1
    <2> SUFFICES ASSUME Pending > 0 PROVE Left \in 0..1
      OBVIOUS
    <2>1. Channels /\ Len(up) \in 1..Len(up) /\ MaxDelay \in Nat
      BY SipRegistrationAssumption DEF IInv, Channels, Pending
    <2>2. up[Len(up)].wait \in 0..MaxDelay
      BY <2>1, WaitTypes
    <2> QED BY <2>1, <2>2 DEF Left
  <1>5. CASE thread \in {"wait", "due"}
    <2>1. Between
      BY <1>2, <1>5 DEF Timing
    <2>2. granted <= Interval + 4
      BY <1>3, <1>4, <2>1
      DEF Between, RestNone, RestF, RestT, RestAskedT, RestFT, RestAskedFT
    <2> QED BY <1>3, <2>2 DEF Bound
  <1>6. CASE thread = "refreshing"
    <2>1. (step = 1 /\ FirstStep) \/ (step = 2 /\ SecondStep)
      BY <1>2, <1>3, <1>6 DEF Timing
    <2>2. granted <= Interval + 4
      BY <1>3, <1>6, <2>1
      DEF FirstStep, FirstF, FirstFF, FirstTF, FirstAskedTF, FirstFTF, SecondStep, SecondAsked,
          SecondGranted, SecondTFT
    <2> QED BY <1>3, <2>2 DEF Bound
  <1> QED BY <1>1, <1>5, <1>6

\* As long as the proxy answers within one tick, no longer than the thread waits for a
\* response, and the connection lives, the binding made at start-up never lapses while the
\* refresh thread runs: over TCP and over TLS, whatever the expiry, if at least two ticks
\* of it are left before the margin.
THEOREM BindingKept ==
  ASSUME MaxDelay <= 1, Margin + 1 < Expires
  PROVE  Spec => NeverLapses
  <1>1. 1 < Interval
    BY DEF Interval
  <1>2. Init => Timely
    BY DEF Init, Timely
  <1>3. IInv /\ Timely /\ Healthy /\ Healthy' /\ [Next]_vars => Timely'
    BY <1>1, TimelyKept
  <1>4. IInv /\ Timely => thread = "off" \/ stop \/ Bound
    BY <1>1, TimelyIsBound
  <1> QED BY <1>2, <1>3, <1>4, InitEstablishes, NextKeeps, PTL DEF Spec, NeverLapses, Healthy
=============================================================================
