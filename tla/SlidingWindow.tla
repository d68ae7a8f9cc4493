---------------------------- MODULE SlidingWindow ----------------------------
(***************************************************************************)
(* What a rate limiter promises its callers, with a memory that never      *)
(* forgets: a request is within quota when at most MaxEvents requests of   *)
(* its key, itself and the refused ones included, were made in the Window  *)
(* that ends with it.                                                      *)
(***************************************************************************)
EXTENDS Integers, Sequences, FiniteSets

CONSTANTS Keys,        \* client addresses
          MaxEvents,   \* requests of a key within quota in one window
          Window       \* length of the window

VARIABLES now,  \* the clock
          log   \* every request ever made: [key, at, allowed]

\* The requests of key k, by their number in the log, made in the window that ends now.
Recent(k) == {i \in 1..Len(log) : log[i].key = k /\ log[i].at >= now - Window}

Init == now \in Nat /\ log = << >>

Request(k) ==
  /\ log' = Append(log, [key |-> k, at |-> now,
                         allowed |-> Cardinality(Recent(k)) + 1 <= MaxEvents])
  /\ UNCHANGED now

TimePasses == now' \in Nat /\ now' > now /\ UNCHANGED log

Next == (\E k \in Keys : Request(k)) \/ TimePasses

Spec == Init /\ [][Next]_<<now, log>>
=============================================================================
