----------------------------- MODULE MCTtsCache -----------------------------
(***************************************************************************)
(* Small instances of TtsCache: two engines, of which gtts is the fallback *)
(* of zalo and has one voice, and zalo has two.                            *)
(***************************************************************************)
EXTENDS TtsCache, TLC

MCVoices == {[engine |-> "zalo", voice |-> v] : v \in 1..2}
MCConfigs == MCVoices \cup {[engine |-> "gtts", voice |-> 1]}

\* No action and no property singles out a thread or a cleaner, and all properties are
\* safety.
ThreadSymmetry == Permutations(Threads) \cup Permutations(Cleaners)
=============================================================================
