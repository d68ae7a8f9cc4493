------------------------------- MODULE TtsCache -------------------------------
(***************************************************************************)
(* TTSService.synthesize for one text, run by several worker threads at a  *)
(* time, with the cache of WAV files they share, cleanup_cache in threads  *)
(* of its own, and update_config from the event loop.  Nothing but the     *)
(* file system orders them: every file system call is an action.           *)
(***************************************************************************)
EXTENDS Integers

CONSTANTS Threads,       \* worker threads running synthesize
          Configs,       \* TTS configurations: [engine |-> ..., voice |-> ...]
          Engines,       \* the backends
          Cleaners       \* threads running cleanup_cache

\* The names of Absent, Empty, Partial and NoEngine are not those of backends.
ASSUME TtsCacheAssumption ==
  /\ Engines \cap {"absent", "empty", "partial", "none"} = {}
  /\ \A c \in Configs : c \in [engine : Engines, voice : {c.voice}]

VARIABLES
  config,   \* _config
  cache,    \* cache[k]: the file of key k: audio, Absent, Empty or Partial
  expired,  \* keys whose file is older than tts_cache_max_age_days
  doomed,   \* doomed[c]: the key cleaner c has found expired and is about to unlink
  pc,       \* pc[t]: where synthesize is in thread t
  key,      \* cache_key: the configuration it was computed from
  primary,  \* engine of backends[0], while synthesize needs it
  out,      \* content of the WAV file the call will play
  cleaned,  \* history: threads whose cache file was unlinked while they ran
  switched  \* history: threads under whom the configuration changed

history == <<cleaned, switched>>
vars == <<config, cache, expired, doomed, pc, key, primary, out, history>>

Absent == [engine |-> "absent", voice |-> 0]
Empty  == [engine |-> "empty", voice |-> 0]
Partial == [engine |-> "partial", voice |-> 0]   \* the first part of some audio
Incomplete == {Absent, Empty, Partial}
NoEngine == "none"
NoKey == Absent

\* Mutant of Audio: a backend speaks in its default voice.
DefaultVoice(e, c) == [engine |-> e, voice |-> 0]

Audio(e, c) == [engine |-> e, voice |-> c.voice]

\* A call returns a file ("done"), or raises: FileNotFoundError for a cache file that
\* has gone ("missing"), TTSException or another OSError ("failed").
Resting == {"idle", "done", "missing", "failed"}
Places == Resting \cup {"exists", "stat", "open", "copystat", "touch", "order", "backends",
                        "store", "replace"}

Init ==
  /\ config \in Configs
  /\ cache = [k \in Configs |-> Absent]
  /\ expired = {} /\ doomed = [c \in Cleaners |-> NoKey]
  /\ pc = [t \in Threads |-> "idle"]
  /\ key = [t \in Threads |-> config]
  /\ primary = [t \in Threads |-> NoEngine]
  /\ out = [t \in Threads |-> Absent]
  /\ cleaned = {} /\ switched = {}
-----------------------------------------------------------------------------
(* synthesize: the cache.                                                  *)

Goto(t, l) == pc' = [pc EXCEPT ![t] = l]
Cached(t) == cache[key[t]]
shared == <<config, cache, expired, doomed>>

\* _cache_key hashes the engine and its parameters with the text.
Begin(t) ==
  /\ pc[t] \in Resting
  /\ key' = [key EXCEPT ![t] = config]
  /\ out' = [out EXCEPT ![t] = Absent]
  /\ Goto(t, "exists")
  /\ cleaned' = cleaned \ {t} /\ switched' = switched \ {t}
  /\ UNCHANGED <<shared, primary>>

Exists(t) ==
  /\ pc[t] = "exists"
  /\ Goto(t, IF Cached(t) = Absent THEN "order" ELSE "stat")
  /\ UNCHANGED <<shared, key, primary, out, history>>

\* st_size >= 100
BigEnough(file) == file \notin {Absent, Empty}

\* A file that has gone since exists() raises FileNotFoundError.
Stat(t) ==
  /\ pc[t] = "stat"
  /\ Goto(t, IF Cached(t) = Absent THEN "missing"
             ELSE IF BigEnough(Cached(t)) THEN "open" ELSE "order")
  /\ UNCHANGED <<shared, key, primary, out, history>>

\* copy2 opens the file, and reads what it opened whatever becomes of the name ...
Open(t) ==
  /\ pc[t] = "open"
  /\ IF Cached(t) = Absent THEN Goto(t, "missing") /\ UNCHANGED out
                           ELSE Goto(t, "copystat") /\ out' = [out EXCEPT ![t] = Cached(t)]
  /\ UNCHANGED <<shared, key, primary, history>>

\* ... and copies its times, by name.
CopyStat(t) ==
  /\ pc[t] = "copystat"
  /\ Goto(t, IF Cached(t) = Absent THEN "missing" ELSE "touch")
  /\ UNCHANGED <<shared, key, primary, out, history>>

\* touch() gives the file a new mtime, or creates an empty one.
Touch(t) ==
  /\ pc[t] = "touch"
  /\ cache' = [cache EXCEPT ![key[t]] = IF @ = Absent THEN Empty ELSE @]
  /\ expired' = expired \ {key[t]}
  /\ Goto(t, "done")
  /\ UNCHANGED <<config, doomed, key, primary, out, history>>

\* Outside the try around the cache write, any other OSError is the call's: the disk is
\* full under the copy, the directory is not writable, ...
DiskError(t) ==
  /\ pc[t] \in {"exists", "stat", "open", "copystat", "touch", "store"}
  /\ Goto(t, "failed")
  /\ UNCHANGED <<shared, key, primary, out, history>>
-----------------------------------------------------------------------------
(* synthesize: the backends, and the new cache file.                       *)

\* _build_backend_order
BuildOrder(t) ==
  /\ pc[t] = "order"
  /\ primary' = [primary EXCEPT ![t] = config.engine]
  /\ Goto(t, "backends")
  /\ UNCHANGED <<shared, key, out, history>>

\* Mutant of Cacheable: whichever backend succeeds, its output is cached.
CacheableAlways(t, e) == TRUE

Cacheable(t, e) == e = primary[t]

\* The first backend to succeed speaks with the parameters of the configuration of
\* that moment; or all of them fail.
Synthesize(t) ==
  /\ pc[t] = "backends"
  /\ \/ \E e \in Engines :
          /\ out' = [out EXCEPT ![t] = Audio(e, config)]
          /\ Goto(t, IF Cacheable(t, e) THEN "store" ELSE "done")
     \/ Goto(t, "failed") /\ UNCHANGED out
  /\ primary' = [primary EXCEPT ![t] = NoEngine]
  /\ UNCHANGED <<shared, key, history>>

\* Mutant of WriteTemp: the audio is written into the cache file itself, over two steps.
WriteInPlace(t) ==
  /\ pc[t] = "store"
  /\ cache' = [cache EXCEPT ![key[t]] = Partial]
  /\ Goto(t, "replace")
  /\ UNCHANGED <<config, expired, doomed, key, primary, out, history>>

\* Mutant of WriteTemp: the old file is unlinked before the new one is moved in.
WriteUnlinksOld(t) ==
  /\ pc[t] = "store"
  /\ cache' = [cache EXCEPT ![key[t]] = Absent]
  /\ Goto(t, "replace")
  /\ UNCHANGED <<config, expired, doomed, key, primary, out, history>>

\* A temporary sibling, which no other call and no cleanup sees, is written ...
WriteTemp(t) ==
  /\ pc[t] = "store"
  /\ pc' \in {[pc EXCEPT ![t] = l] : l \in {"replace", "done"}}
  /\ UNCHANGED <<shared, key, primary, out, history>>

\* ... and replaces the cache file; an OSError of either is logged, and the call returns.
Replace(t) ==
  /\ pc[t] = "replace"
  /\ \/ /\ cache' = [cache EXCEPT ![key[t]] = out[t]]
        /\ expired' = expired \ {key[t]}
     \/ UNCHANGED <<cache, expired>>
  /\ Goto(t, "done")
  /\ UNCHANGED <<config, doomed, key, primary, out, history>>
-----------------------------------------------------------------------------
(* cleanup_cache, of which several may run, and the configuration.         *)

CleanStat(c) ==
  /\ doomed[c] = NoKey
  /\ \E k \in expired : cache[k] # Absent /\ doomed' = [doomed EXCEPT ![c] = k]
  /\ UNCHANGED <<config, cache, expired, pc, key, primary, out, history>>

\* Whatever has become of the file since; that it has gone is an OSError, logged.
CleanUnlink(c) ==
  /\ doomed[c] # NoKey
  /\ cache' = [cache EXCEPT ![doomed[c]] = Absent]
  /\ expired' = expired \ {doomed[c]}
  /\ doomed' = [doomed EXCEPT ![c] = NoKey]
  /\ cleaned' = cleaned \cup {t \in Threads : /\ cache[doomed[c]] # Absent
                                             /\ key[t] = doomed[c]
                                             /\ pc[t] \notin Resting}
  /\ UNCHANGED <<config, pc, key, primary, out, switched>>

\* A file nobody has hit for days; everything under way is over by then.
Expire(k) ==
  /\ cache[k] # Absent
  /\ \A c \in Cleaners : doomed[c] = NoKey
  /\ \A t \in Threads : pc[t] \in Resting
  /\ expired' = expired \cup {k}
  /\ UNCHANGED <<config, cache, doomed, pc, key, primary, out, history>>

UpdateConfig ==
  /\ config' \in Configs \ {config}
  /\ switched' = switched \cup {t \in Threads : pc[t] \notin Resting}
  /\ UNCHANGED <<cache, expired, doomed, pc, key, primary, out, cleaned>>

Next ==
  \/ \E t \in Threads :
       \/ Begin(t) \/ Exists(t) \/ Stat(t) \/ Open(t) \/ CopyStat(t) \/ Touch(t)
       \/ DiskError(t) \/ BuildOrder(t) \/ Synthesize(t) \/ WriteTemp(t) \/ Replace(t)
  \/ \E c \in Cleaners : CleanStat(c) \/ CleanUnlink(c)
  \/ \E k \in Configs : Expire(k)
  \/ UpdateConfig

Spec == Init /\ [][Next]_vars
-----------------------------------------------------------------------------
Files == [engine : Engines, voice : {c.voice : c \in Configs}] \cup Incomplete

TypeOK ==
  /\ config \in Configs
  /\ cache \in [Configs -> Files]
  /\ expired \subseteq Configs
  /\ doomed \in [Cleaners -> Configs \cup {NoKey}]
  /\ pc \in [Threads -> Places]
  /\ key \in [Threads -> Configs]
  /\ primary \in [Threads -> Engines \cup {NoEngine}]
  /\ out \in [Threads -> Files]

\* What a thread is about to store under a key is the key's engine speaking in the key's
\* voice: no fallback and no other voice gets into the cache, unless the configuration
\* changed while the thread ran.
StoresKeyVoice ==
  \A t \in Threads : pc[t] \in {"store", "replace"} /\ t \notin switched => out[t] = key[t]

\* "A concurrent reader never sees a half-written cache file": a call never plays an
\* incomplete file, however hits, misses, writes and cleanups of the same text
\* interleave, unless its cache file was unlinked while it ran.
ServedIsComplete ==
  \A t \in Threads : pc[t] = "done" /\ t \notin cleaned => out[t] \notin Incomplete

\* A call whose cache file goes from under it between the look and the copy owes that to
\* a cleanup that unlinked the file meanwhile: no write, no touch and no end of another
\* call makes a file go that was there.
VanishesOnlyByCleanup == \A t \in Threads : pc[t] = "missing" => t \in cleaned

\* The comment at the cache write, "must not be stored under the primary engine's cache
\* key (it would poison later cache hits)", for every interleaving with update_config.
CacheCoherent == \A k \in Configs : cache[k] \in {k, Absent, Empty}

\* "Files that are still being used (cache hits) have their mtime refreshed by synthesize,
\* so they survive cleanup", the docstring of cleanup_cache: the file that a cleanup
\* deletes has not been hit or replaced since it expired.
FilesInUseSurvive ==
  [][\A k \in Configs : cache[k] # Absent /\ cache'[k] = Absent => k \in expired]_vars
=============================================================================
