--------------------------- MODULE TtsCache_proofs ---------------------------
(***************************************************************************)
(* Proofs about the cache of synthesized audio, for any number of threads  *)
(* and any configurations and backends.                                    *)
(***************************************************************************)
EXTENDS TtsCache, TLAPS

\* A thread under whom the configuration has not changed: its key is the configuration.
KeyIsConfig(t) ==
  /\ pc[t] \notin Resting => key[t] = config
  /\ pc[t] = "backends" => primary[t] = config.engine
  /\ pc[t] \in {"store", "replace"} => out[t] = key[t]

\* A thread whose cache file has not been unlinked since it began: the file it has seen
\* is still there, and as large as it was.
FileStays(t) ==
  /\ pc[t] \in {"stat", "open", "copystat"} => Cached(t) # Absent
  /\ pc[t] = "open" => Cached(t) # Empty
  /\ pc[t] \in {"copystat", "touch", "done"} => out[t] \notin Incomplete
  /\ pc[t] # "missing"

\* What is stored is complete in any case: another thread may be about to read it.  No
\* cache file is ever a part of some audio.
StoresComplete ==
  /\ \A t \in Threads : pc[t] \in {"store", "replace"} => out[t] \notin Incomplete
  /\ \A k \in Configs : cache[k] # Partial

IInv ==
  /\ TypeOK
  /\ \A t \in Threads \ switched : KeyIsConfig(t)
  /\ \A t \in Threads \ cleaned : FileStays(t)
  /\ StoresComplete

\* A backend that is the engine of a configuration, with its voice, is that configuration.
LEMMA AudioIsConfig ==
  ASSUME NEW c \in Configs
  PROVE  /\ Audio(c.engine, c) = c
         /\ c.engine \in Engines
         /\ \A e \in Engines : /\ Audio(e, c) \in Files
                              /\ Audio(e, c) \notin Incomplete
  <1>1. c \in [engine : Engines, voice : {c.voice}]
    BY TtsCacheAssumption
  <1>2. ASSUME NEW e \in Engines
        PROVE  Audio(e, c) \in Files /\ Audio(e, c) \notin Incomplete
    <2>1. Audio(e, c) \in Files
      BY DEF Audio, Files
    <2>2. e # "absent" /\ e # "empty" /\ e # "partial"
      BY TtsCacheAssumption
    <2>3. /\ Audio(e, c).engine = e /\ Absent.engine = "absent"
          /\ Empty.engine = "empty" /\ Partial.engine = "partial"
      BY DEF Audio, Absent, Empty, Partial
    <2> QED
      BY <2>1, <2>2, <2>3 DEF Incomplete
  <1> QED
    BY <1>1, <1>2 DEF Audio

LEMMA ThreeFiles ==
  /\ Absent # Empty /\ Absent # Partial /\ Empty # Partial
  /\ Absent \in Files /\ Empty \in Files /\ Partial \in Files
  <1>1. Absent.engine = "absent" /\ Empty.engine = "empty" /\ Partial.engine = "partial"
    BY DEF Absent, Empty, Partial
  <1> QED
    BY <1>1 DEF Files, Incomplete

LEMMA InitEstablishes == Init => IInv
  <1> SUFFICES ASSUME Init PROVE IInv
    OBVIOUS
  <1>1. TypeOK
    BY ThreeFiles DEF Init, TypeOK, Places, Resting
  <1> QED
    BY <1>1, ThreeFiles DEF Init, IInv, KeyIsConfig, FileStays, StoresComplete, Resting

LEMMA BeginKeeps ==
  ASSUME IInv, NEW t \in Threads, Begin(t)
  PROVE  IInv'
  <1> USE DEF Goto, shared, history
  <1>1. TypeOK'
    BY ThreeFiles DEF IInv, TypeOK, Begin, Places, Resting
  <1>2. ASSUME NEW u \in Threads \ switched'
        PROVE  KeyIsConfig(u)'
    BY ThreeFiles DEF IInv, TypeOK, KeyIsConfig, Begin, Places, Resting
  <1>3. ASSUME NEW u \in Threads \ cleaned'
        PROVE  FileStays(u)'
    BY ThreeFiles DEF IInv, TypeOK, FileStays, StoresComplete, Cached, Begin, Places, Resting
  <1>4. StoresComplete'
    BY ThreeFiles DEF IInv, TypeOK, StoresComplete, Begin, Places, Resting
  <1> QED
    BY <1>1, <1>2, <1>3, <1>4 DEF IInv

LEMMA ExistsKeeps ==
  ASSUME IInv, NEW t \in Threads, Exists(t)
  PROVE  IInv'
  <1> USE DEF Goto, shared, history
  <1>1. TypeOK'
    BY ThreeFiles DEF IInv, TypeOK, Cached, Exists, Places, Resting
  <1>2. ASSUME NEW u \in Threads \ switched'
        PROVE  KeyIsConfig(u)'
    BY ThreeFiles DEF IInv, TypeOK, KeyIsConfig, Cached, Exists, Places, Resting
  <1>3. ASSUME NEW u \in Threads \ cleaned'
        PROVE  FileStays(u)'
    BY ThreeFiles DEF IInv, TypeOK, FileStays, StoresComplete, Cached, Exists, Places, Resting
  <1>4. StoresComplete'
    BY ThreeFiles DEF IInv, TypeOK, StoresComplete, Cached, Exists, Places, Resting
  <1> QED
    BY <1>1, <1>2, <1>3, <1>4 DEF IInv

LEMMA StatKeeps ==
  ASSUME IInv, NEW t \in Threads, Stat(t)
  PROVE  IInv'
  <1> USE DEF Goto, shared, history
  <1>1. TypeOK'
    BY ThreeFiles DEF IInv, TypeOK, Cached, BigEnough, Stat, Places, Resting
  <1>2. ASSUME NEW u \in Threads \ switched'
        PROVE  KeyIsConfig(u)'
    BY ThreeFiles DEF IInv, TypeOK, KeyIsConfig, Cached, BigEnough, Stat, Places, Resting
  <1>3. ASSUME NEW u \in Threads \ cleaned'
        PROVE  FileStays(u)'
    BY ThreeFiles DEF IInv, TypeOK, FileStays, StoresComplete, Cached, BigEnough, Stat, Places, Resting
  <1>4. StoresComplete'
    BY ThreeFiles DEF IInv, TypeOK, StoresComplete, Cached, BigEnough, Stat, Places, Resting
  <1> QED
    BY <1>1, <1>2, <1>3, <1>4 DEF IInv

LEMMA OpenKeeps ==
  ASSUME IInv, NEW t \in Threads, Open(t)
  PROVE  IInv'
  <1> USE DEF Goto, shared, history
  <1>1. TypeOK'
    BY ThreeFiles DEF IInv, TypeOK, Cached, Open, Places, Resting
  <1>2. ASSUME NEW u \in Threads \ switched'
        PROVE  KeyIsConfig(u)'
    BY ThreeFiles DEF IInv, TypeOK, KeyIsConfig, Cached, Open, Places, Resting
  <1>3. ASSUME NEW u \in Threads \ cleaned'
        PROVE  FileStays(u)'
    BY ThreeFiles DEF IInv, TypeOK, FileStays, StoresComplete, Cached, Incomplete, Open, Places, Resting
  <1>4. StoresComplete'
    BY ThreeFiles DEF IInv, TypeOK, StoresComplete, Cached, Open, Places, Resting
  <1> QED
    BY <1>1, <1>2, <1>3, <1>4 DEF IInv

LEMMA CopyStatKeeps ==
  ASSUME IInv, NEW t \in Threads, CopyStat(t)
  PROVE  IInv'
  <1> USE DEF Goto, shared, history
  <1>1. TypeOK'
    BY ThreeFiles DEF IInv, TypeOK, Cached, CopyStat, Places, Resting
  <1>2. ASSUME NEW u \in Threads \ switched'
        PROVE  KeyIsConfig(u)'
    BY ThreeFiles DEF IInv, TypeOK, KeyIsConfig, Cached, CopyStat, Places, Resting
  <1>3. ASSUME NEW u \in Threads \ cleaned'
        PROVE  FileStays(u)'
    BY ThreeFiles DEF IInv, TypeOK, FileStays, StoresComplete, Cached, CopyStat, Places, Resting
  <1>4. StoresComplete'
    BY ThreeFiles DEF IInv, TypeOK, StoresComplete, Cached, CopyStat, Places, Resting
  <1> QED
    BY <1>1, <1>2, <1>3, <1>4 DEF IInv

LEMMA TouchKeeps ==
  ASSUME IInv, NEW t \in Threads, Touch(t)
  PROVE  IInv'
  <1> USE DEF Goto, shared, history
  <1>1. TypeOK'
    BY ThreeFiles DEF IInv, TypeOK, Touch, Places, Resting
  <1>2. ASSUME NEW u \in Threads \ switched'
        PROVE  KeyIsConfig(u)'
    BY ThreeFiles DEF IInv, TypeOK, KeyIsConfig, Touch, Places, Resting
  <1>3. ASSUME NEW u \in Threads \ cleaned'
        PROVE  FileStays(u)'
    BY ThreeFiles DEF IInv, TypeOK, FileStays, StoresComplete, Cached, Touch, Places, Resting
  <1>4. StoresComplete'
    BY ThreeFiles DEF IInv, TypeOK, StoresComplete, Touch, Places, Resting
  <1> QED
    BY <1>1, <1>2, <1>3, <1>4 DEF IInv

LEMMA DiskErrorKeeps ==
  ASSUME IInv, NEW t \in Threads, DiskError(t)
  PROVE  IInv'
  <1> USE DEF Goto, shared, history
  <1>1. TypeOK'
    BY ThreeFiles DEF IInv, TypeOK, DiskError, Places, Resting
  <1>2. ASSUME NEW u \in Threads \ switched'
        PROVE  KeyIsConfig(u)'
    BY ThreeFiles DEF IInv, TypeOK, KeyIsConfig, DiskError, Places, Resting
  <1>3. ASSUME NEW u \in Threads \ cleaned'
        PROVE  FileStays(u)'
    BY ThreeFiles DEF IInv, TypeOK, FileStays, StoresComplete, Cached, DiskError, Places, Resting
  <1>4. StoresComplete'
    BY ThreeFiles DEF IInv, TypeOK, StoresComplete, DiskError, Places, Resting
  <1> QED
    BY <1>1, <1>2, <1>3, <1>4 DEF IInv

LEMMA BuildOrderKeeps ==
  ASSUME IInv, NEW t \in Threads, BuildOrder(t)
  PROVE  IInv'
  <1> USE DEF Goto, shared, history
  <1>1. TypeOK'
    BY AudioIsConfig DEF IInv, TypeOK, BuildOrder, Places, Resting
  <1>2. ASSUME NEW u \in Threads \ switched'
        PROVE  KeyIsConfig(u)'
    BY AudioIsConfig DEF IInv, TypeOK, KeyIsConfig, BuildOrder, Places, Resting
  <1>3. ASSUME NEW u \in Threads \ cleaned'
        PROVE  FileStays(u)'
    BY AudioIsConfig DEF IInv, TypeOK, FileStays, StoresComplete, Cached, BuildOrder, Places, Resting
  <1>4. StoresComplete'
    BY AudioIsConfig DEF IInv, TypeOK, StoresComplete, BuildOrder, Places, Resting
  <1> QED
    BY <1>1, <1>2, <1>3, <1>4 DEF IInv

LEMMA SynthesizeKeeps ==
  ASSUME IInv, NEW t \in Threads, Synthesize(t)
  PROVE  IInv'
  <1> USE DEF Goto, shared, history
  <1>1. TypeOK'
    BY AudioIsConfig DEF IInv, TypeOK, Cacheable, Synthesize, Places, Resting
  <1>2. ASSUME NEW u \in Threads \ switched'
        PROVE  KeyIsConfig(u)'
    BY AudioIsConfig DEF IInv, TypeOK, KeyIsConfig, Cacheable, Synthesize, Places, Resting
  <1>3. ASSUME NEW u \in Threads \ cleaned'
        PROVE  FileStays(u)'
    BY AudioIsConfig DEF IInv, TypeOK, FileStays, StoresComplete, Cached, Cacheable, Synthesize, Places, Resting
  <1>4. StoresComplete'
    BY AudioIsConfig DEF IInv, TypeOK, StoresComplete, Cacheable, Synthesize, Places, Resting
  <1> QED
    BY <1>1, <1>2, <1>3, <1>4 DEF IInv

LEMMA WriteTempKeeps ==
  ASSUME IInv, NEW t \in Threads, WriteTemp(t)
  PROVE  IInv'
  <1> USE DEF Goto, shared, history
  <1>1. TypeOK'
    BY ThreeFiles DEF IInv, TypeOK, WriteTemp, Places, Resting
  <1>2. ASSUME NEW u \in Threads \ switched'
        PROVE  KeyIsConfig(u)'
    BY ThreeFiles DEF IInv, TypeOK, KeyIsConfig, WriteTemp, Places, Resting
  <1>3. ASSUME NEW u \in Threads \ cleaned'
        PROVE  FileStays(u)'
    BY ThreeFiles DEF IInv, TypeOK, FileStays, StoresComplete, Cached, WriteTemp, Places, Resting
  <1>4. StoresComplete'
    BY ThreeFiles DEF IInv, TypeOK, StoresComplete, WriteTemp, Places, Resting
  <1> QED
    BY <1>1, <1>2, <1>3, <1>4 DEF IInv

LEMMA ReplaceKeeps ==
  ASSUME IInv, NEW t \in Threads, Replace(t)
  PROVE  IInv'
  <1> USE DEF Goto, shared, history
  <1>1. TypeOK'
    BY ThreeFiles DEF IInv, TypeOK, Replace, Places, Resting
  <1>2. ASSUME NEW u \in Threads \ switched'
        PROVE  KeyIsConfig(u)'
    BY ThreeFiles DEF IInv, TypeOK, KeyIsConfig, Replace, Places, Resting
  <1>3. ASSUME NEW u \in Threads \ cleaned'
        PROVE  FileStays(u)'
    BY ThreeFiles DEF IInv, TypeOK, FileStays, StoresComplete, Cached, Incomplete, Replace, Places, Resting
  <1>4. StoresComplete'
    BY ThreeFiles DEF IInv, TypeOK, StoresComplete, Incomplete, Replace, Places, Resting
  <1> QED
    BY <1>1, <1>2, <1>3, <1>4 DEF IInv

LEMMA CleanStatKeeps ==
  ASSUME IInv, NEW c \in Cleaners, CleanStat(c)
  PROVE  IInv'
  <1> USE DEF Goto, shared, history
  <1>1. TypeOK'
    BY ThreeFiles DEF IInv, TypeOK, CleanStat, Places, Resting
  <1>2. ASSUME NEW u \in Threads \ switched'
        PROVE  KeyIsConfig(u)'
    BY ThreeFiles DEF IInv, TypeOK, KeyIsConfig, CleanStat, Places, Resting
  <1>3. ASSUME NEW u \in Threads \ cleaned'
        PROVE  FileStays(u)'
    BY ThreeFiles DEF IInv, TypeOK, FileStays, StoresComplete, Cached, CleanStat, Places, Resting
  <1>4. StoresComplete'
    BY ThreeFiles DEF IInv, TypeOK, StoresComplete, CleanStat, Places, Resting
  <1> QED
    BY <1>1, <1>2, <1>3, <1>4 DEF IInv

LEMMA CleanUnlinkKeeps ==
  ASSUME IInv, NEW c \in Cleaners, CleanUnlink(c)
  PROVE  IInv'
  <1> USE DEF Goto, shared, history
  <1>1. TypeOK'
    BY ThreeFiles DEF IInv, TypeOK, CleanUnlink, Places, Resting
  <1>2. ASSUME NEW u \in Threads \ switched'
        PROVE  KeyIsConfig(u)'
    BY ThreeFiles DEF IInv, TypeOK, KeyIsConfig, CleanUnlink, Places, Resting
  <1>3. ASSUME NEW u \in Threads \ cleaned'
        PROVE  FileStays(u)'
    BY ThreeFiles DEF IInv, TypeOK, FileStays, StoresComplete, Cached, CleanUnlink, Places, Resting
  <1>4. StoresComplete'
    BY ThreeFiles DEF IInv, TypeOK, StoresComplete, CleanUnlink, Places, Resting
  <1> QED
    BY <1>1, <1>2, <1>3, <1>4 DEF IInv

LEMMA ExpireKeeps ==
  ASSUME IInv, NEW k \in Configs, Expire(k)
  PROVE  IInv'
  <1> USE DEF Goto, shared, history
  <1>1. TypeOK'
    BY ThreeFiles DEF IInv, TypeOK, Expire, Places, Resting
  <1>2. ASSUME NEW u \in Threads \ switched'
        PROVE  KeyIsConfig(u)'
    BY ThreeFiles DEF IInv, TypeOK, KeyIsConfig, Expire, Places, Resting
  <1>3. ASSUME NEW u \in Threads \ cleaned'
        PROVE  FileStays(u)'
    BY ThreeFiles DEF IInv, TypeOK, FileStays, StoresComplete, Cached, Expire, Places, Resting
  <1>4. StoresComplete'
    BY ThreeFiles DEF IInv, TypeOK, StoresComplete, Expire, Places, Resting
  <1> QED
    BY <1>1, <1>2, <1>3, <1>4 DEF IInv

LEMMA UpdateConfigKeeps ==
  ASSUME IInv, UpdateConfig
  PROVE  IInv'
  <1> USE DEF Goto, shared, history
  <1>1. TypeOK'
    BY ThreeFiles DEF IInv, TypeOK, UpdateConfig, Places, Resting
  <1>2. ASSUME NEW u \in Threads \ switched'
        PROVE  KeyIsConfig(u)'
    BY ThreeFiles DEF IInv, TypeOK, KeyIsConfig, UpdateConfig, Places, Resting
  <1>3. ASSUME NEW u \in Threads \ cleaned'
        PROVE  FileStays(u)'
    BY ThreeFiles DEF IInv, TypeOK, FileStays, StoresComplete, Cached, UpdateConfig, Places, Resting
  <1>4. StoresComplete'
    BY ThreeFiles DEF IInv, TypeOK, StoresComplete, UpdateConfig, Places, Resting
  <1> QED
    BY <1>1, <1>2, <1>3, <1>4 DEF IInv

LEMMA NextKeeps ==
  ASSUME IInv, [Next]_vars
  PROVE  IInv'
  <1>1. ASSUME NEW t \in Threads,
               \/ Begin(t) \/ Exists(t) \/ Stat(t) \/ Open(t) \/ CopyStat(t) \/ Touch(t)
               \/ DiskError(t) \/ BuildOrder(t) \/ Synthesize(t) \/ WriteTemp(t) \/ Replace(t)
        PROVE  IInv'
    BY <1>1, BeginKeeps, ExistsKeeps, StatKeeps, OpenKeeps, CopyStatKeeps, TouchKeeps,
       DiskErrorKeeps, BuildOrderKeeps, SynthesizeKeeps, WriteTempKeeps, ReplaceKeeps
  <1>2. ASSUME NEW c \in Cleaners, CleanStat(c) \/ CleanUnlink(c)
        PROVE  IInv'
    BY <1>2, CleanStatKeeps, CleanUnlinkKeeps
  <1>3. ASSUME NEW k \in Configs, Expire(k)
        PROVE  IInv'
    BY <1>3, ExpireKeeps
  <1>4. CASE UpdateConfig
    BY <1>4, UpdateConfigKeeps
  <1>5. CASE UNCHANGED vars
    BY <1>5 DEF IInv, TypeOK, KeyIsConfig, FileStays, StoresComplete, Cached, vars, history
  <1> QED
    BY <1>1, <1>2, <1>3, <1>4, <1>5 DEF Next

\* What is stored under a key is the key's engine in the key's voice, unless the
\* configuration changed under the call; what is played is complete, unless its file was
\* unlinked under the call.
THEOREM CacheSound == Spec => [](TypeOK /\ StoresKeyVoice /\ ServedIsComplete)
  <1>1. Init => IInv
    BY InitEstablishes
  <1>2. IInv /\ [Next]_vars => IInv'
    BY NextKeeps
  <1>3. IInv => TypeOK /\ StoresKeyVoice /\ ServedIsComplete
    BY DEF IInv, KeyIsConfig, FileStays, StoresKeyVoice, ServedIsComplete
  <1> QED
    BY <1>1, <1>2, <1>3, PTL DEF Spec

\* A file that was there when a call looked has gone before its copy only if a cleanup
\* unlinked it while the call ran.
THEOREM HitsSurvive == Spec => []VanishesOnlyByCleanup
  <1>1. Init => IInv
    BY InitEstablishes
  <1>2. IInv /\ [Next]_vars => IInv'
    BY NextKeeps
  <1>3. IInv => VanishesOnlyByCleanup
    BY DEF IInv, FileStays, VanishesOnlyByCleanup
  <1> QED
    BY <1>1, <1>2, <1>3, PTL DEF Spec
=============================================================================
