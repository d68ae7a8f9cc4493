\* Two calls at a time for the same text, and two cleanups.
CONSTANTS
  Threads = {t1, t2}
  Cleaners = {c1, c2}
  Configs <- MCVoices
  Engines = {"zalo", "gtts"}
SPECIFICATION Spec
SYMMETRY ThreadSymmetry
INVARIANTS TypeOK StoresKeyVoice ServedIsComplete VanishesOnlyByCleanup
