\* The docstring of cleanup_cache (tts_service.py:219) against a hit between its look at
\* the age of a file and the unlink.
CONSTANTS
  Threads = {t1, t2}
  Cleaners = {c1, c2}
  Configs <- MCVoices
  Engines = {"zalo", "gtts"}
SPECIFICATION Spec
PROPERTY FilesInUseSurvive
