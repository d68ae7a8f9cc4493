\* The comment at tts_service.py:194 against update_config during a synthesis.
CONSTANTS
  Threads = {t1, t2}
  Cleaners = {c1, c2}
  Configs <- MCConfigs
  Engines = {"zalo", "gtts"}
SPECIFICATION Spec
INVARIANT CacheCoherent
