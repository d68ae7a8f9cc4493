\* Three calls, one of them with a webhook, and two threads for all of their blocking jobs,
\* which syntheses that hang may hold for ever; one RTP port (11..13 holds one even port
\* below the limit), a table of two records: calls compete for threads, ports and records.
CONSTANTS
  Calls = {c1, c2, c3}
  Callbacks = {c1}
  Workers = 2
  MaxRecords = 2
  MaxHops = 1
  PortMin = 11
  PortMax = 13
  NoPort = NoPort
  Refused = Refused
SPECIFICATION FairSpec
INVARIANTS TypeOK ActiveNeverEvicted WavLifetime WebhookReportsOutcome PortReturnedWithJob
PROPERTIES EvictsOldestFirst ImplementsLifecycle EveryCallConcludes
\* Every call is over, or its synthesis hangs.
CHECK_DEADLOCK FALSE
