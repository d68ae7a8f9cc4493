\* Two calls at a time, three cookies or sessions in all.
CONSTANTS
  Threads = {t1, t2}
  MaxIssued = 3
SPECIFICATION Spec
INVARIANTS TypeOK GivesUpOnFresh CredentialsPresent OwnTextUnlessCrossed
