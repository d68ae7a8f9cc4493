\* The docstring of is_registered (sip_controller.py:1233) against a 200 of an earlier
\* attempt that is read as the answer to a later one.
CONSTANTS
  Expires = 13
  MaxDelay = 1
  MaxPipe = 2
  Long = 26
SPECIFICATION Spec
INVARIANT ReportedIsBound
