\* The docstring of refresh (sip_controller.py:159) against a connection that dies.
CONSTANTS
  Expires = 9
  MaxDelay = 1
  MaxPipe = 1
  Long = 18
SPECIFICATION FairSpec
PROPERTY ReconnectsIfDead
