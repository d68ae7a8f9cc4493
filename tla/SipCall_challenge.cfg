\* The comment at sip_controller.py:626 against a 407 that the first read does not start with.
CONSTANTS
  Transports = {"tcp"}
  Repeat = 2
  Rejections = {302, 404, 407, 408, 486, 603}
  MaxDown = 3
SPECIFICATION Spec
INVARIANT ChallengeIsRetried
\* The call is over and the far end has settled.
CHECK_DEADLOCK FALSE
