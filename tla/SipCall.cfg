\* One call with two playbacks, over TCP/TLS, where the connection may break, or over
\* UDP, where datagrams are lost and reordered and final responses repeated.
CONSTANTS
  Transports = {"tcp", "udp"}
  Repeat = 2
  Rejections = {302, 407, 408, 486, 603}
  MaxDown = 2
SPECIFICATION FairSpec
INVARIANTS TypeOK NobodyLeftOnTheLine ErrorsActedOnAreAcked ResultMatchesCallee
PROPERTIES ImplementsDialog CallReturns CalleeReleased
\* The call is over and the far end has settled.
CHECK_DEADLOCK FALSE
