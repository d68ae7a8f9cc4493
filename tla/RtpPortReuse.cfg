\* Five calls compete for the four even ports of an odd-bounded range.
CONSTANTS
  PortMin = 9
  PortMax = 17
  Callers = {c1, c2, c3, c4, c5}
  NoPort = NoPort
  Refused = Refused
SPECIFICATION ReuseSpec
INVARIANTS TypeOK NoPortLost LeaseExclusive
PROPERTIES ImplementsPool ReusedLast
