\* Two requests in any window of two ticks, a store of one key, three clients.
CONSTANTS
  Keys = {ip1, ip2, ip3}
  MaxEvents = 2
  Window = 2
  MaxKeys = 1
  MaxRequests = 6
  MaxTime = 4
SPECIFICATION Spec
INVARIANTS TypeOK AtMostPerWindow StoreHoldsRecentClients
PROPERTIES ImplementsSlidingWindow
CHECK_DEADLOCK FALSE
