CONSTANTS
  p1 = p1
  p2 = p2
  a1 = a1
  a2 = a2
  a3 = a3
  Publisher <- MCPublisher
  Uid <- MCUid
  Listener = listener
  Handler = {h1}
  Window = 2
  None = None
  Caller = {c1, c2}
  Alert <- MCAlert
  Quiet <- MCQuiet
  Destinations = 3
  ThrottleKey <- MCThrottleKey
  Admits <- MCAdmits
  Throttle = 1
  StaleAfter = 2
  MaxKeys = 1
  MaxAlerts = 2
  MaxTime = 2
  NoAlert = NoAlert
SPECIFICATION BusOnlySpec
CHECK_DEADLOCK FALSE
PROPERTIES
  ReachesAllSubscribers
