CONSTANTS
  p1 = p1
  n1 = n1
  None = None
  Client = {c1}
  Internal = {j1, reaper}
  Reaper = reaper
  Id = {d1}
  Name = {n1}
  Binding = {p1}
  Baseline = {}
  Manifest <- OneManifest
  PoolSize = 1
  IdleTTL = 1
  MaxTTL = 2
  MaxActivities = 2
  Loop = {t1, t2}
  NoLoop = NoLoop
  MaxQueue = 1
  BatchSize = 2
  MaxRetries = 1
  MaxLetters = 1
  MaxFiles = 1
  MaxEntries = 3
  MaxFaults = 1
SPECIFICATION SiemSpec
CHECK_DEADLOCK FALSE
PROPERTIES
  UndeliverableIsWritten
