CONSTANTS
  p0 = p0
  p1 = p1
  p2 = p2
  n1 = n1
  n2 = n2
  j1 = j1
  None = None
  Client = {c1, c2}
  Internal = {j1, reaper}
  Id = {d1, d2, d3}
  Name = {n1, n2}
  Binding = {p0, p1, p2}
  Baseline = {p0}
  Manifest <- MCManifest
  Reaper = reaper
  PoolSize = 1
  IdleTTL = 1
  MaxTTL = 2
SPECIFICATION ApiSpec
CHECK_DEADLOCK FALSE
PROPERTIES
  DeletedNeverActivated
