CONSTANTS
  s1 = s1
  s2 = s2
  s3 = s3
  w1 = w1
  w2 = w2
  edge = edge
  api = api
  ssh = ssh
  http = http
  low = low
  mid = mid
  high = high
  Analyst <- TwoWorkers
  Visit <- TwoSids
  Metric <- Levels
  Score <- Scores
  MatchThreshold = 1
  Skill <- Skills
  ProfileId = {1, 2, 3}
  Import <- Shared
  MaxProfiles = 2
  MaxSessionsOf = 1
  MaxNotes = 1
  MaxListed = 1
  LastSecond = 1
  MaxTasks = 4
  Process <- TwoProcesses
  Worker <- TwoWorkers
  Sid <- ThreeSids
  Backends <- BothBackends
  TagRequest <- SomeTags
  Service <- TwoServices
  MaxEvents = 1
  MaxSessions = 2
  MaxTags = 1
  MaxTouched = 1
  MaxDepth = 2
  MaxOps = 5
  None = None
SPECIFICATION InstancesSpec
CHECK_DEADLOCK FALSE
SYMMETRY SessionSymmetry
INVARIANTS
  RetainedAndListed
  NarrativeComplete
PROPERTIES
  RecordedOnce
  DropsLeastRecent
  ProfilesHold
