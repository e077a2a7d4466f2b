CONSTANTS
  w1 = w1
  w2 = w2
  t1 = t1
  t2 = t2
  t3 = t3
  ssh = ssh
  draft = draft
  active = active
  Caller = {w1, w2}
  Arm <- Arms
  Context = {ssh}
  Offered <- ArmsOffered
  Wildcard = all
  Denylist <- DeniedArms
  CapPart = 3
  CapWhole = 5
  Cooldown = 1
  Duration <- OverrideTimes
  MaxTime = 2
  MaxTotal = 2
  Thread = {t1, t2, t3}
  Campaign = {c1}
  Status = {draft, active}
  Token = {k1}
  Table = {hits, decisions}
  Hits = hits
  Reports = reports
  None = None
  MaxVersion = 2
  MaxRows = 1
  Intruder = {t1, t2, t3}
  MaxBusy = 2
  MaxKept = 2
  Depth = 2
  MaxRequests = 4
  Connection = {t1, t2, t3}
  Api = api
  Threshold = 2
  LlmCooldown = 1
  MaxSeconds = 4
SPECIFICATION OperationsSpec
SYMMETRY Symmetry
CHECK_DEADLOCK FALSE
INVARIANTS
  SomeArmBelowCap
  HistoryTold
  AnswersHold
  NobodyStuck
PROPERTIES
  SelectionsAsSet
  EngineHolds
