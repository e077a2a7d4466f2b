CONSTANTS
  Uid <- MCUid
  Window = 2
  Page = {p1, p2}
  BatchLimit = 2
  MaxDrops = 2
  MaxRestarts = 1
  Disconnected = Disconnected
  ssh = ssh
  mongo = mongo
  calm = calm
  db = db
  Configured = {ssh, mongo}
  Profile = {calm, db}
  Enabled <- Switches
  Instance = {1, 2, 3, 4, 5}
  Scheduler = scheduler
  Operator = {o1}
  Deployment = deployment
  MaxDisturbances = 2
  Nothing = Nothing
  ClientId = {c1, c2, c3}
  Part = 11
  Second = 3
  Short = 1
  Refill = 2
  Capacity = 2
  MaxTracked = 1
  StaleAfter = 4
  MaxMoments = 9
SPECIFICATION OrchestratorSpec
CHECK_DEADLOCK FALSE
INVARIANTS
  ShownInOrder
  ServicesMatch
  LimitIsKept
PROPERTIES
  CatchesUp
  
