CONSTANTS
  home = home
  etc = etc
  env = env
  config = config
  jailbreak = jailbreak
  chat = chat
  db = db
  aws = aws
  marker = marker
  Connection = {c1, c2, c3, c4}
  Slots = 2
  Failures = 2
  MaxStarts = 2
  Directory <- Directories
  Home = home
  MaxStates = 2
  MaxCommands = 2
  Session = {s1, s2, s3}
  MaxTracked = 2
  Request = {c1, c2, c3, c4}
  Visitor = {s1, s2, s3}
  Ask <- Asks
  Needs <- TokensOf
  FileAsk <- FileReads
  ToolAsk <- FileReads
  PerSession = {db}
  PerInstall = {marker}
  MaxBuckets = 1
  MaxWorlds = 1
  MaxFilesKept = 1
SPECIFICATION EmulatorsSpec
SYMMETRY EmulatorSymmetry
CHECK_DEADLOCK FALSE
INVARIANTS
  SlotsKept
  ForgetsOnlyIdle
  AdmitsAfterFailures
  TrapsHold
