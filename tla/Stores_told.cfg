SPECIFICATION AllSpec
CONSTANTS
  Claims <- StoreClaims
  Imports <- StoreImports
  PerHour = 1
  MaxUnbacked = 0
  Retention = 1
  Overlap = FALSE
  Losses = {"db", "ledger", "host", "copy"}
  MaxSeq = 5
  MaxNow = 2
  MaxLosses = 1
  MaxBackups = 2
  Conns = {"k1", "k2"}
  Bindings <- bindings
  Configs <- configs
  FirstConfig <- both
  Scopes <- room
  Slugs = {"x-wip"}
  Workflows = {"x-wip"}
  Ttls = {2}
  WakeLimit = 1
  MaxTtl = 2
  MaxWorkflowTtl = 1
  Keyless = ""
  MaxRows = 2
  MaxTime = 2
  MaxReloads = 1
  Answerers = {r1, r2}
  Grants = {g1, g2}
  Lapsing = {g1}
  Limit = 2
  MaxReads = 2
  Requests = {"q1", "q2"}
  Nobody = "nobody"
  Cap = 1
  Window = 2
  MaxClock = 2
  MaxStops = 2
  Calls = {"a", "b", "c"}
  NoCall = "none"
  Delegators = {"p"}
  MaxFaults = 1
  Events = {"e1", "e2"}
  InDM = {"e2"}
  Relays = {"r1", "r2"}
  Policies <- policies
  Ears = {"keyed"}
  FaultyEars = {}
  HeldCap = 1
  RefreshAge = 2
  MaxTroubles <- oneTrouble
INVARIANTS ToldIsKept NoLostUpdate ActiveWasTrue ToldIsDone OneEventPerRequest PolicyIsUnion
PROPERTIES KeepsTheMemory
CHECK_DEADLOCK FALSE
