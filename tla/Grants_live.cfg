SPECIFICATION AllSpec
CONSTANTS
  Scopes = {"s1"}
  Agents = {"a1", "a2"}
  Consoles = {"w1"}
  Daemons = {}
  NoScope = "none"
  Faults = {}
  LedgerFull = FALSE
  MaxKeys = 6
  MaxOps = 4
  MaxCrashes = 0
  Nobody = Nobody
  Sessions = {s1}
  Readers = {r1}
  Subs = {u1}
  Timers = {t1}
  Ticks = {k1, k2}
  MaxPubs = 2
  Flaky = TRUE
  GrantRelays = {"r1", "r2"}
  Grantors = {"g", "h"}
  Senders = {"g", "h", "v"}
  Issues <- issues
  MaxIssued = 3
INVARIANTS TasksAreGranted
PROPERTIES SubscriberTold DeadlinesKept LapsedIsCut CascadeCompletes
CHECK_DEADLOCK FALSE
