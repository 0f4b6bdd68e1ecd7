SPECIFICATION AllSpec
CONSTANTS
  NoScope = NoScope
  Scopes = {s1}
  Agents = {a1, a2}
  Consoles = {w1}
  Daemons = {}
  Faults = {"refuse", "lost", "miss"}
  LedgerFull = TRUE
  MaxKeys = 3
  MaxOps = 4
  MaxCrashes = 2
  Parents = {"p"}
  Children = {"x1", "x2"}
  Leaves = {"l1"}
  Self = "self"
  Delegators = {"d1"}
  OutScopes = {"o1"}
  None = None
  Calls = {"k1", "k2"}
  Tools = {"derive", "read"}
  MaxChildren = 2
  MaxGrantees = 1
  RelayFaults = {"refuse", "lost", "miss"}
  MaxRestarts = 1
INVARIANTS RecordedServed CutStaysCut TombstoneMeansSevered
PROPERTIES FocusFindsTarget
SYMMETRY Symmetry
CHECK_DEADLOCK FALSE
