SPECIFICATION Spec
CONSTANTS
  c1 = c1
  c2 = c2
  Scopes = {s1}
  Calls = {c1, c2}
  CallOps <- Tools
  AutoScopes = {s1}
  RelayFaults = {"miss","lag","throw"}
  MaxGen = 2
  MaxPubs = 2
  MaxRestarts = 0
INVARIANTS StoreSealed DeadNeverServed RevocationExplained
CHECK_DEADLOCK FALSE
