SPECIFICATION FairSpec
CONSTANTS
  c1 = c1
  c2 = c2
  Scopes = {s1}
  Calls = {c1, c2}
  CallOps <- ReaderAndSweeper
  AutoScopes = {s1}
  RelayFaults = {"miss"}
  MaxGen = 2
  MaxPubs = 2
  MaxRestarts = 1
PROPERTIES LapsedIsRelinquished DeadPlaintextLeaves RotationDetected
CHECK_DEADLOCK FALSE
