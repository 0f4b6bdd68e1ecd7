SPECIFICATION AllSpec
CONSTANTS
  Envelopes = {"e1"}
  Tasks = {"e1"}
  Owner = "owner"
  MaxSaid = 1
  MaxBreaks = 2
  Sess = {"t1", "t2", "t3"}
  MaxSessions = 1
  Overlap = FALSE
  MaxEnds = 2
  Users = {"supervisor", "keeper"}
  Unsure = {"supervisor"}
  MaxRuns = 7
  MaxFaults = 2
INVARIANTS NewestWins RecoveredIsToReceipt ExitLeavesNothing
PROPERTIES EveryEnvelopeRead  EverySettled EveryAdmittedPosted ShownAgain
CHECK_DEADLOCK FALSE
