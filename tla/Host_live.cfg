SPECIFICATION AllSpec
CONSTANTS
  e1 = e1
  e2 = e2
  r1 = r1
  r2 = r2
  NoMan = NoMan
  Events = {e1, e2}
  InDM = {e2}
  Relays = {r1, r2}
  Policies <- NoPolicy
  Ears = {"keyless", "buzz"}
  FaultyEars = {"keyless"}
  HeldCap = 1
  RefreshAge = 2
  MaxTroubles <- TwoTroubles
  Ids = {"i0", "n1", "n2"}
  Installed = {"i0"}
  New = {"n1", "n2"}
  KeysOf <- oneBad
  NoKey = "none"
  Contents <- contents
  Bad <- badContents
  MaxRel = 1
  MaxEdits = 0
  MaxFaults = 0
  MaxKills = 0
  MaxSigned = 1
  MaxWaits = 1
  Reverts = FALSE
INVARIANTS OwnBlock
PROPERTIES EveryArrivalMarked ViewCatchesUp EstateSettles
CHECK_DEADLOCK FALSE
