SPECIFICATION WatchSpec
CONSTANTS
  e1 = e1
  e2 = e2
  r1 = r1
  r2 = r2
  Events = {e1, e2}
  InDM = {e2}
  Relays = {r1, r2}
  Policies <- Policies3
  Ears = {"keyed"}
  FaultyEars = {}
  HeldCap = 1
  RefreshAge = 2
  MaxTroubles <- NoTrouble

PROPERTIES GrantedNeverMissed
CHECK_DEADLOCK FALSE
