\* An undeployed app goes back to folder home and is deployed.
SPECIFICATION Spec
CONSTANTS
  o1 = o1
  o2 = o2
  u1 = u1
  Ops = {o1, o2}
  Renewing = {o1, o2}
  Patient = {}
  Heals = {}
  Freezers = {}
  Unlockers = {}
  NoOne = NoOne
  AutoTTL = 3
  HealTTL = 1
  RenewEvery = 1
  CrashAt = {}
  Lossy = FALSE
  Jobs = {"release", "home", "folder"}
  MaxGen = 3
  Ambiguous = FALSE
  Delayed = FALSE
INVARIANT HolderCanCommit
CHECK_DEADLOCK FALSE
