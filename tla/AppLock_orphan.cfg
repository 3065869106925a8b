\* A client dies between making the lock directory and writing its info file.
SPECIFICATION FairLockSpec
CONSTANTS
  o1 = o1
  o2 = o2
  o3 = o3
  h1 = h1
  f1 = f1
  u1 = u1
  Ops = {o1, o2}
  Renewing = {o1, o2}
  Patient = {o2}
  Heals = {}
  Freezers = {}
  Unlockers = {}
  NoOne = NoOne
  AutoTTL = 3
  HealTTL = 1
  RenewEvery = 1
  CrashAt = {"write"}
  Lossy = FALSE
PROPERTY WaiterGetsThrough
CHECK_DEADLOCK FALSE
