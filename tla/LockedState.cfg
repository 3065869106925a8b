\* The lock of two operations, a heal pass, a freeze and an unlock, under every fault;
\* every operation on the state, the two that delete state.json included.
SPECIFICATION MCSpec
CONSTANTS
  o1 = o1
  o2 = o2
  h1 = h1
  f1 = f1
  u1 = u1
  Ops = {o1, o2}
  Renewing = {o1, o2}
  Patient = {}
  Heals = {h1}
  Freezers = {f1}
  Unlockers = {u1}
  NoOne = NoOne
  AutoTTL = 3
  HealTTL = 1
  RenewEvery = 1
  CrashAt = {"write", "held", "release"}
  Lossy = TRUE
  Jobs = {"release", "remove", "home", "folder"}
  MaxGen = 2
  Ambiguous = TRUE
  Delayed = TRUE
SYMMETRY OpSymmetry
INVARIANT LockInv
PROPERTIES ImplementsLease FenceLossIsPermanent ReleaseSparesSuccessor NoLostUpdate
CHECK_DEADLOCK FALSE
