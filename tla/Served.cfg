\* Commits with lost answers, late commands and an operator's unlock; two clients
\* and five commands over the settings, one of them cut off; two backups and any
\* number of prunes by two machines, one command refused.
SPECIFICATION MCSpec
CONSTANTS
  o1 = o1
  o2 = o2
  u1 = u1
  Ops = {o1, o2}
  Renewing = {o1, o2}
  Patient = {}
  Heals = {}
  Freezers = {}
  Unlockers = {u1}
  NoOne = NoOne
  AutoTTL = 3
  HealTTL = 1
  RenewEvery = 1
  CrashAt = {}
  Lossy = FALSE
  Jobs = {"release", "home"}
  MaxGen = 3
  Ambiguous = TRUE
  Delayed = TRUE
  Clients = {o1, o2}
  MaxTries = 1
  MaxOps = 5
  MaxCuts = 1
  Runs = {o1, o2}
  Databases = {"db"}
  Rules = {"daily", "weekly"}
  Period <- DaysAndWeeks
  Targets <- LastOrByCalendar
  MaxClockSkew = 1
  SafetyWindow = 4
  SafetyKeep = 1
  PruneBrakeMin = 2
  Skews <- BehindOrFarAhead
  MaxIds = 2
  MaxClock = 1
  MaxFaults = 1
SYMMETRY OpSymmetry
INVARIANTS ServedTypeOK AbortedUnpublished HolderCanCommit OkIsAuthority
  AckedKept OrphansHaveACause
  NothingKeptIsLost SurvivorsWhole ScanAgrees
PROPERTIES ImplementsRegister PurgeHolds
CHECK_DEADLOCK FALSE
