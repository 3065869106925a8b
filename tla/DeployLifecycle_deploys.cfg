\* Two deploys under locks that are broken, with failing commands and crashes.
SPECIFICATION Spec
CONSTANTS
  a = a
  b = b
  v1 = v1
  v2 = v2
  v3 = v3
  Ops = {a, b}
  Founder = Founder
  NoOne = NoOne
  Vers = {v1, v2, v3}
  NoVer = NoVer
  Plans <- MCPlans
  LiveBreaks = TRUE
  Unlocks = TRUE
  Faults = {"list", "inspect", "stop", "run", "state", "route"}
  CrashAt = {"switch", "commit", "retiring"}
SYMMETRY DeploySymmetry
INVARIANTS TypeOK AuthorityRunning RouteLive SettledClean
PROPERTY FencedSparesNewer
CHECK_DEADLOCK FALSE
