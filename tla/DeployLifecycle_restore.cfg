\* No command fails and no client dies; a live lock may be broken, which
\* fails the commit of the deploy that held it.
SPECIFICATION Spec
CONSTANTS
  a = a
  b = b
  v1 = v1
  v2 = v2
  v3 = v3
  Ops = {a, b}
  Founder = Founder
  NoOne = NoOne
  Vers = {v1, v2, v3}
  NoVer = NoVer
  Plans <- MCPlans
  LiveBreaks = TRUE
  Unlocks = TRUE
  Faults = {}
  CrashAt = {}
PROPERTY StaleRestoreSparesNewer
CHECK_DEADLOCK FALSE
