\* Deploys that only fail their checks.
SPECIFICATION Spec
CONSTANTS
  a = a
  b = b
  v1 = v1
  v2 = v2
  v3 = v3
  Ops = {a, b}
  Founder = Founder
  NoOne = NoOne
  Vers = {v1, v2, v3}
  NoVer = NoVer
  Plans <- MCPlans
  LiveBreaks = FALSE
  Unlocks = FALSE
  Faults = {}
  CrashAt = {}
INVARIANT FailureKeepsServing
CHECK_DEADLOCK FALSE
