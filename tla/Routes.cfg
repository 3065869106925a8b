\* Two edits of one app, one of another, under a lock that may be broken;
\* two operations on an app of three releases, under a lock that may be broken.
SPECIFICATION MCSpec
CONSTANTS
  d = d
  e = e
  f = f
  x = x
  y = y
  Editors = {d, e, f}
  NoOne = NoOne
  Apps = {x, y}
  AppOf <- MCAppOf
  Before = Before
  NoBlock = NoBlock
  Removers = {f}
  Comparing = {d, e}
  LiveBreaks = TRUE
  Faults = {"info", "answer", "reload", "verify", "restore"}
  CrashAt = {"info", "commit", "reload", "rollback"}
  p1 = p1
  p2 = p2
  Actors = {p1, p2}
  Nobody = Nobody
  NoRelease = 0
  Releases = {1, 2, 3}
  Workers = {2}
  Jobs = {"rollback", "stop", "start", "restart", "redeploy"}
  Ingresses = {"caddy", "published", "host"}
  Robbing = TRUE
  Fails = {"run", "health", "route", "state", "answer", "stop"}
  Dies = {"run", "commit", "retire", "halt"}
SYMMETRY RouteSymmetry
INVARIANTS RoutesTypeOK OneWins SettledAgrees FailedRollbackUndone OkServes
PROPERTIES LockedEditsKeepOthers FencedRollbackSparesNewer
CHECK_DEADLOCK FALSE
