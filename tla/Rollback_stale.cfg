\* Two operations on an app of two releases with a fixed port: a rollback whose
\* health check fails loses its lock to a redeploy of the release it goes back to.
SPECIFICATION RbSpec
CONSTANTS
  Actors = {p1, p2}
  Nobody = Nobody
  NoRelease = 0
  Releases = {1, 2}
  Workers = {}
  Jobs = {"rollback", "redeploy"}
  Ingresses = {"host"}
  Robbing = TRUE
  Fails = {"health"}
  Dies = {}
PROPERTY StaleRollbackSparesNewer
CHECK_DEADLOCK FALSE
