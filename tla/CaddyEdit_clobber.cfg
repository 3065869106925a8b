\* Only a dead editor is judged stale; one reload fails.
SPECIFICATION Spec
CONSTANTS
  d = d
  e = e
  f = f
  x = x
  y = y
  Editors = {d, e, f}
  NoOne = NoOne
  Apps = {x, y}
  AppOf <- MCAppOf
  Before = Before
  NoBlock = NoBlock
  Removers = {f}
  Comparing = {d, e}
  LiveBreaks = FALSE
  Faults = {"reload"}
  CrashAt = {"commit"}
PROPERTY NoClobber
CHECK_DEADLOCK FALSE
