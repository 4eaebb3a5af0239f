SPECIFICATION Spec
CONSTANTS
  Sessions = {s1}
  Keys = {k1}
  Principals = {ann}
  s1 = s1
  k1 = k1
  ann = ann
  bob = bob
  tab = tab
  laptop = laptop
  Owner <- MCOwner
  Requests = {q1}
  Idle = 3
  Absolute = 4
  TouchEvery = 1
  KeepAliveEvery = 2
  MaxTime = 7
  MaxHiccups = 1
  Logins = {1, 2}
  Browsers = {tab, laptop}
  Subjects = {ann, bob}
  Seed <- MCSeed
  RefetchEvery = 2
  MaxClock = 3
  MaxRotations = 1
  MaxIdpFailures = 1
  MaxEdits = 1
  MaxConns = 2
  MaxChanges = 3
INVARIANTS CutOffHolds SessionLifetime RightPrincipal ControlsArrive
CHECK_DEADLOCK FALSE
