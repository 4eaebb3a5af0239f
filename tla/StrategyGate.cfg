SPECIFICATION Spec
CONSTANTS
  Orders = {o1, o2}
  Quantities = {2}
  MaxPosition = 2
  Controls = {"kill", "flatten", "enable"}
  MaxControls = 2
  MaxSessions = 2
  MaxMishaps = 2
INVARIANTS
  KillReachesAll
  NoneWorksUnattended
  LimitHeld
PROPERTY NothingAdmittedWhileHalted
CHECK_DEADLOCK FALSE
SYMMETRY OrderSymmetry
