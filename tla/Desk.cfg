SPECIFICATION DeskSpec
CONSTANTS
  Quantities = {0, 1, 2, 3}
  Prices = {0, 1, 2}
  MaxEvents = 5
  ClOrdIds = {"c1", "c2"}
  MaxRestarts = 1
  MaxTraffic = 4
  MaxDbFaults = 1
  Resends = FALSE
  Connections = {"c1", "c2"}
  Accounts = {"a1"}
  MaxEdits = 2
  Terminals = {t1, t2}
  t1 = t1
  t2 = t2
  Version = 2
  MaxCommands = 4
  MaxCrashes = 1
SYMMETRY AnyTerminal
INVARIANTS
  QuantityConserved
  StatusMatchesFills
  FillsAddUp
  RequestsAnswered
  LoggedOnIsServed
  RoutedAsNamed
  HaltWaitsForChecked
  NothingHalfDone
PROPERTIES
  TerminalIsFinal
  ResumeFinishes
CHECK_DEADLOCK FALSE
