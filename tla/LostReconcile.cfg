SPECIFICATION Spec
CONSTANTS
  Requests = {1, 2, 3}
  MaxPanics = 0
PROPERTIES EveryRequestServed
CHECK_DEADLOCK FALSE
