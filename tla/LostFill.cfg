SPECIFICATION Spec
CONSTANTS
  Qty = 2
  VenueStyles = {"report"}
  LossyStyles = {"report"}
  Faults = {}
  MaxFaults = 0
  MaxLosses = 1
  MaxCancels = 0
  MaxAttempts = 5
  ChannelCap = 2
  StreamCap = 3
INVARIANTS
  AllExecutionsBooked
