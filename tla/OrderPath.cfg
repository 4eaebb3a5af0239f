SPECIFICATION Spec
CONSTANTS
  Qty = 2
  VenueStyles = {"report", "mixed", "blind"}
  LossyStyles = {"mixed", "blind"}
  Faults = {"timeout", "db", "crash", "api"}
  MaxFaults = 1
  MaxLosses = 1
  MaxCancels = 1
  MaxAttempts = 5
  ChannelCap = 1
  StreamCap = 2
INVARIANTS
  RowIsFold
  AllExecutionsBooked
  ClosedOnlyAfterVenue
