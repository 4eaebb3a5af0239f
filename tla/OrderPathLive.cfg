SPECIFICATION FairSpec
CONSTANTS
  Qty = 2
  VenueStyles = {"report", "state"}
  LossyStyles = {"report", "state"}
  Faults = {"timeout", "db", "crash", "api"}
  MaxFaults = 1
  MaxLosses = 1
  MaxCancels = 0
  MaxAttempts = 5
  ChannelCap = 1
  StreamCap = 1
PROPERTY OrdersSettle
