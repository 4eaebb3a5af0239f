SPECIFICATION Spec
CONSTANTS
  a = a
  b = b
  Orders = {a, b}
  Story <- Stories
  BatchSize = 2
  LaneCap = 1
  MaxFaults = 1
  MaxInserts = 6
  MaxLogons = 2
  MaxScreens = 1
INVARIANT ScreenKnows
PROPERTIES KafkaInOrder ReportsInOrder EventuallyOut
CHECK_DEADLOCK FALSE
