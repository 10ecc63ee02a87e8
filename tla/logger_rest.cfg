SPECIFICATION FairSpec
CONSTANTS
  Writers = {w1}
  Buffers = {b1, b2, b3}
  NoHour = NoHour
  Capacity = 2
  RecLens = {1}
  MaxRecords = 5
  MaxHour = 0
  MaxStops = 1
PROPERTY RestIsFlushed
CHECK_DEADLOCK FALSE
