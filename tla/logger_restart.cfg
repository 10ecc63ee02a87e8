SPECIFICATION Spec
CONSTANTS
  Writers = {w1}
  Buffers = {b1, b2, b3}
  NoHour = NoHour
  Capacity = 2
  RecLens = {1}
  MaxRecords = 3
  MaxHour = 0
  MaxStops = 2
INVARIANT TakeFindsEmpty
