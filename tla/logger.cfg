SPECIFICATION FairSpec
CONSTANTS
  Writers = {w1, w2}
  Buffers = {b1, b2, b3}
  NoHour = NoHour
  Capacity = 2
  RecLens = {1, 2}
  MaxRecords = 4
  MaxHour = 1
  MaxStops = 1
INVARIANTS
  TypeOK
  BuffersApart
  PoolWhole
  SwitchFits
  TakeFindsEmptyAtFirst
  NothingLost
  HourOfFile
PROPERTIES
  WrittenInOrder
  StopReturns
  ImplementsPipe
CHECK_DEADLOCK FALSE
