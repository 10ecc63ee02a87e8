SPECIFICATION FairSpec
CONSTANTS
  Producers = {p1, p2}
  Consumers = {c1, c2}
  Drainers = {d1}
  Items = {x, y}
  None = None
  MaxPushes = 4
INVARIANTS
  TypeOK
  NoSleeperLeft
  PopFindsElement
PROPERTY FifoServed
CHECK_DEADLOCK FALSE
