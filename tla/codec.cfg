SPECIFICATION Spec
CONSTANTS
  Objects = {p}
  Fields = {version1, other}
  Fresh = version1
  HeadSize = 2
  Max = 5
  Bodies = {0, 1, 2, 3}
INVARIANTS
  TypeOK
  LengthOnWire
  UnpackedWhole
  RoundTrip
