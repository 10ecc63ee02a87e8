SPECIFICATION Spec
CONSTANTS
  BufSize = 6
  HeadLen = 2
  LengthEnd = 2
  PkgLens = {3}
  AnswerLen = 2
  OutSize = 2
  Junk <- SomeLengths
  MaxPackages = 2
INVARIANT NothingStuck
CHECK_DEADLOCK FALSE
