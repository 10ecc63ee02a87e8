SPECIFICATION FairSpec
CONSTANTS
  BufSize = 6
  HeadLen = 2
  LengthEnd = 3
  PkgLens = {3, 4}
  AnswerLen = 2
  OutSize = 4
  Junk <- SomeLengths
  MaxPackages = 3
INVARIANTS
  TypeOK
  BufferAligned
  HandedIsSent
  WithinBuffer
  StuckOnlyIfCrowded
  AnswersWhole
PROPERTY StreamServed
CHECK_DEADLOCK FALSE
