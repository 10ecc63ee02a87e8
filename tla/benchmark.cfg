SPECIFICATION FairSpec
CONSTANTS
  Threads = {t1, t2}
  Server = Server
  Stranger = Stranger
  Requests = 2
  Delays = {0, 2, 3}
  MaxMishaps = 2
INVARIANTS
  TypeOK
  TimesItsRequest
  ReportComplete
  ReportMostlyTrue
PROPERTY EndsUnlessHit
CHECK_DEADLOCK FALSE
