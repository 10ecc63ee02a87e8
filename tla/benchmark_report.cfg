SPECIFICATION Spec
CONSTANTS
  Threads = {t1}
  Server = Server
  Stranger = Stranger
  Requests = 3
  Delays = {0, 2, 3}
  MaxMishaps = 0
INVARIANT ReportIsTrue
CHECK_DEADLOCK FALSE
