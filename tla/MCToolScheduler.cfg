SPECIFICATION FairSpec
CONSTANTS
  w1 = w1
  w2 = w2
  c = c
  Calls <- MCCalls
  Web <- MCWeb
  MaxParallel = 2
  WebConcurrency = 1
  HasTimeout = TRUE
  MaxEvents = 1
INVARIANT ReportIsTrue
PROPERTIES NothingStartsLate BatchEnds
CHECK_DEADLOCK FALSE
