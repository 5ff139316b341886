\* Three threads on two CPUs, two of them on one, two made each.
CONSTANTS
  NUM_THREADS = 3
  NUMCPUS = 2
  threshold = 2
  Amounts = {1, 2}
  MaxMade = 2
SPECIFICATION ApproxFairSpec
INVARIANTS ApproxSafe
PROPERTIES ImplementsLaggingCounter Completes
