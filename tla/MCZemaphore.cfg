\* Three threads that make two calls each.
CONSTANTS
  Threads = {t1, t2, t3}
  InitialValues <- Values
  MaxCalls = 2
SPECIFICATION FairSpec
INVARIANTS IInv
PROPERTIES ImplementsSemaphore
