\* Two loopers, as test_for_n_threads starts them, beside one client that
\* calls inc, dec and get up to three times, or not at all.
CONSTANTS
  Loopers = {l1, l2}
  Clients = {c1}
  Limit = 3
  MaxCalls = 3
SPECIFICATION FairSpec
INVARIANTS Inv ReachesLimit
PROPERTIES ImplementsAtomicCounter Termination
