\* Three workers; an address can be given out again.
CONSTANTS
  Workers = {t1, t2, t3}
  Addr = {a1, a2, a3}
  Dummy = Dummy
  NULL = NULL
SPECIFICATION NsFairSpec
INVARIANTS NsSafe
PROPERTIES DrainedForEver CompletesUnlessStale
