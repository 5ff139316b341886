\* Two workers are enough to hold the mutex together.
CONSTANTS
  Workers = {t1, t2}
  Addr = {a1, a2}
  Dummy = Dummy
  NULL = NULL
SPECIFICATION NsSpec
INVARIANT MutualExclusion
