\* Three threads that make a call each, on lists of up to two nodes.
CONSTANTS
  Threads = {t1, t2, t3}
  Vals = {1, 2}
  Addr = {a1, a2, a3, a4}
  HeadNode = HeadNode
  Longest = 2
  MaxCalls = 1
  NULL = NULL
SPECIFICATION FairSpec
INVARIANTS Inv
PROPERTIES Completes
