\* Two producers and two consumers on a ring smaller than what they put.
CONSTANTS
  Producers = {p1, p2}
  Consumers = {c1, c2}
  MAX = 2
  loops = 3
  NoItem = NoItem
SPECIFICATION FairSpec
INVARIANTS Inv
PROPERTIES ImplementsFIFO Termination
