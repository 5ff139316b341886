\* Two clients and a server that does not stop.
CONSTANTS
  Askers = {c1, c2}
  SeqLens = {1}
  InitialNumbers = {}
  MaxStops = 0
  None = None
SPECIFICATION SeqnumSpec
INVARIANTS DroppedClientsForgot
