\* Two clients and a server that stops twice.
CONSTANTS
  Askers = {c1, c2}
  SeqLens <- MCSeqLens
  InitialNumbers = {5}
  MaxStops = 2
  None = None
SPECIFICATION SeqnumFairSpec
INVARIANTS SeqnumInv
PROPERTIES Served
