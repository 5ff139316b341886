\* Either program: main with three readers, that stop after two iterations or
\* never, and two writers.
CONSTANTS
  Readers = {r1, r2, r3}
  Writers = {w1, w2}
  loops = 2
SPECIFICATION FairSpec
INVARIANTS Inv
PROPERTIES ImplementsReadersWriters WriterNotOvertaken WriterServed Completes
