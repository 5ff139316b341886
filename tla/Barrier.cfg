\* main with five children.
CONSTANT N = 5
SPECIFICATION FairSpec
INVARIANTS Inv
PROPERTIES ImplementsRendezvous Completes
