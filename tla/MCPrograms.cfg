SPECIFICATION FairSpec
CONSTANTS
  Loops = 3
  Bytes = 2
  Callers = {"c1", "c2", "c3"}
  MaxSpurious = 2
  MaxSent = 2
  MaxCont = 2
  BufSize = 2
  InputSize = 5
  XfrBuf = 2
  XfrCapacity = 3
  XfrBytes = 4
  QueueLength = 2
  MaxDatagrams = 4
  MaxStarts = 3
  MaxMessages = 1
  MaxTyped = 2
  Restarters = {"a"}
  Senders = {"s1", "s2"}
  Receivers = {"r1", "r2"}
  MaxCapacity = 2
  TailBuf = 2
  MaxFile = 4
  MaxLines = 2
  TeeBuf = 2
  TeeInput = 3
  CpPages = 3
  CpChanges = 2
  Depth = 2
  MaxRenames = 2
  MaxEdits = 3
  PathLength = 3
  MaxInstalls = 1
  LastPid = 3
  FopenMax = 2
  MaxChanges = 2
  Capacities = {1, 3, 4, 5, 10}
  Pushes = 13
INVARIANTS SharedDataKept OnceBeforeUse ThreadsInOrder BuffersSound
INVARIANTS SignalsAwaited SignalsHandled StreamsIntact QueuesSound
INVARIANTS FilesCopied  VectorFits
PROPERTIES Terminates
