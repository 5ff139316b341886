--------------------------- MODULE ProgramsProofs ---------------------------
(***************************************************************************)
(* Proofs about the small programs, for every behaviour of MCPrograms:     *)
(* what it checks of a program is an invariant of that program alone,      *)
(* since a step keeps the name of the program and is one of its steps      *)
(* (OneProgram), and a behaviour begins as its program does (OneBegins).   *)
(* For each program, an inductive invariant, a lemma that it holds at the  *)
(* start, and lemmas that every step keeps it.                             *)
(***************************************************************************)
EXTENDS MCPrograms, SequenceTheorems, FiniteSetTheorems, TLAPS

-----------------------------------------------------------------------------
\* One program runs.

\* A step of a program is guarded by the name of the program and keeps it: one
\* lemma for each.
LEMMA ThreadIncrFrame == ThreadIncrNext => program = "thread_incr" /\ program' = program
BY DEF ThreadIncrNext, ThreadIncrMain, ThreadIncrAdder, CreateAdders, JoinAdders,
       LoadGlob, StoreGlob, Step, Compute, Goto, Create, Join

LEMMA AtomicAppendFrame ==
  AtomicAppendNext => program = "atomic_append" /\ program' = program
BY DEF AtomicAppendNext, Appender, OpenFile, SeekEnd, WriteByte, Step, Compute

LEMMA OneTimeInitFrame ==
  OneTimeInitNext => program = "one_time_init" /\ program' = program
BY DEF OneTimeInitNext, OneTimeInitMain, Caller, CreateCaller, JoinCallers, LockOnce,
       TestFlag, RunRoutine, SetFlag, UnlockOnce, Step, Compute, Goto, Create

LEMMA SemOrderFrame ==
  SemOrderNext => program \in {"fork_join", "randezvous"} /\ program' = program
BY DEF SemOrderNext, ForkJoinMain, ForkJoinChild, RandezvousMain, RandezvousChild,
       ForkJoinCreate, ChildPrints, ChildPosts, ParentWaits, ParentPrints,
       PrintBefore, PostOwn, WaitOther, PrintAfter, Step, Compute, Goto, Create, Join

LEMMA SigmaskFrame == SigmaskNext => program = "sigmask" /\ program' = program
BY DEF SigmaskNext, SigmaskMain, Thrd, SpuriousWakeup, BlockOwn, LockOwn,
       PublishBlocked, UnlockOwn, TestSent, Report, CreateThrd, LockFor, TestBlocked,
       KillThrd, PublishSent, UnlockFor, JoinThrd, Step, Compute, Goto, Block

LEMMA PathManipFrame == PathManipNext => program = "pathmanip" /\ program' = program
BY DEF PathManipNext, PathManipMain, Namer, CreateNamers, JoinNamers, PrintNames,
       MakeKey, GetSpecific, AllocBuffer, CopyName, Destructor,
       Step, Compute, Goto, Create, Join

LEMMA ChgPgidFrame == ChgPgidNext => program = "chg_pgid" /\ program' = program
BY DEF ChgPgidNext, ChgPgidParent, ChgPgidChild2, Child1Kills, Child2Execs,
       HelperKills, BlockUser, ForkBoth, Suspend, HandleUser, SuspendReturns,
       UnblockUser, SetPgids, WaitBoth, Step, Compute, Goto, Block, Kill, Fork, Wait

LEMMA ChildWaitFrame ==
  ChildWaitNext => program \in WaitPrograms /\ program' = program
BY DEF ChildWaitNext, WaitingParent, AwaitedChild, WaitPrograms, KillZombie,
       BlockAwaited, ForkChild, SuspendParent, RunHandler, ResumeParent, ReapChild,
       UnblockAwaited, ParentExits, ChildKills, ChildExits, Shell, ForkShell,
       ShellExits, ReapShell,
       Step, Compute, Goto, Block, Kill, Fork, Wait

LEMMA OrphansFrame ==
  OrphansNext =>
    program \in OrphanPrograms \cup {"new_parent_init"} /\ program' = program
BY DEF OrphansNext, OrphanParent, OrphanChild, OrphanPrograms, DieOfSigterm,
       ExitParent, ForkOrphan, ReadTerminal, RaiseStopSignal, StopSignalsRaised,
       KillParent, TellParentKilled, LeaveWait, Step, Compute, Goto, Kill, Fork

LEMMA SigReceiverFrame ==
  SigReceiverNext => program = "sig_receiver" /\ program' = program
BY DEF SigReceiverNext, Receiver, InstallHandlers, FillMask, EmptyMask, Deliver,
       LeaveSpin, SendSignal, Step, Compute, Goto, Block

LEMMA SiginterruptFrame ==
  SiginterruptNext => program = "siginterrupt" /\ program' = program
BY DEF SiginterruptNext, Reader, InstallInterrupt, DieOfInterrupt, SetRestart, HandleInterrupt,
       EndLine, PressInterrupt, Step, Compute, Goto

LEMMA SigContFrame ==
  SigContNext => program = "SIGCONT_is_weird" /\ program' = program
BY DEF SigContNext, Stopper, BlockCont, InstallCont, RaiseStop, Resumed, UnblockCont,
       HandleCont, StopperExits, SendCont, Step, Compute, Goto, Block

LEMMA ToUppercaseFrame ==
  ToUppercaseNext => program = "to_uppercase" /\ program' = program
BY DEF ToUppercaseNext, UpperParent, UpperChild, ReadInput, InputFails, SendPiece,
       ReceiveAnswer, ReadPiece, ReadNothing, AnswerPiece, Step, Compute, Goto

LEMMA UsXfrFrame == UsXfrNext => program = "us_xfr" /\ program' = program
BY DEF UsXfrNext, XfrServer, XfrClient, Listen, AcceptClient, CopyBytes, CloseClient,
       Connect, ClientReads, ClientWrites, Step, Compute, Goto

LEMMA SlowReaderFrame ==
  SlowReaderNext => program = "slow_reader" /\ program' = program
BY DEF SlowReaderNext, SlowServer, RemoveOld, BindSocket, RecvFrom, KillServer,
       StartServer, SendTo, Step, Compute, Goto

LEMMA MsgExchangeFrame ==
  MsgExchangeNext => program = "msg_exchange" /\ program' = program
BY DEF MsgExchangeNext, ExchangeTask, OpenQueues, ForkExchange, SendMessage,
       CallCleaner, Unlink, ReceiveMessage, TypeLine, Interrupt, RunAgain,
       Step, Compute, Goto, Fork

LEMMA MqNotifyFrame == MqNotifyNext => program = "mq" /\ program' = program
BY DEF MqNotifyNext, NotifiedProcess, Sender, MqReceiver, CreateQueue, OpenNotified,
       BlockNotify, Register, RegisterAt, SuspendNotified, HandleNotify,
       RegisterAgain, NotifiedEnds, OpenSender, HandOver, Enqueue, OpenReceiver,
       Receive, ReceiveNothing, TimeOut, OpenMq, Step, Compute, Goto, Block

LEMMA FileToolsFrame ==
  FileToolsNext => program \in {"tail", "mytee", "cp"} /\ program' = program
BY DEF FileToolsNext, TailSteps, SeekFileEnd, ScanPiece, StopScan, CopyPiece,
       AppendToFile, TeeSteps, OpenNext, TeeRead, WriteCopy, CpSteps, StatSource,
       MapSource, SizeDest, CopyPage, ChangeSource, Step, Compute, Goto

LEMMA DirToolsFrame ==
  DirToolsNext => program \in {"getcwd", "dirwatch", "execlp"} /\ program' = program
BY DEF DirToolsNext, Getcwd, Climb, ReadDirectory, StatEntry, ReturnPath,
       RenameDirectory, ChangeSibling, Dirwatch, WatchTop, VisitEntry, OpenEntry,
       Process, ListEntries, WalkEnds, DisplayEvent, EditTree, Execlp, TryDirectory,
       Execve, Install, Step, Compute, Goto

LEMMA ProcScanFrame ==
  ProcScanNext => program \in ScanPrograms /\ program' = program
BY DEF ProcScanNext, Scan, FetchEntries, ReadEntry, ReadLink, OpenStatus, ReadStatus,
       ProcessBegins, ProcessEnds, ProcessChanges, Change, ScanPrograms,
       Step, Compute, Goto

LEMMA VectorFrame == VectorNext => program = "vector" /\ program' = program
BY DEF VectorNext, PushBack, FreeData, AbortOverrun, Step, Compute, Goto

\* A step of the run is a step of the program whose behaviour it is.
LEMMA OneProgram ==
  ASSUME [Next]_vars
  PROVE  /\ program' = program
         /\ program = "thread_incr" => ThreadIncrNext \/ UNCHANGED vars
         /\ program = "atomic_append" => AtomicAppendNext \/ UNCHANGED vars
         /\ program = "one_time_init" => OneTimeInitNext \/ UNCHANGED vars
         /\ program \in {"fork_join", "randezvous"} => SemOrderNext \/ UNCHANGED vars
         /\ program = "sigmask" => SigmaskNext \/ UNCHANGED vars
         /\ program = "pathmanip" => PathManipNext \/ UNCHANGED vars
         /\ program = "chg_pgid" => ChgPgidNext \/ UNCHANGED vars
         /\ program \in WaitPrograms => ChildWaitNext \/ UNCHANGED vars
         /\ program \in OrphanPrograms \cup {"new_parent_init"}
              => OrphansNext \/ UNCHANGED vars
         /\ program = "sig_receiver" => SigReceiverNext \/ UNCHANGED vars
         /\ program = "siginterrupt" => SiginterruptNext \/ UNCHANGED vars
         /\ program = "SIGCONT_is_weird" => SigContNext \/ UNCHANGED vars
         /\ program = "to_uppercase" => ToUppercaseNext \/ UNCHANGED vars
         /\ program = "us_xfr" => UsXfrNext \/ UNCHANGED vars
         /\ program = "slow_reader" => SlowReaderNext \/ UNCHANGED vars
         /\ program = "msg_exchange" => MsgExchangeNext \/ UNCHANGED vars
         /\ program = "mq" => MqNotifyNext \/ UNCHANGED vars
         /\ program \in {"tail", "mytee", "cp"} => FileToolsNext \/ UNCHANGED vars
         /\ program \in {"getcwd", "dirwatch", "execlp"} => DirToolsNext \/ UNCHANGED vars
         /\ program \in ScanPrograms => ProcScanNext \/ UNCHANGED vars
         /\ program = "vector" => VectorNext \/ UNCHANGED vars
<1>1. UNCHANGED vars => program' = program
  BY DEF vars
<1>2. Next \/ UNCHANGED vars
  OBVIOUS
<1> QED
  BY <1>1, <1>2, ThreadIncrFrame, AtomicAppendFrame, OneTimeInitFrame, SemOrderFrame,
     SigmaskFrame, PathManipFrame, ChgPgidFrame, ChildWaitFrame, OrphansFrame,
     SigReceiverFrame, SiginterruptFrame, SigContFrame, ToUppercaseFrame, UsXfrFrame,
     SlowReaderFrame, MsgExchangeFrame, MqNotifyFrame, FileToolsFrame, DirToolsFrame,
     ProcScanFrame, VectorFrame
  DEF Next, Terminating, WaitPrograms, OrphanPrograms, ScanPrograms

\* A behaviour begins as its program does.
LEMMA OneBegins ==
  ASSUME Init
  PROVE  /\ program = "thread_incr" => ThreadIncrInit
         /\ program = "atomic_append" => AtomicAppendInit
         /\ program = "one_time_init" => OneTimeInitInit
         /\ program = "fork_join" => ForkJoinInit
         /\ program = "randezvous" => RandezvousInit
         /\ program = "sigmask" => SigmaskInit
         /\ program = "pathmanip" => PathManipInit
         /\ program = "chg_pgid" => ChgPgidInit
         /\ program \in WaitPrograms => ChildWaitInit
         /\ program \in OrphanPrograms \cup {"new_parent_init"} => OrphansInit
         /\ program = "sig_receiver" => SigReceiverInit
         /\ program = "siginterrupt" => SiginterruptInit
         /\ program = "SIGCONT_is_weird" => SigContInit
         /\ program = "to_uppercase" => ToUppercaseInit
         /\ program = "us_xfr" => UsXfrInit
         /\ program = "slow_reader" => SlowReaderInit
         /\ program = "msg_exchange" => MsgExchangeInit
         /\ program = "mq" => MqNotifyInit
         /\ program = "tail" => TailInit
         /\ program = "mytee" => TeeInit
         /\ program = "cp" => CpInit
         /\ program \in {"getcwd", "dirwatch", "execlp"} => DirToolsInit
         /\ program \in ScanPrograms => ScanInit
         /\ program = "vector" => VectorInit
<1>1. /\ ThreadIncrInit => program = "thread_incr"
      /\ AtomicAppendInit => program = "atomic_append"
      /\ OneTimeInitInit => program = "one_time_init"
      /\ ForkJoinInit => program = "fork_join"
      /\ RandezvousInit => program = "randezvous"
      /\ SigmaskInit => program = "sigmask"
      /\ PathManipInit => program = "pathmanip"
      /\ ChgPgidInit => program = "chg_pgid"
  BY DEF Begin, ThreadIncrInit, AtomicAppendInit, OneTimeInitInit, ForkJoinInit,
         RandezvousInit, SigmaskInit, PathManipInit, ChgPgidInit
<1>2. /\ ChildWaitInit => program \in WaitPrograms
      /\ OrphansInit => program \in OrphanPrograms \cup {"new_parent_init"}
      /\ SigReceiverInit => program = "sig_receiver"
      /\ SiginterruptInit => program = "siginterrupt"
      /\ SigContInit => program = "SIGCONT_is_weird"
  BY DEF Begin, ChildWaitInit, OrphansInit, SigReceiverInit, SiginterruptInit,
         SigContInit
<1>3. /\ ToUppercaseInit => program = "to_uppercase"
      /\ UsXfrInit => program = "us_xfr"
      /\ SlowReaderInit => program = "slow_reader"
      /\ MsgExchangeInit => program = "msg_exchange"
      /\ MqNotifyInit => program = "mq"
  BY DEF Begin, ToUppercaseInit, UsXfrInit, SlowReaderInit, MsgExchangeInit,
         MqNotifyInit
<1>4. /\ TailInit => program = "tail"
      /\ TeeInit => program = "mytee"
      /\ CpInit => program = "cp"
  BY DEF Begin, TailInit, TeeInit, CpInit
<1>5. /\ DirToolsInit => program \in {"getcwd", "dirwatch", "execlp"}
      /\ ScanInit => program \in ScanPrograms
      /\ VectorInit => program = "vector"
  BY DEF Begin, DirToolsInit, GetcwdInit, DirwatchInit, ExeclpInit, ScanInit,
         ScanAmong, VectorInit
<1> QED
  BY <1>1, <1>2, <1>3, <1>4, <1>5
  DEF Init, WaitPrograms, OrphanPrograms, ScanPrograms

-----------------------------------------------------------------------------
\* thread_incr.c

IncrTypeOK ==
  /\ program = "thread_incr"
  /\ pc \in [{"t1", "t2", "main"} ->
               {"create1", "create2", "join1", "join2", "new", "load", "store", "done"}]
  /\ mem \in [glob : Nat, loc : [Adders -> Nat], j : [Adders -> Nat]]

\* How far the threads and main are.
Rounds ==
  /\ \A t \in Adders :
       /\ pc[t] = "new" => mem.j[t] = 0
       /\ pc[t] \in {"load", "store"} => mem.j[t] < Loops
       /\ pc[t] = "done" => mem.j[t] = Loops
       /\ pc[t] \in {"new", "load", "store", "done"}
  /\ pc["main"] = "create1" => pc["t1"] = "new"
  /\ pc["main"] \in {"create1", "create2"} => pc["t2"] = "new"
  /\ pc["main"] \in {"join2", "done"} => pc["t1"] = "done"
  /\ pc["main"] = "done" => pc["t2"] = "done"

\* What has been loaded or stored counts no turn twice, and some of the turns of
\* either thread: once both have gone round twice the last store counts two.
Counted ==
  /\ mem.glob <= mem.j["t1"] + mem.j["t2"]
  /\ \A t \in Adders :
       /\ pc[t] = "store" => mem.loc[t] <= mem.j["t1"] + mem.j["t2"]
       /\ pc[t] = "store" /\ mem.j[t] > 0 => mem.loc[t] > 0
       /\ mem.j[t] > 0 => mem.glob > 0
  /\ mem.j["t1"] > 1 /\ mem.j["t2"] > 1 => mem.glob > 1

IncrInv == IncrTypeOK /\ Rounds /\ Counted

\* main has created nobody.
LEMMA IncrInit == ThreadIncrInit => IncrInv
BY DEF ThreadIncrInit, Begin, IncrInv, IncrTypeOK, Rounds, Counted, Adders

\* A store counts one turn more than some load before it.
LEMMA IncrStep ==
  ASSUME IncrInv, ThreadIncrNext \/ UNCHANGED vars
  PROVE  IncrInv'
<1> USE LoopsAssumption
    DEF IncrInv, IncrTypeOK, Step, Compute, Goto, Create, Join, Move, kernel, Adders
<1>1. ASSUME NEW t \in Adders, LoadGlob(t)  PROVE IncrInv'
  <2>1. /\ program' = program /\ pc[t] = "load" /\ pc' = [pc EXCEPT ![t] = "store"]
        /\ mem'.glob = mem.glob /\ mem'.j = mem.j
        /\ mem'.loc = [mem.loc EXCEPT ![t] = mem.glob]
        /\ mem' = [glob |-> mem.glob, loc |-> [mem.loc EXCEPT ![t] = mem.glob], j |-> mem.j]
    BY <1>1 DEF LoadGlob
  <2>2. IncrTypeOK'
    BY <2>1
  <2>3. Rounds'
    BY <2>1 DEF Rounds
  <2>4. Counted'
    BY <2>1 DEF Counted
  <2> QED
    BY <2>2, <2>3, <2>4
<1>2. ASSUME NEW t \in Adders, StoreGlob(t)  PROVE IncrInv'
  <2> DEFINE go == IF mem.j[t] + 1 < Loops THEN "load" ELSE "done"
  <2>1. /\ program' = program /\ pc[t] = "store" /\ pc' = [pc EXCEPT ![t] = go]
        /\ mem'.glob = mem.loc[t] + 1 /\ mem'.loc = mem.loc
        /\ mem'.j = [mem.j EXCEPT ![t] = mem.j[t] + 1]
        /\ mem' = [glob |-> mem.loc[t] + 1, loc |-> mem.loc,
                   j |-> [mem.j EXCEPT ![t] = mem.j[t] + 1]]
    BY <1>2 DEF StoreGlob
  <2>2. IncrTypeOK'
    BY <2>1
  <2>3. Rounds'
    BY <2>1 DEF Rounds
  <2>4. Counted'
    BY <2>1 DEF Counted
  <2> QED
    BY <2>2, <2>3, <2>4
<1>3. CASE CreateAdders
  BY <1>3 DEF CreateAdders, Rounds, Counted, Enter
<1>4. CASE JoinAdders
  BY <1>4 DEF JoinAdders, Rounds, Counted
<1>5. CASE UNCHANGED vars
  BY <1>5 DEF vars, Rounds, Counted
<1> QED
  BY <1>1, <1>2, <1>3, <1>4, <1>5 DEF ThreadIncrNext, ThreadIncrMain, ThreadIncrAdder

\* The bounds once both threads are done.
LEMMA IncrBounds == IncrInv => GlobWithinBounds
BY LoopsAssumption
DEF IncrInv, IncrTypeOK, Rounds, Counted, GlobWithinBounds, Adders

-----------------------------------------------------------------------------
\* atomic_append.c

AppendTypeOK ==
  /\ program = "atomic_append"
  /\ pc \in [Appenders -> {"open", "seek", "write", "done"}]
  /\ mem \in [size : Nat, x : [Appenders -> BOOLEAN], append : [Appenders -> BOOLEAN],
              offset : [Appenders -> Nat], left : [Appenders -> 0 .. Bytes]]

\* The bytes p has written.
Added(p) == Bytes - mem.left[p]

\* No write goes behind the end of the file, and none of a process goes over
\* its own bytes; with O_APPEND none goes over any.
Appended ==
  /\ \A p \in Appenders :
       /\ pc[p] = "open" => mem.left[p] = Bytes
       /\ pc[p] # "open" => (mem.append[p] <=> ~mem.x[p])
       /\ pc[p] \in {"seek", "write"} => mem.left[p] > 0
       /\ pc[p] = "done" => mem.left[p] = 0
       /\ mem.offset[p] <= mem.size
       /\ pc[p] = "write" => Added(p) <= mem.offset[p]
       /\ Added(p) <= mem.size
  /\ mem.size <= Added("p1") + Added("p2")
  /\ (\A p \in Appenders : ~mem.x[p]) => mem.size = Added("p1") + Added("p2")

AppendInv == AppendTypeOK /\ Appended

\* Nobody has opened the file.
LEMMA AppendInit == AtomicAppendInit => AppendInv
BY BytesAssumption
DEF AtomicAppendInit, Begin, AppendInv, AppendTypeOK, Appended, Added, Appenders

\* A write with O_APPEND adds a byte, and one without moves on by a byte.
LEMMA AppendStep ==
  ASSUME AppendInv, AtomicAppendNext \/ UNCHANGED vars
  PROVE  AppendInv'
<1> USE BytesAssumption
    DEF AppendInv, AppendTypeOK, Step, Compute, Move, kernel, Appenders, Added, Again
<1>1. ASSUME NEW p \in Appenders, OpenFile(p)  PROVE AppendInv'
  <2>1. /\ program' = program /\ pc[p] = "open" /\ pc' = [pc EXCEPT ![p] = Again(mem.left[p])]
        /\ mem'.append = [mem.append EXCEPT ![p] = ~mem.x[p]]
        /\ mem'.size = mem.size /\ mem'.x = mem.x /\ mem'.offset = mem.offset
        /\ mem'.left = mem.left
        /\ mem' = [size |-> mem.size, x |-> mem.x,
                   append |-> [mem.append EXCEPT ![p] = ~mem.x[p]],
                   offset |-> mem.offset, left |-> mem.left]
    BY <1>1 DEF OpenFile
  <2>2. mem'.append[p] = ~mem.x[p] /\ \A q \in Appenders \ {p} : mem'.append[q] = mem.append[q]
    BY <2>1
  <2>3. AppendTypeOK'
    BY <2>1
  <2>4. \A q \in Appenders : pc'[q] # "open" => (mem'.append[q] <=> ~mem'.x[q])
    <3>1. \A q \in Appenders \ {p} : pc'[q] = pc[q]
      BY <2>1
    <3>2. \A q \in Appenders : pc[q] # "open" => (mem.append[q] <=> ~mem.x[q])
      BY DEF Appended
    <3> QED
      BY ONLY <2>1, <2>2, <3>1, <3>2, Zenon
  <2>5. ASSUME NEW q \in Appenders
        PROVE  /\ pc'[q] = "open" => mem'.left[q] = Bytes
               /\ pc'[q] \in {"seek", "write"} => mem'.left[q] > 0
               /\ pc'[q] = "done" => mem'.left[q] = 0
               /\ pc'[q] = "write" => pc[q] = "write"
    BY <2>1 DEF Appended
  <2>6. /\ \A q \in Appenders : mem.offset[q] <= mem.size /\ Bytes - mem.left[q] <= mem.size
        /\ \A q \in Appenders : pc[q] = "write" => Bytes - mem.left[q] <= mem.offset[q]
        /\ mem.size <= (Bytes - mem.left["p1"]) + (Bytes - mem.left["p2"])
        /\ (\A q \in Appenders : ~mem.x[q])
             => mem.size = (Bytes - mem.left["p1"]) + (Bytes - mem.left["p2"])
    BY DEF Appended
  <2>7. Appended'
    BY ONLY <2>1, <2>4, <2>5, <2>6 DEF Appended, Added
  <2> QED
    BY <2>3, <2>7
<1>2. ASSUME NEW p \in Appenders, SeekEnd(p)  PROVE AppendInv'
  BY <1>2 DEF SeekEnd, Appended
<1>3. ASSUME NEW p \in Appenders, WriteByte(p)  PROVE AppendInv'
  <2> DEFINE at == IF mem.append[p] THEN mem.size ELSE mem.offset[p]
             size == IF at < mem.size THEN mem.size ELSE at + 1
  <2>1. /\ program' = program /\ pc[p] = "write"
        /\ pc' = [pc EXCEPT ![p] = Again(mem.left[p] - 1)]
        /\ mem'.size = size /\ mem'.x = mem.x /\ mem'.append = mem.append
        /\ mem'.offset = [mem.offset EXCEPT ![p] = at + 1]
        /\ mem'.left = [mem.left EXCEPT ![p] = mem.left[p] - 1]
        /\ mem' = [size |-> size, x |-> mem.x, append |-> mem.append,
                   offset |-> [mem.offset EXCEPT ![p] = at + 1],
                   left |-> [mem.left EXCEPT ![p] = mem.left[p] - 1]]
    BY <1>3 DEF WriteByte
  <2>2. at \in Nat /\ at <= mem.size /\ Added(p) <= at /\ mem.left[p] > 0
    BY <2>1 DEF Appended
  <2>3. (\A q \in Appenders : ~mem.x[q]) => at = mem.size
    BY <2>1 DEF Appended
  <2> HIDE DEF at
  <2>4. AppendTypeOK'
    BY <2>1, <2>2
  <2>5. Appended'
    BY <2>1, <2>2, <2>3 DEF Appended
  <2> QED
    BY <2>4, <2>5
<1>4. CASE UNCHANGED vars
  BY <1>4 DEF vars, Appended
<1> QED
  BY <1>1, <1>2, <1>3, <1>4 DEF AtomicAppendNext, Appender

\* The bounds once both processes are done.
LEMMA AppendBytes == AppendInv => AppendsKept
BY BytesAssumption
DEF AppendInv, AppendTypeOK, Appended, Added, AppendsKept, AtomicAppendEnds, Ended, Appenders

SharedInv ==
  /\ program = "thread_incr" => IncrInv
  /\ program = "atomic_append" => AppendInv

(***************************************************************************)
(* For any number of rounds thread_incr.c prints two at least, or one if   *)
(* there is but one round, and two for each round at most; for any number  *)
(* of bytes the two processes of atomic_append.c lose none if both append, *)
(* and never end with fewer than one of them wrote.                        *)
(***************************************************************************)
THEOREM SharedData == Spec => []SharedDataKept
<1>1. Init => SharedInv
  BY OneBegins, IncrInit, AppendInit DEF SharedInv
<1>2. SharedInv /\ [Next]_vars => SharedInv'
  BY OneProgram, IncrStep, AppendStep DEF SharedInv
<1>3. SharedInv => SharedDataKept
  BY IncrBounds, AppendBytes
  DEF SharedInv, SharedDataKept, GlobWithinBounds, AppendsKept, AtomicAppendEnds
<1> QED
  BY <1>1, <1>2, <1>3, PTL DEF Spec

-----------------------------------------------------------------------------
\* fork-join.c and randezvous.c

Shown(line) == \E n \in DOMAIN mem.out : mem.out[n] = line

\* The order of the lines depends on nothing else.
LEMMA SameLines ==
  ASSUME mem'.out = mem.out
  PROVE  \A a, b : (Shown(a)' <=> Shown(a)) /\ (Precedes(a, b)' <=> Precedes(a, b))
BY DEF Shown, Precedes

\* A line that is printed hides none of those before.
LEMMA PrintedLine ==
  ASSUME NEW S, mem.out \in Seq(S), NEW line \in S, mem'.out = Append(mem.out, line)
  PROVE  /\ mem'.out \in Seq(S)
         /\ Shown(line)' /\ \A a : Shown(a) => Shown(a)'
         /\ \A a, b : Precedes(a, b) /\ (b = line => Shown(a)) => Precedes(a, b)'
<1>1. /\ Len(mem'.out) = Len(mem.out) + 1 /\ Len(mem.out) \in Nat
      /\ DOMAIN mem.out = 1 .. Len(mem.out) /\ DOMAIN mem'.out = 1 .. Len(mem'.out)
      /\ mem'.out[Len(mem.out) + 1] = line
      /\ \A n \in 1 .. Len(mem.out) : mem'.out[n] = mem.out[n]
      /\ mem'.out \in Seq(S)
  BY AppendProperties
<1>2. Shown(line)' /\ \A a : Shown(a) => Shown(a)'
  BY <1>1 DEF Shown
<1>3. ASSUME NEW a, NEW b, Precedes(a, b), b = line => Shown(a)
      PROVE  Precedes(a, b)'
  <2> SUFFICES ASSUME NEW n \in DOMAIN mem'.out, mem'.out[n] = b
               PROVE  \E m \in 1 .. n - 1 : mem'.out[m] = a
    BY DEF Precedes
  <2>1. CASE n <= Len(mem.out)
    <3>1. n \in DOMAIN mem.out /\ mem.out[n] = b
      BY <1>1, <2>1
    <3>2. PICK m \in 1 .. n - 1 : mem.out[m] = a
      BY <1>3, <3>1 DEF Precedes
    <3> QED
      BY <1>1, <2>1, <3>2
  <2>2. CASE n = Len(mem.out) + 1
    <3>1. PICK m \in DOMAIN mem.out : mem.out[m] = a
      BY <1>1, <1>3, <2>2 DEF Shown
    <3> QED
      BY <1>1, <2>2, <3>1
  <2> QED
    BY <1>1, <2>1, <2>2
<1> QED
  BY <1>1, <1>2, <1>3

ForkLines == {"child", "parent: end"}

\* The semaphore tells that the child's line is out.
ForkInv ==
  /\ program = "fork_join"
  /\ pc \in [{"main", "child"} -> {"create", "wait", "new", "print", "post", "done"}]
  /\ mem.s \in Int /\ mem.out \in Seq(ForkLines) /\ DOMAIN mem = {"s", "out"}
  /\ pc["child"] = "post" \/ mem.s > 0 \/ pc["main"] = "print" => Shown("child")
  /\ Precedes("child", "parent: end")

\* No line is out.
LEMMA ForkInit == ForkJoinInit => ForkInv
<1> SUFFICES ASSUME ForkJoinInit PROVE ForkInv
  OBVIOUS
<1>1. program = "fork_join" /\ pc["main"] = "create" /\ pc["child"] = "new"
  BY DEF ForkJoinInit, Begin
<1>2. mem.out = <<>> /\ mem.s = 0 /\ DOMAIN mem = {"s", "out"}
  BY DEF ForkJoinInit, Begin
<1>3. mem.out \in Seq(ForkLines) /\ DOMAIN mem.out = {}
  BY <1>2, EmptySeq
<1>4. Precedes("child", "parent: end")
  BY <1>3 DEF Precedes
<1>5. pc \in [{"main", "child"} -> {"create", "wait", "new", "print", "post", "done"}]
  BY DEF ForkJoinInit, Begin
<1>6. pc["child"] # "post" /\ ~(mem.s > 0) /\ pc["main"] # "print" /\ mem.s \in Int
  BY <1>1, <1>2
<1> HIDE DEF Precedes, Shown
<1> QED
  BY <1>1, <1>2, <1>3, <1>4, <1>5, <1>6 DEF ForkInv

\* The child posts after its line, and the parent prints after the post.
LEMMA ForkStep ==
  ASSUME ForkInv, ForkJoinMain \/ ForkJoinChild
  PROVE  ForkInv'
<1> USE DEF ForkInv, Step, Compute, Create, Move, kernel
<1>1. ASSUME ForkJoinCreate \/ ChildPosts \/ ParentWaits  PROVE ForkInv'
  <2>1. mem'.out = mem.out /\ DOMAIN mem' = DOMAIN mem
    BY <1>1 DEF ForkJoinCreate, ChildPosts, ParentWaits
  <2>2. /\ Shown("child")' <=> Shown("child")
        /\ Precedes("child", "parent: end")' <=> Precedes("child", "parent: end")
    BY <2>1, SameLines
  <2>3. CASE ForkJoinCreate
    BY <2>1, <2>2, <2>3 DEF ForkJoinCreate
  <2>4. CASE ChildPosts
    <3>1. /\ program' = program /\ pc["child"] = "post"
          /\ pc' = [pc EXCEPT !["child"] = "done"] /\ mem'.s = mem.s + 1
      BY <2>4 DEF ChildPosts
    <3>2. mem.s \in Int
      OBVIOUS
    <3>3. mem'.s \in Int
      BY ONLY <3>1, <3>2, SMT
    <3>4. pc' \in [{"main", "child"} -> {"create", "wait", "new", "print", "post", "done"}]
      BY <3>1
    <3>5. Shown("child")
      BY <3>1
    <3> QED
      BY <2>1, <2>2, <3>1, <3>3, <3>4, <3>5
  <2>5. CASE ParentWaits
    <3>1. /\ program' = program /\ pc["main"] = "wait" /\ mem.s > 0
          /\ pc' = [pc EXCEPT !["main"] = "print"] /\ mem'.s = mem.s - 1
      BY <2>5 DEF ParentWaits
    <3>2. mem.s \in Int
      OBVIOUS
    <3>3. mem'.s \in Int
      BY ONLY <3>1, <3>2, SMT
    <3>4. pc' \in [{"main", "child"} -> {"create", "wait", "new", "print", "post", "done"}]
      BY <3>1
    <3>5. Shown("child")
      BY <3>1
    <3> QED
      BY <2>1, <2>2, <3>1, <3>3, <3>4, <3>5
  <2> QED
    BY <1>1, <2>3, <2>4, <2>5
<1>2. CASE ChildPrints
  <2>1. mem'.out = Append(mem.out, "child") /\ mem'.s = mem.s /\ DOMAIN mem' = DOMAIN mem
    BY <1>2 DEF ChildPrints, Printed
  <2>2. /\ mem'.out \in Seq(ForkLines) /\ Shown("child")'
        /\ Precedes("child", "parent: end")'
    BY <2>1, PrintedLine DEF ForkLines
  <2> QED
    BY <1>2, <2>1, <2>2 DEF ChildPrints
<1>3. CASE ParentPrints
  <2>1. mem'.out = Append(mem.out, "parent: end") /\ mem'.s = mem.s
        /\ DOMAIN mem' = DOMAIN mem
    BY <1>3 DEF ParentPrints, Printed
  <2>2. Shown("child")
    BY <1>3 DEF ParentPrints
  <2>3. /\ mem'.out \in Seq(ForkLines) /\ Shown("child")'
        /\ Precedes("child", "parent: end")'
    BY <2>1, <2>2, PrintedLine DEF ForkLines
  <2> QED
    BY <1>3, <2>1, <2>3 DEF ParentPrints
<1> QED
  BY <1>1, <1>2, <1>3 DEF ForkJoinMain, ForkJoinChild

Lines == {Before(c) : c \in Children} \cup {After(c) : c \in Children}

\* What a child that is past its wait, or a semaphore that was posted, tells of
\* the lines.
RandezvousInv ==
  /\ program = "randezvous"
  /\ pc \in [Children \cup {"main"} ->
               {"create1", "create2", "join1", "join2", "new", "print", "post", "wait",
                "after", "done"}]
  /\ mem.sem \in [Children -> Int] /\ mem.out \in Seq(Lines) /\ DOMAIN mem = {"sem", "out"}
  /\ \A c \in Children :
       pc[c] \in {"post", "wait", "after"} \/ mem.sem[c] > 0 => Shown(Before(c))
  /\ pc["child 1"] = "after" => Shown(Before("child 2"))
  /\ pc["child 2"] \in {"post", "after"} => Shown(Before("child 1"))
  /\ \A c, d \in Children : Precedes(Before(c), After(d))

\* No line is out, and no semaphore was posted.
LEMMA RandezvousBegins == RandezvousInit => RandezvousInv
<1> SUFFICES ASSUME RandezvousInit PROVE RandezvousInv
  OBVIOUS
<1>1. /\ program = "randezvous"
      /\ mem = [sem |-> [c \in Children |-> 0], out |-> <<>>]
      /\ pc = [p \in Children \cup {"main"} |-> IF p = "main" THEN "create1" ELSE "new"]
  BY DEF RandezvousInit, Begin
<1>2. /\ mem.out = <<>> /\ mem.out \in Seq(Lines) /\ DOMAIN mem = {"sem", "out"}
      /\ mem.sem = [c \in Children |-> 0]
  BY <1>1
<1>3. DOMAIN mem.out = {}
  BY <1>2, EmptySeq
<1>4. \A c, d \in Children : Precedes(Before(c), After(d))
  BY <1>3 DEF Precedes
<1>5. \A c \in Children : pc[c] = "new" /\ mem.sem[c] = 0
  BY <1>1, <1>2 DEF Children
<1>6. pc["child 1"] = "new" /\ pc["child 2"] = "new"
  BY <1>5 DEF Children
<1>7. mem.sem \in [Children -> Int]
  BY <1>2
<1> QED
  <2>1. mem.out \in Seq(Lines) /\ DOMAIN mem = {"sem", "out"} /\ program = "randezvous"
    BY <1>1, <1>2, EmptySeq
  <2>2. pc \in [Children \cup {"main"} ->
               {"create1", "create2", "join1", "join2", "new", "print", "post", "wait",
                "after", "done"}]
    BY <1>1
  <2>3. \A c \in Children :
          pc[c] \in {"post", "wait", "after"} \/ mem.sem[c] > 0 => Shown(Before(c))
    BY <1>5
  <2> QED
    BY ONLY <2>1, <2>2, <2>3, <1>4, <1>6, <1>7 DEF RandezvousInv

\* A child posts after its line, and goes on after the post of the other.
LEMMA RandezvousStep ==
  ASSUME RandezvousInv, RandezvousMain \/ \E c \in Children : RandezvousChild(c)
  PROVE  RandezvousInv'
<1> USE DEF Step, Compute, Goto, Create, Join, Move, kernel, RandezvousInv
<1>1. ASSUME mem'.out = mem.out
      PROVE  /\ \A a : Shown(a)' <=> Shown(a)
             /\ \A c, d \in Children : Precedes(Before(c), After(d))'
  BY <1>1, SameLines
<1>2. CASE RandezvousMain
  <2>1. mem' = mem
    BY <1>2 DEF RandezvousMain
  <2> QED
    BY <1>1, <1>2, <2>1 DEF RandezvousMain, Children
<1>3. ASSUME NEW c \in Children, PrintBefore(c)  PROVE RandezvousInv'
  <2>1. /\ mem'.out = Append(mem.out, Before(c)) /\ mem'.sem = mem.sem
        /\ DOMAIN mem' = DOMAIN mem /\ Before(c) \in Lines
    BY <1>3 DEF PrintBefore, Printed, Lines
  <2>2. \A d \in Children : After(d) # Before(c)
    BY DEF After, Before
  <2>3. /\ mem'.out \in Seq(Lines) /\ Shown(Before(c))' /\ \A a : Shown(a) => Shown(a)'
        /\ \A a, b : Precedes(a, b) /\ (b = Before(c) => Shown(a)) => Precedes(a, b)'
    BY <2>1, PrintedLine
  <2>4. \A d, e \in Children : Precedes(Before(d), After(e))'
    BY <2>2, <2>3
  <2>5. /\ \A d \in Children : Shown(Before(d)) => Shown(Before(d))'
        /\ Shown(Before("child 1")) => Shown(Before("child 1"))'
        /\ Shown(Before("child 2")) => Shown(Before("child 2"))'
    BY <2>3
  <2>6. /\ pc[c] = "print" /\ program' = program
        /\ pc' = [pc EXCEPT ![c] = IF c = "child 1" THEN "post" ELSE "wait"]
    BY <1>3 DEF PrintBefore
  <2>7. /\ pc'["child 1"] = "after" => pc["child 1"] = "after"
        /\ pc'["child 2"] \in {"post", "after"} => pc["child 2"] \in {"post", "after"}
        /\ \A d \in Children : d # c => pc'[d] = pc[d]
    BY <2>6 DEF Children
  <2>8. \A d \in Children :
          pc[d] \in {"post", "wait", "after"} \/ mem.sem[d] > 0 => Shown(Before(d))
    OBVIOUS
  <2>9. \A d \in Children :
          pc'[d] \in {"post", "wait", "after"} \/ mem'.sem[d] > 0 => Shown(Before(d))'
    BY <2>1, <2>3, <2>5, <2>7, <2>8
  <2>10. pc' \in [Children \cup {"main"} ->
               {"create1", "create2", "join1", "join2", "new", "print", "post", "wait",
                "after", "done"}]
    BY <2>6
  <2> QED
    BY <2>1, <2>3, <2>4, <2>5, <2>6, <2>7, <2>9, <2>10
<1>4. ASSUME NEW c \in Children, PrintAfter(c)  PROVE RandezvousInv'
  <2>1. /\ mem'.out = Append(mem.out, After(c)) /\ mem'.sem = mem.sem
        /\ DOMAIN mem' = DOMAIN mem /\ After(c) \in Lines
    BY <1>4 DEF PrintAfter, Printed, Lines
  <2>2. \A d \in Children : Shown(Before(d))
    BY <1>4 DEF PrintAfter, Children
  <2>3. /\ mem'.out \in Seq(Lines) /\ \A a : Shown(a) => Shown(a)'
        /\ \A a, b : Precedes(a, b) /\ (b = After(c) => Shown(a)) => Precedes(a, b)'
    BY <2>1, PrintedLine
  <2>4. \A d, e \in Children : Precedes(Before(d), After(e))'
    BY <2>2, <2>3
  <2>5. Shown(Before("child 1"))' /\ Shown(Before("child 2"))'
    BY <2>2, <2>3 DEF Children
  <2> QED
    BY <1>4, <2>1, <2>3, <2>4, <2>5 DEF PrintAfter, Children
<1>5. ASSUME NEW c \in Children, PostOwn(c)  PROVE RandezvousInv'
  <2>1. /\ mem'.out = mem.out /\ DOMAIN mem' = DOMAIN mem
        /\ mem'.sem = [mem.sem EXCEPT ![c] = @ + 1] /\ pc[c] = "post"
        /\ pc' = [pc EXCEPT ![c] = IF c = "child 1" THEN "wait" ELSE "after"]
        /\ program' = program
    BY <1>5 DEF PostOwn
  <2>2. /\ Shown(Before("child 1"))' <=> Shown(Before("child 1"))
        /\ Shown(Before("child 2"))' <=> Shown(Before("child 2"))
        /\ \A d, e \in Children : Precedes(Before(d), After(e))'
    BY <1>1, <2>1
  <2>3. c = "child 1" \/ c = "child 2"
    BY DEF Children
  <2>4. Shown(Before(c)) /\ (c = "child 2" => Shown(Before("child 1")))
    BY <2>1
  <2>5. pc' \in [Children \cup {"main"} ->
               {"create1", "create2", "join1", "join2", "new", "print", "post", "wait",
                "after", "done"}]
    BY <2>1
  <2>8. mem'.sem \in [Children -> Int]
    <3>1. mem.sem \in [Children -> Int]
      OBVIOUS
    <3>2. mem.sem[c] \in Int /\ mem.sem[c] + 1 \in Int
      BY ONLY <3>1, c \in Children, SMT
    <3> QED
      BY ONLY <2>1, <3>1, <3>2
  <2>6. \A d \in Children :
          pc'[d] \in {"post", "wait", "after"} \/ mem'.sem[d] > 0 => Shown(Before(d))'
    BY <2>1, <2>2, <2>3, <2>4 DEF Children
  <2>7. /\ pc'["child 1"] = "after" => pc["child 1"] = "after"
        /\ pc'["child 2"] \in {"post", "after"} => pc["child 2"] \in {"post", "after"}
    BY <2>1, <2>3 DEF Children
  <2> QED
    BY <2>1, <2>2, <2>5, <2>6, <2>7, <2>8
<1>6. ASSUME NEW c \in Children, WaitOther(c)  PROVE RandezvousInv'
  <2>1. /\ mem'.out = mem.out /\ DOMAIN mem' = DOMAIN mem
        /\ mem'.sem = [mem.sem EXCEPT ![Other(c)] = @ - 1] /\ mem.sem[Other(c)] > 0
        /\ pc' = [pc EXCEPT ![c] = IF c = "child 1" THEN "after" ELSE "post"]
        /\ pc[c] = "wait" /\ program' = program
    BY <1>6 DEF WaitOther
  <2>2. /\ Shown(Before("child 1"))' <=> Shown(Before("child 1"))
        /\ Shown(Before("child 2"))' <=> Shown(Before("child 2"))
        /\ \A d, e \in Children : Precedes(Before(d), After(e))'
    BY <1>1, <2>1
  <2>5. pc' \in [Children \cup {"main"} ->
               {"create1", "create2", "join1", "join2", "new", "print", "post", "wait",
                "after", "done"}]
    BY <2>1
  <2>7. mem'.sem \in [Children -> Int]
    <3>1. mem.sem \in [Children -> Int] /\ Other(c) \in Children
      BY DEF Other, Children
    <3>2. mem.sem[Other(c)] \in Int /\ mem.sem[Other(c)] - 1 \in Int
      BY ONLY <3>1, SMT
    <3> QED
      BY ONLY <2>1, <3>1, <3>2
  <2>6. Children = {"child 1", "child 2"}
    BY DEF Children
  <2>3. CASE c = "child 1"
    <3>1. Other(c) = "child 2"
      BY <2>3 DEF Other
    <3>2. Shown(Before("child 2")) /\ Shown(Before("child 1"))
      BY <2>1, <2>3, <3>1 DEF Children
    <3> QED
      BY <2>2, <2>5, <2>6, <2>7, <3>1, <3>2, <2>1
  <2>4. CASE c = "child 2"
    <3>1. Other(c) = "child 1"
      BY <2>4 DEF Other
    <3>2. Shown(Before("child 2")) /\ Shown(Before("child 1"))
      BY <2>1, <2>4, <3>1 DEF Children
    <3> QED
      BY <2>2, <2>5, <2>6, <2>7, <3>1, <3>2, <2>1
  <2> QED
    BY <2>3, <2>4 DEF Children
<1> QED
  BY <1>2, <1>3, <1>4, <1>5, <1>6 DEF RandezvousChild

-----------------------------------------------------------------------------
\* independant_thrd_sigmask.c

\* What main knows of the threads: which have blocked their signals, and which
\* have been sent them.
MainKnows ==
  /\ pc["main"] = "create" =>
       /\ pc["t2"] = "new"
       /\ mem.turn = "t1" => pc["t1"] = "new"
  /\ pc["main"] \in {"lock", "test", "asleep", "relock", "unlock"} /\ mem.turn = "t2" =>
       mem.blocked["t1"]
  /\ pc["main"] = "unlock" => mem.blocked[mem.turn]
  /\ pc["main"] \in {"kill", "lock2", "publish", "unlock2", "join", "done"} =>
       mem.blocked["t1"] /\ mem.blocked["t2"]
  /\ pc["main"] = "kill" /\ mem.turn = "t2" => pending["t1"] = {Sig("t1")}
  /\ pc["main"] \in {"lock2", "publish", "unlock2", "join", "done"} =>
       \A t \in Thrds : pending[t] = {Sig(t)}

SigmaskLabels ==
  {"new", "create", "mask", "lock", "publish", "unlock", "lock2", "test", "asleep",
   "relock", "unlock2", "pending", "kill", "join", "done"}

SigmaskTypeOK ==
  /\ program = "sigmask"
  /\ pc \in [Thrds \cup {"main"} -> SigmaskLabels]
  /\ mem \in [mtx : [Thrds -> SUBSET (Thrds \cup {"main"})], turn : Thrds,
              spurious : Nat, blocked : [Thrds -> BOOLEAN], sent : [Thrds -> BOOLEAN],
              report : [Thrds -> SUBSET {"SIGUSR1", "SIGUSR2"}]]
  /\ mask \in [Thrds \cup {"main"} -> SUBSET {"SIGUSR1", "SIGUSR2"}]
  /\ pending \in [Thrds \cup {"main"} -> SUBSET {"SIGUSR1", "SIGUSR2"}]

\* What a thread's place says of its signal.
ThrdKnows(t) ==
  /\ pc[t] \notin {"new", "mask"} => mask[t] = {Sig(t)}
  /\ mem.blocked[t] => pc[t] \notin {"new", "mask"}
  /\ pending[t] = {} \/ (pending[t] = {Sig(t)} /\ mem.blocked[t])
  /\ mem.sent[t] => pending[t] = {Sig(t)}
  /\ pc[t] \in {"unlock2", "pending"} => mem.sent[t]
  /\ pc[t] = "done" => mem.report[t] = {Sig(t)}

SigmaskInv ==
  /\ SigmaskTypeOK
  /\ \A t \in Thrds : ThrdKnows(t)
  /\ MainKnows

\* No signal is blocked or pending.
LEMMA SigmaskBegins == SigmaskInit => SigmaskInv
BY DEF SigmaskInit, Begin, SigmaskInv, SigmaskTypeOK, ThrdKnows, MainKnows, SigmaskLabels, Thrds

\* A step of thread t tells main nothing that is not so.
LEMMA SigmaskThrd ==
  ASSUME SigmaskInv, NEW t \in Thrds, Thrd(t)
  PROVE  SigmaskInv'
<1> USE DEF Step, Compute, Goto, Block, Move, kernel, Take, Release
<1> t = "t1" \/ t = "t2"
  BY DEF Thrds
<1>1. SigmaskTypeOK
  BY DEF SigmaskInv
<1>2. ThrdKnows("t1") /\ ThrdKnows("t2") /\ MainKnows
  BY DEF SigmaskInv, Thrds
<1>3. SUFFICES SigmaskTypeOK' /\ ThrdKnows("t1")' /\ ThrdKnows("t2")' /\ MainKnows'
  BY DEF SigmaskInv, Thrds
<1>4. ASSUME BlockOwn(t)
      PROVE  SigmaskTypeOK' /\ ThrdKnows("t1")' /\ ThrdKnows("t2")' /\ MainKnows'
  <2>1. /\ UNCHANGED <<program, mem, pending>> /\ pc[t] = "mask"
        /\ pc' = [pc EXCEPT ![t] = "lock"] /\ mask' = [mask EXCEPT ![t] = {Sig(t)}]
    BY <1>4 DEF BlockOwn
  <2>2. SigmaskTypeOK'
    BY <1>1, <2>1 DEF SigmaskTypeOK, SigmaskLabels, Sig
  <2>3. ThrdKnows("t1")' /\ ThrdKnows("t2")'
    BY <1>1, <1>2, <2>1 DEF ThrdKnows, SigmaskTypeOK, Thrds
  <2>4. MainKnows'
    BY <1>1, <1>2, <2>1 DEF MainKnows, SigmaskTypeOK, Thrds
  <2> QED
    BY <2>2, <2>3, <2>4
<1>5. ASSUME LockOwn(t) \/ UnlockOwn(t) \/ TestSent(t)
      PROVE  SigmaskTypeOK' /\ ThrdKnows("t1")' /\ ThrdKnows("t2")' /\ MainKnows'
  <2>1. /\ UNCHANGED <<program, mask, pending>>
        /\ mem'.blocked = mem.blocked /\ mem'.sent = mem.sent /\ mem'.report = mem.report
        /\ mem'.turn = mem.turn
        /\ pc[t] \in {"lock", "lock2", "relock", "unlock", "unlock2", "test"}
        /\ \E to \in {"publish", "test", "lock2", "pending", "unlock2", "asleep"} :
             /\ pc' = [pc EXCEPT ![t] = to]
             /\ to = "unlock2" => mem.sent[t]
             /\ to = "pending" => pc[t] = "unlock2"
    BY <1>1, <1>5 DEF LockOwn, UnlockOwn, TestSent, SigmaskTypeOK
  <2>2. SigmaskTypeOK'
    <3>1. \E set \in SUBSET (Thrds \cup {"main"}) :
            mem' = mem \/ mem' = [mem EXCEPT !.mtx[t] = set]
      BY <1>5 DEF LockOwn, UnlockOwn, TestSent
    <3> QED
      BY <1>1, <2>1, <3>1 DEF SigmaskTypeOK, SigmaskLabels
  <2>3. ThrdKnows("t1")' /\ ThrdKnows("t2")'
    BY <1>1, <1>2, <2>1 DEF ThrdKnows, SigmaskTypeOK, Thrds
  <2>4. MainKnows'
    BY <1>1, <1>2, <2>1 DEF MainKnows, SigmaskTypeOK, Thrds
  <2> QED
    BY <2>2, <2>3, <2>4
<1>6. ASSUME PublishBlocked(t)
      PROVE  SigmaskTypeOK' /\ ThrdKnows("t1")' /\ ThrdKnows("t2")' /\ MainKnows'
  <2>1. /\ UNCHANGED <<program, mask, pending>> /\ pc[t] = "publish"
        /\ mem' = [mem EXCEPT !.blocked[t] = TRUE]
        /\ mem'.blocked = [mem.blocked EXCEPT ![t] = TRUE]
        /\ mem'.sent = mem.sent /\ mem'.report = mem.report /\ mem'.turn = mem.turn
        /\ pc'[t] = "unlock" /\ \A u \in Thrds : u # t => pc'[u] = pc[u]
        /\ pc'["main"] = pc["main"] \/ (pc["main"] = "asleep" /\ pc'["main"] = "relock")
    BY <1>1, <1>6 DEF PublishBlocked, SigmaskTypeOK, Thrds
  <2>2. SigmaskTypeOK'
    <3>1. pc' \in [Thrds \cup {"main"} -> SigmaskLabels]
      BY <1>1, <1>6 DEF PublishBlocked, SigmaskTypeOK, SigmaskLabels
    <3> QED
      BY <1>1, <2>1, <3>1 DEF SigmaskTypeOK
  <2>3. ThrdKnows("t1")' /\ ThrdKnows("t2")'
    BY <1>1, <1>2, <2>1 DEF ThrdKnows, SigmaskTypeOK, Thrds
  <2>4. MainKnows'
    BY <1>1, <1>2, <2>1 DEF MainKnows, SigmaskTypeOK, Thrds
  <2> QED
    BY <2>2, <2>3, <2>4
<1>7. ASSUME Report(t)
      PROVE  SigmaskTypeOK' /\ ThrdKnows("t1")' /\ ThrdKnows("t2")' /\ MainKnows'
  <2>1. /\ UNCHANGED <<program, mask, pending>> /\ pc[t] = "pending"
        /\ mem' = [mem EXCEPT !.report[t] = pending[t]]
        /\ mem'.report = [mem.report EXCEPT ![t] = pending[t]]
        /\ mem'.sent = mem.sent /\ mem'.blocked = mem.blocked /\ mem'.turn = mem.turn
        /\ pc' = [pc EXCEPT ![t] = "done"]
    BY <1>1, <1>7 DEF Report, SigmaskTypeOK
  <2>2. SigmaskTypeOK'
    BY <1>1, <2>1 DEF SigmaskTypeOK, SigmaskLabels
  <2>3. ThrdKnows("t1")' /\ ThrdKnows("t2")'
    BY <1>1, <1>2, <2>1 DEF ThrdKnows, SigmaskTypeOK, Thrds
  <2>4. MainKnows'
    BY <1>1, <1>2, <2>1 DEF MainKnows, SigmaskTypeOK, Thrds
  <2> QED
    BY <2>2, <2>3, <2>4
<1> QED
  BY <1>4, <1>5, <1>6, <1>7 DEF Thrd

\* A spurious wakeup makes its thread test again.
LEMMA SigmaskSleeper ==
  ASSUME SigmaskInv, SpuriousWakeup
  PROVE  SigmaskInv'
<1> USE DEF Step, Compute, Goto, Move, kernel
<1>1. PICK p \in Thrds \cup {"main"} :
        Compute("sigmask", p, "asleep", "relock", [mem EXCEPT !.spurious = @ + 1])
  BY DEF SpuriousWakeup
<1>2. /\ UNCHANGED <<program, mask, pending>> /\ pc[p] = "asleep"
      /\ pc' = [pc EXCEPT ![p] = "relock"] /\ mem' = [mem EXCEPT !.spurious = @ + 1]
      /\ mem'.blocked = mem.blocked /\ mem'.sent = mem.sent /\ mem'.report = mem.report
      /\ mem'.turn = mem.turn
  BY <1>1 DEF SigmaskInv, SigmaskTypeOK
<1>3. SigmaskTypeOK'
  BY <1>2 DEF SigmaskInv, SigmaskTypeOK, SigmaskLabels
<1>4. \A t \in Thrds : ThrdKnows(t)'
  BY <1>2 DEF SigmaskInv, SigmaskTypeOK, ThrdKnows, Thrds
<1>5. MainKnows'
  BY <1>2 DEF SigmaskInv, SigmaskTypeOK, MainKnows, Thrds
<1> QED
  BY <1>3, <1>4, <1>5 DEF SigmaskInv

\* Nor does main forget a thread.
LEMMA SigmaskMainStep ==
  ASSUME SigmaskInv, SigmaskMain
  PROVE  SigmaskInv'
<1> USE DEF Step, Compute, Goto, Move, kernel, Take, Release, Turned, After2
<1>1. SigmaskTypeOK
  BY DEF SigmaskInv
<1>2. ThrdKnows("t1") /\ ThrdKnows("t2") /\ MainKnows
  BY DEF SigmaskInv, Thrds
<1>3. SUFFICES SigmaskTypeOK' /\ ThrdKnows("t1")' /\ ThrdKnows("t2")' /\ MainKnows'
  BY DEF SigmaskInv, Thrds
<1>4. ASSUME CreateThrd
      PROVE  SigmaskTypeOK' /\ ThrdKnows("t1")' /\ ThrdKnows("t2")' /\ MainKnows'
  <2>1. /\ UNCHANGED <<program, mask, pending>> /\ pc["main"] = "create"
        /\ mem'.blocked = mem.blocked /\ mem'.sent = mem.sent /\ mem'.report = mem.report
        /\ mem'.turn = IF mem.turn = "t1" THEN "t2" ELSE "t1"
        /\ pc'["main"] = IF mem.turn = "t1" THEN "create" ELSE "lock"
        /\ pc[mem.turn] = "new" /\ pc'[mem.turn] = "mask"
        /\ \A t \in Thrds : t # mem.turn => pc'[t] = pc[t]
    BY <1>1, <1>2, <1>4 DEF CreateThrd, SigmaskTypeOK, MainKnows, ThrdKnows, Thrds
  <2>2. SigmaskTypeOK'
    BY <1>1, <1>4, <2>1 DEF CreateThrd, SigmaskTypeOK, SigmaskLabels, Sig, Thrds
  <2>3. ThrdKnows("t1")' /\ ThrdKnows("t2")'
    BY <1>1, <1>2, <2>1 DEF ThrdKnows, SigmaskTypeOK, MainKnows, Thrds, Sig
  <2>4. MainKnows'
    BY <1>1, <1>2, <2>1 DEF MainKnows, SigmaskTypeOK, ThrdKnows, Thrds, Sig
  <2> QED
    BY <2>2, <2>3, <2>4
<1>5. ASSUME LockFor \/ TestBlocked
      PROVE  SigmaskTypeOK' /\ ThrdKnows("t1")' /\ ThrdKnows("t2")' /\ MainKnows'
  <2>1. PICK from \in SigmaskLabels, to \in SigmaskLabels :
          /\ UNCHANGED <<program, mask, pending>>
          /\ pc["main"] = from /\ pc' = [pc EXCEPT !["main"] = to]
          /\ \/ mem' = mem
             \/ mem' = Take(mem.turn, "main")
             \/ mem' = Release(mem.turn)
          /\ \/ from = "lock2" /\ to = "publish"
             \/ from \in {"lock", "relock", "test"} /\ to \in {"test", "asleep"}
             \/ from = "test" /\ to = "unlock" /\ mem.blocked[mem.turn]
    <3>1. CASE LockFor
      BY <1>1, <3>1 DEF LockFor, SigmaskLabels
    <3>2. CASE TestBlocked
      <4>1. CASE Goto("sigmask", "main", "test", "unlock") /\ mem.blocked[mem.turn]
        BY <4>1 DEF SigmaskLabels
      <4>2. CASE Compute("sigmask", "main", "test", "asleep", Release(mem.turn))
        BY <4>2 DEF SigmaskLabels
      <4> QED
        BY <3>2, <4>1, <4>2 DEF TestBlocked
    <3> QED
      BY <1>5, <3>1, <3>2
  <2>2. /\ mem'.blocked = mem.blocked /\ mem'.sent = mem.sent /\ mem'.report = mem.report
        /\ mem'.turn = mem.turn
    BY <1>1, <2>1 DEF SigmaskTypeOK
  <2>3. SigmaskTypeOK'
    BY <1>1, <2>1, <2>2 DEF SigmaskTypeOK
  <2>4. ThrdKnows("t1")' /\ ThrdKnows("t2")'
    BY <1>1, <1>2, <2>1, <2>2 DEF ThrdKnows, SigmaskTypeOK, Thrds
  <2>5. MainKnows'
    BY <1>1, <1>2, <2>1, <2>2 DEF MainKnows, SigmaskTypeOK, Thrds
  <2> QED
    BY <2>3, <2>4, <2>5
<1>6. ASSUME KillThrd
      PROVE  SigmaskTypeOK' /\ ThrdKnows("t1")' /\ ThrdKnows("t2")' /\ MainKnows'
  <2>1. /\ UNCHANGED <<program, mask>> /\ pc["main"] = "kill"
        /\ mem'.blocked = mem.blocked /\ mem'.sent = mem.sent /\ mem'.report = mem.report
        /\ mem'.turn = IF mem.turn = "t1" THEN "t2" ELSE "t1"
        /\ pc' = [pc EXCEPT !["main"] = IF mem.turn = "t1" THEN "kill" ELSE "lock2"]
        /\ pending' = [pending EXCEPT ![mem.turn] = {Sig(mem.turn)}]
    BY <1>1, <1>2, <1>6 DEF KillThrd, SigmaskTypeOK, MainKnows, ThrdKnows, Thrds
  <2>2. SigmaskTypeOK'
    BY <1>1, <1>6, <2>1 DEF KillThrd, SigmaskTypeOK, SigmaskLabels, Sig, Thrds
  <2>3. ThrdKnows("t1")' /\ ThrdKnows("t2")'
    BY <1>1, <1>2, <2>1 DEF ThrdKnows, SigmaskTypeOK, MainKnows, Thrds, Sig
  <2>4. MainKnows'
    BY <1>1, <1>2, <2>1 DEF MainKnows, SigmaskTypeOK, ThrdKnows, Thrds, Sig
  <2> QED
    BY <2>2, <2>3, <2>4
<1>7. ASSUME PublishSent
      PROVE  SigmaskTypeOK' /\ ThrdKnows("t1")' /\ ThrdKnows("t2")' /\ MainKnows'
  <2>1. /\ UNCHANGED <<program, mask, pending>> /\ pc["main"] = "publish"
        /\ mem'.blocked = mem.blocked /\ mem'.report = mem.report
        /\ mem'.turn = mem.turn
        /\ mem'.sent = [mem.sent EXCEPT ![mem.turn] = TRUE]
        /\ pc'["main"] = "unlock2"
        /\ \A t \in Thrds :
             \/ pc'[t] = pc[t]
             \/ pc[t] = "asleep" /\ pc'[t] = "relock"
    BY <1>1, <1>2, <1>7 DEF PublishSent, SigmaskTypeOK, MainKnows, ThrdKnows, Thrds
  <2>2. SigmaskTypeOK'
    BY <1>1, <1>7, <2>1 DEF PublishSent, SigmaskTypeOK, SigmaskLabels, Sig, Thrds
  <2>3. ThrdKnows("t1")' /\ ThrdKnows("t2")'
    BY <1>1, <1>2, <2>1 DEF ThrdKnows, SigmaskTypeOK, MainKnows, Thrds, Sig
  <2>4. MainKnows'
    BY <1>1, <1>2, <2>1 DEF MainKnows, SigmaskTypeOK, ThrdKnows, Thrds, Sig
  <2> QED
    BY <2>2, <2>3, <2>4
<1>8. ASSUME UnlockFor \/ JoinThrd
      PROVE  SigmaskTypeOK' /\ ThrdKnows("t1")' /\ ThrdKnows("t2")' /\ MainKnows'
  <2> DEFINE other == IF mem.turn = "t1" THEN "t2" ELSE "t1"
  <2>1. PICK from \in SigmaskLabels, to \in SigmaskLabels :
          /\ UNCHANGED <<program, mask, pending>>
          /\ pc["main"] = from /\ pc' = [pc EXCEPT !["main"] = to]
          /\ \/ mem' = [mem EXCEPT !.turn = other]
             \/ mem' = [[mem EXCEPT !.mtx[mem.turn] = {}] EXCEPT !.turn = other]
          /\ \/ from = "unlock" /\ to = IF mem.turn = "t1" THEN "lock" ELSE "kill"
             \/ from = "unlock2" /\ to = IF mem.turn = "t1" THEN "lock2" ELSE "join"
             \/ from = "join" /\ to \in {"join", "done"}
    <3>1. CASE UnlockFor
      <4>1. mem.turn \in Thrds
        BY <1>1 DEF SigmaskTypeOK
      <4>2. mem' = Turned(Release(mem.turn)) /\ Release(mem.turn).turn = mem.turn
        BY <1>1, <3>1 DEF UnlockFor, SigmaskTypeOK
      <4>3. /\ UNCHANGED <<program, mask, pending>>
            /\ \/ /\ pc["main"] = "unlock"
                  /\ pc' = [pc EXCEPT !["main"] = IF mem.turn = "t1" THEN "lock" ELSE "kill"]
               \/ /\ pc["main"] = "unlock2"
                  /\ pc' = [pc EXCEPT !["main"] = IF mem.turn = "t1" THEN "lock2" ELSE "join"]
        BY <3>1 DEF UnlockFor
      <4> QED
        BY <4>2, <4>3 DEF SigmaskLabels
    <3>2. CASE JoinThrd
      BY <1>1, <3>2 DEF JoinThrd, SigmaskLabels
    <3> QED
      BY <1>8, <3>1, <3>2
  <2>2. /\ mem'.blocked = mem.blocked /\ mem'.sent = mem.sent /\ mem'.report = mem.report
        /\ mem'.turn = other /\ other \in Thrds
    BY <1>1, <2>1 DEF SigmaskTypeOK, Thrds
  <2>3. SigmaskTypeOK'
    <3>1. mem' \in [mtx : [Thrds -> SUBSET (Thrds \cup {"main"})], turn : Thrds,
              spurious : Nat, blocked : [Thrds -> BOOLEAN], sent : [Thrds -> BOOLEAN],
              report : [Thrds -> SUBSET {"SIGUSR1", "SIGUSR2"}]]
      <4>1. CASE mem' = [mem EXCEPT !.turn = other]
        BY <1>1, <2>2, <4>1 DEF SigmaskTypeOK
      <4>2. CASE mem' = [[mem EXCEPT !.mtx[mem.turn] = {}] EXCEPT !.turn = other]
        <5>1. [mem EXCEPT !.mtx[mem.turn] = {}] \in
                [mtx : [Thrds -> SUBSET (Thrds \cup {"main"})], turn : Thrds,
                 spurious : Nat, blocked : [Thrds -> BOOLEAN], sent : [Thrds -> BOOLEAN],
                 report : [Thrds -> SUBSET {"SIGUSR1", "SIGUSR2"}]]
          BY <1>1 DEF SigmaskTypeOK
        <5> QED
          BY <2>2, <4>2, <5>1
      <4> QED
        BY <2>1, <4>1, <4>2
    <3> QED
      BY <1>1, <2>1, <3>1 DEF SigmaskTypeOK
  <2>4. ThrdKnows("t1")' /\ ThrdKnows("t2")'
    BY <1>1, <1>2, <2>1, <2>2 DEF ThrdKnows, SigmaskTypeOK, Thrds
  <2>5. MainKnows'
    <3>1. /\ pc'["main"] = to /\ pc["main"] = from /\ \A t \in Thrds : pc'[t] = pc[t]
          /\ mem.turn \in Thrds /\ pending' = pending
      BY <1>1, <2>1 DEF SigmaskTypeOK, Thrds
    <3>2. /\ from = "unlock" => (mem.turn = "t1" /\ to = "lock") \/ (mem.turn = "t2" /\ to = "kill")
          /\ from # "unlock" => to \in {"lock2", "join", "done"} /\ from \in {"unlock2", "join"}
          /\ mem'.turn = "t2" => mem.turn = "t1"
      BY <2>1, <2>2, <3>1 DEF Thrds
    <3>3. MainKnows
      BY <1>2
    <3> HIDE DEF other
    <3>4. from = "unlock" => MainKnows'
      BY <2>2, <3>1, <3>2, <3>3 DEF MainKnows, Thrds
    <3>5. from # "unlock" => MainKnows'
      BY <2>2, <3>1, <3>2, <3>3 DEF MainKnows, Thrds
    <3> QED
      BY <3>4, <3>5
  <2> QED
    BY <2>3, <2>4, <2>5
<1> QED
  BY <1>4, <1>5, <1>6, <1>7, <1>8 DEF SigmaskMain

(***************************************************************************)
(* Whatever the scheduler does, the lines of fork-join.c and randezvous.c  *)
(* come out in order, and no thread of independant_thrd_sigmask.c is sent  *)
(* its signal before it blocks it: the semaphores and the two flags are    *)
(* enough, and spurious wakeups do no harm.                                *)
(***************************************************************************)
THEOREM LinesAndSignals == Spec => []ThreadsInOrder
<1> DEFINE IInv == /\ program = "fork_join" => ForkInv
                   /\ program = "randezvous" => RandezvousInv
                   /\ program = "sigmask" => SigmaskInv
<1>1. Init => IInv
  BY OneBegins, ForkInit, RandezvousBegins, SigmaskBegins
<1>2. IInv /\ [Next]_vars => IInv'
  <2> SUFFICES ASSUME IInv, [Next]_vars PROVE IInv'
    OBVIOUS
  <2>1. CASE UNCHANGED vars
    BY <2>1 DEF vars, ForkInv, RandezvousInv, SigmaskInv, SigmaskTypeOK, ThrdKnows, MainKnows,
       Shown, Precedes
  <2>2. program' = program
    BY OneProgram
  <2>6. /\ ForkJoinMain \/ ForkJoinChild => program = "fork_join"
        /\ RandezvousMain \/ (\E c \in Children : RandezvousChild(c)) => program = "randezvous"
    BY DEF Step, Compute, Goto, Create, Join, ForkJoinMain, ForkJoinChild, RandezvousMain,
       RandezvousChild, ForkJoinCreate, ParentWaits, ParentPrints, ChildPrints, ChildPosts,
       PrintBefore, PostOwn, WaitOther, PrintAfter
  <2>3. CASE program = "fork_join" /\ ~UNCHANGED vars
    BY <2>2, <2>3, <2>6, OneProgram, ForkStep DEF SemOrderNext
  <2>4. CASE program = "randezvous" /\ ~UNCHANGED vars
    BY <2>2, <2>4, <2>6, OneProgram, RandezvousStep DEF SemOrderNext
  <2>5. CASE program = "sigmask" /\ ~UNCHANGED vars
    BY <2>2, <2>5, OneProgram, SigmaskThrd, SigmaskMainStep, SigmaskSleeper DEF SigmaskNext
  <2> QED
    BY <2>1, <2>2, <2>3, <2>4, <2>5
<1>3. IInv => ThreadsInOrder
  <2>1. IInv /\ program = "sigmask" => OwnSignalPending
    BY DEF SigmaskInv, SigmaskTypeOK, ThrdKnows, OwnSignalPending, Deliverable, Thrds
  <2> QED
    BY <2>1 DEF ThreadsInOrder, LinesInOrder, OwnSignalPending, ForkInv, RandezvousInv
<1> QED
  BY <1>1, <1>2, <1>3, PTL DEF Spec

-----------------------------------------------------------------------------
\* pathmanip_threadsafe.c

PathTypeOK ==
  /\ program = "pathmanip"
  /\ pc \in [Namers \cup {"main"} ->
               {"create1", "create2", "join1", "join2", "print", "new", "once", "get",
                "malloc", "copy", "exit", "done"}]
  /\ mem \in [key : BOOLEAN, used : SUBSET Addresses, text : [Addresses -> Namers \cup {""}],
              specific : [Namers -> Addresses \cup {0}], result : [Namers -> Addresses \cup {0}]]

\* A thread has a buffer from malloc to its exit, and nothing else is allocated.
Buffers ==
  /\ \A t \in Namers :
       /\ mem.specific[t] # 0 <=> pc[t] \in {"copy", "exit"}
       /\ pc[t] = "exit" => mem.text[mem.specific[t]] = t
  /\ mem.used = {mem.specific["t1"], mem.specific["t2"]} \ {0}
  /\ mem.specific["t1"] = mem.specific["t2"] => mem.specific["t1"] = 0
  /\ pc["main"] = "create1" => pc["t1"] = "new" /\ pc["t2"] = "new"
  /\ pc["main"] = "create2" => pc["t2"] = "new"
  /\ pc["main"] \in {"join2", "print", "done"} => pc["t1"] = "done"
  /\ pc["main"] \in {"print", "done"} => pc["t2"] = "done"

PathInv == PathTypeOK /\ Buffers

\* Nothing is allocated.
LEMMA PathBegins == PathManipInit => PathInv
<1> SUFFICES ASSUME PathManipInit PROVE PathInv
  OBVIOUS
<1>1. /\ program = "pathmanip" /\ mem.used = {} /\ mem.text = [a \in Addresses |-> ""]
      /\ mem.specific = [t \in Namers |-> 0] /\ mem.result = [t \in Namers |-> 0]
      /\ mem.key = FALSE /\ pc["main"] = "create1" /\ pc["t1"] = "new" /\ pc["t2"] = "new"
  BY DEF PathManipInit, Begin
<1>2. PathTypeOK
  <2>1. pc \in [Namers \cup {"main"} ->
               {"create1", "create2", "join1", "join2", "print", "new", "once", "get",
                "malloc", "copy", "exit", "done"}]
    <3>1. pc = [t1 |-> "new", t2 |-> "new", main |-> "create1"]
      BY DEF PathManipInit, Begin
    <3>2. Namers \cup {"main"} = {"t1", "t2", "main"}
      BY DEF Namers
    <3> QED
      BY <3>1, <3>2
  <2>2. mem = [key |-> FALSE, used |-> {}, text |-> [a \in Addresses |-> ""],
               specific |-> [t \in Namers |-> 0], result |-> [t \in Namers |-> 0]]
    BY DEF PathManipInit, Begin
  <2> QED
    BY <1>1, <2>1, <2>2 DEF PathTypeOK
<1>3. Buffers
  BY <1>1 DEF Buffers, Namers
<1> QED
  BY <1>2, <1>3 DEF PathInv

\* main allocates nothing.
LEMMA PathMainStep ==
  ASSUME PathInv, PathManipMain
  PROVE  PathInv'
<1> USE DEF Step, Compute, Goto, Create, Join, Move, kernel
<1>1. mem' = mem /\ program' = program
  BY DEF PathManipMain, CreateNamers, JoinNamers, PrintNames
<1>2. PathTypeOK'
  BY <1>1 DEF PathInv, PathTypeOK, PathManipMain, CreateNamers, JoinNamers, PrintNames
<1>3. Buffers'
  BY <1>1 DEF PathInv, PathTypeOK, Buffers, PathManipMain, CreateNamers, JoinNamers,
     PrintNames, Namers
<1> QED
  BY <1>2, <1>3 DEF PathInv

\* What malloc returns belongs to nobody, and the destructor takes only its own.
LEMMA NamerStep ==
  ASSUME PathInv, NEW t \in Namers, Namer(t)
  PROVE  PathInv'
<1> USE DEF Step, Compute, Goto, Move, kernel
<1> DEFINE u == IF t = "t1" THEN "t2" ELSE "t1"
<1>1. /\ t \in {"t1", "t2"} /\ u \in Namers /\ u # t /\ Namers = {t, u}
      /\ mem.used = {mem.specific[t], mem.specific[u]} \ {0}
      /\ mem.specific[t] = mem.specific[u] => mem.specific[t] = 0
      /\ mem.specific[t] \in Addresses \cup {0} /\ mem.specific[u] \in Addresses \cup {0}
      /\ 0 \notin Addresses
  <2>1. t \in {"t1", "t2"} /\ u \in Namers /\ u # t /\ Namers = {t, u} /\ 0 \notin Addresses
    BY DEF Namers, Addresses
  <2>2. mem.specific[t] \in Addresses \cup {0} /\ mem.specific[u] \in Addresses \cup {0}
    BY <2>1 DEF PathInv, PathTypeOK
  <2> QED
    BY <2>1, <2>2 DEF PathInv, Buffers
<1>2. PathTypeOK /\ Buffers
  BY DEF PathInv
<1>3. ASSUME MakeKey(t) \/ GetSpecific(t)  PROVE PathInv'
  <2>1. /\ program' = program /\ mem'.used = mem.used /\ mem'.text = mem.text
        /\ mem'.specific = mem.specific
        /\ pc[t] \in {"once", "get"} /\ pc'[t] \in {"get", "malloc", "copy"}
        /\ pc'[t] = "copy" => mem.specific[t] # 0
        /\ pc'[u] = pc[u] /\ pc'["main"] = pc["main"]
    BY <1>1, <1>2, <1>3 DEF MakeKey, GetSpecific, PathTypeOK
  <2>2. PathTypeOK'
    <3>1. CASE MakeKey(t)
      BY <1>2, <3>1 DEF MakeKey, PathTypeOK
    <3>2. CASE GetSpecific(t)
      BY <1>2, <3>2 DEF GetSpecific, PathTypeOK
    <3> QED
      BY <1>3, <3>1, <3>2
  <2>3. Buffers'
    BY <1>1, <1>2, <2>1 DEF Buffers
  <2> QED
    BY <2>2, <2>3 DEF PathInv
<1>4. ASSUME AllocBuffer(t)  PROVE PathInv'
  <2>1. PICK a \in Addresses :
          /\ a \notin mem.used /\ program' = program /\ pc[t] = "malloc"
          /\ pc' = [pc EXCEPT ![t] = "copy"]
          /\ mem' = [mem EXCEPT !.used = @ \cup {a}, !.specific[t] = a]
    BY <1>4 DEF AllocBuffer
  <2>2. /\ mem'.used = mem.used \cup {a} /\ mem'.specific = [mem.specific EXCEPT ![t] = a]
        /\ mem'.text = mem.text
    BY <1>2, <2>1 DEF PathTypeOK
  <2>3. PathTypeOK'
    BY <1>2, <2>1 DEF PathTypeOK
  <2>4. Buffers'
    <3>1. /\ mem'.specific[t] = a /\ mem'.specific[u] = mem.specific[u] /\ mem.specific[t] = 0
          /\ pc'[t] = "copy" /\ pc'[u] = pc[u] /\ pc'["main"] = pc["main"]
      BY <1>1, <1>2, <2>1, <2>2 DEF PathTypeOK, Buffers
    <3>2. /\ mem'.used = {mem'.specific["t1"], mem'.specific["t2"]} \ {0}
          /\ mem'.specific["t1"] = mem'.specific["t2"] => mem'.specific["t1"] = 0
      BY <1>1, <2>1, <2>2, <3>1
    <3> QED
      BY <1>1, <1>2, <2>1, <2>2, <3>1, <3>2 DEF Buffers
  <2> QED
    BY <2>3, <2>4 DEF PathInv
<1>5. ASSUME CopyName(t)  PROVE PathInv'
  <2>1. /\ program' = program /\ pc[t] = "copy" /\ pc' = [pc EXCEPT ![t] = "exit"]
        /\ mem' = [mem EXCEPT !.text[mem.specific[t]] = t, !.result[t] = mem.specific[t]]
        /\ mem.specific[t] \in Addresses
    BY <1>1, <1>2, <1>5 DEF CopyName, Buffers
  <2>2. /\ mem'.used = mem.used /\ mem'.specific = mem.specific
        /\ mem'.text = [mem.text EXCEPT ![mem.specific[t]] = t]
    BY <1>2, <2>1 DEF PathTypeOK
  <2>3. PathTypeOK'
    BY <1>2, <2>1 DEF PathTypeOK
  <2>4. Buffers'
    <3>1. /\ mem'.text[mem.specific[t]] = t
          /\ mem.specific[u] # 0 => mem'.text[mem.specific[u]] = mem.text[mem.specific[u]]
          /\ pc'[t] = "exit" /\ pc'[u] = pc[u] /\ pc'["main"] = pc["main"]
      BY <1>1, <1>2, <2>1, <2>2 DEF PathTypeOK
    <3> QED
      BY <1>1, <1>2, <2>1, <2>2, <3>1 DEF Buffers
  <2> QED
    BY <2>3, <2>4 DEF PathInv
<1>6. ASSUME Destructor(t)  PROVE PathInv'
  <2>1. /\ program' = program /\ pc[t] = "exit" /\ pc' = [pc EXCEPT ![t] = "done"]
        /\ mem' = [mem EXCEPT !.used = @ \ {mem.specific[t]}, !.specific[t] = 0]
    BY <1>6 DEF Destructor
  <2>2. /\ mem'.used = mem.used \ {mem.specific[t]}
        /\ mem'.specific = [mem.specific EXCEPT ![t] = 0] /\ mem'.text = mem.text
    BY <1>2, <2>1 DEF PathTypeOK
  <2>3. PathTypeOK'
    BY <1>2, <2>1 DEF PathTypeOK
  <2>4. Buffers'
    <3>1. /\ mem'.specific[t] = 0 /\ mem'.specific[u] = mem.specific[u] /\ mem.specific[t] # 0
          /\ pc'[t] = "done" /\ pc'[u] = pc[u] /\ pc'["main"] = pc["main"]
      BY <1>1, <1>2, <2>1, <2>2 DEF PathTypeOK, Buffers
    <3>2. /\ mem'.used = {mem'.specific["t1"], mem'.specific["t2"]} \ {0}
          /\ mem'.specific["t1"] = mem'.specific["t2"] => mem'.specific["t1"] = 0
      BY <1>1, <2>2, <3>1
    <3> QED
      BY <1>1, <1>2, <2>1, <2>2, <3>1, <3>2 DEF Buffers
  <2> QED
    BY <2>3, <2>4 DEF PathInv
<1> QED
  BY <1>3, <1>4, <1>5, <1>6 DEF Namer

(***************************************************************************)
(* my_basename of pathmanip_threadsafe.c is thread-safe, whichever free    *)
(* address malloc returns; and main prints freed memory in every run.      *)
(***************************************************************************)
THEOREM BuffersOwned == Spec => []BuffersSound
<1> DEFINE IInv == program = "pathmanip" => PathInv
<1>1. Init => IInv
  BY OneBegins, PathBegins
<1>2. IInv /\ [Next]_vars => IInv'
  <2> SUFFICES ASSUME IInv, [Next]_vars, program = "pathmanip" PROVE PathInv'
    BY OneProgram
  <2>1. CASE UNCHANGED vars
    BY <2>1 DEF vars, PathInv, PathTypeOK, Buffers
  <2>2. CASE PathManipNext
    BY <2>2, PathMainStep, NamerStep DEF PathManipNext
  <2> QED
    BY <2>1, <2>2, OneProgram
<1>3. IInv => BuffersSound
  <2> SUFFICES ASSUME program = "pathmanip", PathInv PROVE BuffersPrivate /\ ResultsFreed
    BY DEF BuffersSound, BuffersPrivate, ResultsFreed
  <2> QED
    BY DEF PathInv, PathTypeOK, Buffers, BuffersPrivate, ResultsFreed, Namers, Addresses
<1> QED
  BY <1>1, <1>2, <1>3, PTL DEF Spec

-----------------------------------------------------------------------------
\* chg_pgid_for_diff_descendants.c

ChgTasks == {"parent", "child1", "child2"}

ChgTypeOK ==
  /\ program = "chg_pgid"
  /\ DOMAIN pc = ChgTasks
  /\ mem \in [handled : SUBSET UserSignals, execed : BOOLEAN, failed : BOOLEAN,
              impossible : BOOLEAN]
  /\ pending \in [ChgTasks -> SUBSET UserSignals]

\* A signal is sent once and handled once, and SIGUSR2 only after the exec.
Sent2 == pending["parent"] \cup mem.handled

ChildrenSent ==
  /\ pending["parent"] \cap mem.handled = {}
  /\ pc["child1"] \in {"new", "kill"} => "SIGUSR1" \notin Sent2
  /\ pc["child2"] \in {"new", "exec", "helper"} => "SIGUSR2" \notin Sent2
  /\ pc["child2"] = "helper" \/ "SIGUSR2" \in Sent2 => mem.execed

\* The first sigsuspend has handled one signal, the second all.
ParentHandled ==
  /\ pc["parent"] \in {"block", "fork1"} => pc["child1"] = "new"
  /\ pc["parent"] \in {"block", "fork1", "fork2"} => pc["child2"] = "new"
  /\ pc["parent"] \in {"handler1", "suspend2", "suspended2"} => mem.handled # {}
  /\ pc["parent"] \in {"handler2", "unblock", "setpgid1", "setpgid2", "wait1", "wait2", "done"}
       => mem.handled = UserSignals
  /\ ~mem.impossible

ChgInv == ChgTypeOK /\ ChildrenSent /\ ParentHandled

\* No child was forked.
LEMMA ChgBegins == ChgPgidInit => ChgInv
<1> SUFFICES ASSUME ChgPgidInit PROVE ChgInv
  OBVIOUS
<1>1. /\ program = "chg_pgid" /\ DOMAIN pc = ChgTasks
      /\ pc["parent"] = "block" /\ pc["child1"] = "new" /\ pc["child2"] = "new"
      /\ mem = [handled |-> {}, execed |-> FALSE, failed |-> FALSE, impossible |-> FALSE]
      /\ pending = [p \in ChgTasks |-> {}]
  <2>1. DOMAIN [parent |-> "block", child1 |-> "new", child2 |-> "new"] = ChgTasks
    BY DEF ChgTasks
  <2> QED
    BY <2>1 DEF ChgPgidInit, Begin
<1>2. pending["parent"] = {} /\ mem.handled = {} /\ mem.impossible = FALSE
  BY <1>1 DEF ChgTasks
<1>3. ChgTypeOK
  BY <1>1 DEF ChgTypeOK
<1> QED
  BY <1>1, <1>2, <1>3 DEF ChgInv, ChildrenSent, ParentHandled, Sent2

\* Each signal is sent once and handled once, and the parent counts them.
LEMMA ChgStep ==
  ASSUME ChgInv, ChgPgidNext
  PROVE  ChgInv'
<1> USE DEF Step, Compute, Goto, Move, Kill, Block, Fork, Wait, kernel, ChgTasks, Sent2
<1>1. ChgTypeOK /\ ChildrenSent /\ ParentHandled
  BY DEF ChgInv
<1>2. SUFFICES ChgTypeOK' /\ ChildrenSent' /\ ParentHandled'
  BY DEF ChgInv
<1>3. CASE BlockUser \/ ForkBoth \/ Suspend \/ SuspendReturns \/ UnblockUser \/ WaitBoth
  <2>1. /\ program' = program /\ mem' = mem /\ pending' = pending /\ DOMAIN pc' = DOMAIN pc
    BY <1>1, <1>3 DEF BlockUser, ForkBoth, Suspend, SuspendReturns, UnblockUser, WaitBoth, ChgTypeOK
  <2>2. CASE BlockUser \/ Suspend \/ SuspendReturns \/ UnblockUser
    BY <1>1, <2>1, <2>2 DEF ChgTypeOK, ChildrenSent, ParentHandled, BlockUser, Suspend,
       SuspendReturns, UnblockUser
  <2>3. CASE ForkBoth
    BY <1>1, <2>1, <2>3 DEF ChgTypeOK, ChildrenSent, ParentHandled, ForkBoth
  <2>4. CASE WaitBoth
    BY <1>1, <2>1, <2>4 DEF ChgTypeOK, ChildrenSent, ParentHandled, WaitBoth
  <2> QED
    BY <1>3, <2>2, <2>3, <2>4
<1>4. CASE HandleUser
  <2>1. PICK s \in UserSignals, to \in {"handler1", "handler2"} :
          /\ s \in pending["parent"] /\ program' = program
          /\ pc["parent"] \in {"suspended1", "handler1", "suspended2"}
          /\ pc["parent"] = "suspended2" <=> to = "handler2"
          /\ pc' = [pc EXCEPT !["parent"] = to]
          /\ pending' = [pending EXCEPT !["parent"] = @ \ {s}]
          /\ mem' = [mem EXCEPT !.handled = @ \cup {s}]
    BY <1>4 DEF HandleUser, Deliverable
  <2>2. /\ mem'.handled = mem.handled \cup {s} /\ mem'.execed = mem.execed
        /\ mem'.impossible = mem.impossible /\ pending'["parent"] = pending["parent"] \ {s}
    BY <1>1, <2>1 DEF ChgTypeOK
  <2>3. /\ Sent2' = Sent2 /\ pending'["parent"] \cap mem'.handled = {} /\ mem'.handled # {}
    BY <1>1, <2>1, <2>2 DEF ChildrenSent
  <2>4. to = "handler2" => mem'.handled = UserSignals
    BY <1>1, <2>1, <2>2 DEF ChgTypeOK, ChildrenSent, ParentHandled, UserSignals
  <2>5. pc'["parent"] = to /\ pc'["child1"] = pc["child1"] /\ pc'["child2"] = pc["child2"]
    BY <1>1, <2>1 DEF ChgTypeOK
  <2>6. ChgTypeOK'
    BY <1>1, <2>1 DEF ChgTypeOK
  <2>7. ChildrenSent'
    BY <1>1, <2>2, <2>3, <2>5 DEF ChildrenSent
  <2>8. ParentHandled'
    BY <1>1, <2>1, <2>2, <2>3, <2>4, <2>5 DEF ParentHandled
  <2> QED
    BY <2>6, <2>7, <2>8
<1>5. CASE SetPgids
  <2>1. CASE pc["parent"] = "setpgid1"
    <3>1. mem' = mem /\ pending' = pending /\ program' = program
          /\ pc' = [pc EXCEPT !["parent"] = "setpgid2"]
      BY <1>5, <2>1 DEF SetPgids
    <3> QED
      BY <1>1, <2>1, <3>1 DEF ChgTypeOK, ChildrenSent, ParentHandled
  <2>2. CASE pc["parent"] = "setpgid2"
    <3>1. /\ mem' = [mem EXCEPT !.impossible = ~mem.execed] /\ pending' = pending
          /\ program' = program /\ pc' = [pc EXCEPT !["parent"] = "wait1"]
      BY <1>5, <2>2 DEF SetPgids
    <3>2. mem.execed
      BY <1>1, <2>2 DEF ChildrenSent, ParentHandled, UserSignals
    <3>3. ChgTypeOK'
      BY <1>1, <3>1 DEF ChgTypeOK
    <3>4. mem'.handled = mem.handled /\ mem'.execed = mem.execed /\ ~mem'.impossible
      BY <1>1, <3>1, <3>2 DEF ChgTypeOK
    <3> QED
      BY <1>1, <2>2, <3>1, <3>3, <3>4 DEF ChgTypeOK, ChildrenSent, ParentHandled
  <2> QED
    BY <1>5, <2>1, <2>2 DEF SetPgids
<1>6. CASE Child1Kills
  <2>1. /\ program' = program /\ mem' = mem /\ pc["child1"] = "kill"
        /\ pc' = [pc EXCEPT !["child1"] = "zombie"]
        /\ pending' = [pending EXCEPT !["parent"] = @ \cup {"SIGUSR1"}]
    BY <1>6 DEF Child1Kills
  <2>2. pending'["parent"] = pending["parent"] \cup {"SIGUSR1"}
    BY <1>1, <2>1 DEF ChgTypeOK
  <2>3. ChgTypeOK'
    BY <1>1, <2>1 DEF ChgTypeOK, UserSignals
  <2> QED
    BY <1>1, <2>1, <2>2, <2>3 DEF ChgTypeOK, ChildrenSent, ParentHandled
<1>7. CASE Child2Execs
  <2>1. PICK to \in {"helper", "zombie"} :
          /\ program' = program /\ pending' = pending /\ pc["child2"] = "exec"
          /\ pc' = [pc EXCEPT !["child2"] = to]
          /\ \/ to = "helper" /\ mem' = [mem EXCEPT !.execed = TRUE]
             \/ to = "zombie" /\ mem' = [mem EXCEPT !.failed = TRUE]
    BY <1>7 DEF Child2Execs
  <2>2. /\ mem'.handled = mem.handled /\ mem'.impossible = mem.impossible
        /\ mem.execed \/ to = "helper" => mem'.execed
    BY <1>1, <2>1 DEF ChgTypeOK
  <2>3. ChgTypeOK'
    BY <1>1, <2>1 DEF ChgTypeOK
  <2> QED
    BY <1>1, <2>1, <2>2, <2>3 DEF ChgTypeOK, ChildrenSent, ParentHandled
<1>8. CASE HelperKills
  <2>1. /\ program' = program /\ mem' = mem /\ pc["child2"] = "helper"
        /\ pc' = [pc EXCEPT !["child2"] = "zombie"]
        /\ pending' = [pending EXCEPT !["parent"] = @ \cup {"SIGUSR2"}]
    BY <1>8 DEF HelperKills
  <2>2. pending'["parent"] = pending["parent"] \cup {"SIGUSR2"}
    BY <1>1, <2>1 DEF ChgTypeOK
  <2>3. ChgTypeOK'
    BY <1>1, <2>1 DEF ChgTypeOK, UserSignals
  <2> QED
    BY <1>1, <2>1, <2>2, <2>3 DEF ChgTypeOK, ChildrenSent, ParentHandled
<1> QED
  BY <1>3, <1>4, <1>5, <1>6, <1>7, <1>8 DEF ChgPgidNext, ChgPgidParent, ChgPgidChild2

-----------------------------------------------------------------------------
\* make_zombie_sync.c, rusage_child_wait.c and 27_6.c

WaitTasks == {"parent", "child", "shell"}

WaitLabels ==
  {"block", "fork", "suspend", "suspended", "resume", "kill", "wait", "system",
   "await_shell", "unblock", "exit", "new", "zombie", "done"}

\* Whether the child has sent the signal that the parent awaits, and a shell of
\* the parent the same signal.
ChildSent ==
  \/ pc["child"] \in {"zombie", "done"}
  \/ pc["child"] = "exit" /\ program = "rusage_child_wait"

ShellSent == program = "make_zombie_sync" /\ pc["shell"] \in {"zombie", "done"}

\* How often the signal has been sent and not been handled.
ToHandle == IF Awaited(program) \in pending["parent"] THEN 1 ELSE 0

WaitTypeOK ==
  /\ program \in WaitPrograms
  /\ pc \in [WaitTasks -> WaitLabels]
  /\ mem \in [handled : 0 .. 2]
  /\ mask \in [WaitTasks -> SUBSET {"SIGCHLD", "SIGUSR1"}]
  /\ pending \in [WaitTasks -> SUBSET {"SIGCHLD", "SIGUSR1"}]

\* The signal is handled or pending each time it was sent: it is never merged
\* with one that is pending.  It is blocked except where the parent waits for it.
SignalOnce ==
  /\ pending["parent"] \subseteq {Awaited(program)}
  /\ mem.handled + ToHandle = (IF ChildSent THEN 1 ELSE 0) + (IF ShellSent THEN 1 ELSE 0)
  /\ pc["parent"] \in {"fork", "suspend", "kill", "wait", "system", "await_shell", "unblock"}
       => mask["parent"] = {Awaited(program)}
  /\ program # "rusage_child_wait" /\ pc["parent"] \in {"exit", "done"}
       => mask["parent"] = {}

ParentWaited ==
  /\ pc["parent"] \notin {"new", "zombie"}
  /\ pc["parent"] \in {"block", "fork"} => pc["child"] = "new"
  /\ pc["child"] = "kill" => program = "rusage_child_wait"
  /\ pc["child"] \in {"system", "await_shell"} => program = "27_6"
  /\ pc["parent"] \in {"system", "await_shell"} => program = "make_zombie_sync"
  /\ program = "rusage_child_wait" => pc["parent"] # "unblock"
  /\ pc["parent"] \in {"system", "await_shell", "unblock", "exit", "done"}
       <=> pc["child"] = "done"
  /\ program = "27_6" => pc["parent"] \notin {"suspend", "suspended", "resume", "kill"}
  /\ program = "27_6" /\ pc["parent"] \notin {"exit", "done"} => mem.handled = 0
  /\ program # "27_6" /\ pc["parent"] \in {"resume", "kill", "wait", "system", "await_shell",
                                           "unblock", "exit", "done"}
       => mem.handled > 0
  /\ program = "make_zombie_sync" /\ pc["parent"] \notin {"exit", "done"}
       => mem.handled < 2
  /\ pc["parent"] = "done" => ToHandle = 0

\* Where the shell is follows from where its parent is.
ShellWaited ==
  /\ pc["shell"] \in {"new", "exit", "zombie", "done"}
  /\ program = "rusage_child_wait" => pc["shell"] = "new"
  /\ program = "make_zombie_sync" =>
       /\ pc["parent"] = "await_shell" <=> pc["shell"] \in {"exit", "zombie"}
       /\ pc["parent"] \in {"unblock", "exit", "done"} <=> pc["shell"] = "done"
  /\ program = "27_6" =>
       /\ pc["child"] = "await_shell" <=> pc["shell"] \in {"exit", "zombie"}
       /\ pc["child"] \in {"exit", "zombie", "done"} <=> pc["shell"] = "done"

WaitInv == WaitTypeOK /\ SignalOnce /\ ParentWaited /\ ShellWaited

\* No child was forked.
LEMMA WaitBegins == ChildWaitInit => WaitInv
<1> DEFINE labels == [parent |-> "block", child |-> "new", shell |-> "new"]
<1> SUFFICES ASSUME NEW name \in WaitPrograms,
                    Begin(name, labels, [handled |-> 0], <<>>)
             PROVE  WaitInv
  BY DEF ChildWaitInit
<1>1. DOMAIN labels = WaitTasks
  BY DEF WaitTasks
<1>2. /\ program \in WaitPrograms /\ pc = labels
      /\ mem = [handled |-> 0] /\ mask = [p \in WaitTasks |-> {}]
      /\ pending = [p \in WaitTasks |-> {}]
  BY <1>1 DEF Begin
<1>3. WaitTypeOK
  BY <1>2 DEF WaitTypeOK, WaitTasks, WaitLabels
<1> QED
  BY <1>2, <1>3 DEF WaitInv, SignalOnce, ParentWaited, ShellWaited, ChildSent, ShellSent,
     ToHandle, WaitTasks, WaitPrograms

\* The signals awaited.
LEMMA AwaitedInWait == Awaited(program) \in {"SIGCHLD", "SIGUSR1"}
BY DEF Awaited

\* The signal of the child, or of the shell, is handled only where the parent lets
\* it through.
LEMMA WaitStep ==
  ASSUME WaitInv, ChildWaitNext
  PROVE  WaitInv'
<1> USE DEF Step, Compute, Goto, Move, Kill, Block, Fork, Wait, kernel, WaitTasks
<1> DEFINE Kept == SignalOnce' /\ ParentWaited' /\ ShellWaited'
<1>1. WaitTypeOK /\ SignalOnce /\ ParentWaited /\ ShellWaited
  BY DEF WaitInv
<1>2. SUFFICES WaitTypeOK' /\ Kept
  BY DEF WaitInv
<1>3. ASSUME NEW name \in WaitPrograms,
             KillZombie \/ BlockAwaited(name) \/ SuspendParent(name) \/ ResumeParent(name)
               \/ UnblockAwaited(name) \/ ParentExits(name)
      PROVE  WaitTypeOK' /\ Kept
  <2>1. /\ program' = program /\ mem' = mem /\ pending' = pending
        /\ pc' = [pc EXCEPT !["parent"] = pc'["parent"]]
        /\ pc'["child"] = pc["child"] /\ pc'["shell"] = pc["shell"]
        /\ pc'["parent"] \in {"fork", "suspended", "kill", "wait", "exit", "done"}
        /\ \E set \in SUBSET {"SIGCHLD", "SIGUSR1"} : mask' = [mask EXCEPT !["parent"] = set]
    BY <1>1, <1>3, AwaitedInWait DEF KillZombie, BlockAwaited, SuspendParent, ResumeParent,
       UnblockAwaited, ParentExits, WaitTypeOK
  <2>2. WaitTypeOK'
    BY <1>1, <2>1 DEF WaitTypeOK, WaitLabels
  <2>3. ToHandle' = ToHandle /\ (ChildSent' <=> ChildSent) /\ (ShellSent' <=> ShellSent)
    BY <2>1 DEF ToHandle, ChildSent, ShellSent
  <2>4. SignalOnce'
    BY <1>1, <1>3, <2>1, <2>3 DEF WaitTypeOK, SignalOnce, ParentWaited, KillZombie,
       BlockAwaited, SuspendParent, ResumeParent, UnblockAwaited, ParentExits
  <2>5. ParentWaited'
    <3>1. pc'["parent"] = "done" => ToHandle = 0
      BY <1>1, <1>3, <2>1 DEF WaitTypeOK, SignalOnce, ParentWaited, ToHandle, Deliverable,
         ParentExits, KillZombie, BlockAwaited, SuspendParent, ResumeParent, UnblockAwaited,
         ChildSent, ShellSent, WaitPrograms
    <3> QED
      BY <1>1, <1>3, <2>1, <2>3, <3>1 DEF WaitTypeOK, SignalOnce, ParentWaited, KillZombie,
         BlockAwaited, SuspendParent, ResumeParent, UnblockAwaited, ParentExits
  <2>6. ShellWaited'
    <3>1. /\ pc'["parent"] = "await_shell" <=> pc["parent"] = "await_shell"
          /\ pc'["parent"] \in {"unblock", "exit", "done"}
               <=> pc["parent"] \in {"unblock", "exit", "done"}
      BY <1>1, <1>3, <2>1 DEF WaitTypeOK, KillZombie, BlockAwaited, SuspendParent,
         ResumeParent, UnblockAwaited, ParentExits
    <3> QED
      BY <1>1, <2>1, <3>1 DEF ShellWaited
  <2> QED
    BY <2>2, <2>4, <2>5, <2>6
<1>4. ASSUME NEW name \in WaitPrograms, ForkChild(name)
      PROVE  WaitTypeOK' /\ Kept
  <2>1. /\ program' = program /\ program = name /\ mem' = mem /\ pending' = pending
        /\ pc["parent"] = "fork" /\ mask' = [mask EXCEPT !["child"] = mask["parent"]]
        /\ pc'["parent"] = IF name = "27_6" THEN "wait" ELSE "suspend"
        /\ pc'["child"] = CASE name = "rusage_child_wait" -> "kill"
                            [] name = "make_zombie_sync" -> "exit"
                            [] name = "27_6" -> "system"
        /\ pc'["shell"] = pc["shell"]
    BY <1>1, <1>4 DEF ForkChild, WaitTypeOK
  <2>2. WaitTypeOK'
    BY <1>1, <1>4, <2>1 DEF WaitTypeOK, ForkChild, WaitPrograms, WaitLabels
  <2> QED
    BY <1>1, <2>1, <2>2 DEF WaitTypeOK, SignalOnce, ParentWaited, ShellWaited, ChildSent,
       ShellSent, ToHandle, WaitPrograms
<1>5. ASSUME NEW name \in WaitPrograms, RunHandler(name)
      PROVE  WaitTypeOK' /\ Kept
  <2>1. /\ program' = program /\ program = name /\ mask' = mask
        /\ Awaited(program) \in pending["parent"] \ mask["parent"]
        /\ pc'["parent"] = IF pc["parent"] = "suspended" THEN "resume" ELSE pc["parent"]
        /\ pc'["child"] = pc["child"] /\ pc'["shell"] = pc["shell"]
        /\ pc' \in [WaitTasks -> WaitLabels]
        /\ pending' = [pending EXCEPT !["parent"] = @ \ {Awaited(program)}]
        /\ mem' = [mem EXCEPT !.handled = @ + 1]
    BY <1>1, <1>5 DEF RunHandler, Deliverable, WaitTypeOK, WaitLabels
  <2>2. /\ ToHandle = 1 /\ ToHandle' = 0 /\ pending'["parent"] = {}
        /\ (ChildSent' <=> ChildSent) /\ (ShellSent' <=> ShellSent)
    BY <1>1, <2>1 DEF WaitTypeOK, SignalOnce, ToHandle, ChildSent, ShellSent
  <2>3. mem.handled \in {0, 1} /\ mem'.handled = mem.handled + 1
    BY <1>1, <2>1, <2>2 DEF WaitTypeOK, SignalOnce
  <2>4. WaitTypeOK'
    BY <1>1, <2>1, <2>3 DEF WaitTypeOK
  <2>5. SignalOnce'
    BY <1>1, <2>1, <2>2, <2>3 DEF WaitTypeOK, SignalOnce
  <2>6. pc["parent"] \in {"suspended", "exit"}
    <3>1. pc["parent"] \in {"block", "suspended", "resume", "exit", "done"}
      BY <1>1, <2>1 DEF WaitTypeOK, WaitLabels, SignalOnce, ParentWaited
    <3>2. pc["parent"] # "block"
      BY <1>1, <2>2, <2>3 DEF SignalOnce, ParentWaited, ChildSent, ShellSent, ShellWaited,
         WaitPrograms, WaitTypeOK
    <3>3. pc["parent"] # "resume"
      BY <1>1, <2>2, <2>3 DEF SignalOnce, ParentWaited, ShellSent, ShellWaited,
         WaitPrograms, WaitTypeOK
    <3>4. pc["parent"] # "done"
      BY <1>1, <2>2 DEF ParentWaited
    <3> QED
      BY <3>1, <3>2, <3>3, <3>4
  <2>7. ParentWaited'
    <3>1. program = "make_zombie_sync" /\ pc["parent"] = "suspended" => ~ShellSent
      BY <1>1 DEF ShellSent, ShellWaited
    <3>2. program = "make_zombie_sync" /\ pc["parent"] = "suspended" => mem.handled = 0
      BY <1>1, <2>2, <2>3, <3>1 DEF SignalOnce
    <3> QED
      BY <1>1, <2>1, <2>2, <2>3, <2>6, <3>2 DEF ParentWaited
  <2>8. ShellWaited'
    BY <1>1, <2>1, <2>6 DEF ShellWaited
  <2> QED
    BY <2>4, <2>5, <2>7, <2>8
<1>6. ASSUME NEW name \in WaitPrograms, ReapChild(name)
      PROVE  WaitTypeOK' /\ Kept
  <2>1. /\ program' = program /\ program = name /\ mem' = mem /\ pending' = pending
        /\ mask' = mask /\ pc["parent"] = "wait" /\ pc["child"] = "zombie"
        /\ pc'["parent"] = CASE name = "rusage_child_wait" -> "exit"
                             [] name = "make_zombie_sync" -> "system"
                             [] name = "27_6" -> "unblock"
        /\ pc'["child"] = "done" /\ pc'["shell"] = pc["shell"]
    BY <1>1, <1>6 DEF ReapChild, WaitTypeOK
  <2>2. WaitTypeOK'
    <3>1. pc'["parent"] \in WaitLabels /\ pc' = [pc EXCEPT !["parent"] = pc'["parent"],
                                                          !["child"] = "done"]
      BY <1>1, <1>6, <2>1 DEF ReapChild, WaitTypeOK, WaitPrograms, WaitLabels
    <3> QED
      BY <1>1, <2>1, <3>1 DEF WaitTypeOK, WaitLabels
  <2> QED
    BY <1>1, <2>1, <2>2 DEF WaitTypeOK, SignalOnce, ParentWaited, ShellWaited, ChildSent,
       ShellSent, ToHandle, WaitPrograms
<1>7. ASSUME AwaitedChild
      PROVE  WaitTypeOK' /\ Kept
  <2>1. /\ program' = program /\ mem' = mem /\ mask' = mask
        /\ pc'["parent"] = pc["parent"] /\ pc' = [pc EXCEPT !["child"] = pc'["child"]]
        /\ pc'["shell"] = pc["shell"]
        /\ \/ /\ pc["child"] = "exit" /\ pc'["child"] = "zombie" /\ pending' = pending
              /\ program = "rusage_child_wait"
           \/ /\ pc["child"] = "exit" /\ pc'["child"] = "zombie"
              /\ program # "rusage_child_wait"
              /\ pending' = [pending EXCEPT !["parent"] = @ \cup {Awaited(program)}]
           \/ /\ pc["child"] = "kill" /\ pc'["child"] = "exit"
              /\ program = "rusage_child_wait"
              /\ pending' = [pending EXCEPT !["parent"] = @ \cup {Awaited(program)}]
    BY <1>1, <1>7 DEF AwaitedChild, ChildKills, ChildExits, Awaited, WaitTypeOK
  <2>2. WaitTypeOK'
    BY <1>1, <2>1, AwaitedInWait DEF WaitTypeOK, WaitLabels
  <2> QED
    BY <1>1, <2>1, <2>2 DEF WaitTypeOK, SignalOnce, ParentWaited, ShellWaited, ChildSent,
       ShellSent, ToHandle, WaitPrograms
<1>8. ASSUME NEW name \in WaitPrograms, ForkShell(name)
      PROVE  WaitTypeOK' /\ Kept
  <2>1. /\ program' = program /\ program = name /\ mem' = mem /\ pending' = pending
        /\ name \in {"make_zombie_sync", "27_6"}
        /\ pc[Sheller(name)] = "system" /\ pc'["shell"] = "exit"
        /\ pc' = [pc EXCEPT ![Sheller(name)] = "await_shell", !["shell"] = "exit"]
        /\ mask' = [mask EXCEPT !["shell"] = mask[Sheller(name)]]
    BY <1>1, <1>8 DEF ForkShell, Sheller, WaitTypeOK, WaitPrograms
  <2>2. WaitTypeOK'
    BY <1>1, <2>1 DEF WaitTypeOK, Sheller, WaitLabels
  <2>3. /\ name = "27_6" => pc'["parent"] = pc["parent"] /\ pc'["child"] = "await_shell"
        /\ name # "27_6" => pc'["child"] = pc["child"] /\ pc'["parent"] = "await_shell"
    BY <1>1, <2>1 DEF WaitTypeOK, Sheller
  <2> QED
    BY <1>1, <2>1, <2>2, <2>3 DEF WaitTypeOK, SignalOnce, ParentWaited, ShellWaited,
       ChildSent, ShellSent, ToHandle, WaitPrograms, Sheller
<1>9. ASSUME NEW name \in WaitPrograms, ShellExits(name)
      PROVE  WaitTypeOK' /\ Kept
  <2>1. /\ program' = program /\ program = name /\ mem' = mem /\ mask' = mask
        /\ pc["shell"] = "exit" /\ pc' = [pc EXCEPT !["shell"] = "zombie"]
        /\ pending' = [pending EXCEPT ![Sheller(name)] = @ \cup {"SIGCHLD"}]
        /\ pc'["parent"] = pc["parent"] /\ pc'["child"] = pc["child"]
        /\ pc'["shell"] = "zombie"
    BY <1>1, <1>9 DEF ShellExits, WaitTypeOK
  <2>2. WaitTypeOK'
    BY <1>1, <2>1 DEF WaitTypeOK, Sheller, WaitLabels
  <2>3. CASE program = "27_6"
    <3>1. pending'["parent"] = pending["parent"]
      BY <1>1, <2>1, <2>3 DEF WaitTypeOK, Sheller
    <3> QED
      BY <1>1, <2>1, <2>2, <2>3, <3>1 DEF WaitTypeOK, SignalOnce, ParentWaited, ShellWaited,
         ChildSent, ShellSent, ToHandle
  <2>4. CASE program = "make_zombie_sync"
    <3>1. pc["parent"] = "await_shell" /\ ~ShellSent /\ ShellSent' /\ ChildSent /\ ChildSent'
      BY <1>1, <2>1, <2>4 DEF ShellWaited, ParentWaited, ShellSent, ChildSent
    <3>2. /\ pending'["parent"] = pending["parent"] \cup {"SIGCHLD"}
          /\ Awaited(program) = "SIGCHLD"
      BY <1>1, <2>1, <2>4 DEF WaitTypeOK, Sheller, Awaited
    <3>3. mem.handled = 1 /\ ToHandle = 0
      BY <1>1, <2>4, <3>1 DEF WaitTypeOK, SignalOnce, ParentWaited, ToHandle
    <3>4. ToHandle' = 1
      BY <2>1, <3>2 DEF ToHandle
    <3>5. SignalOnce'
      BY <1>1, <2>1, <2>4, <3>1, <3>2, <3>3, <3>4 DEF SignalOnce
    <3> QED
      BY <1>1, <2>1, <2>2, <2>4, <3>1, <3>5 DEF ParentWaited, ShellWaited
  <2> QED
    BY <1>1, <2>1, <2>2, <2>3, <2>4 DEF ShellWaited, WaitTypeOK, WaitPrograms
<1>10. ASSUME NEW name \in WaitPrograms, ReapShell(name)
      PROVE  WaitTypeOK' /\ Kept
  <2>1. /\ program' = program /\ program = name /\ mem' = mem /\ mask' = mask
        /\ pending' = pending /\ pc[Sheller(name)] = "await_shell" /\ pc["shell"] = "zombie"
        /\ pc' = [pc EXCEPT ![Sheller(name)] = IF name = "27_6" THEN "exit" ELSE "unblock",
                           !["shell"] = "done"]
    BY <1>1, <1>10 DEF ReapShell, WaitTypeOK
  <2>2. WaitTypeOK'
    BY <1>1, <2>1 DEF WaitTypeOK, Sheller, WaitLabels
  <2>3. /\ name = "27_6" => pc'["parent"] = pc["parent"] /\ pc'["child"] = "exit"
        /\ name # "27_6" => pc'["child"] = pc["child"] /\ pc'["parent"] = "unblock"
        /\ pc'["shell"] = "done"
    BY <1>1, <2>1 DEF WaitTypeOK, Sheller
  <2> QED
    BY <1>1, <2>1, <2>2, <2>3 DEF WaitTypeOK, SignalOnce, ParentWaited, ShellWaited,
       ChildSent, ShellSent, ToHandle, WaitPrograms, Sheller
<1> QED
  BY <1>3, <1>4, <1>5, <1>6, <1>7, <1>8, <1>9, <1>10
  DEF ChildWaitNext, WaitingParent, Shell, WaitPrograms

-----------------------------------------------------------------------------
\* orphan_read.c, orphans_sig_trickies.c and new_parent_init.c

AllOrphans == OrphanPrograms \cup {"new_parent_init"}
OrphanTasks == {"parent", "child"}

OrphanTypeOK ==
  /\ program \in AllOrphans
  /\ pc \in [OrphanTasks -> {"fork", "exit", "pause", "new", "kill", "spin", "read", "raise",
                          "sleep", "stopped", "done"}]
  /\ mem \in [subreaper : BOOLEAN, handlers : BOOLEAN, raised : SUBSET StopSignals,
              handled : SUBSET StopSignals, error : BOOLEAN]
  /\ pending \in [OrphanTasks -> SUBSET {"SIGTERM"}]

\* A child past its wait has no parent, and its handlers miss no signal.
OrphanKnows ==
  /\ pc["parent"] = "fork" => pc["child"] = "new"
  /\ pc["child"] \in {"read", "raise"} => ParentGone
  /\ pc["child"] = "read" => program = "orphan_read"
  /\ pc["child"] # "stopped"
  /\ mem.handled = IF mem.handlers THEN mem.raised ELSE {}
  /\ pc["child"] \in {"kill", "sleep"} => program = "new_parent_init"
  /\ pc["child"] = "sleep" => "SIGTERM" \in pending["parent"]
  /\ pc["child"] = "done" =>
       CASE program = "orphan_read" -> mem.error
         [] program = "orphans_sig_trickies" -> mem.handled = StopSignals
         [] OTHER -> ParentGone \/ "SIGTERM" \in pending["parent"]

OrphanInv == OrphanTypeOK /\ OrphanKnows

\* No child was forked.
LEMMA OrphanBegins == OrphansInit => OrphanInv
<1> SUFFICES ASSUME NEW name \in AllOrphans, NEW subreaper \in BOOLEAN,
                    Begin(name, [parent |-> "fork", child |-> "new"],
                          [subreaper |-> subreaper, handlers |-> FALSE, raised |-> {},
                           handled |-> {}, error |-> FALSE], <<>>)
             PROVE  OrphanInv
  BY DEF OrphansInit, AllOrphans
<1>1. DOMAIN [parent |-> "fork", child |-> "new"] = OrphanTasks
  BY DEF OrphanTasks
<1>2. /\ program \in AllOrphans /\ pc = [parent |-> "fork", child |-> "new"]
      /\ mem = [subreaper |-> subreaper, handlers |-> FALSE, raised |-> {},
                handled |-> {}, error |-> FALSE]
      /\ pending = [p \in OrphanTasks |-> {}]
  BY <1>1 DEF Begin
<1>3. OrphanTypeOK
  BY <1>2 DEF OrphanTypeOK, OrphanTasks
<1> QED
  BY <1>2, <1>3 DEF OrphanInv, OrphanKnows, OrphanTasks

\* The child does nothing before its parent has exited.
LEMMA OrphanStep ==
  ASSUME OrphanInv, OrphansNext
  PROVE  OrphanInv'
<1> USE DEF Step, Compute, Goto, Move, Kill, Fork, kernel, OrphanTasks, ParentGone
<1>1. OrphanTypeOK /\ OrphanKnows
  BY DEF OrphanInv
<1>2. SUFFICES OrphanTypeOK' /\ OrphanKnows'
  BY DEF OrphanInv
<1>3. ASSUME OrphanParent  PROVE OrphanTypeOK' /\ OrphanKnows'
  <2>1. /\ program' = program /\ mem' = mem /\ pending' = pending
        /\ \/ /\ pc["parent"] \in {"exit", "pause"} /\ pc' = [pc EXCEPT !["parent"] = "done"]
           \/ /\ pc["parent"] = "fork" /\ pc'["parent"] \in {"pause", "exit"}
              /\ pc'["child"] = IF program = "new_parent_init" THEN "kill" ELSE "spin"
              /\ pc' = [pc EXCEPT !["parent"] = pc'["parent"], !["child"] = pc'["child"]]
    BY <1>1, <1>3 DEF OrphanParent, DieOfSigterm, ExitParent, ForkOrphan, OrphanTypeOK
  <2>2. OrphanTypeOK'
    BY <1>1, <2>1 DEF OrphanTypeOK
  <2>3. OrphanKnows'
    BY <1>1, <2>1 DEF OrphanTypeOK, OrphanKnows
  <2> QED
    BY <2>2, <2>3
<1>4. ASSUME NEW name \in OrphanPrograms, LeaveWait(name)
      PROVE  OrphanTypeOK' /\ OrphanKnows'
  BY <1>1, <1>4 DEF LeaveWait, Adopted, OrphanTypeOK, OrphanKnows, OrphanPrograms
<1>5. ASSUME ReadTerminal  PROVE OrphanTypeOK' /\ OrphanKnows'
  <2>1. /\ program' = program /\ program = "orphan_read" /\ pc["child"] = "read" /\ pending' = pending
        /\ pc' = [pc EXCEPT !["child"] = "done"] /\ mem' = [mem EXCEPT !.error = TRUE]
    BY <1>1, <1>5 DEF ReadTerminal, OrphanKnows
  <2> QED
    BY <1>1, <2>1 DEF OrphanTypeOK, OrphanKnows
<1>6. ASSUME RaiseStopSignal  PROVE OrphanTypeOK' /\ OrphanKnows'
  <2>1. PICK s \in StopSignals :
          /\ program' = program /\ pc["child"] = "raise" /\ pending' = pending
          /\ pc' = [pc EXCEPT !["child"] = "raise"]
          /\ mem' = [mem EXCEPT !.raised = @ \cup {s},
                               !.handled = IF mem.handlers THEN @ \cup {s} ELSE @]
    BY <1>1, <1>6 DEF RaiseStopSignal, OrphanKnows
  <2> QED
    BY <1>1, <2>1 DEF OrphanTypeOK, OrphanKnows
<1>7. ASSUME StopSignalsRaised  PROVE OrphanTypeOK' /\ OrphanKnows'
  <2>1. CASE mem.handlers
    BY <1>1, <1>7, <2>1 DEF StopSignalsRaised, OrphanTypeOK, OrphanKnows
  <2>2. CASE ~mem.handlers
    <3>1. /\ program' = program /\ pc' = [pc EXCEPT !["child"] = "raise"] /\ pc["child"] = "raise"
          /\ pending' = pending /\ mem' = [mem EXCEPT !.handlers = TRUE, !.raised = {}]
      BY <1>7, <2>2 DEF StopSignalsRaised
    <3> QED
      BY <1>1, <2>2, <3>1 DEF OrphanTypeOK, OrphanKnows
  <2> QED
    BY <2>1, <2>2
<1>8. ASSUME KillParent  PROVE OrphanTypeOK' /\ OrphanKnows'
  BY <1>1, <1>8 DEF KillParent, OrphanTypeOK, OrphanKnows
<1>9. ASSUME TellParentKilled  PROVE OrphanTypeOK' /\ OrphanKnows'
  BY <1>1, <1>9 DEF TellParentKilled, OrphanTypeOK, OrphanKnows
<1> QED
  BY <1>3, <1>4, <1>5, <1>6, <1>7, <1>8, <1>9 DEF OrphansNext, OrphanChild

(***************************************************************************)
(* No process acts before the signal it waits for says that the other is   *)
(* ready: the parent of chg_pgid_for_diff_descendants.c never prints "This *)
(* is impossible", SIGKILL of make_zombie_sync.c meets a zombie and its    *)
(* handler runs once before and once after the shell it calls, the handler *)
(* of 27_6.c runs after the wait and once, and no orphan is stopped.       *)
(***************************************************************************)
THEOREM SignalsInTime == Spec => []SignalsAwaited
<1> DEFINE IInv == /\ program = "chg_pgid" => ChgInv
                   /\ program \in WaitPrograms => WaitInv
                   /\ program \in AllOrphans => OrphanInv
<1>1. Init => IInv
  BY OneBegins, ChgBegins, WaitBegins, OrphanBegins DEF AllOrphans
<1>2. IInv /\ [Next]_vars => IInv'
  <2> SUFFICES ASSUME IInv, [Next]_vars PROVE IInv'
    OBVIOUS
  <2>1. CASE UNCHANGED vars
    <3>1. program' = program /\ pc' = pc /\ mem' = mem /\ mask' = mask /\ pending' = pending
      BY <2>1 DEF vars
    <3>2. ChgInv => ChgInv'
      BY <3>1 DEF ChgInv, ChgTypeOK, ChildrenSent, ParentHandled, Sent2
    <3>3. WaitInv => WaitInv'
      BY <3>1 DEF WaitInv, WaitTypeOK, SignalOnce, ParentWaited, ShellWaited, ChildSent,
         ShellSent, ToHandle
    <3>4. OrphanInv => OrphanInv'
      BY <3>1 DEF OrphanInv, OrphanTypeOK, OrphanKnows, ParentGone
    <3> QED
      BY <3>1, <3>2, <3>3, <3>4
  <2>2. CASE ~UNCHANGED vars
    <3>1. program' = program
      BY OneProgram
    <3>2. program = "chg_pgid" => ChgInv'
      BY <2>2, OneProgram, ChgStep
    <3>3. program \in WaitPrograms => WaitInv'
      BY <2>2, OneProgram, WaitStep
    <3>4. program \in AllOrphans => OrphanInv'
      BY <2>2, OneProgram, OrphanStep DEF AllOrphans
    <3> QED
      BY <3>1, <3>2, <3>3, <3>4
  <2> QED
    BY <2>1, <2>2
<1>3. IInv => SignalsAwaited
  <2>1. IInv => GroupsChangedInTime
    BY DEF ChgInv, ChgTypeOK, ChildrenSent, ParentHandled, Sent2, GroupsChangedInTime, UserSignals
  <2>2. IInv => ChildSignalKept
    <3> SUFFICES ASSUME WaitInv, program \in WaitPrograms
                 PROVE  ChildSignalKept
      BY DEF ChildSignalKept
    <3>1. WaitTypeOK /\ SignalOnce /\ ParentWaited /\ ShellWaited
      BY DEF WaitInv
    <3>2. mem.handled \in 0 .. 2
      BY <3>1 DEF WaitTypeOK
    <3>3. program = "make_zombie_sync" /\ pc["parent"] \in {"kill", "wait"}
            => pc["child"] = "zombie"
      BY <3>1, <3>2 DEF SignalOnce, ParentWaited, ShellWaited, ChildSent, ShellSent, ToHandle
    <3>4. pc["parent"] = "done"
            => mem.handled = IF program = "make_zombie_sync" THEN 2 ELSE 1
      <4>1. pc["parent"] = "done" => ToHandle = 0 /\ ChildSent
        BY <3>1 DEF ParentWaited, ChildSent
      <4>2. pc["parent"] = "done" => (ShellSent <=> program = "make_zombie_sync")
        BY <3>1 DEF ShellWaited, ShellSent
      <4> QED
        BY <3>1, <3>2, <4>1, <4>2 DEF SignalOnce
    <3> QED
      BY <3>1, <3>2, <3>3, <3>4 DEF ParentWaited, ChildSignalKept
  <2>3. IInv => OrphansUnstopped
    BY DEF OrphanInv, OrphanKnows, OrphansUnstopped, AllOrphans
  <2> QED
    BY <2>1, <2>2, <2>3 DEF SignalsAwaited
<1> QED
  BY <1>1, <1>2, <1>3, PTL DEF Spec

-----------------------------------------------------------------------------
\* sig_receiver.c

ReceiverTypeOK ==
  /\ program = "sig_receiver"
  /\ pc \in [{"receiver"} -> {"sigint", "sigusr1", "block", "sleep", "spin", "killed", "done"}]
  /\ mem \in [sent : [Caught -> Nat], sigCnt : [Caught -> Nat], gotSigint : BOOLEAN,
              resethand : BOOLEAN, installed : SUBSET Caught, reset : SUBSET Caught,
              atSleep : Nat]
  /\ mask \in [{"receiver"} -> SUBSET Caught]
  /\ pending \in [{"receiver"} -> SUBSET Caught]

Merged == IF "SIGUSR1" \in pending["receiver"] THEN 1 ELSE 0

\* What is counted or pending was sent, and what was sent is counted or pending.
ReceiverCounts ==
  /\ mem.sigCnt["SIGUSR1"] + Merged <= mem.sent["SIGUSR1"]
  /\ mem.sent["SIGUSR1"] > 0 /\ pc["receiver"] # "killed" =>
       mem.sigCnt["SIGUSR1"] > 0 \/ "SIGUSR1" \in pending["receiver"]
  /\ pc["receiver"] = "sleep" =>
       mask["receiver"] = Caught /\ mem.sigCnt["SIGUSR1"] = mem.atSleep

\* A signal that is pending was sent, and once more if its handler was reset.
SentFor(s) ==
  /\ s \in pending["receiver"] => mem.sent[s] > 0
  /\ s \in mem.reset =>
       /\ mem.resethand /\ mem.sent[s] > 0
       /\ s \in pending["receiver"] => mem.sent[s] > 1

KilledBy(s) ==
  \/ s \notin mem.installed /\ mem.sent[s] > 0
  \/ mem.resethand /\ mem.sent[s] > 1

ReceiverInv ==
  /\ ReceiverTypeOK
  /\ ReceiverCounts
  /\ \A s \in Caught : SentFor(s)
  /\ pc["receiver"] = "killed" => \E s \in Caught : KilledBy(s)

\* Nothing was sent.
LEMMA ReceiverBegins == SigReceiverInit => ReceiverInv
<1> DEFINE variables(b) ==
             [sent |-> [s \in Caught |-> 0], sigCnt |-> [s \in Caught |-> 0],
              gotSigint |-> FALSE, resethand |-> b, installed |-> {},
              reset |-> {}, atSleep |-> 0]
<1> SUFFICES ASSUME NEW b \in BOOLEAN,
                    Begin("sig_receiver", [receiver |-> "sigint"], variables(b), <<>>)
             PROVE  ReceiverInv
  BY DEF SigReceiverInit
<1>1. DOMAIN [receiver |-> "sigint"] = {"receiver"}
  OBVIOUS
<1>2. /\ program = "sig_receiver" /\ pc = [receiver |-> "sigint"]
      /\ mem = variables(b)
      /\ mask = [p \in {"receiver"} |-> {}] /\ pending = [p \in {"receiver"} |-> {}]
  BY <1>1 DEF Begin
<1>3. ReceiverTypeOK
  BY <1>2 DEF ReceiverTypeOK
<1> QED
  BY <1>2, <1>3 DEF ReceiverInv, ReceiverCounts, SentFor, Merged, Caught

\* A signal that is sent is pending, and one that is delivered is counted or kills.
LEMMA ReceiverStep ==
  ASSUME ReceiverInv, SigReceiverNext
  PROVE  ReceiverInv'
<1> USE DEF Step, Compute, Goto, Move, Block, kernel
<1>1. ReceiverTypeOK /\ ReceiverCounts /\ \A s \in Caught : SentFor(s)
  BY DEF ReceiverInv
<1>2. ASSUME InstallHandlers \/ FillMask \/ EmptyMask \/ LeaveSpin  PROVE ReceiverInv'
  <2>1. /\ mem'.sent = mem.sent /\ mem'.sigCnt = mem.sigCnt /\ mem'.reset = mem.reset
        /\ mem'.resethand = mem.resethand /\ pending' = pending
        /\ pc["receiver"] # "killed" /\ pc'["receiver"] # "killed"
        /\ pc'["receiver"] = "sleep" =>
             mask'["receiver"] = Caught /\ mem'.sigCnt["SIGUSR1"] = mem'.atSleep
    BY <1>1, <1>2 DEF InstallHandlers, FillMask, EmptyMask, LeaveSpin, ReceiverTypeOK
  <2>2. ReceiverTypeOK'
    <3>1. CASE InstallHandlers
      BY <1>1, <3>1 DEF InstallHandlers, ReceiverTypeOK, Caught
    <3>2. CASE FillMask
      BY <1>1, <3>2 DEF FillMask, ReceiverTypeOK, Caught
    <3>3. CASE EmptyMask \/ LeaveSpin
      BY <1>1, <3>3 DEF EmptyMask, LeaveSpin, ReceiverTypeOK
    <3> QED
      BY <1>2, <3>1, <3>2, <3>3
  <2>3. ReceiverCounts'
    BY <1>1, <2>1 DEF ReceiverCounts, Merged
  <2>4. \A s \in Caught : SentFor(s)'
    BY <1>1, <2>1 DEF SentFor
  <2> QED
    BY <2>1, <2>2, <2>3, <2>4 DEF ReceiverInv
<1>3. ASSUME Deliver  PROVE ReceiverInv'
  <2>1. PICK s \in Caught :
          /\ program' = program /\ s \in pending["receiver"] \ mask["receiver"] /\ mask' = mask
          /\ pc["receiver"] \notin {"done", "killed"}
          /\ pending' = [pending EXCEPT !["receiver"] = @ \ {s}]
          /\ pc' = [pc EXCEPT !["receiver"] = IF DefaultAction(s) THEN "killed" ELSE @]
          /\ mem' =
               IF DefaultAction(s) THEN mem
               ELSE [mem EXCEPT !.reset = IF mem.resethand THEN @ \cup {s} ELSE @,
                                !.gotSigint = @ \/ s = "SIGINT",
                                !.sigCnt[s] = IF s = "SIGINT" THEN @ ELSE @ + 1]
    BY <1>3 DEF Deliver, Deliverable
  <2>2. pending'["receiver"] = pending["receiver"] \ {s} /\ s \in {"SIGINT", "SIGUSR1"}
    BY <1>1, <2>1 DEF ReceiverTypeOK, Caught
  <2>3. CASE DefaultAction(s)
    <3>1. mem' = mem /\ pc'["receiver"] = "killed" /\ ReceiverTypeOK'
      BY <1>1, <2>1, <2>3 DEF ReceiverTypeOK
    <3>2. KilledBy(s)'
      BY <1>1, <2>1, <2>3, <3>1 DEF KilledBy, SentFor, DefaultAction
    <3>3. \A u \in Caught : SentFor(u)'
      BY <1>1, <2>2, <3>1 DEF SentFor
    <3>4. ReceiverCounts'
      <4>1. Merged' <= Merged /\ Merged \in {0, 1} /\ Merged' \in {0, 1}
        BY <2>2 DEF Merged
      <4>2. mem.sigCnt["SIGUSR1"] \in Nat /\ mem.sent["SIGUSR1"] \in Nat
        BY <1>1 DEF ReceiverTypeOK, Caught
      <4> QED
        BY <1>1, <3>1, <4>1, <4>2 DEF ReceiverCounts
    <3> QED
      BY <3>1, <3>2, <3>3, <3>4 DEF ReceiverInv
  <2>4. CASE ~DefaultAction(s)
    <3>0. mem' = [mem EXCEPT !.reset = IF mem.resethand THEN @ \cup {s} ELSE @,
                              !.gotSigint = @ \/ s = "SIGINT",
                              !.sigCnt[s] = IF s = "SIGINT" THEN @ ELSE @ + 1]
      BY <2>1, <2>4
    <3>1. /\ mem'.sent = mem.sent /\ mem'.resethand = mem.resethand
          /\ mem'.atSleep = mem.atSleep /\ mem.sigCnt["SIGUSR1"] \in Nat
          /\ mem'.reset = IF mem.resethand THEN mem.reset \cup {s} ELSE mem.reset
          /\ mem'.sigCnt["SIGUSR1"] =
               IF s = "SIGUSR1" THEN mem.sigCnt["SIGUSR1"] + 1 ELSE mem.sigCnt["SIGUSR1"]
      <4>1. /\ mem.sigCnt \in [Caught -> Nat] /\ "SIGUSR1" \in Caught
            /\ mem \in [sent : [Caught -> Nat], sigCnt : [Caught -> Nat], gotSigint : BOOLEAN,
                        resethand : BOOLEAN, installed : SUBSET Caught, reset : SUBSET Caught,
                        atSleep : Nat]
        BY <1>1 DEF ReceiverTypeOK, Caught
      <4>2. /\ mem'.sent = mem.sent /\ mem'.resethand = mem.resethand
            /\ mem'.atSleep = mem.atSleep
            /\ mem'.reset = IF mem.resethand THEN mem.reset \cup {s} ELSE mem.reset
            /\ mem'.sigCnt = [mem.sigCnt EXCEPT ![s] = IF s = "SIGINT" THEN @ ELSE @ + 1]
        BY <3>0, <4>1
      <4> QED
        BY <2>2, <4>1, <4>2
    <3>2. pc' = pc
      BY <1>1, <2>1, <2>4 DEF ReceiverTypeOK
    <3>3. ReceiverTypeOK'
      <4>1. [mem.sigCnt EXCEPT ![s] = IF s = "SIGINT" THEN @ ELSE @ + 1] \in [Caught -> Nat]
        BY <1>1 DEF ReceiverTypeOK
      <4>2. (mem.gotSigint \/ s = "SIGINT") \in BOOLEAN
        OBVIOUS
      <4>3. mem' \in [sent : [Caught -> Nat], sigCnt : [Caught -> Nat], gotSigint : BOOLEAN,
                      resethand : BOOLEAN, installed : SUBSET Caught, reset : SUBSET Caught,
                      atSleep : Nat]
        BY <1>1, <3>0, <4>1, <4>2 DEF ReceiverTypeOK
      <4> QED
        BY <1>1, <2>1, <3>2, <4>3 DEF ReceiverTypeOK
    <3>4. pc["receiver"] # "sleep"
      BY <1>1, <2>1 DEF ReceiverCounts
    <3>5. Merged' = (IF s = "SIGUSR1" THEN 0 ELSE Merged) /\ (s = "SIGUSR1" => Merged = 1)
      BY <2>1, <2>2 DEF Merged
    <3>6. "SIGUSR1" \in pending'["receiver"] <=> "SIGUSR1" \in pending["receiver"] /\ s # "SIGUSR1"
      BY <2>2
    <3>7. mem.sent["SIGUSR1"] \in Nat /\ Merged \in {0, 1}
      BY <1>1 DEF ReceiverTypeOK, Caught, Merged
    <3>8. ReceiverCounts'
      BY <1>1, <3>1, <3>2, <3>4, <3>5, <3>6, <3>7 DEF ReceiverCounts
    <3>9. \A u \in Caught : SentFor(u)'
      BY <1>1, <2>1, <2>2, <3>1 DEF SentFor, ReceiverTypeOK
    <3> QED
      BY <2>1, <3>2, <3>3, <3>8, <3>9 DEF ReceiverInv
  <2> QED
    BY <2>3, <2>4
<1>4. ASSUME SendSignal  PROVE ReceiverInv'
  <2>1. PICK s \in Caught :
          /\ program' = program /\ pc' = pc /\ mask' = mask
          /\ pc["receiver"] \notin {"done", "killed"}
          /\ pending' = [pending EXCEPT !["receiver"] = @ \cup {s}]
          /\ mem' = [mem EXCEPT !.sent[s] = @ + 1]
    BY <1>4 DEF SendSignal
  <2>2. /\ pending'["receiver"] = pending["receiver"] \cup {s} /\ s \in {"SIGINT", "SIGUSR1"}
        /\ mem'.sigCnt = mem.sigCnt /\ mem'.resethand = mem.resethand
        /\ mem'.atSleep = mem.atSleep /\ mem'.reset = mem.reset
        /\ \A u \in Caught :
             /\ mem.sent[u] \in Nat
             /\ mem'.sent[u] = IF u = s THEN mem.sent[u] + 1 ELSE mem.sent[u]
        /\ mem.sigCnt["SIGUSR1"] \in Nat
    BY <1>1, <2>1 DEF ReceiverTypeOK, Caught
  <2>3. ReceiverTypeOK'
    BY <1>1, <2>1 DEF ReceiverTypeOK
  <2>4. Merged' = IF s = "SIGUSR1" THEN 1 ELSE Merged
    BY <2>1, <2>2 DEF Merged
  <2>5. Merged \in {0, 1} /\ "SIGUSR1" \in Caught
    BY DEF Merged, Caught
  <2>6. ReceiverCounts'
    BY <1>1, <2>1, <2>2, <2>4, <2>5 DEF ReceiverCounts
  <2>7. ASSUME NEW u \in Caught PROVE SentFor(u)'
    <3>1. /\ SentFor(u) /\ mem.sent[u] \in Nat
          /\ mem'.sent[u] = IF u = s THEN mem.sent[u] + 1 ELSE mem.sent[u]
      BY <1>1, <2>2
    <3>2. u \in pending'["receiver"] <=> u = s \/ u \in pending["receiver"]
      BY <2>2
    <3> QED
      BY <2>2, <3>1, <3>2 DEF SentFor
  <2> QED
    BY <2>1, <2>3, <2>6, <2>7 DEF ReceiverInv
<1> QED
  BY <1>2, <1>3, <1>4 DEF SigReceiverNext, Receiver

-----------------------------------------------------------------------------
\* siginterrupt.c and SIGCONT_is_weird.c

\* A read that waits is one that restarts; who dies of SIGINT has not come so far.
InterruptInv ==
  /\ program = "siginterrupt"
  /\ pc \in [{"reader"} -> {"sigaction", "siginterrupt", "read", "done", "killed"}]
  /\ mem \in [sent : Nat, restart : BOOLEAN, interrupts : Nat, eintr : BOOLEAN]
  /\ pc["reader"] \in {"read", "done"} => mem.restart
  /\ pc["reader"] \in {"sigaction", "siginterrupt", "killed"} =>
       mem.interrupts = 0 /\ ~mem.restart
  /\ ~mem.eintr

\* Nothing was pressed.
LEMMA InterruptBegins == SiginterruptInit => InterruptInv
BY DEF SiginterruptInit, Begin, InterruptInv

\* A read that waits is restarted.
LEMMA InterruptStep ==
  ASSUME InterruptInv, SiginterruptNext
  PROVE  InterruptInv'
<1> USE DEF Step, Compute, Goto, Move, kernel
<1>1. CASE InstallInterrupt \/ EndLine \/ DieOfInterrupt
  BY <1>1 DEF InterruptInv, InstallInterrupt, EndLine, DieOfInterrupt
<1>2. CASE SetRestart
  BY <1>2 DEF InterruptInv, SetRestart
<1>3. CASE PressInterrupt
  BY <1>3 DEF InterruptInv, PressInterrupt
<1>4. CASE HandleInterrupt
  <2>1. /\ program' = program /\ pc' = pc /\ pc["reader"] \in {"siginterrupt", "read"}
        /\ mem' = [mem EXCEPT !.eintr = FALSE,
                              !.interrupts = IF pc["reader"] = "read" THEN @ + 1 ELSE @]
    BY <1>4 DEF HandleInterrupt, InterruptInv
  <2>2. CASE pc["reader"] = "read"
    <3>1. mem' = [mem EXCEPT !.eintr = FALSE, !.interrupts = @ + 1]
      BY <2>1, <2>2
    <3>2. mem \in [sent : Nat, restart : BOOLEAN, interrupts : Nat, eintr : BOOLEAN]
      BY DEF InterruptInv
    <3> DEFINE n == mem.interrupts + 1
    <3>6. n \in Nat
      BY <3>2
    <3>7. mem' = [mem EXCEPT !.eintr = FALSE, !.interrupts = n]
      BY <3>1
    <3> HIDE DEF n
    <3>3. mem' \in [sent : Nat, restart : BOOLEAN, interrupts : Nat, eintr : BOOLEAN]
      BY <3>2, <3>6, <3>7
    <3>4. (mem'.restart <=> mem.restart) /\ ~mem'.eintr
      BY <3>2, <3>6, <3>7
    <3> QED
      BY <2>1, <2>2, <3>3, <3>4 DEF InterruptInv
  <2>3. CASE pc["reader"] # "read"
    <3>1. mem' = [mem EXCEPT !.eintr = FALSE]
      BY <2>1, <2>3 DEF InterruptInv
    <3> QED
      BY <2>1, <2>3, <3>1 DEF InterruptInv
  <2> QED
    BY <2>2, <2>3
<1> QED
  BY <1>1, <1>2, <1>3, <1>4 DEF SiginterruptNext, Reader

\* SIGCONT is blocked from the first call to the last.
ContInv ==
  /\ program = "SIGCONT_is_weird"
  /\ pc \in [{"stopper"} -> {"block", "sigaction", "stop", "stopped", "resumed", "unblock",
                              "exit", "done"}]
  /\ mem \in [sent : Nat, handled : Nat]
  /\ mask \in [{"stopper"} -> SUBSET {"SIGCONT"}]
  /\ pending \in [{"stopper"} -> SUBSET {"SIGCONT"}]
  /\ pc["stopper"] = "block" => pending["stopper"] = {}
  /\ pc["stopper"] \in {"sigaction", "stop", "stopped", "resumed", "unblock"}
       => mask["stopper"] = {"SIGCONT"}
  /\ pc["stopper"] \notin {"exit", "done"} => mem.handled = 0
  /\ pc["stopper"] = "exit" => mask["stopper"] = {}
  /\ pc["stopper"] \in {"resumed", "unblock"} => "SIGCONT" \in pending["stopper"]
  /\ pc["stopper"] = "exit" => "SIGCONT" \in pending["stopper"] \/ mem.handled > 0
  /\ pc["stopper"] = "done" => mem.handled > 0

\* SIGCONT is not yet blocked, and not pending.
LEMMA ContBegins == SigContInit => ContInv
<1> SUFFICES ASSUME SigContInit PROVE ContInv
  OBVIOUS
<1>1. DOMAIN [stopper |-> "block"] = {"stopper"}
  OBVIOUS
<1> QED
  BY <1>1 DEF SigContInit, Begin, ContInv

\* What wakes the process leaves SIGCONT pending.
LEMMA ContStep ==
  ASSUME ContInv, SigContNext
  PROVE  ContInv'
<1> USE DEF Step, Compute, Goto, Move, Block, kernel
<1>1. CASE BlockCont \/ UnblockCont
  BY <1>1 DEF ContInv, BlockCont, UnblockCont
<1>2. CASE InstallCont \/ Resumed
  BY <1>2 DEF ContInv, InstallCont, Resumed
<1>3. CASE RaiseStop
  BY <1>3 DEF ContInv, RaiseStop
<1>4. CASE HandleCont
  BY <1>4 DEF ContInv, HandleCont, Deliverable
<1>5. CASE StopperExits
  BY <1>5 DEF ContInv, StopperExits, Deliverable
<1>6. CASE SendCont
  BY <1>6 DEF ContInv, SendCont
<1> QED
  BY <1>1, <1>2, <1>3, <1>4, <1>5, <1>6 DEF SigContNext, Stopper

(***************************************************************************)
(* Whenever signals come: sig_receiver.c prints no more than was sent and  *)
(* forgets no signal altogether, and dies of one only where it has no      *)
(* handler for it yet or SA_RESETHAND took it away; the read of            *)
(* siginterrupt.c always goes on; and SIGCONT wakes the process of         *)
(* SIGCONT_is_weird.c without running its handler before the signal is     *)
(* unblocked.                                                              *)
(***************************************************************************)
THEOREM SignalsCome == Spec => []SignalsHandled
<1> DEFINE IInv == /\ program = "sig_receiver" => ReceiverInv
                   /\ program = "siginterrupt" => InterruptInv
                   /\ program = "SIGCONT_is_weird" => ContInv
<1>1. Init => IInv
  BY OneBegins, ReceiverBegins, InterruptBegins, ContBegins
<1>2. IInv /\ [Next]_vars => IInv'
  <2> SUFFICES ASSUME IInv, [Next]_vars PROVE IInv'
    OBVIOUS
  <2>1. CASE UNCHANGED vars
    BY <2>1 DEF vars, ReceiverInv, ReceiverTypeOK, ReceiverCounts, SentFor, KilledBy, Merged,
       InterruptInv, ContInv
  <2>2. CASE ~UNCHANGED vars
    BY <2>2, OneProgram, ReceiverStep, InterruptStep, ContStep
  <2> QED
    BY <2>1, <2>2
<1>3. IInv => SignalsHandled
  <2>1. Cardinality(pending["receiver"] \cap {"SIGUSR1"}) = Merged
    <3>1. CASE "SIGUSR1" \in pending["receiver"]
      <4>1. pending["receiver"] \cap {"SIGUSR1"} = {"SIGUSR1"} /\ Merged = 1
        BY <3>1 DEF Merged
      <4> QED
        BY <4>1, FS_Singleton
    <3>2. CASE "SIGUSR1" \notin pending["receiver"]
      <4>1. pending["receiver"] \cap {"SIGUSR1"} = {} /\ Merged = 0
        BY <3>2 DEF Merged
      <4> QED
        BY <4>1, FS_EmptySet
    <3> QED
      BY <3>1, <3>2
  <2>2. IInv => SignalsCounted
    BY <2>1 DEF ReceiverInv, ReceiverCounts, KilledBy, SignalsCounted
  <2>3. IInv => ReadRestarts
    BY DEF InterruptInv, ReadRestarts
  <2>4. IInv => ContPendingUntilUnblocked
    BY DEF ContInv, ContPendingUntilUnblocked
  <2> QED
    BY <2>2, <2>3, <2>4 DEF SignalsHandled
<1> QED
  BY <1>1, <1>2, <1>3, PTL DEF Spec

-----------------------------------------------------------------------------
\* one_time_init.c

OnceTasks == Callers \cup {"main"}

OnceLabels ==
  {"create", "new", "lock", "test", "routine", "set", "unlock", "done"}

InOnce == {"test", "routine", "set", "unlock"}

OnceTypeOK ==
  /\ program = "one_time_init"
  /\ pc \in [OnceTasks -> OnceLabels]
  /\ mem \in [mtx : SUBSET Callers, flg : BOOLEAN, routine : {0, 1}]

\* The mutex is held by whoever is between the lock and the unlock.
OnceHeld == \A t \in Callers : pc[t] \in InOnce <=> mem.mtx = {t}

\* How far the routine is, as each place in one_time_init knows it.
OnceKnown ==
  /\ mem.flg => mem.routine = 1
  /\ \A t \in Callers :
       /\ pc[t] = "routine" => ~mem.flg /\ mem.routine = 0
       /\ pc[t] = "set" => ~mem.flg /\ mem.routine = 1
       /\ pc[t] \in {"unlock", "done"} => mem.flg
  /\ mem.routine = 1 => mem.flg \/ \E t \in Callers : pc[t] = "set"

OnceInv == OnceTypeOK /\ OnceHeld /\ OnceKnown

\* Nobody has called one_time_init.
LEMMA OnceInit == OneTimeInitInit => OnceInv
  BY CallersAssumption
  DEF OneTimeInitInit, Begin, OnceInv, OnceTypeOK, OnceHeld, OnceKnown, OnceTasks, OnceLabels, InOnce

\* A step of a caller keeps the invariant.
LEMMA OnceCaller ==
  ASSUME OnceInv, NEW t \in Callers, Caller(t)
  PROVE  OnceInv'
<1> USE CallersAssumption
    DEF OnceInv, OnceTypeOK, OnceTasks, OnceLabels, InOnce, Step, Compute, Goto, Move, kernel
<1>1. CASE LockOnce(t)
  <2>1. OnceTypeOK'
    BY <1>1 DEF LockOnce
  <2>2. OnceHeld'
    BY <1>1 DEF LockOnce, OnceHeld
  <2>3. OnceKnown'
    BY <1>1 DEF LockOnce, OnceKnown
  <2> QED  BY <2>1, <2>2, <2>3
<1>2. CASE TestFlag(t)
  <2>1. OnceTypeOK'
    BY <1>2 DEF TestFlag
  <2>2. OnceHeld'
    BY <1>2 DEF TestFlag, OnceHeld
  <2>3. OnceKnown'
    \* With the flag clear nobody else is at "set", so the routine has not run.
    BY <1>2 DEF TestFlag, OnceKnown, OnceHeld
  <2> QED  BY <2>1, <2>2, <2>3
<1>3. CASE RunRoutine(t)
  <2>1. mem.routine = 0 /\ mem' = [mem EXCEPT !.routine = 1]
    BY <1>3 DEF RunRoutine, OnceKnown
  <2>2. OnceTypeOK'
    BY <1>3, <2>1 DEF RunRoutine
  <2>3. OnceHeld'
    BY <1>3, <2>1 DEF RunRoutine, OnceHeld
  <2>4. OnceKnown'
    BY <1>3, <2>1 DEF RunRoutine, OnceKnown, OnceHeld
  <2> QED  BY <2>2, <2>3, <2>4
<1>4. CASE SetFlag(t)
  <2>1. OnceTypeOK'
    BY <1>4 DEF SetFlag
  <2>2. OnceHeld'
    BY <1>4 DEF SetFlag, OnceHeld
  <2>3. OnceKnown'
    BY <1>4 DEF SetFlag, OnceKnown, OnceHeld
  <2> QED  BY <2>1, <2>2, <2>3
<1>5. CASE UnlockOnce(t)
  <2>1. OnceTypeOK'
    BY <1>5 DEF UnlockOnce
  <2>2. OnceHeld'
    BY <1>5 DEF UnlockOnce, OnceHeld
  <2>3. OnceKnown'
    BY <1>5 DEF UnlockOnce, OnceKnown
  <2> QED  BY <2>1, <2>2, <2>3
<1> QED  BY <1>1, <1>2, <1>3, <1>4, <1>5 DEF Caller

\* A step of main, or none, keeps the invariant.
LEMMA OnceMain ==
  ASSUME OnceInv, OneTimeInitMain \/ UNCHANGED vars
  PROVE  OnceInv'
<1> USE CallersAssumption
    DEF OnceInv, OnceTypeOK, OnceTasks, OnceLabels, InOnce, OnceHeld, OnceKnown,
        Step, Compute, Goto, Create, Move, kernel
<1>1. ASSUME NEW t \in Callers, CreateCaller(t)  PROVE OnceInv'
  BY <1>1 DEF CreateCaller
<1>2. CASE JoinCallers
  BY <1>2 DEF JoinCallers
<1>3. CASE UNCHANGED vars
  BY <1>3 DEF vars
<1> QED  BY <1>1, <1>2, <1>3 DEF OneTimeInitMain

(***************************************************************************)
(* Whatever the threads that call it, init_routine runs once and is over   *)
(* before anybody returns from one_time_init (one_time_init.c:15-37).      *)
(***************************************************************************)
THEOREM RoutineOnce == Spec => []OnceBeforeUse
<1> DEFINE IInv == program = "one_time_init" => OnceInv
<1>1. Init => IInv
  BY OneBegins, OnceInit
<1>2. IInv /\ [Next]_vars => IInv'
  <2> SUFFICES ASSUME IInv, [Next]_vars, program = "one_time_init" PROVE OnceInv'
    BY OneProgram
  <2> QED
    BY OneProgram, OnceCaller, OnceMain DEF OneTimeInitNext
<1>3. IInv => OnceBeforeUse
  BY DEF OnceInv, OnceTypeOK, OnceKnown, OnceBeforeUse
<1> QED
  BY <1>1, <1>2, <1>3, PTL DEF Spec

-----------------------------------------------------------------------------
\* vector.c

VectorTypeOK ==
  /\ program = "vector"
  /\ mem \in [first : Capacities, capacity : Nat, size : Nat, bytes : Nat,
              overrun : BOOLEAN]

\* Until the first realloc the vector is what main allocated; afterwards an
\* element lies outside.
VectorInv ==
  /\ VectorTypeOK
  /\ IF mem.first >= 4 THEN mem.size < mem.capacity
                       ELSE mem.capacity = mem.first
  /\ IF mem.size < mem.first
     THEN mem.capacity = mem.first /\ mem.bytes = 40 /\ ~mem.overrun
     ELSE mem.overrun
  /\ mem.capacity >= mem.first

\* A quarter more of a capacity is at least one place more from four on, none
\* below, and never as many bytes as the capacity has ints.
LEMMA LargerBounds ==
  ASSUME NEW c \in Nat \ {0}
  PROVE  /\ Larger(c) \in Nat /\ Larger(c) >= c
         /\ c < 4 => Larger(c) = c
         /\ c >= 4 => Larger(c) > c
         /\ Larger(c) < 4 * c
  BY DEF Larger

\* A call of push_back.
LEMMA VectorPush ==
  ASSUME VectorInv, PushBack
  PROVE  VectorInv'
<1> USE DEF VectorInv, VectorTypeOK, IntBytes, Step, Compute, Move, kernel
<1> DEFINE c == IF Grows THEN Larger(mem.capacity) ELSE mem.capacity
           b == IF Grows THEN c ELSE mem.bytes
<1>1. mem.first \in 1..10 /\ mem.capacity \in Nat \ {0}
  <2>1. mem.first \in Capacities /\ mem.capacity \in Nat
    OBVIOUS
  <2>2. mem.first \in 1..10
    BY <2>1, VectorAssumption
  <2>3. mem.capacity >= mem.first
    OBVIOUS
  <2> QED  BY <2>1, <2>2, <2>3
<1>2. mem' = [mem EXCEPT !.capacity = c, !.bytes = b, !.size = mem.size + 1,
                         !.overrun = mem.overrun \/ 4 * (mem.size + 1) > b]
      /\ program' = "vector"
  BY DEF PushBack
<1>3. c \in Nat /\ b \in Nat /\ c >= mem.capacity
  BY <1>1, LargerBounds
<1> HIDE DEF c, b
<1>4. VectorTypeOK'
  <2>1. (mem.overrun \/ 4 * (mem.size + 1) > b) \in BOOLEAN
    BY Zenon
  <2>2. mem.size + 1 \in Nat
    OBVIOUS
  <2> QED  BY <1>2, <1>3, <2>1, <2>2, Zenon
<1>5. CASE Grows
  <2>1. c = Larger(mem.capacity) /\ b = c /\ mem.size + 1 = mem.capacity
    BY <1>5 DEF c, b, Grows
  <2>2. /\ mem.capacity < 4 => c = mem.capacity
        /\ mem.capacity >= 4 => c > mem.capacity
        /\ b < 4 * mem.capacity
    BY <1>1, <2>1, LargerBounds
  <2>3. mem'.overrun /\ mem'.size = mem.capacity /\ mem'.capacity = c /\ mem'.first = mem.first
    BY <1>1, <1>2, <1>3, <2>1, <2>2
  <2> QED  BY <1>1, <1>3, <1>4, <2>1, <2>2, <2>3
<1>6. CASE ~Grows
  <2>1. c = mem.capacity /\ b = mem.bytes /\ mem.size + 1 # mem.capacity
    BY <1>6 DEF c, b, Grows
  <2>2. /\ mem'.size = mem.size + 1 /\ mem'.capacity = mem.capacity
        /\ mem'.bytes = mem.bytes /\ mem'.first = mem.first
        /\ mem'.overrun = (mem.overrun \/ 4 * (mem.size + 1) > mem.bytes)
    BY <1>2, <2>1
  <2> QED  BY <1>1, <1>4, <2>1, <2>2
<1> QED  BY <1>5, <1>6

(***************************************************************************)
(* For any first capacities and any number of calls, a vector begun with   *)
(* four places or more keeps one to spare, a smaller one is outgrown, and  *)
(* the elements leave the memory at the first realloc (vector.c:36-43).    *)
(***************************************************************************)
THEOREM VectorRoom == Spec => []VectorFits
<1> DEFINE IInv == program = "vector" => VectorInv
<1>1. Init => IInv
  <2>1. VectorInit => VectorInv
    BY VectorAssumption DEF VectorInit, Begin, VectorInv, VectorTypeOK, IntBytes
  <2> QED
    BY <2>1, OneBegins
<1>2. IInv /\ [Next]_vars => IInv'
  <2> SUFFICES ASSUME IInv, [Next]_vars, program = "vector" PROVE VectorInv'
    BY OneProgram
  <2>1. CASE PushBack
    BY <2>1, VectorPush
  <2>2. CASE FreeData \/ AbortOverrun \/ UNCHANGED vars
    BY <2>2 DEF FreeData, AbortOverrun, Goto, Compute, Step, vars, VectorInv, VectorTypeOK
  <2> QED
    BY <2>1, <2>2, OneProgram DEF VectorNext
<1>3. IInv => VectorFits
  <2> SUFFICES ASSUME VectorInv  PROVE VectorFits
    BY DEF VectorFits
  <2>1. mem.first \in Capacities /\ mem.size \in Nat
    BY DEF VectorInv, VectorTypeOK
  <2>2. mem.first \in 1..10
    BY <2>1, VectorAssumption
  <2>3. mem.size < mem.first <=> ~(mem.size >= mem.first)
    BY <2>1, <2>2
  <2> QED
    BY <2>3 DEF VectorInv, VectorFits
<1> QED
  BY <1>1, <1>2, <1>3, PTL DEF Spec

-----------------------------------------------------------------------------
\* to_uppercase.c

\* What read takes of a queue that holds no more than it asks for.
LEMMA FetchedAll ==
  ASSUME NEW S, NEW q, queue[q] \in Seq(S), NEW n \in Nat, Len(queue[q]) <= n
  PROVE  Fetched(q, n) = queue[q] /\ Left(q, n) = <<>>
<1>1. Len(queue[q]) \in Nat
  BY LenProperties
<1>2. SubSeq(queue[q], 1, Len(queue[q])) = queue[q]
  BY SubSeqFull
<1>3. Fetched(q, n) = SubSeq(queue[q], 1, Len(queue[q]))
  <2>1. CASE Len(queue[q]) < n
    BY <2>1 DEF Fetched
  <2>2. CASE ~(Len(queue[q]) < n)
    <3>1. n = Len(queue[q])
      BY <1>1, <2>2
    <3> QED
      BY <2>2, <3>1 DEF Fetched
  <2> QED
    BY <2>1, <2>2
<1>4. Left(q, n) = <<>>
  BY <1>1, SubSeqEmpty DEF Left
<1> QED
  BY <1>2, <1>3, <1>4

\* The bytes from one after a to b, and what upper makes of the first n.
Span(a, b) == [k \in 1 .. b - a |-> a + k]
Upper(s) == [k \in DOMAIN s |-> -s[k]]
Uppered(n) == [k \in 1 .. n |-> -k]

UpperTypeOK ==
  /\ program = "to_uppercase"
  /\ pc \in [{"parent", "child"} -> {"input", "send", "receive", "read", "write", "done"}]
  /\ DOMAIN mem = {"used", "piece", "held", "result"} /\ mem.used \in Nat
  /\ DOMAIN queue = {"sendPipe", "recievePipe"}
  /\ mem.piece \in Seq(Int) /\ Len(mem.piece) <= BufSize /\ Len(mem.piece) <= mem.used

\* Where the piece that was read last is: with the parent, in a pipe, or with
\* the child.
UpperPhase ==
  CASE pc["parent"] \in {"input", "done"} ->
         /\ mem.result = Uppered(mem.used)
         /\ queue.sendPipe = <<>> /\ queue.recievePipe = <<>> /\ pc["child"] # "write"
    [] pc["parent"] = "send" ->
         /\ queue.sendPipe = <<>> /\ queue.recievePipe = <<>> /\ pc["child"] = "read"
    [] OTHER ->
         \/ queue.sendPipe = mem.piece /\ queue.recievePipe = <<>> /\ pc["child"] = "read"
         \/ /\ queue.sendPipe = <<>> /\ queue.recievePipe = <<>> /\ pc["child"] = "write"
            /\ mem.held = mem.piece
         \/ /\ queue.sendPipe = <<>> /\ queue.recievePipe = Upper(mem.piece)
            /\ pc["child"] = "read"

UpperInv ==
  /\ UpperTypeOK
  /\ pc["parent"] \in {"input", "send", "receive", "done"}
  /\ pc["parent"] = "done" \/ pc["child"] \in {"read", "write"}
  /\ UpperPhase
  /\ pc["parent"] \in {"send", "receive"} =>
       /\ mem.piece = Span(mem.used - Len(mem.piece), mem.used)
       /\ mem.result = Uppered(mem.used - Len(mem.piece))

\* They are sequences of their length.
LEMMA UpperSeqs ==
  /\ \A n \in Nat : Uppered(n) \in Seq(Int) /\ Len(Uppered(n)) = n
  /\ \A a, b \in Nat : a <= b => Span(a, b) \in Seq(Int) /\ Len(Span(a, b)) = b - a
  /\ \A s \in Seq(Int) : Upper(s) \in Seq(Int) /\ Len(Upper(s)) = Len(s)
<1>1. ASSUME NEW n \in Nat
      PROVE  Uppered(n) \in Seq(Int) /\ Len(Uppered(n)) = n
  <2>1. Uppered(n) \in [1 .. n -> Int]
    BY DEF Uppered
  <2> QED
    BY <2>1, SeqDef
<1>2. ASSUME NEW a \in Nat, NEW b \in Nat, a <= b
      PROVE  Span(a, b) \in Seq(Int) /\ Len(Span(a, b)) = b - a
  <2>1. Span(a, b) \in [1 .. b - a -> Int] /\ b - a \in Nat
    BY <1>2 DEF Span
  <2> QED
    BY <2>1, SeqDef
<1>3. ASSUME NEW s \in Seq(Int)
      PROVE  Upper(s) \in Seq(Int) /\ Len(Upper(s)) = Len(s)
  <2>1. Len(s) \in Nat /\ DOMAIN s = 1 .. Len(s) /\ \A k \in 1 .. Len(s) : s[k] \in Int
    BY LenProperties, ElementOfSeq
  <2>2. Upper(s) \in [1 .. Len(s) -> Int]
    BY <2>1 DEF Upper
  <2> QED
    BY <2>1, <2>2, SeqDef
<1> QED
  BY <1>1, <1>2, <1>3

\* The answer to a piece goes on where the result stops.
LEMMA UpperJoin ==
  ASSUME NEW a \in Nat, NEW b \in Nat, a <= b
  PROVE  Uppered(a) \o Upper(Span(a, b)) = Uppered(b)
<1>1. /\ Uppered(a) \in Seq(Int) /\ Len(Uppered(a)) = a
      /\ Upper(Span(a, b)) \in Seq(Int) /\ Len(Upper(Span(a, b))) = b - a
      /\ Uppered(b) \in Seq(Int) /\ Len(Uppered(b)) = b
      /\ Len(Span(a, b)) = b - a /\ Span(a, b) \in Seq(Int)
  BY UpperSeqs
<1>2. /\ Uppered(a) \o Upper(Span(a, b)) \in Seq(Int)
      /\ Len(Uppered(a) \o Upper(Span(a, b))) = b
      /\ \A i \in 1 .. b : (Uppered(a) \o Upper(Span(a, b)))[i] =
           IF i <= a THEN Uppered(a)[i] ELSE Upper(Span(a, b))[i - a]
  <2> DEFINE s == Uppered(a)
             t == Upper(Span(a, b))
  <2>1. s \in Seq(Int) /\ t \in Seq(Int) /\ Len(s) = a /\ Len(t) = b - a
    BY <1>1
  <2>2. Len(s) + Len(t) = b
    BY <2>1
  <2> HIDE DEF s, t
  <2>3. /\ s \o t \in Seq(Int) /\ Len(s \o t) = b
        /\ \A i \in 1 .. b : (s \o t)[i] = IF i <= a THEN s[i] ELSE t[i - a]
    BY <2>1, <2>2, ConcatProperties
  <2> QED
    BY <2>3 DEF s, t
<1>3. ASSUME NEW i \in 1 .. b
      PROVE  (Uppered(a) \o Upper(Span(a, b)))[i] = Uppered(b)[i]
  <2>1. Uppered(b)[i] = -i
    BY DEF Uppered
  <2>2. CASE i <= a
    BY <1>2, <2>1, <2>2 DEF Uppered
  <2>3. CASE ~(i <= a)
    <3>1. i - a \in 1 .. b - a
      BY <2>3
    <3>2. DOMAIN Span(a, b) = 1 .. b - a
      BY DEF Span
    <3>3. Upper(Span(a, b))[i - a] = -(a + (i - a))
      BY <3>1, <3>2 DEF Upper, Span
    <3>4. -(a + (i - a)) = -i
      OBVIOUS
    <3> QED
      BY <1>2, <2>1, <2>3, <3>3, <3>4
  <2> QED
    BY <2>2, <2>3
<1> QED
  BY <1>1, <1>2, <1>3, SeqEqual

\* Nothing is read.
LEMMA UpperBegins == ToUppercaseInit => UpperInv
<1> SUFFICES ASSUME ToUppercaseInit PROVE UpperInv
  OBVIOUS
<1>1. /\ program = "to_uppercase" /\ pc["parent"] = "input" /\ pc["child"] = "read"
      /\ mem.used = 0 /\ mem.piece = <<>> /\ mem.result = <<>>
      /\ queue.sendPipe = <<>> /\ queue.recievePipe = <<>>
      /\ DOMAIN mem = {"used", "piece", "held", "result"}
      /\ DOMAIN queue = {"sendPipe", "recievePipe"}
  BY DEF ToUppercaseInit, Begin
<1>2. pc \in [{"parent", "child"} -> {"input", "send", "receive", "read", "write", "done"}]
  BY DEF ToUppercaseInit, Begin
<1>3. Uppered(0) = <<>>
  BY UpperSeqs, EmptySeq, SeqEqual
<1>4. mem.piece \in Seq(Int) /\ Len(mem.piece) = 0
  BY <1>1, EmptySeq
<1> QED
  BY <1>1, <1>2, <1>3, <1>4, UppercaseAssumption DEF UpperInv, UpperTypeOK, UpperPhase

\* A piece is in one place until its answer is printed.
LEMMA UpperStep ==
  ASSUME UpperInv, ToUppercaseNext
  PROVE  UpperInv'
<1> USE DEF Step, Compute, Goto, Move, kernel, signals
<1>1. /\ UpperTypeOK /\ UpperPhase
      /\ pc["parent"] \in {"input", "send", "receive", "done"}
      /\ pc["parent"] = "done" \/ pc["child"] \in {"read", "write"}
      /\ pc["parent"] \in {"send", "receive"} =>
           /\ mem.piece = Span(mem.used - Len(mem.piece), mem.used)
           /\ mem.result = Uppered(mem.used - Len(mem.piece))
  BY DEF UpperInv
<1>2. CASE ReadInput
  <2>1. PICK n \in 0 .. BufSize :
          /\ program' = program /\ queue' = queue
          /\ pc["parent"] = "input" /\ pc' = [pc EXCEPT !["parent"] = "send"]
          /\ mem' = [mem EXCEPT !.used = @ + n, !.piece = [k \in 1..n |-> mem.used + k]]
    BY <1>2 DEF ReadInput
  <2> DEFINE u == mem.used + n
             p == [k \in 1..n |-> mem.used + k]
  <2>2. u \in Nat /\ n \in Nat /\ n <= u /\ u - n = mem.used /\ mem.used \in Nat
        /\ n <= BufSize /\ u - mem.used = n /\ mem.used <= u
    BY <1>1, UppercaseAssumption DEF UpperTypeOK
  <2>3. p = Span(mem.used, u)
    BY <2>2 DEF Span
  <2>4. p \in Seq(Int) /\ Len(p) = n
    <3> HIDE DEF u, p
    <3>1. Span(mem.used, u) \in Seq(Int) /\ Len(Span(mem.used, u)) = u - mem.used
      BY ONLY <2>2, UpperSeqs
    <3> QED
      BY ONLY <2>2, <2>3, <3>1
  <2>5. mem'.used = u /\ mem'.piece = p /\ mem'.result = mem.result /\ DOMAIN mem' = DOMAIN mem
    BY <2>1, <1>1 DEF UpperTypeOK
  <2> HIDE DEF u, p
  <2>6. pc' \in [{"parent", "child"} -> {"input", "send", "receive", "read", "write", "done"}]
        /\ pc'["parent"] = "send" /\ pc'["child"] = "read"
    BY <1>1, <2>1 DEF UpperTypeOK, UpperPhase
  <2>7. mem.result = Uppered(mem.used) /\ queue.sendPipe = <<>> /\ queue.recievePipe = <<>>
    BY <1>1, <2>1 DEF UpperPhase
  <2>8. UpperTypeOK'
    <3>1. program' = "to_uppercase" /\ DOMAIN queue' = {"sendPipe", "recievePipe"}
          /\ DOMAIN mem' = {"used", "piece", "held", "result"}
      BY <1>1, <2>1, <2>5 DEF UpperTypeOK
    <3> QED
      BY ONLY <2>2, <2>4, <2>5, <2>6, <3>1 DEF UpperTypeOK
  <2> QED
    BY <2>1, <2>2, <2>3, <2>4, <2>5, <2>6, <2>7, <2>8 DEF UpperInv, UpperPhase
<1>3. CASE InputFails \/ ReadNothing
  <2>1. UpperTypeOK'
    BY <1>1, <1>3 DEF UpperTypeOK, InputFails, ReadNothing
  <2> QED
    BY <1>1, <1>3, <2>1 DEF UpperInv, UpperTypeOK, UpperPhase, InputFails, ReadNothing
<1>4. CASE SendPiece
  <2>1. /\ program' = program /\ mem' = mem
        /\ pc["parent"] = "send" /\ pc' = [pc EXCEPT !["parent"] = "receive"]
        /\ queue' = [queue EXCEPT !.sendPipe = @ \o mem.piece]
    BY <1>4 DEF SendPiece
  <2>2. queue.sendPipe = <<>> /\ queue.recievePipe = <<>> /\ pc["child"] = "read"
    BY <1>1, <2>1 DEF UpperPhase
  <2>3. <<>> \o mem.piece = mem.piece
    BY <1>1, ConcatEmptySeq DEF UpperTypeOK
  <2>4. queue'.sendPipe = mem.piece /\ queue'.recievePipe = <<>> /\ DOMAIN queue' = DOMAIN queue
    BY <1>1, <2>1, <2>2, <2>3 DEF UpperTypeOK
  <2>5. pc' \in [{"parent", "child"} -> {"input", "send", "receive", "read", "write", "done"}]
        /\ pc'["parent"] = "receive" /\ pc'["child"] = "read"
    BY <1>1, <2>1, <2>2 DEF UpperTypeOK
  <2>6. UpperTypeOK'
    BY <1>1, <2>1, <2>4, <2>5 DEF UpperTypeOK
  <2> QED
    BY <1>1, <2>1, <2>4, <2>5, <2>6 DEF UpperInv, UpperPhase
<1>5. CASE ReceiveAnswer
  <2>1. /\ program' = program /\ queue.recievePipe # <<>>
        /\ pc["parent"] = "receive" /\ pc' = [pc EXCEPT !["parent"] = "input"]
        /\ mem' = [mem EXCEPT !.result = @ \o Fetched("recievePipe", BufSize)]
        /\ queue' = [queue EXCEPT !.recievePipe = Left("recievePipe", BufSize)]
    BY <1>5 DEF ReceiveAnswer
  <2>2. /\ queue.sendPipe = <<>> /\ queue.recievePipe = Upper(mem.piece)
        /\ pc["child"] = "read"
    BY <1>1, <2>1 DEF UpperPhase
  <2>3. /\ Upper(mem.piece) \in Seq(Int) /\ Len(Upper(mem.piece)) = Len(mem.piece)
        /\ Len(mem.piece) \in Nat /\ mem.used \in Nat /\ Len(mem.piece) <= mem.used
    BY <1>1, UpperSeqs, LenProperties DEF UpperTypeOK
  <2>4. queue["recievePipe"] \in Seq(Int) /\ Len(queue["recievePipe"]) <= BufSize
        /\ BufSize \in Nat
    BY <1>1, <2>2, <2>3, UppercaseAssumption DEF UpperTypeOK
  <2>5. /\ Fetched("recievePipe", BufSize) = Upper(mem.piece)
        /\ Left("recievePipe", BufSize) = <<>>
    BY <2>2, <2>4, FetchedAll
  <2>6. mem.result \o Upper(mem.piece) = Uppered(mem.used)
    <3> DEFINE a == mem.used - Len(mem.piece)
    <3>1. a \in Nat /\ a <= mem.used
      BY <2>3
    <3>2. mem.piece = Span(a, mem.used) /\ mem.result = Uppered(a)
      BY <1>1, <2>1
    <3> HIDE DEF a
    <3> QED
      BY <2>3, <3>1, <3>2, UpperJoin
  <2>7. /\ mem'.result = Uppered(mem.used) /\ mem'.used = mem.used /\ mem'.piece = mem.piece
        /\ DOMAIN mem' = DOMAIN mem
        /\ queue'.recievePipe = <<>> /\ queue'.sendPipe = <<>> /\ DOMAIN queue' = DOMAIN queue
    BY <1>1, <2>1, <2>2, <2>5, <2>6 DEF UpperTypeOK
  <2>8. pc' \in [{"parent", "child"} -> {"input", "send", "receive", "read", "write", "done"}]
        /\ pc'["parent"] = "input" /\ pc'["child"] = "read"
    BY <1>1, <2>1, <2>2 DEF UpperTypeOK
  <2>9. UpperTypeOK'
    BY <1>1, <2>1, <2>7, <2>8 DEF UpperTypeOK
  <2> QED
    BY <2>7, <2>8, <2>9 DEF UpperInv, UpperPhase
<1>6. CASE ReadPiece
  <2>1. /\ program' = program /\ queue.sendPipe # <<>>
        /\ pc["child"] = "read" /\ pc' = [pc EXCEPT !["child"] = "write"]
        /\ mem' = [mem EXCEPT !.held = Fetched("sendPipe", BufSize)]
        /\ queue' = [queue EXCEPT !.sendPipe = Left("sendPipe", BufSize)]
    BY <1>6 DEF ReadPiece
  <2>2. /\ queue.sendPipe = mem.piece /\ queue.recievePipe = <<>>
        /\ pc["parent"] = "receive"
    BY <1>1, <2>1 DEF UpperPhase
  <2>3. queue["sendPipe"] \in Seq(Int) /\ Len(queue["sendPipe"]) <= BufSize /\ BufSize \in Nat
    BY <1>1, <2>2, UppercaseAssumption DEF UpperTypeOK
  <2>4. Fetched("sendPipe", BufSize) = mem.piece /\ Left("sendPipe", BufSize) = <<>>
    BY <2>2, <2>3, FetchedAll
  <2>5. /\ mem'.result = mem.result /\ mem'.used = mem.used /\ mem'.piece = mem.piece
        /\ mem'.held = mem.piece /\ DOMAIN mem' = DOMAIN mem
        /\ queue'.recievePipe = <<>> /\ queue'.sendPipe = <<>> /\ DOMAIN queue' = DOMAIN queue
    BY <1>1, <2>1, <2>2, <2>4 DEF UpperTypeOK
  <2>6. pc' \in [{"parent", "child"} -> {"input", "send", "receive", "read", "write", "done"}]
        /\ pc'["parent"] = "receive" /\ pc'["child"] = "write"
    BY <1>1, <2>1, <2>2 DEF UpperTypeOK
  <2>7. UpperTypeOK'
    BY <1>1, <2>1, <2>5, <2>6 DEF UpperTypeOK
  <2> QED
    BY <1>1, <2>2, <2>5, <2>6, <2>7 DEF UpperInv, UpperPhase
<1>7. CASE AnswerPiece
  <2>1. /\ program' = program /\ mem' = mem
        /\ pc["child"] = "write" /\ pc' = [pc EXCEPT !["child"] = "read"]
        /\ queue' = [queue EXCEPT !.recievePipe =
                        @ \o [k \in DOMAIN mem.held |-> -mem.held[k]]]
    BY <1>7 DEF AnswerPiece
  <2>2. /\ queue.sendPipe = <<>> /\ queue.recievePipe = <<>> /\ mem.held = mem.piece
        /\ pc["parent"] = "receive"
    BY <1>1, <2>1 DEF UpperPhase
  <2>3. [k \in DOMAIN mem.held |-> -mem.held[k]] = Upper(mem.piece)
    BY <2>2 DEF Upper
  <2>4. <<>> \o Upper(mem.piece) = Upper(mem.piece)
    BY <1>1, UpperSeqs, ConcatEmptySeq DEF UpperTypeOK
  <2>5. queue'.recievePipe = Upper(mem.piece) /\ queue'.sendPipe = <<>>
        /\ DOMAIN queue' = DOMAIN queue
    BY <1>1, <2>1, <2>2, <2>3, <2>4 DEF UpperTypeOK
  <2>6. pc' \in [{"parent", "child"} -> {"input", "send", "receive", "read", "write", "done"}]
        /\ pc'["parent"] = "receive" /\ pc'["child"] = "read"
    BY <1>1, <2>1, <2>2 DEF UpperTypeOK
  <2>7. UpperTypeOK'
    BY <1>1, <2>1, <2>5, <2>6 DEF UpperTypeOK
  <2> QED
    BY <1>1, <2>1, <2>2, <2>5, <2>6, <2>7 DEF UpperInv, UpperPhase
<1> QED
  BY <1>2, <1>3, <1>4, <1>5, <1>6, <1>7 DEF ToUppercaseNext, UpperParent, UpperChild

\* What the invariant says when the parent asks for more.
LEMMA UpperAnswers == UpperInv => AnswersInStep
<1> SUFFICES ASSUME UpperInv
             PROVE  /\ pc["parent"] = "input" => mem.result = Uppered(mem.used)
                    /\ Len(queue.sendPipe) + Len(queue.recievePipe) <= Len(mem.piece)
  BY DEF AnswersInStep, Uppered
<1>1. pc["parent"] \in {"input", "send", "receive", "done"} /\ UpperPhase /\ UpperTypeOK
  BY DEF UpperInv
<1>2. /\ Len(mem.piece) \in Nat /\ Len(Upper(mem.piece)) = Len(mem.piece) /\ Len(<<>>) = 0
  BY <1>1, UpperSeqs, LenProperties, EmptySeq DEF UpperTypeOK
<1>3. \/ queue.sendPipe = <<>> /\ queue.recievePipe = <<>>
      \/ queue.sendPipe = mem.piece /\ queue.recievePipe = <<>>
      \/ queue.sendPipe = <<>> /\ queue.recievePipe = Upper(mem.piece)
  BY <1>1 DEF UpperPhase
<1>4. pc["parent"] = "input" => mem.result = Uppered(mem.used)
  BY <1>1 DEF UpperPhase
<1>5. Len(queue.sendPipe) + Len(queue.recievePipe) <= Len(mem.piece)
  <2>1. CASE queue.sendPipe = <<>> /\ queue.recievePipe = <<>>
    BY <1>2, <2>1
  <2>2. CASE queue.sendPipe = mem.piece /\ queue.recievePipe = <<>>
    BY <1>2, <2>2
  <2>3. CASE queue.sendPipe = <<>> /\ queue.recievePipe = Upper(mem.piece)
    BY <1>2, <2>3
  <2> QED
    BY <1>3, <2>1, <2>2, <2>3
<1> QED
  BY <1>4, <1>5

-----------------------------------------------------------------------------
\* slow-reader-fast-sender

Numbered(n) == [k \in 1 .. n |-> k]

SlowTypeOK ==
  /\ program = "slow_reader"
  /\ pc \in [{"server", "client"} -> {"remove", "bind", "recvfrom", "sendto", "done"}]
  /\ DOMAIN mem = {"files", "starts", "binds", "sent", "received"}
  /\ mem.sent \in Nat /\ mem.binds \in {0, 1} /\ mem.received \in Seq(Int)
  /\ DOMAIN queue = {"dgrams"} /\ queue.dgrams \in Seq(Int)

\* The file is there since the first bind, and before that nothing is sent.
SlowInv ==
  /\ SlowTypeOK
  /\ BoundName \in mem.files <=> mem.binds = 1
  /\ mem.binds = 0 => mem.sent = 0 /\ mem.received = <<>> /\ queue.dgrams = <<>>
  /\ pc["server"] = "recvfrom" =>
       mem.binds = 1 /\ mem.received \o queue.dgrams = Numbered(mem.sent)

\* The numbers of the first n datagrams.
LEMMA NumberedSeq ==
  \A n \in Nat : Numbered(n) \in Seq(Int) /\ Len(Numbered(n)) = n
<1> SUFFICES ASSUME NEW n \in Nat
             PROVE  Numbered(n) \in Seq(Int) /\ Len(Numbered(n)) = n
  OBVIOUS
<1>1. Numbered(n) \in [1 .. n -> Int]
  BY DEF Numbered
<1> QED
  BY <1>1, SeqDef

\* The next datagram.
LEMMA NumberedNext ==
  ASSUME NEW n \in Nat
  PROVE  Append(Numbered(n), n + 1) = Numbered(n + 1)
<1>1. Numbered(n) \in Seq(Int) /\ Len(Numbered(n)) = n /\ n + 1 \in Int
  BY NumberedSeq
<1>2. Numbered(n + 1) \in Seq(Int) /\ Len(Numbered(n + 1)) = n + 1
  BY NumberedSeq
<1>3. /\ Append(Numbered(n), n + 1) \in Seq(Int)
      /\ Len(Append(Numbered(n), n + 1)) = n + 1
      /\ \A i \in 1 .. n + 1 :
           Append(Numbered(n), n + 1)[i] = IF i = n + 1 THEN n + 1 ELSE Numbered(n)[i]
  BY <1>1, AppendProperties
<1>4. \A i \in 1 .. n + 1 : Append(Numbered(n), n + 1)[i] = Numbered(n + 1)[i]
  BY <1>3 DEF Numbered
<1> QED
  BY <1>2, <1>3, <1>4, SeqEqual

\* Nothing is bound or sent.
LEMMA SlowBegins == SlowReaderInit => SlowInv
<1> SUFFICES ASSUME SlowReaderInit PROVE SlowInv
  OBVIOUS
<1>1. /\ program = "slow_reader"
      /\ pc["server"] = "remove" /\ pc["client"] = "sendto" /\ mem.files = {}
      /\ mem.sent = 0 /\ mem.binds = 0 /\ mem.received = <<>> /\ queue.dgrams = <<>>
      /\ DOMAIN mem = {"files", "starts", "binds", "sent", "received"}
      /\ DOMAIN queue = {"dgrams"}
  BY DEF SlowReaderInit, Begin
<1>2. pc \in [{"server", "client"} -> {"remove", "bind", "recvfrom", "sendto", "done"}]
  BY DEF SlowReaderInit, Begin
<1>3. <<>> \in Seq(Int)
  BY EmptySeq
<1> QED
  BY <1>1, <1>2, <1>3 DEF SlowInv, SlowTypeOK

\* The name that is removed is not the one that is bound.
LEMMA SlowStep ==
  ASSUME SlowInv, SlowReaderNext
  PROVE  SlowInv'
<1> USE DEF Step, Compute, Goto, Move, kernel, signals
<1>1. SlowTypeOK /\ RemovedName # BoundName
  BY DEF SlowInv, RemovedName, BoundName
<1>2. CASE RemoveOld
  <2>1. /\ program' = program /\ queue' = queue
        /\ pc["server"] = "remove" /\ pc' = [pc EXCEPT !["server"] = "bind"]
        /\ mem' = [mem EXCEPT !.files = @ \ {RemovedName}]
    BY <1>2 DEF RemoveOld
  <2>2. /\ mem'.files = mem.files \ {RemovedName} /\ mem'.binds = mem.binds
        /\ mem'.sent = mem.sent /\ mem'.received = mem.received /\ DOMAIN mem' = DOMAIN mem
    BY <1>1, <2>1 DEF SlowTypeOK
  <2> QED
    BY <1>1, <2>1, <2>2 DEF SlowInv, SlowTypeOK
<1>3. CASE BindSocket
  <2>1. CASE BoundName \notin mem.files
    <3>1. /\ program' = program /\ queue' = queue
          /\ pc["server"] = "bind" /\ pc' = [pc EXCEPT !["server"] = "recvfrom"]
          /\ mem' = [mem EXCEPT !.files = @ \cup {BoundName}, !.binds = @ + 1]
      BY <1>3, <2>1 DEF BindSocket
    <3>2. /\ mem.binds = 0 /\ mem.sent = 0 /\ mem.received = <<>> /\ queue.dgrams = <<>>
      BY <1>1, <2>1 DEF SlowInv, SlowTypeOK
    <3>3. /\ mem'.files = mem.files \cup {BoundName} /\ mem'.binds = 1
          /\ mem'.sent = mem.sent /\ mem'.received = mem.received /\ DOMAIN mem' = DOMAIN mem
      BY <1>1, <3>1, <3>2 DEF SlowTypeOK
    <3>4. <<>> \o <<>> = Numbered(0)
      BY NumberedSeq, EmptySeq, ConcatEmptySeq, SeqEqual
    <3> QED
      BY <1>1, <3>1, <3>2, <3>3, <3>4 DEF SlowInv, SlowTypeOK
  <2>2. CASE BoundName \in mem.files
    BY <1>1, <1>3, <2>2 DEF BindSocket, SlowInv, SlowTypeOK
  <2> QED
    BY <2>1, <2>2
<1>4. CASE RecvFrom
  <2>1. /\ program' = program /\ queue.dgrams # <<>>
        /\ pc["server"] = "recvfrom" /\ pc' = [pc EXCEPT !["server"] = "recvfrom"]
        /\ mem' = [mem EXCEPT !.received = Append(@, Head(queue.dgrams))]
        /\ queue' = [queue EXCEPT !.dgrams = Tail(@)]
    BY <1>4 DEF RecvFrom
  <2> DEFINE r == mem.received
             d == queue.dgrams
  <2>2. r \in Seq(Int) /\ d \in Seq(Int) /\ d # <<>>
    BY <1>1, <2>1 DEF SlowTypeOK
  <2>3. Head(d) \in Int /\ Tail(d) \in Seq(Int)
    BY <2>2, HeadTailProperties
  <2>4. Append(r, Head(d)) \o Tail(d) = r \o d /\ Append(r, Head(d)) \in Seq(Int)
    <3> HIDE DEF r, d
    <3>1. Append(r, Head(d)) = r \o <<Head(d)>> /\ <<Head(d)>> \in Seq(Int)
      BY <2>2, <2>3, AppendIsConcat
    <3>2. (r \o <<Head(d)>>) \o Tail(d) = r \o (<<Head(d)>> \o Tail(d))
      BY <2>2, <2>3, <3>1, ConcatAssociative
    <3>3. <<Head(d)>> \o Tail(d) = d
      BY <2>2, HeadTailProperties
    <3> QED
      BY <2>2, <2>3, <3>1, <3>2, <3>3, ConcatProperties
  <2>5. /\ mem'.received = Append(r, Head(d)) /\ mem'.files = mem.files
        /\ mem'.binds = mem.binds /\ mem'.sent = mem.sent /\ DOMAIN mem' = DOMAIN mem
        /\ queue'.dgrams = Tail(d) /\ DOMAIN queue' = DOMAIN queue
    BY <1>1, <2>1 DEF SlowTypeOK
  <2> QED
    BY <1>1, <2>1, <2>3, <2>4, <2>5 DEF SlowInv, SlowTypeOK
<1>5. CASE KillServer
  <2>1. /\ program' = program /\ mem' = mem /\ pc' = [pc EXCEPT !["server"] = "done"]
        /\ queue'.dgrams = <<>> /\ DOMAIN queue' = {"dgrams"}
    BY <1>5 DEF KillServer
  <2>2. <<>> \in Seq(Int)
    BY EmptySeq
  <2> QED
    BY <1>1, <2>1, <2>2 DEF SlowInv, SlowTypeOK
<1>6. CASE StartServer
  <2>1. /\ program' = program /\ queue' = queue
        /\ pc["server"] = "done" /\ pc' = [pc EXCEPT !["server"] = "remove"]
        /\ mem' = [mem EXCEPT !.starts = @ + 1]
    BY <1>6 DEF StartServer
  <2>2. /\ mem'.files = mem.files /\ mem'.binds = mem.binds
        /\ mem'.sent = mem.sent /\ mem'.received = mem.received /\ DOMAIN mem' = DOMAIN mem
    BY <1>1, <2>1 DEF SlowTypeOK
  <2> QED
    BY <1>1, <2>1, <2>2 DEF SlowInv, SlowTypeOK
<1>7. CASE SendTo
  <2>1. CASE pc["server"] = "recvfrom"
    <3>1. /\ program' = program
          /\ pc["client"] = "sendto" /\ pc' = [pc EXCEPT !["client"] = "sendto"]
          /\ mem' = [mem EXCEPT !.sent = @ + 1]
          /\ queue' = [queue EXCEPT !.dgrams = Append(@, mem.sent + 1)]
      BY <1>7, <2>1 DEF SendTo
    <3> DEFINE n == mem.sent + 1
               r == mem.received
               d == queue.dgrams
    <3>2. n \in Nat /\ mem.sent \in Nat /\ r \in Seq(Int) /\ d \in Seq(Int) /\ n \in Int
      BY <1>1 DEF SlowTypeOK
    <3>3. Append(d, n) \in Seq(Int)
      BY <3>2, AppendProperties
    <3>4. r \o Append(d, n) = Append(r \o d, n)
      <4> HIDE DEF r, d, n
      <4>1. Append(d, n) = d \o <<n>> /\ <<n>> \in Seq(Int)
        BY <3>2, AppendIsConcat
      <4>2. r \o (d \o <<n>>) = (r \o d) \o <<n>>
        BY <3>2, <4>1, ConcatAssociative
      <4>3. r \o d \in Seq(Int)
        BY <3>2, ConcatProperties
      <4> QED
        BY <3>2, <4>1, <4>2, <4>3, AppendIsConcat
    <3>5. Append(Numbered(mem.sent), n) = Numbered(n)
      BY <3>2, NumberedNext
    <3>6. r \o d = Numbered(mem.sent) /\ mem.binds = 1
      BY <2>1 DEF SlowInv
    <3>7. /\ mem'.files = mem.files /\ mem'.binds = mem.binds
          /\ mem'.sent = n /\ mem'.received = r /\ DOMAIN mem' = DOMAIN mem
          /\ queue'.dgrams = Append(d, n) /\ DOMAIN queue' = DOMAIN queue
      BY <1>1, <3>1 DEF SlowTypeOK
    <3> HIDE DEF n
    <3>8. SlowTypeOK'
      BY <1>1, <3>1, <3>2, <3>3, <3>7 DEF SlowTypeOK
    <3>9. mem'.received \o queue'.dgrams = Numbered(mem'.sent)
      BY <3>4, <3>5, <3>6, <3>7
    <3>10. (BoundName \in mem'.files <=> mem'.binds = 1) /\ mem'.binds = 1
      BY <3>6, <3>7 DEF SlowInv
    <3> QED
      BY ONLY <3>8, <3>9, <3>10 DEF SlowInv
  <2>2. CASE pc["server"] # "recvfrom"
    BY <1>1, <1>7, <2>2 DEF SendTo, SlowInv, SlowTypeOK
  <2> QED
    BY <2>1, <2>2
<1> QED
  BY <1>2, <1>3, <1>4, <1>5, <1>6, <1>7 DEF SlowReaderNext, SlowServer

\* What the invariant says of the datagrams and of the binds.
LEMMA SlowBounds == SlowInv => DatagramsInOrder /\ BoundOnce
<1>1. SlowInv => DatagramsInOrder
  BY DEF SlowInv, DatagramsInOrder, Numbered
<1>2. SlowInv => BoundOnce
  <2>1. SlowInv => mem.binds \in {0, 1}
    BY DEF SlowInv, SlowTypeOK
  <2> QED
    BY <2>1 DEF BoundOnce
<1> QED
  BY <1>1, <1>2

-----------------------------------------------------------------------------
\* us-xfr

\* FlattenSeq of the sequences that the run of us-xfr needs it for.
LEMMA FlattenOne ==
  ASSUME NEW s, Len(s) = 1
  PROVE  FlattenSeq(s) = s[1]
<1> DEFINE D == 1 .. Len(s)
           F(f) == [i \in D |-> IF i = 1 THEN s[i] ELSE f[i-1] \o s[i]]
           g == [i \in D |-> s[i]]
           flatten == CHOOSE f : f = F(f)
<1>1. D = {1}
  OBVIOUS
<1>2. g = F(g)
  BY <1>1
<1>3. flatten = F(flatten)
  <2> HIDE DEF g, F
  <2> QED
    BY <1>2
<1>4. flatten[1] = s[1]
  <2> HIDE DEF flatten
  <2> QED
    BY <1>1, <1>3, SMTT(30)
<1>5. FlattenSeq(s) = flatten[1]
  BY SMTT(30) DEF FlattenSeq
<1> QED
  BY <1>4, <1>5

\* The same for two sequences.
LEMMA FlattenTwo ==
  ASSUME NEW s, Len(s) = 2
  PROVE  FlattenSeq(s) = s[1] \o s[2]
<1> DEFINE D == 1 .. Len(s)
           F(f) == [i \in D |-> IF i = 1 THEN s[i] ELSE f[i-1] \o s[i]]
           g == [i \in D |-> IF i = 1 THEN s[1] ELSE s[1] \o s[2]]
           flatten == CHOOSE f : f = F(f)
<1>1. D = {1, 2}
  OBVIOUS
<1>2. g = F(g)
  <2>1. g[1] = s[1]
    BY <1>1
  <2>2. ASSUME NEW i \in D
        PROVE  (IF i = 1 THEN s[1] ELSE s[1] \o s[2]) =
               (IF i = 1 THEN s[i] ELSE g[i-1] \o s[i])
    <3> HIDE DEF g
    <3> QED
      BY <1>1, <2>1
  <2> QED
    BY <2>2
<1>3. flatten = F(flatten)
  <2> HIDE DEF g, F
  <2> QED
    BY <1>2
<1>4. flatten[1] = s[1] /\ flatten[2] = s[1] \o s[2]
  <2> HIDE DEF flatten
  <2>1. flatten[1] = s[1]
    BY <1>1, <1>3
  <2>2. flatten[2] = flatten[1] \o s[2]
    BY <1>1, <1>3
  <2> QED
    BY <2>1, <2>2
<1>5. FlattenSeq(s) = flatten[2]
  BY DEF FlattenSeq
<1> QED
  BY <1>4, <1>5

\* What read leaves goes on where what it takes ends.
LEMMA FetchedLeft ==
  ASSUME NEW S, NEW q, queue[q] \in Seq(S), NEW n \in Nat
  PROVE  /\ Fetched(q, n) \in Seq(S) /\ Left(q, n) \in Seq(S)
         /\ Fetched(q, n) \o Left(q, n) = queue[q]
<1> DEFINE s == queue[q]
           m == IF Len(s) < n THEN Len(s) ELSE n
<1>1. s \in Seq(S) /\ Len(s) \in Nat
  BY LenProperties
<1>2. Fetched(q, n) = SubSeq(s, 1, m) /\ Left(q, n) = SubSeq(s, n + 1, Len(s))
  BY DEF Fetched, Left
<1>3. m \in 0 .. Len(s)
  BY <1>1
<1>4. SubSeq(s, n + 1, Len(s)) = SubSeq(s, m + 1, Len(s))
  <2>1. CASE Len(s) < n
    <3>1. SubSeq(s, n + 1, Len(s)) = <<>> /\ SubSeq(s, Len(s) + 1, Len(s)) = <<>>
      BY <1>1, <2>1, SubSeqEmpty
    <3> QED
      BY <2>1, <3>1
  <2>2. CASE ~(Len(s) < n)
    BY <2>2
  <2> QED
    BY <2>1, <2>2
<1> HIDE DEF s, m
<1>5. SubSeq(s, 1, m) \o SubSeq(s, m + 1, Len(s)) = SubSeq(s, 1, Len(s))
  <2>1. 1 \in 1 .. Len(s) + 1 /\ m \in 1 - 1 .. Len(s) /\ Len(s) \in m .. Len(s)
    BY <1>1, <1>3
  <2> QED
    BY <1>1, <2>1, ConcatAdjacentSubSeq
<1>6. SubSeq(s, 1, Len(s)) = s
  BY <1>1, SubSeqFull
<1>7. SubSeq(s, 1, m) \in Seq(S) /\ SubSeq(s, m + 1, Len(s)) \in Seq(S)
  <2>1. \A i \in 1 .. m : i \in 1 .. Len(s)
    BY <1>1, <1>3
  <2>2. \A i \in m + 1 .. Len(s) : i \in 1 .. Len(s)
    BY <1>1, <1>3
  <2> QED
    BY <1>1, <1>3, <2>1, <2>2, SubSeqProperties
<1> QED
  BY <1>2, <1>4, <1>5, <1>6, <1>7 DEF s

\* The first n bytes of client c, and the m after them.
SentBy(c, n) == [k \in 1 .. n |-> <<c, k>>]
SentNext(c, n, m) == [k \in 1 .. m |-> <<c, n + k>>]

Pairs == XfrClients \X Nat

\* They are sequences of their length.
LEMMA SentSeqs ==
  ASSUME NEW c \in XfrClients, NEW n \in Nat, NEW m \in Nat
  PROVE  /\ SentBy(c, n) \in Seq(Pairs) /\ Len(SentBy(c, n)) = n
         /\ SentNext(c, n, m) \in Seq(Pairs) /\ Len(SentNext(c, n, m)) = m
<1>1. SentBy(c, n) \in [1 .. n -> Pairs]
  BY DEF SentBy, Pairs
<1>2. SentNext(c, n, m) \in [1 .. m -> Pairs]
  BY DEF SentNext, Pairs
<1> QED
  BY <1>1, <1>2, SeqDef

\* A write goes on where the one before it stopped.
LEMMA SentMore ==
  ASSUME NEW c \in XfrClients, NEW n \in Nat, NEW m \in Nat
  PROVE  SentBy(c, n) \o SentNext(c, n, m) = SentBy(c, n + m)
<1> DEFINE s == SentBy(c, n)
           t == SentNext(c, n, m)
           u == SentBy(c, n + m)
<1>1. /\ s \in Seq(Pairs) /\ Len(s) = n /\ t \in Seq(Pairs) /\ Len(t) = m
      /\ u \in Seq(Pairs) /\ Len(u) = n + m
  <2>1. n + m \in Nat
    OBVIOUS
  <2> QED
    BY <2>1, SentSeqs
<1>2. /\ \A i \in 1 .. n : s[i] = <<c, i>>
      /\ \A i \in 1 .. m : t[i] = <<c, n + i>>
      /\ \A i \in 1 .. n + m : u[i] = <<c, i>>
  BY DEF SentBy, SentNext
<1> HIDE DEF s, t, u
<1>3. /\ s \o t \in Seq(Pairs) /\ Len(s \o t) = n + m
      /\ \A i \in 1 .. n + m : (s \o t)[i] = IF i <= n THEN s[i] ELSE t[i - n]
  BY <1>1, ConcatProperties
<1>4. ASSUME NEW i \in 1 .. n + m PROVE (s \o t)[i] = u[i]
  <2>1. CASE i <= n
    BY <1>2, <1>3, <2>1
  <2>2. CASE ~(i <= n)
    <3>1. i - n \in 1 .. m /\ n + (i - n) = i
      BY <2>2
    <3>2. t[i - n] = <<c, n + (i - n)>>
      BY <1>2, <3>1
    <3> QED
      BY <1>2, <1>3, <2>2, <3>1, <3>2
  <2> QED
    BY <2>1, <2>2
<1>5. s \o t = u
  BY <1>1, <1>3, <1>4, SeqEqual
<1> QED
  BY <1>5 DEF s, t, u

-----------------------------------------------------------------------------

XfrTypeOK ==
  /\ program = "us_xfr"
  /\ pc \in [XfrClients \cup {"server"} ->
               {"start", "read", "write", "accept", "copy", "done"}]
  /\ DOMAIN mem = {"backlog", "accepted", "out", "written", "numRead"}
  /\ mem.backlog \in Seq(XfrClients) /\ mem.accepted \in Seq(XfrClients)
  /\ mem.out \in Seq(Pairs)
  /\ mem.written \in [XfrClients -> Nat] /\ mem.numRead \in [XfrClients -> Nat]
  /\ queue \in [XfrClients -> Seq(Pairs)]

\* Those who have connected, in the order in which they did.
Line == mem.accepted \o mem.backlog

\* A client connects once.
InLineOnce ==
  /\ \A i, j \in 1 .. Len(Line) : Line[i] = Line[j] => i = j
  /\ \A i \in 1 .. Len(Line) : pc[Line[i]] # "start"

\* What the clients that were accepted have written, one after the other.
Served(acc, written) ==
  IF Len(acc) = 0 THEN <<>>
  ELSE IF Len(acc) = 1 THEN SentBy(acc[1], written[acc[1]])
  ELSE SentBy(acc[1], written[acc[1]]) \o SentBy(acc[2], written[acc[2]])

\* A client before the current one has gone and its socket is empty, and so
\* has the current one once the server accepts again; the sockets of those
\* not yet accepted hold all they wrote.
XfrInv ==
  /\ XfrTypeOK /\ InLineOnce
  /\ pc["server"] = "start" => mem.accepted = <<>>
  /\ pc["server"] = "copy" => mem.accepted # <<>>
  /\ pc["server"] \in {"start", "accept", "copy"}
  /\ \A i \in 1 .. Len(mem.accepted) :
       i < Len(mem.accepted) \/ pc["server"] = "accept" =>
         pc[mem.accepted[i]] = "done" /\ queue[mem.accepted[i]] = <<>>
  /\ \A c \in XfrClients :
       (\A i \in 1 .. Len(mem.accepted) : mem.accepted[i] # c) =>
         queue[c] = SentBy(c, mem.written[c])
  /\ IF mem.accepted = <<>> THEN mem.out = <<>>
     ELSE mem.out \o queue[Current] = Served(mem.accepted, mem.written)

\* Nobody has connected.
LEMMA XfrBegins == UsXfrInit => XfrInv
<1> SUFFICES ASSUME UsXfrInit PROVE XfrInv
  OBVIOUS
<1>1. /\ program = "us_xfr" /\ pc["server"] = "start"
      /\ pc = [p \in XfrClients \cup {"server"} |-> "start"]
      /\ DOMAIN mem = {"backlog", "accepted", "out", "written", "numRead"}
      /\ mem.backlog = <<>> /\ mem.accepted = <<>> /\ mem.out = <<>>
      /\ mem.written = [c \in XfrClients |-> 0] /\ mem.numRead = [c \in XfrClients |-> 0]
      /\ queue = [c \in XfrClients |-> <<>>]
  BY DEF UsXfrInit, Begin
<1>2. <<>> \in Seq(XfrClients) /\ <<>> \in Seq(Pairs) /\ Len(<<>>) = 0
  BY EmptySeq
<1>3. XfrTypeOK
  BY <1>1, <1>2 DEF XfrTypeOK
<1>4. Line = <<>>
  BY <1>1, <1>2, ConcatEmptySeq DEF Line
<1>5. ASSUME NEW c \in XfrClients PROVE queue[c] = SentBy(c, mem.written[c])
  <2>1. SentBy(c, 0) \in Seq(Pairs) /\ Len(SentBy(c, 0)) = 0
    BY SentSeqs
  <2>2. SentBy(c, 0) = <<>>
    BY <2>1, EmptySeq
  <2> QED
    BY <1>1, <2>2
<1>6. InLineOnce
  BY <1>2, <1>4 DEF InLineOnce
<1> QED
  BY <1>1, <1>2, <1>3, <1>5, <1>6 DEF XfrInv

\* There are no more than two in the line.
LEMMA LineShort ==
  ASSUME XfrTypeOK, InLineOnce
  PROVE  /\ Line \in Seq(XfrClients) /\ Len(Line) <= 2
         /\ Len(Line) = Len(mem.accepted) + Len(mem.backlog)
         /\ \A i \in 1 .. Len(mem.accepted) : Line[i] = mem.accepted[i]
         /\ \A i \in 1 .. Len(mem.backlog) : Line[Len(mem.accepted) + i] = mem.backlog[i]
         /\ Len(mem.accepted) \in Nat /\ Len(mem.backlog) \in Nat
         /\ \A i \in 1 .. Len(mem.accepted) : mem.accepted[i] \in XfrClients
<1> DEFINE a == mem.accepted
           b == mem.backlog
<1>1. a \in Seq(XfrClients) /\ b \in Seq(XfrClients)
  BY DEF XfrTypeOK
<1>2. Len(a) \in Nat /\ Len(b) \in Nat
  BY <1>1, LenProperties
<1>3. Line = a \o b
  BY DEF Line
<1>4. \A i \in 1 .. Len(a) : a[i] \in XfrClients
  BY <1>1, ElementOfSeq
<1> HIDE DEF a, b
<1>5. /\ Line \in Seq(XfrClients) /\ Len(Line) = Len(a) + Len(b)
      /\ \A i \in 1 .. Len(a) + Len(b) : Line[i] = IF i <= Len(a) THEN a[i] ELSE b[i - Len(a)]
  BY <1>1, <1>3, ConcatProperties
<1>6. Len(Line) <= 2
  <2>1. SUFFICES ASSUME Len(Line) >= 3 PROVE FALSE
    BY <1>2, <1>5
  <2>2. Line[1] \in XfrClients /\ Line[2] \in XfrClients /\ Line[3] \in XfrClients
    <3>1. \A i \in 1 .. Len(Line) : Line[i] \in XfrClients
      BY <1>5, ElementOfSeq
    <3> QED
      BY <1>2, <1>5, <2>1, <3>1
  <2>3. Line[1] # Line[2] /\ Line[1] # Line[3] /\ Line[2] # Line[3]
    BY <1>2, <1>5, <2>1 DEF InLineOnce
  <2> QED
    BY <2>2, <2>3 DEF XfrClients
<1>7. \A i \in 1 .. Len(a) : Line[i] = a[i]
  BY <1>2, <1>5
<1>8. ASSUME NEW i \in 1 .. Len(b) PROVE Line[Len(a) + i] = b[i]
  <2>1. Len(a) + i \in 1 .. Len(a) + Len(b) /\ ~(Len(a) + i <= Len(a))
        /\ (Len(a) + i) - Len(a) = i
    BY <1>2
  <2> QED
    BY <1>5, <2>1
<1> QED
  BY <1>2, <1>4, <1>5, <1>6, <1>7, <1>8 DEF a, b

\* A client connects, reads its input or gives up.
LEMMA XfrConnects ==
  ASSUME XfrInv, NEW c \in XfrClients, Connect(c) \/ ClientReads(c)
  PROVE  XfrInv'
<1> USE DEF Step, Compute, Goto, Move, kernel, signals
<1>1. XfrTypeOK /\ InLineOnce
  BY DEF XfrInv
<1>2. /\ program' = program /\ queue' = queue /\ pc[c] \in {"start", "read"}
      /\ \E l \in {"read", "write", "done"} : pc' = [pc EXCEPT ![c] = l]
      /\ mem'.accepted = mem.accepted /\ mem'.out = mem.out /\ mem'.written = mem.written
      /\ DOMAIN mem' = DOMAIN mem
      /\ mem'.numRead \in [XfrClients -> Nat]
      /\ \/ mem'.backlog = mem.backlog
         \/ pc[c] = "start" /\ mem'.backlog = Append(mem.backlog, c) /\ pc["server"] # "start"
  <2>1. CASE ClientReads(c)
    <3>1. PICK n \in 0 .. XfrBuf :
            /\ program' = program /\ queue' = queue
            /\ pc[c] = "read" /\ pc' = [pc EXCEPT ![c] = IF n = 0 THEN "done" ELSE "write"]
            /\ mem' = [mem EXCEPT !.numRead[c] = n]
      BY <2>1 DEF ClientReads
    <3>2. n \in Nat
      BY XfrAssumption
    <3>3. mem'.numRead = [mem.numRead EXCEPT ![c] = n]
      BY <1>1, <3>1 DEF XfrTypeOK
    <3>4. mem'.numRead \in [XfrClients -> Nat]
      BY <1>1, <3>2, <3>3 DEF XfrTypeOK
    <3>5. /\ mem'.accepted = mem.accepted /\ mem'.out = mem.out /\ mem'.written = mem.written
          /\ DOMAIN mem' = DOMAIN mem /\ mem'.backlog = mem.backlog
      BY <1>1, <3>1 DEF XfrTypeOK
    <3>6. \E l \in {"read", "write", "done"} : pc' = [pc EXCEPT ![c] = l]
      BY <3>1
    <3> QED
      BY <3>1, <3>4, <3>5, <3>6
  <2>2. CASE Connect(c)
    <3>1. CASE pc["server"] # "start"
      <4>1. /\ program' = program /\ queue' = queue
            /\ pc[c] = "start" /\ pc' = [pc EXCEPT ![c] = "read"]
            /\ mem' = [mem EXCEPT !.backlog = Append(@, c)]
        BY <2>2, <3>1 DEF Connect
      <4>2. /\ mem'.accepted = mem.accepted /\ mem'.out = mem.out
            /\ mem'.written = mem.written /\ mem'.numRead = mem.numRead
            /\ DOMAIN mem' = DOMAIN mem /\ mem'.backlog = Append(mem.backlog, c)
        BY <1>1, <4>1 DEF XfrTypeOK
      <4> QED
        BY <1>1, <3>1, <4>1, <4>2 DEF XfrTypeOK
    <3>2. CASE pc["server"] = "start"
      BY <1>1, <2>2, <3>2 DEF Connect, XfrTypeOK
    <3> QED
      BY <3>1, <3>2
  <2> QED
    BY <2>1, <2>2
<1>3. /\ pc'["server"] = pc["server"] /\ pc'[c] \in {"read", "write", "done"}
      /\ \A d \in XfrClients \ {c} : pc'[d] = pc[d]
      /\ pc' \in [XfrClients \cup {"server"} ->
                   {"start", "read", "write", "accept", "copy", "done"}]
  BY <1>1, <1>2 DEF XfrTypeOK, XfrClients
<1>4. XfrTypeOK'
  <2>1. Append(mem.backlog, c) \in Seq(XfrClients)
    BY <1>1, AppendProperties DEF XfrTypeOK
  <2>2. mem'.backlog \in Seq(XfrClients)
    BY <1>1, <1>2, <2>1 DEF XfrTypeOK
  <2> QED
    BY <1>1, <1>2, <1>3, <2>2 DEF XfrTypeOK
<1>5. Line' = Line \/ (pc[c] = "start" /\ Line' = Append(Line, c))
  <2>1. CASE mem'.backlog = mem.backlog
    BY <1>2, <2>1 DEF Line
  <2>2. CASE pc[c] = "start" /\ mem'.backlog = Append(mem.backlog, c)
    <3> DEFINE a == mem.accepted
               b == mem.backlog
    <3>1. a \in Seq(XfrClients) /\ b \in Seq(XfrClients)
      BY <1>1 DEF XfrTypeOK
    <3>2. Line = a \o b /\ Line' = a \o Append(b, c)
      BY <1>2, <2>2 DEF Line
    <3> HIDE DEF a, b
    <3>3. /\ Append(b, c) = b \o <<c>> /\ <<c>> \in Seq(XfrClients) /\ a \o b \in Seq(XfrClients)
      BY <3>1, AppendIsConcat, ConcatProperties
    <3>4. Append(a \o b, c) = (a \o b) \o <<c>>
      BY <3>3, AppendIsConcat
    <3>5. (a \o b) \o <<c>> = a \o (b \o <<c>>)
      BY <3>1, <3>3, ConcatAssociative
    <3> QED
      BY <2>2, <3>2, <3>3, <3>4, <3>5
  <2> QED
    BY <1>2, <2>1, <2>2
<1>6. Line \in Seq(XfrClients)
  BY <1>1, LineShort
<1>7. InLineOnce'
  <2>1. CASE Line' = Line
    <3>1. \A i \in 1 .. Len(Line) : Line[i] \in XfrClients
      BY <1>6, ElementOfSeq
    <3> QED
      BY <1>1, <1>3, <2>1, <3>1 DEF InLineOnce
  <2>2. CASE pc[c] = "start" /\ Line' = Append(Line, c)
    <3>1. /\ Len(Line') = Len(Line) + 1 /\ Len(Line) \in Nat
          /\ \A i \in 1 .. Len(Line) : Line'[i] = Line[i] /\ Line[i] \in XfrClients
          /\ Line'[Len(Line) + 1] = c
      BY <1>6, <2>2, AppendProperties, LenProperties, ElementOfSeq
    <3>2. \A i \in 1 .. Len(Line) : Line[i] # c /\ pc[Line[i]] # "start"
      BY <1>1, <2>2 DEF InLineOnce
    <3>3. \A i, j \in 1 .. Len(Line) : Line[i] = Line[j] => i = j
      BY <1>1 DEF InLineOnce
    <3>4. \A i \in 1 .. Len(Line) : pc'[Line'[i]] # "start"
      BY <1>3, <3>1, <3>2
    <3>5. \A i \in 1 .. Len(Line) + 1 : i \in 1 .. Len(Line) \/ i = Len(Line) + 1
      BY <3>1
    <3>6. \A i, j \in 1 .. Len(Line) + 1 : Line'[i] = Line'[j] => i = j
      BY ONLY <3>1, <3>2, <3>3, <3>5
    <3>7. \A i \in 1 .. Len(Line) + 1 : pc'[Line'[i]] # "start"
      BY <1>3, <3>1, <3>4, <3>5
    <3> QED
      BY <3>1, <3>6, <3>7 DEF InLineOnce
  <2> QED
    BY <1>5, <2>1, <2>2
<1>8. \A i \in 1 .. Len(mem.accepted) : mem.accepted[i] \in XfrClients
  BY <1>1, LineShort
<1>9. Current' = Current
  BY <1>2 DEF Current
<1>10. \A d \in XfrClients : pc[d] = "done" => pc'[d] = "done"
  BY <1>2, <1>3
<1>11. /\ pc'["server"] = "start" => mem'.accepted = <<>>
       /\ pc'["server"] = "copy" => mem'.accepted # <<>>
       /\ pc'["server"] \in {"start", "accept", "copy"}
  BY <1>2, <1>3 DEF XfrInv
<1>12. \A i \in 1 .. Len(mem'.accepted) :
         i < Len(mem'.accepted) \/ pc'["server"] = "accept" =>
           pc'[mem'.accepted[i]] = "done" /\ queue'[mem'.accepted[i]] = <<>>
  BY <1>2, <1>3, <1>8, <1>10 DEF XfrInv
<1>13. \A d \in XfrClients :
         (\A i \in 1 .. Len(mem'.accepted) : mem'.accepted[i] # d) =>
           queue'[d] = SentBy(d, mem'.written[d])
  BY <1>2 DEF XfrInv
<1>14. IF mem'.accepted = <<>> THEN mem'.out = <<>>
       ELSE mem'.out \o queue'[Current'] = Served(mem'.accepted, mem'.written)
  BY <1>2, <1>9 DEF XfrInv
<1> QED
  BY <1>4, <1>7, <1>11, <1>12, <1>13, <1>14 DEF XfrInv

\* A client that writes is the current one or not yet accepted.
LEMMA XfrWrites ==
  ASSUME XfrInv, NEW c \in XfrClients, ClientWrites(c)
  PROVE  XfrInv'
<1> USE DEF Step, Compute, Goto, Move, kernel, signals
<1> DEFINE n == mem.written[c]
           m == mem.numRead[c]
           a == mem.accepted
<1>1. XfrTypeOK /\ InLineOnce
  BY DEF XfrInv
<1>2. n \in Nat /\ m \in Nat /\ n + m \in Nat /\ a \in Seq(XfrClients) /\ Len(a) \in Nat
      /\ (\A i \in 1 .. Len(a) : a[i] \in XfrClients)
  BY <1>1, LenProperties, ElementOfSeq DEF XfrTypeOK
<1>3. /\ program' = program /\ pc[c] = "write" /\ pc' = [pc EXCEPT ![c] = "read"]
      /\ queue' = [queue EXCEPT ![c] = @ \o SentNext(c, n, m)]
      /\ mem' = [mem EXCEPT !.written[c] = @ + m]
  BY DEF ClientWrites, SentNext
<1>4. /\ mem'.accepted = mem.accepted /\ mem'.out = mem.out /\ mem'.backlog = mem.backlog
      /\ mem'.numRead = mem.numRead /\ DOMAIN mem' = DOMAIN mem
      /\ mem'.written = [mem.written EXCEPT ![c] = n + m]
  BY <1>1, <1>3 DEF XfrTypeOK
<1>5. /\ pc'["server"] = pc["server"] /\ pc'[c] = "read"
      /\ \A d \in XfrClients \ {c} : pc'[d] = pc[d]
      /\ pc' \in [XfrClients \cup {"server"} ->
                   {"start", "read", "write", "accept", "copy", "done"}]
  BY <1>1, <1>3 DEF XfrTypeOK, XfrClients
<1>6. /\ SentNext(c, n, m) \in Seq(Pairs) /\ queue[c] \in Seq(Pairs)
      /\ queue[c] \o SentNext(c, n, m) \in Seq(Pairs)
  BY <1>1, <1>2, SentSeqs, ConcatProperties DEF XfrTypeOK
<1>7. /\ queue' \in [XfrClients -> Seq(Pairs)]
      /\ queue'[c] = queue[c] \o SentNext(c, n, m)
      /\ \A d \in XfrClients \ {c} : queue'[d] = queue[d]
  BY <1>1, <1>3, <1>6 DEF XfrTypeOK
<1>8. /\ mem'.written \in [XfrClients -> Nat] /\ mem'.written[c] = n + m
      /\ \A d \in XfrClients \ {c} : mem'.written[d] = mem.written[d]
  BY <1>1, <1>2, <1>4 DEF XfrTypeOK
<1>9. XfrTypeOK'
  BY <1>1, <1>3, <1>4, <1>5, <1>7, <1>8 DEF XfrTypeOK
<1>10. InLineOnce'
  <2>1. Line' = Line /\ Line \in Seq(XfrClients)
    BY <1>1, <1>4, LineShort DEF Line
  <2>2. \A i \in 1 .. Len(Line) : Line[i] \in XfrClients
    BY <2>1, ElementOfSeq
  <2> QED
    BY <1>1, <1>5, <2>1, <2>2 DEF InLineOnce
<1>11. \A i \in 1 .. Len(a) :
         i < Len(a) \/ pc["server"] = "accept" =>
           pc[a[i]] = "done" /\ queue[a[i]] = <<>> /\ a[i] # c
  BY <1>3 DEF XfrInv
<1>18. a = mem.accepted /\ mem'.accepted = a /\ n = mem.written[c] /\ m = mem.numRead[c]
  BY <1>4
<1> HIDE DEF a, n, m
<1>12. ASSUME NEW i \in 1 .. Len(a), i < Len(a) \/ pc'["server"] = "accept"
       PROVE  pc'[a[i]] = "done" /\ queue'[a[i]] = <<>>
  <2>1. pc[a[i]] = "done" /\ queue[a[i]] = <<>> /\ a[i] # c /\ a[i] \in XfrClients
    BY <1>2, <1>5, <1>11, <1>12
  <2> QED
    BY <1>5, <1>7, <2>1
<1>13. SentBy(c, n) \o SentNext(c, n, m) = SentBy(c, n + m)
  BY <1>2, SentMore
<1>14. ASSUME NEW d \in XfrClients, \A i \in 1 .. Len(a) : a[i] # d
       PROVE  queue'[d] = SentBy(d, mem'.written[d])
  <2>1. queue[d] = SentBy(d, mem.written[d])
    BY <1>14, <1>18 DEF XfrInv
  <2>2. CASE d = c
    BY <1>7, <1>8, <1>13, <1>18, <2>1, <2>2
  <2>3. CASE d # c
    BY <1>7, <1>8, <2>1, <2>3
  <2> QED
    BY <2>2, <2>3
<1>15. Current' = Current /\ Current = a[Len(a)]
  BY <1>18 DEF Current
<1>16. ASSUME a # <<>>
       PROVE  mem'.out \o queue'[Current'] = Served(mem'.accepted, mem'.written)
  <2>1. Len(a) \in {1, 2} /\ Len(a) \in 1 .. Len(a)
    <3>1. Len(a) <= 2
      <4>1. Len(Line) <= 2 /\ Len(Line) = Len(a) + Len(mem.backlog) /\ Len(mem.backlog) \in Nat
        BY <1>1, <1>18, LineShort
      <4> QED
        BY <1>2, <4>1
    <3>2. Len(a) # 0
      BY <1>2, <1>16, EmptySeq
    <3> DEFINE k == Len(a)
    <3>3. k \in Nat /\ k <= 2 /\ k # 0
      BY <1>2, <3>1, <3>2
    <3> HIDE DEF k
    <3>4. k \in {1, 2} /\ k \in 1 .. k
      BY ONLY <3>3
    <3> QED
      BY <3>4 DEF k
  <2>2. mem.out \o queue[Current] = Served(a, mem.written) /\ mem.out \in Seq(Pairs)
    BY <1>1, <1>16, <1>18 DEF XfrInv, XfrTypeOK
  <2>3. CASE Current = c
    <3>1. mem.out \o queue'[c] = (mem.out \o queue[c]) \o SentNext(c, n, m)
      <4>1. mem.out \in Seq(Pairs) /\ queue[c] \in Seq(Pairs) /\ SentNext(c, n, m) \in Seq(Pairs)
        BY <1>6, <2>2
      <4>2. (mem.out \o queue[c]) \o SentNext(c, n, m) = mem.out \o (queue[c] \o SentNext(c, n, m))
        <5> DEFINE s == mem.out
                   u == queue[c]
                   v == SentNext(c, n, m)
        <5>1. s \in Seq(Pairs) /\ u \in Seq(Pairs) /\ v \in Seq(Pairs)
          BY <4>1
        <5> HIDE DEF s, u, v
        <5>2. (s \o u) \o v = s \o (u \o v)
          BY ONLY <5>1, ConcatAssociative
        <5> QED
          BY <5>2 DEF s, u, v
      <4> QED
        BY <1>7, <4>2
    <3>2. CASE Len(a) = 1
      <4>1. Served(a, mem.written) = SentBy(c, n)
        BY <1>15, <1>18, <2>3, <3>2 DEF Served
      <4>2. Served(a, mem'.written) = SentBy(c, n + m)
        <5>1. a[1] = c /\ mem'.written[a[1]] = n + m
          BY <1>8, <1>15, <2>3, <3>2
        <5> QED
          BY ONLY <3>2, <5>1 DEF Served
      <4> QED
        BY <1>4, <1>13, <1>15, <1>18, <2>2, <2>3, <3>1, <4>1, <4>2
    <3>3. CASE Len(a) = 2
      <4> DEFINE b == a[1]
      <4>1. b # c /\ b \in XfrClients
        BY <1>2, <1>11, <3>3
      <4>2. Served(a, mem.written) = SentBy(b, mem.written[b]) \o SentBy(c, n)
        BY <1>15, <1>18, <2>3, <3>3 DEF Served
      <4>3. Served(a, mem'.written) = SentBy(b, mem.written[b]) \o SentBy(c, n + m)
        <5>1. /\ a[2] = c /\ mem'.written[a[2]] = n + m
              /\ a[1] = b /\ mem'.written[b] = mem.written[b]
          BY <1>8, <1>15, <2>3, <3>3, <4>1
        <5> HIDE DEF b
        <5> QED
          BY ONLY <3>3, <5>1 DEF Served
      <4>4. SentBy(b, mem.written[b]) \in Seq(Pairs) /\ SentBy(c, n) \in Seq(Pairs)
        BY <1>1, <1>2, <4>1, SentSeqs DEF XfrTypeOK
      <4>5. (SentBy(b, mem.written[b]) \o SentBy(c, n)) \o SentNext(c, n, m)
            = SentBy(b, mem.written[b]) \o SentBy(c, n + m)
        <5> DEFINE s == SentBy(b, mem.written[b])
                   u == SentBy(c, n)
                   v == SentNext(c, n, m)
        <5>1. s \in Seq(Pairs) /\ u \in Seq(Pairs) /\ v \in Seq(Pairs)
          BY <1>6, <4>4
        <5>2. (s \o u) \o v = s \o (u \o v)
          BY ONLY <5>1, ConcatAssociative
        <5> QED
          BY <1>13, <5>2
      <4> QED
        BY <1>4, <1>15, <1>18, <2>2, <2>3, <3>1, <4>2, <4>3, <4>5
    <3> QED
      BY <2>1, <3>2, <3>3
  <2>4. CASE Current # c
    <3>1. \A i \in 1 .. Len(a) : a[i] # c
      BY <1>2, <1>11, <1>15, <2>1, <2>4
    <3>2. Served(a, mem'.written) = Served(a, mem.written)
      BY <1>2, <1>8, <2>1, <3>1 DEF Served
    <3>3. queue'[Current] = queue[Current]
      BY <1>2, <1>7, <1>15, <2>1, <2>4
    <3> QED
      BY <1>4, <1>15, <1>18, <2>2, <3>2, <3>3
  <2> QED
    BY <2>3, <2>4
<1>17. /\ pc'["server"] = "start" => mem'.accepted = <<>>
       /\ pc'["server"] = "copy" => mem'.accepted # <<>>
       /\ pc'["server"] \in {"start", "accept", "copy"}
       /\ mem.accepted = <<>> => mem'.out = <<>>
  BY <1>4, <1>5 DEF XfrInv
<1> QED
  BY <1>9, <1>10, <1>12, <1>14, <1>16, <1>17, <1>18 DEF XfrInv

\* The first of the backlog is not one that was accepted before.
LEMMA XfrAccepts ==
  ASSUME XfrInv, AcceptClient
  PROVE  XfrInv'
<1> USE DEF Step, Compute, Goto, Move, kernel, signals
<1> DEFINE a == mem.accepted
           b == mem.backlog
           h == Head(b)
<1>1. XfrTypeOK /\ InLineOnce
  BY DEF XfrInv
<1>2. /\ program' = program /\ b # <<>> /\ queue' = queue
      /\ pc["server"] = "accept" /\ pc' = [pc EXCEPT !["server"] = "copy"]
      /\ mem' = [mem EXCEPT !.backlog = Tail(@), !.accepted = Append(@, Head(mem.backlog))]
  BY DEF AcceptClient
<1>3. /\ mem'.accepted = Append(a, h) /\ mem'.backlog = Tail(b)
      /\ mem'.out = mem.out /\ mem'.written = mem.written /\ mem'.numRead = mem.numRead
      /\ DOMAIN mem' = DOMAIN mem
  BY <1>1, <1>2 DEF XfrTypeOK
<1>4. /\ a \in Seq(XfrClients) /\ b \in Seq(XfrClients) /\ Len(a) \in Nat
      /\ h \in XfrClients /\ Tail(b) \in Seq(XfrClients) /\ Len(b) \in Nat /\ Len(b) > 0
  BY <1>1, <1>2, HeadTailProperties, LenProperties, EmptySeq DEF XfrTypeOK
<1>5. /\ Append(a, h) \in Seq(XfrClients) /\ Len(Append(a, h)) = Len(a) + 1
      /\ \A i \in 1 .. Len(a) : Append(a, h)[i] = a[i] /\ a[i] \in XfrClients
      /\ Append(a, h)[Len(a) + 1] = h /\ Append(a, h) # <<>>
  BY <1>4, AppendProperties, ElementOfSeq
<1>6. /\ pc'["server"] = "copy"
      /\ \A d \in XfrClients : pc'[d] = pc[d]
      /\ pc' \in [XfrClients \cup {"server"} ->
                   {"start", "read", "write", "accept", "copy", "done"}]
  BY <1>1, <1>2 DEF XfrTypeOK, XfrClients
<1>7. XfrTypeOK'
  BY <1>1, <1>2, <1>3, <1>4, <1>5, <1>6 DEF XfrTypeOK
<1>8. b[1] = h
  BY <1>2, <1>4
<1>9. Len(Line) = Len(a) + Len(b) /\ Line[Len(a) + 1] = h
      /\ \A i \in 1 .. Len(a) : Line[i] = a[i]
  <2>1. /\ Len(Line) = Len(mem.accepted) + Len(mem.backlog)
        /\ \A i \in 1 .. Len(mem.accepted) : Line[i] = mem.accepted[i]
        /\ \A i \in 1 .. Len(mem.backlog) : Line[Len(mem.accepted) + i] = mem.backlog[i]
    BY <1>1, LineShort
  <2>2. 1 \in 1 .. Len(b)
    BY <1>4
  <2> QED
    BY <1>8, <2>1, <2>2
<1>10. \A i \in 1 .. Len(a) : a[i] # h
  <2> DEFINE n == Len(a)
             m == Len(b)
             l == Len(Line)
  <2>1. n \in Nat /\ m \in Nat /\ m > 0 /\ l = n + m
    BY <1>4, <1>9
  <2>2. \A i, j \in 1 .. l : Line[i] = Line[j] => i = j
    BY <1>1 DEF InLineOnce
  <2>3. Line[n + 1] = h /\ \A i \in 1 .. n : Line[i] = a[i]
    BY <1>9
  <2> HIDE DEF n, m, l, a, h
  <2>4. \A i \in 1 .. n : i \in 1 .. l /\ n + 1 \in 1 .. l /\ i # n + 1
    BY ONLY <2>1
  <2>5. \A i \in 1 .. n : a[i] # h
    BY ONLY <2>2, <2>3, <2>4
  <2> QED
    BY <2>5 DEF n
<1>11. Line' = Line /\ Line \in Seq(XfrClients) /\ Len(Line) <= 2
  <2>1. Line' = Append(a, h) \o Tail(b) /\ Line = a \o b /\ b # <<>>
    BY <1>2, <1>3 DEF Line
  <2> HIDE DEF a, b
  <2>2. Append(a, h) = a \o <<h>> /\ <<h>> \in Seq(XfrClients)
    BY <1>4, AppendIsConcat
  <2>3. (a \o <<h>>) \o Tail(b) = a \o (<<h>> \o Tail(b))
    BY <1>4, <2>2, ConcatAssociative
  <2>4. <<h>> \o Tail(b) = b
    BY <1>4, <2>1, HeadTailProperties
  <2>5. Line \in Seq(XfrClients) /\ Len(Line) <= 2
    BY <1>1, LineShort
  <2> QED
    BY <2>1, <2>2, <2>3, <2>4, <2>5
<1>12. InLineOnce'
  <2>1. \A i \in 1 .. Len(Line) : Line[i] \in XfrClients
    BY <1>11, ElementOfSeq
  <2> QED
    BY <1>1, <1>6, <1>11, <2>1 DEF InLineOnce
<1>13. Len(a) \in {0, 1}
  <2> DEFINE n == Len(a)
             m == Len(b)
             l == Len(Line)
  <2>1. n \in Nat /\ m \in Nat /\ m > 0 /\ l = n + m /\ l <= 2
    BY <1>4, <1>9, <1>11
  <2> HIDE DEF n, m, l
  <2>2. n \in {0, 1}
    BY ONLY <2>1
  <2> QED
    BY <2>2 DEF n
<1>14. \A i \in 1 .. Len(a) : pc[a[i]] = "done" /\ queue[a[i]] = <<>>
  BY <1>2 DEF XfrInv
<1>15. queue[h] = SentBy(h, mem.written[h])
  BY <1>4, <1>10 DEF XfrInv
<1>16. IF Len(a) = 0 THEN mem.out = <<>> ELSE mem.out = SentBy(a[1], mem.written[a[1]])
  <2>1. CASE Len(a) = 0
    BY <1>4, <2>1, EmptySeq DEF XfrInv
  <2>2. CASE Len(a) = 1
    <3>1. a # <<>>
      BY <2>2
    <3>2. Current = a[1]
      BY <2>2 DEF Current
    <3>3. mem.out \o queue[Current] = Served(a, mem.written)
      BY <3>1 DEF XfrInv
    <3>4. queue[Current] = <<>>
      BY <1>14, <2>2, <3>2
    <3>5. mem.out \o <<>> = mem.out
      BY <1>1, ConcatEmptySeq DEF XfrTypeOK
    <3> QED
      BY <2>2, <3>3, <3>4, <3>5 DEF Served
  <2> QED
    BY <1>13, <2>1, <2>2
<1>17. mem'.accepted = Append(a, h) /\ Current' = h
  BY <1>3, <1>5 DEF Current
<1> HIDE DEF a, b, h
<1>18. ASSUME NEW i \in 1 .. Len(a) + 1, i < Len(a) + 1
       PROVE  pc'[Append(a, h)[i]] = "done" /\ queue'[Append(a, h)[i]] = <<>>
  <2>1. i \in 1 .. Len(a)
    BY <1>4, <1>18
  <2> QED
    BY <1>2, <1>5, <1>6, <1>14, <2>1
<1>19. ASSUME NEW d \in XfrClients, \A i \in 1 .. Len(a) + 1 : Append(a, h)[i] # d
       PROVE  queue'[d] = SentBy(d, mem'.written[d])
  <2>1. \A i \in 1 .. Len(a) : a[i] # d
    BY <1>4, <1>5, <1>19
  <2> QED
    BY <1>2, <1>3, <2>1 DEF XfrInv, a
<1>20. mem'.out \o queue'[h] = Served(Append(a, h), mem'.written)
  <2> DEFINE s == SentBy(h, mem.written[h])
  <2>1. mem'.out \o queue'[h] = mem.out \o s
    BY <1>2, <1>3, <1>15
  <2>2. s \in Seq(Pairs)
    BY <1>1, <1>4, SentSeqs DEF XfrTypeOK
  <2>3. CASE Len(a) = 0
    <3>1. Len(Append(a, h)) = 1 /\ Append(a, h)[1] = h
      BY <1>5, <2>3
    <3>2. Served(Append(a, h), mem.written) = s
      BY ONLY <3>1 DEF Served
    <3>3. mem.out \o s = s
      BY <1>16, <2>2, <2>3, ConcatEmptySeq
    <3> QED
      BY <1>3, <2>1, <3>2, <3>3
  <2>4. CASE Len(a) = 1
    <3>1. Len(Append(a, h)) = 2 /\ Append(a, h)[1] = a[1] /\ Append(a, h)[2] = h
      BY <1>5, <2>4
    <3>2. Served(Append(a, h), mem.written) = SentBy(a[1], mem.written[a[1]]) \o s
      BY ONLY <3>1 DEF Served
    <3> QED
      <4>1. mem.out = SentBy(a[1], mem.written[a[1]])
        BY <1>16, <2>4
      <4> HIDE DEF s
      <4> QED
        BY <1>3, <2>1, <3>2, <4>1
  <2> QED
    BY <1>13, <2>3, <2>4
<1> QED
  BY <1>5, <1>6, <1>7, <1>12, <1>17, <1>18, <1>19, <1>20 DEF XfrInv

\* The server listens, copies or closes a connection.
LEMMA XfrServes ==
  ASSUME XfrInv, Listen \/ CopyBytes \/ CloseClient
  PROVE  XfrInv'
<1> USE DEF Step, Compute, Goto, Move, kernel, signals
<1> DEFINE a == mem.accepted
<1>1. XfrTypeOK /\ InLineOnce
  BY DEF XfrInv
<1>2. a \in Seq(XfrClients) /\ Len(a) \in Nat /\ (\A i \in 1 .. Len(a) : a[i] \in XfrClients)
      /\ Line \in Seq(XfrClients) /\ (\A i \in 1 .. Len(Line) : Line[i] \in XfrClients)
  BY <1>1, LineShort, LenProperties, ElementOfSeq DEF XfrTypeOK
<1>3. a # <<>> => Len(a) \in 1 .. Len(a) /\ Current \in XfrClients /\ Current = a[Len(a)]
  BY <1>2, EmptySeq DEF Current
<1>4. CASE Listen \/ CloseClient
  <2>1. /\ program' = program /\ mem' = mem /\ queue' = queue
        /\ pc["server"] \in {"start", "copy"} /\ pc' = [pc EXCEPT !["server"] = "accept"]
        /\ pc["server"] = "copy" => queue[Current] = <<>> /\ pc[Current] = "done"
    BY <1>1, <1>4 DEF Listen, CloseClient, XfrTypeOK
  <2>2. /\ pc'["server"] = "accept" /\ \A d \in XfrClients : pc'[d] = pc[d]
        /\ pc' \in [XfrClients \cup {"server"} ->
                     {"start", "read", "write", "accept", "copy", "done"}]
    BY <1>1, <2>1 DEF XfrTypeOK, XfrClients
  <2>3. XfrTypeOK' /\ Line' = Line /\ Current' = Current
    BY <1>1, <2>1, <2>2 DEF XfrTypeOK, Line, Current
  <2>4. InLineOnce'
    BY <1>1, <1>2, <2>2, <2>3 DEF InLineOnce
  <2>5. ASSUME NEW i \in 1 .. Len(a)
        PROVE  pc'[a[i]] = "done" /\ queue'[a[i]] = <<>>
    <3>1. pc[a[i]] = "done" /\ queue[a[i]] = <<>>
      <4>1. CASE i < Len(a)
        BY <4>1 DEF XfrInv
      <4>2. CASE i = Len(a)
        <5>1. a # <<>>
          BY <4>2, EmptySeq
        <5>2. pc["server"] = "copy"
          BY <2>1, <5>1 DEF XfrInv
        <5> QED
          BY <1>3, <2>1, <4>2, <5>1, <5>2
      <4> QED
        BY <1>2, <4>1, <4>2
    <3> QED
      BY <1>2, <2>1, <2>2, <3>1
  <2> QED
    BY <2>1, <2>2, <2>3, <2>4, <2>5 DEF XfrInv
<1>5. CASE CopyBytes
  <2>1. /\ program' = program /\ pc["server"] = "copy" /\ pc' = [pc EXCEPT !["server"] = "copy"]
        /\ mem' = [mem EXCEPT !.out = @ \o Fetched(Current, XfrBuf)]
        /\ queue' = [queue EXCEPT ![Current] = Left(Current, XfrBuf)]
    BY <1>5 DEF CopyBytes
  <2>2. a # <<>>
    BY <2>1 DEF XfrInv
  <2> DEFINE c == Current
             f == Fetched(c, XfrBuf)
             l == Left(c, XfrBuf)
  <2>3. pc' = pc
    BY <1>1, <2>1 DEF XfrTypeOK
  <2>4. c \in XfrClients /\ queue[c] \in Seq(Pairs) /\ XfrBuf \in Nat /\ mem.out \in Seq(Pairs)
    BY <1>1, <1>3, <2>2, XfrAssumption DEF XfrTypeOK
  <2>5. f \in Seq(Pairs) /\ l \in Seq(Pairs) /\ f \o l = queue[c]
    BY <2>4, FetchedLeft
  <2>6. /\ mem'.accepted = a /\ mem'.backlog = mem.backlog /\ mem'.out = mem.out \o f
        /\ mem'.written = mem.written /\ mem'.numRead = mem.numRead
        /\ DOMAIN mem' = DOMAIN mem /\ Current' = Current
    BY <1>1, <2>1 DEF XfrTypeOK, Current
  <2>7. mem.out \o f \in Seq(Pairs) /\ (mem.out \o f) \o l = mem.out \o queue[c]
    <3> DEFINE s == mem.out
    <3>1. s \in Seq(Pairs) /\ f \in Seq(Pairs) /\ l \in Seq(Pairs)
      BY <2>4, <2>5
    <3> HIDE DEF s, f, l
    <3>2. s \o f \in Seq(Pairs) /\ (s \o f) \o l = s \o (f \o l)
      BY ONLY <3>1, ConcatProperties, ConcatAssociative
    <3> QED
      BY <2>5, <3>2 DEF s
  <2>8. /\ queue' \in [XfrClients -> Seq(Pairs)] /\ queue'[c] = l
        /\ \A d \in XfrClients \ {c} : queue'[d] = queue[d]
    <3> HIDE DEF l, c
    <3>1. queue' = [queue EXCEPT ![c] = l]
      BY <2>1 DEF l, c
    <3> QED
      BY <1>1, <2>4, <2>5, <3>1 DEF XfrTypeOK
  <2>9. XfrTypeOK'
    BY <1>1, <2>1, <2>3, <2>6, <2>7, <2>8 DEF XfrTypeOK
  <2>10. InLineOnce'
    BY <1>1, <2>3, <2>6 DEF InLineOnce, Line
  <2>11. mem'.out \o queue'[Current'] = Served(mem'.accepted, mem'.written)
    <3>1. mem.out \o queue[c] = Served(a, mem.written)
      BY <2>2 DEF XfrInv
    <3> QED
      BY <2>6, <2>7, <2>8, <3>1
  <2>12. \A i, j \in 1 .. Len(a) : a[i] = a[j] => i = j
    <3>1. \A i \in 1 .. Len(a) : Line[i] = a[i] /\ i \in 1 .. Len(Line)
      <4>1. \A i \in 1 .. Len(a) : Line[i] = a[i]
        BY <1>1, LineShort
      <4>2. Len(Line) = Len(a) + Len(mem.backlog) /\ Len(mem.backlog) \in Nat
        BY <1>1, LineShort
      <4> DEFINE n == Len(a)
                 m == Len(mem.backlog)
                 all == Len(Line)
      <4>3. n \in Nat /\ m \in Nat /\ all = n + m
        BY <1>2, <4>2
      <4> HIDE DEF n, m, all
      <4>4. \A i \in 1 .. n : i \in 1 .. all
        BY ONLY <4>3
      <4> QED
        BY <4>1, <4>4 DEF n, all
    <3> QED
      BY <1>1, <3>1 DEF InLineOnce
  <2>13. ASSUME NEW i \in 1 .. Len(a), i < Len(a)
         PROVE  pc'[a[i]] = "done" /\ queue'[a[i]] = <<>>
    <3>1. pc[a[i]] = "done" /\ queue[a[i]] = <<>>
      BY <2>13 DEF XfrInv
    <3>2. a[i] # c
      BY <1>2, <1>3, <2>2, <2>12, <2>13
    <3> QED
      BY <1>2, <2>3, <2>8, <3>1, <3>2
  <2>14. ASSUME NEW d \in XfrClients, \A i \in 1 .. Len(a) : a[i] # d
         PROVE  queue'[d] = SentBy(d, mem'.written[d])
    <3>1. queue[d] = SentBy(d, mem.written[d]) /\ d # c
      BY <1>3, <2>2, <2>14 DEF XfrInv
    <3> QED
      BY <2>6, <2>8, <3>1
  <2> QED
    <3>1. mem'.accepted = a /\ pc'["server"] = "copy"
      BY <2>1, <2>3, <2>6
    <3> HIDE DEF a
    <3> QED
      BY <2>2, <2>9, <2>10, <2>11, <2>13, <2>14, <3>1 DEF XfrInv
<1> QED
  BY <1>4, <1>5

\* Every step of us-xfr keeps the invariant.
LEMMA XfrStep ==
  ASSUME XfrInv, UsXfrNext
  PROVE  XfrInv'
BY XfrConnects, XfrWrites, XfrAccepts, XfrServes DEF UsXfrNext, XfrServer, XfrClient

\* The output lacks what the socket of the current client still holds.
LEMMA XfrOutput == XfrInv => OutputInAcceptOrder
<1> SUFFICES ASSUME XfrInv PROVE OutputInAcceptOrder
  OBVIOUS
<1> DEFINE a == mem.accepted
           parts == [k \in DOMAIN a |-> Written(a[k])]
           out == mem.out
           rest == queue[Current]
<1>1. XfrTypeOK /\ InLineOnce
  BY DEF XfrInv
<1>2. /\ Len(a) \in {0, 1, 2} /\ a \in Seq(XfrClients) /\ out \in Seq(Pairs)
      /\ DOMAIN a = 1 .. Len(a) /\ \A i \in 1 .. Len(a) : a[i] \in XfrClients
  <2>1. /\ Len(Line) <= 2 /\ Len(Line) = Len(a) + Len(mem.backlog)
        /\ Len(mem.backlog) \in Nat /\ Len(a) \in Nat
    BY <1>1, LineShort
  <2>2. Len(a) \in {0, 1, 2}
    <3> DEFINE n == Len(a)
               m == Len(mem.backlog)
               l == Len(Line)
    <3>1. n \in Nat /\ m \in Nat /\ l = n + m /\ l <= 2
      BY <2>1
    <3> HIDE DEF n, m, l
    <3>2. n \in {0, 1, 2}
      BY ONLY <3>1
    <3> QED
      BY <3>2 DEF n
  <2> QED
    BY <1>1, <2>2, LenProperties, ElementOfSeq DEF XfrTypeOK
<1>3. \A i \in 1 .. Len(a) : parts[i] = SentBy(a[i], mem.written[a[i]])
  BY <1>2 DEF Written, SentBy
<1>4. Len(parts) = Len(a) /\ parts \in Seq(Seq(Pairs))
  <2>1. \A i \in 1 .. Len(a) : parts[i] \in Seq(Pairs)
    <3>1. \A c \in XfrClients : SentBy(c, mem.written[c]) \in Seq(Pairs)
      BY <1>1, SentSeqs DEF XfrTypeOK
    <3> HIDE DEF parts, a
    <3> QED
      BY <1>2, <1>3, <3>1
  <2>2. DOMAIN parts = 1 .. Len(a) /\ Len(a) \in Nat /\ parts = [k \in DOMAIN parts |-> parts[k]]
    BY <1>2
  <2> HIDE DEF parts
  <2>3. parts \in [1 .. Len(a) -> Seq(Pairs)]
    BY <2>1, <2>2
  <2> QED
    BY <2>2, <2>3, SeqDef
<1>5. FlattenSeq(parts) = Served(a, mem.written)
  <2>1. CASE Len(a) = 0
    <3>1. parts = <<>>
      BY <1>4, <2>1, EmptySeq
    <3>2. FlattenSeq(parts) = parts
      BY <1>4, <2>1 DEF FlattenSeq
    <3> QED
      BY <2>1, <3>1, <3>2 DEF Served
  <2>2. CASE Len(a) = 1
    <3>1. FlattenSeq(parts) = parts[1]
      BY <1>4, <2>2, FlattenOne
    <3> QED
      BY <1>3, <2>2, <3>1 DEF Served
  <2>3. CASE Len(a) = 2
    <3>1. FlattenSeq(parts) = parts[1] \o parts[2]
      BY <1>4, <2>3, FlattenTwo
    <3>2. parts[1] = SentBy(a[1], mem.written[a[1]]) /\ parts[2] = SentBy(a[2], mem.written[a[2]])
      <4> HIDE DEF parts
      <4> QED
        BY <1>3, <2>3
    <3> HIDE DEF parts, a
    <3> QED
      BY ONLY <2>3, <3>1, <3>2 DEF Served
  <2> QED
    BY <1>2, <2>1, <2>2, <2>3
<1>6. IsPrefix(out, Served(a, mem.written))
      /\ (pc["server"] = "accept" => out = Served(a, mem.written))
  <2>1. CASE a = <<>>
    <3>1. Served(a, mem.written) = <<>> /\ out = <<>>
      BY <2>1, EmptySeq DEF Served, XfrInv
    <3>2. IsPrefix(<<>>, <<>>)
      BY EmptySeq DEF IsPrefix
    <3> QED
      BY <3>1, <3>2
  <2>2. CASE a # <<>>
    <3>1. Len(a) \in 1 .. Len(a) /\ Current = a[Len(a)]
      BY <1>2, <2>2, EmptySeq DEF Current
    <3>2. rest \in Seq(Pairs) /\ out \o rest = Served(a, mem.written)
      BY <1>1, <1>2, <2>2, <3>1 DEF XfrInv, XfrTypeOK
    <3>3. pc["server"] = "accept" => rest = <<>>
      BY <3>1 DEF XfrInv
    <3>4. IsPrefix(out, out \o rest) /\ out \o <<>> = out
      <4> HIDE DEF out, rest
      <4>1. /\ Len(out) \in Nat /\ Len(rest) \in Nat /\ Len(out \o rest) = Len(out) + Len(rest)
            /\ \A i \in 1 .. Len(out) + Len(rest) :
                 (out \o rest)[i] = IF i <= Len(out) THEN out[i] ELSE rest[i - Len(out)]
        BY <1>2, <3>2, ConcatProperties, LenProperties
      <4> DEFINE s == SubSeq(out, 1, Len(out))
                 t == SubSeq(out \o rest, 1, Len(out))
      <4>2. \A i \in 1 .. Len(out) : out[i] \in Pairs /\ (out \o rest)[i] = out[i]
        BY <1>2, <4>1, ElementOfSeq
      <4>3. s = t
        <5>1. s = out
          BY <1>2, SubSeqFull
        <5>2. /\ t \in Seq(Pairs) /\ Len(t) = (IF 1 <= Len(out) THEN Len(out) - 1 + 1 ELSE 0)
              /\ \A i \in 1 .. Len(out) - 1 + 1 : t[i] = (out \o rest)[1 + i - 1]
          BY <4>1, <4>2, SubSeqProperties
        <5>3. Len(t) = Len(out)
          BY <4>1, <5>2
        <5>4. ASSUME NEW i \in 1 .. Len(out) PROVE t[i] = out[i]
          <6>1. i \in 1 .. Len(out) - 1 + 1 /\ 1 + i - 1 = i
            BY <4>1
          <6> HIDE DEF t
          <6> QED
            BY <4>2, <5>2, <6>1
        <5> HIDE DEF t
        <5>5. t = out
          BY <1>2, <5>2, <5>3, <5>4, SeqEqual
        <5> QED
          BY <5>1, <5>5
      <4>4. out \o <<>> = out
        BY <1>2, ConcatEmptySeq
      <4> QED
        BY <4>1, <4>3, <4>4 DEF IsPrefix
    <3> QED
      BY <3>2, <3>3, <3>4
  <2> QED
    BY <2>1, <2>2
<1> QED
  BY <1>5, <1>6 DEF OutputInAcceptOrder

(***************************************************************************)
(* Bytes arrive once each and in order, whatever the interleaving: an      *)
(* answer to every piece in to_uppercase.c, one client after the other in  *)
(* us-xfr, every datagram of slow-reader-fast-sender, whose server binds   *)
(* its address once in all.                                                *)
(***************************************************************************)
THEOREM StreamsArrive == Spec => []StreamsIntact
<1> DEFINE IInv == /\ program = "to_uppercase" => UpperInv
                   /\ program = "us_xfr" => XfrInv
                   /\ program = "slow_reader" => SlowInv
<1>1. Init => IInv
  BY OneBegins, UpperBegins, XfrBegins, SlowBegins
<1>2. IInv /\ [Next]_vars => IInv'
  <2> SUFFICES ASSUME IInv, [Next]_vars PROVE IInv'
    OBVIOUS
  <2>1. CASE UNCHANGED vars
    BY <2>1 DEF vars, UpperInv, UpperTypeOK, UpperPhase, XfrInv, XfrTypeOK, InLineOnce,
                Line, Current, SlowInv, SlowTypeOK
  <2>2. CASE ~UNCHANGED vars
    BY <2>2, OneProgram, UpperStep, XfrStep, SlowStep
  <2> QED
    BY <2>1, <2>2
<1>3. IInv => StreamsIntact
  BY UpperAnswers, XfrOutput, SlowBounds
  DEF StreamsIntact, AnswersInStep, OutputInAcceptOrder, DatagramsInOrder, BoundOnce
<1> QED
  BY <1>1, <1>2, <1>3, PTL DEF Spec

-----------------------------------------------------------------------------
\* msg_exchange.c

ExchangeTypeOK ==
  /\ program = "msg_exchange"
  /\ pc \in [{"a parent", "a child", "b parent", "b child"} ->
               {"open1", "open2", "fork", "fgets", "send", "receive",
                "unlink1", "unlink2", "done"}]
  /\ DOMAIN mem = {"name", "typed", "mqd1", "mqd2", "restarted", "cleaned"}
  /\ DOMAIN mem.name = Users /\ DOMAIN mem.mqd1 = Users /\ DOMAIN mem.mqd2 = Users
  /\ mem.name = [v \in Users |-> mem.name[v]] /\ mem.cleaned \in BOOLEAN

\* A process of w will still remove the name of v: one that has opened it and
\* cannot end but by its cleaner, or one that is in its cleaner.
WillUnlink(w, v) ==
  \/ pc[Parent(w)] \in {"open2", "fork"} \/ pc[Child(w)] = "receive"
  \/ \E p \in Tasks(w) : pc[p] = "unlink1" \/ (pc[p] = "unlink2" /\ v = Peer(w))

\* As long as nobody has cleaned up, who has a queue open has the one that is
\* named.
ExchangeInv ==
  /\ ExchangeTypeOK
  /\ \A v \in Users : mem.name[v] # 0 => \E w \in Users : WillUnlink(w, v)
  /\ ~mem.cleaned =>
       /\ \A p \in {"a parent", "a child", "b parent", "b child"} : pc[p] # "unlink2"
       /\ \A u \in Users : mem.mqd1[u] \in {0, mem.name[u]}
                           /\ mem.mqd2[u] \in {0, mem.name[Peer(u)]}

\* Neither queue exists.
LEMMA ExchangeBegins == MsgExchangeInit => ExchangeInv
<1> SUFFICES ASSUME MsgExchangeInit PROVE ExchangeInv
  OBVIOUS
<1> USE DEF Users, Peer, Parent, Child, Tasks
<1>1. /\ program = "msg_exchange"
      /\ pc = [p \in Tasks("a") \cup Tasks("b") |->
                 IF p \in {Parent("a"), Parent("b")} THEN "open1" ELSE "done"]
      /\ mem.name = [u \in Users |-> 0] /\ mem.mqd1 = [u \in Users |-> 0]
      /\ mem.mqd2 = [u \in Users |-> 0] /\ mem.cleaned = FALSE
      /\ DOMAIN mem = {"name", "typed", "mqd1", "mqd2", "restarted", "cleaned"}
  BY DEF MsgExchangeInit, Begin
<1> QED
  BY <1>1 DEF ExchangeInv, ExchangeTypeOK

\* The names of the tasks of a user and of the peer.
LEMMA UserTasks ==
  ASSUME NEW u \in Users
  PROVE  /\ Peer(u) \in Users /\ Peer(u) # u /\ Peer(Peer(u)) = u
         /\ Users = {u, Peer(u)}
         /\ {"a parent", "a child", "b parent", "b child"} = Tasks(u) \cup Tasks(Peer(u))
         /\ Tasks(u) \cap Tasks(Peer(u)) = {}
         /\ Parent(u) # Child(u)
BY DEF Users, Peer, Parent, Child, Tasks

\* Opening: the parent will unlink what it opens.
LEMMA ExchangeOpens ==
  ASSUME ExchangeInv, NEW u \in Users, OpenQueues(u)
  PROVE  ExchangeInv'
<1> USE DEF Step, Compute, Goto, Move, kernel, signals
<1> DEFINE P == Parent(u)
           All == {"a parent", "a child", "b parent", "b child"}
<1>1. ExchangeTypeOK /\ P \in All
  BY DEF ExchangeInv, Parent
<1>2. PICK x \in Users, l \in {"open2", "fork"} :
        /\ program' = program /\ pc[P] \in {"open1", "open2"} /\ pc' = [pc EXCEPT ![P] = l]
        /\ mem'.name = [mem.name EXCEPT ![x] = Opened(x)]
        /\ \/ /\ x = u /\ mem'.mqd1 = [mem.mqd1 EXCEPT ![u] = Opened(u)]
              /\ mem'.mqd2 = mem.mqd2
           \/ /\ x = Peer(u) /\ mem'.mqd2 = [mem.mqd2 EXCEPT ![u] = Opened(Peer(u))]
              /\ mem'.mqd1 = mem.mqd1
        /\ (mem'.cleaned <=> mem.cleaned) /\ mem'.cleaned \in BOOLEAN /\ DOMAIN mem' = DOMAIN mem
  <2>1. CASE /\ Step("msg_exchange", P, "open1", "open2")
             /\ mem' = [mem EXCEPT !.name[u] = Opened(u), !.mqd1[u] = Opened(u)]
    BY <1>1, <2>1 DEF ExchangeTypeOK
  <2>2. CASE /\ Step("msg_exchange", P, "open2", "fork")
             /\ mem' = [mem EXCEPT !.name[Peer(u)] = Opened(Peer(u)),
                                   !.mqd2[u] = Opened(Peer(u))]
    <3>1. /\ mem'.name = [mem.name EXCEPT ![Peer(u)] = Opened(Peer(u))]
          /\ mem'.mqd2 = [mem.mqd2 EXCEPT ![u] = Opened(Peer(u))]
          /\ mem'.mqd1 = mem.mqd1 /\ DOMAIN mem' = DOMAIN mem
          /\ mem'.cleaned = mem.cleaned
      BY <1>1, <2>2 DEF ExchangeTypeOK
    <3> QED
      BY <1>1, <2>2, <3>1, UserTasks DEF ExchangeTypeOK
  <2> QED
    BY <2>1, <2>2 DEF OpenQueues
<1>3. /\ pc' \in [All -> {"open1", "open2", "fork", "fgets", "send", "receive",
                          "unlink1", "unlink2", "done"}]
      /\ pc'[P] = l /\ \A p \in All \ {P} : pc'[p] = pc[p]
  BY <1>1, <1>2 DEF ExchangeTypeOK
<1>4. ExchangeTypeOK'
  BY <1>1, <1>2, <1>3 DEF ExchangeTypeOK
<1>5. \A v \in Users : WillUnlink(u, v)'
  BY <1>3 DEF WillUnlink
<1>6. ASSUME ~mem'.cleaned, NEW w \in Users
      PROVE  mem'.mqd1[w] \in {0, mem'.name[w]} /\ mem'.mqd2[w] \in {0, mem'.name[Peer(w)]}
  <2>1. /\ ~mem.cleaned
        /\ \A y \in Users : mem.mqd1[y] \in {0, mem.name[y]}
                            /\ mem.mqd2[y] \in {0, mem.name[Peer(y)]}
    BY <1>2, <1>6 DEF ExchangeInv
  <2>2. /\ mem'.name[x] = Opened(x) /\ \A y \in Users \ {x} : mem'.name[y] = mem.name[y]
    BY <1>1, <1>2 DEF ExchangeTypeOK
  <2>3. mem.name[x] \in {0, Opened(x)}
    BY DEF Opened
  <2> DEFINE o == Opened(x)
  <2> HIDE DEF o
  <2>4. mem'.mqd1[w] = mem.mqd1[w] \/ (w = x /\ mem'.mqd1[w] = o)
    <3>1. mem'.mqd1 = mem.mqd1 \/ (x = u /\ mem'.mqd1 = [mem.mqd1 EXCEPT ![x] = o])
      BY <1>2 DEF o
    <3>2. DOMAIN mem.mqd1 = Users
      BY <1>1 DEF ExchangeTypeOK
    <3> QED
      BY <3>1, <3>2
  <2>5. mem'.mqd2[w] = mem.mqd2[w] \/ (Peer(w) = x /\ mem'.mqd2[w] = o)
    <3>1. mem'.mqd2 = mem.mqd2 \/ (x = Peer(u) /\ mem'.mqd2 = [mem.mqd2 EXCEPT ![u] = o])
      BY <1>2 DEF o
    <3>2. DOMAIN mem.mqd2 = Users
      BY <1>1 DEF ExchangeTypeOK
    <3> QED
      BY <3>1, <3>2
  <2>8. mem'.name[x] = o /\ mem.name[x] \in {0, o}
    BY <2>2, <2>3 DEF o
  <2>6. mem'.mqd1[w] \in {0, mem'.name[w]}
    BY <2>1, <2>2, <2>4, <2>8
  <2>7. mem'.mqd2[w] \in {0, mem'.name[Peer(w)]}
    BY <2>1, <2>2, <2>5, <2>8, UserTasks
  <2> QED
    BY <2>6, <2>7
<1>7. ~mem'.cleaned => \A p \in All : pc'[p] # "unlink2"
  BY <1>2, <1>3 DEF ExchangeInv
<1> QED
  BY <1>4, <1>5, <1>6, <1>7 DEF ExchangeInv

\* A task that goes elsewhere, and closes its queues if it ends, unlinks later
\* what it was to unlink.
LEMMA ExchangeMoves ==
  ASSUME ExchangeInv, NEW u \in Users, NEW p \in Tasks(u),
         NEW l \in {"open1", "open2", "fork", "fgets", "send", "receive", "unlink1", "done"},
         program' = program, pc' = [pc EXCEPT ![p] = l],
         DOMAIN mem' = DOMAIN mem,
         mem'.name = mem.name, mem'.cleaned = mem.cleaned,
         DOMAIN mem'.mqd1 = Users, DOMAIN mem'.mqd2 = Users,
         \A w \in Users : mem'.mqd1[w] \in {0, mem.mqd1[w]} /\ mem'.mqd2[w] \in {0, mem.mqd2[w]},
         \/ pc[p] \in {"open1", "fgets", "send", "done"} \/ l = "unlink1"
         \/ pc[p] = l
  PROVE  ExchangeInv'
<1> DEFINE All == {"a parent", "a child", "b parent", "b child"}
<1>1. ExchangeTypeOK /\ p \in All /\ p \in {Parent(u), Child(u)}
  BY DEF ExchangeInv, Tasks, Parent, Child, Users
<1>2. /\ pc' \in [All -> {"open1", "open2", "fork", "fgets", "send", "receive",
                          "unlink1", "unlink2", "done"}]
      /\ pc'[p] = l /\ \A q \in All \ {p} : pc'[q] = pc[q]
  BY <1>1 DEF ExchangeTypeOK
<1>3. ExchangeTypeOK'
  BY <1>1, <1>2 DEF ExchangeTypeOK
<1>4. ASSUME NEW w \in Users, NEW v \in Users, WillUnlink(w, v)
      PROVE  WillUnlink(w, v)'
  <2>1. Parent(w) \in All /\ Child(w) \in All /\ Tasks(w) = {Parent(w), Child(w)}
        /\ (p \in Tasks(w) => w = u) /\ Tasks(w) \subseteq All
    BY DEF Parent, Child, Tasks, Users
  <2>2. PICK q \in Tasks(w) :
          \/ q = Parent(w) /\ pc[q] \in {"open2", "fork"}
          \/ q = Child(w) /\ pc[q] = "receive"
          \/ pc[q] = "unlink1" \/ (pc[q] = "unlink2" /\ v = Peer(w))
    <3>1. \/ pc[Parent(w)] \in {"open2", "fork"} \/ pc[Child(w)] = "receive"
          \/ \E q \in Tasks(w) : pc[q] = "unlink1" \/ (pc[q] = "unlink2" /\ v = Peer(w))
      BY <1>4 DEF WillUnlink
    <3>2. Parent(w) \in Tasks(w) /\ Child(w) \in Tasks(w)
      BY <2>1
    <3> QED
      BY <3>1, <3>2
  <2>3. pc'[q] = pc[q] \/ pc'[q] = "unlink1"
    BY <1>1, <1>2, <2>1, <2>2
  <2> QED
    BY <2>1, <2>2, <2>3 DEF WillUnlink
<1>5. \A v \in Users : mem'.name[v] # 0 => \E w \in Users : WillUnlink(w, v)'
  BY <1>4 DEF ExchangeInv
<1>6. ~mem'.cleaned =>
        /\ \A q \in All : pc'[q] # "unlink2"
        /\ \A w \in Users : mem'.mqd1[w] \in {0, mem'.name[w]}
                            /\ mem'.mqd2[w] \in {0, mem'.name[Peer(w)]}
  BY <1>2 DEF ExchangeInv
<1> QED
  BY <1>3, <1>5, <1>6 DEF ExchangeInv

\* What a task closes is 0 afterwards, and the names stay.
LEMMA ClosedQueues ==
  ASSUME ExchangeTypeOK, NEW u \in Users, NEW p \in Tasks(u), mem' = Closed(u, p)
  PROVE  /\ DOMAIN mem' = DOMAIN mem /\ mem'.name = mem.name /\ mem'.cleaned = mem.cleaned
         /\ DOMAIN mem'.mqd1 = Users /\ DOMAIN mem'.mqd2 = Users
         /\ \A w \in Users : mem'.mqd1[w] \in {0, mem.mqd1[w]}
                             /\ mem'.mqd2[w] \in {0, mem.mqd2[w]}
<1>1. CASE p = Child(u)
  <2>1. mem' = [mem EXCEPT !.mqd2[u] = 0]
    BY <1>1 DEF Closed
  <2> QED
    BY <2>1 DEF ExchangeTypeOK
<1>2. CASE p # Child(u)
  <2> DEFINE c == IF pc[Child(u)] = "done" THEN 0 ELSE mem.mqd2[u]
  <2>1. mem' = [mem EXCEPT !.mqd1[u] = 0, !.mqd2[u] = c]
    BY <1>2 DEF Closed
  <2>2. c \in {0, mem.mqd2[u]}
    OBVIOUS
  <2> HIDE DEF c
  <2>3. /\ DOMAIN mem' = DOMAIN mem /\ mem'.name = mem.name /\ mem'.cleaned = mem.cleaned
        /\ mem'.mqd1 = [mem.mqd1 EXCEPT ![u] = 0] /\ mem'.mqd2 = [mem.mqd2 EXCEPT ![u] = c]
    BY <2>1 DEF ExchangeTypeOK
  <2>4. DOMAIN mem.mqd1 = Users /\ DOMAIN mem.mqd2 = Users
    BY DEF ExchangeTypeOK
  <2> QED
    BY <2>2, <2>3, <2>4
<1> QED
  BY <1>1, <1>2

\* A user forks.
LEMMA ExchangeForks ==
  ASSUME ExchangeInv, NEW u \in Users, ForkExchange(u)
  PROVE  ExchangeInv'
<1> DEFINE All == {"a parent", "a child", "b parent", "b child"}
           P == Parent(u)
           C == Child(u)
<1>1. ExchangeTypeOK /\ P \in All /\ C \in All /\ P # C
  BY DEF ExchangeInv, Users, Parent, Child
<1>2. /\ program' = program /\ mem' = mem /\ pc[P] = "fork"
      /\ pc' = [pc EXCEPT ![P] = "fgets", ![C] = "receive"]
  BY DEF ForkExchange, Fork
<1>3. /\ pc' \in [All -> {"open1", "open2", "fork", "fgets", "send", "receive",
                          "unlink1", "unlink2", "done"}]
      /\ pc'[C] = "receive" /\ pc'[P] = "fgets"
      /\ \A q \in All \ {P, C} : pc'[q] = pc[q]
  BY <1>1, <1>2 DEF ExchangeTypeOK
<1>4. ExchangeTypeOK'
  BY <1>1, <1>2, <1>3 DEF ExchangeTypeOK
<1>5. \A v \in Users : WillUnlink(u, v)'
  BY <1>3 DEF WillUnlink
<1>6. ~mem'.cleaned =>
        /\ \A q \in All : pc'[q] # "unlink2"
        /\ \A w \in Users : mem'.mqd1[w] \in {0, mem'.name[w]}
                            /\ mem'.mqd2[w] \in {0, mem'.name[Peer(w)]}
  BY <1>2, <1>3 DEF ExchangeInv
<1> QED
  BY <1>4, <1>5, <1>6 DEF ExchangeInv

\* The cleaner of a task has removed a name, which it is to remove no more.
LEMMA ExchangeUnlinks ==
  ASSUME ExchangeInv, NEW u \in Users, NEW p \in Tasks(u), Unlink(u, p)
  PROVE  ExchangeInv'
<1> USE DEF Step, Compute, Goto, Move, kernel
<1> DEFINE All == {"a parent", "a child", "b parent", "b child"}
<1>1. ExchangeTypeOK /\ p \in All /\ p \in {Parent(u), Child(u)}
  BY DEF ExchangeInv, Tasks, Parent, Child, Users
<1>2. PICK x \in Users, l \in {"unlink2", "done"} :
        /\ program' = program /\ pc' = [pc EXCEPT ![p] = l]
        /\ mem'.name = [mem.name EXCEPT ![x] = 0]
        /\ mem'.mqd1 = mem.mqd1 /\ mem'.mqd2 = mem.mqd2 /\ DOMAIN mem' = DOMAIN mem
        /\ \/ x = u /\ l = "unlink2" /\ pc[p] = "unlink1" /\ mem'.cleaned = TRUE
           \/ /\ x = Peer(u) /\ l = "done" /\ pc[p] = "unlink2"
              /\ mem'.cleaned = mem.cleaned
  <2>1. CASE Compute("msg_exchange", p, "unlink1", "unlink2",
                     [mem EXCEPT !.name[u] = 0, !.cleaned = TRUE])
    BY <1>1, <2>1 DEF ExchangeTypeOK
  <2>2. CASE Compute("msg_exchange", p, "unlink2", "done", [mem EXCEPT !.name[Peer(u)] = 0])
    <3>1. /\ mem'.name = [mem.name EXCEPT ![Peer(u)] = 0]
          /\ mem'.mqd1 = mem.mqd1 /\ mem'.mqd2 = mem.mqd2 /\ DOMAIN mem' = DOMAIN mem
          /\ mem'.cleaned = mem.cleaned
      BY <1>1, <2>2 DEF ExchangeTypeOK
    <3> QED
      BY <1>1, <2>2, <3>1, UserTasks
  <2> QED
    BY <2>1, <2>2 DEF Unlink
<1>3. /\ pc' \in [All -> {"open1", "open2", "fork", "fgets", "send", "receive",
                          "unlink1", "unlink2", "done"}]
      /\ pc'[p] = l /\ \A q \in All \ {p} : pc'[q] = pc[q]
  BY <1>1, <1>2 DEF ExchangeTypeOK
<1>4. ExchangeTypeOK'
  <2>1. mem'.cleaned \in BOOLEAN
    BY <1>1, <1>2 DEF ExchangeTypeOK
  <2> QED
    BY <1>1, <1>2, <1>3, <2>1 DEF ExchangeTypeOK
<1>5. ASSUME NEW w \in Users, NEW v \in Users, v # x, WillUnlink(w, v)
      PROVE  WillUnlink(w, v)'
  <2>1. Parent(w) \in All /\ Child(w) \in All /\ Tasks(w) = {Parent(w), Child(w)}
        /\ (p \in Tasks(w) => w = u) /\ Tasks(w) \subseteq All
    BY DEF Parent, Child, Tasks, Users
  <2>2. CASE p \notin Tasks(w)
    BY <1>3, <1>5, <2>1, <2>2 DEF WillUnlink
  <2>3. CASE p \in Tasks(w) /\ pc[p] = "unlink1"
    <3>1. pc'[p] = "unlink2" /\ w = u /\ x = u
      BY <1>2, <1>3, <2>1, <2>3
    <3>2. v = Peer(w)
      BY <1>5, <3>1, UserTasks
    <3> QED
      BY <2>3, <3>1, <3>2 DEF WillUnlink
  <2>4. CASE p \in Tasks(w) /\ pc[p] # "unlink1"
    <3>1. pc[p] = "unlink2" /\ w = u /\ x = Peer(w)
      BY <1>2, <2>1, <2>4
    <3>2. pc[p] \notin {"open2", "fork", "receive", "unlink1"} /\ v # Peer(w)
      BY <1>5, <3>1
    <3> QED
      BY <1>3, <1>5, <2>1, <3>2 DEF WillUnlink
  <2> QED
    BY <2>2, <2>3, <2>4
<1>6. ASSUME NEW v \in Users, mem'.name[v] # 0
      PROVE  \E w \in Users : WillUnlink(w, v)'
  <2>1. v # x /\ mem.name[v] # 0
    BY <1>1, <1>2, <1>6 DEF ExchangeTypeOK
  <2>2. PICK w \in Users : WillUnlink(w, v)
    BY <2>1 DEF ExchangeInv
  <2> QED
    BY <1>5, <2>1, <2>2
<1>7. mem'.cleaned
  <2>1. pc[p] = "unlink2" => mem.cleaned
    BY <1>1 DEF ExchangeInv
  <2> QED
    BY <1>2, <2>1
<1> QED
  BY <1>4, <1>6, <1>7 DEF ExchangeInv

\* Every step of msg_exchange.c keeps the invariant.
LEMMA ExchangeStep ==
  ASSUME ExchangeInv, MsgExchangeNext
  PROVE  ExchangeInv'
<1> USE DEF Step, Compute, Goto, Move, kernel, signals
<1>1. ExchangeTypeOK
  BY DEF ExchangeInv
<1>2. PICK u \in Users :
        ExchangeTask(u) \/ ReceiveMessage(u) \/ TypeLine(u) \/ Interrupt(u) \/ RunAgain(u)
  BY DEF MsgExchangeNext
<1>3. Parent(u) \in Tasks(u) /\ Child(u) \in Tasks(u)
  BY DEF Tasks
<1>4. CASE SendMessage(u)
  BY <1>1, <1>3, <1>4, ExchangeMoves DEF SendMessage, ExchangeTypeOK
<1>5. CASE ReceiveMessage(u)
  BY <1>1, <1>3, <1>5, ExchangeMoves DEF ReceiveMessage, ExchangeTypeOK
<1>6. CASE TypeLine(u)
  <2>1. CASE Compute("msg_exchange", Parent(u), "fgets", "send", [mem EXCEPT !.typed = @ + 1])
    <3>1. /\ DOMAIN mem' = DOMAIN mem /\ mem'.name = mem.name /\ mem'.cleaned = mem.cleaned
          /\ mem'.mqd1 = mem.mqd1 /\ mem'.mqd2 = mem.mqd2
      BY <1>1, <2>1 DEF ExchangeTypeOK
    <3> QED
      BY <1>1, <1>3, <2>1, <3>1, ExchangeMoves DEF ExchangeTypeOK
  <2>2. CASE Compute("msg_exchange", Parent(u), "fgets", "done", Closed(u, Parent(u)))
    <3>1. /\ mem' = Closed(u, Parent(u)) /\ program' = program /\ pc[Parent(u)] = "fgets"
          /\ pc' = [pc EXCEPT ![Parent(u)] = "done"]
      BY <2>2
    <3> QED
      BY <1>1, <1>3, <3>1, ClosedQueues, ExchangeMoves
  <2> QED
    BY <1>6, <2>1, <2>2 DEF TypeLine
<1>7. CASE Interrupt(u)
  <2>1. program' = program /\ pc' = pc /\ mem' = mem
    BY <1>7 DEF Interrupt
  <2> QED
    <3>1. ExchangeTypeOK'
      BY <1>1, <2>1 DEF ExchangeTypeOK
    <3>2. \A w, v \in Users : WillUnlink(w, v) => WillUnlink(w, v)'
      BY <2>1 DEF WillUnlink
    <3> QED
      BY <2>1, <3>1, <3>2 DEF ExchangeInv
<1>8. CASE RunAgain(u)
  <2>1. /\ program' = program /\ pc[Parent(u)] = "done"
        /\ pc' = [pc EXCEPT ![Parent(u)] = "open1"]
        /\ DOMAIN mem' = DOMAIN mem /\ mem'.name = mem.name /\ mem'.cleaned = mem.cleaned
        /\ mem'.mqd1 = mem.mqd1 /\ mem'.mqd2 = mem.mqd2
    BY <1>1, <1>3, <1>8 DEF RunAgain, ExchangeTypeOK
  <2> QED
    BY <1>1, <1>3, <2>1, ExchangeMoves DEF ExchangeTypeOK
<1>9. ASSUME NEW p \in Tasks(u), CallCleaner(u, p)  PROVE ExchangeInv'
  <2>1. mem' = Closed(u, p) /\ program' = program /\ pc' = [pc EXCEPT ![p] = "unlink1"]
    BY <1>9 DEF CallCleaner
  <2> QED
    BY <1>1, <2>1, ClosedQueues, ExchangeMoves
<1> QED
  BY <1>2, <1>4, <1>5, <1>6, <1>7, <1>8, <1>9, ExchangeOpens, ExchangeForks, ExchangeUnlinks
  DEF ExchangeTask

\* What the invariant says once the four processes have ended.
LEMMA ExchangeSound == ExchangeInv => NoQueueLeft /\ SameQueues
<1> SUFFICES ASSUME ExchangeInv PROVE NoQueueLeft /\ SameQueues
  OBVIOUS
<1>1. ExchangeTypeOK
  BY DEF ExchangeInv
<1>2. ASSUME \A p \in DOMAIN pc : pc[p] = "done"
      PROVE  mem.name = [u \in Users |-> 0]
  <2>1. ASSUME NEW v \in Users PROVE mem.name[v] = 0
    <3>1. \A w \in Users : Parent(w) \in DOMAIN pc /\ Child(w) \in DOMAIN pc
                           /\ Tasks(w) \subseteq DOMAIN pc
      BY <1>1 DEF ExchangeTypeOK, Users, Parent, Child, Tasks
    <3>2. \A w \in Users : ~WillUnlink(w, v)
      BY <1>2, <3>1 DEF WillUnlink
    <3> QED
      BY <3>2 DEF ExchangeInv
  <2> QED
    BY <1>1, <2>1 DEF ExchangeTypeOK
<1>3. ASSUME ~mem.cleaned, NEW u \in Users, mem.mqd1[u] # 0, mem.mqd2[Peer(u)] # 0
      PROVE  mem.mqd1[u] = mem.mqd2[Peer(u)]
  <2>1. Peer(u) \in Users /\ Peer(Peer(u)) = u
    BY UserTasks
  <2>2. mem.mqd1[u] \in {0, mem.name[u]} /\ mem.mqd2[Peer(u)] \in {0, mem.name[Peer(Peer(u))]}
    BY <1>3, <2>1 DEF ExchangeInv
  <2> QED
    BY <1>3, <2>1, <2>2
<1> QED
  BY <1>2, <1>3 DEF NoQueueLeft, SameQueues

-----------------------------------------------------------------------------
\* mq_notify_sig.c, pmsg_create.c, pmsg_send.c and pmsg_receive.c

MqTasks == Senders \cup Receivers \cup {"creator", "notified"}

MqTypeOK ==
  /\ program = "mq"
  /\ DOMAIN pc = MqTasks /\ DOMAIN mask = MqTasks /\ DOMAIN pending = MqTasks
  /\ DOMAIN mem = {"flag", "capacity", "sent", "got", "registered", "emptied"}
  /\ mem.registered \in BOOLEAN /\ mem.emptied \in BOOLEAN
  /\ mem.sent \in Seq(Senders) /\ mem.got \in Seq(Senders)
  /\ DOMAIN queue = {"mq"} /\ queue.mq \in Seq(Senders)

\* From sigprocmask to sigsuspend the signal is blocked, and what registered
\* is registered still or has its signal pending.
MqInv ==
  /\ MqTypeOK
  /\ pc["notified"] \in {"register", "suspend"} => mask["notified"] = {"SIGUSR1"}
  /\ pc["notified"] \in {"suspend", "suspended"} =>
       mem.registered \/ pending["notified"] = {"SIGUSR1"}
  /\ pending["notified"] \in {{}, {"SIGUSR1"}}
  /\ mem.registered /\ mem.emptied => queue.mq = <<>>
  /\ mem.sent = mem.got \o queue.mq
  /\ (\E r \in Receivers : pc[r] = "waiting") => queue.mq = <<>>

\* Nobody has registered or sent.
LEMMA MqBegins == MqNotifyInit => MqInv
<1> SUFFICES ASSUME MqNotifyInit PROVE MqInv
  OBVIOUS
<1>1. PICK flag \in [Receivers -> Modes] :
        Begin("mq", [p \in Senders \cup Receivers \cup {"creator", "notified"} |-> "open"],
              [flag |-> flag, capacity |-> 0, sent |-> <<>>, got |-> <<>>,
               registered |-> FALSE, emptied |-> FALSE],
              [mq |-> <<>>])
  BY DEF MqNotifyInit
<1>2. /\ program = "mq" /\ pc = [p \in MqTasks |-> "open"]
      /\ mask = [p \in MqTasks |-> {}] /\ pending = [p \in MqTasks |-> {}]
      /\ mem.sent = <<>> /\ mem.got = <<>> /\ ~mem.registered /\ ~mem.emptied
      /\ DOMAIN mem = {"flag", "capacity", "sent", "got", "registered", "emptied"}
      /\ queue.mq = <<>> /\ DOMAIN queue = {"mq"}
      /\ mem.registered = FALSE /\ mem.emptied = FALSE
  BY <1>1 DEF Begin, MqTasks
<1>3. <<>> \in Seq(Senders) /\ <<>> \o <<>> = <<>>
  BY EmptySeq, ConcatEmptySeq
<1>4. "notified" \in MqTasks /\ Receivers \subseteq MqTasks
  BY DEF MqTasks
<1> QED
  BY <1>2, <1>3, <1>4 DEF MqInv, MqTypeOK

\* A step of one task p that leaves the queue and what was sent alone.
LEMMA MqMoves ==
  ASSUME MqInv, NEW p \in MqTasks \ {"notified"}, NEW l,
         program' = program, pc' = [pc EXCEPT ![p] = l], mask' = mask, pending' = pending,
         queue' = queue, DOMAIN mem' = DOMAIN mem,
         mem'.sent = mem.sent, mem'.got = mem.got,
         mem'.registered = mem.registered, mem'.emptied = mem.emptied,
         l = "waiting" => queue.mq = <<>>
  PROVE  MqInv'
<1>1. MqTypeOK
  BY DEF MqInv
<1>2. /\ pc'["notified"] = pc["notified"]
      /\ \A q \in MqTasks \ {p} : pc'[q] = pc[q]
      /\ pc'[p] = l /\ DOMAIN pc' = MqTasks
  BY <1>1 DEF MqTypeOK, MqTasks
<1>3. MqTypeOK'
  BY <1>1, <1>2 DEF MqTypeOK
<1>4. (\E r \in Receivers : pc'[r] = "waiting") => queue'.mq = <<>>
  <2> SUFFICES ASSUME NEW r \in Receivers, pc'[r] = "waiting" PROVE queue.mq = <<>>
    OBVIOUS
  <2>1. CASE r = p
    BY <1>2, <2>1
  <2>2. CASE r # p
    <3>1. pc[r] = "waiting"
      BY <1>2, <2>2 DEF MqTasks
    <3> QED
      BY <3>1 DEF MqInv
  <2> QED
    BY <2>1, <2>2
<1> QED
  BY <1>2, <1>3, <1>4 DEF MqInv

\* Every step of a sender.
LEMMA MqSends ==
  ASSUME MqInv, NEW s \in Senders, Sender(s)
  PROVE  MqInv'
<1> USE DEF Step, Compute, Goto, Move, kernel, signals
<1>1. MqTypeOK /\ s \in MqTasks \ {"notified"} /\ s \notin Receivers
      /\ Receivers \subseteq MqTasks /\ "notified" \notin Receivers /\ "notified" \in MqTasks
  BY MqNotifyAssumption DEF MqInv, MqTasks
<1> DEFINE m == queue.mq
           g == mem.got
<1>2. m \in Seq(Senders) /\ g \in Seq(Senders) /\ mem.sent \in Seq(Senders)
      /\ mem.sent = g \o m
  BY <1>1 DEF MqInv, MqTypeOK
<1>3. Append(mem.sent, s) \in Seq(Senders) /\ Append(g, s) \in Seq(Senders)
      /\ Append(m, s) \in Seq(Senders)
  BY <1>2, AppendProperties
<1>4. CASE OpenSender(s)
  <2>1. /\ program' = program /\ mem' = mem /\ mask' = mask /\ pending' = pending
        /\ queue' = queue
        /\ pc' = [pc EXCEPT ![s] = IF mem.capacity = 0 THEN "done" ELSE "send"]
    BY <1>4 DEF OpenSender, OpenMq
  <2> QED
    BY <1>1, <2>1, MqMoves
<1>5. CASE HandOver(s)
  <2>1. PICK r \in Receivers :
          /\ pc[s] = "send" /\ pc[r] = "waiting"
          /\ program' = program /\ mask' = mask /\ pending' = pending /\ queue' = queue
          /\ pc' = [pc EXCEPT ![s] = "done", ![r] = "done"]
          /\ mem' = [mem EXCEPT !.sent = Append(@, s), !.got = Append(@, s)]
    BY <1>5 DEF HandOver
  <2>2. m = <<>>
    BY <2>1 DEF MqInv
  <2>3. /\ DOMAIN mem' = DOMAIN mem /\ mem'.sent = Append(mem.sent, s)
        /\ mem'.got = Append(g, s)
        /\ mem'.registered = mem.registered /\ mem'.emptied = mem.emptied
    BY <1>1, <2>1 DEF MqTypeOK
  <2>4. mem'.sent = mem'.got \o queue'.mq
    <3>1. g \o <<>> = g /\ Append(g, s) \o <<>> = Append(g, s)
      BY <1>2, <1>3, ConcatEmptySeq
    <3> QED
      BY <1>2, <2>1, <2>2, <2>3, <3>1
  <2>5. pc'["notified"] = pc["notified"] /\ DOMAIN pc' = MqTasks
    BY <1>1, <2>1 DEF MqTypeOK
  <2>6. MqTypeOK'
    BY <1>1, <1>3, <2>1, <2>3, <2>5 DEF MqTypeOK
  <2> QED
    BY <2>1, <2>2, <2>3, <2>4, <2>5, <2>6 DEF MqInv
<1>6. CASE Enqueue(s)
  <2> DEFINE notifies == m = <<>> /\ mem.registered
  <2>1. /\ program' = program /\ pc' = [pc EXCEPT ![s] = "done"] /\ Waiting = {}
        /\ mask' = mask
        /\ queue' = [queue EXCEPT !.mq = Append(@, s)]
        /\ mem' = [mem EXCEPT !.sent = Append(@, s), !.registered = @ /\ ~notifies]
        /\ pending' = [pending EXCEPT !["notified"] = IF notifies THEN {"SIGUSR1"} ELSE @]
    BY <1>6 DEF Enqueue
  <2>2. \A r \in Receivers : pc[r] # "waiting"
    BY <2>1 DEF Waiting
  <2>3. /\ DOMAIN mem' = DOMAIN mem /\ mem'.sent = Append(mem.sent, s) /\ mem'.got = g
        /\ mem'.emptied = mem.emptied /\ mem'.registered = (mem.registered /\ ~notifies)
        /\ queue'.mq = Append(m, s) /\ DOMAIN queue' = DOMAIN queue
    BY <1>1, <2>1 DEF MqTypeOK
  <2>4. mem'.sent = mem'.got \o queue'.mq
    <3> HIDE DEF m, g
    <3>1. /\ Append(m, s) = m \o <<s>> /\ <<s>> \in Seq(Senders)
          /\ Append(mem.sent, s) = mem.sent \o <<s>>
      BY <1>2, AppendIsConcat
    <3>2. (g \o m) \o <<s>> = g \o (m \o <<s>>)
      BY <1>2, <3>1, ConcatAssociative
    <3> QED
      BY <1>2, <2>3, <3>1, <3>2
  <2>5. /\ pc'["notified"] = pc["notified"] /\ DOMAIN pc' = MqTasks
        /\ \A r \in Receivers : pc'[r] # "waiting"
    BY <1>1, <2>1, <2>2 DEF MqTypeOK
  <2>6. /\ pending'["notified"] = IF notifies THEN {"SIGUSR1"} ELSE pending["notified"]
        /\ DOMAIN pending' = MqTasks
    BY <1>1, <2>1 DEF MqTypeOK
  <2>7. mem'.registered \in BOOLEAN /\ (mem'.registered <=> mem.registered /\ m # <<>>)
    BY <1>1, <2>3 DEF MqTypeOK
  <2>8. MqTypeOK'
    BY <1>1, <1>3, <2>1, <2>3, <2>5, <2>6, <2>7 DEF MqTypeOK
  <2>9. pc'["notified"] \in {"suspend", "suspended"} =>
          mem'.registered \/ pending'["notified"] = {"SIGUSR1"}
    <3>1. pc["notified"] \in {"suspend", "suspended"} =>
            mem.registered \/ pending["notified"] = {"SIGUSR1"}
      BY DEF MqInv
    <3> QED
      BY <2>5, <2>6, <2>7, <3>1
  <2>10. ~(mem'.registered /\ mem'.emptied)
    <3>1. mem.registered /\ mem.emptied => m = <<>>
      BY DEF MqInv
    <3> QED
      BY <2>3, <2>7, <3>1
  <2>11. pending'["notified"] \in {{}, {"SIGUSR1"}}
    BY <2>6 DEF MqInv
  <2>12. pc'["notified"] \in {"register", "suspend"} => mask'["notified"] = {"SIGUSR1"}
    BY <2>1, <2>5 DEF MqInv
  <2> QED
    BY <2>4, <2>5, <2>8, <2>9, <2>10, <2>11, <2>12 DEF MqInv
<1> QED
  BY <1>4, <1>5, <1>6 DEF Sender

\* Every step of a receiver.
LEMMA MqReceives ==
  ASSUME MqInv, NEW r \in Receivers, MqReceiver(r)
  PROVE  MqInv'
<1> USE DEF Step, Compute, Goto, Move, kernel, signals
<1>1. MqTypeOK /\ r \in MqTasks \ {"notified"}
      /\ Receivers \subseteq MqTasks /\ "notified" \notin Receivers /\ "notified" \in MqTasks
  BY MqNotifyAssumption DEF MqInv, MqTasks
<1>2. CASE OpenReceiver(r)
  <2>1. /\ program' = program /\ mem' = mem /\ mask' = mask /\ pending' = pending
        /\ queue' = queue
        /\ pc' = [pc EXCEPT ![r] = IF mem.capacity = 0 THEN "done" ELSE "receive"]
    BY <1>2 DEF OpenReceiver, OpenMq
  <2> QED
    BY <1>1, <2>1, MqMoves
<1>3. CASE ReceiveNothing(r)
  <2>1. /\ program' = program /\ mem' = mem /\ mask' = mask /\ pending' = pending
        /\ queue' = queue /\ queue.mq = <<>>
        /\ pc' = [pc EXCEPT ![r] = IF mem.flag[r] = "nonblocking" THEN "done" ELSE "waiting"]
    BY <1>3 DEF ReceiveNothing
  <2> QED
    BY <1>1, <2>1, MqMoves
<1>4. CASE TimeOut(r)
  <2>1. /\ program' = program /\ mem' = mem /\ mask' = mask /\ pending' = pending
        /\ queue' = queue /\ pc' = [pc EXCEPT ![r] = "done"]
    BY <1>4 DEF TimeOut
  <2> QED
    BY <1>1, <2>1, MqMoves
<1>5. CASE Receive(r)
  <2> DEFINE m == queue.mq
             g == mem.got
             h == Head(m)
             e == mem.emptied \/ Len(m) = 1
  <2>1. /\ program' = program /\ pc' = [pc EXCEPT ![r] = "done"] /\ m # <<>>
        /\ mask' = mask /\ pending' = pending
        /\ queue' = [queue EXCEPT !.mq = Tail(@)]
        /\ mem' = [mem EXCEPT !.got = Append(@, Head(queue.mq)), !.emptied = e]
    BY <1>5 DEF Receive
  <2>2. m \in Seq(Senders) /\ g \in Seq(Senders) /\ mem.sent \in Seq(Senders)
        /\ mem.sent = g \o m /\ e \in BOOLEAN
    BY <1>1 DEF MqInv, MqTypeOK
  <2>3. h \in Senders /\ Tail(m) \in Seq(Senders) /\ Append(g, h) \in Seq(Senders)
    BY <2>1, <2>2, HeadTailProperties, AppendProperties
  <2>4. /\ DOMAIN mem' = DOMAIN mem /\ mem'.sent = mem.sent /\ mem'.got = Append(g, h)
        /\ mem'.registered = mem.registered /\ mem'.emptied = e
        /\ queue'.mq = Tail(m) /\ DOMAIN queue' = DOMAIN queue
    <3> HIDE DEF e
    <3> QED
      BY <1>1, <2>1 DEF MqTypeOK
  <2>5. Append(g, h) \o Tail(m) = g \o m
    <3> HIDE DEF g, m, h
    <3>1. Append(g, h) = g \o <<h>> /\ <<h>> \in Seq(Senders)
      BY <2>2, <2>3, AppendIsConcat
    <3>2. (g \o <<h>>) \o Tail(m) = g \o (<<h>> \o Tail(m))
      BY <2>2, <2>3, <3>1, ConcatAssociative
    <3>3. <<h>> \o Tail(m) = m
      BY <2>1, <2>2, HeadTailProperties DEF h
    <3> QED
      BY <3>1, <3>2, <3>3
  <2>6. /\ pc'["notified"] = pc["notified"] /\ DOMAIN pc' = MqTasks
        /\ \A q \in Receivers : pc'[q] # "waiting"
    <3>1. \A q \in Receivers : pc[q] # "waiting"
      BY <2>1 DEF MqInv
    <3> QED
      BY <1>1, <2>1, <3>1 DEF MqTypeOK
  <2>7. MqTypeOK'
    <3> HIDE DEF e
    <3> QED
      BY <1>1, <2>1, <2>2, <2>3, <2>4, <2>6 DEF MqTypeOK
  <2>8. mem'.registered /\ mem'.emptied => queue'.mq = <<>>
    <3>1. ~(mem.registered /\ mem.emptied)
      BY <2>1 DEF MqInv
    <3>2. Len(m) = 1 => Tail(m) = <<>>
      BY <2>1, <2>2, <2>3, HeadTailProperties, EmptySeq
    <3>3. mem'.emptied <=> mem.emptied \/ Len(m) = 1
      BY <2>2, <2>4
    <3> QED
      BY <2>4, <3>1, <3>2, <3>3
  <2>9. mem'.sent = mem'.got \o queue'.mq
    BY <2>2, <2>4, <2>5
  <2>10. /\ pc'["notified"] \in {"register", "suspend"} => mask'["notified"] = {"SIGUSR1"}
         /\ pc'["notified"] \in {"suspend", "suspended"} =>
              mem'.registered \/ pending'["notified"] = {"SIGUSR1"}
         /\ pending'["notified"] \in {{}, {"SIGUSR1"}}
    BY <2>1, <2>4, <2>6 DEF MqInv
  <2> QED
    BY <2>6, <2>7, <2>8, <2>9, <2>10 DEF MqInv
<1> QED
  BY <1>2, <1>3, <1>4, <1>5 DEF MqReceiver

\* Every step of the process that is notified.
LEMMA MqNotifies ==
  ASSUME MqInv, NotifiedProcess
  PROVE  MqInv'
<1> USE DEF Step, Compute, Goto, Move, kernel, signals, RegisterAt
<1>1. MqTypeOK /\ "notified" \in MqTasks
      /\ Receivers \subseteq MqTasks /\ "notified" \notin Receivers
  BY MqNotifyAssumption DEF MqInv, MqTasks
<1> DEFINE n == "notified"
<1>2. SUFFICES
        /\ program' = program /\ queue' = queue
        /\ DOMAIN mem' = DOMAIN mem /\ mem'.sent = mem.sent /\ mem'.got = mem.got
        /\ mem'.registered \in BOOLEAN /\ mem'.emptied \in BOOLEAN
        /\ DOMAIN pc' = MqTasks /\ DOMAIN mask' = MqTasks /\ DOMAIN pending' = MqTasks
        /\ \A q \in MqTasks \ {n} : pc'[q] = pc[q]
        /\ pc'[n] \in {"register", "suspend"} => mask'[n] = {"SIGUSR1"}
        /\ pc'[n] \in {"suspend", "suspended"} =>
             mem'.registered \/ pending'[n] = {"SIGUSR1"}
        /\ pending'[n] \in {{}, {"SIGUSR1"}}
        /\ mem'.registered /\ mem'.emptied => queue.mq = <<>>
  <2>1. MqTypeOK'
    BY <1>1, <1>2 DEF MqTypeOK
  <2>2. (\E r \in Receivers : pc'[r] = "waiting") => queue'.mq = <<>>
    BY <1>1, <1>2 DEF MqInv
  <2>3. mem'.sent = mem'.got \o queue'.mq
    BY <1>2 DEF MqInv
  <2> QED
    BY <1>2, <2>1, <2>2, <2>3 DEF MqInv
<1>3. CASE OpenNotified
  <2>1. /\ program' = program /\ mem' = mem /\ mask' = mask /\ pending' = pending
        /\ queue' = queue
        /\ pc' = [pc EXCEPT ![n] = IF mem.capacity = 0 THEN "done" ELSE "block"]
    BY <1>3 DEF OpenNotified, OpenMq
  <2> QED
    BY <1>1, <2>1 DEF MqInv, MqTypeOK
<1>4. CASE BlockNotify
  BY <1>1, <1>4 DEF BlockNotify, Block, MqInv, MqTypeOK
<1>5. CASE Register \/ RegisterAgain
  <2> DEFINE e == queue.mq = <<>>
  <2>1. /\ program' = program /\ mask' = mask /\ pending' = pending /\ queue' = queue
        /\ mem' = [mem EXCEPT !.registered = TRUE, !.emptied = e]
        /\ \/ pc[n] = "register" /\ pc' = [pc EXCEPT ![n] = "suspend"]
           \/ pc[n] = "again" /\ pc' = [pc EXCEPT ![n] = "errExit"]
    BY <1>5 DEF Register, RegisterAgain
  <2>2. e \in BOOLEAN /\ (e => queue.mq = <<>>)
    OBVIOUS
  <2> HIDE DEF e
  <2>3. /\ DOMAIN mem' = DOMAIN mem /\ mem'.sent = mem.sent /\ mem'.got = mem.got
        /\ mem'.registered = TRUE /\ mem'.emptied = e
    BY <1>1, <2>1 DEF MqTypeOK
  <2>4. /\ DOMAIN pc' = MqTasks /\ \A q \in MqTasks \ {n} : pc'[q] = pc[q]
        /\ pc'[n] \in {"register", "suspend"} => mask[n] = {"SIGUSR1"}
    BY <1>1, <2>1 DEF MqTypeOK, MqInv
  <2> QED
    BY <1>1, <2>1, <2>2, <2>3, <2>4 DEF MqTypeOK, MqInv
<1>6. CASE SuspendNotified
  BY <1>1, <1>6 DEF SuspendNotified, Block, MqInv, MqTypeOK
<1>7. CASE HandleNotify
  <2>1. /\ program' = program /\ mem' = mem /\ queue' = queue
        /\ Deliverable(n) # {}
        /\ pending' = [pending EXCEPT ![n] = {}]
        /\ pc' = [pc EXCEPT ![n] = IF @ = "suspended" THEN "again" ELSE @]
        /\ mask' = [mask EXCEPT ![n] = IF pc[n] = "suspended" THEN {"SIGUSR1"} ELSE @]
    BY <1>7 DEF HandleNotify
  <2>2. pc[n] \notin {"register", "suspend"}
    BY <2>1 DEF MqInv, Deliverable
  <2>3. /\ DOMAIN pc' = MqTasks /\ DOMAIN mask' = MqTasks /\ DOMAIN pending' = MqTasks
        /\ \A q \in MqTasks \ {n} : pc'[q] = pc[q]
        /\ pc'[n] \notin {"register", "suspend", "suspended"} /\ pending'[n] = {}
    BY <1>1, <2>1, <2>2 DEF MqTypeOK
  <2> QED
    BY <1>1, <2>1, <2>3 DEF MqInv, MqTypeOK
<1>8. CASE NotifiedEnds
  <2>1. /\ program' = program /\ mask' = mask /\ pending' = pending /\ queue' = queue
        /\ mem' = [mem EXCEPT !.registered = FALSE] /\ pc' = [pc EXCEPT ![n] = "done"]
    BY <1>8 DEF NotifiedEnds
  <2>2. /\ DOMAIN mem' = DOMAIN mem /\ mem'.sent = mem.sent /\ mem'.got = mem.got
        /\ mem'.registered = FALSE /\ mem'.emptied = mem.emptied
    BY <1>1, <2>1 DEF MqTypeOK
  <2> QED
    BY <1>1, <2>1, <2>2 DEF MqInv, MqTypeOK
<1> QED
  BY <1>3, <1>4, <1>5, <1>6, <1>7, <1>8 DEF NotifiedProcess

\* Every step of the four programs keeps the invariant.
LEMMA MqStep ==
  ASSUME MqInv, MqNotifyNext
  PROVE  MqInv'
<1> USE DEF Step, Compute, Goto, Move, kernel
<1>1. CASE CreateQueue
  <2>1. PICK capacity \in 0 .. MaxCapacity :
          /\ program' = program /\ mask' = mask /\ pending' = pending /\ queue' = queue
          /\ pc' = [pc EXCEPT !["creator"] = "done"]
          /\ mem' = [mem EXCEPT !.capacity = capacity]
    BY <1>1 DEF CreateQueue
  <2>2. /\ DOMAIN mem' = DOMAIN mem /\ mem'.sent = mem.sent /\ mem'.got = mem.got
        /\ mem'.registered = mem.registered /\ mem'.emptied = mem.emptied
    BY <2>1 DEF MqInv, MqTypeOK
  <2>3. "creator" \in MqTasks \ {"notified"}
    BY DEF MqTasks
  <2> QED
    BY <2>1, <2>2, <2>3, MqMoves
<1> QED
  BY <1>1, MqSends, MqReceives, MqNotifies DEF MqNotifyNext

\* What the invariant says of notifications and messages.
LEMMA MqSound == MqInv => NotifiedOnArrival
BY DEF MqInv, NotifiedOnArrival, Waiting

(***************************************************************************)
(* Message queues: msg_exchange.c leaves no name behind when all four      *)
(* processes have ended, and connects the two users to each other; no      *)
(* notification of mq_notify_sig.c is lost, and no message of pmsg_send.c. *)
(***************************************************************************)
THEOREM QueuesKept == Spec => []QueuesSound
<1> DEFINE IInv == /\ program = "msg_exchange" => ExchangeInv
                   /\ program = "mq" => MqInv
<1>1. Init => IInv
  BY OneBegins, ExchangeBegins, MqBegins
<1>2. IInv /\ [Next]_vars => IInv'
  <2> SUFFICES ASSUME IInv, [Next]_vars PROVE IInv'
    OBVIOUS
  <2>1. CASE UNCHANGED vars
    <3>1. MqInv => MqInv'
      BY <2>1 DEF vars, MqInv, MqTypeOK
    <3>2. ExchangeTypeOK => ExchangeTypeOK'
      BY <2>1 DEF vars, ExchangeTypeOK
    <3>3. \A w, v \in Users : WillUnlink(w, v) => WillUnlink(w, v)'
      BY <2>1 DEF vars, WillUnlink
    <3>4. ExchangeInv => ExchangeInv'
      BY <2>1, <3>2, <3>3 DEF vars, ExchangeInv
    <3> QED
      BY <2>1, <3>1, <3>4 DEF vars
  <2>2. CASE ~UNCHANGED vars
    BY <2>2, OneProgram, ExchangeStep, MqStep
  <2> QED
    BY <2>1, <2>2
<1>3. IInv => QueuesSound
  BY ExchangeSound, MqSound DEF QueuesSound, NoQueueLeft, SameQueues, NotifiedOnArrival
<1> QED
  BY <1>1, <1>2, <1>3, PTL DEF Spec

-----------------------------------------------------------------------------
\* execlp.c

\* Where the command always looked executable the search has not passed.
SearchInv ==
  /\ program = "execlp"
  /\ DOMAIN pc = {"exec"} /\ pc["exec"] \in {"stat", "execve", "not found", "program", "failed"}
  /\ DOMAIN mem = {"file", "dir", "installs", "fullpath", "stale", "always"}
  /\ DOMAIN mem.file = 1 .. PathLength
  /\ mem.dir \in Nat \ {0} /\ mem.fullpath \in Nat /\ mem.stale \in BOOLEAN
  /\ mem.always \subseteq 1 .. PathLength
  /\ \A i \in mem.always : mem.file[i] \in LooksExecutable
  /\ pc["exec"] = "stat" => \A i \in mem.always : i >= mem.dir
  /\ pc["exec"] \in {"execve", "program", "failed"} =>
       \A i \in mem.always : i >= mem.fullpath
  /\ pc["exec"] = "not found" => mem.always = {}
  /\ pc["exec"] \in {"execve", "program", "failed"} /\ ~mem.stale =>
       mem.file[mem.fullpath] \in LooksExecutable
  /\ pc["exec"] = "failed" /\ ~mem.stale => mem.file[mem.fullpath] = "owners"

\* No directory was searched.
LEMMA SearchBegins == ExeclpInit => SearchInv
<1> SUFFICES ASSUME NEW file \in [1 .. PathLength -> Files],
                    Begin("execlp", [exec |-> "stat"],
                          [file |-> file, dir |-> 1, installs |-> 0, fullpath |-> 0,
                           stale |-> FALSE,
                           always |-> {i \in 1 .. PathLength : file[i] \in LooksExecutable}],
                          <<>>)
             PROVE  SearchInv
  BY DEF ExeclpInit
<1> DEFINE always == {i \in 1 .. PathLength : file[i] \in LooksExecutable}
<1>1. /\ program = "execlp" /\ pc = [exec |-> "stat"] /\ mem.file = file
      /\ mem.dir = 1 /\ mem.stale = FALSE /\ mem.fullpath = 0 /\ mem.always = always
      /\ DOMAIN mem = {"file", "dir", "installs", "fullpath", "stale", "always"}
  BY DEF Begin
<1>2. DOMAIN pc = {"exec"} /\ pc["exec"] = "stat"
  <2>1. DOMAIN [exec |-> "stat"] = {"exec"} /\ [exec |-> "stat"]["exec"] = "stat"
    OBVIOUS
  <2> QED
    BY <1>1, <2>1
<1>3. always \subseteq 1 .. PathLength /\ \A i \in always : i >= 1 /\ file[i] \in LooksExecutable
  OBVIOUS
<1>4. DOMAIN file = 1 .. PathLength
  OBVIOUS
<1> HIDE DEF always
<1>5. /\ DOMAIN mem.file = 1 .. PathLength /\ mem.always \subseteq 1 .. PathLength
      /\ mem.dir \in Nat \ {0} /\ mem.fullpath \in Nat /\ mem.stale \in BOOLEAN
      /\ \A i \in mem.always : i >= mem.dir /\ mem.file[i] \in LooksExecutable
  <2>1. \A i \in mem.always : i >= mem.dir /\ mem.file[i] \in LooksExecutable
    BY <1>1, <1>3
  <2>2. 1 \in Nat \ {0} /\ 0 \in Nat
    OBVIOUS
  <2> QED
    BY <1>1, <1>3, <1>4, <2>1, <2>2
<1> QED
  BY <1>1, <1>2, <1>5 DEF SearchInv

\* The search stops at the first directory that seems to have the command.
LEMMA SearchStep ==
  ASSUME SearchInv, Execlp \/ Install
  PROVE  SearchInv'
<1> USE DEF Step, Compute, Goto, Move, kernel
<1>1. CASE TryDirectory
  <2> DEFINE found == mem.file[mem.dir] \in LooksExecutable
             to == IF found THEN "execve"
                   ELSE IF mem.dir < PathLength THEN "stat" ELSE "not found"
             f == IF found THEN mem.dir ELSE mem.fullpath
             d == mem.dir + 1
  <2>1. /\ program' = program /\ pc["exec"] = "stat" /\ pc' = [pc EXCEPT !["exec"] = to]
        /\ mem' = [mem EXCEPT !.fullpath = f, !.dir = d]
    BY <1>1 DEF TryDirectory, SearchInv
  <2>2. /\ f \in Nat /\ d \in Nat \ {0} /\ mem.dir \in Nat \ {0} /\ PathLength \in Nat
        /\ mem.always \subseteq 1 .. PathLength
        /\ \A i \in mem.always : i >= mem.dir /\ mem.file[i] \in LooksExecutable
    <3>1. /\ mem.dir \in Nat \ {0} /\ mem.fullpath \in Nat
          /\ mem.always \subseteq 1 .. PathLength
          /\ \A i \in mem.always : i >= mem.dir /\ mem.file[i] \in LooksExecutable
      BY <2>1 DEF SearchInv
    <3>2. f \in Nat /\ d \in Nat \ {0}
      BY ONLY <3>1
    <3> QED
      BY ONLY <3>1, <3>2, DirToolsAssumption
  <2>3. /\ mem'.file = mem.file /\ mem'.stale = mem.stale /\ mem'.always = mem.always
        /\ mem'.fullpath = f /\ mem'.dir = d /\ DOMAIN mem' = DOMAIN mem
    <3> HIDE DEF f, d
    <3> QED
      BY <2>1 DEF SearchInv
  <2>4. DOMAIN pc' = {"exec"} /\ pc'["exec"] = to
    BY <2>1 DEF SearchInv
  <2>5. CASE found
    <3>1. to = "execve" /\ f = mem.dir /\ mem.file[f] \in LooksExecutable
      BY <2>5
    <3> HIDE DEF to, f, d
    <3> QED
      BY <2>1, <2>2, <2>3, <2>4, <2>5, <3>1 DEF SearchInv
  <2>6. CASE ~found
    <3>1. \A i \in mem.always : i >= d
      BY <2>2, <2>6
    <3>2. to \in {"stat", "not found"} /\ (to = "not found" => mem.always = {})
      BY <2>2, <2>6, <3>1
    <3> HIDE DEF to, f, d
    <3> QED
      BY <2>1, <2>2, <2>3, <2>4, <3>1, <3>2 DEF SearchInv
  <2> QED
    BY <2>5, <2>6
<1>2. CASE Execve
  <2>1. /\ program' = program /\ pc["exec"] = "execve" /\ mem' = mem
        /\ pc' = [pc EXCEPT !["exec"] = IF mem.file[mem.fullpath] = "program"
                                        THEN "program" ELSE "failed"]
    BY <1>2 DEF Execve
  <2> QED
    BY <2>1 DEF SearchInv, LooksExecutable
<1>3. CASE Install
  <2>1. PICK i \in 1 .. PathLength, f \in Files :
          /\ program' = program /\ pc' = pc /\ pc["exec"] \in {"stat", "execve"}
          /\ mem' = [mem EXCEPT !.file[i] = f, !.installs = @ + 1,
                       !.stale = @ \/ (pc["exec"] = "execve" /\ i = mem.fullpath),
                       !.always = IF f \in LooksExecutable THEN @ ELSE @ \ {i}]
    BY <1>3 DEF Install
  <2> DEFINE a == IF f \in LooksExecutable THEN mem.always ELSE mem.always \ {i}
             n == mem.installs + 1
             t == mem.stale \/ (pc["exec"] = "execve" /\ i = mem.fullpath)
             g == [mem.file EXCEPT ![i] = f]
  <2>2. /\ a \subseteq mem.always /\ t \in BOOLEAN
        /\ pc["exec"] = "execve" /\ ~t => g[mem.fullpath] \in LooksExecutable
    <3>1. mem.stale \in BOOLEAN /\ mem.fullpath \in Nat
      BY DEF SearchInv
    <3>2. ASSUME pc["exec"] = "execve", ~t
          PROVE  g[mem.fullpath] = mem.file[mem.fullpath] /\ ~mem.stale
      BY <3>2
    <3> QED
      BY <3>1, <3>2 DEF SearchInv
  <2>3. DOMAIN g = 1 .. PathLength /\ \A j \in a : g[j] \in LooksExecutable
    <3>1. /\ DOMAIN mem.file = 1 .. PathLength /\ mem.always \subseteq 1 .. PathLength
          /\ \A j \in mem.always : mem.file[j] \in LooksExecutable
      BY DEF SearchInv
    <3> QED
      BY ONLY <3>1
  <2>4. DOMAIN mem = {"file", "dir", "installs", "fullpath", "stale", "always"}
    BY DEF SearchInv
  <2>5. mem' = [mem EXCEPT !.file = g, !.installs = n, !.stale = t, !.always = a]
    BY <2>1, <2>4
  <2> HIDE DEF a, n, t, g
  <2>6. /\ mem'.file = g /\ mem'.stale = t /\ mem'.always = a
        /\ mem'.fullpath = mem.fullpath /\ mem'.dir = mem.dir /\ DOMAIN mem' = DOMAIN mem
    BY ONLY <2>4, <2>5
  <2> QED
    BY <2>1, <2>2, <2>3, <2>6 DEF SearchInv
<1> QED
  BY <1>1, <1>2, <1>3 DEF Execlp

\* The invariant says what FirstInPath does, and more.
LEMMA SearchFinds == SearchInv => FirstInPath
BY DEF SearchInv, FirstInPath

-----------------------------------------------------------------------------
\* dirwatch.c

DirwatchTypeOK ==
  /\ program = "dirwatch"
  /\ pc \in [{"watch"} -> {"watch", "walk", "opendir", "process", "list", "read"}]
  /\ DOMAIN mem = {"exists", "watched", "found", "entry", "aborted", "edits", "made",
                   "refused", "missed"}
  /\ mem.exists \subseteq Directories /\ mem.watched \subseteq Directories
  /\ mem.found \subseteq Directories /\ mem.entry \in Directories
  /\ mem.aborted \in BOOLEAN
  /\ "top" \in mem.exists /\ \A d \in mem.exists : ParentOf(d) \in mem.exists

\* nftw has yet to list e.
ToList(e) == e \in mem.found \/ (e = mem.entry /\ pc["watch"] \in {"opendir", "process", "list"})

\* nftw will come to d: to d itself, or to a directory above it first.
Comes(d) ==
  \/ d \in mem.found \/ (d = mem.entry /\ pc["watch"] \in {"opendir", "process"})
  \/ d # "top" /\ (ToList(ParentOf(d)) \/ ToList(ParentOf(ParentOf(d))))

\* A directory that was there from the start is watched, or was refused a watch,
\* or nftw comes to it.
WalkInv ==
  /\ DirwatchTypeOK
  /\ pc["watch"] \notin {"watch", "read"} /\ ~mem.aborted =>
       \A d \in mem.exists \ mem.made : d \in mem.watched \cup mem.refused \/ Comes(d)
  /\ pc["watch"] = "read" /\ ~mem.aborted =>
       mem.exists \ mem.made \subseteq mem.watched \cup mem.refused
  /\ pc["watch"] # "read" => mem.missed = {}
  /\ ~mem.aborted => mem.missed \subseteq mem.made \cup mem.refused

\* The walk has not begun.
LEMMA WalkBegins == DirwatchInit => WalkInv
<1> SUFFICES ASSUME NEW exists \in SUBSET Directories,
                    "top" \in exists, \A d \in exists : ParentOf(d) \in exists,
                    Begin("dirwatch", [watch |-> "watch"],
                          [exists |-> exists, watched |-> {}, found |-> {}, entry |-> "top",
                           aborted |-> FALSE, edits |-> 0, made |-> {}, refused |-> {},
                           missed |-> {}],
                          [inotify |-> <<>>])
             PROVE  WalkInv
  BY DEF DirwatchInit
<1>1. /\ program = "dirwatch" /\ pc = [watch |-> "watch"] /\ mem.exists = exists
      /\ mem.watched = {} /\ mem.found = {} /\ mem.entry = "top" /\ mem.aborted = FALSE
      /\ mem.made = {} /\ mem.missed = {}
      /\ DOMAIN mem = {"exists", "watched", "found", "entry", "aborted", "edits", "made",
                       "refused", "missed"}
  BY DEF Begin
<1>2. /\ pc \in [{"watch"} -> {"watch", "walk", "opendir", "process", "list", "read"}]
      /\ pc["watch"] = "watch"
  BY <1>1
<1> QED
  BY <1>1, <1>2 DEF WalkInv, DirwatchTypeOK, Directories

\* nftw goes on.
LEMMA WalkGoesOn ==
  ASSUME WalkInv, WatchTop \/ VisitEntry \/ OpenEntry \/ Process \/ ListEntries \/ WalkEnds
  PROVE  WalkInv'
<1> USE DEF Step, Compute, Goto, Move, kernel
<1>1. DirwatchTypeOK
  BY DEF WalkInv
<1> DEFINE w == "watch"
<1>2. /\ \A d \in Directories : ParentOf(d) \in {"top", "a"} /\ ParentOf(ParentOf(d)) = "top"
      /\ \A d \in Directories : ParentOf(d) \in Directories
  BY DEF Directories, ParentOf
<1>3. CASE WatchTop
  <2>1. /\ program' = program /\ pc[w] = "watch" /\ pc' = [pc EXCEPT ![w] = "walk"]
        /\ mem' = [mem EXCEPT !.watched = {"top"}, !.found = {"top"}]
    BY <1>3 DEF WatchTop
  <2>2. /\ mem'.watched = {"top"} /\ mem'.found = {"top"} /\ mem'.exists = mem.exists
        /\ mem'.entry = mem.entry /\ mem'.aborted = mem.aborted /\ mem'.made = mem.made
        /\ mem'.missed = mem.missed /\ mem'.refused = mem.refused /\ DOMAIN mem' = DOMAIN mem
    BY <1>1, <2>1 DEF DirwatchTypeOK
  <2>3. DirwatchTypeOK' /\ pc'[w] = "walk"
    BY <1>1, <2>1, <2>2 DEF DirwatchTypeOK, Directories
  <2>4. \A d \in Directories : Comes(d)'
    BY <1>2, <2>2, <2>3 DEF Comes, ToList
  <2> QED
    BY <1>1, <2>1, <2>2, <2>3, <2>4 DEF WalkInv, DirwatchTypeOK
<1>4. CASE VisitEntry
  <2>1. PICK e \in Directories :
          /\ program' = program /\ pc[w] = "walk" /\ e \in mem.found
          /\ pc' = [pc EXCEPT ![w] = IF e \in mem.exists THEN "opendir" ELSE "walk"]
          /\ mem' = [mem EXCEPT !.found = @ \ {e}, !.entry = e]
    BY <1>4 DEF VisitEntry
  <2>2. /\ mem'.watched = mem.watched /\ mem'.found = mem.found \ {e}
        /\ mem'.exists = mem.exists /\ mem'.made = mem.made /\ mem'.entry = e
        /\ mem'.missed = mem.missed /\ mem'.aborted = mem.aborted
        /\ mem'.refused = mem.refused /\ DOMAIN mem' = DOMAIN mem
    BY <1>1, <2>1 DEF DirwatchTypeOK
  <2>3. /\ pc'[w] = IF e \in mem.exists THEN "opendir" ELSE "walk"
        /\ pc' \in [{w} -> {"watch", "walk", "opendir", "process", "list", "read"}]
    BY <1>1, <2>1 DEF DirwatchTypeOK
  <2>4. DirwatchTypeOK'
    BY <1>1, <2>1, <2>2, <2>3 DEF DirwatchTypeOK
  <2>5. ASSUME NEW d \in mem.exists, Comes(d)
        PROVE  Comes(d)'
    <3>1. d \in Directories /\ ParentOf(d) \in mem.exists /\ ParentOf(ParentOf(d)) \in mem.exists
      BY <1>1, <1>2 DEF DirwatchTypeOK
    <3>2. \A x \in mem.exists : x \in mem.found => x \in mem'.found \/ (x = mem'.entry /\ pc'[w] = "opendir")
      BY <2>2, <2>3
    <3> QED
      BY <2>1, <2>5, <3>1, <3>2 DEF Comes, ToList
  <2> QED
    BY <2>1, <2>2, <2>3, <2>4, <2>5 DEF WalkInv
<1>5. CASE OpenEntry
  <2>1. CASE mem.entry \in mem.exists
    <3>1. /\ program' = program /\ pc[w] = "opendir" /\ pc' = [pc EXCEPT ![w] = "process"]
          /\ mem' = mem
      BY <1>5, <2>1 DEF OpenEntry
    <3>2. pc'[w] = "process" /\ DirwatchTypeOK'
      BY <1>1, <3>1 DEF DirwatchTypeOK
    <3>3. \A d \in mem.exists : Comes(d) => Comes(d)'
      BY <3>1, <3>2 DEF Comes, ToList
    <3> QED
      BY <3>1, <3>2, <3>3 DEF WalkInv
  <2>2. CASE mem.entry \notin mem.exists
    <3>1. /\ program' = program /\ pc[w] = "opendir" /\ pc' = [pc EXCEPT ![w] = "walk"]
          /\ mem' = [mem EXCEPT !.found = {}, !.aborted = TRUE]
      BY <1>5, <2>2 DEF OpenEntry
    <3>2. /\ mem'.watched = mem.watched /\ mem'.found = {} /\ mem'.exists = mem.exists
          /\ mem'.made = mem.made /\ mem'.entry = mem.entry /\ mem'.aborted = TRUE
          /\ mem'.missed = mem.missed /\ mem'.refused = mem.refused /\ DOMAIN mem' = DOMAIN mem
      BY <1>1, <3>1 DEF DirwatchTypeOK
    <3>3. pc'[w] = "walk" /\ DirwatchTypeOK'
      BY <1>1, <3>1, <3>2 DEF DirwatchTypeOK
    <3> QED
      BY <3>1, <3>2, <3>3 DEF WalkInv
  <2> QED
    BY <2>1, <2>2
<1>6. CASE Process
  <2> DEFINE now == {mem.entry} \cap mem.exists
  <2>1. /\ program' = program /\ pc[w] = "process" /\ pc' = [pc EXCEPT ![w] = "list"]
        /\ \/ mem' = [mem EXCEPT !.watched = @ \cup now]
           \/ mem' = [mem EXCEPT !.refused = @ \cup now]
    BY <1>6 DEF Process
  <2>2. /\ mem'.watched \subseteq mem.watched \cup now
        /\ mem'.watched \cup mem'.refused = mem.watched \cup mem.refused \cup now
        /\ mem.refused \subseteq mem'.refused
        /\ mem'.found = mem.found /\ mem'.exists = mem.exists
        /\ mem'.made = mem.made /\ mem'.entry = mem.entry /\ mem'.aborted = mem.aborted
        /\ mem'.missed = mem.missed /\ DOMAIN mem' = DOMAIN mem
    BY <1>1, <2>1 DEF DirwatchTypeOK
  <2>3. pc'[w] = "list" /\ DirwatchTypeOK'
    BY <1>1, <2>1, <2>2 DEF DirwatchTypeOK
  <2>4. \A d \in mem.exists : Comes(d) => Comes(d)' \/ d \in mem'.watched \cup mem'.refused
    BY <2>1, <2>2, <2>3 DEF Comes, ToList
  <2> QED
    BY <2>1, <2>2, <2>3, <2>4 DEF WalkInv
<1>7. CASE ListEntries
  <2>1. /\ program' = program /\ pc[w] = "list" /\ pc' = [pc EXCEPT ![w] = "walk"]
        /\ mem' = [mem EXCEPT !.found = @ \cup (ChildrenOf(mem.entry) \cap mem.exists)]
    BY <1>7 DEF ListEntries
  <2>2. /\ mem'.found = mem.found \cup (ChildrenOf(mem.entry) \cap mem.exists)
        /\ mem'.watched = mem.watched /\ mem'.exists = mem.exists
        /\ mem'.made = mem.made /\ mem'.entry = mem.entry /\ mem'.aborted = mem.aborted
        /\ mem'.missed = mem.missed /\ mem'.refused = mem.refused /\ DOMAIN mem' = DOMAIN mem
    BY <1>1, <2>1 DEF DirwatchTypeOK
  <2>3. pc'[w] = "walk" /\ DirwatchTypeOK'
    BY <1>1, <2>1, <2>2 DEF DirwatchTypeOK
  <2>4. ASSUME NEW d \in mem.exists, Comes(d)
        PROVE  Comes(d)'
    <3>1. d \in Directories /\ ParentOf(d) \in mem.exists
      BY <1>1 DEF DirwatchTypeOK
    <3>2. CASE d \in mem.found
      BY <2>2, <3>2 DEF Comes
    <3>3. CASE d # "top" /\ ToList(ParentOf(d))
      <4>1. CASE ParentOf(d) \in mem.found
        BY <2>2, <3>3, <4>1 DEF Comes, ToList
      <4>2. CASE ParentOf(d) = mem.entry
        BY <2>2, <3>1, <3>3, <4>2 DEF Comes, ChildrenOf
      <4> QED
        BY <3>3, <4>1, <4>2 DEF ToList
    <3>4. CASE d # "top" /\ ToList(ParentOf(ParentOf(d)))
      <4>1. CASE ParentOf(ParentOf(d)) \in mem.found
        BY <2>2, <3>4, <4>1 DEF Comes, ToList
      <4>2. CASE ParentOf(ParentOf(d)) = mem.entry /\ ParentOf(d) # "top"
        <5>1. ParentOf(d) \in ChildrenOf(mem.entry) \cap mem.exists
          BY <1>2, <3>1, <4>2 DEF ChildrenOf
        <5> QED
          BY <2>2, <3>4, <5>1 DEF Comes, ToList
      <4>3. CASE ParentOf(ParentOf(d)) = mem.entry /\ ParentOf(d) = "top"
        <5>1. d \in ChildrenOf(mem.entry) \cap mem.exists
          BY <1>2, <3>1, <3>4, <4>3 DEF ChildrenOf
        <5> QED
          BY <2>2, <5>1 DEF Comes
      <4> QED
        BY <3>4, <4>1, <4>2, <4>3 DEF ToList
    <3> QED
      BY <2>1, <2>4, <3>2, <3>3, <3>4 DEF Comes
  <2> QED
    BY <2>1, <2>2, <2>3, <2>4 DEF WalkInv
<1>8. CASE WalkEnds
  <2>1. /\ program' = program /\ pc[w] = "walk" /\ pc' = [pc EXCEPT ![w] = "read"]
        /\ mem' = mem /\ mem.found = {}
    BY <1>8 DEF WalkEnds
  <2>2. pc'[w] = "read" /\ DirwatchTypeOK'
    BY <1>1, <2>1 DEF DirwatchTypeOK
  <2>3. \A d : ~Comes(d)
    BY <2>1 DEF Comes, ToList
  <2> QED
    BY <2>1, <2>2, <2>3 DEF WalkInv
<1> QED
  BY <1>3, <1>4, <1>5, <1>6, <1>7, <1>8

\* Somebody changes the tree.
LEMMA WalkEdited ==
  ASSUME WalkInv, EditTree
  PROVE  WalkInv'
<1>1. DirwatchTypeOK
  BY DEF WalkInv
<1>2. PICK d \in Directories \ {"top"} :
        /\ program' = program /\ pc' = pc
        /\ ParentOf(d) \in mem.exists /\ ChildrenOf(d) \cap mem.exists = {}
        /\ LET told == ParentOf(d) \in mem.watched
               exists == IF d \in mem.exists THEN mem.exists \ {d} ELSE mem.exists \cup {d}
           IN  mem' = [mem EXCEPT
                 !.exists = exists, !.edits = @ + 1,
                 !.watched = @ \cap exists,
                 !.made = @ \cup (exists \ mem.exists),
                 !.missed = IF told \/ pc["watch"] # "read" THEN @
                            ELSE @ \cup {ParentOf(d)}]
  BY DEF EditTree
<1> DEFINE exists == IF d \in mem.exists THEN mem.exists \ {d} ELSE mem.exists \cup {d}
           missed == IF ParentOf(d) \in mem.watched \/ pc["watch"] # "read" THEN mem.missed
                     ELSE mem.missed \cup {ParentOf(d)}
<1>3. /\ mem'.exists = exists /\ mem'.watched = mem.watched \cap exists
      /\ mem'.made = mem.made \cup (exists \ mem.exists) /\ mem'.missed = missed
      /\ mem'.found = mem.found /\ mem'.entry = mem.entry /\ mem'.aborted = mem.aborted
      /\ mem'.refused = mem.refused /\ DOMAIN mem' = DOMAIN mem
  BY <1>1, <1>2 DEF DirwatchTypeOK
<1>4. /\ exists \subseteq Directories /\ "top" \in exists
      /\ \A c \in exists : ParentOf(c) \in exists
  <2>1. \A c \in mem.exists : c # "top" /\ ParentOf(c) = d => c \in ChildrenOf(d)
    BY <1>1 DEF DirwatchTypeOK, ChildrenOf
  <2>2. ParentOf("top") = "top" /\ ParentOf(d) # d
    BY DEF ParentOf, Directories
  <2>3. \A c \in mem.exists : ParentOf(c) # d
    BY <1>2, <2>1, <2>2
  <2> QED
    BY <1>1, <1>2, <2>2, <2>3 DEF DirwatchTypeOK
<1>5. exists \ mem'.made \subseteq mem.exists \ mem.made
  BY <1>3
<1>6. missed \subseteq mem.missed \cup {ParentOf(d)}
      /\ (ParentOf(d) \in missed \ mem.missed => pc["watch"] = "read" /\ ParentOf(d) \notin mem.watched)
      /\ (pc["watch"] # "read" => missed = mem.missed)
  OBVIOUS
<1> HIDE DEF exists, missed
<1>7. DirwatchTypeOK'
  BY <1>1, <1>2, <1>3, <1>4 DEF DirwatchTypeOK
<1>8. \A c : Comes(c) => Comes(c)'
  BY <1>2, <1>3 DEF Comes, ToList
<1>9. pc'["watch"] \notin {"watch", "read"} /\ ~mem'.aborted =>
        \A c \in mem'.exists \ mem'.made : c \in mem'.watched \cup mem'.refused \/ Comes(c)'
  BY <1>2, <1>3, <1>5, <1>8 DEF WalkInv
<1>10. pc'["watch"] = "read" /\ ~mem'.aborted =>
         mem'.exists \ mem'.made \subseteq mem'.watched \cup mem'.refused
  BY <1>2, <1>3, <1>5 DEF WalkInv
<1>11. ASSUME ~mem'.aborted PROVE mem'.missed \subseteq mem'.made \cup mem'.refused
  <2>1. mem.missed \subseteq mem.made \cup mem.refused /\ ~mem.aborted
    BY <1>3, <1>11 DEF WalkInv
  <2>2. ParentOf(d) \in missed \ mem.missed => ParentOf(d) \in mem.made \cup mem.refused
    BY <1>2, <1>6, <2>1 DEF WalkInv
  <2> QED
    BY <1>3, <1>6, <2>1, <2>2
<1>12. pc'["watch"] # "read" => mem'.missed = {}
  BY <1>2, <1>3, <1>6 DEF WalkInv
<1> QED
  BY <1>7, <1>9, <1>10, <1>11, <1>12 DEF WalkInv

\* Every step of dirwatch.c and of the others keeps the invariant.
LEMMA WalkStep ==
  ASSUME WalkInv, Dirwatch \/ EditTree
  PROVE  WalkInv'
<1>1. CASE DisplayEvent
  <2>1. program' = program /\ mem' = mem /\ pc' = [pc EXCEPT !["watch"] = "read"]
        /\ pc["watch"] = "read"
    BY <1>1 DEF DisplayEvent, Step, Move
  <2>2. pc' = pc
    BY <2>1 DEF WalkInv, DirwatchTypeOK
  <2> QED
    BY <2>1, <2>2 DEF WalkInv, DirwatchTypeOK
<1> QED
  BY <1>1, WalkGoesOn, WalkEdited DEF Dirwatch

\* What the invariant says when the walk has ended.
LEMMA WalkWatches == WalkInv => WatchesComplete
BY DEF WalkInv, WatchesComplete

-----------------------------------------------------------------------------
\* getcwd.c

EntryNames == Names \cup {"sibling"}

GetcwdTypeOK ==
  /\ program = "getcwd"
  /\ DOMAIN pc = {"getcwd"} /\ pc["getcwd"] \in {"climb", "readdir", "stat", "return", "done"}
  /\ DOMAIN mem = {"name", "sibling", "at", "cwd", "entry", "seen", "path", "failed",
                   "changes", "renamed", "fresh", "skipped", "had"}
  /\ mem.name \in [Levels -> Names] /\ mem.sibling \in [Levels -> Siblings]
  /\ mem.had \in [Levels -> SUBSET EntryNames]
  /\ mem.at \in 0 .. Depth
  /\ mem.path \in Seq(Levels \X EntryNames)
  /\ mem.failed \in BOOLEAN /\ mem.skipped \subseteq Levels

\* The directories climbed past are in the path, in their order.
PathSoFar(path, at, skipped, had) ==
  /\ \A i \in 1 .. Len(path) : path[i][1] \in at + 1 .. Depth /\ path[i][1] \notin skipped
  /\ \A d \in at + 1 .. Depth : d \notin skipped => \E i \in 1 .. Len(path) : path[i][1] = d
  /\ \A i, j \in 1 .. Len(path) : i < j => path[i][1] < path[j][1]
  /\ \A i \in 1 .. Len(path) : path[i][2] \in had[path[i][1]]

\* Each of them is in its place.
PathExactly(path, at) ==
  /\ Len(path) = Depth - at
  /\ \A i \in 1 .. Len(path) : path[i][1] = at + i

\* No directory was renamed, and what led to one still does.
AllLead == mem.renamed = {} /\ \A d \in Levels : \A e \in mem.had[d] : LeadsTo(d, e)

ClimbInv ==
  /\ GetcwdTypeOK
  /\ PathSoFar(mem.path, mem.at, mem.skipped, mem.had)
  /\ mem.renamed = {} => PathExactly(mem.path, mem.at)
  /\ \A d \in Levels : mem.name[d] \in mem.had[d]
  /\ \A d \in Levels : mem.sibling[d] = mem.name[d] => "sibling" \in mem.had[d]
  /\ mem.skipped \subseteq mem.renamed
  /\ \A d \in mem.skipped : d > mem.at
  /\ pc["getcwd"] \in {"readdir", "stat"} => mem.at > 0
  /\ pc["getcwd"] \in {"readdir", "stat"} /\ mem.name[mem.at] \in mem.fresh =>
       mem.at \in mem.renamed
  /\ pc["getcwd"] = "readdir" /\ mem.name[mem.at] \in mem.seen =>
       mem.name[mem.at] \in mem.fresh
  /\ pc["getcwd"] = "stat" /\ mem.name[mem.at] \in mem.seen \ {mem.entry} =>
       mem.name[mem.at] \in mem.fresh
  /\ pc["getcwd"] = "return" => mem.at = 0
  /\ pc["getcwd"] = "done" /\ ~mem.failed =>
       mem.at = 0 /\ (AllLead => mem.cwd = Depth)

\* getcwd begins in its directory, with no path.
LEMMA ClimbBegins == GetcwdInit => ClimbInv
<1> SUFFICES ASSUME NEW name \in [Levels -> Names], NEW sibling \in [Levels -> Siblings],
                    Begin("getcwd", [getcwd |-> "climb"],
                          [name |-> name, sibling |-> sibling, at |-> Depth, cwd |-> Depth,
                           entry |-> "", seen |-> {}, path |-> <<>>, failed |-> FALSE,
                           changes |-> 0, renamed |-> {}, fresh |-> {}, skipped |-> {},
                           had |-> [d \in Levels |->
                             {name[d]} \cup {e \in {"sibling"} : sibling[d] = name[d]}]],
                          <<>>)
             PROVE  ClimbInv
  BY DEF GetcwdInit
<1> DEFINE had == [d \in Levels |->
                    {name[d]} \cup {e \in {"sibling"} : sibling[d] = name[d]}]
<1>1. /\ program = "getcwd" /\ pc = [getcwd |-> "climb"] /\ mem.name = name
      /\ mem.at = Depth /\ mem.path = <<>> /\ mem.failed = FALSE /\ mem.renamed = {}
      /\ mem.skipped = {} /\ mem.had = had /\ mem.sibling = sibling
      /\ DOMAIN mem = {"name", "sibling", "at", "cwd", "entry", "seen", "path", "failed",
                       "changes", "renamed", "fresh", "skipped", "had"}
  BY DEF Begin
<1>2. DOMAIN pc = {"getcwd"} /\ pc["getcwd"] = "climb"
  <2>1. DOMAIN [getcwd |-> "climb"] = {"getcwd"} /\ [getcwd |-> "climb"]["getcwd"] = "climb"
    OBVIOUS
  <2> QED
    BY <1>1, <2>1
<1>3. /\ had \in [Levels -> SUBSET EntryNames]
      /\ \A d \in Levels : name[d] \in had[d] /\ (sibling[d] = name[d] => "sibling" \in had[d])
  BY DEF EntryNames
<1> HIDE DEF had
<1>4. Depth \in Nat
  BY DirToolsAssumption
<1>5. GetcwdTypeOK
  <2>1. <<>> \in Seq(Levels \X EntryNames)
    BY ONLY TRUE
  <2>2. Depth \in 0 .. Depth
    BY ONLY <1>4
  <2> QED
    BY <1>1, <1>2, <1>3, <2>1, <2>2 DEF GetcwdTypeOK
<1>6. /\ PathSoFar(mem.path, mem.at, mem.skipped, mem.had)
      /\ PathExactly(mem.path, mem.at)
  <2>1. Len(mem.path) = 0 /\ mem.at = Depth
    BY <1>1
  <2>2. /\ \A i \in 1 .. 0 : FALSE
        /\ \A d \in Depth + 1 .. Depth : FALSE
        /\ Depth - Depth = 0
    BY ONLY <1>4
  <2> QED
    BY <2>1, <2>2 DEF PathSoFar, PathExactly
<1> QED
  BY <1>1, <1>2, <1>3, <1>5, <1>6 DEF ClimbInv

\* A directory that was found goes before the path.
LEMMA PathGrows ==
  ASSUME NEW path \in Seq(Levels \X EntryNames), NEW at \in 1 .. Depth, NEW entry \in EntryNames,
         NEW skipped, NEW had,
         PathSoFar(path, at, skipped, had), at \notin skipped, entry \in had[at]
  PROVE  /\ PathBefore(path, at, entry) \in Seq(Levels \X EntryNames)
         /\ PathSoFar(PathBefore(path, at, entry), at - 1, skipped, had)
         /\ PathExactly(path, at) => PathExactly(PathBefore(path, at, entry), at - 1)
<1> DEFINE more == PathBefore(path, at, entry)
           n == Len(path)
<1>1. Depth \in Nat /\ n \in Nat /\ at \in Nat /\ at - 1 \in Nat /\ at - 1 + 1 = at
  BY DirToolsAssumption
<1>2. /\ more \in Seq(Levels \X EntryNames) /\ Len(more) = n + 1 /\ more[1] = <<at, entry>>
      /\ \A i \in 1 .. n : more[i + 1] = path[i]
  BY DEF PathBefore, Levels
<1> HIDE DEF more
<1>3. more[1][1] = at /\ more[1][2] = entry
  BY <1>2
<1>4. /\ \A i \in 1 .. n : path[i][1] \in at + 1 .. Depth /\ path[i][1] \notin skipped
      /\ \A d \in at + 1 .. Depth : d \notin skipped => \E i \in 1 .. n : path[i][1] = d
      /\ \A i, j \in 1 .. n : i < j => path[i][1] < path[j][1]
      /\ \A i \in 1 .. n : path[i][2] \in had[path[i][1]]
  BY DEF PathSoFar
<1> HIDE DEF n
<1>5. \A i \in 1 .. n + 1 : i = 1 \/ (i - 1 \in 1 .. n /\ more[i] = path[i - 1])
  <2> SUFFICES ASSUME NEW i \in 1 .. n + 1, i # 1
               PROVE  i - 1 \in 1 .. n /\ more[i] = path[i - 1]
    OBVIOUS
  <2>1. i - 1 \in 1 .. n /\ (i - 1) + 1 = i
    BY <1>1
  <2> QED
    BY <1>2, <2>1
<1>6. \A i \in 1 .. n + 1 : more[i][1] \in at .. Depth /\ more[i][1] \notin skipped
                            /\ more[i][2] \in had[more[i][1]]
  <2> SUFFICES ASSUME NEW i \in 1 .. n + 1
               PROVE  more[i][1] \in at .. Depth /\ more[i][1] \notin skipped
                      /\ more[i][2] \in had[more[i][1]]
    OBVIOUS
  <2>1. CASE i = 1
    BY <1>1, <1>3, <2>1
  <2>2. CASE i # 1
    <3>1. i - 1 \in 1 .. n /\ more[i] = path[i - 1]
      BY <1>5, <2>2
    <3>2. \A x \in at + 1 .. Depth : x \in at .. Depth
      BY <1>1
    <3> QED
      BY <1>4, <3>1, <3>2
  <2> QED
    BY <2>1, <2>2
<1>7. \A d \in at .. Depth : d \notin skipped => \E i \in 1 .. n + 1 : more[i][1] = d
  <2> SUFFICES ASSUME NEW d \in at .. Depth, d \notin skipped
               PROVE  \E i \in 1 .. n + 1 : more[i][1] = d
    OBVIOUS
  <2>1. CASE d = at
    BY <1>1, <1>3, <2>1
  <2>2. CASE d # at
    <3>1. d \in at + 1 .. Depth
      BY <1>1, <2>2
    <3>2. PICK i \in 1 .. n : path[i][1] = d
      BY <1>4, <3>1
    <3>3. i + 1 \in 1 .. n + 1 /\ more[i + 1][1] = d
      BY <1>1, <1>2, <3>2
    <3> QED
      BY <3>3
  <2> QED
    BY <2>1, <2>2
<1>8. \A i, j \in 1 .. n + 1 : i < j => more[i][1] < more[j][1]
  <2> SUFFICES ASSUME NEW i \in 1 .. n + 1, NEW j \in 1 .. n + 1, i < j
               PROVE  more[i][1] < more[j][1]
    OBVIOUS
  <2>1. j - 1 \in 1 .. n /\ more[j] = path[j - 1]
    BY <1>1, <1>5
  <2>2. CASE i = 1
    <3>1. more[j][1] \in at + 1 .. Depth
      BY <1>4, <2>1
    <3> QED
      BY <1>1, <1>3, <2>2, <3>1
  <2>3. CASE i # 1
    <3>1. i - 1 \in 1 .. n /\ more[i] = path[i - 1] /\ i - 1 < j - 1
      BY <1>1, <1>5, <2>3
    <3> QED
      BY <1>4, <2>1, <3>1
  <2> QED
    BY <2>2, <2>3
<1>9. PathSoFar(more, at - 1, skipped, had)
  BY <1>1, <1>2, <1>6, <1>7, <1>8 DEF PathSoFar
<1>10. ASSUME PathExactly(path, at) PROVE PathExactly(more, at - 1)
  <2>1. n = Depth - at /\ \A i \in 1 .. n : path[i][1] = at + i
    BY <1>10 DEF PathExactly, n
  <2>2. Len(more) = Depth - (at - 1)
    BY <1>1, <1>2, <2>1
  <2>3. ASSUME NEW i \in 1 .. n + 1
        PROVE  more[i][1] = at - 1 + i
    <3>1. CASE i = 1
      BY <1>1, <1>3, <3>1
    <3>2. CASE i # 1
      <4>1. i - 1 \in 1 .. n /\ more[i] = path[i - 1] /\ at + (i - 1) = at - 1 + i
        BY <1>1, <1>5, <3>2
      <4> QED
        BY <2>1, <4>1
    <3> QED
      BY <3>1, <3>2
  <2> QED
    BY <1>2, <2>2, <2>3 DEF PathExactly
<1> QED
  BY <1>2, <1>9, <1>10 DEF more

\* getcwd takes a step.
LEMMA ClimbMoves ==
  ASSUME ClimbInv, Getcwd
  PROVE  ClimbInv'
<1> USE DEF Step, Compute, Goto, Move, kernel
<1> DEFINE g == "getcwd"
<1>1. /\ GetcwdTypeOK /\ Depth \in Nat /\ mem.at \in 0 .. Depth /\ program = g
      /\ PathSoFar(mem.path, mem.at, mem.skipped, mem.had)
      /\ (mem.renamed = {} => PathExactly(mem.path, mem.at))
  BY DirToolsAssumption DEF ClimbInv, GetcwdTypeOK
<1>2. CASE Climb
  <2>1. CASE mem.at = 0
    <3>1. program' = program /\ mem' = mem /\ pc[g] = "climb" /\ pc' = [pc EXCEPT ![g] = "return"]
      BY <1>2, <2>1 DEF Climb
    <3>2. DOMAIN pc' = {g} /\ pc'[g] = "return"
      BY <3>1 DEF ClimbInv, GetcwdTypeOK
    <3> QED
      BY <2>1, <3>1, <3>2 DEF ClimbInv, GetcwdTypeOK
  <2>2. CASE mem.at # 0
    <3>1. /\ program' = program /\ pc[g] = "climb" /\ pc' = [pc EXCEPT ![g] = "readdir"]
          /\ mem' = [mem EXCEPT !.cwd = mem.at - 1, !.seen = {}, !.fresh = {}]
      BY <1>2, <2>2 DEF Climb
    <3>2. DOMAIN pc' = {g} /\ pc'[g] = "readdir"
      BY <3>1 DEF ClimbInv, GetcwdTypeOK
    <3>3. /\ DOMAIN mem' = DOMAIN mem /\ mem'.name = mem.name /\ mem'.had = mem.had
          /\ mem'.sibling = mem.sibling /\ mem'.at = mem.at /\ mem'.path = mem.path /\ mem'.failed = mem.failed
          /\ mem'.renamed = mem.renamed /\ mem'.fresh = {} /\ mem'.skipped = mem.skipped
          /\ mem'.seen = {}
      BY <1>1, <3>1 DEF GetcwdTypeOK
    <3>4. mem.at > 0
      BY <1>1, <2>2
    <3> QED
      BY <3>1, <3>2, <3>3, <3>4 DEF ClimbInv, GetcwdTypeOK
  <2> QED
    BY <2>1, <2>2
<1>3. CASE ReadDirectory
  <2>1. pc[g] = "readdir" /\ mem.at > 0 /\ mem.at \in Levels
    <3>1. pc[g] = "readdir"
      BY <1>3 DEF ReadDirectory
    <3>2. mem.at > 0
      BY <3>1 DEF ClimbInv
    <3> QED
      BY <1>1, <3>1, <3>2 DEF Levels
  <2>2. CASE \E e \in Entries \ mem.seen :
               Compute(g, g, "readdir", "stat", [mem EXCEPT !.entry = e, !.seen = @ \cup {e}])
    <3>1. PICK e \in Entries \ mem.seen :
            /\ program' = program /\ pc' = [pc EXCEPT ![g] = "stat"]
            /\ mem' = [mem EXCEPT !.entry = e, !.seen = @ \cup {e}]
      BY <2>2
    <3>2. DOMAIN pc' = {g} /\ pc'[g] = "stat"
      BY <3>1 DEF ClimbInv, GetcwdTypeOK
    <3>3. /\ DOMAIN mem' = DOMAIN mem /\ mem'.name = mem.name /\ mem'.had = mem.had
          /\ mem'.sibling = mem.sibling /\ mem'.at = mem.at /\ mem'.path = mem.path /\ mem'.failed = mem.failed
          /\ mem'.renamed = mem.renamed /\ mem'.fresh = mem.fresh /\ mem'.skipped = mem.skipped
          /\ mem'.entry = e /\ mem'.seen = mem.seen \cup {e}
      BY <1>1, <3>1 DEF GetcwdTypeOK
    <3>4. mem.name[mem.at] \in mem'.seen \ {mem'.entry} => mem.name[mem.at] \in mem.fresh
      BY <2>1, <3>3 DEF ClimbInv
    <3> QED
      BY <2>1, <3>1, <3>2, <3>3, <3>4 DEF ClimbInv, GetcwdTypeOK
  <2>3. CASE /\ Entries \ mem.seen \subseteq mem.fresh
             /\ Compute(g, g, "readdir", "climb",
                        [mem EXCEPT !.at = @ - 1, !.skipped = @ \cup {mem.at}])
    <3> DEFINE to == mem.at - 1
               sk == mem.skipped \cup {mem.at}
    <3>1. /\ program' = program /\ pc' = [pc EXCEPT ![g] = "climb"]
          /\ mem' = [mem EXCEPT !.at = to, !.skipped = sk]
      BY <1>1, <2>3 DEF GetcwdTypeOK
    <3>2. DOMAIN pc' = {g} /\ pc'[g] = "climb"
      BY <3>1 DEF ClimbInv, GetcwdTypeOK
    <3>3. mem.at \in mem.renamed
      BY <2>1, <2>3 DEF ClimbInv, Entries
    <3>4. to \in 0 .. Depth /\ to + 1 = mem.at /\ \A d : d > mem.at /\ d \in Int => d > to
      BY <1>1, <2>1
    <3>5. sk \subseteq mem.renamed /\ sk \subseteq Levels /\ \A d \in sk : d > to
      <4>1. mem.skipped \subseteq mem.renamed /\ \A d \in mem.skipped : d > mem.at
        BY DEF ClimbInv
      <4>2. mem.skipped \subseteq Int
        BY <1>1 DEF GetcwdTypeOK, Levels
      <4> QED
        BY <1>1, <2>1, <3>3, <3>4, <4>1, <4>2 DEF GetcwdTypeOK
    <3>6. PathSoFar(mem.path, to, sk, mem.had)
      <4>1. \A d \in mem.at + 1 .. Depth : d \in to + 1 .. Depth /\ d # mem.at
        BY <1>1, <3>4
      <4>2. \A d \in to + 1 .. Depth : d = mem.at \/ d \in mem.at + 1 .. Depth
        BY <1>1, <3>4
      <4> QED
        BY <1>1, <4>1, <4>2 DEF PathSoFar
    <3> HIDE DEF to, sk
    <3>7. /\ DOMAIN mem' = DOMAIN mem /\ mem'.name = mem.name /\ mem'.had = mem.had
          /\ mem'.sibling = mem.sibling /\ mem'.at = to /\ mem'.path = mem.path /\ mem'.failed = mem.failed
          /\ mem'.renamed = mem.renamed /\ mem'.fresh = mem.fresh /\ mem'.skipped = sk
      BY <1>1, <3>1 DEF GetcwdTypeOK
    <3> QED
      BY <3>1, <3>2, <3>3, <3>4, <3>5, <3>6, <3>7 DEF ClimbInv, GetcwdTypeOK
  <2> QED
    BY <1>3, <2>2, <2>3 DEF ReadDirectory
<1>4. CASE StatEntry
  <2>1. pc[g] = "stat" /\ mem.at > 0 /\ mem.at \in 1 .. Depth /\ mem.at \in Levels
    <3>1. pc[g] = "stat"
      BY <1>4 DEF StatEntry
    <3>2. mem.at > 0
      BY <3>1 DEF ClimbInv
    <3> QED
      BY <1>1, <3>1, <3>2 DEF Levels
  <2> DEFINE file == mem.entry = "sibling" /\ mem.sibling[mem.at] = "file"
  <2>2. CASE ~LeadsTo(mem.at, mem.entry) /\ ~file
    <3>1. /\ program' = program /\ pc' = [pc EXCEPT ![g] = "done"]
          /\ mem' = [mem EXCEPT !.failed = TRUE]
      BY <1>4, <2>2 DEF StatEntry
    <3>2. DOMAIN pc' = {g} /\ pc'[g] = "done"
      BY <3>1 DEF ClimbInv, GetcwdTypeOK
    <3>3. /\ DOMAIN mem' = DOMAIN mem /\ mem'.name = mem.name /\ mem'.had = mem.had
          /\ mem'.sibling = mem.sibling /\ mem'.at = mem.at /\ mem'.path = mem.path /\ mem'.failed = TRUE
          /\ mem'.renamed = mem.renamed /\ mem'.fresh = mem.fresh /\ mem'.skipped = mem.skipped
      BY <1>1, <3>1 DEF GetcwdTypeOK
    <3> QED
      BY <3>1, <3>2, <3>3 DEF ClimbInv, GetcwdTypeOK
  <2>3. CASE ~LeadsTo(mem.at, mem.entry) /\ file
    <3>1. program' = program /\ mem' = mem /\ pc' = [pc EXCEPT ![g] = "readdir"]
      BY <1>4, <2>3 DEF StatEntry
    <3>2. DOMAIN pc' = {g} /\ pc'[g] = "readdir"
      BY <3>1 DEF ClimbInv, GetcwdTypeOK
    <3>3. mem.name[mem.at] # "sibling"
      BY <1>1, <2>1 DEF GetcwdTypeOK, Names
    <3> QED
      BY <2>1, <2>3, <3>1, <3>2, <3>3 DEF ClimbInv, GetcwdTypeOK
  <2>4. CASE LeadsTo(mem.at, mem.entry)
    <3> DEFINE p == PathBefore(mem.path, mem.at, mem.entry)
               to == mem.at - 1
    <3>1. /\ program' = program /\ pc' = [pc EXCEPT ![g] = "climb"]
          /\ mem' = [mem EXCEPT !.path = p, !.at = to]
      BY <1>1, <1>4, <2>4 DEF StatEntry, GetcwdTypeOK
    <3>2. DOMAIN pc' = {g} /\ pc'[g] = "climb"
      BY <3>1 DEF ClimbInv, GetcwdTypeOK
    <3>3. mem.entry \in EntryNames /\ mem.entry \in mem.had[mem.at]
      <4>1. mem.entry \in mem.had[mem.at]
        BY <2>1, <2>4 DEF ClimbInv, LeadsTo
      <4> QED
        BY <1>1, <2>1, <4>1 DEF GetcwdTypeOK
    <3>4. to \in 0 .. Depth /\ mem.skipped \subseteq mem.renamed /\ mem.at \notin mem.skipped
          /\ \A d \in mem.skipped : d > to
      <4>1. \A d \in mem.skipped : d > mem.at
        BY DEF ClimbInv
      <4>2. \A d \in mem.skipped : d \in Int
        BY <1>1 DEF GetcwdTypeOK, Levels
      <4> QED
        BY <1>1, <2>1, <4>1, <4>2 DEF ClimbInv
    <3>5. /\ p \in Seq(Levels \X EntryNames) /\ PathSoFar(p, to, mem.skipped, mem.had)
          /\ (mem.renamed = {} => PathExactly(p, to))
      BY <1>1, <2>1, <3>3, <3>4, PathGrows DEF GetcwdTypeOK
    <3> HIDE DEF p, to
    <3>6. /\ DOMAIN mem' = DOMAIN mem /\ mem'.name = mem.name /\ mem'.had = mem.had
          /\ mem'.sibling = mem.sibling /\ mem'.at = to /\ mem'.path = p /\ mem'.failed = mem.failed
          /\ mem'.renamed = mem.renamed /\ mem'.fresh = mem.fresh /\ mem'.skipped = mem.skipped
      BY <1>1, <3>1 DEF GetcwdTypeOK
    <3> QED
      BY <3>1, <3>2, <3>4, <3>5, <3>6 DEF ClimbInv, GetcwdTypeOK
  <2> QED
    BY <2>2, <2>3, <2>4
<1>5. CASE ReturnPath
  <2> DEFINE resolves == \A i \in DOMAIN mem.path : LeadsTo(i, mem.path[i][2])
             cwd == IF resolves THEN Len(mem.path) ELSE mem.cwd
  <2>1. /\ program' = program /\ pc[g] = "return" /\ pc' = [pc EXCEPT ![g] = "done"]
        /\ mem' = [mem EXCEPT !.cwd = cwd] /\ mem.at = 0
    BY <1>1, <1>5 DEF ReturnPath, ClimbInv, GetcwdTypeOK
  <2>2. DOMAIN pc' = {g} /\ pc'[g] = "done"
    BY <2>1 DEF ClimbInv, GetcwdTypeOK
  <2>3. AllLead => cwd = Depth
    <3>1. SUFFICES ASSUME AllLead PROVE cwd = Depth
      OBVIOUS
    <3>2. /\ PathExactly(mem.path, 0) /\ DOMAIN mem.path = 1 .. Len(mem.path)
          /\ Len(mem.path) \in Nat
      BY <1>1, <2>1, <3>1 DEF GetcwdTypeOK, AllLead
    <3>3. Len(mem.path) = Depth /\ \A i \in 1 .. Len(mem.path) : mem.path[i][1] = i
      BY <1>1, <3>2 DEF PathExactly
    <3>4. \A i \in 1 .. Len(mem.path) : i \in Levels /\ mem.path[i][2] \in mem.had[i]
      BY <1>1, <3>3 DEF PathSoFar, Levels
    <3>5. resolves
      BY <3>1, <3>2, <3>4 DEF AllLead
    <3> QED
      BY <3>3, <3>5
  <2> HIDE DEF cwd
  <2>4. /\ DOMAIN mem' = DOMAIN mem /\ mem'.name = mem.name /\ mem'.had = mem.had
        /\ mem'.sibling = mem.sibling /\ mem'.at = mem.at /\ mem'.path = mem.path
        /\ mem'.failed = mem.failed /\ mem'.renamed = mem.renamed /\ mem'.fresh = mem.fresh
        /\ mem'.skipped = mem.skipped /\ mem'.cwd = cwd
    BY <1>1, <2>1 DEF GetcwdTypeOK
  <2>5. AllLead' => AllLead
    BY <2>4 DEF AllLead, LeadsTo
  <2> QED
    BY <2>1, <2>2, <2>3, <2>4, <2>5 DEF ClimbInv, GetcwdTypeOK
<1> QED
  BY <1>2, <1>3, <1>4, <1>5 DEF Getcwd

\* Somebody renames a directory or changes a sibling.
LEMMA ClimbEdited ==
  ASSUME ClimbInv, RenameDirectory \/ ChangeSibling
  PROVE  ClimbInv'
<1>1. GetcwdTypeOK /\ PathSoFar(mem.path, mem.at, mem.skipped, mem.had)
  BY DEF ClimbInv
<1>2. mem.at > 0 => mem.at \in Levels
  BY <1>1, DirToolsAssumption DEF GetcwdTypeOK, Levels
<1>3. CASE RenameDirectory
  <2>1. PICK d \in Levels, n \in Names :
          /\ program' = program /\ pc' = pc /\ pc["getcwd"] # "done"
          /\ mem' = [mem EXCEPT !.name[d] = n, !.changes = @ + 1, !.renamed = @ \cup {d},
                       !.fresh = @ \cup {e \in {n} : d = mem.at},
                       !.had[d] = @ \cup {n} \cup {e \in {"sibling"} : mem.sibling[d] = n}]
    BY <1>3 DEF RenameDirectory
  <2> DEFINE name == [mem.name EXCEPT ![d] = n]
             more == {n} \cup {e \in {"sibling"} : mem.sibling[d] = n}
             had == [mem.had EXCEPT ![d] = @ \cup {n} \cup {e \in {"sibling"} : mem.sibling[d] = n}]
             fresh == mem.fresh \cup {e \in {n} : d = mem.at}
  <2>2. /\ DOMAIN mem' = DOMAIN mem /\ mem'.name = name /\ mem'.had = had
        /\ mem'.sibling = mem.sibling /\ mem'.at = mem.at /\ mem'.path = mem.path
        /\ mem'.failed = mem.failed /\ mem'.renamed = mem.renamed \cup {d}
        /\ mem'.fresh = fresh /\ mem'.skipped = mem.skipped /\ mem'.seen = mem.seen
        /\ mem'.entry = mem.entry
    <3> HIDE DEF fresh, name
    <3>1. mem' = [mem EXCEPT !.name = name, !.changes = @ + 1, !.renamed = @ \cup {d},
                    !.fresh = fresh, !.had = had]
      BY <1>1, <2>1 DEF GetcwdTypeOK, fresh, name
    <3> HIDE DEF had
    <3> QED
      BY <1>1, <3>1 DEF GetcwdTypeOK
  <2>3. /\ name \in [Levels -> Names] /\ had \in [Levels -> SUBSET EntryNames]
        /\ \A c \in Levels \ {d} : name[c] = mem.name[c] /\ had[c] = mem.had[c]
        /\ name[d] = n /\ had[d] = mem.had[d] \cup more
    <3>1. more \subseteq EntryNames
      BY DEF EntryNames
    <3> HIDE DEF more
    <3>2. had = [mem.had EXCEPT ![d] = @ \cup more]
      BY <1>1 DEF GetcwdTypeOK, more
    <3> HIDE DEF had
    <3> QED
      BY <1>1, <3>1, <3>2 DEF GetcwdTypeOK
  <2> HIDE DEF name, had
  <2>4. /\ \A c \in Levels : mem.had[c] \subseteq had[c] /\ name[c] \in had[c]
        /\ \A c \in Levels : mem.sibling[c] = name[c] => "sibling" \in had[c]
    BY <1>1, <2>3 DEF ClimbInv
  <2>5. PathSoFar(mem.path, mem.at, mem.skipped, had)
    <3>1. \A i \in 1 .. Len(mem.path) : mem.path[i][1] \in Levels
      BY <1>1 DEF GetcwdTypeOK
    <3> QED
      BY <1>1, <2>4, <3>1 DEF PathSoFar
  <2>6. GetcwdTypeOK'
    BY <1>1, <2>1, <2>2, <2>3 DEF GetcwdTypeOK
  <2>7. ASSUME mem.at > 0
        PROVE  IF d = mem.at THEN name[mem.at] \in fresh
               ELSE name[mem.at] = mem.name[mem.at] /\ fresh = mem.fresh
    BY <1>2, <2>3, <2>7
  <2> HIDE DEF fresh
  <2>8. pc["getcwd"] \in {"readdir", "stat"} => mem.at > 0
    BY DEF ClimbInv
  <2>9. pc["getcwd"] \in {"readdir", "stat"} /\ name[mem.at] \in fresh =>
          mem.at \in mem'.renamed
    BY <2>2, <2>7, <2>8 DEF ClimbInv
  <2>10. /\ pc["getcwd"] = "readdir" /\ name[mem.at] \in mem.seen => name[mem.at] \in fresh
         /\ pc["getcwd"] = "stat" /\ name[mem.at] \in mem.seen \ {mem.entry} =>
              name[mem.at] \in fresh
    BY <2>7, <2>8 DEF ClimbInv
  <2>11. mem.skipped \subseteq mem'.renamed /\ ~AllLead'
    BY <2>2 DEF ClimbInv, AllLead
  <2>12. mem'.renamed = {} => PathExactly(mem.path, mem.at)
    BY <2>2
  <2>13. /\ \A c \in mem.skipped : c > mem.at
         /\ pc["getcwd"] = "return" => mem.at = 0
         /\ pc'["getcwd"] # "done"
    BY <2>1 DEF ClimbInv
  <2>14. /\ PathSoFar(mem.path, mem.at, mem.skipped, mem.had)'
         /\ (mem.renamed = {} => PathExactly(mem.path, mem.at))'
    BY <2>2, <2>5, <2>12
  <2>15. /\ (\A c \in Levels : mem.name[c] \in mem.had[c])'
         /\ (\A c \in Levels : mem.sibling[c] = mem.name[c] => "sibling" \in mem.had[c])'
    BY <2>2, <2>4
  <2> QED
    BY <2>1, <2>2, <2>6, <2>8, <2>9, <2>10, <2>11, <2>13, <2>14, <2>15 DEF ClimbInv
<1>4. CASE ChangeSibling
  <2>1. PICK d \in Levels, k \in Siblings :
          /\ program' = program /\ pc' = pc /\ pc["getcwd"] # "done"
          /\ mem' = [mem EXCEPT !.sibling[d] = k, !.changes = @ + 1,
                       !.fresh = @ \cup {e \in {"sibling"} : d = mem.at},
                       !.had[d] = @ \cup {e \in {"sibling"} : k = mem.name[d]}]
    BY <1>4 DEF ChangeSibling
  <2> DEFINE sibling == [mem.sibling EXCEPT ![d] = k]
             more == {e \in {"sibling"} : k = mem.name[d]}
             had == [mem.had EXCEPT ![d] = @ \cup {e \in {"sibling"} : k = mem.name[d]}]
             fresh == mem.fresh \cup {e \in {"sibling"} : d = mem.at}
  <2>2. /\ DOMAIN mem' = DOMAIN mem /\ mem'.name = mem.name /\ mem'.had = had
        /\ mem'.sibling = sibling /\ mem'.at = mem.at /\ mem'.path = mem.path
        /\ mem'.failed = mem.failed /\ mem'.renamed = mem.renamed
        /\ mem'.fresh = fresh /\ mem'.skipped = mem.skipped /\ mem'.seen = mem.seen
        /\ mem'.entry = mem.entry
    <3> HIDE DEF fresh, sibling
    <3>1. mem' = [mem EXCEPT !.sibling = sibling, !.changes = @ + 1,
                    !.fresh = fresh, !.had = had]
      BY <1>1, <2>1 DEF GetcwdTypeOK, fresh, sibling
    <3> HIDE DEF had
    <3> QED
      BY <1>1, <3>1 DEF GetcwdTypeOK
  <2>3. /\ sibling \in [Levels -> Siblings] /\ had \in [Levels -> SUBSET EntryNames]
        /\ \A c \in Levels \ {d} : sibling[c] = mem.sibling[c] /\ had[c] = mem.had[c]
        /\ sibling[d] = k /\ had[d] = mem.had[d] \cup more
    <3>1. more \subseteq EntryNames
      BY DEF EntryNames
    <3> HIDE DEF more
    <3>2. had = [mem.had EXCEPT ![d] = @ \cup more]
      BY <1>1 DEF GetcwdTypeOK, more
    <3> HIDE DEF had
    <3> QED
      BY <1>1, <3>1, <3>2 DEF GetcwdTypeOK
  <2> HIDE DEF sibling, had
  <2>4. /\ \A c \in Levels : mem.had[c] \subseteq had[c] /\ mem.name[c] \in had[c]
        /\ \A c \in Levels : sibling[c] = mem.name[c] => "sibling" \in had[c]
    BY <1>1, <2>3 DEF ClimbInv
  <2>5. PathSoFar(mem.path, mem.at, mem.skipped, had)
    <3>1. \A i \in 1 .. Len(mem.path) : mem.path[i][1] \in Levels
      BY <1>1 DEF GetcwdTypeOK
    <3> QED
      BY <1>1, <2>4, <3>1 DEF PathSoFar
  <2>6. GetcwdTypeOK'
    BY <1>1, <2>1, <2>2, <2>3 DEF GetcwdTypeOK
  <2>7. /\ mem.fresh \subseteq fresh /\ fresh \subseteq mem.fresh \cup {"sibling"}
        /\ mem.at > 0 => mem.name[mem.at] # "sibling"
    BY <1>1, <1>2 DEF GetcwdTypeOK, Names
  <2> HIDE DEF fresh
  <2> QED
    BY <2>1, <2>2, <2>4, <2>5, <2>6, <2>7 DEF ClimbInv
<1> QED
  BY <1>3, <1>4

\* What the invariant says at the root.
LEMMA ClimbPath == ClimbInv => PathExact
<1> SUFFICES ASSUME ClimbInv, pc["getcwd"] = "done", ~mem.failed PROVE PathExact
  BY DEF PathExact
<1> DEFINE p == mem.path
           n == Len(mem.path)
<1>1. /\ p \in Seq(Levels \X EntryNames) /\ DOMAIN p = 1 .. n /\ n \in Nat
      /\ PathSoFar(p, 0, mem.skipped, mem.had) /\ Depth \in Nat
      /\ (mem.renamed = {} => PathExactly(p, 0))
      /\ mem.skipped \subseteq mem.renamed /\ (AllLead => mem.cwd = Depth)
  BY DirToolsAssumption DEF ClimbInv, GetcwdTypeOK
<1> HIDE DEF p, n
<1>2. Levels = 0 + 1 .. Depth
  BY DEF Levels
<1>3. /\ \A i \in 1 .. n : p[i][1] \in Levels /\ p[i][1] \notin mem.skipped
      /\ \A d \in Levels : d \notin mem.skipped => \E i \in 1 .. n : p[i][1] = d
      /\ \A i, j \in 1 .. n : i < j => p[i][1] < p[j][1]
      /\ \A i \in 1 .. n : p[i][2] \in mem.had[p[i][1]]
  BY <1>1, <1>2 DEF PathSoFar, p, n
<1>4. {p[i][1] : i \in DOMAIN p} = Levels \ mem.skipped
  BY <1>1, <1>3
<1>5. ASSUME mem.renamed = {}, \A d \in Levels : mem.had[d] = {mem.name[d]}
      PROVE  p = [d \in Levels |-> <<d, mem.name[d]>>]
  <2>1. n = Depth /\ \A i \in 1 .. n : p[i][1] = 0 + i
    BY <1>1, <1>5 DEF PathExactly, p, n
  <2>2. DOMAIN p = Levels /\ \A i \in 1 .. n : 0 + i = i
    BY <1>1, <2>1 DEF Levels
  <2>3. \A i \in Levels : p[i] \in Levels \X EntryNames
    BY <1>1, <2>2
  <2>4. \A i \in Levels : p[i] = <<i, mem.name[i]>>
    <3>1. \A i \in Levels : p[i][1] = i /\ p[i][2] = mem.name[i]
      BY <1>1, <1>3, <1>5, <2>1, <2>2
    <3> QED
      BY <2>3, <3>1
  <2>5. p = [d \in Levels |-> p[d]]
    BY <1>1, <2>2
  <2> QED
    BY <2>4, <2>5
<1> QED
  BY <1>1, <1>3, <1>4, <1>5 DEF PathExact, AllLead, p

-----------------------------------------------------------------------------
\* userfsact.c and useract.c

ScanTypeOK ==
  /\ program \in ScanPrograms
  /\ DOMAIN pc = {"scan"} /\ pc["scan"] \in {"readdir", "look", "read", "done"}
  /\ DOMAIN mem = {"alive", "has", "entries", "at", "fdnum", "path", "opened", "printed",
                   "changes", "ever", "throughout"}
  /\ mem.alive \subseteq Pids /\ DOMAIN mem.has = Pids /\ mem.entries \subseteq Pids
  /\ mem.at \in Nat /\ mem.fdnum \in Nat /\ mem.opened \in BOOLEAN
  /\ mem.printed \in Seq(Pids) /\ mem.throughout \subseteq Pids \X Places(program)
  /\ pc["scan"] \in {"look", "read"} => mem.at \in Pids

WasPrinted(printed, p) == \E i \in 1 .. Len(printed) : printed[i] = p

\* In order, up to the process the program is at.
PrintedSoFar(printed, ever, at, label) ==
  /\ \A i, j \in 1 .. Len(printed) : i < j => printed[i] < printed[j]
  /\ \A i \in 1 .. Len(printed) :
       /\ printed[i] \in ever /\ printed[i] <= at
       /\ label \in {"look", "read"} => printed[i] < at

\* What was accepted all the time is printed, or the program comes to it.
NothingMissed(throughout, printed, entries, at, fdnum, opened, label) ==
  \A pn \in throughout :
    /\ pn[1] < at => WasPrinted(printed, pn[1])
    /\ pn[1] = at =>
         /\ label \in {"readdir", "done"} => WasPrinted(printed, pn[1])
         /\ label = "look" => fdnum <= pn[2]
         /\ label = "read" => opened
    /\ pn[1] > at => /\ label # "done"
                     /\ entries # {} /\ pn[1] \notin entries => \A q \in entries : q < pn[1]

ScanInv ==
  /\ ScanTypeOK
  /\ \A p \in Pids : mem.has[p] # {} => p \in mem.alive /\ p \in mem.ever
  /\ \A pn \in mem.throughout : pn[2] \in mem.has[pn[1]]
  /\ \A p \in mem.entries : p > mem.at
  /\ PrintedSoFar(mem.printed, mem.ever, mem.at, pc["scan"])
  /\ NothingMissed(mem.throughout, mem.printed, mem.entries, mem.at, mem.fdnum, mem.opened,
                   pc["scan"])

\* The scan begins before the first process.
LEMMA ScanBegins == ScanInit => ScanInv
<1> SUFFICES ASSUME NEW name \in ScanPrograms, NEW alive \in SUBSET Pids,
                    NEW has \in [Pids -> SUBSET Places(name)],
                    \A p \in Pids \ alive : has[p] = {}, ScanAmong(name, alive, has)
             PROVE  ScanInv
  BY DEF ScanInit
<1> DEFINE ever == {p \in Pids : has[p] # {}}
           throughout == {pn \in Pids \X Places(name) : pn[2] \in has[pn[1]]}
<1>1. /\ program = name /\ pc = [scan |-> "readdir"] /\ mem.alive = alive /\ mem.has = has
      /\ mem.entries = {} /\ mem.at = 0 /\ mem.fdnum = 0 /\ mem.opened = FALSE
      /\ mem.printed = <<>> /\ mem.ever = ever /\ mem.throughout = throughout
      /\ DOMAIN mem = {"alive", "has", "entries", "at", "fdnum", "path", "opened", "printed",
                       "changes", "ever", "throughout"}
  BY DEF Begin, ScanAmong
<1>2. DOMAIN pc = {"scan"} /\ pc["scan"] = "readdir"
  <2>1. DOMAIN [scan |-> "readdir"] = {"scan"} /\ [scan |-> "readdir"]["scan"] = "readdir"
    OBVIOUS
  <2> QED
    BY <1>1, <2>1
<1>3. /\ throughout \subseteq Pids \X Places(name)
      /\ \A pn \in throughout : pn[1] \in Pids /\ pn[2] \in has[pn[1]]
      /\ DOMAIN has = Pids /\ \A p \in Pids : has[p] # {} => p \in ever /\ p \in alive
  OBVIOUS
<1> HIDE DEF ever, throughout
<1>4. ScanTypeOK
  <2>1. <<>> \in Seq(Pids) /\ 0 \in Nat
    BY ONLY TRUE
  <2> QED
    BY <1>1, <1>2, <1>3, <2>1 DEF ScanTypeOK
<1>5. Len(mem.printed) = 0 /\ \A i \in 1 .. 0 : FALSE
  <2>1. Len(<<>>) = 0 /\ \A i \in 1 .. 0 : FALSE
    BY ONLY TRUE
  <2> QED
    BY <1>1, <2>1
<1>6. PrintedSoFar(mem.printed, mem.ever, mem.at, pc["scan"])
  BY <1>5 DEF PrintedSoFar
<1>7. \A p \in Pids : p \in Nat /\ p > 0
  BY ONLY ProcScanAssumption DEF Pids
<1>8. \A p \in Pids : ~(p < mem.at) /\ p # mem.at
  BY <1>1, <1>7
<1>9. NothingMissed(mem.throughout, mem.printed, mem.entries, mem.at, mem.fdnum, mem.opened,
                    pc["scan"])
  BY <1>1, <1>2, <1>3, <1>8 DEF NothingMissed
<1> QED
  BY <1>1, <1>3, <1>4, <1>6, <1>9 DEF ScanInv

\* The program prints the process it is at, and is done with it.
LEMMA PrintsOne ==
  ASSUME NEW printed \in Seq(Pids), NEW ever, NEW at \in Pids, at \in ever,
         NEW label \in {"look", "read"}, PrintedSoFar(printed, ever, at, label)
  PROVE  LET more == Append(printed, at)
         IN  /\ more \in Seq(Pids) /\ PrintedSoFar(more, ever, at, "readdir")
             /\ WasPrinted(more, at) /\ \A p : WasPrinted(printed, p) => WasPrinted(more, p)
<1> DEFINE n == Len(printed)
           more == Append(printed, at)
<1>1. /\ n \in Nat /\ more \in Seq(Pids) /\ Len(more) = n + 1 /\ more[n + 1] = at
      /\ \A i \in 1 .. n : more[i] = printed[i]
  OBVIOUS
<1>2. /\ \A i, j \in 1 .. n : i < j => printed[i] < printed[j]
      /\ \A i \in 1 .. n : printed[i] \in ever /\ printed[i] < at
      /\ \A p \in Pids : p \in Nat
      /\ \A i \in 1 .. n : printed[i] \in Pids
  <2>1. \A p \in Pids : p \in Nat
    BY ONLY ProcScanAssumption DEF Pids
  <2> QED
    BY <2>1 DEF PrintedSoFar
<1> HIDE DEF n, more
<1>3. \A i \in 1 .. n + 1 : i \in 1 .. n \/ i = n + 1
  BY <1>1
<1>4. \A i \in 1 .. n : i \in 1 .. n + 1
  BY <1>1
<1>5. n + 1 \in 1 .. n + 1 /\ \A j \in 1 .. n + 1 : ~(n + 1 < j)
  BY <1>1
<1>6. \A i, j \in 1 .. n + 1 : i < j => more[i] < more[j]
  BY <1>1, <1>2, <1>3, <1>5
<1>7. \A i \in 1 .. n + 1 : more[i] \in ever /\ more[i] <= at
  BY <1>1, <1>2, <1>3
<1>8. PrintedSoFar(more, ever, at, "readdir")
  BY <1>1, <1>6, <1>7 DEF PrintedSoFar
<1>9. WasPrinted(more, at) /\ \A p : WasPrinted(printed, p) => WasPrinted(more, p)
  BY <1>1, <1>4, <1>5 DEF WasPrinted, n
<1> QED
  BY <1>1, <1>8, <1>9 DEF more

\* The program reads the next entry, or fetches more of them.
LEMMA ScanReads ==
  ASSUME ScanInv, NEW name \in ScanPrograms, FetchEntries(name) \/ ReadEntry(name)
  PROVE  ScanInv'
<1> USE DEF Step, Compute, Goto, Move, kernel
<1> DEFINE s == "scan"
<1>1. ScanTypeOK /\ (\A p \in Pids : p \in Nat) /\ mem.at \in Nat
  BY ProcScanAssumption DEF ScanInv, ScanTypeOK, Pids
<1>2. /\ PrintedSoFar(mem.printed, mem.ever, mem.at, pc[s])
      /\ NothingMissed(mem.throughout, mem.printed, mem.entries, mem.at, mem.fdnum,
                       mem.opened, pc[s])
      /\ \A pn \in mem.throughout : pn[1] \in Pids /\ pn[2] \in Places(program)
                                    /\ pn[1] \in mem.alive
  <2>1. \A pn \in mem.throughout : pn[1] \in Pids /\ pn[2] \in Places(program)
    BY <1>1 DEF ScanTypeOK
  <2> QED
    BY <2>1 DEF ScanInv
<1>3. CASE \E last \in Pids :
             /\ Compute(name, s, "readdir", "readdir",
                        [mem EXCEPT !.entries = {p \in mem.alive : mem.at < p /\ p <= last}])
             /\ mem.entries = {} /\ last > mem.at /\ last \in mem.alive
  <2>1. PICK last \in Pids :
          /\ program' = program /\ pc[s] = "readdir" /\ pc' = [pc EXCEPT ![s] = "readdir"]
          /\ mem' = [mem EXCEPT !.entries = {p \in mem.alive : mem.at < p /\ p <= last}]
    BY <1>3
  <2> DEFINE entries == {p \in mem.alive : mem.at < p /\ p <= last}
  <2>2. DOMAIN pc' = {s} /\ pc'[s] = "readdir"
    BY <1>1, <2>1 DEF ScanTypeOK
  <2>3. /\ DOMAIN mem' = DOMAIN mem /\ mem'.alive = mem.alive /\ mem'.has = mem.has
        /\ mem'.entries = entries /\ mem'.at = mem.at /\ mem'.fdnum = mem.fdnum
        /\ mem'.opened = mem.opened /\ mem'.printed = mem.printed /\ mem'.ever = mem.ever
        /\ mem'.throughout = mem.throughout
    BY <1>1, <2>1 DEF ScanTypeOK
  <2>4. entries \subseteq Pids /\ \A p \in entries : p > mem.at
    BY <1>1 DEF ScanTypeOK
  <2>5. \A pn \in mem.throughout : pn[1] > mem.at /\ pn[1] \notin entries =>
                                     \A q \in entries : q < pn[1]
    BY <1>1, <1>2, <2>4
  <2> HIDE DEF entries
  <2>6. NothingMissed(mem.throughout, mem.printed, entries, mem.at, mem.fdnum,
                      mem.opened, pc[s])
    BY <1>2, <2>1, <2>5 DEF NothingMissed
  <2> QED
    BY <2>1, <2>2, <2>3, <2>4, <2>6 DEF ScanInv, ScanTypeOK
<1>4. CASE /\ Goto(name, s, "readdir", "done")
           /\ mem.entries = {} /\ \A p \in mem.alive : p <= mem.at
  <2>1. /\ program' = program /\ mem' = mem /\ pc[s] = "readdir"
        /\ pc' = [pc EXCEPT ![s] = "done"]
    BY <1>4
  <2>2. DOMAIN pc' = {s} /\ pc'[s] = "done"
    BY <1>1, <2>1 DEF ScanTypeOK
  <2>3. \A pn \in mem.throughout : ~(pn[1] > mem.at)
    BY <1>1, <1>2, <1>4
  <2>4. NothingMissed(mem.throughout, mem.printed, mem.entries, mem.at, mem.fdnum,
                      mem.opened, "done")
    BY <1>2, <2>1, <2>3 DEF NothingMissed
  <2>5. PrintedSoFar(mem.printed, mem.ever, mem.at, "done")
    BY <1>2, <2>1 DEF PrintedSoFar
  <2> QED
    BY <2>1, <2>2, <2>4, <2>5 DEF ScanInv, ScanTypeOK
<1>5. CASE ReadEntry(name)
  <2>1. PICK p \in Pids :
          /\ program' = program /\ pc[s] = "readdir" /\ pc' = [pc EXCEPT ![s] = "look"]
          /\ mem' = [mem EXCEPT !.entries = @ \ {p}, !.at = p, !.fdnum = 0, !.path = <<>>]
          /\ p \in mem.entries /\ \A q \in mem.entries : p <= q
    BY <1>5 DEF ReadEntry
  <2>2. DOMAIN pc' = {s} /\ pc'[s] = "look"
    BY <1>1, <2>1 DEF ScanTypeOK
  <2> DEFINE entries == mem.entries \ {p}
  <2>3. /\ DOMAIN mem' = DOMAIN mem /\ mem'.alive = mem.alive /\ mem'.has = mem.has
        /\ mem'.entries = entries /\ mem'.at = p /\ mem'.fdnum = 0
        /\ mem'.opened = mem.opened /\ mem'.printed = mem.printed /\ mem'.ever = mem.ever
        /\ mem'.throughout = mem.throughout
    BY <1>1, <2>1 DEF ScanTypeOK
  <2>4. p > mem.at /\ p \in Nat /\ mem.entries \subseteq Pids
    BY <1>1, <2>1 DEF ScanInv, ScanTypeOK
  <2>5. entries \subseteq Pids /\ \A q \in entries : q > p
    BY <1>1, <2>1, <2>4
  <2>6. PrintedSoFar(mem.printed, mem.ever, p, "look")
    <3>1. \A i \in 1 .. Len(mem.printed) : mem.printed[i] \in Pids
      BY <1>1 DEF ScanTypeOK
    <3> QED
      BY <1>1, <1>2, <2>1, <2>4, <3>1 DEF PrintedSoFar
  <2>7. NothingMissed(mem.throughout, mem.printed, entries, p, 0, mem.opened, "look")
    <3> SUFFICES ASSUME NEW pn \in mem.throughout
                 PROVE  /\ pn[1] < p => WasPrinted(mem.printed, pn[1])
                        /\ pn[1] = p => 0 <= pn[2]
                        /\ pn[1] > p /\ pn[1] \notin entries => \A q \in entries : q < pn[1]
      BY DEF NothingMissed
    <3>1. pn[1] \in Nat /\ pn[2] \in Nat
      BY <1>1, <1>2, ProcScanAssumption DEF Places
    <3>2. /\ pn[1] < mem.at => WasPrinted(mem.printed, pn[1])
          /\ pn[1] = mem.at => WasPrinted(mem.printed, pn[1])
          /\ pn[1] > mem.at /\ pn[1] \notin mem.entries => \A q \in mem.entries : q < pn[1]
      BY <1>2, <2>1 DEF NothingMissed
    <3>3. pn[1] < p => WasPrinted(mem.printed, pn[1])
      BY <1>1, <2>1, <2>4, <3>1, <3>2
    <3>4. pn[1] > p /\ pn[1] \notin entries => \A q \in entries : q < pn[1]
      BY <1>1, <2>1, <2>4, <3>1, <3>2
    <3> QED
      BY <3>1, <3>3, <3>4
  <2> HIDE DEF entries
  <2>8. ScanTypeOK'
    BY <1>1, <2>1, <2>2, <2>3, <2>4, <2>5 DEF ScanTypeOK
  <2> QED
    BY <2>1, <2>2, <2>3, <2>4, <2>5, <2>6, <2>7, <2>8 DEF ScanInv
<1> QED
  BY <1>3, <1>4, <1>5 DEF FetchEntries

\* The program looks at the process it is at.
LEMMA ScanLooks ==
  ASSUME ScanInv, ReadLink \/ OpenStatus \/ ReadStatus
  PROVE  ScanInv'
<1> USE DEF Step, Compute, Goto, Move, kernel
<1> DEFINE s == "scan"
           ReadyAt(fdnum, opened, printed, label) ==
             /\ printed \in Seq(Pids) /\ PrintedSoFar(printed, mem.ever, mem.at, label)
             /\ NothingMissed(mem.throughout, printed, mem.entries, mem.at, fdnum, opened, label)
<1>1. ScanTypeOK /\ (\A p \in Pids : p \in Nat) /\ mem.at \in Nat /\ mem.fdnum \in Nat
  BY ProcScanAssumption DEF ScanInv, ScanTypeOK, Pids
<1>2. /\ PrintedSoFar(mem.printed, mem.ever, mem.at, pc[s]) /\ mem.printed \in Seq(Pids)
      /\ NothingMissed(mem.throughout, mem.printed, mem.entries, mem.at, mem.fdnum,
                       mem.opened, pc[s])
      /\ \A pn \in mem.throughout : /\ pn[1] \in Pids /\ pn[2] \in Places(program)
                                    /\ pn[1] \in mem.alive /\ pn[2] \in mem.has[pn[1]]
      /\ \A p \in Pids : mem.has[p] # {} => p \in mem.ever
  <2>1. \A pn \in mem.throughout : pn[1] \in Pids /\ pn[2] \in Places(program)
    BY <1>1 DEF ScanTypeOK
  <2> QED
    BY <1>1, <2>1 DEF ScanInv, ScanTypeOK
<1>3. \A pn \in mem.throughout : pn[1] \in Nat /\ pn[2] \in Nat
  BY <1>1, <1>2, ProcScanAssumption DEF Places
\* at is printed, if it has been accepted all the time.
<1>4. ASSUME NEW found \in BOOLEAN, NEW label \in {"look", "read"}, pc[s] = label,
             found => mem.has[mem.at] # {},
             ~found => \A pn \in mem.throughout : pn[1] # mem.at,
             NEW fdnum, NEW opened
      PROVE  ReadyAt(fdnum, opened,
                     IF found THEN Append(mem.printed, mem.at) ELSE mem.printed, "readdir")
  <2>1. mem.at \in Pids
    BY <1>1, <1>4 DEF ScanTypeOK
  <2>2. CASE found
    <3> DEFINE more == Append(mem.printed, mem.at)
    <3>1. /\ more \in Seq(Pids) /\ PrintedSoFar(more, mem.ever, mem.at, "readdir")
          /\ WasPrinted(more, mem.at) /\ \A p : WasPrinted(mem.printed, p) => WasPrinted(more, p)
      BY <1>2, <1>4, <2>1, <2>2, PrintsOne
    <3> HIDE DEF more
    <3>2. NothingMissed(mem.throughout, more, mem.entries, mem.at, fdnum, opened, "readdir")
      BY <1>2, <1>4, <3>1 DEF NothingMissed
    <3> QED
      BY <2>2, <3>1, <3>2 DEF more
  <2>3. CASE ~found
    <3>1. PrintedSoFar(mem.printed, mem.ever, mem.at, "readdir")
      BY <1>2 DEF PrintedSoFar
    <3>2. NothingMissed(mem.throughout, mem.printed, mem.entries, mem.at, fdnum, opened,
                        "readdir")
      BY <1>2, <1>4, <2>3 DEF NothingMissed
    <3> QED
      BY <1>2, <2>3, <3>1, <3>2
  <2> QED
    BY <2>2, <2>3
\* What becomes of the rest of the state.
<1>5. ASSUME NEW fdnum \in Nat, NEW opened \in BOOLEAN, NEW printed,
             NEW label \in {"readdir", "look", "read"}, pc[s] \in {"look", "read"},
             program' = program, pc' = [pc EXCEPT ![s] = label],
             mem'.alive = mem.alive, mem'.has = mem.has, mem'.entries = mem.entries,
             mem'.at = mem.at, mem'.fdnum = fdnum, mem'.opened = opened,
             mem'.printed = printed, mem'.ever = mem.ever,
             mem'.throughout = mem.throughout, DOMAIN mem' = DOMAIN mem,
             ReadyAt(fdnum, opened, printed, label)
      PROVE  ScanInv'
  <2>1. DOMAIN pc' = {s} /\ pc'[s] = label
    BY <1>1, <1>5 DEF ScanTypeOK
  <2>2. ScanTypeOK'
    BY <1>1, <1>5, <2>1 DEF ScanTypeOK
  <2> QED
    BY <1>5, <2>1, <2>2 DEF ScanInv
<1> HIDE DEF ReadyAt
<1>6. CASE ReadLink
  <2> DEFINE found == mem.fdnum \in mem.has[mem.at]
             last == mem.fdnum + 1 = FopenMax
             to == IF found \/ last THEN "readdir" ELSE "look"
             fdnum == mem.fdnum + 1
             printed == IF found THEN Append(mem.printed, mem.at) ELSE mem.printed
  <2>1. /\ program = "userfsact" /\ pc[s] = "look"
        /\ program' = program /\ pc' = [pc EXCEPT ![s] = to]
        /\ mem' = [mem EXCEPT !.path = <<mem.fdnum>>, !.fdnum = fdnum, !.printed = printed]
    <3>1. (\E n \in mem.has[mem.at] : <<mem.fdnum>> = <<n>>) <=> found
      OBVIOUS
    <3> QED
      BY <1>1, <1>6, <3>1 DEF ReadLink, Longer, ScanTypeOK
  <2>2. found => mem.has[mem.at] # {}
    OBVIOUS
  <2>3. \A pn \in mem.throughout : pn[1] = mem.at /\ ~found => mem.fdnum + 1 <= pn[2]
    <3>1. \A pn \in mem.throughout : pn[1] = mem.at => mem.fdnum <= pn[2]
      BY <1>2, <2>1 DEF NothingMissed
    <3>2. \A pn \in mem.throughout : pn[1] = mem.at /\ ~found => mem.fdnum # pn[2]
      BY <1>2
    <3> QED
      BY <1>1, <1>3, <3>1, <3>2
  <2>4. \A pn \in mem.throughout : last /\ ~found => pn[1] # mem.at
    <3>1. \A pn \in mem.throughout : pn[2] <= FopenMax - 1
      BY <1>2, <2>1, ProcScanAssumption DEF Places
    <3> QED
      BY <1>1, <1>3, <2>3, <3>1, ProcScanAssumption
  <2>5. fdnum \in Nat /\ found \in BOOLEAN
    BY <1>1
  <2>6. ReadyAt(fdnum, mem.opened, printed, to)
    <3>1. CASE found \/ last
      <4>1. ReadyAt(fdnum, mem.opened, printed, "readdir")
        BY <1>4, <2>1, <2>2, <2>4, <2>5, <3>1
      <4> QED
        BY <3>1, <4>1
    <3>2. CASE ~found /\ ~last
      <4>1. NothingMissed(mem.throughout, mem.printed, mem.entries, mem.at, fdnum, mem.opened,
                          "look")
        BY <1>2, <2>1, <2>3, <3>2 DEF NothingMissed
      <4> QED
        BY <1>2, <2>1, <3>2, <4>1 DEF ReadyAt
    <3> QED
      BY <3>1, <3>2
  <2>7. to \in {"readdir", "look", "read"}
    OBVIOUS
  <2> HIDE DEF found, last, to, fdnum, printed
  <2>8. /\ mem'.alive = mem.alive /\ mem'.has = mem.has /\ mem'.entries = mem.entries
        /\ mem'.at = mem.at /\ mem'.fdnum = fdnum /\ mem'.opened = mem.opened
        /\ mem'.printed = printed /\ mem'.ever = mem.ever
        /\ mem'.throughout = mem.throughout /\ DOMAIN mem' = DOMAIN mem
        /\ mem.opened \in BOOLEAN
    BY <1>1, <2>1 DEF ScanTypeOK
  <2> QED
    BY <1>5, <2>1, <2>5, <2>6, <2>7, <2>8
<1>7. CASE OpenStatus
  <2> DEFINE there == mem.at \in mem.alive
             to == IF there THEN "read" ELSE "readdir"
  <2>1. /\ pc[s] = "look" /\ program' = program /\ pc' = [pc EXCEPT ![s] = to]
        /\ mem' = [mem EXCEPT !.opened = there]
    BY <1>1, <1>7 DEF OpenStatus, ScanTypeOK
  <2>2. /\ mem'.alive = mem.alive /\ mem'.has = mem.has /\ mem'.entries = mem.entries
        /\ mem'.at = mem.at /\ mem'.fdnum = mem.fdnum /\ mem'.opened = there
        /\ mem'.printed = mem.printed /\ mem'.ever = mem.ever
        /\ mem'.throughout = mem.throughout /\ DOMAIN mem' = DOMAIN mem
    <3> HIDE DEF there, to
    <3> QED
      BY <1>1, <2>1 DEF ScanTypeOK
  <2>3. CASE there
    <3>1. NothingMissed(mem.throughout, mem.printed, mem.entries, mem.at, mem.fdnum, mem'.opened,
                        "read")
      BY <1>2, <2>1, <2>2, <2>3 DEF NothingMissed
    <3>2. PrintedSoFar(mem.printed, mem.ever, mem.at, "read")
      BY <1>2, <2>1 DEF PrintedSoFar
    <3>3. ReadyAt(mem.fdnum, mem'.opened, mem.printed, "read")
      BY <1>2, <3>1, <3>2 DEF ReadyAt
    <3> QED
      BY <1>1, <1>5, <2>1, <2>2, <2>3, <3>3
  <2>4. CASE ~there
    <3>1. ReadyAt(mem.fdnum, mem'.opened, mem.printed, "readdir")
      BY <1>2, <1>4, <2>1, <2>4
    <3>2. mem'.opened \in BOOLEAN
      BY <2>2, <2>4
    <3> QED
      BY <1>1, <1>5, <2>1, <2>2, <2>4, <3>1, <3>2
  <2> QED
    BY <2>3, <2>4
<1>8. CASE ReadStatus
  <2> DEFINE found == mem.opened /\ mem.has[mem.at] # {}
             printed == IF found THEN Append(mem.printed, mem.at) ELSE mem.printed
  <2>1. /\ pc[s] = "read" /\ program' = program /\ pc' = [pc EXCEPT ![s] = "readdir"]
        /\ mem' = [mem EXCEPT !.opened = FALSE, !.printed = printed]
    BY <1>1, <1>8 DEF ReadStatus, ScanTypeOK
  <2>2. \A pn \in mem.throughout : ~found => pn[1] # mem.at
    BY <1>2, <2>1 DEF NothingMissed
  <2>3. ReadyAt(mem.fdnum, FALSE, printed, "readdir")
    <3>1. found \in BOOLEAN /\ (found => mem.has[mem.at] # {})
      BY <1>1 DEF ScanTypeOK
    <3> QED
      BY <1>4, <2>1, <2>2, <3>1
  <2> HIDE DEF found, printed
  <2>4. /\ mem'.alive = mem.alive /\ mem'.has = mem.has /\ mem'.entries = mem.entries
        /\ mem'.at = mem.at /\ mem'.fdnum = mem.fdnum /\ mem'.opened = FALSE
        /\ mem'.printed = printed /\ mem'.ever = mem.ever
        /\ mem'.throughout = mem.throughout /\ DOMAIN mem' = DOMAIN mem
    BY <1>1, <2>1 DEF ScanTypeOK
  <2> QED
    BY <1>1, <1>5, <2>1, <2>3, <2>4
<1> QED
  BY <1>6, <1>7, <1>8

\* The other processes begin, end and change.
LEMMA ScanOthers ==
  ASSUME ScanInv, ProcessBegins \/ ProcessEnds \/ ProcessChanges
  PROVE  ScanInv'
<1>1. ScanTypeOK
  BY DEF ScanInv
\* A change that takes a process from the open file takes what it had.
<1>2. ASSUME NEW alive, NEW has, NEW opened, Change(alive, has, opened),
             alive \subseteq Pids, DOMAIN has = Pids, opened \in BOOLEAN,
             \A p \in Pids : has[p] # {} => p \in alive,
             mem.opened /\ ~opened => has[mem.at] = {}
      PROVE  ScanInv'
  <2> DEFINE ever == mem.ever \cup {p \in Pids : has[p] # {}}
             throughout == {pn \in mem.throughout : pn[2] \in has[pn[1]]}
  <2>1. /\ program' = program /\ pc' = pc
        /\ DOMAIN mem' = DOMAIN mem /\ mem'.alive = alive /\ mem'.has = has
        /\ mem'.entries = mem.entries /\ mem'.at = mem.at /\ mem'.fdnum = mem.fdnum
        /\ mem'.opened = opened /\ mem'.printed = mem.printed /\ mem'.ever = ever
        /\ mem'.throughout = throughout
    BY <1>1, <1>2 DEF Change, ScanTypeOK
  <2>2. /\ throughout \subseteq mem.throughout /\ mem.ever \subseteq ever
        /\ \A pn \in throughout : pn[2] \in has[pn[1]]
        /\ \A p \in Pids : has[p] # {} => p \in ever
    OBVIOUS
  <2> HIDE DEF ever, throughout
  <2>3. ScanTypeOK'
    BY <1>1, <1>2, <2>1, <2>2 DEF ScanTypeOK
  <2>4. PrintedSoFar(mem.printed, ever, mem.at, pc["scan"])
    BY <2>2 DEF ScanInv, PrintedSoFar
  <2>5. \A pn \in throughout : pn[1] = mem.at /\ mem.opened => opened
    BY <1>2, <2>2
  <2>6. NothingMissed(throughout, mem.printed, mem.entries, mem.at, mem.fdnum, opened,
                      pc["scan"])
    BY <2>2, <2>5 DEF ScanInv, NothingMissed
  <2> QED
    BY <1>2, <2>1, <2>2, <2>3, <2>4, <2>6 DEF ScanInv
<1>3. mem.alive \subseteq Pids /\ DOMAIN mem.has = Pids /\ mem.opened \in BOOLEAN
      /\ \A p \in Pids : mem.has[p] # {} => p \in mem.alive
  BY <1>1 DEF ScanInv, ScanTypeOK
<1>4. CASE ProcessBegins
  <2>1. PICK p \in Pids, accepted \in SUBSET {0} :
          Change(mem.alive \cup {p}, [mem.has EXCEPT ![p] = accepted], mem.opened)
    BY <1>4 DEF ProcessBegins
  <2> DEFINE has == [mem.has EXCEPT ![p] = accepted]
             alive == mem.alive \cup {p}
  <2>2. /\ alive \subseteq Pids /\ DOMAIN has = Pids
        /\ \A q \in Pids : has[q] # {} => q \in alive
    BY <1>3
  <2> HIDE DEF has, alive
  <2> QED
    BY <1>2, <1>3, <2>1, <2>2 DEF has, alive
<1>5. CASE ProcessEnds
  <2>1. PICK p \in Pids :
          Change(mem.alive \ {p}, [mem.has EXCEPT ![p] = {}], mem.opened /\ p # mem.at)
    BY <1>5 DEF ProcessEnds
  <2> DEFINE has == [mem.has EXCEPT ![p] = {}]
             alive == mem.alive \ {p}
             opened == mem.opened /\ p # mem.at
  <2>2. /\ alive \subseteq Pids /\ DOMAIN has = Pids /\ opened \in BOOLEAN
        /\ \A q \in Pids : has[q] # {} => q \in alive
        /\ mem.opened /\ ~opened => has[mem.at] = {}
    BY <1>3
  <2>3. Change(alive, has, opened)
    BY <2>1
  <2> HIDE DEF has, alive, opened
  <2> QED
    BY <1>2, <2>2, <2>3
<1>6. CASE ProcessChanges
  <2>1. PICK p \in Pids, n \in Places(program) :
          /\ p \in mem.alive
          /\ Change(mem.alive,
                    [mem.has EXCEPT ![p] = IF n \in @ THEN @ \ {n} ELSE @ \cup {n}],
                    mem.opened)
    BY <1>6 DEF ProcessChanges
  <2> DEFINE has == [mem.has EXCEPT ![p] = IF n \in @ THEN @ \ {n} ELSE @ \cup {n}]
  <2>2. DOMAIN has = Pids /\ \A q \in Pids : has[q] # {} => q \in mem.alive
    BY <1>3, <2>1
  <2>3. Change(mem.alive, has, mem.opened)
    BY <2>1
  <2> HIDE DEF has
  <2> QED
    BY <1>2, <1>3, <2>2, <2>3
<1> QED
  BY <1>4, <1>5, <1>6

\* Every step of the scan and of the processes keeps the invariant.
LEMMA ScanStep ==
  ASSUME ScanInv, ProcScanNext
  PROVE  ScanInv'
<1>1. CASE Scan
  BY <1>1, ScanReads, ScanLooks DEF Scan
<1>2. CASE ProcessBegins \/ ProcessEnds \/ ProcessChanges
  BY <1>2, ScanOthers
<1> QED
  BY <1>1, <1>2 DEF ProcScanNext

\* What the invariant says when the scan has ended.
LEMMA ScanFinds == ScanInv => ScanComplete
<1> SUFFICES ASSUME ScanInv PROVE ScanComplete
  OBVIOUS
<1>1. /\ PrintedSoFar(mem.printed, mem.ever, mem.at, pc["scan"])
      /\ NothingMissed(mem.throughout, mem.printed, mem.entries, mem.at, mem.fdnum,
                       mem.opened, pc["scan"])
      /\ DOMAIN mem.printed = 1 .. Len(mem.printed) /\ mem.at \in Nat
      /\ \A pn \in mem.throughout : pn[1] \in Pids
      /\ \A p \in Pids : p \in Nat
  BY ProcScanAssumption DEF ScanInv, ScanTypeOK, Pids
<1>2. ASSUME pc["scan"] = "done", NEW pn \in mem.throughout
      PROVE  \E i \in DOMAIN mem.printed : mem.printed[i] = pn[1]
  <2>1. pn[1] < mem.at \/ pn[1] = mem.at \/ pn[1] > mem.at
    BY <1>1
  <2>2. WasPrinted(mem.printed, pn[1])
    BY <1>1, <1>2, <2>1 DEF NothingMissed
  <2> QED
    BY <1>1, <2>2 DEF WasPrinted
<1> QED
  BY <1>1, <1>2 DEF PrintedSoFar, ScanComplete

(***************************************************************************)
(* Walks over what others change: the path of getcwd.c has for each        *)
(* directory an entry that led to it, by its name or as a link, and lacks  *)
(* only what was renamed; dirwatch.c watches every directory that was      *)
(* there from the start but those that were refused a watch, unless the    *)
(* walk was aborted; execlp.c passes over no directory that has the        *)
(* command, and tries what stat found unless it was changed in between;    *)
(* and userfsact.c and useract.c print every process that was accepted all *)
(* the time, once.                                                         *)
(***************************************************************************)
THEOREM WalksComplete == Spec => []WalksSound
<1> DEFINE IInv == /\ program = "getcwd" => ClimbInv
                   /\ program = "dirwatch" => WalkInv
                   /\ program = "execlp" => SearchInv
                   /\ program \in ScanPrograms => ScanInv
<1>1. Init => IInv
  <2> SUFFICES ASSUME Init PROVE IInv
    OBVIOUS
  <2>1. program \in {"getcwd", "dirwatch", "execlp"} =>
          GetcwdInit \/ DirwatchInit \/ ExeclpInit
    BY OneBegins DEF DirToolsInit
  <2>2. /\ ClimbInv => program = "getcwd"
        /\ WalkInv => program = "dirwatch"
        /\ SearchInv => program = "execlp"
    BY DEF ClimbInv, GetcwdTypeOK, WalkInv, DirwatchTypeOK, SearchInv
  <2>3. program \in ScanPrograms => ScanInv
    BY OneBegins, ScanBegins
  <2> QED
    BY <2>1, <2>2, <2>3, ClimbBegins, WalkBegins, SearchBegins
<1>2. IInv /\ [Next]_vars => IInv'
  <2> SUFFICES ASSUME IInv, [Next]_vars PROVE IInv'
    OBVIOUS
  <2>1. CASE UNCHANGED vars
    <3>1. /\ PathSoFar(mem.path, mem.at, mem.skipped, mem.had) =>
               PathSoFar(mem.path, mem.at, mem.skipped, mem.had)'
          /\ PathExactly(mem.path, mem.at) => PathExactly(mem.path, mem.at)'
          /\ GetcwdTypeOK => GetcwdTypeOK'
          /\ AllLead' => AllLead
      BY <2>1 DEF vars, PathSoFar, PathExactly, GetcwdTypeOK, AllLead, LeadsTo
    <3>2. ClimbInv => ClimbInv'
      BY <2>1, <3>1 DEF vars, ClimbInv
    <3>3. \A d \in Directories : Comes(d) => Comes(d)'
      BY <2>1 DEF vars, Comes, ToList
    <3>4. WalkInv => WalkInv'
      BY <2>1, <3>3 DEF vars, WalkInv, DirwatchTypeOK
    <3>5. SearchInv => SearchInv'
      BY <2>1 DEF vars, SearchInv
    <3>6. ScanTypeOK => ScanTypeOK'
      BY <2>1 DEF vars, ScanTypeOK
    <3>7. ScanInv => ScanInv'
      BY <2>1, <3>6 DEF vars, ScanInv, PrintedSoFar, NothingMissed
    <3> QED
      BY <2>1, <3>2, <3>4, <3>5, <3>7 DEF vars
  <2>2. CASE ~UNCHANGED vars
    <3>1. CASE program = "getcwd"
      <4>1. program' = "getcwd" /\ (Getcwd \/ RenameDirectory \/ ChangeSibling)
        BY <2>2, <3>1, OneProgram
           DEF DirToolsNext, Dirwatch, WatchTop, VisitEntry, OpenEntry, Process, ListEntries,
               WalkEnds, DisplayEvent, EditTree, Execlp, TryDirectory, Execve, Install,
               Step, Compute, Goto
      <4> QED
        BY <3>1, <4>1, ClimbMoves, ClimbEdited DEF ScanPrograms
    <3>2. CASE program = "dirwatch"
      <4>1. program' = "dirwatch" /\ (Dirwatch \/ EditTree)
        BY <2>2, <3>2, OneProgram
           DEF DirToolsNext, Getcwd, Climb, ReadDirectory, StatEntry, ReturnPath,
               RenameDirectory, ChangeSibling, Execlp, TryDirectory, Execve, Install,
               Step, Compute, Goto
      <4> QED
        BY <3>2, <4>1, WalkStep DEF ScanPrograms
    <3>3. CASE program = "execlp"
      <4>1. program' = "execlp" /\ (Execlp \/ Install)
        BY <2>2, <3>3, OneProgram
           DEF DirToolsNext, Dirwatch, WatchTop, VisitEntry, OpenEntry, Process, ListEntries,
               WalkEnds, DisplayEvent, EditTree, Getcwd, Climb, ReadDirectory, StatEntry,
               ReturnPath, RenameDirectory, ChangeSibling, Step, Compute, Goto
      <4> QED
        BY <3>3, <4>1, SearchStep DEF ScanPrograms
    <3>4. CASE program \in ScanPrograms
      <4>1. program' = program /\ ProcScanNext
        BY <2>2, <3>4, OneProgram
      <4> QED
        BY <3>4, <4>1, ScanStep DEF ScanPrograms
    <3>5. CASE program \notin {"getcwd", "dirwatch", "execlp"} \cup ScanPrograms
      <4>1. program' = program
        BY OneProgram
      <4> QED
        BY <3>5, <4>1
    <3> QED
      BY <3>1, <3>2, <3>3, <3>4, <3>5
  <2> QED
    BY <2>1, <2>2
<1>3. IInv => WalksSound
  BY ClimbPath, WalkWatches, SearchFinds, ScanFinds
     DEF WalksSound, PathExact, WatchesComplete, FirstInPath, ScanComplete
<1> QED
  BY <1>1, <1>2, <1>3, PTL DEF Spec

-----------------------------------------------------------------------------
\* tail.c

\* A set of more than n numbers has one with n greater ones.
LEMMA OneWithGreater ==
  ASSUME NEW S \in SUBSET Nat, IsFiniteSet(S), NEW n \in Nat, n < Cardinality(S)
  PROVE  \E k \in S : Cardinality({j \in S : j > k}) = n
<1> DEFINE m == Cardinality(S)
           above(k) == {j \in S : j > k}
           r == [k \in S |-> Cardinality(above(k))]
<1>1. m \in Nat
  BY FS_CardinalityType
<1>2. \A k \in S : IsFiniteSet(above(k)) /\ Cardinality(above(k)) \in 0 .. m - 1
  <2> SUFFICES ASSUME NEW k \in S
               PROVE  IsFiniteSet(above(k)) /\ Cardinality(above(k)) \in 0 .. m - 1
    OBVIOUS
  <2>1. above(k) \subseteq S /\ k \notin above(k)
    OBVIOUS
  <2>2. /\ IsFiniteSet(above(k)) /\ Cardinality(above(k)) <= m
        /\ Cardinality(above(k)) # m
    BY <2>1, FS_Subset
  <2>3. Cardinality(above(k)) \in Nat
    BY <2>2, FS_CardinalityType
  <2> QED
    BY <1>1, <2>2, <2>3
<1>3. \A j, k \in S : j < k => Cardinality(above(k)) # Cardinality(above(j))
  <2> SUFFICES ASSUME NEW j \in S, NEW k \in S, j < k
               PROVE  Cardinality(above(k)) # Cardinality(above(j))
    OBVIOUS
  <2>1. above(k) \subseteq above(j) /\ k \in above(j) /\ k \notin above(k)
    <3>1. \A x \in S : x > k => x > j
      OBVIOUS
    <3>2. k > j /\ ~(k > k)
      OBVIOUS
    <3> QED
      BY <3>1, <3>2
  <2> HIDE DEF above
  <2> QED
    BY <1>2, <2>1, FS_Subset
<1>4. r \in Injection(S, 0 .. m - 1)
  <2>1. r \in [S -> 0 .. m - 1]
    BY <1>2
  <2>2. \A j, k \in S : r[j] = r[k] => j = k
    <3>1. \A j, k \in S : j < k \/ k < j \/ j = k
      OBVIOUS
    <3> HIDE DEF above
    <3> QED
      BY <1>3, <3>1
  <2> QED
    BY <2>1, <2>2 DEF Injection, IsInjective
<1>5. IsFiniteSet(0 .. m - 1) /\ Cardinality(0 .. m - 1) = m
  <2>1. 0 \in Int /\ m - 1 \in Int
    BY <1>1
  <2> HIDE DEF m
  <2>2. /\ IsFiniteSet(0 .. m - 1)
        /\ Cardinality(0 .. m - 1) = IF 0 > m - 1 THEN 0 ELSE m - 1 - 0 + 1
    BY <2>1, FS_Interval
  <2> QED
    BY <1>1, <2>2
<1>6. r \in Surjection(S, 0 .. m - 1)
  BY <1>4, <1>5, FS_Injection
<1>7. n \in 0 .. m - 1
  BY <1>1
<1> HIDE DEF r, m, above
<1>8. PICK k \in S : r[k] = n
  BY <1>6, <1>7 DEF Surjection
<1> QED
  BY <1>8 DEF r, above

\* A remainder is not changed by what is a multiple.
LEMMA AddModulus ==
  ASSUME NEW b \in Nat \ {0}, NEW n \in Nat, n % b = 0
  PROVE  (n + b) % b = 0
<1> DEFINE q == n \div b
           p == (n + b) \div b
           r == (n + b) % b
<1>1. q \in Int /\ p \in Int /\ r \in Int /\ 0 <= r /\ r < b
  OBVIOUS
<1>2. n = b * q
  OBVIOUS
<1>3. n + b = b * p + r
  OBVIOUS
<1> HIDE DEF q, p, r
<1> DEFINE d == q + 1 - p
<1>4. b * d = r
  BY <1>1, <1>2, <1>3
<1>5. d \in Int
  BY <1>1
<1> HIDE DEF d
<1>6. d = 0
  <2>1. d >= 1 => b * d >= b
    BY <1>5
  <2>2. d <= -1 => b * d <= -b
    BY <1>5
  <2> QED
    BY <1>1, <1>4, <1>5, <2>1, <2>2
<1>7. r = 0
  BY <1>4, <1>6
<1> QED
  BY <1>7 DEF r

\* The offsets behind the newlines of a file.
LinesOf(file, from, to) == {k \in from + 1 .. to : file[k] = "newline"}

\* There are finitely many newlines, and as many as there are offsets at most.
LEMMA LinesFinite ==
  ASSUME NEW file, NEW from \in Nat, NEW to \in Nat
  PROVE  /\ IsFiniteSet(LinesOf(file, from, to))
         /\ Cardinality(LinesOf(file, from, to)) \in Nat
         /\ LinesOf(file, from, to) \in SUBSET Nat
<1>1. IsFiniteSet(from + 1 .. to)
  BY FS_Interval
<1>2. LinesOf(file, from, to) \in SUBSET (from + 1 .. to)
  BY DEF LinesOf
<1>3. IsFiniteSet(LinesOf(file, from, to))
  BY <1>1, <1>2, FS_Subset
<1> QED
  BY <1>2, <1>3, FS_CardinalityType

\* What is behind a place and what is before it.
LEMMA LinesBehind ==
  ASSUME NEW file, NEW from \in Nat, NEW mid \in Nat, NEW to \in Nat, from <= mid, mid <= to
  PROVE  Cardinality(LinesOf(file, from, to))
           = Cardinality(LinesOf(file, from, mid)) + Cardinality(LinesOf(file, mid, to))
<1> DEFINE a == LinesOf(file, from, mid)
           b == LinesOf(file, mid, to)
<1>1. LinesOf(file, from, to) = a \cup b /\ a \cap b = {}
  BY DEF LinesOf
<1>2. /\ IsFiniteSet(a) /\ IsFiniteSet(b) /\ Cardinality(a) \in Nat /\ Cardinality(b) \in Nat
  BY LinesFinite
<1> HIDE DEF a, b
<1>3. Cardinality(a \cup b) = Cardinality(a) + Cardinality(b) - Cardinality(a \cap b)
  BY <1>2, FS_Union
<1>4. Cardinality(a \cap b) = 0
  BY <1>1, FS_EmptySet
<1>5. Cardinality(a \cup b) = Cardinality(a) + Cardinality(b)
  BY <1>2, <1>3, <1>4
<1> QED
  BY <1>1, <1>5 DEF a, b

TailTypeOK ==
  /\ program = "tail"
  /\ DOMAIN pc = {"tail"} /\ pc["tail"] \in {"seek", "scan", "copy", "done"}
  /\ DOMAIN mem = {"file", "asked", "nlines", "filesiz", "pos", "out"}
  /\ mem.file \in Seq(Characters) /\ mem.asked \in Nat /\ mem.pos \in Nat
  /\ mem.filesiz \in Nat /\ mem.filesiz <= Len(mem.file)
  /\ mem.out \in Seq(Characters)

\* Either the lines asked for begin at pos, or so many are still to be found
\* before it.
Scanned(file, asked, nlines, filesiz, pos) ==
  \/ /\ nlines = -1 /\ pos > 0 /\ file[pos] = "newline"
     /\ Cardinality(LinesOf(file, pos, filesiz)) = asked
  \/ /\ nlines \in Nat
     /\ nlines + Cardinality(LinesOf(file, pos, filesiz)) = asked
     /\ pos = 0 \/ (filesiz - pos) % TailBuf = 0

\* What tail prints may begin there.
Starts(file, asked, filesiz, start) ==
  /\ Cardinality(LinesOf(file, start, filesiz))
       = LET all == Cardinality(LinesOf(file, 0, filesiz))
         IN  IF all < asked THEN all ELSE asked
  /\ start = 0 \/ file[start] = "newline" \/ (filesiz - start) % TailBuf = 0

TailInv ==
  /\ TailTypeOK
  /\ pc["tail"] = "seek" => mem.nlines = mem.asked /\ mem.out = <<>>
  /\ pc["tail"] = "scan" =>
       /\ mem.pos <= mem.filesiz /\ mem.out = <<>>
       /\ Scanned(mem.file, mem.asked, mem.nlines, mem.filesiz, mem.pos)
  /\ pc["tail"] \in {"copy", "done"} =>
       LET start == mem.pos - Len(mem.out)
       IN  /\ start \in Nat /\ start <= mem.filesiz /\ mem.pos <= Len(mem.file)
           /\ mem.out = SubSeq(mem.file, start + 1, mem.pos)
           /\ Starts(mem.file, mem.asked, mem.filesiz, start)
  /\ pc["tail"] = "done" => mem.pos = Len(mem.file)

\* tail.c begins with nothing printed.
LEMMA TailBegins == TailInit => TailInv
<1> SUFFICES ASSUME TailInit PROVE TailInv
  OBVIOUS
<1>1. PICK n \in 0 .. MaxFile, asked \in 0 .. MaxLines : \E file \in [1 .. n -> Characters] :
        Begin("tail", [tail |-> "seek"],
              [file |-> file, asked |-> asked, nlines |-> asked, filesiz |-> 0,
               pos |-> 0, out |-> <<>>], <<>>)
  BY DEF TailInit
<1>2. PICK file \in [1 .. n -> Characters] :
        Begin("tail", [tail |-> "seek"],
              [file |-> file, asked |-> asked, nlines |-> asked, filesiz |-> 0,
               pos |-> 0, out |-> <<>>], <<>>)
  BY <1>1
<1>3. /\ program = "tail" /\ pc = [tail |-> "seek"] /\ mem.file = file /\ mem.asked = asked
      /\ mem.nlines = asked /\ mem.filesiz = 0 /\ mem.pos = 0 /\ mem.out = <<>>
      /\ DOMAIN mem = {"file", "asked", "nlines", "filesiz", "pos", "out"}
  BY <1>2 DEF Begin
<1>4. DOMAIN pc = {"tail"} /\ pc["tail"] = "seek"
  <2>1. DOMAIN [tail |-> "seek"] = {"tail"} /\ [tail |-> "seek"]["tail"] = "seek"
    OBVIOUS
  <2> QED
    BY <1>3, <2>1
<1>5. asked \in Nat /\ n \in Nat
  BY FileToolsAssumption
<1>6. file \in Seq(Characters) /\ Len(file) = n
  BY ONLY <1>5, file \in [1 .. n -> Characters]
<1>7. <<>> \in Seq(Characters) /\ 0 \in Nat
  BY ONLY TRUE
<1>8. TailTypeOK
  BY <1>3, <1>4, <1>5, <1>6, <1>7 DEF TailTypeOK
<1> QED
  BY <1>3, <1>4, <1>8 DEF TailInv

\* Where the scan stops the output may begin.
LEMMA ScanStops ==
  ASSUME NEW file, NEW asked \in Nat, NEW nlines, NEW filesiz \in Nat, NEW pos \in Nat,
         pos <= filesiz, Scanned(file, asked, nlines, filesiz, pos), ~(pos > 0 /\ nlines > 0)
  PROVE  Starts(file, asked, filesiz, pos)
<1> DEFINE c == Cardinality(LinesOf(file, pos, filesiz))
           d == Cardinality(LinesOf(file, 0, pos))
           all == Cardinality(LinesOf(file, 0, filesiz))
<1>1. c \in Nat /\ d \in Nat /\ all \in Nat
  BY LinesFinite
<1>2. all = d + c
  BY LinesBehind
<1>3. pos = 0 => all = c
  OBVIOUS
<1>4. \/ pos > 0 /\ file[pos] = "newline" /\ c = asked
      \/ /\ nlines \in Nat /\ nlines + c = asked
         /\ pos = 0 \/ (filesiz - pos) % TailBuf = 0
  BY DEF Scanned
<1>5. Starts(file, asked, filesiz, pos)
        <=> /\ c = IF all < asked THEN all ELSE asked
            /\ pos = 0 \/ file[pos] = "newline" \/ (filesiz - pos) % TailBuf = 0
  BY DEF Starts
<1> HIDE DEF c, d, all
<1>6. c = IF all < asked THEN all ELSE asked
  <2>1. CASE c = asked
    BY <1>1, <1>2, <2>1
  <2>2. CASE c # asked
    <3>1. nlines \in Nat /\ nlines + c = asked /\ nlines # 0 /\ pos = 0
      BY <1>1, <1>4, <2>2
    <3> QED
      BY <1>1, <1>3, <3>1
  <2> QED
    BY <2>1, <2>2
<1> QED
  BY <1>4, <1>5, <1>6

\* The scan of the piece before pos.
LEMMA ScanGoesOn ==
  ASSUME TailInv, ScanPiece
  PROVE  TailInv'
<1> USE DEF Step, Compute, Goto, Move, kernel
<1> DEFINE file == mem.file
           pos == mem.pos
           from == PieceStart
           n == mem.nlines
           size == mem.filesiz
           found == LinesOf(file, from, pos)
<1>1. /\ TailTypeOK /\ pc["tail"] = "scan" /\ pos > 0 /\ n > 0
      /\ pos <= size /\ mem.out = <<>> /\ Scanned(file, mem.asked, n, size, pos)
  BY DEF ScanPiece, More, TailInv
<1>2. /\ size \in Nat /\ pos \in Nat /\ TailBuf \in Nat \ {0} /\ mem.asked \in Nat
  BY <1>1, FileToolsAssumption DEF TailTypeOK
<1>3. /\ from \in Nat /\ from < pos /\ (from = 0 \/ from = pos - TailBuf)
  BY <1>1, <1>2 DEF PieceStart
<1>4. /\ n \in Nat /\ n + Cardinality(LinesOf(file, pos, size)) = mem.asked
      /\ pos = 0 \/ (size - pos) % TailBuf = 0
  BY <1>1 DEF Scanned
<1>5. /\ Newlines(from, pos) = found
      /\ Begins(Newlines(from, pos)) = {k \in found : Cardinality({j \in found : j > k}) = n}
  BY DEF Newlines, LinesOf, Begins
<1>6. IsFiniteSet(found) /\ found \in SUBSET Nat /\ Cardinality(found) \in Nat
  BY <1>2, <1>3, LinesFinite
<1> DEFINE p == mem'.pos
           left == mem'.nlines
<1>7. ASSUME program' = program, pc' = [pc EXCEPT !["tail"] = "scan"], p \in Nat,
             p <= size, mem'.file = file, mem'.asked = mem.asked, mem'.filesiz = size,
             mem'.out = mem.out, DOMAIN mem' = DOMAIN mem,
             Scanned(file, mem.asked, left, size, p)
      PROVE  TailInv'
  <2>1. DOMAIN pc' = {"tail"} /\ pc'["tail"] = "scan"
    BY <1>1, <1>7 DEF TailTypeOK
  <2>2. TailTypeOK'
    BY <1>1, <1>7, <2>1 DEF TailTypeOK
  <2> QED
    BY <1>1, <1>7, <2>1, <2>2 DEF TailInv
<1>8. CASE /\ Compute("tail", "tail", "scan", "scan",
                      [mem EXCEPT !.pos = PieceStart,
                                  !.nlines = @ - Cardinality(Newlines(PieceStart, mem.pos))])
           /\ Begins(Newlines(PieceStart, mem.pos)) = {}
  <2> DEFINE m == n - Cardinality(found)
  <2>1. /\ program' = program /\ pc' = [pc EXCEPT !["tail"] = "scan"]
        /\ mem' = [mem EXCEPT !.pos = from, !.nlines = m]
    BY <1>1, <1>5, <1>8 DEF TailTypeOK
  <2>2. Cardinality(found) <= n
    <3>1. \A k \in found : Cardinality({j \in found : j > k}) # n
      BY <1>5, <1>8
    <3> HIDE DEF found, n
    <3>2. ~(n < Cardinality(found))
      BY <1>4, <1>6, <3>1, OneWithGreater
    <3> QED
      BY <1>4, <1>6, <3>2
  <2>3. m \in Nat
    BY <1>4, <1>6, <2>2
  <2>4. Cardinality(LinesOf(file, from, size))
          = Cardinality(found) + Cardinality(LinesOf(file, pos, size))
    BY <1>1, <1>2, <1>3, LinesBehind
  <2>5. Cardinality(LinesOf(file, pos, size)) \in Nat
    BY <1>2, LinesFinite
  <2>6. m + Cardinality(LinesOf(file, from, size)) = mem.asked
    BY <1>2, <1>4, <1>6, <2>4, <2>5
  <2>7. from = 0 \/ (size - from) % TailBuf = 0
    <3>1. CASE from = pos - TailBuf
      <4>1. size - pos \in Nat /\ (size - pos) % TailBuf = 0
        BY <1>1, <1>2, <1>4
      <4>2. (size - pos + TailBuf) % TailBuf = 0
        BY <1>2, <4>1, AddModulus
      <4>3. size - from = size - pos + TailBuf
        BY <1>2, <3>1
      <4> QED
        BY <4>2, <4>3
    <3> QED
      BY <1>3, <3>1
  <2>8. Scanned(file, mem.asked, m, size, from)
    BY <2>3, <2>6, <2>7 DEF Scanned
  <2> HIDE DEF m, from
  <2>9. /\ mem'.pos = from /\ mem'.nlines = m /\ mem'.file = file /\ mem'.asked = mem.asked
        /\ mem'.filesiz = size /\ mem'.out = mem.out /\ DOMAIN mem' = DOMAIN mem
    BY <1>1, <2>1 DEF TailTypeOK
  <2> QED
    BY <1>1, <1>2, <1>3, <1>7, <2>1, <2>8, <2>9
<1>9. CASE \E k \in Begins(Newlines(PieceStart, mem.pos)) :
             Compute("tail", "tail", "scan", "scan", [mem EXCEPT !.pos = k, !.nlines = -1])
  <2>1. PICK k \in found :
          /\ Cardinality({j \in found : j > k}) = n
          /\ program' = program /\ pc' = [pc EXCEPT !["tail"] = "scan"]
          /\ mem' = [mem EXCEPT !.pos = k, !.nlines = -1]
    BY <1>5, <1>9
  <2>2. k \in Nat /\ k > from /\ k <= pos /\ file[k] = "newline" /\ k > 0
    BY <1>2, <1>3, <2>1 DEF LinesOf
  <2>3. LinesOf(file, k, pos) = {j \in found : j > k}
    BY <1>2, <1>3, <2>2 DEF LinesOf
  <2>4. Cardinality(LinesOf(file, k, size))
          = Cardinality(LinesOf(file, k, pos)) + Cardinality(LinesOf(file, pos, size))
    BY <1>1, <1>2, <2>2, LinesBehind
  <2>5. Cardinality(LinesOf(file, k, size)) = mem.asked
    BY <1>4, <2>1, <2>3, <2>4
  <2>6. Scanned(file, mem.asked, -1, size, k) /\ k <= size
    BY <1>1, <1>2, <2>2, <2>5 DEF Scanned
  <2>7. /\ mem'.pos = k /\ mem'.nlines = -1 /\ mem'.file = file /\ mem'.asked = mem.asked
        /\ mem'.filesiz = size /\ mem'.out = mem.out /\ DOMAIN mem' = DOMAIN mem
    BY <1>1, <2>1 DEF TailTypeOK
  <2> QED
    BY <1>7, <2>1, <2>2, <2>6, <2>7
<1> QED
  BY <1>8, <1>9 DEF ScanPiece

\* A part of a file and the part behind it.
LEMMA PartsMeet ==
  ASSUME NEW S, NEW seq \in Seq(S), NEW a \in Nat, NEW k \in Nat, NEW n \in Nat,
         a <= k, k <= n, n <= Len(seq)
  PROVE  SubSeq(seq, a + 1, k) \o SubSeq(seq, k + 1, n) = SubSeq(seq, a + 1, n)
<1> DEFINE m == a + 1
<1>1. m \in 1 .. Len(seq) + 1 /\ k \in m - 1 .. Len(seq) /\ n \in k .. Len(seq)
  OBVIOUS
<1> HIDE DEF m
<1>2. SubSeq(seq, m, k) \o SubSeq(seq, k + 1, n) = SubSeq(seq, m, n)
  BY <1>1, ConcatAdjacentSubSeq
<1> QED
  BY <1>2 DEF m

\* A file that grows keeps what it has.
LEMMA FileGrows ==
  ASSUME NEW file \in Seq(Characters), NEW c \in Characters, NEW size \in Nat,
         size <= Len(file)
  PROVE  /\ Append(file, c) \in Seq(Characters) /\ Len(Append(file, c)) = Len(file) + 1
         /\ \A k \in 1 .. Len(file) : Append(file, c)[k] = file[k]
         /\ \A from \in Nat : LinesOf(Append(file, c), from, size) = LinesOf(file, from, size)
         /\ \A from, to \in Nat : to <= Len(file) =>
              SubSeq(Append(file, c), from + 1, to) = SubSeq(file, from + 1, to)
<1> DEFINE more == Append(file, c)
<1>1. /\ more \in Seq(Characters) /\ Len(more) = Len(file) + 1 /\ Len(file) \in Nat
      /\ \A k \in 1 .. Len(file) : more[k] = file[k] /\ file[k] \in Characters
  OBVIOUS
<1> HIDE DEF more
<1>2. \A from \in Nat : LinesOf(more, from, size) = LinesOf(file, from, size)
  BY <1>1 DEF LinesOf
<1>3. ASSUME NEW from \in Nat, NEW to \in Nat, to <= Len(file)
      PROVE  SubSeq(more, from + 1, to) = SubSeq(file, from + 1, to)
  <2> DEFINE s == SubSeq(more, from + 1, to)
             t == SubSeq(file, from + 1, to)
  <2>1. \A k \in from + 1 .. to : k \in 1 .. Len(file)
    BY <1>1, <1>3
  <2>2. /\ s \in Seq(Characters) /\ Len(s) = (IF from + 1 <= to THEN to - (from + 1) + 1 ELSE 0)
        /\ \A i \in 1 .. to - (from + 1) + 1 : s[i] = more[from + 1 + i - 1]
    BY <1>1, <1>3, <2>1, SubSeqProperties
  <2>3. /\ t \in Seq(Characters) /\ Len(t) = (IF from + 1 <= to THEN to - (from + 1) + 1 ELSE 0)
        /\ \A i \in 1 .. to - (from + 1) + 1 : t[i] = file[from + 1 + i - 1]
    BY <1>1, <1>3, <2>1, SubSeqProperties
  <2> HIDE DEF s, t
  <2>4. ASSUME NEW i \in 1 .. Len(s) PROVE s[i] = t[i]
    <3>1. i \in 1 .. to - (from + 1) + 1 /\ from + 1 + i - 1 \in from + 1 .. to
      BY <1>3, <2>2, <2>4
    <3> QED
      BY <1>1, <2>1, <2>2, <2>3, <3>1
  <2>5. s = t
    BY <2>2, <2>3, <2>4, SeqEqual
  <2> QED
    BY <2>5 DEF s, t
<1> QED
  BY <1>1, <1>2, <1>3 DEF more

\* Every step of tail.c, and a character appended, keeps the invariant.
LEMMA TailStep ==
  ASSUME TailInv, TailSteps \/ AppendToFile
  PROVE  TailInv'
<1> USE DEF Step, Compute, Goto, Move, kernel
<1> DEFINE t == "tail"
           file == mem.file
           size == mem.filesiz
           start == mem.pos - Len(mem.out)
<1>1. /\ TailTypeOK /\ mem.pos \in Nat /\ mem.asked \in Nat /\ size \in Nat
      /\ file \in Seq(Characters) /\ Len(file) \in Nat /\ size <= Len(file)
      /\ TailBuf \in Nat \ {0} /\ mem.out \in Seq(Characters) /\ Len(mem.out) \in Nat
  BY FileToolsAssumption DEF TailInv, TailTypeOK
<1>2. CASE SeekFileEnd
  <2> DEFINE n == Len(file)
  <2>1. /\ program' = program /\ pc[t] = "seek" /\ pc' = [pc EXCEPT ![t] = "scan"]
        /\ mem' = [mem EXCEPT !.filesiz = n, !.pos = n]
    BY <1>2 DEF SeekFileEnd
  <2>2. DOMAIN pc' = {t} /\ pc'[t] = "scan"
    BY <1>1, <2>1 DEF TailTypeOK
  <2>3. mem.nlines = mem.asked /\ mem.out = <<>>
    BY <2>1 DEF TailInv
  <2>4. Scanned(file, mem.asked, mem.asked, n, n)
    <3>1. LinesOf(file, n, n) = {}
      BY <1>1 DEF LinesOf
    <3>2. Cardinality(LinesOf(file, n, n)) = 0
      BY <3>1, FS_EmptySet
    <3>3. n - n = 0 /\ 0 % TailBuf = 0
      BY <1>1
    <3> QED
      BY <1>1, <3>2, <3>3 DEF Scanned
  <2> HIDE DEF n
  <2>5. /\ mem'.file = file /\ mem'.asked = mem.asked /\ mem'.nlines = mem.nlines
        /\ mem'.filesiz = n /\ mem'.pos = n /\ mem'.out = mem.out /\ DOMAIN mem' = DOMAIN mem
    BY <1>1, <2>1 DEF TailTypeOK
  <2>6. n \in Nat /\ n = Len(file) /\ n <= n
    BY <1>1 DEF n
  <2>7. TailTypeOK'
    BY <1>1, <2>1, <2>2, <2>5, <2>6 DEF TailTypeOK
  <2> QED
    BY <2>2, <2>3, <2>4, <2>5, <2>6, <2>7 DEF TailInv
<1>3. CASE ScanPiece
  BY <1>3, ScanGoesOn
<1>4. CASE StopScan
  <2>1. /\ program' = program /\ mem' = mem /\ pc[t] = "scan" /\ ~(mem.pos > 0 /\ mem.nlines > 0)
        /\ pc' = [pc EXCEPT ![t] = "copy"]
    BY <1>4 DEF StopScan, More
  <2>2. DOMAIN pc' = {t} /\ pc'[t] = "copy"
    BY <1>1, <2>1 DEF TailTypeOK
  <2>3. /\ mem.pos <= size /\ mem.out = <<>>
        /\ Scanned(file, mem.asked, mem.nlines, size, mem.pos)
    BY <2>1 DEF TailInv
  <2>4. Starts(file, mem.asked, size, mem.pos)
    BY <1>1, <2>1, <2>3, ScanStops
  <2>5. start = mem.pos
    BY <1>1, <2>3
  <2>6. mem.out = SubSeq(file, start + 1, mem.pos)
    BY <1>1, <2>3, <2>5, SubSeqEmpty
  <2>7. mem.pos <= Len(file)
    BY <1>1, <2>3
  <2> QED
    BY <1>1, <2>1, <2>2, <2>3, <2>4, <2>5, <2>6, <2>7 DEF TailInv, TailTypeOK
<1>5. CASE CopyPiece
  <2> DEFINE next == IF mem.pos + TailBuf < Len(file) THEN mem.pos + TailBuf ELSE Len(file)
             to == IF next = mem.pos THEN "done" ELSE "copy"
             more == SubSeq(file, mem.pos + 1, next)
             out == mem.out \o more
  <2>1. /\ program' = program /\ pc[t] = "copy" /\ pc' = [pc EXCEPT ![t] = to]
        /\ mem' = [mem EXCEPT !.pos = next, !.out = out]
    BY <1>1, <1>5 DEF CopyPiece, TailTypeOK
  <2>2. /\ start \in Nat /\ start <= size /\ mem.pos <= Len(file)
        /\ mem.out = SubSeq(file, start + 1, mem.pos)
        /\ Starts(file, mem.asked, size, start)
    BY <2>1 DEF TailInv
  <2>3. /\ next \in Nat /\ mem.pos <= next /\ next <= Len(file)
        /\ next = mem.pos => next = Len(file)
    <3>1. mem.pos <= Len(file)
      BY <2>2
    <3> QED
      BY ONLY <1>1, <3>1
  <2>4. DOMAIN pc' = {t} /\ pc'[t] = to /\ to \in {"copy", "done"}
        /\ (to = "done" => next = mem.pos)
    BY <1>1, <2>1 DEF TailTypeOK
  <2> HIDE DEF next, to
  <2>5. more \in Seq(Characters) /\ Len(more) = next - mem.pos
    <3>1. \A i \in mem.pos + 1 .. next : file[i] \in Characters
      BY <1>1, <2>3
    <3>2. /\ more \in Seq(Characters)
          /\ Len(more) = IF mem.pos + 1 <= next THEN next - (mem.pos + 1) + 1 ELSE 0
      BY <1>1, <2>3, <3>1, SubSeqProperties
    <3> HIDE DEF more
    <3> QED
      BY <1>1, <2>3, <3>2
  <2>6. out = SubSeq(file, start + 1, next)
    <3> DEFINE o == Len(mem.out)
               f == file
    <3>1. /\ o \in Nat /\ mem.pos \in Nat /\ start = mem.pos - o /\ start \in Nat
          /\ mem.pos <= next /\ next <= Len(f) /\ next \in Nat /\ f \in Seq(Characters)
      BY <1>1, <2>2, <2>3
    <3> HIDE DEF start, o, f
    <3>2. start <= mem.pos
      BY ONLY <3>1
    <3>3. SubSeq(f, start + 1, mem.pos) \o SubSeq(f, mem.pos + 1, next)
            = SubSeq(f, start + 1, next)
      BY ONLY <3>1, <3>2, PartsMeet
    <3> QED
      BY <2>2, <3>3 DEF start, f
  <2> HIDE DEF more
  <2>7. out \in Seq(Characters) /\ Len(out) = Len(mem.out) + Len(more)
    <3>1. mem.out \in Seq(Characters)
      BY <1>1
    <3> QED
      BY ONLY <2>5, <3>1, ConcatProperties
  <2> HIDE DEF out
  <2>8. next - Len(out) = start
    BY <1>1, <2>3, <2>5, <2>7
  <2>9. /\ mem'.file = file /\ mem'.asked = mem.asked /\ mem'.filesiz = size
        /\ mem'.pos = next /\ mem'.out = out /\ DOMAIN mem' = DOMAIN mem
    BY <1>1, <2>1 DEF TailTypeOK
  <2>10. TailTypeOK'
    BY <1>1, <2>1, <2>3, <2>4, <2>7, <2>9 DEF TailTypeOK
  <2> HIDE DEF start
  <2> QED
    BY <2>2, <2>3, <2>4, <2>6, <2>8, <2>9, <2>10 DEF TailInv
<1>6. CASE AppendToFile
  <2>1. PICK c \in Characters :
          /\ program' = program /\ pc' = pc /\ pc[t] # "done"
          /\ mem' = [mem EXCEPT !.file = Append(@, c)]
    BY <1>6 DEF AppendToFile
  <2> DEFINE more == Append(file, c)
  <2>2. /\ more \in Seq(Characters) /\ Len(more) = Len(file) + 1
        /\ \A k \in 1 .. Len(file) : more[k] = file[k]
        /\ \A from \in Nat : LinesOf(more, from, size) = LinesOf(file, from, size)
        /\ \A from, to \in Nat : to <= Len(file) =>
             SubSeq(more, from + 1, to) = SubSeq(file, from + 1, to)
    BY <1>1, FileGrows
  <2>3. /\ mem'.file = more /\ mem'.asked = mem.asked /\ mem'.filesiz = size
        /\ mem'.nlines = mem.nlines /\ mem'.pos = mem.pos /\ mem'.out = mem.out
        /\ DOMAIN mem' = DOMAIN mem
    BY <1>1, <2>1 DEF TailTypeOK
  <2> HIDE DEF more
  <2>4. size <= Len(more)
    BY <1>1, <2>2
  <2>5. TailTypeOK'
    BY <1>1, <2>1, <2>2, <2>3, <2>4 DEF TailTypeOK
  <2>6. pc[t] = "scan" => Scanned(more, mem.asked, mem.nlines, size, mem.pos)
    <3>1. SUFFICES ASSUME pc[t] = "scan"
                   PROVE  Scanned(more, mem.asked, mem.nlines, size, mem.pos)
      OBVIOUS
    <3>2. mem.pos <= size /\ Scanned(file, mem.asked, mem.nlines, size, mem.pos)
      BY <3>1 DEF TailInv
    <3>3. LinesOf(more, mem.pos, size) = LinesOf(file, mem.pos, size)
          /\ (mem.pos > 0 => more[mem.pos] = file[mem.pos])
      BY <1>1, <2>2, <3>2, SMTT(30)
    <3> QED
      BY <3>2, <3>3 DEF Scanned
  <2>7. pc[t] = "copy" =>
          /\ mem.out = SubSeq(more, start + 1, mem.pos) /\ mem.pos <= Len(more)
          /\ Starts(more, mem.asked, size, start)
    <3>1. SUFFICES ASSUME pc[t] = "copy"
                   PROVE  /\ mem.out = SubSeq(more, start + 1, mem.pos) /\ mem.pos <= Len(more)
                          /\ Starts(more, mem.asked, size, start)
      OBVIOUS
    <3>2. /\ start \in Nat /\ start <= size /\ mem.pos <= Len(file)
          /\ mem.out = SubSeq(file, start + 1, mem.pos)
          /\ Starts(file, mem.asked, size, start)
      BY <3>1 DEF TailInv
    <3> HIDE DEF start
    <3>3. /\ LinesOf(more, start, size) = LinesOf(file, start, size)
          /\ LinesOf(more, 0, size) = LinesOf(file, 0, size)
          /\ SubSeq(more, start + 1, mem.pos) = SubSeq(file, start + 1, mem.pos)
      BY <1>1, <2>2, <3>2
    <3>4. start > 0 => more[start] = file[start]
      BY <1>1, <2>2, <3>2
    <3>5. start = 0 \/ start > 0
      BY <3>2
    <3>6. Starts(more, mem.asked, size, start)
      BY <3>2, <3>3, <3>4, <3>5 DEF Starts
    <3>7. mem.pos <= Len(more)
      BY <1>1, <2>2, <3>2
    <3> QED
      BY <3>2, <3>3, <3>6, <3>7
  <2> QED
    BY <2>1, <2>3, <2>5, <2>6, <2>7 DEF TailInv, TailTypeOK
<1> QED
  BY <1>2, <1>3, <1>4, <1>5, <1>6 DEF TailSteps

\* What the invariant says when tail.c has ended.
LEMMA TailPrints == TailInv => TailExact
<1> SUFFICES ASSUME TailInv, pc["tail"] = "done" PROVE TailExact
  BY DEF TailExact
<1> DEFINE start == mem.pos - Len(mem.out)
<1>1. /\ mem.pos = Len(mem.file) /\ mem.filesiz <= Len(mem.file)
      /\ mem.out = SubSeq(mem.file, start + 1, mem.pos)
      /\ Starts(mem.file, mem.asked, mem.filesiz, start)
  BY DEF TailInv, TailTypeOK
<1>2. /\ Newlines(start, mem.filesiz) = LinesOf(mem.file, start, mem.filesiz)
      /\ Newlines(0, mem.filesiz) = LinesOf(mem.file, 0, mem.filesiz)
  BY DEF Newlines, LinesOf
<1>3. mem.pos >= mem.filesiz
  BY <1>1 DEF TailInv, TailTypeOK
<1> QED
  BY <1>1, <1>2, <1>3 DEF TailExact, Starts

-----------------------------------------------------------------------------
\* mytee.c

\* The first n bytes of the input, the m bytes behind the first n, and what a
\* file begins with.
Text(n) == [k \in 1 .. n |-> k]
Piece(n, m) == [k \in 1 .. m |-> n + k]
AtFirst(apnd, name) == IF apnd THEN Old(name) ELSE <<>>

\* The bytes of the input are sequences of numbers.
LEMMA TextSeqs ==
  ASSUME NEW n \in Nat, NEW m \in Nat
  PROVE  /\ Text(n) \in Seq(Nat) /\ Len(Text(n)) = n /\ \A k \in 1 .. n : Text(n)[k] = k
         /\ Piece(n, m) \in Seq(Nat) /\ Len(Piece(n, m)) = m
         /\ \A k \in 1 .. m : Piece(n, m)[k] = n + k
BY DEF Text, Piece

\* A piece behind the first n bytes makes them the first n + m.
LEMMA TextGrows ==
  ASSUME NEW n \in Nat, NEW m \in Nat
  PROVE  Text(n) \o Piece(n, m) = Text(n + m)
<1> DEFINE a == Text(n)
           b == Piece(n, m)
           s == a \o b
           r == n + m
           t == Text(r)
<1>1. /\ a \in Seq(Nat) /\ Len(a) = n /\ \A k \in 1 .. n : a[k] = k
      /\ b \in Seq(Nat) /\ Len(b) = m /\ \A k \in 1 .. m : b[k] = n + k
  BY TextSeqs
<1>2. r \in Nat /\ n \in Nat /\ m \in Nat
  OBVIOUS
<1> HIDE DEF r
<1>3. t \in Seq(Nat) /\ Len(t) = r /\ \A k \in 1 .. r : t[k] = k
  BY <1>2, TextSeqs
<1> HIDE DEF a, b, t
<1>4. /\ s \in Seq(Nat) /\ Len(s) = Len(a) + Len(b)
      /\ \A i \in 1 .. Len(a) + Len(b) : s[i] = IF i <= Len(a) THEN a[i] ELSE b[i - Len(a)]
  BY ONLY <1>1, ConcatProperties
<1> HIDE DEF s
<1>5. \A i \in 1 .. r : s[i] = t[i]
  <2> SUFFICES ASSUME NEW i \in 1 .. r PROVE s[i] = t[i]
    OBVIOUS
  <2>1. i \in 1 .. n + m /\ i \in Nat
    BY DEF r
  <2>2. CASE i <= n
    BY <1>1, <1>2, <1>3, <1>4, <2>1, <2>2
  <2>3. CASE ~(i <= n)
    <3>1. i - n \in 1 .. m /\ n + (i - n) = i
      BY <1>2, <2>1, <2>3
    <3>2. b[i - n] = i
      BY <1>1, <3>1
    <3> QED
      BY <1>1, <1>2, <1>3, <1>4, <2>1, <2>3, <3>2
  <2> QED
    BY <2>2, <2>3
<1>6. Len(s) = r
  BY <1>1, <1>4 DEF r
<1>7. s = t
  BY ONLY <1>3, <1>4, <1>5, <1>6, SeqEqual
<1> QED
  BY <1>7 DEF s, t, a, b, r

\* A write leaves no hole, and takes nothing away.
LEMMA WritesType ==
  ASSUME NEW c \in Seq(Nat), NEW b \in Seq(Nat), NEW at \in 0 .. Len(c)
  PROVE  /\ Overwritten(c, at, b) \in Seq(Nat)
         /\ Len(Overwritten(c, at, b)) >= Len(c)
         /\ Len(Overwritten(c, at, b)) >= at + Len(b)
<1> DEFINE n == Len(c)
           m == Len(b)
           s == SubSeq(c, 1, at)
           t == SubSeq(c, at + m + 1, n)
<1>1. n \in Nat /\ m \in Nat /\ at \in Nat /\ at <= n
  OBVIOUS
<1>2. \A i \in 1 .. n : c[i] \in Nat
  OBVIOUS
<1>3. s \in Seq(Nat) /\ Len(s) = at
  <2>1. \A i \in 1 .. at : c[i] \in Nat
    BY <1>1, <1>2
  <2>2. s \in Seq(Nat) /\ Len(s) = IF 1 <= at THEN at - 1 + 1 ELSE 0
    BY <1>1, <2>1, SubSeqProperties
  <2> HIDE DEF s
  <2> QED
    BY <1>1, <2>2
<1>4. t \in Seq(Nat) /\ Len(t) = IF at + m + 1 <= n THEN n - (at + m + 1) + 1 ELSE 0
  <2>1. \A i \in at + m + 1 .. n : c[i] \in Nat
    BY <1>1, <1>2
  <2> HIDE DEF n, m
  <2> QED
    BY <1>1, <2>1, SubSeqProperties
<1> HIDE DEF n, m, s, t
<1>5. b \in Seq(Nat) /\ Len(b) = m
  BY DEF m
<1>6. /\ s \o b \in Seq(Nat) /\ Len(s \o b) = at + m
  BY ONLY <1>3, <1>5, ConcatProperties
<1>7. /\ (s \o b) \o t \in Seq(Nat) /\ Len((s \o b) \o t) = at + m + Len(t)
  BY ONLY <1>4, <1>6, ConcatProperties
<1>8. Overwritten(c, at, b) = (s \o b) \o t
  BY DEF Overwritten, s, t, n, m
<1>9. at + m + Len(t) >= n /\ at + m + Len(t) >= at + m
  BY <1>1, <1>4
<1> QED
  BY <1>7, <1>8, <1>9 DEF n, m

\* A write at the end appends.
LEMMA WritesBehind ==
  ASSUME NEW c \in Seq(Nat), NEW b \in Seq(Nat)
  PROVE  Overwritten(c, Len(c), b) = c \o b
<1>1. SubSeq(c, 1, Len(c)) = c
  BY SubSeqFull
<1>2. Len(c) + Len(b) + 1 \in Int /\ Len(c) \in Int /\ Len(c) < Len(c) + Len(b) + 1
  OBVIOUS
<1>3. SubSeq(c, Len(c) + Len(b) + 1, Len(c)) = <<>>
  BY <1>2, SubSeqEmpty
<1>4. c \o b \in Seq(Nat)
  OBVIOUS
<1>5. (c \o b) \o <<>> = c \o b
  BY <1>4, ConcatEmptySeq
<1> QED
  BY <1>1, <1>3, <1>5 DEF Overwritten

\* The piece is written where it belongs, once or again.
LEMMA WritesAgain ==
  ASSUME NEW n \in Nat, NEW m \in Nat, NEW q \in {n, n + m}
  PROVE  Overwritten(Text(q), n, Piece(n, m)) = Text(n + m)
<1> DEFINE p == Piece(n, m)
           r == n + m
           a == Text(n)
           t == Text(r)
<1>1. /\ a \in Seq(Nat) /\ Len(a) = n /\ \A k \in 1 .. n : a[k] = k
      /\ p \in Seq(Nat) /\ Len(p) = m
  BY TextSeqs
<1>2. r \in Nat /\ n \in Nat /\ m \in Nat /\ n <= r
  OBVIOUS
<1>3. t \in Seq(Nat) /\ Len(t) = r /\ \A k \in 1 .. r : t[k] = k
  <2> HIDE DEF r
  <2> QED
    BY <1>2, TextSeqs
<1>4. a \o p = t
  BY TextGrows
<1>5. q = n \/ q = r
  OBVIOUS
<1>6. n + m + 1 = r + 1
  OBVIOUS
<1> HIDE DEF p, a, t, r
<1>7. CASE q = n
  <2>1. Overwritten(a, Len(a), p) = a \o p
    BY ONLY <1>1, WritesBehind
  <2>2. Overwritten(a, n, p) = t
    BY ONLY <2>1, <1>1, <1>4
  <2> QED
    BY <1>7, <2>2 DEF a, p, t, r
<1>8. CASE q = r
  <2> DEFINE s == SubSeq(t, 1, n)
  <2>1. \A i \in 1 .. n : t[i] \in Nat /\ t[i] = i
    BY ONLY <1>2, <1>3
  <2>2. /\ s \in Seq(Nat) /\ Len(s) = (IF 1 <= n THEN n - 1 + 1 ELSE 0)
        /\ \A i \in 1 .. n - 1 + 1 : s[i] = t[1 + i - 1]
    BY ONLY <1>2, <2>1, SubSeqProperties
  <2> HIDE DEF s
  <2>3. Len(s) = n
    BY ONLY <1>2, <2>2
  <2>4. \A i \in 1 .. n : s[i] = a[i]
    <3> SUFFICES ASSUME NEW i \in 1 .. n PROVE s[i] = a[i]
      OBVIOUS
    <3>1. i \in 1 .. n - 1 + 1 /\ 1 + i - 1 = i
      BY ONLY <1>2, i \in 1 .. n
    <3>2. s[i] = t[i]
      BY ONLY <2>2, <3>1
    <3> QED
      BY ONLY <1>1, <2>1, <3>2, i \in 1 .. n
  <2>5. s = a
    BY ONLY <1>1, <2>2, <2>3, <2>4, SeqEqual
  <2>6. r + 1 \in Int /\ r \in Int /\ r < r + 1
    BY ONLY <1>2
  <2>7. SubSeq(t, r + 1, r) = <<>>
    BY ONLY <1>3, <2>6, SubSeqEmpty
  <2>8. t \o <<>> = t
    BY ONLY <1>3, ConcatEmptySeq
  <2>9. Overwritten(t, n, p) = (s \o p) \o SubSeq(t, n + m + 1, r)
    BY ONLY <1>1, <1>3 DEF Overwritten, s
  <2>10. Overwritten(t, n, p) = t
    BY ONLY <1>4, <1>6, <2>5, <2>7, <2>8, <2>9
  <2> QED
    BY <1>8, <2>10 DEF t, p, r
<1> QED
  BY <1>5, <1>7, <1>8

\* The files are named once if they are appended to.
LEMMA TeeArguments ==
  /\ Arguments \subseteq Seq(TeeFiles)
  /\ \A argv \in Arguments :
       /\ Len(argv) > 0
       /\ argv[1] = "-a" =>
            \A d, e \in 1 .. Len(argv) : argv[d] = argv[e] => d = e
BY DEF Arguments, TeeFiles

TeeTypeOK ==
  /\ program = "mytee"
  /\ DOMAIN pc = {"tee"} /\ pc["tee"] \in {"open", "read", "write", "done"}
  /\ DOMAIN mem = {"argv", "apnd", "offset", "j", "numRead", "buff", "short", "failed",
                   "content"}
  /\ mem.argv \in Arguments /\ mem.apnd \in BOOLEAN /\ (mem.apnd => mem.argv[1] = "-a")
  /\ mem.offset \in Seq(Nat) /\ mem.j \in Nat /\ mem.numRead \in Nat
  /\ mem.buff \in Seq(Nat) /\ mem.short \in BOOLEAN /\ mem.failed \in BOOLEAN
  /\ mem.content \in [TeeFiles -> Seq(Nat)]
  /\ pc["tee"] = "open" => Len(mem.offset) < Len(mem.argv) /\ mem.numRead = 0
  /\ pc["tee"] \in {"read", "write"} => Len(mem.offset) = Len(mem.argv)
  /\ pc["tee"] \in {"open", "read"} => mem.j = 0
  /\ pc["tee"] = "write" => mem.j < Len(mem.argv)

\* Every file that is named holds the first n bytes, and its descriptor is there.
Holding(argv, apnd, content, n) ==
  \A d \in 1 .. Len(argv) : content[argv[d]] = AtFirst(apnd, argv[d]) \o Text(n)

\* The files before j have the m bytes behind the first n too.
HalfWritten(argv, apnd, content, offset, j, n, m) ==
  /\ \A d \in 1 .. Len(argv) :
       /\ (\E e \in 1 .. j : argv[e] = argv[d]) =>
            content[argv[d]] = AtFirst(apnd, argv[d]) \o Text(n + m)
       /\ (\A e \in 1 .. j : argv[e] # argv[d]) =>
            content[argv[d]] = AtFirst(apnd, argv[d]) \o Text(n)
  /\ ~apnd => \A d \in 1 .. Len(argv) : offset[d] = IF d <= j THEN n + m ELSE n

TeeInv ==
  /\ TeeTypeOK
  /\ \A name \in TeeFiles :
       (\A d \in 1 .. Len(mem.argv) : mem.argv[d] # name) => mem.content[name] = Old(name)
  /\ ~mem.apnd => \A d \in 1 .. Len(mem.offset) :
                    mem.offset[d] <= Len(mem.content[mem.argv[d]])
  /\ pc["tee"] = "open" =>
       /\ mem.apnd => \A name \in TeeFiles : mem.content[name] = Old(name)
       /\ \A d \in 1 .. Len(mem.offset) :
            mem.offset[d] = 0 /\ mem.content[mem.argv[d]] = AtFirst(mem.apnd, mem.argv[d])
  /\ pc["tee"] = "read" /\ ~mem.short =>
       /\ Holding(mem.argv, mem.apnd, mem.content, mem.numRead)
       /\ ~mem.apnd => \A d \in 1 .. Len(mem.argv) : mem.offset[d] = mem.numRead
  /\ pc["tee"] = "write" /\ ~mem.short =>
       LET m == Len(mem.buff)
           n == mem.numRead - m
       IN  /\ n \in Nat /\ mem.buff = Piece(n, m)
           /\ HalfWritten(mem.argv, mem.apnd, mem.content, mem.offset, mem.j, n, m)
  /\ pc["tee"] = "done" /\ ~mem.failed /\ ~mem.short =>
       Holding(mem.argv, mem.apnd, mem.content, mem.numRead)

\* mytee.c begins with no file open.
LEMMA TeeBegins == TeeInit => TeeInv
<1> SUFFICES ASSUME TeeInit PROVE TeeInv
  OBVIOUS
<1>1. PICK argv \in Arguments :
        Begin("mytee", [tee |-> "open"],
              [argv |-> argv, apnd |-> argv[1] = "-a", offset |-> <<>>, j |-> 0,
               numRead |-> 0, buff |-> <<>>, short |-> FALSE, failed |-> FALSE,
               content |-> [name \in TeeFiles |-> Old(name)]],
              <<>>)
  BY DEF TeeInit
<1> DEFINE content == [name \in TeeFiles |-> Old(name)]
           apnd == argv[1] = "-a"
<1>2. apnd \in BOOLEAN /\ (apnd => argv[1] = "-a")
  OBVIOUS
<1>3. content \in [TeeFiles -> Seq(Nat)] /\ \A name \in TeeFiles : content[name] = Old(name)
  <2>1. <<0>> \in Seq(Nat) /\ <<>> \in Seq(Nat)
    BY ONLY TRUE
  <2>2. \A name \in TeeFiles : Old(name) \in Seq(Nat)
    BY <2>1 DEF Old
  <2> QED
    BY <2>2
<1> HIDE DEF content, apnd
<1>4. /\ program = "mytee" /\ pc = [tee |-> "open"] /\ mem.argv = argv /\ mem.apnd = apnd
      /\ mem.offset = <<>> /\ mem.j = 0 /\ mem.numRead = 0 /\ mem.buff = <<>>
      /\ mem.short = FALSE /\ mem.failed = FALSE /\ mem.content = content
      /\ DOMAIN mem = {"argv", "apnd", "offset", "j", "numRead", "buff", "short", "failed",
                       "content"}
  BY <1>1 DEF Begin, content, apnd
<1>5. DOMAIN pc = {"tee"} /\ pc["tee"] = "open"
  <2>1. DOMAIN [tee |-> "open"] = {"tee"} /\ [tee |-> "open"]["tee"] = "open"
    OBVIOUS
  <2> QED
    BY <1>4, <2>1
<1>6. <<>> \in Seq(Nat) /\ Len(<<>>) = 0 /\ 0 \in Nat /\ \A d \in 1 .. 0 : FALSE
  BY ONLY TRUE
<1>7. Len(argv) > 0
  BY TeeArguments
<1>8. TeeTypeOK
  BY <1>2, <1>3, <1>4, <1>5, <1>6, <1>7 DEF TeeTypeOK
<1> QED
  BY <1>3, <1>4, <1>5, <1>6, <1>8 DEF TeeInv

\* What a call that fails leaves.
LEMMA TeeFails ==
  ASSUME TeeInv, program' = program, DOMAIN pc' = DOMAIN pc, pc'["tee"] = "done",
         mem' = [mem EXCEPT !.failed = TRUE]
  PROVE  TeeInv'
<1>1. TeeTypeOK
  BY DEF TeeInv
<1>2. /\ mem'.argv = mem.argv /\ mem'.apnd = mem.apnd /\ mem'.offset = mem.offset
      /\ mem'.j = mem.j /\ mem'.numRead = mem.numRead /\ mem'.buff = mem.buff
      /\ mem'.short = mem.short /\ mem'.failed = TRUE /\ mem'.content = mem.content
      /\ DOMAIN mem' = DOMAIN mem
  BY <1>1 DEF TeeTypeOK
<1>3. TeeTypeOK'
  BY <1>1, <1>2 DEF TeeTypeOK
<1> QED
  BY <1>2, <1>3 DEF TeeInv

\* A file that is opened holds what it held, or nothing.
LEMMA TeeOpens ==
  ASSUME TeeInv, OpenNext
  PROVE  TeeInv'
<1> USE DEF Step, Compute, Goto, Move, kernel
<1> DEFINE argv == mem.argv
           n == Len(mem.offset)
           d == n + 1
           name == argv[d]
           to == IF d = Len(argv) THEN "read" ELSE "open"
           content == [mem.content EXCEPT ![name] = IF mem.apnd THEN @ ELSE <<>>]
           offset == Append(mem.offset, 0)
<1>1. /\ TeeTypeOK /\ argv \in Seq(TeeFiles) /\ Len(argv) \in Nat /\ n \in Nat
      /\ mem.offset \in Seq(Nat)
      /\ mem.apnd => \A e, f \in 1 .. Len(argv) : argv[e] = argv[f] => e = f
  <2>1. TeeTypeOK
    BY DEF TeeInv
  <2>2. mem.argv \in Arguments /\ (mem.apnd => mem.argv[1] = "-a") /\ mem.offset \in Seq(Nat)
    BY ONLY <2>1 DEF TeeTypeOK
  <2>3. /\ mem.argv \in Seq(TeeFiles)
        /\ mem.apnd => \A e, f \in 1 .. Len(argv) : argv[e] = argv[f] => e = f
    BY ONLY <2>2, TeeArguments
  <2> QED
    BY ONLY <2>1, <2>2, <2>3
<1>2. CASE Compute("mytee", "tee", "open", "done", [mem EXCEPT !.failed = TRUE])
  <2>1. /\ program' = program /\ pc' = [pc EXCEPT !["tee"] = "done"]
        /\ mem' = [mem EXCEPT !.failed = TRUE]
    BY <1>2
  <2>2. DOMAIN pc' = DOMAIN pc /\ pc'["tee"] = "done"
    BY <1>1, <2>1 DEF TeeTypeOK
  <2> QED
    BY <2>1, <2>2, TeeFails
<1>3. CASE Compute("mytee", "tee", "open",
                   IF Len(mem.offset) + 1 = Len(mem.argv) THEN "read" ELSE "open",
                   [mem EXCEPT !.offset = Append(@, 0),
                               !.content[mem.argv[Len(mem.offset) + 1]]
                                 = IF mem.apnd THEN @ ELSE <<>>])
  <2>1. /\ program' = program /\ pc["tee"] = "open" /\ pc' = [pc EXCEPT !["tee"] = to]
        /\ mem' = [mem EXCEPT !.offset = offset, !.content = content]
    BY <1>1, <1>3 DEF TeeTypeOK
  <2>2. n < Len(argv) /\ mem.numRead = 0 /\ mem.j = 0
    BY <2>1 DEF TeeInv, TeeTypeOK
  <2>3. d \in 1 .. Len(argv) /\ name \in TeeFiles
    BY <1>1, <2>2
  <2>4. /\ offset \in Seq(Nat) /\ Len(offset) = d /\ offset[d] = 0
        /\ \A e \in 1 .. n : offset[e] = mem.offset[e]
    BY <1>1
  <2>5. /\ content \in [TeeFiles -> Seq(Nat)]
        /\ content[name] = AtFirst(mem.apnd, name)
        /\ \A f \in TeeFiles \ {name} : content[f] = mem.content[f]
        /\ mem.apnd => \A f \in TeeFiles : content[f] = Old(f)
    <3>1. mem.content \in [TeeFiles -> Seq(Nat)] /\ <<>> \in Seq(Nat)
      BY <1>1 DEF TeeTypeOK
    <3>2. mem.apnd => \A f \in TeeFiles : mem.content[f] = Old(f)
      BY <2>1 DEF TeeInv
    <3> HIDE DEF name
    <3> QED
      BY <2>3, <3>1, <3>2 DEF AtFirst
  <2>6. DOMAIN pc' = {"tee"} /\ pc'["tee"] = to /\ to \in {"open", "read"}
        /\ (to = "open" => d < Len(argv)) /\ (to = "read" => d = Len(argv))
    BY <1>1, <2>1, <2>3 DEF TeeTypeOK
  <2>7. \A e \in 1 .. d : offset[e] = 0 /\ content[argv[e]] = AtFirst(mem.apnd, argv[e])
    <3> SUFFICES ASSUME NEW e \in 1 .. d
                 PROVE  offset[e] = 0 /\ content[argv[e]] = AtFirst(mem.apnd, argv[e])
      OBVIOUS
    <3>1. CASE e = d
      BY <2>4, <2>5, <3>1
    <3>2. CASE e # d
      <4>1. e \in 1 .. n /\ argv[e] \in TeeFiles
        BY <1>1, <2>3, <3>2
      <4>2. mem.offset[e] = 0 /\ mem.content[argv[e]] = AtFirst(mem.apnd, argv[e])
        BY <2>1, <4>1 DEF TeeInv
      <4> HIDE DEF content, offset, n, name
      <4> QED
        BY <2>4, <2>5, <4>1, <4>2
    <3> QED
      BY <3>1, <3>2
  <2> HIDE DEF content, offset, to
  <2>8. /\ mem'.argv = argv /\ mem'.apnd = mem.apnd /\ mem'.offset = offset
        /\ mem'.j = mem.j /\ mem'.numRead = mem.numRead /\ mem'.buff = mem.buff
        /\ mem'.short = mem.short /\ mem'.failed = mem.failed /\ mem'.content = content
        /\ DOMAIN mem' = DOMAIN mem
    BY <1>1, <2>1 DEF TeeTypeOK
  <2>9. TeeTypeOK'
    BY <1>1, <2>1, <2>2, <2>4, <2>5, <2>6, <2>8 DEF TeeTypeOK
  <2>10. \A f \in TeeFiles : (\A e \in 1 .. Len(argv) : argv[e] # f) => content[f] = Old(f)
    <3>1. \A f \in TeeFiles : (\A e \in 1 .. Len(argv) : argv[e] # f) => mem.content[f] = Old(f)
      BY DEF TeeInv
    <3> HIDE DEF name
    <3>2. \A f \in TeeFiles : (\A e \in 1 .. Len(argv) : argv[e] # f) => f # name
      BY <2>3 DEF name
    <3> QED
      BY <2>5, <3>1, <3>2
  <2>11. \A e \in 1 .. d : offset[e] <= Len(content[argv[e]])
    <3> SUFFICES ASSUME NEW e \in 1 .. d PROVE offset[e] <= Len(content[argv[e]])
      OBVIOUS
    <3>1. argv[e] \in TeeFiles
      BY <1>1, <2>3
    <3>2. content[argv[e]] \in Seq(Nat)
      BY <2>5, <3>1
    <3>3. Len(content[argv[e]]) >= 0
      BY <3>2
    <3> QED
      BY <2>7, <3>3
  <2>12. to = "read" => Holding(argv, mem.apnd, content, 0)
    <3> SUFFICES ASSUME to = "read", NEW e \in 1 .. Len(argv)
                 PROVE  content[argv[e]] = AtFirst(mem.apnd, argv[e]) \o Text(0)
      BY DEF Holding
    <3>1. content[argv[e]] = AtFirst(mem.apnd, argv[e]) /\ argv[e] \in TeeFiles
      BY <1>1, <2>6, <2>7
    <3>2. content[argv[e]] \in Seq(Nat)
      BY <2>5, <3>1
    <3>3. Text(0) = <<>>
      BY TextSeqs
    <3>4. content[argv[e]] \o <<>> = content[argv[e]]
      BY <3>2, ConcatEmptySeq
    <3> QED
      BY <3>1, <3>3, <3>4
  <2>13. Len(offset) = d /\ (to = "read" => \A e \in 1 .. Len(argv) : offset[e] = mem.numRead)
    BY <2>2, <2>4, <2>6, <2>7
  <2> QED
    BY <2>2, <2>5, <2>6, <2>7, <2>8, <2>9, <2>10, <2>11, <2>12, <2>13 DEF TeeInv
<1> QED
  BY <1>2, <1>3 DEF OpenNext

\* The next piece is read when every file has the pieces before it.
LEMMA TeeReads ==
  ASSUME TeeInv, TeeRead
  PROVE  TeeInv'
<1> USE DEF Step, Compute, Goto, Move, kernel
<1>1. TeeTypeOK /\ TeeBuf \in Nat
  BY FileToolsAssumption DEF TeeInv
<1>2. PICK m \in 0 .. TeeBuf :
        Compute("mytee", "tee", "read", IF m = 0 THEN "done" ELSE "write",
                [mem EXCEPT !.buff = [k \in 1 .. m |-> mem.numRead + k], !.numRead = @ + m])
  BY DEF TeeRead
<1> DEFINE n == mem.numRead
           to == IF m = 0 THEN "done" ELSE "write"
           r == n + m
           b == Piece(n, m)
<1>3. /\ program' = program /\ pc["tee"] = "read" /\ pc' = [pc EXCEPT !["tee"] = to]
      /\ mem' = [mem EXCEPT !.buff = b, !.numRead = r]
  BY <1>1, <1>2 DEF Piece, TeeTypeOK
<1>4. n \in Nat /\ m \in Nat /\ r \in Nat /\ r - m = n /\ (m = 0 => r = n)
  BY <1>1 DEF TeeTypeOK
<1>5. b \in Seq(Nat) /\ Len(b) = m
  BY <1>4, TextSeqs
<1>6. DOMAIN pc' = {"tee"} /\ pc'["tee"] = to /\ to \in {"done", "write"}
      /\ (to = "done" => m = 0)
  BY <1>1, <1>3 DEF TeeTypeOK
<1>7. /\ mem.j = 0 /\ Len(mem.offset) = Len(mem.argv) /\ 0 < Len(mem.argv)
      /\ ~mem.short => /\ Holding(mem.argv, mem.apnd, mem.content, n)
                       /\ ~mem.apnd => \A d \in 1 .. Len(mem.argv) : mem.offset[d] = n
      /\ mem.argv \in Seq(TeeFiles)
  BY <1>1, <1>3, TeeArguments DEF TeeInv, TeeTypeOK
<1> HIDE DEF b, r, to
<1>8. /\ mem'.argv = mem.argv /\ mem'.apnd = mem.apnd /\ mem'.offset = mem.offset
      /\ mem'.j = mem.j /\ mem'.numRead = r /\ mem'.buff = b
      /\ mem'.short = mem.short /\ mem'.failed = mem.failed /\ mem'.content = mem.content
      /\ DOMAIN mem' = DOMAIN mem
  BY <1>1, <1>3 DEF TeeTypeOK
<1>9. TeeTypeOK'
  BY <1>1, <1>3, <1>4, <1>5, <1>6, <1>7, <1>8 DEF TeeTypeOK
<1>10. ~mem.short => HalfWritten(mem.argv, mem.apnd, mem.content, mem.offset, 0, n, m)
  <2>1. /\ \A e \in 1 .. 0 : FALSE
        /\ \A d \in 1 .. Len(mem.argv) : ~(d <= 0)
    OBVIOUS
  <2> QED
    BY <1>7, <2>1 DEF Holding, HalfWritten
<1> QED
  BY <1>4, <1>5, <1>6, <1>7, <1>8, <1>9, <1>10 DEF TeeInv, b

\* What a write of the next piece makes of a file that is appended to, and of one
\* that is not: the offset is the same whether the file is named once or twice.
LEMMA CopyAppended ==
  ASSUME NEW n \in Nat, NEW m \in Nat, NEW o \in Seq(Nat), NEW c, c = o \o Text(n)
  PROVE  Overwritten(c, Len(c), Piece(n, m)) = o \o Text(n + m)
<1> DEFINE a == Text(n)
           p == Piece(n, m)
           t == Text(n + m)
<1>1. a \in Seq(Nat) /\ p \in Seq(Nat) /\ a \o p = t
  BY TextSeqs, TextGrows
<1>2. c = o \o a
  OBVIOUS
<1> HIDE DEF a, p, t
<1>3. c \in Seq(Nat)
  BY ONLY <1>1, <1>2, o \in Seq(Nat), ConcatProperties
<1>4. Overwritten(c, Len(c), p) = c \o p
  BY ONLY <1>1, <1>3, WritesBehind
<1>5. (o \o a) \o p = o \o (a \o p)
  <2>1. \A x, y, z \in Seq(Nat) : (x \o y) \o z = x \o (y \o z)
    BY ONLY ConcatAssociative, SMTT(60)
  <2> QED
    BY ONLY <1>1, o \in Seq(Nat), <2>1
<1>6. Overwritten(c, Len(c), p) = o \o t
  BY ONLY <1>1, <1>2, <1>4, <1>5
<1> QED
  BY <1>6 DEF p, t

\* The same of a file that is not appended to.
LEMMA CopyOverwritten ==
  ASSUME NEW n \in Nat, NEW m \in Nat, NEW q \in {n, n + m}, NEW c, c = <<>> \o Text(q)
  PROVE  Overwritten(c, n, Piece(n, m)) = <<>> \o Text(n + m)
<1>1. n + m \in Nat /\ q \in Nat
  OBVIOUS
<1>2. Overwritten(Text(q), n, Piece(n, m)) = Text(n + m)
  BY WritesAgain
<1>3. Text(q) \in Seq(Nat) /\ Text(n + m) \in Seq(Nat)
  BY <1>1, TextSeqs
<1> DEFINE t == Text(q)
           u == Text(n + m)
<1> HIDE DEF t, u
<1>4. <<>> \o t = t /\ <<>> \o u = u
  <2>1. t \in Seq(Nat) /\ u \in Seq(Nat)
    BY <1>3 DEF t, u
  <2> QED
    BY ONLY <2>1, ConcatEmptySeq
<1> QED
  BY <1>2, <1>4 DEF t, u

\* The write of a whole piece to the next file: where, and what it makes of the files
\* and of the offsets.
WriteAt(argv, apnd, content, offset, j) ==
  IF apnd THEN Len(content[argv[j + 1]]) ELSE offset[j + 1]

FileWritten(argv, content, at, j, n, m) ==
  [content EXCEPT ![argv[j + 1]] = Overwritten(content[argv[j + 1]], at, Piece(n, m))]

\* One file more has the piece, under each of its names.
LEMMA PieceWritten ==
  ASSUME NEW argv \in Seq(TeeFiles), NEW apnd \in BOOLEAN,
         NEW content \in [TeeFiles -> Seq(Nat)], NEW offset \in Seq(Nat),
         Len(offset) = Len(argv), NEW j \in Nat, j < Len(argv),
         NEW n \in Nat, NEW m \in Nat,
         apnd => \A d, e \in 1 .. Len(argv) : argv[d] = argv[e] => d = e,
         HalfWritten(argv, apnd, content, offset, j, n, m)
  PROVE  LET at == WriteAt(argv, apnd, content, offset, j)
         IN  HalfWritten(argv, apnd, FileWritten(argv, content, at, j, n, m),
                         [offset EXCEPT ![j + 1] = at + m], j + 1, n, m)
<1> DEFINE d == j + 1
           name == argv[d]
           c == content[name]
           r == n + m
           at == WriteAt(argv, apnd, content, offset, j)
           x == Overwritten(c, at, Piece(n, m))
           content1 == FileWritten(argv, content, at, j, n, m)
           offset1 == [offset EXCEPT ![j + 1] = at + m]
<1>1. d \in 1 .. Len(argv) /\ name \in TeeFiles /\ d \in Nat
  OBVIOUS
<1>2. \A e \in 1 .. Len(argv) : e <= d <=> e <= j \/ e = d
  OBVIOUS
<1>3. x = AtFirst(apnd, name) \o Text(r)
  <2>1. CASE apnd
    <3>1. \A e \in 1 .. j : argv[e] # argv[d]
      BY <1>1, <2>1
    <3>2. c = Old(name) \o Text(n)
      BY <1>1, <2>1, <3>1 DEF HalfWritten, AtFirst
    <3>3. Old(name) \in Seq(Nat)
      <4>1. <<0>> \in Seq(Nat) /\ <<>> \in Seq(Nat)
        BY ONLY TRUE
      <4> QED
        BY <4>1 DEF Old
    <3>4. at = Len(c)
      BY <2>1 DEF WriteAt
    <3> HIDE DEF c, name
    <3>5. Overwritten(c, Len(c), Piece(n, m)) = Old(name) \o Text(n + m)
      BY <3>2, <3>3, CopyAppended
    <3> QED
      BY <2>1, <3>4, <3>5 DEF AtFirst
  <2>2. CASE ~apnd
    <3>1. c = <<>> \o Text(n + m) \/ c = <<>> \o Text(n)
      BY <1>1, <2>2 DEF HalfWritten, AtFirst
    <3>2. offset[d] = n
      <4>1. ~(d <= j)
        OBVIOUS
      <4> QED
        BY <1>1, <2>2, <4>1 DEF HalfWritten
    <3>3. at = n
      BY <2>2, <3>2 DEF WriteAt
    <3> HIDE DEF c, name
    <3>4. Overwritten(c, n, Piece(n, m)) = <<>> \o Text(n + m)
      BY <3>1, CopyOverwritten
    <3> QED
      BY <2>2, <3>3, <3>4 DEF AtFirst
  <2> QED
    BY <2>1, <2>2
<1>4. content1[name] = x /\ \A f \in TeeFiles \ {name} : content1[f] = content[f]
  BY <1>1 DEF FileWritten
<1>5. ~apnd => at = n
  <2>1. ~(d <= j)
    OBVIOUS
  <2> QED
    BY <1>1, <2>1 DEF HalfWritten, WriteAt
<1>6. ~apnd => \A e \in 1 .. Len(argv) : offset1[e] = IF e <= d THEN r ELSE n
  <2> SUFFICES ASSUME ~apnd, NEW e \in 1 .. Len(argv)
               PROVE  offset1[e] = IF e <= d THEN r ELSE n
    OBVIOUS
  <2>1. offset[e] = IF e <= j THEN r ELSE n
    BY DEF HalfWritten
  <2>2. offset1[e] = IF e = d THEN at + m ELSE offset[e]
    BY <1>1
  <2> QED
    BY <1>2, <1>5, <2>1, <2>2
<1> HIDE DEF x, c, name, at, content1, offset1
<1>7. ASSUME NEW e \in 1 .. Len(argv)
      PROVE  /\ (\E i \in 1 .. d : argv[i] = argv[e]) =>
                  content1[argv[e]] = AtFirst(apnd, argv[e]) \o Text(r)
             /\ (\A i \in 1 .. d : argv[i] # argv[e]) =>
                  content1[argv[e]] = AtFirst(apnd, argv[e]) \o Text(n)
  <2>1. /\ (\E i \in 1 .. j : argv[i] = argv[e]) =>
             content[argv[e]] = AtFirst(apnd, argv[e]) \o Text(r)
        /\ (\A i \in 1 .. j : argv[i] # argv[e]) =>
             content[argv[e]] = AtFirst(apnd, argv[e]) \o Text(n)
    BY DEF HalfWritten
  <2>2. /\ \A i \in 1 .. j : i \in 1 .. d
        /\ \A i \in 1 .. d : i \in 1 .. j \/ i = d
        /\ d \in 1 .. d /\ argv[e] \in TeeFiles
    OBVIOUS
  <2>3. CASE argv[e] = name
    <3>1. argv[d] = argv[e]
      BY <2>3 DEF name
    <3>2. content1[argv[e]] = AtFirst(apnd, argv[e]) \o Text(r)
      BY <1>3, <1>4, <2>3
    <3> HIDE DEF d, r
    <3> QED
      BY ONLY <2>2, <3>1, <3>2
  <2>4. CASE argv[e] # name
    <3>1. argv[d] # argv[e]
      BY <2>4 DEF name
    <3>2. content1[argv[e]] = content[argv[e]]
      BY <1>4, <2>2, <2>4
    <3> HIDE DEF d, r
    <3> QED
      BY ONLY <2>1, <2>2, <3>1, <3>2
  <2> QED
    BY <2>3, <2>4
<1> QED
  BY <1>6, <1>7 DEF HalfWritten, content1, offset1, at

\* A write, whole, short or failed, keeps the invariant.
LEMMA TeeWrites ==
  ASSUME TeeInv, WriteCopy
  PROVE  TeeInv'
<1> USE DEF Step, Compute, Goto, Move, kernel
<1> DEFINE argv == mem.argv
           d == mem.j + 1
           name == argv[d]
           c == mem.content[name]
           at == IF mem.apnd THEN Len(c) ELSE mem.offset[d]
           to == IF d = Len(argv) THEN "read" ELSE "write"
           j == IF d = Len(argv) THEN 0 ELSE d
           m == Len(mem.buff)
           n == mem.numRead - m
<1>1. /\ TeeTypeOK /\ argv \in Seq(TeeFiles) /\ Len(argv) \in Nat
      /\ mem.offset \in Seq(Nat) /\ mem.buff \in Seq(Nat) /\ m \in Nat
      /\ mem.content \in [TeeFiles -> Seq(Nat)]
      /\ mem.apnd => \A e, f \in 1 .. Len(argv) : argv[e] = argv[f] => e = f
  <2>1. TeeTypeOK
    BY DEF TeeInv
  <2>2. /\ mem.argv \in Arguments /\ (mem.apnd => mem.argv[1] = "-a")
        /\ mem.offset \in Seq(Nat) /\ mem.buff \in Seq(Nat)
        /\ mem.content \in [TeeFiles -> Seq(Nat)]
    BY ONLY <2>1 DEF TeeTypeOK
  <2>3. /\ mem.argv \in Seq(TeeFiles)
        /\ mem.apnd => \A e, f \in 1 .. Len(argv) : argv[e] = argv[f] => e = f
    BY ONLY <2>2, TeeArguments
  <2> QED
    BY ONLY <2>1, <2>2, <2>3
<1>2. CASE Compute("mytee", "tee", "write", "done", [mem EXCEPT !.failed = TRUE])
  <2>1. /\ program' = program /\ pc' = [pc EXCEPT !["tee"] = "done"]
        /\ mem' = [mem EXCEPT !.failed = TRUE]
    BY <1>2
  <2>2. DOMAIN pc' = DOMAIN pc /\ pc'["tee"] = "done"
    BY <1>1, <2>1 DEF TeeTypeOK
  <2> QED
    BY <2>1, <2>2, TeeFails
<1>3. CASE ~Compute("mytee", "tee", "write", "done", [mem EXCEPT !.failed = TRUE])
  <2>1. PICK k \in 0 .. Len(mem.buff) :
          Compute("mytee", "tee", "write",
                  IF mem.j + 1 = Len(mem.offset) THEN "read" ELSE "write",
                  [mem EXCEPT
                     !.content[name] = Overwritten(@, at, SubSeq(mem.buff, 1, k)),
                     !.offset[d] = at + k,
                     !.short = @ \/ k < Len(mem.buff),
                     !.j = IF mem.j + 1 = Len(mem.offset) THEN 0 ELSE d])
    BY <1>3, ZenonT(60) DEF WriteCopy
  <2>2. pc["tee"] = "write" /\ Len(mem.offset) = Len(argv) /\ mem.j < Len(argv)
        /\ mem.j \in Nat
    BY <1>1, <2>1 DEF TeeTypeOK
  <2> DEFINE b == SubSeq(mem.buff, 1, k)
             x == Overwritten(c, at, b)
             content == [mem.content EXCEPT ![name] = x]
             offset == [mem.offset EXCEPT ![d] = at + k]
             short == mem.short \/ k < m
  <2>3. /\ program' = program /\ pc' = [pc EXCEPT !["tee"] = to]
        /\ mem' = [mem EXCEPT !.content = content, !.offset = offset,
                              !.short = short, !.j = j]
    BY <1>1, <2>1, <2>2 DEF TeeTypeOK
  <2>4. d \in 1 .. Len(argv) /\ name \in TeeFiles /\ c \in Seq(Nat) /\ Len(c) \in Nat
    <3>1. d \in 1 .. Len(argv)
      <4> DEFINE p == Len(argv)
      <4>1. p \in Nat /\ mem.j < p /\ mem.j \in Nat
        BY <1>1, <2>2
      <4> HIDE DEF p
      <4> QED
        BY ONLY <4>1 DEF p
    <3>2. name \in TeeFiles
      BY ONLY <1>1, <3>1
    <3>3. c \in Seq(Nat)
      BY ONLY <1>1, <3>2
    <3> QED
      BY ONLY <3>1, <3>2, <3>3
  <2>5. at \in 0 .. Len(c)
    <3>1. CASE mem.apnd
      BY <2>4, <3>1
    <3>2. CASE ~mem.apnd
      <4>1. d \in 1 .. Len(mem.offset)
        BY ONLY <2>2, <2>4
      <4>2. mem.offset[d] \in Nat
        BY ONLY <1>1, <4>1
      <4>3. \A e \in 1 .. Len(mem.offset) : mem.offset[e] <= Len(mem.content[mem.argv[e]])
        BY ONLY TeeInv, <3>2 DEF TeeInv
      <4>4. mem.offset[d] <= Len(c)
        BY ONLY <4>1, <4>3
      <4> QED
        BY <2>4, <3>2, <4>2, <4>4
    <3> QED
      BY <3>1, <3>2
  <2>6. k \in Nat /\ k <= m /\ b \in Seq(Nat) /\ Len(b) = k /\ (k = m => b = mem.buff)
    <3> DEFINE s == mem.buff
    <3>1. k \in Nat /\ k <= m /\ s \in Seq(Nat) /\ m \in Nat /\ m = Len(s)
      BY <1>1
    <3>2. \A i \in 1 .. k : s[i] \in Nat
      BY <3>1
    <3> HIDE DEF s, m
    <3>3. SubSeq(s, 1, k) \in Seq(Nat)
          /\ Len(SubSeq(s, 1, k)) = IF 1 <= k THEN k - 1 + 1 ELSE 0
      BY ONLY <3>1, <3>2, SubSeqProperties
    <3>4. SubSeq(s, 1, Len(s)) = s
      BY ONLY <3>1, SubSeqFull
    <3> QED
      BY <3>1, <3>3, <3>4 DEF s
  <2>7. x \in Seq(Nat) /\ Len(x) >= Len(c) /\ Len(x) >= at + k
    <3> HIDE DEF b, c, at
    <3> QED
      BY <2>4, <2>5, <2>6, WritesType
  <2> HIDE DEF x
  <2>8. /\ content \in [TeeFiles -> Seq(Nat)] /\ content[name] = x
        /\ \A f \in TeeFiles \ {name} : content[f] = mem.content[f]
    BY <1>1, <2>4, <2>7
  <2>9. /\ offset \in Seq(Nat) /\ Len(offset) = Len(argv) /\ offset[d] = at + k
        /\ \A e \in 1 .. Len(argv) : e # d => offset[e] = mem.offset[e]
    <3>1. at + k \in Nat
      BY <2>5, <2>6
    <3> DEFINE s == mem.offset
               x0 == at + k
               len == Len(argv)
    <3>2. s \in Seq(Nat) /\ Len(s) = len /\ d \in 1 .. len /\ x0 \in Nat
      BY ONLY <1>1, <2>2, <2>4, <3>1
    <3> HIDE DEF s, x0, len, d
    <3>3. /\ [s EXCEPT ![d] = x0] \in Seq(Nat) /\ Len([s EXCEPT ![d] = x0]) = len
          /\ [s EXCEPT ![d] = x0][d] = x0
          /\ \A e \in 1 .. len : e # d => [s EXCEPT ![d] = x0][e] = s[e]
      BY ONLY <3>2
    <3> QED
      BY ONLY <3>3 DEF s, x0, len
  <2>10. DOMAIN pc' = {"tee"} /\ pc'["tee"] = to /\ to \in {"read", "write"}
         /\ (to = "read" => d = Len(argv) /\ j = 0)
         /\ (to = "write" => d < Len(argv) /\ j = d) /\ j \in Nat
    BY <1>1, <2>2, <2>3, <2>4 DEF TeeTypeOK
  <2>11. \A f \in TeeFiles : (\A e \in 1 .. Len(argv) : argv[e] # f) => content[f] = Old(f)
    <3>1. \A f \in TeeFiles : (\A e \in 1 .. Len(argv) : argv[e] # f) => mem.content[f] = Old(f)
      BY DEF TeeInv
    <3>2. \A f \in TeeFiles : (\A e \in 1 .. Len(argv) : argv[e] # f) => f # name
      BY <2>4
    <3> QED
      BY <2>8, <3>1, <3>2
  <2>12. ~mem.apnd => \A e \in 1 .. Len(argv) : offset[e] <= Len(content[argv[e]])
    <3> SUFFICES ASSUME ~mem.apnd, NEW e \in 1 .. Len(argv)
                 PROVE  offset[e] <= Len(content[argv[e]])
      OBVIOUS
    <3>1. argv[e] \in TeeFiles /\ mem.offset[e] <= Len(mem.content[argv[e]])
          /\ mem.offset[e] \in Nat
      BY <1>1, <2>2 DEF TeeInv
    <3> DEFINE p == Len(x)
               q == Len(c)
               u == at + k
    <3>2. p \in Nat /\ q \in Nat /\ u \in Nat /\ p >= q /\ p >= u
      BY <2>4, <2>5, <2>6, <2>7, SMTT(30)
    <3>3. argv[e] = name => Len(content[argv[e]]) = p /\ mem.offset[e] <= q
      BY <2>8, <3>1
    <3>4. argv[e] # name => content[argv[e]] = mem.content[argv[e]] /\ e # d
      BY <2>8, <3>1
    <3>5. offset[e] = IF e = d THEN u ELSE mem.offset[e]
      BY <2>9
    <3> HIDE DEF p, q, u, offset, content, name, argv, d
    <3>6. CASE argv[e] = name
      BY <3>1, <3>2, <3>3, <3>5, <3>6
    <3>7. CASE argv[e] # name
      BY <3>1, <3>4, <3>5, <3>7
    <3> QED
      BY <3>6, <3>7
  <2>13. ~short => /\ ~mem.short /\ n \in Nat /\ mem.buff = Piece(n, m)
                   /\ HalfWritten(argv, mem.apnd, content, offset, d, n, m)
    <3> SUFFICES ASSUME ~short
                 PROVE  /\ ~mem.short /\ n \in Nat /\ mem.buff = Piece(n, m)
                        /\ HalfWritten(argv, mem.apnd, content, offset, d, n, m)
      OBVIOUS
    <3>1. /\ ~mem.short /\ n \in Nat /\ mem.buff = Piece(n, m)
          /\ HalfWritten(argv, mem.apnd, mem.content, mem.offset, mem.j, n, m)
      BY <2>2 DEF TeeInv
    <3>2. k = m /\ b = Piece(n, m)
      BY <1>1, <2>6, <3>1
    <3>3. mem.apnd \in BOOLEAN
      BY <1>1 DEF TeeTypeOK
    <3>4. at = WriteAt(argv, mem.apnd, mem.content, mem.offset, mem.j)
      BY DEF WriteAt
    <3>5. /\ content = FileWritten(argv, mem.content, at, mem.j, n, m)
          /\ offset = [mem.offset EXCEPT ![mem.j + 1] = at + m]
          /\ m \in Nat
      BY <1>1, <3>2 DEF x, FileWritten
    <3> HIDE DEF content, offset, at, n, m, argv
    <3>6. HalfWritten(argv, mem.apnd, content, offset, mem.j + 1, n, m)
      BY ONLY <1>1, <2>2, <3>1, <3>3, <3>4, <3>5, PieceWritten
    <3> QED
      BY <3>1, <3>6
  <2> HIDE DEF content, offset, to, j, short
  <2>14. /\ mem'.argv = argv /\ mem'.apnd = mem.apnd /\ mem'.offset = offset
         /\ mem'.j = j /\ mem'.numRead = mem.numRead /\ mem'.buff = mem.buff
         /\ mem'.short = short /\ mem'.failed = mem.failed /\ mem'.content = content
         /\ DOMAIN mem' = DOMAIN mem
    BY <1>1, <2>3 DEF TeeTypeOK
  <2>15. short \in BOOLEAN
    BY DEF short
  <2>16. TeeTypeOK'
    BY <1>1, <2>3, <2>8, <2>9, <2>10, <2>14, <2>15 DEF TeeTypeOK
  <2>17. to = "read" /\ ~short =>
           /\ Holding(argv, mem.apnd, content, mem.numRead)
           /\ ~mem.apnd => \A e \in 1 .. Len(argv) : offset[e] = mem.numRead
    <3> SUFFICES ASSUME to = "read", ~short
                 PROVE  /\ Holding(argv, mem.apnd, content, mem.numRead)
                        /\ ~mem.apnd => \A e \in 1 .. Len(argv) : offset[e] = mem.numRead
      OBVIOUS
    <3>1. HalfWritten(argv, mem.apnd, content, offset, d, n, m) /\ d = Len(argv)
      BY <2>10, <2>13
    <3>2. n + m = mem.numRead
      BY <1>1 DEF TeeTypeOK
    <3> HIDE DEF n, m, d, argv
    <3> QED
      BY <1>1, <3>1, <3>2 DEF HalfWritten, Holding
  <2> HIDE DEF n, m, d, argv
  <2>18. Len(offset) = Len(argv)
    BY <2>9
  <2> QED
    BY <2>10, <2>11, <2>12, <2>13, <2>14, <2>16, <2>17, <2>18, SMTT(60)
       DEF TeeInv, n, m, argv
<1> QED
  BY <1>2, <1>3

\* Every step of mytee.c keeps the invariant.
LEMMA TeeStep ==
  ASSUME TeeInv, TeeSteps
  PROVE  TeeInv'
BY TeeOpens, TeeReads, TeeWrites DEF TeeSteps

\* What the invariant says between two pieces, and at the end.
LEMMA TeeCopies == TeeInv => TeeExact
<1> SUFFICES ASSUME TeeInv PROVE TeeExact
  OBVIOUS
<1>1. /\ mem.argv \in Seq(TeeFiles) /\ mem.apnd \in BOOLEAN
      /\ DOMAIN mem.argv = 1 .. Len(mem.argv)
  BY TeeArguments DEF TeeInv, TeeTypeOK
<1>2. pc["tee"] \in {"read", "done"} /\ ~mem.short /\ ~mem.failed =>
        Holding(mem.argv, mem.apnd, mem.content, mem.numRead)
  BY DEF TeeInv
<1>3. \A name \in TeeFiles :
        (\A d \in DOMAIN mem.argv : mem.argv[d] # name) => mem.content[name] = Old(name)
  BY <1>1 DEF TeeInv
<1>4. pc["tee"] \in {"read", "done"} /\ ~mem.short /\ ~mem.failed =>
        \A d \in DOMAIN mem.argv :
          mem.content[mem.argv[d]]
            = (IF mem.apnd THEN Old(mem.argv[d]) ELSE <<>>)
                \o [k \in 1 .. mem.numRead |-> k]
  BY <1>1, <1>2 DEF Holding, AtFirst, Text
<1> QED
  BY <1>3, <1>4 DEF TeeExact

-----------------------------------------------------------------------------
\* cp.c

CpTypeOK ==
  /\ program = "cp"
  /\ DOMAIN pc = {"cp"}
  /\ pc["cp"] \in {"fstat", "mmap", "ftruncate", "memcpy", "done", "failed", "killed"}
  /\ DOMAIN mem = {"content", "dest", "srcSiz", "copied", "changes", "versions", "shrunk"}
  /\ DOMAIN mem.content = {"f", "g"} /\ mem.dest \in {"f", "g"}
  /\ mem.content.f \in Seq(Int) /\ mem.content.g \in Seq(Int)
  /\ mem.srcSiz \in Nat /\ mem.copied \in Nat /\ mem.shrunk \in BOOLEAN

\* The source has siz pages, and each is one that it has had, unless it was made
\* shorter.
Source(f, versions, siz, shrunk) ==
  /\ DOMAIN versions = 1 .. siz /\ Len(f) <= siz
  /\ ~shrunk => Len(f) = siz /\ \A k \in 1 .. siz : f[k] \in versions[k]

\* The destination has siz pages, and each that was copied the source has had.
CopySoFar(copy, versions, siz, copied) ==
  Len(copy) = siz /\ \A k \in 1 .. copied : copy[k] \in versions[k]

CpInv ==
  /\ CpTypeOK
  /\ Source(mem.content.f, mem.versions,
            IF pc["cp"] = "fstat" THEN Len(mem.content.f) ELSE mem.srcSiz, mem.shrunk)
  /\ pc["cp"] \in {"fstat", "mmap", "failed"} =>
       \A k \in DOMAIN mem.content.g : mem.content.g[k] = -1
  /\ pc["cp"] \in {"fstat", "mmap", "ftruncate"} => mem.copied = 0
  /\ pc["cp"] = "fstat" => ~mem.shrunk
  /\ pc["cp"] = "failed" => mem.srcSiz = 0
  /\ pc["cp"] \in {"ftruncate", "memcpy"} => mem.copied < mem.srcSiz
  /\ pc["cp"] \in {"memcpy", "done"} /\ ~mem.shrunk =>
       CopySoFar(mem.content[mem.dest], mem.versions, mem.srcSiz, mem.copied)
  /\ pc["cp"] = "done" => mem.copied = mem.srcSiz
  /\ pc["cp"] = "killed" => mem.shrunk

\* cp.c begins with the source as it was.
LEMMA CpBegins == CpInit => CpInv
<1> SUFFICES ASSUME CpInit PROVE CpInv
  OBVIOUS
<1>1. PICK n \in 0 .. CpPages :
        \E m \in 0 .. CpPages, dest \in {"f", "g"} :
          Begin("cp", [cp |-> "fstat"],
                [content |-> [f |-> [k \in 1..n |-> k], g |-> [k \in 1..m |-> -1]],
                 dest |-> dest, srcSiz |-> 0, copied |-> 0, changes |-> 0,
                 versions |-> [k \in 1..n |-> {k}], shrunk |-> FALSE],
                <<>>)
  BY DEF CpInit
<1>2. PICK m \in 0 .. CpPages :
        \E dest \in {"f", "g"} :
          Begin("cp", [cp |-> "fstat"],
                [content |-> [f |-> [k \in 1..n |-> k], g |-> [k \in 1..m |-> -1]],
                 dest |-> dest, srcSiz |-> 0, copied |-> 0, changes |-> 0,
                 versions |-> [k \in 1..n |-> {k}], shrunk |-> FALSE],
                <<>>)
  BY <1>1
<1>3. PICK dest \in {"f", "g"} :
        Begin("cp", [cp |-> "fstat"],
              [content |-> [f |-> [k \in 1..n |-> k], g |-> [k \in 1..m |-> -1]],
               dest |-> dest, srcSiz |-> 0, copied |-> 0, changes |-> 0,
               versions |-> [k \in 1..n |-> {k}], shrunk |-> FALSE],
              <<>>)
  BY <1>2
<1> DEFINE f == [k \in 1..n |-> k]
           g == [k \in 1..m |-> -1]
           content == [f |-> f, g |-> g]
           versions == [k \in 1..n |-> {k}]
<1>4. n \in Nat /\ m \in Nat
  BY FileToolsAssumption
<1>5. /\ f \in Seq(Int) /\ Len(f) = n /\ g \in Seq(Int) /\ DOMAIN g = 1 .. m
      /\ \A k \in 1 .. m : g[k] = -1
      /\ DOMAIN versions = 1 .. n /\ \A k \in 1 .. n : f[k] \in versions[k]
  BY ONLY <1>4
<1> HIDE DEF f, g, versions
<1>6. DOMAIN content = {"f", "g"} /\ content.f = f /\ content.g = g
  OBVIOUS
<1> HIDE DEF content
<1>7. /\ program = "cp" /\ pc = [cp |-> "fstat"] /\ mem.content = content
      /\ mem.dest = dest /\ mem.srcSiz = 0 /\ mem.copied = 0 /\ mem.versions = versions
      /\ mem.shrunk = FALSE
      /\ DOMAIN mem = {"content", "dest", "srcSiz", "copied", "changes", "versions", "shrunk"}
  BY <1>3 DEF Begin, content, f, g, versions
<1>8. DOMAIN pc = {"cp"} /\ pc["cp"] = "fstat"
  <2>1. DOMAIN [cp |-> "fstat"] = {"cp"} /\ [cp |-> "fstat"]["cp"] = "fstat"
    OBVIOUS
  <2> QED
    BY <1>7, <2>1
<1>9. CpTypeOK
  <2>1. 0 \in Nat /\ FALSE \in BOOLEAN
    OBVIOUS
  <2>2. /\ mem.content.f \in Seq(Int) /\ mem.content.g \in Seq(Int)
        /\ DOMAIN mem.content = {"f", "g"}
    BY ONLY <1>5, <1>6, <1>7
  <2>3. /\ mem.srcSiz \in Nat /\ mem.copied \in Nat /\ mem.shrunk \in BOOLEAN
        /\ mem.dest \in {"f", "g"}
    BY ONLY <1>7, <2>1, dest \in {"f", "g"}
  <2>4. pc["cp"] \in {"fstat", "mmap", "ftruncate", "memcpy", "done", "failed", "killed"}
    BY ONLY <1>8
  <2> QED
    BY ONLY <1>7, <1>8, <2>2, <2>3, <2>4 DEF CpTypeOK
<1>10. Source(f, versions, n, FALSE)
  BY <1>4, <1>5 DEF Source
<1> QED
  BY <1>5, <1>6, <1>7, <1>8, <1>9, <1>10 DEF CpInv

\* A file has the size that ftruncate gives it, and the pages it had.
LEMMA SizedIs ==
  ASSUME NEW s \in Seq(Int), NEW n \in Nat
  PROVE  /\ Sized(s, n) \in Seq(Int) /\ Len(Sized(s, n)) = n
         /\ \A k \in 1 .. n : k <= Len(s) => Sized(s, n)[k] = s[k]
<1>1. \A k \in 1 .. n : k <= Len(s) => s[k] \in Int
  OBVIOUS
<1> QED
  BY <1>1 DEF Sized

\* The steps before memory is copied.
LEMMA CpPrepares ==
  ASSUME CpInv, StatSource \/ MapSource \/ SizeDest
  PROVE  CpInv'
<1> USE DEF Step, Compute, Goto, Move, kernel
<1> DEFINE f == mem.content.f
           g == mem.content.g
<1>1. /\ CpTypeOK /\ f \in Seq(Int) /\ g \in Seq(Int) /\ Len(f) \in Nat /\ Len(g) \in Nat
      /\ DOMAIN mem.content = {"f", "g"} /\ mem.dest \in {"f", "g"} /\ mem.srcSiz \in Nat
  BY DEF CpInv, CpTypeOK
<1>2. CASE StatSource
  <2> DEFINE n == Len(f)
  <2>1. /\ program' = program /\ pc["cp"] = "fstat" /\ pc' = [pc EXCEPT !["cp"] = "mmap"]
        /\ mem' = [mem EXCEPT !.srcSiz = n]
    BY <1>2 DEF StatSource
  <2>2. DOMAIN pc' = {"cp"} /\ pc'["cp"] = "mmap"
    BY <1>1, <2>1 DEF CpTypeOK
  <2> HIDE DEF n
  <2>3. /\ mem'.content = mem.content /\ mem'.dest = mem.dest /\ mem'.srcSiz = n
        /\ mem'.copied = mem.copied /\ mem'.versions = mem.versions
        /\ mem'.shrunk = mem.shrunk /\ DOMAIN mem' = DOMAIN mem
    BY <1>1, <2>1 DEF CpTypeOK
  <2>4. n \in Nat
    BY <1>1 DEF n
  <2>5. CpTypeOK'
    BY <1>1, <2>1, <2>2, <2>3, <2>4 DEF CpTypeOK
  <2>6. Source(f, mem.versions, n, mem.shrunk)
    BY <2>1 DEF CpInv, n
  <2> QED
    BY <2>1, <2>2, <2>3, <2>5, <2>6 DEF CpInv
<1>3. CASE MapSource
  <2> DEFINE to == IF mem.srcSiz = 0 THEN "failed" ELSE "ftruncate"
  <2>1. /\ program' = program /\ pc["cp"] = "mmap" /\ pc' = [pc EXCEPT !["cp"] = to]
        /\ mem' = mem
    BY <1>3 DEF MapSource
  <2>2. DOMAIN pc' = {"cp"} /\ pc'["cp"] = to
    BY <1>1, <2>1 DEF CpTypeOK
  <2>3. CpTypeOK'
    BY <1>1, <2>1, <2>2 DEF CpTypeOK
  <2>4. Source(f, mem.versions, mem.srcSiz, mem.shrunk) /\ mem.copied = 0
    BY <2>1 DEF CpInv
  <2>5. mem.srcSiz # 0 => 0 < mem.srcSiz
    BY <1>1
  <2> QED
    BY <2>1, <2>2, <2>3, <2>4, <2>5 DEF CpInv
<1>4. CASE SizeDest
  <2> DEFINE siz == mem.srcSiz
             dest == mem.dest
             old == mem.content[dest]
             new == Sized(old, siz)
             content == [mem.content EXCEPT ![dest] = new]
  <2>1. /\ program' = program /\ pc["cp"] = "ftruncate" /\ pc' = [pc EXCEPT !["cp"] = "memcpy"]
        /\ mem' = [mem EXCEPT !.content = content]
    BY <1>1, <1>4 DEF SizeDest, CpTypeOK
  <2>2. DOMAIN pc' = {"cp"} /\ pc'["cp"] = "memcpy"
    BY <1>1, <2>1 DEF CpTypeOK
  <2>3. /\ Source(f, mem.versions, siz, mem.shrunk) /\ mem.copied = 0 /\ mem.copied < siz
    BY <2>1 DEF CpInv
  <2>4. old \in Seq(Int) /\ (dest = "f" => old = f)
    BY <1>1
  <2>5. /\ new \in Seq(Int) /\ Len(new) = siz
        /\ \A k \in 1 .. siz : k <= Len(old) => new[k] = old[k]
    <3> HIDE DEF old, siz
    <3> QED
      BY <1>1, <2>4, SizedIs DEF siz
  <2> HIDE DEF new
  <2>6. /\ DOMAIN content = {"f", "g"} /\ content[dest] = new
        /\ content.f = (IF dest = "f" THEN new ELSE f)
        /\ content.g = (IF dest = "g" THEN new ELSE g)
    BY <1>1
  <2> HIDE DEF content
  <2>7. /\ mem'.content = content /\ mem'.dest = mem.dest /\ mem'.srcSiz = siz
        /\ mem'.copied = mem.copied /\ mem'.versions = mem.versions
        /\ mem'.shrunk = mem.shrunk /\ DOMAIN mem' = DOMAIN mem
    BY <1>1, <2>1 DEF CpTypeOK
  <2>8. CpTypeOK'
    BY <1>1, <2>1, <2>2, <2>5, <2>6, <2>7 DEF CpTypeOK
  <2>9. Source(content.f, mem.versions, siz, mem.shrunk)
    <3>1. CASE dest = "g"
      BY <2>3, <2>6, <3>1
    <3>2. CASE dest = "f"
      <4>1. content.f = new /\ old = f
        BY <2>4, <2>6, <3>2
      <4>2. siz <= siz
        BY <1>1
      <4> HIDE DEF siz, f
      <4>3. ~mem.shrunk => \A k \in 1 .. siz : new[k] = f[k]
        BY <2>3, <2>5, <4>1 DEF Source
      <4> QED
        BY <2>3, <2>5, <4>1, <4>2, <4>3 DEF Source
    <3> QED
      BY <1>1, <3>1, <3>2
  <2>10. CopySoFar(content[dest], mem.versions, siz, 0)
    <3>1. \A k \in 1 .. 0 : FALSE
      OBVIOUS
    <3> QED
      BY <2>5, <2>6, <3>1 DEF CopySoFar
  <2> QED
    BY <2>2, <2>3, <2>7, <2>8, <2>9, <2>10 DEF CpInv
<1> QED
  BY <1>2, <1>3, <1>4

\* A page that is copied is one the source has, and only a source that was made
\* shorter kills.
LEMMA CpCopies ==
  ASSUME CpInv, CopyPage
  PROVE  CpInv'
<1> USE DEF Step, Compute, Goto, Move, kernel
<1> DEFINE f == mem.content.f
           g == mem.content.g
           siz == mem.srcSiz
           dest == mem.dest
           old == mem.content[dest]
           k == mem.copied + 1
           there == k <= Len(f) /\ k <= Len(old)
<1>1. /\ CpTypeOK /\ f \in Seq(Int) /\ g \in Seq(Int) /\ old \in Seq(Int)
      /\ (dest = "f" => old = f)
      /\ Len(f) \in Nat /\ Len(old) \in Nat
      /\ DOMAIN mem.content = {"f", "g"} /\ dest \in {"f", "g"} /\ siz \in Nat
      /\ mem.copied \in Nat
  BY DEF CpInv, CpTypeOK
<1>2. pc["cp"] = "memcpy"
  BY DEF CopyPage
<1>3. /\ Source(f, mem.versions, siz, mem.shrunk) /\ mem.copied < siz
      /\ ~mem.shrunk => CopySoFar(old, mem.versions, siz, mem.copied)
  BY <1>2 DEF CpInv
<1>4. k \in 1 .. siz /\ k \in Nat
  BY <1>1, <1>3
<1>5. CASE there
  <2> DEFINE new == [old EXCEPT ![k] = f[k]]
             content == [mem.content EXCEPT ![dest] = new]
             to == IF k = siz THEN "done" ELSE "memcpy"
  <2>1. /\ program' = program /\ pc' = [pc EXCEPT !["cp"] = to]
        /\ mem' = [mem EXCEPT !.content = content, !.copied = k]
    <3>1. /\ program' = program /\ pc' = [pc EXCEPT !["cp"] = to]
          /\ mem' = [mem EXCEPT !.content[mem.dest][k] = f[k], !.copied = k]
      BY <1>2, <1>5 DEF CopyPage
    <3>2. [mem EXCEPT !.content[mem.dest][k] = f[k], !.copied = k]
            = [mem EXCEPT !.content = content, !.copied = k]
      BY <1>1 DEF CpTypeOK
    <3> QED
      BY <3>1, <3>2
  <2>2. DOMAIN pc' = {"cp"} /\ pc'["cp"] = to
    BY <1>1, <2>1 DEF CpTypeOK
  <2>3. /\ new \in Seq(Int) /\ Len(new) = Len(old) /\ new[k] = f[k]
        /\ \A i \in 1 .. Len(old) : i # k => new[i] = old[i]
    <3> DEFINE x == f[k]
               i == k
    <3>1. i \in 1 .. Len(old) /\ x \in Int
      <4>1. k \in 1 .. Len(old) /\ k \in 1 .. Len(f)
        BY <1>1, <1>4, <1>5
      <4> HIDE DEF k
      <4> QED
        BY <1>1, <4>1
    <3> HIDE DEF x, i, old
    <3>2. /\ [old EXCEPT ![i] = x] \in Seq(Int) /\ Len([old EXCEPT ![i] = x]) = Len(old)
          /\ [old EXCEPT ![i] = x][i] = x
          /\ \A e \in 1 .. Len(old) : e # i => [old EXCEPT ![i] = x][e] = old[e]
      BY ONLY <1>1, <3>1
    <3> QED
      BY <3>2 DEF x, i
  <2> HIDE DEF new
  <2>4. /\ DOMAIN content = {"f", "g"} /\ content[dest] = new
        /\ content.f = (IF dest = "f" THEN new ELSE f)
        /\ content.g = (IF dest = "g" THEN new ELSE g)
    BY <1>1
  <2> HIDE DEF content
  <2>5. /\ mem'.content = content /\ mem'.dest = mem.dest /\ mem'.srcSiz = siz
        /\ mem'.copied = k /\ mem'.versions = mem.versions
        /\ mem'.shrunk = mem.shrunk /\ DOMAIN mem' = DOMAIN mem
    BY <1>1, <2>1 DEF CpTypeOK
  <2>6. CpTypeOK'
    BY <1>1, <1>4, <2>1, <2>2, <2>3, <2>4, <2>5 DEF CpTypeOK
  <2>7. Source(content.f, mem.versions, siz, mem.shrunk)
    <3>1. CASE dest = "g"
      BY <1>3, <2>4, <3>1
    <3>2. CASE dest = "f"
      <4>1. content.f = new /\ old = f
        BY <1>1, <2>4, <3>2
      <4> HIDE DEF k, siz, f, old
      <4>2. Len(new) = Len(f) /\ \A i \in 1 .. Len(f) : new[i] = f[i]
        BY <2>3, <4>1
      <4> QED
        BY <1>3, <4>1, <4>2 DEF Source
    <3> QED
      BY <1>1, <3>1, <3>2
  <2>8. ~mem.shrunk => CopySoFar(new, mem.versions, siz, k)
    <3> SUFFICES ASSUME ~mem.shrunk PROVE CopySoFar(new, mem.versions, siz, k)
      OBVIOUS
    <3>1. /\ Len(old) = siz /\ \A i \in 1 .. mem.copied : old[i] \in mem.versions[i]
          /\ f[k] \in mem.versions[k]
      BY <1>3, <1>4 DEF CopySoFar, Source
    <3>2. \A i \in 1 .. k : i = k \/ (i \in 1 .. mem.copied /\ i \in 1 .. siz /\ i # k)
      <4> DEFINE c == mem.copied
                 z == siz
      <4>1. c \in Nat /\ z \in Nat /\ c + 1 <= z
        BY <1>1, <1>4
      <4> HIDE DEF c, z
      <4>2. \A i \in 1 .. c + 1 : i = c + 1 \/ (i \in 1 .. c /\ i \in 1 .. z /\ i # c + 1)
        BY ONLY <4>1
      <4> QED
        BY ONLY <4>2 DEF c, z
    <3> HIDE DEF k, siz, old
    <3> QED
      BY <2>3, <3>1, <3>2 DEF CopySoFar
  <2>9. k = siz \/ k < siz
    BY <1>1, <1>4
  <2> HIDE DEF k
  <2> QED
    BY <2>2, <2>4, <2>5, <2>6, <2>7, <2>8, <2>9 DEF CpInv
<1>6. CASE ~there
  <2>1. /\ program' = program /\ pc' = [pc EXCEPT !["cp"] = "killed"] /\ mem' = mem
    BY <1>6 DEF CopyPage
  <2>2. DOMAIN pc' = {"cp"} /\ pc'["cp"] = "killed"
    BY <1>1, <2>1 DEF CpTypeOK
  <2>3. CpTypeOK'
    BY <1>1, <2>1, <2>2 DEF CpTypeOK
  <2>4. mem.shrunk
    <3> SUFFICES ASSUME ~mem.shrunk PROVE FALSE
      OBVIOUS
    <3>1. Len(f) = siz /\ Len(old) = siz
      BY <1>3 DEF Source, CopySoFar
    <3> QED
      BY <1>1, <1>4, <1>6, <3>1
  <2> QED
    BY <1>3, <2>1, <2>2, <2>3, <2>4 DEF CpInv
<1> QED
  BY <1>5, <1>6

\* Somebody writes a page again, or makes the source shorter.
LEMMA SourceChanges ==
  ASSUME CpInv, ChangeSource
  PROVE  CpInv'
<1> DEFINE f == mem.content.f
           g == mem.content.g
           siz == mem.srcSiz
           dest == mem.dest
           v == mem.versions
<1>1. /\ CpTypeOK /\ f \in Seq(Int) /\ g \in Seq(Int) /\ Len(f) \in Nat
      /\ DOMAIN mem.content = {"f", "g"} /\ dest \in {"f", "g"} /\ siz \in Nat
      /\ mem.copied \in Nat /\ CpPages \in Nat
  BY FileToolsAssumption DEF CpInv, CpTypeOK
<1>2. program' = program /\ pc' = pc /\ pc["cp"] \in {"mmap", "ftruncate", "memcpy"}
  BY DEF ChangeSource
<1>3. /\ Source(f, v, siz, mem.shrunk)
      /\ pc["cp"] \in {"ftruncate", "memcpy"} => mem.copied < siz
      /\ pc["cp"] = "mmap" => \A i \in DOMAIN g : g[i] = -1
      /\ pc["cp"] \in {"mmap", "ftruncate"} => mem.copied = 0
      /\ pc["cp"] = "memcpy" /\ ~mem.shrunk =>
           CopySoFar(mem.content[dest], v, siz, mem.copied)
  BY <1>2 DEF CpInv
<1>4. ASSUME NEW k \in DOMAIN f,
             mem' = [mem EXCEPT !.content.f[k] = @ + CpPages, !.changes = @ + 1,
                                !.versions[k] = @ \cup {f[k] + CpPages}]
      PROVE  CpInv'
  <2> DEFINE x == f[k] + CpPages
             new == [f EXCEPT ![k] = x]
             content == [mem.content EXCEPT !.f = new]
             versions == [v EXCEPT ![k] = v[k] \cup {x}]
             changes == mem.changes + 1
  <2>1. mem' = [mem EXCEPT !.content = content, !.changes = changes, !.versions = versions]
    BY <1>1, <1>4 DEF CpTypeOK
  <2>2. k \in 1 .. Len(f) /\ f[k] \in Int /\ x \in Int /\ k \in 1 .. siz
    BY <1>1, <1>3 DEF Source
  <2> HIDE DEF x
  <2>3. /\ new \in Seq(Int) /\ Len(new) = Len(f) /\ new[k] = x
        /\ \A i \in 1 .. Len(f) : i # k => new[i] = f[i]
    <3> HIDE DEF f
    <3> QED
      BY ONLY <1>1, <2>2
  <2>4. DOMAIN versions = DOMAIN v /\ DOMAIN v = 1 .. siz /\ x \in versions[k]
        /\ \A i \in 1 .. siz : v[i] \subseteq versions[i]
    BY <1>3, <2>2 DEF Source
  <2> HIDE DEF new, versions, changes
  <2>5. /\ DOMAIN content = {"f", "g"} /\ content.f = new /\ content.g = g
        /\ (dest = "g" => content[dest] = mem.content[dest])
        /\ (dest = "f" => content[dest] = new)
    BY <1>1
  <2> HIDE DEF content
  <2>6. /\ mem'.content = content /\ mem'.dest = dest /\ mem'.srcSiz = siz
        /\ mem'.copied = mem.copied /\ mem'.versions = versions
        /\ mem'.shrunk = mem.shrunk /\ DOMAIN mem' = DOMAIN mem
    BY <1>1, <2>1 DEF CpTypeOK
  <2>7. CpTypeOK'
    BY <1>1, <1>2, <2>3, <2>5, <2>6 DEF CpTypeOK
  <2> HIDE DEF siz, f
  <2>8. Source(new, versions, siz, mem.shrunk)
    <3>1. Len(new) <= siz /\ DOMAIN versions = 1 .. siz
      BY <1>3, <2>3, <2>4 DEF Source
    <3>2. ~mem.shrunk => Len(new) = siz /\ \A i \in 1 .. siz : new[i] \in versions[i]
      <4> SUFFICES ASSUME ~mem.shrunk
                   PROVE  Len(new) = siz /\ \A i \in 1 .. siz : new[i] \in versions[i]
        OBVIOUS
      <4>1. Len(f) = siz /\ \A i \in 1 .. siz : f[i] \in v[i]
        BY <1>3 DEF Source
      <4> QED
        BY <2>2, <2>3, <2>4, <4>1
    <3> QED
      BY <3>1, <3>2 DEF Source
  <2>9. pc["cp"] = "memcpy" /\ ~mem.shrunk =>
          CopySoFar(content[dest], versions, siz, mem.copied)
    <3> SUFFICES ASSUME pc["cp"] = "memcpy", ~mem.shrunk
                 PROVE  CopySoFar(content[dest], versions, siz, mem.copied)
      OBVIOUS
    <3>1. \A i \in 1 .. mem.copied : i \in 1 .. siz
      BY <1>1, <1>3 DEF siz
    <3>2. CASE dest = "f"
      <4>1. content[dest] = new /\ Len(new) = siz /\ \A i \in 1 .. siz : new[i] \in versions[i]
        BY <2>5, <2>8, <3>2 DEF Source
      <4> QED
        BY <3>1, <4>1 DEF CopySoFar
    <3>3. CASE dest = "g"
      <4>1. /\ content[dest] = mem.content[dest]
            /\ CopySoFar(mem.content[dest], v, siz, mem.copied)
        BY <1>3, <2>5, <3>3
      <4> QED
        BY <2>4, <3>1, <4>1 DEF CopySoFar
    <3> QED
      BY <1>1, <3>2, <3>3
  <2> QED
    BY <1>2, <1>3, <2>5, <2>6, <2>7, <2>8, <2>9 DEF CpInv, siz
<1>5. ASSUME NEW n \in 0 .. Len(f) - 1,
             mem' = [mem EXCEPT !.content.f = SubSeq(@, 1, n), !.changes = @ + 1,
                                !.shrunk = TRUE]
      PROVE  CpInv'
  <2> DEFINE new == SubSeq(f, 1, n)
             content == [mem.content EXCEPT !.f = new]
             changes == mem.changes + 1
  <2>1. mem' = [mem EXCEPT !.content = content, !.changes = changes, !.shrunk = TRUE]
    BY <1>1, <1>5 DEF CpTypeOK
  <2>2. n \in Nat /\ n <= Len(f)
    BY <1>1
  <2>3. new \in Seq(Int) /\ Len(new) = n
    <3>1. \A i \in 1 .. n : f[i] \in Int
      BY <1>1, <2>2
    <3> HIDE DEF f
    <3>2. new \in Seq(Int) /\ Len(new) = IF 1 <= n THEN n - 1 + 1 ELSE 0
      BY ONLY <2>2, <3>1, SubSeqProperties
    <3> QED
      BY ONLY <2>2, <3>2
  <2> HIDE DEF new, changes
  <2>4. DOMAIN content = {"f", "g"} /\ content.f = new /\ content.g = g
    BY <1>1
  <2> HIDE DEF content
  <2>5. /\ mem'.content = content /\ mem'.dest = dest /\ mem'.srcSiz = siz
        /\ mem'.copied = mem.copied /\ mem'.versions = v
        /\ mem'.shrunk = TRUE /\ DOMAIN mem' = DOMAIN mem
    BY <1>1, <2>1 DEF CpTypeOK
  <2>6. CpTypeOK'
    BY <1>1, <1>2, <2>3, <2>4, <2>5 DEF CpTypeOK
  <2>7. Source(new, v, siz, TRUE)
    <3>1. Len(f) <= siz /\ DOMAIN v = 1 .. siz
      BY <1>3 DEF Source
    <3>2. Len(new) <= siz
      BY <1>1, <2>2, <2>3, <3>1
    <3> QED
      BY <3>1, <3>2 DEF Source
  <2> QED
    BY <1>2, <1>3, <2>4, <2>5, <2>6, <2>7 DEF CpInv
<1> QED
  BY <1>4, <1>5 DEF ChangeSource

\* What the invariant says when cp.c has ended.
LEMMA CpExact == CpInv => CopyExact
<1> SUFFICES ASSUME CpInv PROVE CopyExact
  OBVIOUS
<1> DEFINE copy == mem.content[mem.dest]
<1>1. pc["cp"] = "killed" => mem.shrunk
  BY DEF CpInv
<1>2. pc["cp"] = "failed" => mem.srcSiz = 0 /\ \A k \in DOMAIN copy : copy[k] = -1
  <2> SUFFICES ASSUME pc["cp"] = "failed"
               PROVE  mem.srcSiz = 0 /\ \A k \in DOMAIN copy : copy[k] = -1
    OBVIOUS
  <2>1. /\ mem.srcSiz = 0 /\ mem.content.f \in Seq(Int) /\ Len(mem.content.f) <= mem.srcSiz
        /\ \A k \in DOMAIN mem.content.g : mem.content.g[k] = -1
        /\ mem.dest \in {"f", "g"}
    BY DEF CpInv, CpTypeOK, Source
  <2>2. \A k \in DOMAIN mem.content.f : FALSE
    BY <2>1
  <2> QED
    BY <2>1, <2>2
<1>3. pc["cp"] = "done" /\ ~mem.shrunk =>
        Len(copy) = mem.srcSiz /\ \A k \in 1 .. mem.srcSiz : copy[k] \in mem.versions[k]
  BY DEF CpInv, CopySoFar
<1> QED
  BY <1>1, <1>2, <1>3 DEF CopyExact

\* A step on files is one of the program that runs.
LEMMA FileStep ==
  ASSUME FileToolsNext
  PROVE  \/ program = "tail" /\ (TailSteps \/ AppendToFile)
         \/ program = "mytee" /\ TeeSteps
         \/ program = "cp" /\ (CpSteps \/ ChangeSource)
<1>1. TailSteps \/ AppendToFile => program = "tail"
  BY ZenonT(60)
     DEF TailSteps, SeekFileEnd, ScanPiece, StopScan, CopyPiece, AppendToFile, Step,
         Compute, Goto
<1>2. TeeSteps => program = "mytee"
  BY ZenonT(60) DEF TeeSteps, OpenNext, TeeRead, WriteCopy, Step, Compute, Goto
<1>3. CpSteps \/ ChangeSource => program = "cp"
  BY DEF CpSteps, StatSource, MapSource, SizeDest, CopyPage, ChangeSource, Step, Compute,
         Goto
<1> QED
  BY <1>1, <1>2, <1>3 DEF FileToolsNext

(***************************************************************************)
(* Copies of files: what tail.c prints is the end of the file, from where  *)
(* the lines asked for begin, though the file grows meanwhile; mytee.c     *)
(* copies its input to every file that it is given, if no write is short;  *)
(* cp.c copies pages that the source had, all of them unless the source    *)
(* was made shorter.                                                       *)
(***************************************************************************)
THEOREM FilesExact == Spec => []FilesCopied
<1> DEFINE IInv == /\ program = "tail" => TailInv
                   /\ program = "mytee" => TeeInv
                   /\ program = "cp" => CpInv
<1>1. Init => IInv
  BY OneBegins, TailBegins, TeeBegins, CpBegins
<1>2. IInv /\ [Next]_vars => IInv'
  <2> SUFFICES ASSUME IInv, [Next]_vars PROVE IInv'
    OBVIOUS
  <2>1. CASE UNCHANGED vars
    <3> USE DEF vars
    <3>1. TailTypeOK => TailTypeOK'
      BY <2>1 DEF TailTypeOK
    <3>2. TailInv => TailInv'
      BY <2>1, <3>1 DEF TailInv
    <3>3. TeeTypeOK => TeeTypeOK'
      BY <2>1 DEF TeeTypeOK
    <3>4. TeeInv => TeeInv'
      BY <2>1, <3>3 DEF TeeInv
    <3>5. CpTypeOK => CpTypeOK'
      BY <2>1 DEF CpTypeOK
    <3>6. CpInv => CpInv'
      BY <2>1, <3>5 DEF CpInv
    <3> QED
      BY <2>1, <3>2, <3>4, <3>6
  <2>2. CASE ~UNCHANGED vars
    <3>1. program' = program
      BY OneProgram
    <3>2. program \in {"tail", "mytee", "cp"} => FileToolsNext
      BY <2>2, OneProgram
    <3>3. CASE program = "tail"
      BY <3>1, <3>2, <3>3, FileStep, TailStep
    <3>4. CASE program = "mytee"
      BY <3>1, <3>2, <3>4, FileStep, TeeStep
    <3>5. CASE program = "cp"
      <4>1. CpSteps \/ ChangeSource
        BY <3>2, <3>5, FileStep
      <4>2. CpInv'
        BY <3>5, <4>1, CpPrepares, CpCopies, SourceChanges DEF CpSteps
      <4> QED
        BY <3>1, <3>5, <4>2
    <3> QED
      BY <3>1, <3>3, <3>4, <3>5
  <2> QED
    BY <2>1, <2>2
<1>3. IInv => FilesCopied
  <2>1. program # "tail" => TailExact
    BY DEF TailExact
  <2>2. program # "mytee" => TeeExact
    BY DEF TeeExact
  <2>3. program # "cp" => CopyExact
    BY DEF CopyExact
  <2> QED
    BY <2>1, <2>2, <2>3, TailPrints, TeeCopies, CpExact DEF FilesCopied
<1> QED
  BY <1>1, <1>2, <1>3, PTL DEF Spec

=============================================================================
