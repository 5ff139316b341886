----------------------------- MODULE MCPrograms -----------------------------
(***************************************************************************)
(* One run for the small programs over Unix.  A behaviour is a behaviour   *)
(* of one of them, which Init chooses; what the run checks of a program is *)
(* stated in the program's module, and gathered here by subject.           *)
(***************************************************************************)
EXTENDS ThreadIncr, AtomicAppend, OneTimeInit, SemOrder, Sigmask, PathManip,
        ChgPgid, ChildWait, Orphans, SigReceiver,
        ToUppercase, UsXfr, SlowReader, MsgExchange, MqNotify,
        FileTools, DirTools, ProcScan, Vector

Init ==
  \/ ThreadIncrInit \/ AtomicAppendInit \/ OneTimeInitInit
  \/ ForkJoinInit \/ RandezvousInit \/ SigmaskInit \/ PathManipInit
  \/ ChgPgidInit \/ ChildWaitInit \/ OrphansInit
  \/ SigReceiverInit \/ SiginterruptInit \/ SigContInit
  \/ ToUppercaseInit \/ UsXfrInit \/ SlowReaderInit
  \/ MsgExchangeInit \/ MqNotifyInit
  \/ TailInit \/ TeeInit \/ CpInit \/ DirToolsInit \/ ScanInit \/ VectorInit

Ends ==
  \/ ThreadIncrEnds \/ AtomicAppendEnds \/ OneTimeInitEnds
  \/ SemOrderEnds \/ SigmaskEnds \/ PathManipEnds
  \/ ChgPgidEnds \/ ChildWaitEnds \/ OrphansEnds
  \/ SigReceiverEnds \/ SiginterruptEnds \/ SigContEnds
  \/ ToUppercaseEnds \/ UsXfrEnds \/ SlowReaderEnds
  \/ MsgExchangeEnds \/ MqNotifyEnds
  \/ FileToolsEnds \/ DirToolsEnds \/ ProcScanEnds \/ VectorEnds

Terminating == Ends /\ UNCHANGED vars

Next ==
  \/ ThreadIncrNext \/ AtomicAppendNext \/ OneTimeInitNext
  \/ SemOrderNext \/ SigmaskNext \/ PathManipNext
  \/ ChgPgidNext \/ ChildWaitNext \/ OrphansNext
  \/ SigReceiverNext \/ SiginterruptNext \/ SigContNext
  \/ ToUppercaseNext \/ UsXfrNext \/ SlowReaderNext
  \/ MsgExchangeNext \/ MqNotifyNext
  \/ FileToolsNext \/ DirToolsNext \/ ProcScanNext \/ VectorNext
  \/ Terminating

Fairness ==
  /\ ThreadIncrFairness /\ AtomicAppendFairness /\ OneTimeInitFairness
  /\ SemOrderFairness /\ SigmaskFairness /\ PathManipFairness
  /\ ChgPgidFairness /\ ChildWaitFairness /\ OrphansFairness
  /\ SigReceiverFairness /\ SiginterruptFairness /\ SigContFairness
  /\ ToUppercaseFairness /\ UsXfrFairness /\ SlowReaderFairness
  /\ MsgExchangeFairness /\ MqNotifyFairness
  /\ FileToolsFairness /\ DirToolsFairness /\ ProcScanFairness /\ VectorFairness

Spec == Init /\ [][Next]_vars

FairSpec == Spec /\ Fairness

-----------------------------------------------------------------------------

(***************************************************************************)
(* Two threads, or two processes, that change one thing: the counter of    *)
(* thread_incr.c loses no more than its lack of a lock explains, and       *)
(* atomic_append.c loses bytes only where O_APPEND was left out.           *)
(***************************************************************************)
SharedDataKept == GlobWithinBounds /\ AppendsKept

(***************************************************************************)
(* Threads that wait for each other, by semaphores or by condition         *)
(* variables, print and signal in the order the program means              *)
(* (fork-join.c, randezvous.c, independant_thrd_sigmask.c).                *)
(***************************************************************************)
ThreadsInOrder == LinesInOrder /\ OwnSignalPending

(***************************************************************************)
(* dirname and basename of pathmanip_threadsafe.c: no thread touches       *)
(* another's buffer, and what main prints is freed by then.                *)
(***************************************************************************)
BuffersSound == BuffersPrivate /\ ResultsFreed

(***************************************************************************)
(* Processes that tell each other by signals how far they are: nothing is  *)
(* done before the other process is ready for it                           *)
(* (chg_pgid_for_diff_descendants.c, make_zombie_sync.c,                   *)
(* rusage_child_wait.c, 27_6.c, orphan_read.c, orphans_sig_trickies.c,     *)
(* new_parent_init.c).                                                     *)
(***************************************************************************)
SignalsAwaited == GroupsChangedInTime /\ ChildSignalKept /\ OrphansUnstopped

(***************************************************************************)
(* One process and signals at any time: those that are blocked wait, those *)
(* that meet are merged, and a read goes on (sig_receiver.c,               *)
(* SIGCONT_is_weird.c, siginterrupt.c).                                    *)
(***************************************************************************)
SignalsHandled == SignalsCounted /\ ContPendingUntilUnblocked /\ ReadRestarts

(***************************************************************************)
(* Bytes and datagrams arrive once each, in order, and from whom they      *)
(* should (to_uppercase.c, us-xfr, slow-reader-fast-sender).               *)
(***************************************************************************)
StreamsIntact ==
  AnswersInStep /\ OutputInAcceptOrder /\ DatagramsInOrder /\ BoundOnce

(***************************************************************************)
(* Message queues: two users are connected to each other and leave no name *)
(* behind (msg_exchange.c), and no notification or message is lost         *)
(* (mq_notify_sig.c, pmsg_send.c, pmsg_receive.c).                         *)
(***************************************************************************)
QueuesSound == NoQueueLeft /\ SameQueues /\ NotifiedOnArrival

(***************************************************************************)
(* tail.c, mytee.c and cp.c copy what they should, whatever happens to the *)
(* file meanwhile.                                                         *)
(***************************************************************************)
FilesCopied == TailExact /\ TeeExact /\ CopyExact

(***************************************************************************)
(* Walks over what others change meanwhile (getcwd.c, dirwatch.c,          *)
(* execlp.c, userfsact.c, useract.c): what stayed is found, and what is    *)
(* found was there.                                                        *)
(***************************************************************************)
WalksSound == PathExact /\ WatchesComplete /\ FirstInPath /\ ScanComplete

(***************************************************************************)
(* Every program comes to its end, or to a wait that its module names.     *)
(***************************************************************************)
Terminates == <>[]Ends

=============================================================================
