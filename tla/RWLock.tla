------------------------------- MODULE RWLock -------------------------------
(***************************************************************************)
(* src/os-three-easy-pieces/concurrency/sema/reader-writer.c and           *)
(* reader-writer-nostarve.c: a reader-writer lock from semaphores.  lock   *)
(* guards the count of readers; writelock is held by a writer, or by the   *)
(* readers as a group: the first one in takes it (while it holds lock, so  *)
(* later readers queue behind it) and the last one out gives it back.      *)
(*                                                                         *)
(* In reader-writer-nostarve.c (fair) this is behind one more semaphore.   *)
(* A reader holds fair_lock while it enters, a writer from before it waits *)
(* for writelock until after it has written: readers that arrive behind a  *)
(* waiting writer queue at fair_lock and cannot keep the writer out.       *)
(*                                                                         *)
(* The driver's threads read or write a shared int; value++ is a load and  *)
(* a store.  If endless, the readers iterate for ever, which stands for a  *)
(* loops larger than any run: what then happens to a writer depends on the *)
(* lock and not on the readers running out.                                *)
(***************************************************************************)
EXTENDS Sync, FiniteSets, FiniteSetsExt

CONSTANTS
  Readers,   \* the num_readers threads that run reader
  Writers,   \* the num_writers threads that run writer
  loops      \* iterations of each thread

ASSUME RWAssumption ==
  /\ IsFiniteSet(Readers)
  /\ IsFiniteSet(Writers)
  /\ Readers \cap Writers = {}
  /\ loops \in Nat

Threads == Readers \cup Writers

VARIABLES
  fair,        \* the program is reader-writer-nostarve.c
  fair_lock,   \* rw->fair_lock
  writelock,   \* rw->writelock
  lock,        \* rw->lock, rw->readlock if fair
  readers,     \* rw->readers
  value,       \* the shared int value
  pc,          \* where each thread is
  i,           \* the loop counter of each thread
  reg,         \* the register of a writer's value++
  endless      \* the readers never stop

vars == <<fair, fair_lock, writelock, lock, readers, value, pc, i, reg, endless>>

kind == <<fair, endless>>

sems == <<fair_lock, writelock, lock>>

\* Where a thread begins an iteration.
Enter(t) == IF t \in Readers THEN "wait_in" ELSE "wait_write"
Start(t) == IF fair THEN "wait_fair" ELSE Enter(t)

\* rwlock_init, and the threads main creates.
Init ==
  /\ fair \in BOOLEAN
  /\ fair_lock = 1
  /\ writelock = 1
  /\ lock = 1
  /\ readers = 0
  /\ value = 0
  /\ pc = [t \in Threads |-> IF loops = 0 THEN "done" ELSE Start(t)]
  /\ i = [t \in Threads |-> 0]
  /\ reg = [w \in Writers |-> 0]
  /\ endless \in BOOLEAN

Iterate(t, from) ==
  LET forever == endless /\ t \in Readers
  IN  /\ Move(pc, t, from,
              IF forever \/ i[t] + 1 < loops THEN Start(t) ELSE "done")
      /\ i' = IF forever THEN i ELSE [i EXCEPT ![t] = @ + 1]

-----------------------------------------------------------------------------
\* rwlock_acquire_readlock

\* Mutant of WaitFair: a reader enters past the writer that holds fair_lock.
WaitUnfair(t) ==
  /\ IF t \in Readers
     THEN Move(pc, t, "wait_fair", "wait_in") /\ fair_lock' = 0
     ELSE Move(pc, t, "wait_fair", "wait_write") /\ SemWait(fair_lock)
  /\ UNCHANGED <<writelock, lock, readers, value, i, reg, kind>>

\* The first sem_wait of rwlock_acquire_readlock and rwlock_acquire_writelock.
WaitFair(t) ==
  /\ Move(pc, t, "wait_fair", Enter(t))
  /\ SemWait(fair_lock)
  /\ UNCHANGED <<writelock, lock, readers, value, i, reg, kind>>

WaitIn(r) ==
  /\ Move(pc, r, "wait_in", "incr")
  /\ SemWait(lock)
  /\ UNCHANGED <<fair_lock, writelock, readers, value, i, reg, kind>>

Incr(r) ==
  /\ Move(pc, r, "incr", "test_in")
  /\ readers' = readers + 1
  /\ UNCHANGED <<sems, value, i, reg, kind>>

\* Mutant of TestIn: no reader takes writelock.
TestNone(r) ==
  /\ Move(pc, r, "test_in", "post_in")
  /\ UNCHANGED <<sems, readers, value, i, reg, kind>>

\* if (rw->readers == 1)
TestIn(r) ==
  /\ Move(pc, r, "test_in", IF readers = 1 THEN "first_wait" ELSE "post_in")
  /\ UNCHANGED <<sems, readers, value, i, reg, kind>>

FirstWait(r) ==
  /\ Move(pc, r, "first_wait", "post_in")
  /\ SemWait(writelock)
  /\ UNCHANGED <<fair_lock, lock, readers, value, i, reg, kind>>

PostIn(r) ==
  /\ Move(pc, r, "post_in", IF fair THEN "post_fair" ELSE "read")
  /\ SemPost(lock)
  /\ UNCHANGED <<fair_lock, writelock, readers, value, i, reg, kind>>

PostFair(r) ==
  /\ Move(pc, r, "post_fair", "read")
  /\ SemPost(fair_lock)
  /\ UNCHANGED <<writelock, lock, readers, value, i, reg, kind>>

\* printf("read %d\n", value)
Read(r) ==
  /\ Move(pc, r, "read", "wait_out")
  /\ UNCHANGED <<sems, readers, value, i, reg, kind>>

\* rwlock_release_readlock

\* Mutant of WaitOut: the count is changed without lock.
EnterOut(r) ==
  /\ Move(pc, r, "wait_out", "decr")
  /\ lock' = 0
  /\ UNCHANGED <<fair_lock, writelock, readers, value, i, reg, kind>>

WaitOut(r) ==
  /\ Move(pc, r, "wait_out", "decr")
  /\ SemWait(lock)
  /\ UNCHANGED <<fair_lock, writelock, readers, value, i, reg, kind>>

Decr(r) ==
  /\ Move(pc, r, "decr", "test_out")
  /\ readers' = readers - 1
  /\ UNCHANGED <<sems, value, i, reg, kind>>

TestOut(r) ==
  /\ Move(pc, r, "test_out", IF readers = 0 THEN "last_post" ELSE "post_out")
  /\ UNCHANGED <<sems, readers, value, i, reg, kind>>

LastPost(r) ==
  /\ Move(pc, r, "last_post", "post_out")
  /\ SemPost(writelock)
  /\ UNCHANGED <<fair_lock, lock, readers, value, i, reg, kind>>

PostOut(r) ==
  /\ Iterate(r, "post_out")
  /\ SemPost(lock)
  /\ UNCHANGED <<fair_lock, writelock, readers, value, reg, kind>>

-----------------------------------------------------------------------------
\* rwlock_acquire_writelock, value++, rwlock_release_writelock

WaitWrite(w) ==
  /\ Move(pc, w, "wait_write", "load")
  /\ SemWait(writelock)
  /\ UNCHANGED <<fair_lock, lock, readers, value, i, reg, kind>>

Load(w) ==
  /\ Move(pc, w, "load", "store")
  /\ reg' = [reg EXCEPT ![w] = value]
  /\ UNCHANGED <<sems, readers, value, i, kind>>

Store(w) ==
  /\ Move(pc, w, "store", "post_write")
  /\ value' = reg[w] + 1
  /\ UNCHANGED <<sems, readers, i, reg, kind>>

PostWrite(w) ==
  /\ IF fair THEN Move(pc, w, "post_write", "release_fair") /\ UNCHANGED i
             ELSE Iterate(w, "post_write")
  /\ SemPost(writelock)
  /\ UNCHANGED <<fair_lock, lock, readers, value, reg, kind>>

\* Mutant of ReleaseFair: the writer keeps fair_lock.
ReleaseNothing(w) ==
  /\ Iterate(w, "release_fair")
  /\ UNCHANGED <<sems, readers, value, reg, kind>>

ReleaseFair(w) ==
  /\ Iterate(w, "release_fair")
  /\ SemPost(fair_lock)
  /\ UNCHANGED <<writelock, lock, readers, value, reg, kind>>

-----------------------------------------------------------------------------

Reader(r) ==
  \/ WaitFair(r) \/ WaitIn(r) \/ Incr(r) \/ TestIn(r) \/ FirstWait(r)
  \/ PostIn(r) \/ PostFair(r)
  \/ Read(r)
  \/ WaitOut(r) \/ Decr(r) \/ TestOut(r) \/ LastPost(r) \/ PostOut(r)

Writer(w) ==
  \/ WaitFair(w) \/ WaitWrite(w) \/ Load(w) \/ Store(w) \/ PostWrite(w)
  \/ ReleaseFair(w)

Finished == \A t \in Threads : pc[t] = "done"

Terminating == Finished /\ UNCHANGED vars

Next ==
  \/ \E r \in Readers : Reader(r)
  \/ \E w \in Writers : Writer(w)
  \/ Terminating

\* The kernel keeps running every runnable thread; sem_post wakes some
\* waiter, no particular one.
Fairness ==
  /\ \A r \in Readers : WF_vars(Reader(r))
  /\ \A w \in Writers : WF_vars(Writer(w))

Spec == Init /\ [][Next]_vars

FairSpec == Spec /\ Fairness

-----------------------------------------------------------------------------

At(labels) == {t \in Threads : pc[t] \in labels}

\* Between sem_wait and sem_post of fair_lock.
FairSection == {"wait_in", "incr", "test_in", "first_wait", "post_in",
                "post_fair", "wait_write", "load", "store", "post_write",
                "release_fair"}

\* Between sem_wait and sem_post of lock.
CountSection == {"incr", "test_in", "first_wait", "post_in",
                 "decr", "test_out", "last_post", "post_out"}

\* Between readers++ and readers--.
Counted == {"test_in", "first_wait", "post_in", "post_fair", "read",
            "wait_out", "decr"}

\* A reader whose group has writelock for it.
Inside == {"post_in", "post_fair", "read", "wait_out", "decr"}

Writing == {"load", "store", "post_write"}

TypeOK ==
  /\ fair_lock \in {0, 1}
  /\ writelock \in {0, 1}
  /\ lock \in {0, 1}
  /\ readers \in Nat
  /\ value \in Nat
  /\ pc \in [Threads -> FairSection \cup CountSection
                        \cup {"wait_fair", "read", "wait_out", "done"}]
  /\ \A r \in Readers : pc[r] \notin Writing \cup {"wait_write", "release_fair"}
  /\ \A w \in Writers : pc[w] \in Writing \cup {"wait_fair", "wait_write",
                                                "release_fair", "done"}
  /\ i \in [Threads -> Nat]
  /\ reg \in [Writers -> Nat]
  /\ kind \in BOOLEAN \X BOOLEAN

\* fair_lock, if there is one, and lock admit one thread each.
SectionExclusion ==
  /\ fair => /\ \A t, u \in At(FairSection) : t = u
             /\ fair_lock = 1 <=> At(FairSection) = {}
  /\ ~fair => At({"wait_fair", "post_fair", "release_fair"}) = {}
  /\ \A t, u \in At(CountSection) : t = u
  /\ lock = 1 <=> At(CountSection) = {}

\* rw->readers is the number of readers between ++ and --.
ReadersCounted == readers = Cardinality(At(Counted))

\* The group of readers has writelock: someone is inside, or the last one out
\* has not given it back.
GroupHolds ==
  \/ At(Inside) # {}
  \/ At({"test_out"}) # {} /\ readers = 0
  \/ At({"last_post"}) # {}

\* writelock has one holder at most: a writer or the group.
WritelockHeld ==
  /\ \A w, x \in At(Writing) : w = x
  /\ At(Writing) # {} => ~GroupHolds
  /\ writelock = 1 <=> At(Writing) = {} /\ ~GroupHolds

\* What a reader's branches on readers mean.
Branches ==
  /\ At({"first_wait"}) # {} => readers = 1
  /\ At({"last_post"}) # {} => readers = 0

FreshLoad == \A w \in Writers : pc[w] = "store" => reg[w] = value

(***************************************************************************)
(* The inductive invariant: the readers' count is exact under lock,        *)
(* writelock belongs to one writer or to the group of readers, and         *)
(* fair_lock has one holder, a reader on its way in or a writer.           *)
(***************************************************************************)
IInv ==
  TypeOK /\ SectionExclusion /\ ReadersCounted /\ WritelockHeld /\ Branches
  /\ FreshLoad

\* Each iteration of a writer has added one to value, the one it is in included
\* when it is past its store.
WritesCounted ==
  /\ value = MapThenSumSet(LAMBDA w : i[w], Writers)
               + Cardinality(At({"post_write", "release_fair"}))
  /\ \A w \in Writers : i[w] <= loops /\ (pc[w] = "done" <=> i[w] = loops)

\* t sleeps on a semaphore.
Blocked(t) ==
  \/ pc[t] = "wait_fair" /\ fair_lock = 0
  \/ pc[t] \in {"wait_in", "wait_out"} /\ lock = 0
  \/ pc[t] \in {"first_wait", "wait_write"} /\ writelock = 0

(***************************************************************************)
(* The three semaphores are never waited for in a ring: while any thread   *)
(* is not done, one of those does not sleep.                               *)
(***************************************************************************)
NoDeadlock ==
  ~Finished => \E t \in Threads : pc[t] # "done" /\ ~Blocked(t)

Inv == IInv /\ WritesCounted /\ NoDeadlock

(***************************************************************************)
(* The lock implements readers-writers exclusion: a reader is in from the  *)
(* moment its group has writelock until it leaves the count, a writer from *)
(* its sem_wait to its sem_post, and value is never overwritten.           *)
(***************************************************************************)
RW == INSTANCE ReadersWriters WITH
  reading <- At(Inside), writing <- At(Writing), wrote <- At({"post_write"})

ImplementsReadersWriters == RW!Spec

(***************************************************************************)
(* In reader-writer-nostarve.c no reader overtakes a writer: once a writer *)
(* has fair_lock and waits for writelock, the readers inside only leave.   *)
(***************************************************************************)
WriterNotOvertaken ==
  [][fair /\ At({"wait_write"}) # {} => At(Inside)' \subseteq At(Inside)]_vars

(***************************************************************************)
(* A writer that has fair_lock gets to write, even if readers never stop   *)
(* coming.  Without fair_lock they can keep it waiting for ever.           *)
(***************************************************************************)
WriterServed ==
  \A w \in Writers : fair /\ pc[w] = "wait_write" ~> pc[w] = "load"

(***************************************************************************)
(* Unless the readers are endless, every thread main joins returns and no  *)
(* write is lost: "end: value" (reader-writer.c:104,                       *)
(* reader-writer-nostarve.c:116) prints writers * loops.                   *)
(***************************************************************************)
Completes ==
  endless \/ <>(Finished /\ value = Cardinality(Writers) * loops)

=============================================================================
