------------------------------ MODULE Barrier ------------------------------
(***************************************************************************)
(* src/os-three-easy-pieces/concurrency/sema/barrier.c: a barrier from two *)
(* semaphores.  Each thread counts itself under lock; the one that brings  *)
(* waiters to threshold (the opener) posts sem threshold times, clears     *)
(* waiters and goes on without waiting; every other thread waits for sem.  *)
(*                                                                         *)
(* main creates the children one by one and joins them in that order, so   *)
(* some may be at the barrier before others exist.                         *)
(***************************************************************************)
EXTENDS Sync, FiniteSets

CONSTANT N   \* num_threads

\* main rejects num_threads <= 0.
ASSUME BarrierAssumption == N \in Nat \ {0}

Threads == 0 .. N - 1

threshold == N

VARIABLES
  sem,       \* b->sem
  lock,      \* b->lock
  waiters,   \* b->waiters
  pc,        \* where each child is
  i,         \* the loop counter of the opener
  created,   \* the children main has created
  joined     \* the children main has joined

vars == <<sem, lock, waiters, pc, i, created, joined>>

\* barrier_init, before main creates any child.
Init ==
  /\ sem = 0
  /\ lock = 1
  /\ waiters = 0
  /\ pc = [t \in Threads |-> "not_created"]
  /\ i = 0
  /\ created = 0
  /\ joined = 0

-----------------------------------------------------------------------------
\* barrier, called by child t

WaitLock(t) ==
  /\ Move(pc, t, "wait_lock", "count")
  /\ SemWait(lock)
  /\ UNCHANGED <<sem, waiters, i, created, joined>>

Count(t) ==
  /\ Move(pc, t, "count", "test")
  /\ waiters' = waiters + 1
  /\ UNCHANGED <<sem, lock, i, created, joined>>

\* Mutant of Test: the barrier opens one thread early.
TestEarly(t) ==
  /\ Move(pc, t, "test", IF waiters >= threshold - 1 THEN "open" ELSE "post_lock")
  /\ UNCHANGED <<sem, lock, waiters, i, created, joined>>

\* if (b->waiters == b->threshold); i = 0 starts the opener's loop.
Test(t) ==
  /\ Move(pc, t, "test", IF waiters = threshold THEN "open" ELSE "post_lock")
  /\ UNCHANGED <<sem, lock, waiters, i, created, joined>>

\* Mutant of Open: no permit at all is posted.
OpenNone(t) ==
  /\ Move(pc, t, "open", "reset")
  /\ UNCHANGED <<sem, lock, waiters, i, created, joined>>

\* An iteration of for (i = 0; i < b->threshold; ++i), or its end.
Open(t) ==
  /\ pc[t] = "open"
  /\ IF i < threshold
     THEN SemPost(sem) /\ i' = i + 1 /\ UNCHANGED pc
     ELSE Move(pc, t, "open", "reset") /\ UNCHANGED <<sem, i>>
  /\ UNCHANGED <<lock, waiters, created, joined>>

Reset(t) ==
  /\ Move(pc, t, "reset", "opener_post")
  /\ waiters' = 0
  /\ UNCHANGED <<sem, lock, i, created, joined>>

OpenerPost(t) ==
  /\ Move(pc, t, "opener_post", "after")
  /\ SemPost(lock)
  /\ UNCHANGED <<sem, waiters, i, created, joined>>

PostLock(t) ==
  /\ Move(pc, t, "post_lock", "wait_sem")
  /\ SemPost(lock)
  /\ UNCHANGED <<sem, waiters, i, created, joined>>

WaitSem(t) ==
  /\ Move(pc, t, "wait_sem", "after")
  /\ SemWait(sem)
  /\ UNCHANGED <<lock, waiters, i, created, joined>>

Child(t) ==
  \/ WaitLock(t) \/ Count(t) \/ Test(t)
  \/ Open(t) \/ Reset(t) \/ OpenerPost(t)
  \/ PostLock(t) \/ WaitSem(t)

-----------------------------------------------------------------------------
\* main

Create ==
  /\ created < N
  /\ Move(pc, created, "not_created", "wait_lock")
  /\ created' = created + 1
  /\ UNCHANGED <<sem, lock, waiters, i, joined>>

Join ==
  /\ created = N
  /\ joined < N
  /\ pc[joined] = "after"
  /\ joined' = joined + 1
  /\ UNCHANGED <<sem, lock, waiters, pc, i, created>>

Main == Create \/ Join

\* main has printed "parent: end".
Finished == joined = N

Terminating == Finished /\ UNCHANGED vars

Next == Main \/ (\E t \in Threads : Child(t)) \/ Terminating

Spec == Init /\ [][Next]_vars

\* The kernel keeps running every runnable thread.
FairSpec == Spec /\ WF_vars(Main) /\ \A t \in Threads : WF_vars(Child(t))

-----------------------------------------------------------------------------

At(labels) == {t \in Threads : pc[t] \in labels}

LockSection == {"count", "test", "open", "reset", "opener_post", "post_lock"}
Opening == {"open", "reset", "opener_post"}

TypeOK ==
  /\ sem \in Nat
  /\ lock \in {0, 1}
  /\ waiters \in Nat
  /\ pc \in [Threads -> LockSection \cup {"not_created", "wait_lock",
                                          "wait_sem", "after"}]
  /\ i \in 0 .. N
  /\ created \in 0 .. N
  /\ joined \in 0 .. N

LockExclusion ==
  /\ \A t, u \in At(LockSection) : t = u
  /\ lock = 1 <=> At(LockSection) = {}

\* Past waiters++.
Arrived == At({"test", "open", "reset", "opener_post", "post_lock", "wait_sem",
               "after"})

\* Someone has found the count complete.
Opened == At(Opening) # {} \/ At({"after"}) # {}

\* Until the barrier opens nobody has passed and waiters counts the arrived;
\* once it opens all have arrived and are behind the test.
Phases ==
  IF Opened
  THEN Arrived = Threads /\ At({"test", "post_lock"}) = {}
  ELSE sem = 0 /\ i = 0 /\ waiters = Cardinality(Arrived)

\* The complete count is found by whoever is at the test.
LastCounts ==
  waiters = N /\ ~Opened => At({"test"}) # {}

\* Of the permits posted some are in sem and some were taken by a thread on
\* its way out; the opener is the only one that leaves without taking one.
Permits ==
  /\ Opened =>
       sem + Cardinality(At({"after"}))
         = i + (IF At(Opening) = {} THEN 1 ELSE 0)
  /\ Opened /\ At({"open"}) = {} => i = N

(***************************************************************************)
(* The inductive invariant.                                                *)
(***************************************************************************)
IInv == TypeOK /\ LockExclusion /\ Phases /\ LastCounts /\ Permits

\* The children that main has not created.
Uncreated == \A t \in Threads : pc[t] = "not_created" <=> t >= created

\* t sleeps on a semaphore.
Blocked(t) ==
  \/ pc[t] = "wait_lock" /\ lock = 0
  \/ pc[t] = "wait_sem" /\ sem = 0

(***************************************************************************)
(* When main has created all children and any is not past the barrier, one *)
(* of those does not sleep: the opener has a permit for everybody else.    *)
(***************************************************************************)
NoDeadlock ==
  created = N /\ (\E t \in Threads : pc[t] # "after") =>
    \E t \in Threads : pc[t] # "after" /\ ~Blocked(t)

Inv == IInv /\ Uncreated /\ NoDeadlock

(***************************************************************************)
(* Nobody is past the barrier before everybody has arrived at it.          *)
(***************************************************************************)
Meeting == INSTANCE Rendezvous WITH arrived <- Arrived, left <- At({"after"})

ImplementsRendezvous == Meeting!Spec

(***************************************************************************)
(* main prints "parent: end" (barrier.c:96): no child is left at the       *)
(* barrier, whatever the order in which they are created and arrive.  The  *)
(* barrier is then not as it was: one of the threshold posts has no wait,  *)
(* so a second use of b would let one thread through at once.              *)
(***************************************************************************)
Completes == <>(Finished /\ waiters = 0 /\ lock = 1 /\ sem = 1)

=============================================================================
