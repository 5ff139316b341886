----------------------------- MODULE Zemaphore -----------------------------
(***************************************************************************)
(* src/os-three-easy-pieces/concurrency/sema/zemaphore.c: a semaphore made *)
(* of a counter, a mutex and a condition variable.  zem_wait sleeps on     *)
(* cond while value is not positive; zem_post adds one and signals.        *)
(*                                                                         *)
(* The file has no main: any thread may call either function at any time,  *)
(* MaxCalls times (a bound of the model), and zem_init may be given any    *)
(* int of InitialValues, negative ones too.                                *)
(***************************************************************************)
EXTENDS Sync, FiniteSets

CONSTANTS
  Threads,         \* the threads that share the zem_t
  InitialValues,   \* what zem_init may be given
  MaxCalls         \* calls of each thread

ASSUME ZemAssumption ==
  /\ IsFiniteSet(Threads)
  /\ InitialValues \subseteq Int
  /\ MaxCalls \in Nat

VARIABLES
  value,   \* s->value
  lock,    \* s->lock
  pc,      \* where each thread is; "asleep" is in the wait set of s->cond
  calls    \* the calls each thread has made

vars == <<value, lock, pc, calls>>

\* zem_init
Init ==
  /\ value \in InitialValues
  /\ lock = {}
  /\ pc = [t \in Threads |-> "idle"]
  /\ calls = [t \in Threads |-> 0]

At(labels) == {t \in Threads : pc[t] \in labels}

\* A thread calls zem_wait or zem_post.
Call(t) ==
  /\ calls[t] < MaxCalls
  /\ \E call \in {"wait_lock", "post_lock"} : Move(pc, t, "idle", call)
  /\ calls' = [calls EXCEPT ![t] = @ + 1]
  /\ UNCHANGED <<value, lock>>

-----------------------------------------------------------------------------
\* zem_wait

WaitLock(t) ==
  /\ Move(pc, t, "wait_lock", "test")
  /\ MutexLock(lock, t)
  /\ UNCHANGED <<value, calls>>

\* Mutant of Test: the loop is left when value is 0.
TestZero(t) ==
  /\ Move(pc, t, "test", IF value < 0 THEN "cond_wait" ELSE "decr")
  /\ UNCHANGED <<value, lock, calls>>

\* while (s->value <= 0)
Test(t) ==
  /\ Move(pc, t, "test", IF value <= 0 THEN "cond_wait" ELSE "decr")
  /\ UNCHANGED <<value, lock, calls>>

\* pthread_cond_wait unlocks and goes to sleep in one step ...
Sleep(t) ==
  /\ Move(pc, t, "cond_wait", "asleep")
  /\ MutexUnlock(lock, t)
  /\ UNCHANGED <<value, calls>>

\* ... may wake for no reason ...
WakeSpuriously(t) ==
  /\ Move(pc, t, "asleep", "relock")
  /\ UNCHANGED <<value, lock, calls>>

\* ... and returns with the mutex locked again.
Relock(t) ==
  /\ Move(pc, t, "relock", "test")
  /\ MutexLock(lock, t)
  /\ UNCHANGED <<value, calls>>

Decr(t) ==
  /\ Move(pc, t, "decr", "unlock")
  /\ value' = value - 1
  /\ UNCHANGED <<lock, calls>>

-----------------------------------------------------------------------------
\* zem_post

PostLock(t) ==
  /\ Move(pc, t, "post_lock", "incr")
  /\ MutexLock(lock, t)
  /\ UNCHANGED <<value, calls>>

Incr(t) ==
  /\ Move(pc, t, "incr", "signal")
  /\ value' = value + 1
  /\ UNCHANGED <<lock, calls>>

\* Mutant of Signal: nobody is woken.
SignalNobody(t) ==
  /\ Move(pc, t, "signal", "unlock")
  /\ UNCHANGED <<value, lock, calls>>

\* pthread_cond_signal wakes one sleeper, if there is any.
Signal(t) ==
  /\ pc[t] = "signal"
  /\ IF At({"asleep"}) = {}
     THEN pc' = [pc EXCEPT ![t] = "unlock"]
     ELSE \E u \in At({"asleep"}) :
            pc' = [pc EXCEPT ![t] = "unlock", ![u] = "relock"]
  /\ UNCHANGED <<value, lock, calls>>

Unlock(t) ==
  /\ Move(pc, t, "unlock", "idle")
  /\ MutexUnlock(lock, t)
  /\ UNCHANGED <<value, calls>>

-----------------------------------------------------------------------------

Step(t) ==
  \/ WaitLock(t) \/ Test(t) \/ Sleep(t) \/ Relock(t) \/ Decr(t)
  \/ PostLock(t) \/ Incr(t) \/ Signal(t) \/ Unlock(t)

\* No thread has a call left to make.
Quiet == \A t \in Threads : pc[t] = "idle" /\ calls[t] = MaxCalls

Terminating == Quiet /\ UNCHANGED vars

Next ==
  \/ \E t \in Threads : Call(t) \/ Step(t) \/ WakeSpuriously(t)
  \/ Terminating

Spec == Init /\ [][Next]_vars

\* The kernel keeps running a thread that is inside a call; nobody need call,
\* and nobody need wake without a signal.
FairSpec == Spec /\ \A t \in Threads : WF_vars(Step(t))

-----------------------------------------------------------------------------

Locked == {"test", "cond_wait", "decr", "incr", "signal", "unlock"}
Labels == Locked \cup {"idle", "wait_lock", "asleep", "relock", "post_lock"}

TypeOK ==
  /\ value \in Int
  /\ lock \in SUBSET Threads
  /\ pc \in [Threads -> Labels]
  /\ calls \in [Threads -> 0 .. MaxCalls]

LockExclusion ==
  /\ lock = At(Locked)
  /\ \A t, u \in lock : t = u

\* What a waiter has tested still holds when it acts on it.
TestedValue ==
  /\ At({"decr"}) # {} => value > 0
  /\ At({"cond_wait"}) # {} => value <= 0

\* Threads that will look at value before they sleep, and the poster that has
\* yet to signal.
Roused == At({"relock", "test", "decr", "signal"})

(***************************************************************************)
(* No wake-up is lost: while somebody sleeps on cond, every unit of value  *)
(* has a thread that is awake to take it, or a poster about to wake one.   *)
(***************************************************************************)
NoLostWakeup == At({"asleep"}) # {} => value <= Cardinality(Roused)

(***************************************************************************)
(* The inductive invariant.                                                *)
(***************************************************************************)
IInv == TypeOK /\ LockExclusion /\ TestedValue /\ NoLostWakeup

\* The threads inside zem_wait that have not decremented value.
Waiting == At({"wait_lock", "test", "cond_wait", "asleep", "relock", "decr"})

(***************************************************************************)
(* zem_t implements a counting semaphore: a wait takes effect at --value   *)
(* and a post at ++value, and a positive value does not go unused while    *)
(* somebody waits.                                                         *)
(***************************************************************************)
Semaphore == INSTANCE CountingSemaphore WITH waiting <- Waiting

ImplementsSemaphore == Semaphore!FairSpec

=============================================================================
