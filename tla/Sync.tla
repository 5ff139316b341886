-------------------------------- MODULE Sync --------------------------------
(***************************************************************************)
(* The POSIX primitives the programs under                                 *)
(* src/os-three-easy-pieces/concurrency call.  They are not part of the    *)
(* repository: each one is what its callers rely on.                       *)
(*                                                                         *)
(* A semaphore is its value, a natural number.  A mutex is the set of its  *)
(* holders, empty when it is free.  A program counter is a function from   *)
(* threads to labels.                                                      *)
(***************************************************************************)
EXTENDS Integers

\* sem_wait(3) returns when it can decrement the value without going negative.
SemWait(sem) == sem > 0 /\ sem' = sem - 1

\* sem_post(3) increments the value and never blocks.
SemPost(sem) == sem' = sem + 1

\* pthread_mutex_lock(3) returns to t when nobody holds the mutex.
MutexLock(mutex, t) == mutex = {} /\ mutex' = {t}

\* pthread_mutex_unlock(3) by a holder.
MutexUnlock(mutex, t) == mutex' = mutex \ {t}

\* Thread t is at label from and moves to label to.
Move(pc, t, from, to) == pc[t] = from /\ pc' = [pc EXCEPT ![t] = to]

=============================================================================
