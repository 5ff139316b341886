------------------------------ MODULE Counter ------------------------------
(***************************************************************************)
(* src/os-three-easy-pieces/concurrency/counter.c: a counter under one     *)
(* mutex.  The Loopers run incloop, as test_for_n_threads starts them; the *)
(* Clients call inc, dec and get, the operations the file offers beside    *)
(* the test.  ++c->value and --c->value are a load and a store, as the     *)
(* compiler emits them, so that only the mutex makes them one step.        *)
(*                                                                         *)
(* LIMIT is 10^6, far below the largest int: no operation overflows.       *)
(***************************************************************************)
EXTENDS Sync, FiniteSets

CONSTANTS
  Loopers,   \* the threads test_for_n_threads creates
  Clients,   \* threads that call inc, dec and get
  Limit,     \* LIMIT
  MaxCalls   \* bound on the calls of one client

ASSUME CounterAssumption ==
  /\ Limit \in Nat
  /\ MaxCalls \in Nat
  /\ Loopers \cap Clients = {}
  /\ IsFiniteSet(Loopers) /\ IsFiniteSet(Clients)

Threads == Loopers \cup Clients

VARIABLES
  value,     \* c->value
  mut,       \* c->mut
  pc,        \* where each thread is
  op,        \* the operation each thread executes
  reg,       \* the register a thread loads c->value into
  rv,        \* the rv a thread's last inc, dec or get returned
  calls      \* how many calls a client has made

vars == <<value, mut, pc, op, reg, rv, calls>>

\* Mutant of Amount: dec counts up.
AmountUp(o) == IF o = "get" THEN 0 ELSE 1

\* What an operation adds to the counter.
Amount(o) == IF o = "get" THEN 0 ELSE IF o = "dec" THEN -1 ELSE 1

Init ==
  /\ value = 0
  /\ mut = {}
  /\ pc = [t \in Threads |-> IF t \in Loopers THEN "lock" ELSE "idle"]
  /\ op = [t \in Threads |-> IF t \in Loopers THEN "incloop" ELSE "get"]
  /\ reg = [t \in Threads |-> 0]
  /\ rv = [t \in Threads |-> 0]
  /\ calls = [t \in Threads |-> 0]

\* A client enters inc, dec or get.
Call(t) ==
  /\ t \in Clients
  /\ calls[t] < MaxCalls
  /\ Move(pc, t, "idle", "lock")
  /\ \E o \in {"inc", "dec", "get"} : op' = [op EXCEPT ![t] = o]
  /\ calls' = [calls EXCEPT ![t] = @ + 1]
  /\ UNCHANGED <<value, mut, reg, rv>>

\* Mutant of Lock: the mutex is never taken.
LockNothing(t) ==
  /\ Move(pc, t, "lock", IF op[t] = "incloop" THEN "check" ELSE "load")
  /\ UNCHANGED <<value, mut, op, reg, rv, calls>>

Lock(t) ==
  /\ Move(pc, t, "lock", IF op[t] = "incloop" THEN "check" ELSE "load")
  /\ MutexLock(mut, t)
  /\ UNCHANGED <<value, op, reg, rv, calls>>

\* Mutant of Check: > in place of >=.
CheckPast(t) ==
  /\ Move(pc, t, "check", IF value > Limit THEN "leave" ELSE "load")
  /\ UNCHANGED <<value, mut, op, reg, rv, calls>>

\* if (c->value >= LIMIT): the thread that finds the limit leaves the loop.
Check(t) ==
  /\ Move(pc, t, "check", IF value >= Limit THEN "leave" ELSE "load")
  /\ UNCHANGED <<value, mut, op, reg, rv, calls>>

Load(t) ==
  /\ Move(pc, t, "load", IF op[t] = "get" THEN "unlock" ELSE "store")
  /\ reg' = [reg EXCEPT ![t] = value]
  /\ rv' = IF op[t] = "get" THEN [rv EXCEPT ![t] = value] ELSE rv
  /\ UNCHANGED <<value, mut, op, calls>>

Store(t) ==
  /\ Move(pc, t, "store", "unlock")
  /\ value' = reg[t] + Amount(op[t])
  /\ rv' = IF op[t] = "incloop" THEN rv ELSE [rv EXCEPT ![t] = value']
  /\ UNCHANGED <<mut, op, reg, calls>>

\* The next iteration of incloop, or the return of inc, dec or get.
Unlock(t) ==
  /\ Move(pc, t, "unlock", IF op[t] = "incloop" THEN "lock" ELSE "idle")
  /\ MutexUnlock(mut, t)
  /\ UNCHANGED <<value, op, reg, rv, calls>>

\* Mutant of Leave: break without the unlock.
LeaveLocked(t) ==
  /\ Move(pc, t, "leave", "done")
  /\ UNCHANGED <<value, mut, op, reg, rv, calls>>

\* Unlock and break.
Leave(t) ==
  /\ Move(pc, t, "leave", "done")
  /\ MutexUnlock(mut, t)
  /\ UNCHANGED <<value, op, reg, rv, calls>>

Step(t) ==
  \/ Lock(t) \/ Check(t) \/ Load(t) \/ Store(t) \/ Unlock(t) \/ Leave(t)

Finished == /\ \A t \in Loopers : pc[t] = "done"
            /\ \A t \in Clients : pc[t] = "idle"

\* main returns from its joins: nothing is left to do.
Terminating == Finished /\ UNCHANGED vars

Next == Terminating \/ \E t \in Threads : Call(t) \/ Step(t)

\* The kernel keeps running every runnable thread.  Nothing is assumed about
\* who gets a contended mutex, and no client has to call.
Fairness == \A t \in Threads : WF_vars(Step(t))

Spec == Init /\ [][Next]_vars

FairSpec == Spec /\ Fairness

-----------------------------------------------------------------------------

InCritical(t) == pc[t] \in {"check", "load", "store", "unlock", "leave"}

TypeOK ==
  /\ value \in Int
  /\ mut \in SUBSET Threads
  /\ pc \in [Threads -> {"idle", "lock", "check", "load", "store", "unlock",
                         "leave", "done"}]
  /\ op \in [Threads -> {"incloop", "inc", "dec", "get"}]
  /\ reg \in [Threads -> Int]
  /\ rv \in [Threads -> Int]
  /\ calls \in [Threads -> 0 .. MaxCalls]

\* How far a call is, or a turn of incloop: it takes effect with the store,
\* with the load of get, or with the test that finds the limit.
Phase ==
  [t \in Threads |->
     IF pc[t] \in {"leave", "done"} THEN "left"
     ELSE IF pc[t] = "idle" THEN "out"
     ELSE IF pc[t] = "unlock" THEN "answered" ELSE "called"]

(***************************************************************************)
(* counter.c behaves as an atomic counter: every inc, dec and get that     *)
(* returns has taken effect exactly once since it was called, adds what it *)
(* is named for to the value all others see, and returns the value of that *)
(* instant; every turn of incloop adds one to a counter below LIMIT, and   *)
(* only the limit lets a thread leave the loop.                            *)
(***************************************************************************)
Atomic == INSTANCE AtomicCounter WITH val <- value, res <- rv, phase <- Phase

ImplementsAtomicCounter == Atomic!Spec

\* The lock is held by the thread inside, and by nobody else.
MutualExclusion ==
  /\ \A t \in Threads : InCritical(t) <=> t \in mut
  /\ \A t, u \in mut : t = u

\* Loopers stay in incloop, clients never enter it.
Roles ==
  \A t \in Threads :
    /\ t \in Loopers <=> op[t] = "incloop"
    /\ pc[t] \in {"check", "leave", "done"} => t \in Loopers
    /\ pc[t] = "idle" => t \in Clients
    /\ pc[t] = "store" => op[t] # "get"

\* What a thread loaded or compared is still the value of the counter.
FreshReads ==
  \A t \in Threads :
    /\ pc[t] = "store" => reg[t] = value
    /\ t \in Loopers /\ pc[t] \in {"load", "store"} => value < Limit

\* No client has called: test_for_n_threads as it is.
OnlyLoopers == \A t \in Clients : calls[t] = 0

\* The loopers alone only climb to Limit.
BelowLimit ==
  OnlyLoopers =>
    /\ \A t \in Clients : pc[t] = "idle"
    /\ value <= Limit
    /\ \A t \in Threads : pc[t] \in {"leave", "done"} => value = Limit

(***************************************************************************)
(* The inductive invariant: a thread between its lock and its unlock is    *)
(* alone there, and what it read of c->value has not changed under it.     *)
(***************************************************************************)
IInv == TypeOK /\ MutualExclusion /\ Roles /\ FreshReads /\ BelowLimit

(***************************************************************************)
(* Who waits for the mutex does so for a thread that can go on: it is      *)
(* given back on every way out, the break at the limit included.           *)
(***************************************************************************)
MutexComesFree ==
  ~Finished =>
    \E t \in Threads : pc[t] \notin {"idle", "done"} /\ ~(pc[t] = "lock" /\ mut # {})

Inv == IInv /\ MutexComesFree

(***************************************************************************)
(* "Counter must reach LIMIT value in the end" (counter.c:3): whatever the *)
(* interleaving, when every thread of test_for_n_threads is joined the     *)
(* value is LIMIT exactly.                                                 *)
(***************************************************************************)
ReachesLimit == OnlyLoopers /\ Loopers # {} /\ Finished => value = Limit

(***************************************************************************)
(* Every thread main joins does return, and every client call does too.    *)
(***************************************************************************)
Termination == <>Finished

=============================================================================
