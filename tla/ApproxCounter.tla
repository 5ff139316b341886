--------------------------- MODULE ApproxCounter ---------------------------
(***************************************************************************)
(* src/os-three-easy-pieces/concurrency/approximate_counter.c: a counter   *)
(* with a local part per CPU, each under its own mutex, that is moved to   *)
(* the global part, under a mutex too, when it reaches threshold.          *)
(*                                                                         *)
(* A thread belongs to the CPU threadID % NUMCPUS; with more threads than  *)
(* CPUs several share one.  Each thread makes MaxMade calls (a bound of    *)
(* the model), of update with some amount or of get; main then calls get.  *)
(* Each += is a load and a store.                                          *)
(*                                                                         *)
(* The names differ from those of Counter and FifoSeqnum: CounterProofs    *)
(* extends all three.                                                      *)
(***************************************************************************)
EXTENDS Sync, FiniteSetsExt

CONSTANTS
  NUM_THREADS, NUMCPUS, threshold,
  Amounts,    \* what update may be given; worker gives 1
  MaxMade     \* calls of each thread

ASSUME ApproxAssumption ==
  /\ NUM_THREADS \in Nat
  /\ NUMCPUS \in Nat \ {0}
  /\ threshold \in Nat \ {0}
  /\ Amounts \subseteq Nat \ {0}
  /\ MaxMade \in Nat

Workers == 0 .. NUM_THREADS - 1
CPUs == 0 .. NUMCPUS - 1
cpu(t) == t % NUMCPUS

VARIABLES
  global,     \* c->global
  glock,      \* c->glock
  local,      \* c->local
  llock,      \* c->llock
  at,         \* where each thread is
  made,       \* the calls each thread has made
  amt,        \* the argument of each thread's update
  loaded,     \* the register of each thread's +=, or the val of get
  returned,   \* history: the sum of the updates that have returned
  printed     \* the value main prints, -1 before it does

counter == <<global, glock, local, llock>>
outcome == <<returned, printed>>
approxVars == <<counter, at, made, amt, loaded, outcome>>

\* init
ApproxInit ==
  /\ global = 0
  /\ glock = {}
  /\ local = [c \in CPUs |-> 0]
  /\ llock = [c \in CPUs |-> {}]
  /\ at = [t \in Workers |-> "idle"]
  /\ made = [t \in Workers |-> 0]
  /\ amt = [t \in Workers |-> 0]
  /\ loaded = [t \in Workers |-> 0]
  /\ returned = 0
  /\ printed = -1

CallCounter(t) ==
  /\ made[t] < MaxMade
  /\ \/ /\ Move(at, t, "idle", "lock_local")
        /\ \E a \in Amounts : amt' = [amt EXCEPT ![t] = a]
     \/ Move(at, t, "idle", "get_lock") /\ UNCHANGED amt
  /\ made' = [made EXCEPT ![t] = @ + 1]
  /\ UNCHANGED <<counter, loaded, outcome>>

-----------------------------------------------------------------------------
\* update

\* Mutant of LockLocal: the local part is entered without its mutex.
EnterLocal(t) ==
  /\ Move(at, t, "lock_local", "load_local")
  /\ UNCHANGED <<counter, made, amt, loaded, outcome>>

LockLocal(t) ==
  /\ Move(at, t, "lock_local", "load_local")
  /\ llock[cpu(t)] = {}
  /\ llock' = [llock EXCEPT ![cpu(t)] = {t}]
  /\ UNCHANGED <<global, glock, local, made, amt, loaded, outcome>>

LoadLocal(t) ==
  /\ Move(at, t, "load_local", "store_local")
  /\ loaded' = [loaded EXCEPT ![t] = local[cpu(t)]]
  /\ UNCHANGED <<counter, made, amt, outcome>>

StoreLocal(t) ==
  /\ Move(at, t, "store_local", "test")
  /\ local' = [local EXCEPT ![cpu(t)] = loaded[t] + amt[t]]
  /\ UNCHANGED <<global, glock, llock, made, amt, loaded, outcome>>

\* Mutant of Test: a local part equal to threshold stays.
TestAbove(t) ==
  /\ Move(at, t, "test", IF local[cpu(t)] > threshold THEN "lock_global"
                         ELSE "unlock_local")
  /\ UNCHANGED <<counter, made, amt, loaded, outcome>>

\* if (c->local[cpu] >= c->threshold)
Test(t) ==
  /\ Move(at, t, "test", IF local[cpu(t)] >= threshold THEN "lock_global"
                         ELSE "unlock_local")
  /\ UNCHANGED <<counter, made, amt, loaded, outcome>>

LockGlobal(t) ==
  /\ Move(at, t, "lock_global", "load_global")
  /\ MutexLock(glock, t)
  /\ UNCHANGED <<global, local, llock, made, amt, loaded, outcome>>

LoadGlobal(t) ==
  /\ Move(at, t, "load_global", "store_global")
  /\ loaded' = [loaded EXCEPT ![t] = global]
  /\ UNCHANGED <<counter, made, amt, outcome>>

StoreGlobal(t) ==
  /\ Move(at, t, "store_global", "unlock_global")
  /\ global' = loaded[t] + local[cpu(t)]
  /\ UNCHANGED <<glock, local, llock, made, amt, loaded, outcome>>

\* Mutant of UnlockGlobal: glock is kept.
KeepGlobal(t) ==
  /\ Move(at, t, "unlock_global", "reset")
  /\ UNCHANGED <<counter, made, amt, loaded, outcome>>

UnlockGlobal(t) ==
  /\ Move(at, t, "unlock_global", "reset")
  /\ MutexUnlock(glock, t)
  /\ UNCHANGED <<global, local, llock, made, amt, loaded, outcome>>

Reset(t) ==
  /\ Move(at, t, "reset", "unlock_local")
  /\ local' = [local EXCEPT ![cpu(t)] = 0]
  /\ UNCHANGED <<global, glock, llock, made, amt, loaded, outcome>>

UnlockLocal(t) ==
  /\ Move(at, t, "unlock_local", "idle")
  /\ llock' = [llock EXCEPT ![cpu(t)] = @ \ {t}]
  /\ returned' = returned + amt[t]
  /\ UNCHANGED <<global, glock, local, made, amt, loaded, printed>>

-----------------------------------------------------------------------------
\* get

GetLock(t) ==
  /\ Move(at, t, "get_lock", "get_load")
  /\ MutexLock(glock, t)
  /\ UNCHANGED <<global, local, llock, made, amt, loaded, outcome>>

GetLoad(t) ==
  /\ Move(at, t, "get_load", "get_unlock")
  /\ loaded' = [loaded EXCEPT ![t] = global]
  /\ UNCHANGED <<counter, made, amt, outcome>>

GetUnlock(t) ==
  /\ Move(at, t, "get_unlock", "idle")
  /\ MutexUnlock(glock, t)
  /\ UNCHANGED <<global, local, llock, made, amt, loaded, outcome>>

-----------------------------------------------------------------------------

Worker(t) ==
  \/ CallCounter(t)
  \/ LockLocal(t) \/ LoadLocal(t) \/ StoreLocal(t) \/ Test(t)
  \/ LockGlobal(t) \/ LoadGlobal(t) \/ StoreGlobal(t) \/ UnlockGlobal(t)
  \/ Reset(t) \/ UnlockLocal(t)
  \/ GetLock(t) \/ GetLoad(t) \/ GetUnlock(t)

\* main joins its threads and prints what get returns; the mutexes are free.
Main ==
  /\ \A t \in Workers : at[t] = "idle" /\ made[t] = MaxMade
  /\ printed = -1
  /\ glock = {}
  /\ printed' = global
  /\ UNCHANGED <<counter, at, made, amt, loaded, returned>>

ApproxTerminating == printed # -1 /\ UNCHANGED approxVars

ApproxNext == (\E t \in Workers : Worker(t)) \/ Main \/ ApproxTerminating

ApproxSpec == ApproxInit /\ [][ApproxNext]_approxVars

\* The kernel keeps running every runnable thread.
ApproxFairSpec ==
  /\ ApproxSpec
  /\ WF_approxVars(Main)
  /\ \A t \in Workers : WF_approxVars(Worker(t))

-----------------------------------------------------------------------------

Labels == {"idle", "lock_local", "load_local", "store_local", "test",
           "lock_global", "load_global", "store_global", "unlock_global",
           "reset", "unlock_local", "get_lock", "get_load", "get_unlock"}

ApproxTypeOK ==
  /\ global \in Nat
  /\ glock \in SUBSET Workers
  /\ local \in [CPUs -> Nat]
  /\ llock \in [CPUs -> SUBSET Workers]
  /\ at \in [Workers -> Labels]
  /\ made \in [Workers -> 0 .. MaxMade]
  /\ amt \in [Workers -> Amounts \cup {0}]
  /\ loaded \in [Workers -> Nat]
  /\ returned \in Nat
  /\ printed \in Nat \cup {-1}

\* A CPU whose local part has been added to global and not yet cleared.
Flushed(c) ==
  \E t \in Workers : cpu(t) = c /\ at[t] \in {"unlock_global", "reset"}

\* global, and what the local parts hold that global does not.
Exact ==
  global + MapThenSumSet(LAMBDA c : local[c], {c \in CPUs : ~Flushed(c)})

\* Each CPU keeps less than threshold back.
Lag == NUMCPUS * (threshold - 1)

\* The updates that have been stored and have not returned.
InFlight ==
  MapThenSumSet(LAMBDA t : amt[t],
    {t \in Workers : at[t] \in {"test", "lock_global", "load_global",
                                "store_global", "unlock_global", "reset",
                                "unlock_local"}})

(***************************************************************************)
(* No amount is lost or counted twice: what the updates that have returned *)
(* and those about to return added is what the counter holds.              *)
(***************************************************************************)
Conserved == Exact = returned + InFlight

\* Labels under a local mutex, and under glock.
InLocal == {"load_local", "store_local", "test", "lock_global", "load_global",
            "store_global", "unlock_global", "reset", "unlock_local"}
InGlobal == {"load_global", "store_global", "unlock_global", "get_load",
             "get_unlock"}

\* Each mutex is held by the one thread that is between its lock and unlock.
LocalHolder ==
  /\ \A t \in Workers : at[t] \in InLocal <=> t \in llock[cpu(t)]
  /\ \A c \in CPUs : \A t, u \in llock[c] : cpu(t) = c /\ t = u

GlobalHolder ==
  /\ \A t \in Workers : at[t] \in InGlobal <=> t \in glock
  /\ \A t, u \in glock : t = u

\* What a += has loaded is still there, and an update has an amount to add.
Fresh ==
  \A t \in Workers :
    /\ at[t] = "store_local" => loaded[t] = local[cpu(t)]
    /\ at[t] = "store_global" => loaded[t] = global
    /\ at[t] \in InLocal \cup {"lock_local"} => amt[t] \in Amounts

\* Threads whose update has not yet brought its CPU under threshold again.
Unflushed(t) == at[t] \in {"test", "lock_global", "load_global", "store_global"}

\* A local part reaches threshold by the update that is about to flush it only.
Kept ==
  /\ \A t \in Workers : Unflushed(t) =>
       /\ local[cpu(t)] < threshold + amt[t]
       /\ at[t] # "test" => local[cpu(t)] >= threshold
  /\ \A c \in CPUs :
       \/ local[c] < threshold
       \/ Flushed(c)
       \/ \E t \in Workers : cpu(t) = c /\ Unflushed(t)

\* What main prints is close to the number of updates, and it prints last.
Reported ==
  printed # -1 =>
    /\ \A t \in Workers : at[t] = "idle" /\ made[t] = MaxMade
    /\ returned - printed \in 0 .. Lag

(***************************************************************************)
(* The inductive invariant: the amounts balance, because each += is made   *)
(* under its mutex, and each CPU is at threshold only while it flushes.    *)
(***************************************************************************)
ApproxInv ==
  /\ ApproxTypeOK /\ LocalHolder /\ GlobalHolder /\ Fresh /\ Kept
  /\ Conserved /\ Reported

\* t has returned from all its calls, or waits for a mutex.
Returned(t) == at[t] = "idle" /\ made[t] = MaxMade
Waiting(t) ==
  \/ at[t] = "lock_local" /\ llock[cpu(t)] # {}
  \/ at[t] \in {"lock_global", "get_lock"} /\ glock # {}

(***************************************************************************)
(* The mutexes are taken in one order, local before global: of the threads *)
(* that have not returned one does not wait, and main finds glock free.    *)
(***************************************************************************)
NobodyStuck ==
  IF \A t \in Workers : Returned(t)
  THEN glock = {}
  ELSE \E t \in Workers : ~Returned(t) /\ ~Waiting(t)

ApproxSafe == ApproxInv /\ NobodyStuck

(***************************************************************************)
(* global never goes back, never passes the exact count and is behind the  *)
(* updates that have returned by less than threshold per CPU, flushes that *)
(* are under way included.                                                 *)
(***************************************************************************)
Lagging == INSTANCE LaggingCounter WITH exact <- Exact

ImplementsLaggingCounter == Lagging!Spec

(***************************************************************************)
(* Every thread is joined, and "Counter value" (approximate_counter.c:63)  *)
(* is the number of updates but for what the local parts keep back.        *)
(***************************************************************************)
Completes == <>(printed # -1 /\ returned - printed \in 0 .. Lag)

=============================================================================
