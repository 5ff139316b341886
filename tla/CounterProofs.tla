--------------------------- MODULE CounterProofs ---------------------------
(***************************************************************************)
(* Proofs about the programs that count: ApproxCounter, for any number of  *)
(* threads and CPUs and any threshold; Counter, for any number of threads  *)
(* and any Limit; and FifoSeqnum, for any number of clients and stops.     *)
(***************************************************************************)
EXTENDS Counter, ApproxCounter, FifoSeqnum, Counting, SequenceTheorems

-----------------------------------------------------------------------------
\* approximate_counter.c

\* Every thread has its CPU, and there are finitely many of each.
LEMMA CpuType == ASSUME NEW t \in Workers PROVE cpu(t) \in CPUs
  BY ApproxAssumption DEF cpu, CPUs, Workers

LEMMA FiniteCPUs == IsFiniteSet(CPUs) /\ IsFiniteSet(Workers)
  BY ApproxAssumption, FS_Interval DEF CPUs, Workers

\* What is added up are natural numbers.
LEMMA Naturals ==
  ASSUME ApproxTypeOK, NEW t \in Workers
  PROVE  amt[t] \in Nat /\ loaded[t] \in Nat /\ local[cpu(t)] \in Nat
<1>1. Amounts \cup {0} \subseteq Nat
  BY ApproxAssumption
<1> QED
  BY <1>1, CpuType DEF ApproxTypeOK

Locks == LocalHolder /\ GlobalHolder

LEMMA LocksInit == ApproxInit => ApproxTypeOK /\ Locks /\ Fresh
<1> SUFFICES ASSUME ApproxInit PROVE ApproxTypeOK /\ Locks /\ Fresh
  OBVIOUS
<1>1. ApproxTypeOK
  BY ApproxAssumption DEF ApproxInit, ApproxTypeOK, Labels
<1>2. Locks /\ Fresh
  BY CpuType DEF ApproxInit, Locks, LocalHolder, GlobalHolder, Fresh, InLocal,
     InGlobal
<1> QED
  BY <1>1, <1>2

LEMMA TypeStep ==
  ASSUME ApproxTypeOK, Locks, Fresh, [ApproxNext]_approxVars
  PROVE  ApproxTypeOK'
<1> USE ApproxAssumption, CpuType DEF ApproxTypeOK, Labels, Move, counter, outcome
<1>1. ASSUME NEW t \in Workers, CallCounter(t) PROVE ApproxTypeOK'
  BY <1>1 DEF CallCounter
<1>2. ASSUME NEW t \in Workers, LockLocal(t) PROVE ApproxTypeOK'
  BY <1>2 DEF LockLocal
<1>3. ASSUME NEW t \in Workers, LoadLocal(t) PROVE ApproxTypeOK'
  BY <1>3 DEF LoadLocal
<1>4. ASSUME NEW t \in Workers, StoreLocal(t) PROVE ApproxTypeOK'
  <2>0. amt[t] \in Nat /\ loaded[t] \in Nat
    BY Naturals
  <2>1. loaded[t] + amt[t] \in Nat
    BY <2>0
  <2> QED
    BY <1>4, <2>1 DEF StoreLocal
<1>5. ASSUME NEW t \in Workers, Test(t) PROVE ApproxTypeOK'
  BY <1>5 DEF Test
<1>6. ASSUME NEW t \in Workers, LockGlobal(t) PROVE ApproxTypeOK'
  BY <1>6 DEF LockGlobal, MutexLock
<1>7. ASSUME NEW t \in Workers, LoadGlobal(t) PROVE ApproxTypeOK'
  BY <1>7 DEF LoadGlobal
<1>8. ASSUME NEW t \in Workers, StoreGlobal(t) PROVE ApproxTypeOK'
  <2>1. loaded[t] + local[cpu(t)] \in Nat
    OBVIOUS
  <2> QED
    BY <1>8, <2>1 DEF StoreGlobal
<1>9. ASSUME NEW t \in Workers, UnlockGlobal(t) PROVE ApproxTypeOK'
  BY <1>9 DEF UnlockGlobal, MutexUnlock
<1>10. ASSUME NEW t \in Workers, Reset(t) PROVE ApproxTypeOK'
  BY <1>10 DEF Reset
<1>11. ASSUME NEW t \in Workers, UnlockLocal(t) PROVE ApproxTypeOK'
  <2>0. amt[t] \in Nat
    BY Naturals
  <2>1. returned + amt[t] \in Nat
    BY <2>0
  <2> QED
    BY <1>11, <2>1 DEF UnlockLocal
<1>12. ASSUME NEW t \in Workers, GetLock(t) \/ GetLoad(t) \/ GetUnlock(t) PROVE ApproxTypeOK'
  BY <1>12 DEF GetLock, GetLoad, GetUnlock, MutexLock, MutexUnlock
<1>13. CASE Main
  BY <1>13 DEF Main
<1>14. CASE UNCHANGED approxVars
  BY <1>14 DEF approxVars
<1> QED
  BY <1>1, <1>2, <1>3, <1>4, <1>5, <1>6, <1>7, <1>8, <1>9, <1>10, <1>11, <1>12,
     <1>13, <1>14 DEF ApproxNext, Worker, ApproxTerminating

LEMMA LocksStep ==
  ASSUME ApproxTypeOK, Locks, Fresh, [ApproxNext]_approxVars
  PROVE  Locks'
<1> USE CpuType DEF ApproxTypeOK, Move, counter, outcome, InLocal, InGlobal
<1>1. LocalHolder'
  <2> USE DEF Locks, LocalHolder
  <2>1. ASSUME NEW t \in Workers, LockLocal(t) PROVE LocalHolder'
    BY <2>1 DEF LockLocal
  <2>2. ASSUME NEW t \in Workers, UnlockLocal(t) PROVE LocalHolder'
    BY <2>2 DEF UnlockLocal
  <2>3. ASSUME NEW t \in Workers,
               \/ CallCounter(t) \/ LoadLocal(t) \/ StoreLocal(t) \/ Test(t)
               \/ LockGlobal(t) \/ LoadGlobal(t) \/ StoreGlobal(t) \/ UnlockGlobal(t)
               \/ Reset(t) \/ GetLock(t) \/ GetLoad(t) \/ GetUnlock(t)
        PROVE  LocalHolder'
    <3>1. llock' = llock
      BY <2>3 DEF CallCounter, LoadLocal, StoreLocal, Test, LockGlobal, LoadGlobal,
         StoreGlobal, UnlockGlobal, Reset, GetLock, GetLoad, GetUnlock
    <3>2. \A u \in Workers : at'[u] \in InLocal <=> at[u] \in InLocal
      BY <2>3 DEF CallCounter, LoadLocal, StoreLocal, Test, LockGlobal, LoadGlobal,
         StoreGlobal, UnlockGlobal, Reset, GetLock, GetLoad, GetUnlock
    <3> QED
      BY <3>1, <3>2
  <2>4. CASE Main \/ UNCHANGED approxVars
    BY <2>4 DEF Main, approxVars
  <2> QED
    BY <2>1, <2>2, <2>3, <2>4 DEF ApproxNext, Worker, ApproxTerminating
<1>2. GlobalHolder'
  <2> USE DEF Locks, GlobalHolder
  <2>1. ASSUME NEW t \in Workers, LockGlobal(t) \/ GetLock(t) PROVE GlobalHolder'
    BY <2>1 DEF LockGlobal, GetLock, MutexLock
  <2>2. ASSUME NEW t \in Workers, UnlockGlobal(t) \/ GetUnlock(t) PROVE GlobalHolder'
    BY <2>2 DEF UnlockGlobal, GetUnlock, MutexUnlock
  <2>3. ASSUME NEW t \in Workers,
               \/ CallCounter(t) \/ LockLocal(t) \/ LoadLocal(t) \/ StoreLocal(t) \/ Test(t)
               \/ LoadGlobal(t) \/ StoreGlobal(t)
               \/ Reset(t) \/ UnlockLocal(t) \/ GetLoad(t)
        PROVE  GlobalHolder'
    <3>1. glock' = glock
      BY <2>3 DEF CallCounter, LockLocal, LoadLocal, StoreLocal, Test, LoadGlobal,
         StoreGlobal, Reset, UnlockLocal, GetLoad
    <3>2. \A u \in Workers : at'[u] \in InGlobal <=> at[u] \in InGlobal
      BY <2>3 DEF CallCounter, LockLocal, LoadLocal, StoreLocal, Test, LoadGlobal,
         StoreGlobal, Reset, UnlockLocal, GetLoad
    <3> QED
      BY <3>1, <3>2
  <2>4. CASE Main \/ UNCHANGED approxVars
    BY <2>4 DEF Main, approxVars
  <2> QED
    BY <2>1, <2>2, <2>3, <2>4 DEF ApproxNext, Worker, ApproxTerminating
<1> QED
  BY <1>1, <1>2 DEF Locks

\* What follows from the mutexes: who is alone where.
LEMMA Alone ==
  ASSUME Locks, NEW t \in Workers, NEW u \in Workers
  PROVE  /\ at[t] \in InLocal /\ at[u] \in InLocal /\ cpu(t) = cpu(u) => t = u
         /\ at[t] \in InGlobal /\ at[u] \in InGlobal => t = u
BY CpuType DEF Locks, LocalHolder, GlobalHolder

LEMMA FreshStep ==
  ASSUME ApproxTypeOK, Locks, Fresh, [ApproxNext]_approxVars
  PROVE  Fresh'
<1> USE CpuType DEF ApproxTypeOK, Fresh, Move, counter, outcome, InLocal
<1>1. ASSUME NEW t \in Workers, CallCounter(t) PROVE Fresh'
  BY <1>1 DEF CallCounter
<1>2. ASSUME NEW t \in Workers,
             LockLocal(t) \/ LockGlobal(t) \/ UnlockGlobal(t) \/ Test(t) \/ UnlockLocal(t)
             \/ GetLock(t) \/ GetLoad(t) \/ GetUnlock(t)
      PROVE Fresh'
  BY <1>2 DEF LockLocal, LockGlobal, UnlockGlobal, Test, UnlockLocal, GetLock,
     GetLoad, GetUnlock
<1>3. ASSUME NEW t \in Workers, LoadLocal(t) \/ LoadGlobal(t) PROVE Fresh'
  BY <1>3 DEF LoadLocal, LoadGlobal
<1>4. ASSUME NEW t \in Workers, StoreLocal(t) PROVE Fresh'
  <2>1. \A u \in Workers : at[u] = "store_local" /\ u # t => cpu(u) # cpu(t)
    BY <1>4, Alone DEF StoreLocal
  <2> QED
    BY <1>4, <2>1 DEF StoreLocal
<1>5. ASSUME NEW t \in Workers, StoreGlobal(t) PROVE Fresh'
  <2>1. \A u \in Workers : at[u] = "store_global" => u = t
    BY <1>5, Alone DEF StoreGlobal, InGlobal
  <2> QED
    BY <1>5, <2>1 DEF StoreGlobal
<1>6. ASSUME NEW t \in Workers, Reset(t) PROVE Fresh'
  <2>1. \A u \in Workers : at[u] = "store_local" /\ u # t => cpu(u) # cpu(t)
    BY <1>6, Alone DEF Reset
  <2> QED
    BY <1>6, <2>1 DEF Reset
<1>7. CASE Main \/ UNCHANGED approxVars
  BY <1>7 DEF Main, approxVars
<1> QED
  BY <1>1, <1>2, <1>3, <1>4, <1>5, <1>6, <1>7 DEF ApproxNext, Worker,
     ApproxTerminating

LEMMA KeptStep ==
  ASSUME ApproxTypeOK, Locks, Fresh, Kept, [ApproxNext]_approxVars
  PROVE  Kept'
<1> USE CpuType DEF ApproxTypeOK, Move, counter, outcome, Flushed, Unflushed, Kept
<1>0. threshold \in Nat \ {0} /\ \A t \in Workers : local[cpu(t)] \in Nat /\ amt[t] \in Nat
  BY ApproxAssumption, Naturals
<1>1. ASSUME NEW t \in Workers,
             CallCounter(t) \/ LockLocal(t) \/ LoadLocal(t) \/ UnlockLocal(t)
             \/ GetLock(t) \/ GetLoad(t) \/ GetUnlock(t)
      PROVE  Kept'
  <2>1. local' = local /\ \A u \in Workers : amt'[u] = amt[u] \/ ~Unflushed(u)
    BY <1>1 DEF CallCounter, LockLocal, LoadLocal, UnlockLocal, GetLock, GetLoad,
       GetUnlock
  <2>2. \A u \in Workers : at'[u] = at[u] \/
           ({at[u], at'[u]} \cap {"test", "lock_global", "load_global", "store_global",
                                  "unlock_global", "reset"} = {})
    BY <1>1 DEF CallCounter, LockLocal, LoadLocal, UnlockLocal, GetLock, GetLoad,
       GetUnlock
  <2> QED
    BY <2>1, <2>2
<1>2. ASSUME NEW t \in Workers, StoreLocal(t) PROVE Kept'
  <2>1. \A u \in Workers : u # t /\ at[u] \in InLocal => cpu(u) # cpu(t)
    BY <1>2, Alone DEF StoreLocal, InLocal
  <2>2. local[cpu(t)] < threshold
    BY <1>2, <2>1 DEF StoreLocal, InLocal
  <2>3. local' = [local EXCEPT ![cpu(t)] = local[cpu(t)] + amt[t]]
    BY <1>2 DEF StoreLocal, Fresh
  <2> QED
    BY <1>0, <1>2, <2>1, <2>2, <2>3 DEF StoreLocal, InLocal
<1>3. ASSUME NEW t \in Workers, Test(t) \/ LockGlobal(t) \/ LoadGlobal(t) PROVE Kept'
  BY <1>0, <1>3 DEF Test, LockGlobal, LoadGlobal
<1>4. ASSUME NEW t \in Workers, StoreGlobal(t) \/ UnlockGlobal(t) PROVE Kept'
  BY <1>4 DEF StoreGlobal, UnlockGlobal
<1>5. ASSUME NEW t \in Workers, Reset(t) PROVE Kept'
  <2>1. \A u \in Workers : u # t /\ at[u] \in InLocal => cpu(u) # cpu(t)
    BY <1>5, Alone DEF Reset, InLocal
  <2> QED
    BY <1>0, <1>5, <2>1 DEF Reset, InLocal
<1>6. CASE Main \/ UNCHANGED approxVars
  BY <1>6 DEF Main, approxVars
<1> QED
  BY <1>1, <1>2, <1>3, <1>4, <1>5, <1>6 DEF ApproxNext, Worker, ApproxTerminating

-----------------------------------------------------------------------------

\* The CPUs whose local part global does not hold, and the threads whose
\* update has been stored and has not returned.
Open == {c \in CPUs : ~Flushed(c)}
Stored == {"test", "lock_global", "load_global", "store_global", "unlock_global",
           "reset", "unlock_local"}
Storing == {t \in Workers : at[t] \in Stored}

\* Exact and InFlight, as sums the lemmas on Total speak of.
PendingSum == global + Total(local, Open)
Pending == Total(amt, Storing)

LEMMA SumsNow == Exact = PendingSum /\ InFlight = Pending
BY DEF Exact, InFlight, Total, Open, Storing, Stored, PendingSum, Pending

LEMMA Sums ==
  /\ Exact = global + Total(local, Open)
  /\ InFlight = Total(amt, Storing)
  /\ Exact' = global' + Total(local', Open')
  /\ InFlight' = Total(amt', Storing')
<1>1. (Exact = PendingSum /\ InFlight = Pending)'
  BY SumsNow, PTL
<1> QED
  BY <1>1, SumsNow DEF PendingSum, Pending

LEMMA Finite ==
  /\ IsFiniteSet(Open) /\ IsFiniteSet(Storing)
  /\ IsFiniteSet(Open') /\ IsFiniteSet(Storing')
<1>1. Open \subseteq CPUs /\ Open' \subseteq CPUs /\ Storing \subseteq Workers /\ Storing' \subseteq Workers
  BY DEF Open, Storing
<1> QED
  BY <1>1, FiniteCPUs, FS_Subset

LEMMA SumTypes ==
  ASSUME ApproxTypeOK
  PROVE  /\ \A c \in CPUs : local[c] \in Nat
         /\ \A t \in Workers : amt[t] \in Nat
         /\ Total(local, Open) \in Nat
         /\ Total(amt, Storing) \in Nat
<1>1. \A c \in CPUs : local[c] \in Nat
  BY DEF ApproxTypeOK
<1>2. \A t \in Workers : amt[t] \in Nat
  BY Naturals
<1>3. Open \subseteq CPUs /\ Storing \subseteq Workers
  BY DEF Open, Storing
<1> QED
  BY <1>1, <1>2, <1>3, FiniteCPUs, TotalPart

\* What each step does to the two sums: most do nothing to them.
Still(t) ==
  \/ CallCounter(t) \/ LockLocal(t) \/ LoadLocal(t) \/ Test(t) \/ LockGlobal(t)
  \/ LoadGlobal(t) \/ UnlockGlobal(t) \/ GetLock(t) \/ GetLoad(t) \/ GetUnlock(t)

LEMMA StillSums ==
  ASSUME ApproxTypeOK, Locks, Fresh, NEW t \in Workers, Still(t)
  PROVE  UNCHANGED <<Exact, InFlight, returned, global>>
<1> USE DEF Move, ApproxTypeOK, counter, outcome
<1>1. UNCHANGED <<local, returned, global>>
  BY DEF Still, CallCounter, LockLocal, LoadLocal, Test, LockGlobal, LoadGlobal,
         UnlockGlobal, GetLock, GetLoad, GetUnlock
<1>2. \A u \in Workers :
        at'[u] \in {"unlock_global", "reset"} <=> at[u] \in {"unlock_global", "reset"}
  BY DEF Still, CallCounter, LockLocal, LoadLocal, Test, LockGlobal, LoadGlobal,
         UnlockGlobal, GetLock, GetLoad, GetUnlock
<1>3. Open' = Open
  BY <1>2 DEF Open, Flushed
<1>4. \A u \in Workers : at'[u] \in Stored <=> at[u] \in Stored
  BY DEF Still, CallCounter, LockLocal, LoadLocal, Test, LockGlobal, LoadGlobal,
         UnlockGlobal, GetLock, GetLoad, GetUnlock, Stored
<1>5. Storing' = Storing
  BY <1>4 DEF Storing
<1>6. \A u \in Storing : amt'[u] = amt[u]
  BY DEF Still, CallCounter, LockLocal, LoadLocal, Test, LockGlobal, LoadGlobal,
         UnlockGlobal, GetLock, GetLoad, GetUnlock, Stored, Storing
<1>7. \A u \in Storing : amt[u] \in Int
  BY SumTypes DEF Storing
<1>8. Total(amt', Storing) = Total(amt, Storing)
  BY <1>6, <1>7, Finite, TotalSame
<1> QED
  BY <1>1, <1>3, <1>5, <1>8, Sums

\* The update of t now counts.
LEMMA StoreLocalSums ==
  ASSUME ApproxTypeOK, Locks, Fresh, NEW t \in Workers, StoreLocal(t)
  PROVE  /\ Exact' = Exact + amt[t]
         /\ InFlight' = InFlight + amt[t]
         /\ UNCHANGED <<returned, global>>
<1> USE DEF Move, ApproxTypeOK, Stored
<1>1. /\ at[t] = "store_local" /\ at' = [at EXCEPT ![t] = "test"]
      /\ UNCHANGED <<returned, global, amt>>
      /\ local' = [local EXCEPT ![cpu(t)] = local[cpu(t)] + amt[t]]
  BY DEF counter, outcome, StoreLocal, Fresh
<1>2. t \notin Storing /\ Storing' = Storing \cup {t}
  BY <1>1 DEF Storing
<1>3. \A x \in Storing \cup {t} : amt[x] \in Int
  BY Naturals DEF Storing
<1>4. Total(amt', Storing') = amt[t] + Total(amt, Storing)
  BY <1>1, <1>2, <1>3, Finite, TotalMore
<1>5. Open' = Open
  BY <1>1 DEF Open, Flushed
<1>6. cpu(t) \in Open
  <2>1. \A u \in Workers : at[u] \in InLocal /\ cpu(u) = cpu(t) => u = t
    BY <1>1, Alone DEF InLocal
  <2> QED
    BY <1>1, <2>1, CpuType DEF Open, Flushed, InLocal
<1> DEFINE rest == Open \ {cpu(t)}
<1>7. IsFiniteSet(rest)
  BY Finite, FS_Subset
<1>8. \A c \in Open : local[c] \in Int /\ local'[c] \in Int
  BY <1>1, SumTypes DEF Open
<1>9. /\ Total(local, Open) = local[cpu(t)] + Total(local, rest)
      /\ Total(local', Open) = local'[cpu(t)] + Total(local', rest)
  BY <1>6, <1>8, Finite, TotalLess
<1>10. Total(local', rest) = Total(local, rest)
  <2>1. \A c \in rest : local[c] \in Int /\ local'[c] = local[c]
    BY <1>1, <1>8 DEF Open
  <2> HIDE DEF rest
  <2> QED
    BY <1>7, <2>1, TotalSame
<1>11. Total(local, rest) \in Int
  BY <1>7, <1>8, TotalInt
<1>12. /\ local'[cpu(t)] = local[cpu(t)] + amt[t]
       /\ local[cpu(t)] \in Int /\ amt[t] \in Int /\ global \in Int
       /\ Total(amt, Storing) \in Int
  BY <1>1, CpuType, Naturals, SumTypes
<1> QED
  BY <1>1, <1>4, <1>5, <1>9, <1>10, <1>11, <1>12, Sums

\* Its CPU is counted by global instead.
LEMMA StoreGlobalSums ==
  ASSUME ApproxTypeOK, Locks, Fresh, NEW t \in Workers, StoreGlobal(t)
  PROVE  /\ Exact' = Exact /\ InFlight' = InFlight /\ returned' = returned
         /\ global' = global + local[cpu(t)]
<1> USE DEF Move, ApproxTypeOK, Stored
<1>1. /\ at[t] = "store_global" /\ at' = [at EXCEPT ![t] = "unlock_global"]
      /\ UNCHANGED <<returned, local, amt>>
      /\ global' = global + local[cpu(t)]
  BY DEF counter, outcome, StoreGlobal, Fresh
<1>2. Storing' = Storing
  BY <1>1 DEF Storing
<1>3. cpu(t) \in Open
  <2>1. \A u \in Workers : at[u] \in InLocal /\ cpu(u) = cpu(t) => u = t
    BY <1>1, Alone DEF InLocal
  <2> QED
    BY <1>1, <2>1, CpuType DEF Open, Flushed, InLocal
<1>4. Open' = Open \ {cpu(t)}
  BY <1>1 DEF Open, Flushed
<1>5. \A c \in Open : local[c] \in Int
  BY SumTypes DEF Open
<1>6. Total(local, Open) = local[cpu(t)] + Total(local, Open')
  <2>1. Total(local, Open) = local[cpu(t)] + Total(local, Open \ {cpu(t)})
    BY ONLY <1>3, <1>5, Finite, TotalLess
  <2> QED
    BY ONLY <1>4, <2>1
<1>7. Total(local, Open') \in Int /\ local[cpu(t)] \in Int /\ global \in Int
  BY <1>3, <1>4, <1>5, Finite, TotalInt
<1> QED
  BY <1>1, <1>2, <1>6, <1>7, Sums

\* Its CPU is empty, and counted again.
LEMMA ResetSums ==
  ASSUME ApproxTypeOK, Locks, Fresh, NEW t \in Workers, Reset(t)
  PROVE  UNCHANGED <<Exact, InFlight, returned, global>>
<1> USE DEF Move, ApproxTypeOK, Stored
<1>1. /\ at[t] = "reset" /\ at' = [at EXCEPT ![t] = "unlock_local"]
      /\ UNCHANGED <<returned, global, amt>>
      /\ local' = [local EXCEPT ![cpu(t)] = 0]
  BY DEF counter, outcome, Reset
<1>2. Storing' = Storing
  BY <1>1 DEF Storing
<1>3. cpu(t) \notin Open /\ Open' = Open \cup {cpu(t)}
  <2>1. \A u \in Workers : at[u] \in InLocal /\ cpu(u) = cpu(t) => u = t
    BY <1>1, Alone DEF InLocal
  <2>2. cpu(t) \notin Open
    BY <1>1 DEF Open, Flushed
  <2>3. cpu(t) \in Open'
    BY <1>1, <2>1, CpuType DEF Open, Flushed, InLocal
  <2>4. \A c \in CPUs \ {cpu(t)} : Flushed(c)' <=> Flushed(c)
    BY <1>1 DEF Flushed
  <2> QED
    BY <2>2, <2>3, <2>4, CpuType DEF Open
<1>4. \A c \in Open \cup {cpu(t)} : local'[c] \in Int
  BY <1>1, SumTypes, CpuType DEF Open
<1>5. Total(local', Open') = local'[cpu(t)] + Total(local', Open)
  BY <1>3, <1>4, Finite, TotalMore
<1>6. \A c \in Open : local[c] \in Int /\ local'[c] = local[c]
  BY <1>1, <1>3, SumTypes DEF Open
<1>7. Total(local', Open) = Total(local, Open) /\ Total(local, Open) \in Int
  BY <1>6, Finite, TotalSame, TotalInt
<1>8. local'[cpu(t)] = 0
  BY <1>1, CpuType
<1> QED
  BY <1>1, <1>2, <1>5, <1>7, <1>8, Sums

\* The update of t has returned.
LEMMA UnlockLocalSums ==
  ASSUME ApproxTypeOK, Locks, Fresh, NEW t \in Workers, UnlockLocal(t)
  PROVE  /\ Exact' = Exact /\ InFlight = InFlight' + amt[t]
         /\ returned' = returned + amt[t] /\ global' = global
<1> USE DEF Move, ApproxTypeOK, Stored
<1>1. /\ at[t] = "unlock_local" /\ at' = [at EXCEPT ![t] = "idle"]
      /\ UNCHANGED <<global, local, amt>> /\ returned' = returned + amt[t]
  BY DEF UnlockLocal
<1>2. t \in Storing /\ Storing' = Storing \ {t}
  BY <1>1 DEF Storing
<1>3. \A x \in Storing : amt[x] \in Int
  BY Naturals DEF Storing
<1>4. Total(amt, Storing) = amt[t] + Total(amt, Storing')
  BY <1>2, <1>3, Finite, TotalLess
<1>5. Open' = Open
  BY <1>1 DEF Open, Flushed
<1>6. Total(amt, Storing') \in Int /\ amt[t] \in Int
  BY <1>2, <1>3, Finite, TotalInt
<1> QED
  BY <1>1, <1>4, <1>5, <1>6, Sums

LEMMA ConservedStep ==
  ASSUME ApproxTypeOK, Locks, Fresh, Conserved, [ApproxNext]_approxVars
  PROVE  Conserved'
<1>1. /\ returned \in Int /\ InFlight \in Int /\ InFlight' \in Int
      /\ \A t \in Workers : amt[t] \in Int
  <2>1. ApproxTypeOK'
    BY TypeStep
  <2>2. Total(amt', Storing') \in Nat
    <3>1. \A t \in Workers : amt'[t] \in Nat
      <4>1. Amounts \cup {0} \subseteq Nat
        BY ApproxAssumption
      <4> QED
        BY <2>1, <4>1 DEF ApproxTypeOK
    <3>2. Storing' \subseteq Workers
      BY DEF Storing
    <3> QED
      BY <3>1, <3>2, FiniteCPUs, TotalPart
  <2> QED
    BY <2>2, SumTypes, Sums DEF ApproxTypeOK
<1>2. ASSUME NEW t \in Workers, Still(t) PROVE Conserved'
  BY <1>2, StillSums DEF Conserved
<1>3. ASSUME NEW t \in Workers, StoreLocal(t) PROVE Conserved'
  BY <1>1, <1>3, StoreLocalSums DEF Conserved
<1>4. ASSUME NEW t \in Workers, StoreGlobal(t) PROVE Conserved'
  BY <1>4, StoreGlobalSums DEF Conserved
<1>5. ASSUME NEW t \in Workers, Reset(t) PROVE Conserved'
  BY <1>5, ResetSums DEF Conserved
<1>6. ASSUME NEW t \in Workers, UnlockLocal(t) PROVE Conserved'
  BY <1>1, <1>6, UnlockLocalSums DEF Conserved
<1>7. CASE Main \/ UNCHANGED approxVars
  <2>1. UNCHANGED <<counter, at, made, amt, loaded, returned>>
    BY <1>7 DEF Main, approxVars, outcome
  <2> QED
    BY <2>1, Sums DEF Conserved, Open, Storing, Flushed, counter
<1> QED
  BY <1>2, <1>3, <1>4, <1>5, <1>6, <1>7 DEF ApproxNext, Worker, Still,
     ApproxTerminating

\* The threads that may have brought their CPU to threshold.
Late == {t \in Workers : Unflushed(t)}

\* What the local parts keep back, but for the updates that are late: by a
\* smallest set of CPUs that would keep back too much.
LEMMA KeptBack ==
  ASSUME ApproxTypeOK, Locks, Kept
  PROVE  Total(local, Open) <= Lag + Total(amt, Late)
<1> DEFINE k == threshold - 1
           Of(T) == {t \in Late : cpu(t) \in T}
           Good(T) == Total(local, Open \cap T) <= Cardinality(T) * k + Total(amt, Of(T))
           Bad == {T \in SUBSET CPUs : ~Good(T)}
<1>1. /\ k \in Nat /\ threshold = k + 1
      /\ \A c \in CPUs : local[c] \in Nat
      /\ \A t \in Workers : amt[t] \in Nat
  BY ApproxAssumption, SumTypes
<1>2. \A T : IsFiniteSet(Open \cap T) /\ IsFiniteSet(Of(T))
  <2>1. \A T : Open \cap T \subseteq CPUs /\ Of(T) \subseteq Workers
    BY DEF Open, Late
  <2> QED
    BY <2>1, FiniteCPUs, FS_Subset
<1>3. ASSUME Bad # {} PROVE FALSE
  <2>1. PICK T \in Bad : \A R \in SUBSET T : R # T => R \notin Bad
    <3>1. Bad \subseteq SUBSET CPUs
      OBVIOUS
    <3> HIDE DEF Bad
    <3> QED
      BY <1>3, <3>1, FiniteCPUs, SmallestSubset
  <2> HIDE DEF Of, k
  <2>2. T \in SUBSET CPUs /\ ~Good(T)
    OBVIOUS
  <2>3. PICK x : x \in T
    <3>1. Open \cap {} = {} /\ Of({}) = {}
      BY DEF Of
    <3>2. Cardinality({}) = 0
      BY FS_EmptySet
    <3>3. Total(local, {}) = 0 /\ Total(amt, {}) = 0
      BY TotalNothing
    <3>4. Cardinality({}) * k = 0
      BY <1>1, <3>2
    <3>5. Total(local, Open \cap {}) <= Cardinality({}) * k + Total(amt, Of({}))
      BY <3>1, <3>3, <3>4
    <3> QED
      BY <2>2, <3>5
  <2> DEFINE R == T \ {x}
  <2>4. Good(R)
    BY <2>1, <2>2, <2>3
  <2>5. Cardinality(T) = Cardinality(R) + 1 /\ Cardinality(R) \in Nat
    <3>1. IsFiniteSet(T)
      BY <2>2, FiniteCPUs, FS_Subset
    <3>2. IsFiniteSet(R) /\ Cardinality(R) = Cardinality(T) - 1
      BY <2>3, <3>1, FS_RemoveElement
    <3>3. Cardinality(R) \in Nat /\ Cardinality(T) \in Nat
      BY <3>1, <3>2, FS_CardinalityType
    <3> QED
      BY <3>2, <3>3
  <2>6. PICK p \in Nat : /\ Total(local, Open \cap R) <= p + Total(amt, Of(R))
                         /\ ~(Total(local, Open \cap T) <= p + k + Total(amt, Of(T)))
    <3>1. Cardinality(T) * k = Cardinality(R) * k + k /\ Cardinality(R) * k \in Nat
      BY <1>1, <2>5
    <3> QED
      BY <2>2, <2>4, <3>1
  <2> HIDE DEF Good
  <2>7. /\ Total(local, Open \cap R) \in Int
        /\ Total(amt, Of(R)) \in Int /\ Total(amt, Of(T)) \in Int
    <3>1. \A c \in Open \cap R : local[c] \in Int
      BY <1>1 DEF Open
    <3>2. \A t \in Late : amt[t] \in Int
      BY <1>1 DEF Late
    <3>3. Of(R) \subseteq Late /\ Of(T) \subseteq Late
      BY DEF Of
    <3> QED
      BY <1>2, <3>1, <3>2, <3>3, TotalInt
  <2>8. Total(amt, Of(R)) <= Total(amt, Of(T))
    <3>1. Of(R) \subseteq Of(T) /\ \A t \in Of(T) : amt[t] \in Nat
      BY <1>1 DEF Of, Late
    <3> QED
      BY <1>2, <3>1, TotalPart
  <2>9. CASE x \notin Open
    <3>1. Open \cap T = Open \cap R
      BY <2>9
    <3> QED
      BY <1>1, <2>6, <2>7, <2>8, <3>1
  <2>10. CASE x \in Open
    <3>1. Total(local, Open \cap T) = local[x] + Total(local, Open \cap R)
      <4>1. (Open \cap T) \ {x} = Open \cap R /\ x \in Open \cap T
        BY <2>3, <2>10
      <4>2. \A c \in Open \cap T : local[c] \in Int
        BY <1>1 DEF Open
      <4> QED
        BY <1>2, <4>1, <4>2, TotalLess
    <3>2. local[x] \in Nat
      BY <1>1, <2>10 DEF Open
    <3>3. CASE local[x] < threshold
      BY <1>1, <2>6, <2>7, <2>8, <3>1, <3>2, <3>3
    <3>4. CASE ~(local[x] < threshold)
      <4>1. PICK t \in Workers : cpu(t) = x /\ Unflushed(t)
        BY <2>10, <3>4 DEF Kept, Open
      <4>2. local[x] < threshold + amt[t]
        BY <4>1 DEF Kept
      <4>3. t \in Of(T) /\ Of(T) \ {t} = Of(R)
        <5>1. \A u \in Late : cpu(u) = x => u = t
          BY <4>1, Alone DEF Late, Unflushed, InLocal
        <5> QED
          BY <2>3, <4>1, <5>1 DEF Of, Late
      <4>4. Total(amt, Of(T)) = amt[t] + Total(amt, Of(R))
        <5>1. \A u \in Of(T) : amt[u] \in Int
          BY <1>1 DEF Of, Late
        <5>2. IsFiniteSet(Of(T)) /\ t \in Of(T)
          BY <1>2, <4>3
        <5>3. Total(amt, Of(T)) = amt[t] + Total(amt, Of(T) \ {t})
          BY <5>1, <5>2, TotalLess
        <5> QED
          BY <4>3, <5>3
      <4> QED
        BY <1>1, <2>6, <2>7, <3>1, <3>2, <4>1, <4>2, <4>4
    <3> QED
      BY <3>3, <3>4
  <2> QED
    BY <2>9, <2>10
<1>4. Good(CPUs)
  BY <1>3
<1>5. Open \cap CPUs = Open /\ Of(CPUs) = Late
  BY CpuType DEF Open, Late
<1>6. Cardinality(CPUs) = NUMCPUS
  BY ApproxAssumption, FS_Interval DEF CPUs
<1> QED
  BY <1>4, <1>5, <1>6 DEF Lag

\* An update returns when the counter is close enough.
LEMMA CloseEnough ==
  ASSUME ApproxTypeOK, Locks, Fresh, Kept, Conserved, NEW v \in Workers, UnlockLocal(v)
  PROVE  /\ returned' \in Nat /\ returned' <= Exact'
         /\ returned' - global' <= Lag
<1>1. /\ Exact' = Exact /\ InFlight = InFlight' + amt[v]
      /\ returned' = returned + amt[v] /\ global' = global
  BY UnlockLocalSums
<1>2. /\ Exact = returned + InFlight /\ returned \in Nat /\ global \in Nat
      /\ InFlight \in Nat /\ amt[v] \in Nat /\ Total(local, Open) \in Nat
      /\ Exact = global + Total(local, Open)
  BY Naturals, SumTypes, Sums DEF Conserved, ApproxTypeOK
<1>3. /\ \A t \in Workers : amt[t] \in Nat
      /\ Late \subseteq Storing \ {v} /\ IsFiniteSet(Storing \ {v})
      /\ InFlight' = Total(amt, Storing \ {v})
  <2>1. v \in Storing /\ Storing' = Storing \ {v} /\ amt' = amt
    BY DEF UnlockLocal, Storing, Stored, Move, ApproxTypeOK
  <2>2. Late \subseteq Storing \ {v}
    BY DEF Late, Unflushed, Storing, Stored, UnlockLocal, Move
  <2> QED
    BY <2>1, <2>2, Naturals, Sums, Finite
<1>4. Total(amt, Late) \in Nat /\ Total(amt, Late) <= InFlight'
  <2>1. \A t \in Storing \ {v} : amt[t] \in Nat
    BY <1>3 DEF Storing
  <2> QED
    BY <1>3, <2>1, TotalPart
<1>5. Total(local, Open) <= Lag + Total(amt, Late) /\ Lag \in Int
  BY KeptBack, ApproxAssumption DEF Lag
<1>6. InFlight' \in Nat
  <2>1. \A t \in Storing \ {v} : amt[t] \in Nat
    BY <1>3 DEF Storing
  <2> QED
    BY <1>3, <2>1, TotalPart
<1> QED
  BY <1>1, <1>2, <1>4, <1>5, <1>6

LEMMA ApproxStarts == ApproxInit => ApproxInv
<1> SUFFICES ASSUME ApproxInit PROVE ApproxInv
  OBVIOUS
<1>1. ApproxTypeOK /\ Locks /\ Fresh
  BY LocksInit
<1>2. Kept
  BY ApproxAssumption DEF ApproxInit, Kept, Unflushed
<1>3. Exact = 0 /\ InFlight = 0
  <2>1. \A c \in Open : local[c] = 0
    BY DEF ApproxInit, Open
  <2>2. \A t \in Storing : amt[t] = 0
    BY DEF ApproxInit, Storing
  <2>3. Total(local, Open) = 0 /\ Total(amt, Storing) = 0
    BY <2>1, <2>2, Finite, TotalZero
  <2> QED
    BY <2>3, Sums DEF ApproxInit
<1> QED
  BY <1>1, <1>2, <1>3 DEF ApproxInv, Locks, Conserved, Reported, ApproxInit

LEMMA ReportedStep ==
  ASSUME ApproxInv, [ApproxNext]_approxVars
  PROVE  Reported'
<1> USE DEF Reported
<1>1. ApproxTypeOK /\ Locks /\ Kept /\ Conserved /\ Reported
  BY DEF ApproxInv, Locks
<1>2. ASSUME NEW t \in Workers, Worker(t) PROVE Reported'
  <2>1. printed' = printed
    BY <1>2 DEF Worker, CallCounter, LockLocal, LoadLocal, StoreLocal, Test,
       LockGlobal,
       LoadGlobal, StoreGlobal, UnlockGlobal, Reset, UnlockLocal, GetLock, GetLoad,
       GetUnlock, outcome
  <2>2. ~(at[t] = "idle" /\ made[t] = MaxMade)
    <3>1. CASE CallCounter(t)
      <4>1. made[t] < MaxMade /\ MaxMade \in Nat
        BY <3>1, ApproxAssumption DEF CallCounter
      <4> QED
        BY <4>1
    <3>2. CASE at[t] # "idle"
      BY <3>2
    <3> QED
      BY <1>2, <3>1, <3>2 DEF Worker, LockLocal, LoadLocal, StoreLocal, Test,
         LockGlobal,
         LoadGlobal, StoreGlobal, UnlockGlobal, Reset, UnlockLocal, GetLock, GetLoad,
         GetUnlock, Move
  <2> QED
    BY <1>1, <2>1, <2>2
<1>3. CASE Main
  <2>1. Storing = {} /\ Late = {}
    BY <1>3 DEF Main, Storing, Stored, Late, Unflushed
  <2>2. InFlight = 0 /\ Total(amt, Late) = 0
    BY <2>1, TotalNothing, Sums
  <2>3. global + Total(local, Open) = returned
    BY <1>1, <2>2, Sums DEF Conserved, ApproxTypeOK
  <2>4. Total(local, Open) \in Nat /\ Total(local, Open) <= Lag /\ Lag \in Int
    <3>1. Total(local, Open) <= Lag + Total(amt, Late) /\ Lag \in Int
      BY <1>1, KeptBack, ApproxAssumption DEF Lag
    <3> QED
      BY <1>1, <2>2, <3>1, SumTypes
  <2>5. returned - global \in 0 .. Lag
    BY <1>1, <2>3, <2>4 DEF ApproxTypeOK
  <2> QED
    BY <1>3, <2>5 DEF Main
<1>4. CASE UNCHANGED approxVars
  BY <1>1, <1>4 DEF approxVars, outcome, Lag
<1> QED
  BY <1>2, <1>3, <1>4 DEF ApproxNext, ApproxTerminating

LEMMA ApproxStep == ApproxInv /\ [ApproxNext]_approxVars => ApproxInv'
<1> SUFFICES ASSUME ApproxInv, [ApproxNext]_approxVars PROVE ApproxInv'
  OBVIOUS
<1>1. ApproxTypeOK /\ Locks /\ Fresh /\ Kept /\ Conserved
  BY DEF ApproxInv, Locks
<1>2. ApproxTypeOK' /\ Locks' /\ Fresh' /\ Kept' /\ Conserved'
  BY <1>1, TypeStep, LocksStep, FreshStep, KeptStep, ConservedStep
<1> QED
  BY <1>2, ReportedStep DEF ApproxInv, Locks

LEMMA ApproxInductive == ApproxSpec => []ApproxInv
  BY ApproxStarts, ApproxStep, PTL DEF ApproxSpec

\* If all that have not returned wait, nobody holds glock, so they wait for
\* local mutexes; who holds one of those waits for nothing but glock.
LEMMA SomebodyWorks ==
  ASSUME ApproxInv
  PROVE  NobodyStuck
<1> USE DEF ApproxInv, ApproxTypeOK
<1>1. ASSUME \A t \in Workers : Returned(t) \/ Waiting(t) PROVE glock = {}
  <2> SUFFICES ASSUME NEW t \in glock PROVE FALSE
    OBVIOUS
  <2>1. t \in Workers /\ at[t] \in InGlobal
    BY DEF GlobalHolder
  <2> QED
    BY <1>1, <2>1 DEF Returned, Waiting, InGlobal
<1>2. ASSUME \A t \in Workers : Returned(t) \/ Waiting(t),
             NEW t \in Workers, ~Returned(t)
      PROVE  FALSE
  <2>1. at[t] = "lock_local" /\ llock[cpu(t)] # {}
    BY <1>1, <1>2 DEF Waiting
  <2>2. PICK u \in llock[cpu(t)] : u \in Workers /\ cpu(u) = cpu(t)
    BY <2>1, CpuType DEF LocalHolder
  <2>3. at[u] \in InLocal
    BY <2>2 DEF LocalHolder
  <2> QED
    BY <1>1, <1>2, <2>2, <2>3 DEF Returned, Waiting, InLocal
<1> QED
  BY <1>1, <1>2 DEF NobodyStuck

(***************************************************************************)
(* No amount is lost or counted twice, a local part is at threshold only   *)
(* while it is flushed, and the two kinds of mutex, one taken inside the   *)
(* other, leave nobody stuck.                                              *)
(***************************************************************************)
THEOREM ApproxInvariance == ApproxSpec => []ApproxSafe
<1>1. ApproxInv => ApproxSafe
  BY SomebodyWorks DEF ApproxSafe
<1> QED
  BY <1>1, ApproxInductive, PTL

(***************************************************************************)
(* What main prints (approximate_counter.c:85) is no more than the sum of  *)
(* the updates, and behind it by less than threshold per CPU.              *)
(***************************************************************************)
THEOREM PrintedClose ==
  ApproxSpec => [](printed # -1 => returned - printed \in 0 .. Lag)
<1>1. ApproxInv => (printed # -1 => returned - printed \in 0 .. Lag)
  BY DEF ApproxInv, Reported
<1> QED
  BY <1>1, ApproxInductive, PTL

(***************************************************************************)
(* approximate_counter.c implements a counter that lags: global never goes *)
(* back or ahead of the exact count, and an update returns only when       *)
(* global is close enough behind.                                          *)
(***************************************************************************)
THEOREM ApproxRefinement == ApproxSpec => ImplementsLaggingCounter
<1>1. ApproxInit => Lagging!Init
  <2> SUFFICES ASSUME ApproxInit PROVE Lagging!Init
    OBVIOUS
  <2>1. \A c \in Open : local[c] = 0
    BY DEF ApproxInit, Open
  <2>2. Exact = 0
    BY <2>1, Finite, TotalZero, Sums DEF ApproxInit
  <2> QED
    BY <2>2 DEF ApproxInit, Lagging!Init
<1>2. ApproxInv /\ [ApproxNext]_approxVars => [Lagging!Next]_<<Exact, returned, global>>
  <2> SUFFICES ASSUME ApproxInv, [ApproxNext]_approxVars
               PROVE  Lagging!Next \/ UNCHANGED <<Exact, returned, global>>
    OBVIOUS
  <2>1. ApproxTypeOK /\ Locks /\ Fresh /\ Kept /\ Conserved
    BY DEF ApproxInv, Locks
  <2>2. ASSUME NEW t \in Workers, Still(t) \/ Reset(t)
        PROVE  UNCHANGED <<Exact, returned, global>>
    BY <2>1, <2>2, StillSums, ResetSums
  <2>3. ASSUME NEW t \in Workers, StoreLocal(t) PROVE Lagging!Update
    <3>1. amt[t] \in Amounts
      BY <2>1, <2>3 DEF StoreLocal, Fresh, InLocal, Move
    <3> QED
      BY <2>1, <2>3, <3>1, StoreLocalSums DEF Lagging!Update
  <2>4. ASSUME NEW t \in Workers, StoreGlobal(t) PROVE Lagging!Publish
    <3>1. /\ Exact' = Exact /\ returned' = returned
          /\ global' = global + local[cpu(t)]
      BY <2>1, <2>4, StoreGlobalSums
    <3>2. local[cpu(t)] >= threshold
      BY <2>1, <2>4 DEF StoreGlobal, Kept, Unflushed, Move
    <3>3. Exact = global + Total(local, Open) /\ cpu(t) \in Open
      <4>1. \A u \in Workers : at[u] \in InLocal /\ cpu(u) = cpu(t) => u = t
        BY <2>1, <2>4, Alone DEF StoreGlobal, Move, InLocal
      <4> QED
        BY <2>4, <4>1, CpuType, Sums DEF Open, Flushed, StoreGlobal, Move, InLocal
    <3>4. Total(local, {cpu(t)}) <= Total(local, Open)
      <4>1. \A c \in Open : local[c] \in Nat
        BY <2>1, SumTypes DEF Open
      <4>2. {cpu(t)} \in SUBSET Open
        BY <3>3
      <4> QED
        BY <4>1, <4>2, Finite, TotalPart
    <3>5. Total(local, {cpu(t)}) = local[cpu(t)]
      <4>1. IsFiniteSet({}) /\ {} \cup {cpu(t)} = {cpu(t)} /\ local[cpu(t)] \in Int
        BY <2>1, FS_EmptySet, Naturals
      <4>2. Total(local, {} \cup {cpu(t)}) = local[cpu(t)] + Total(local, {})
        BY <4>1, TotalMore
      <4> QED
        BY <4>1, <4>2, TotalNothing
    <3>6. /\ local[cpu(t)] \in Nat /\ global \in Nat /\ Total(local, Open) \in Nat
          /\ threshold \in Nat \ {0}
      BY <2>1, Naturals, SumTypes, ApproxAssumption DEF ApproxTypeOK
    <3> QED
      BY <3>1, <3>2, <3>3, <3>4, <3>5, <3>6 DEF Lagging!Publish
  <2>5. ASSUME NEW t \in Workers, UnlockLocal(t) PROVE Lagging!Return
    <3>1. /\ Exact' = Exact /\ returned' = returned + amt[t] /\ global' = global
      BY <2>1, <2>5, UnlockLocalSums
    <3>2. /\ returned' \in Nat /\ returned' <= Exact' /\ returned' - global' <= Lag
      BY <2>1, <2>5, CloseEnough
    <3>3. amt[t] \in Amounts
      BY <2>1, <2>5 DEF UnlockLocal, Fresh, InLocal, Move
    <3>4. Exact \in Int
      BY <2>1, SumTypes, Sums DEF ApproxTypeOK
    <3> QED
      BY <3>1, <3>2, <3>3, <3>4 DEF Lagging!Return
  <2>6. CASE Main \/ UNCHANGED approxVars
    <3>1. UNCHANGED <<counter, at, made, amt, loaded, returned>>
      BY <2>6 DEF Main, approxVars, outcome
    <3> QED
      BY <3>1, Sums DEF Open, Flushed, counter
  <2> QED
    BY <2>2, <2>3, <2>4, <2>5, <2>6
    DEF ApproxNext, Worker, Still, ApproxTerminating, Lagging!Next
<1> QED
  BY <1>1, <1>2, ApproxInductive, PTL
  DEF ApproxSpec, ImplementsLaggingCounter, Lagging!Spec, Lagging!vars

-----------------------------------------------------------------------------
\* Where a thread is in a call, and how far it is in all.
Place(label) ==
  CASE label \in {"lock_local", "get_lock"} -> 0
    [] label \in {"load_local", "get_load"} -> 1
    [] label \in {"store_local", "get_unlock"} -> 2
    [] label = "test" -> 3
    [] label = "lock_global" -> 4
    [] label = "load_global" -> 5
    [] label = "store_global" -> 6
    [] label = "unlock_global" -> 7
    [] label = "reset" -> 8
    [] label = "unlock_local" -> 9
    [] label = "idle" -> 10

Places == [t \in Workers |-> 11 * made[t] + Place(at[t])]

Printed == IF printed = -1 THEN 0 ELSE 1

Progress == Total(Places, Workers) + Printed

LEMMA PlacesType ==
  ApproxTypeOK =>
    /\ \A t \in Workers : /\ Place(at[t]) \in 0 .. 10 /\ made[t] \in 0 .. MaxMade
                          /\ Places[t] \in 0 .. 11 * MaxMade + 10
    /\ Total(Places, Workers) \in 0 .. NUM_THREADS * (11 * MaxMade + 10)
<1> SUFFICES ASSUME ApproxTypeOK
             PROVE  /\ \A t \in Workers :
                         /\ Place(at[t]) \in 0 .. 10 /\ made[t] \in 0 .. MaxMade
                         /\ Places[t] \in 0 .. 11 * MaxMade + 10
                    /\ Total(Places, Workers)
                         \in 0 .. NUM_THREADS * (11 * MaxMade + 10)
  OBVIOUS
<1>1. ASSUME NEW t \in Workers
      PROVE  /\ Place(at[t]) \in 0 .. 10 /\ made[t] \in 0 .. MaxMade
             /\ Places[t] \in 0 .. 11 * MaxMade + 10
  <2>1. Place(at[t]) \in 0 .. 10
    <3>1. at[t] \in Labels
      BY DEF ApproxTypeOK
    <3> QED
      BY <3>1 DEF Place, Labels
  <2>2. made[t] \in 0 .. MaxMade /\ MaxMade \in Nat
    BY ApproxAssumption DEF ApproxTypeOK
  <2> QED
    BY <2>1, <2>2 DEF Places
<1>2. 11 * MaxMade + 10 \in Nat
  BY ApproxAssumption
<1>3. Cardinality(Workers) = NUM_THREADS
  BY ApproxAssumption, FS_Interval DEF Workers
<1>4. Total(Places, Workers)
        \in 0 .. Cardinality(Workers) * (11 * MaxMade + 10)
  BY <1>1, <1>2, FiniteCPUs, TotalWithin
<1> QED
  BY <1>1, <1>3, <1>4

LEMMA PlacesNext ==
  ApproxTypeOK' => \A t \in Workers : Place(at'[t]) \in 0 .. 10
<1>1. ApproxTypeOK => \A t \in Workers : Place(at[t]) \in 0 .. 10
  BY PlacesType
<1>2. (ApproxTypeOK => \A t \in Workers : Place(at[t]) \in 0 .. 10)'
  BY <1>1, PTL
<1> QED
  BY <1>2

LEMMA WorkerOnward ==
  ASSUME ApproxTypeOK, ApproxTypeOK', NEW t \in Workers, Worker(t)
  PROVE  Progress' > Progress
<1> USE DEF ApproxTypeOK, Move, counter, outcome
<1>1. /\ \/ made'[t] = made[t] /\ Place(at'[t]) > Place(at[t])
         \/ made'[t] = made[t] + 1
      /\ \A u \in Workers : u # t => at'[u] = at[u] /\ made'[u] = made[u]
      /\ printed' = printed
  <2>1. CASE CallCounter(t)
    BY <2>1 DEF CallCounter
  <2>2. CASE LockLocal(t) \/ LoadLocal(t) \/ StoreLocal(t) \/ Test(t)
             \/ LockGlobal(t) \/ LoadGlobal(t)
    BY <2>2
    DEF LockLocal, LoadLocal, StoreLocal, Test, LockGlobal, LoadGlobal, Place
  <2>3. CASE StoreGlobal(t) \/ UnlockGlobal(t) \/ Reset(t) \/ UnlockLocal(t)
             \/ GetLock(t) \/ GetLoad(t) \/ GetUnlock(t)
    BY <2>3
    DEF StoreGlobal, UnlockGlobal, Reset, UnlockLocal, GetLock, GetLoad,
        GetUnlock, Place
  <2> QED
    BY <2>1, <2>2, <2>3 DEF Worker
<1>2. /\ Place(at[t]) \in 0 .. 10 /\ Place(at'[t]) \in 0 .. 10
      /\ made[t] \in Int /\ made'[t] \in Int
  BY PlacesType, PlacesNext, ApproxAssumption
<1>3. Places'[t] \in Int /\ Places'[t] > Places[t]
  BY <1>1, <1>2 DEF Places
<1>4. /\ \A u \in Workers : Places[u] \in Int
      /\ \A u \in Workers : u # t => Places'[u] = Places[u]
  BY <1>1, PlacesType DEF Places
<1>5. Total(Places', Workers) - Total(Places, Workers) = Places'[t] - Places[t]
  BY <1>3, <1>4, FiniteCPUs, TotalChange
<1>6. Total(Places', Workers) \in Int /\ Total(Places, Workers) \in Int
  BY <1>3, <1>4, FiniteCPUs, TotalInt
<1> QED
  BY <1>1, <1>3, <1>4, <1>5, <1>6 DEF Progress, Printed

(***************************************************************************)
(* approximate_counter.c comes to an end: there are no more than eleven    *)
(* steps for each call of each thread (and the first from its start), and  *)
(* main's, whatever their order.  (That it does not end earlier is         *)
(* NobodyStuck.)                                                           *)
(***************************************************************************)
THEOREM ApproxStepsRunOut ==
  ApproxSpec =>
    /\ [](Progress \in 0 .. NUM_THREADS * (11 * MaxMade + 10) + 1)
    /\ [][Progress' > Progress]_approxVars
<1>1. ApproxTypeOK => Progress \in 0 .. NUM_THREADS * (11 * MaxMade + 10) + 1
  BY PlacesType, ApproxAssumption DEF Progress, Printed
<1>2. ApproxTypeOK /\ ApproxTypeOK' /\ [ApproxNext]_approxVars
        => [Progress' > Progress]_approxVars
  <2> SUFFICES ASSUME ApproxTypeOK, ApproxTypeOK', ApproxNext,
                      ~UNCHANGED approxVars
               PROVE  Progress' > Progress
    OBVIOUS
  <2>1. CASE Main
    <3>1. Places' = Places /\ printed = -1 /\ printed' # -1
      BY <2>1 DEF Main, Places, ApproxTypeOK
    <3> QED
      BY <3>1, PlacesType DEF Progress, Printed
  <2> QED
    BY <2>1, WorkerOnward DEF ApproxNext, ApproxTerminating
<1>3. ApproxInv => ApproxTypeOK
  BY DEF ApproxInv
<1> QED
  BY <1>1, <1>2, <1>3, ApproxInductive, PTL DEF ApproxSpec

-----------------------------------------------------------------------------
\* counter.c

LEMMA CounterInit == Init => IInv
  BY CounterAssumption
  DEF Init, IInv, TypeOK, MutualExclusion, Roles, FreshReads, BelowLimit,
      OnlyLoopers, InCritical, Threads

LEMMA CounterStep == IInv /\ [Next]_vars => IInv'
<1> SUFFICES ASSUME IInv, [Next]_vars PROVE IInv'
  OBVIOUS
<1> USE CounterAssumption DEF IInv, TypeOK, MutualExclusion, Roles,
        FreshReads, BelowLimit, OnlyLoopers, InCritical, Threads, Move
<1>1. ASSUME NEW t \in Threads, Call(t) PROVE IInv'
  BY <1>1 DEF Call
<1>2. ASSUME NEW t \in Threads, Lock(t) PROVE IInv'
  BY <1>2 DEF Lock, MutexLock
<1>3. ASSUME NEW t \in Threads, Check(t) PROVE IInv'
  BY <1>3 DEF Check
<1>4. ASSUME NEW t \in Threads, Load(t) PROVE IInv'
  BY <1>4 DEF Load
<1>5. ASSUME NEW t \in Threads, Store(t) PROVE IInv'
  BY <1>5 DEF Store, Amount
<1>6. ASSUME NEW t \in Threads, Unlock(t) PROVE IInv'
  BY <1>6 DEF Unlock, MutexUnlock
<1>7. ASSUME NEW t \in Threads, Leave(t) PROVE IInv'
  BY <1>7 DEF Leave, MutexUnlock
<1>8. ASSUME UNCHANGED vars PROVE IInv'
  BY <1>8 DEF vars
<1> QED
  BY <1>1, <1>2, <1>3, <1>4, <1>5, <1>6, <1>7, <1>8
  DEF Next, Step, Terminating

LEMMA CounterInductive == Spec => []IInv
BY CounterInit, CounterStep, PTL DEF Spec

\* Who holds the mutex is inside, and nothing is waited for there.
LEMMA HolderGoesOn == IInv => MutexComesFree
<1> SUFFICES ASSUME IInv, ~Finished PROVE MutexComesFree
  BY DEF MutexComesFree
<1> USE DEF IInv, TypeOK, Threads, MutexComesFree
<1>1. PICK t \in Threads : pc[t] \notin {"idle", "done"}
  BY CounterAssumption DEF Finished, Roles
<1>2. CASE mut = {}
  BY <1>1, <1>2
<1>3. CASE mut # {}
  <2>1. PICK u \in Threads : u \in mut
    BY <1>3
  <2> QED
    BY <2>1 DEF MutualExclusion, InCritical
<1> QED
  BY <1>2, <1>3

(***************************************************************************)
(* The mutex of counter.c makes each ++c->value and --c->value one step,   *)
(* and never keeps all threads waiting.                                    *)
(***************************************************************************)
THEOREM Invariance == Spec => []Inv
<1>1. IInv => Inv
  BY HolderGoesOn DEF Inv
<1> QED
  BY <1>1, CounterInductive, PTL

(***************************************************************************)
(* However many threads test_for_n_threads starts, and whatever LIMIT is,  *)
(* the counter is LIMIT when all of them have left incloop.                *)
(***************************************************************************)
THEOREM LimitReached == Spec => []ReachesLimit
<1>1. IInv => ReachesLimit
  <2> SUFFICES ASSUME IInv, OnlyLoopers, Loopers # {}, Finished
               PROVE value = Limit
    BY DEF ReachesLimit
  <2>1. PICK t \in Loopers : pc[t] = "done"
    BY DEF Finished
  <2> QED
    BY <2>1 DEF IInv, BelowLimit, Threads
<1> QED
  BY <1>1, CounterInductive, PTL

(***************************************************************************)
(* counter.c implements the atomic counter: the load or the store made     *)
(* under the mutex is the instant at which a call takes effect.            *)
(***************************************************************************)
THEOREM Refinement == Spec => ImplementsAtomicCounter
<1> USE DEF Threads
<1>1. Init => Atomic!Init
  BY CounterAssumption DEF Init, Phase, Atomic!Init
<1>2. IInv /\ [Next]_vars => [Atomic!Next]_<<value, op, Phase, rv>>
  <2> SUFFICES ASSUME IInv, [Next]_vars
               PROVE  Atomic!Next \/ UNCHANGED <<value, op, Phase, rv>>
    OBVIOUS
  <2> USE DEF IInv, TypeOK, Roles, Move, Phase, Atomic!Go
  <2>1. ASSUME NEW t \in Clients, Call(t) PROVE Atomic!Call(t)
    BY <2>1 DEF Call, Atomic!Call
  <2>2. ASSUME NEW t \in Threads, Lock(t)
        PROVE  UNCHANGED <<value, op, Phase, rv>>
    BY <2>2 DEF Lock
  <2>3. ASSUME NEW t \in Threads, Check(t)
        PROVE  t \in Loopers /\ (Atomic!Leave(t) \/ UNCHANGED <<value, op, Phase, rv>>)
    BY <2>3, CounterAssumption DEF Check, Atomic!Leave
  <2>4. ASSUME NEW t \in Threads, Load(t)
        PROVE  \/ t \in Clients /\ Atomic!Effect(t)
               \/ UNCHANGED <<value, op, Phase, rv>>
    <3>1. CASE op[t] = "get"
      BY <2>4, <3>1 DEF Load, Atomic!Effect
    <3>2. CASE op[t] # "get"
      BY <2>4, <3>2 DEF Load
    <3> QED
      BY <3>1, <3>2
  <2>5. ASSUME NEW t \in Loopers, Store(t) PROVE Atomic!Turn(t)
    BY <2>5 DEF Store, Amount, FreshReads, Atomic!Turn
  <2>6. ASSUME NEW t \in Clients, Store(t) PROVE Atomic!Effect(t)
    <3>1. op[t] \in {"inc", "dec"} /\ reg[t] = value
      BY <2>6, CounterAssumption DEF Store, FreshReads
    <3>2. /\ value' = reg[t] + Amount(op[t])
          /\ rv' = [rv EXCEPT ![t] = value']
          /\ op' = op
      BY <2>6, <3>1 DEF Store
    <3>3. /\ op[t] = "inc" => value' = value + 1
          /\ op[t] = "dec" => value' = value - 1
      BY <3>1, <3>2 DEF Amount
    <3>4. Atomic!Go(t, "called", "answered")
      BY <2>6 DEF Store
    <3> QED
      BY <3>1, <3>2, <3>3, <3>4 DEF Atomic!Effect
  <2>7. ASSUME NEW t \in Loopers, Unlock(t) PROVE Atomic!NextTurn(t)
    BY <2>7 DEF Unlock, Atomic!NextTurn
  <2>8. ASSUME NEW t \in Clients, Unlock(t) PROVE Atomic!Return(t)
    BY <2>8, CounterAssumption DEF Unlock, Atomic!Return
  <2>9. ASSUME NEW t \in Threads, Leave(t)
        PROVE  UNCHANGED <<value, op, Phase, rv>>
    BY <2>9 DEF Leave
  <2>10. CASE UNCHANGED vars
    BY <2>10 DEF vars
  <2>11. ASSUME NEW t \in Threads, Call(t) PROVE t \in Clients
    BY <2>11 DEF Call
  <2> QED
    BY <2>1, <2>2, <2>3, <2>4, <2>5, <2>6, <2>7, <2>8, <2>9, <2>10, <2>11
    DEF Next, Step, Terminating, Atomic!Next
<1> QED
  BY <1>1, <1>2, CounterInductive, PTL
  DEF Spec, ImplementsAtomicCounter, Atomic!Spec, Atomic!vars

\* The calls of each client that have taken effect.
Made ==
  [t \in Clients |->
     IF pc[t] \in {"lock", "load", "store"} THEN calls[t] - 1 ELSE calls[t]]

\* The loopers do not pass Limit, and each call adds 1 at most.
ValueBelow ==
  /\ \A t \in Clients : Made[t] \in 0 .. MaxCalls
  /\ value <= Limit + Total(Made, Clients)

LEMMA ValueBelowInit == Init => ValueBelow
<1> SUFFICES ASSUME Init PROVE ValueBelow
  OBVIOUS
<1>1. \A t \in Clients : Made[t] = 0
  BY CounterAssumption DEF Init, Made, Threads
<1>2. Total(Made, Clients) = 0
  BY <1>1, CounterAssumption, TotalZero
<1> QED
  BY <1>1, <1>2, CounterAssumption DEF Init, ValueBelow

LEMMA ValueBelowStep ==
  ASSUME IInv, IInv', ValueBelow, [Next]_vars
  PROVE  ValueBelow'
<1> USE CounterAssumption
<1>1. \A t \in Clients : Made[t] \in 0 .. MaxCalls
  BY DEF ValueBelow
<1>2. Total(Made, Clients) \in Nat /\ value \in Int /\ value' \in Int
  <2>1. Total(Made, Clients) \in 0 .. Cardinality(Clients) * MaxCalls
    BY <1>1, TotalWithin
  <2> QED
    BY <2>1 DEF IInv, TypeOK
<1>3. ASSUME NEW t \in Loopers, Step(t) PROVE ValueBelow'
  <2>1. \A u \in Clients : pc'[u] = pc[u] /\ calls'[u] = calls[u]
    BY <1>3
    DEF Step, Lock, Check, Load, Store, Unlock, Leave, Move, IInv, TypeOK, Threads
  <2>2. Made' = Made
    BY <2>1 DEF Made
  <2>3. value' = value \/ value' <= Limit
    <3>1. CASE Store(t)
      BY <3>1 DEF Store, Move, Amount, IInv, TypeOK, Roles, FreshReads, Threads
    <3>2. CASE ~Store(t)
      BY <1>3, <3>2 DEF Step, Lock, Check, Load, Unlock, Leave
    <3> QED
      BY <3>1, <3>2
  <2> QED
    BY <1>1, <1>2, <2>2, <2>3 DEF ValueBelow
<1>4. ASSUME NEW t \in Clients, Call(t) \/ Step(t) PROVE ValueBelow'
  <2>1. /\ \A u \in Clients : u # t => pc'[u] = pc[u] /\ calls'[u] = calls[u]
        /\ Made'[t] \in 0 .. MaxCalls
        /\ value' - value <= Made'[t] - Made[t]
    <3> USE DEF Move, IInv, TypeOK, Threads, Made
    <3>0. Made[t] \in 0 .. MaxCalls /\ calls[t] \in 0 .. MaxCalls
      BY <1>1
    <3>1. CASE Call(t)
      BY <3>0, <3>1 DEF Call
    <3>2. CASE Lock(t)
      BY <3>0, <3>2 DEF Lock, Roles
    <3>3. CASE Load(t)
      BY <3>0, <3>3 DEF Load
    <3>4. CASE Store(t)
      <4>1. value' - value <= 1
        BY <3>4 DEF Store, Amount, FreshReads
      <4> QED
        BY <3>0, <3>4, <4>1 DEF Store
    <3>5. CASE Unlock(t)
      BY <3>0, <3>5 DEF Unlock, Roles
    <3>6. CASE Check(t) \/ Leave(t)
      BY <3>6 DEF Check, Leave, Roles
    <3> QED
      BY <1>4, <3>1, <3>2, <3>3, <3>4, <3>5, <3>6 DEF Step
  <2>2. \A u \in Clients : u # t => Made'[u] = Made[u]
    BY <2>1 DEF Made
  <2>3. \A u \in Clients : Made'[u] \in 0 .. MaxCalls
    BY <1>1, <2>1, <2>2
  <2>4. Total(Made', Clients) - Total(Made, Clients) = Made'[t] - Made[t]
    BY <1>1, <2>2, <2>3, TotalChange
  <2>5. Total(Made', Clients) \in Int
    BY <2>3, TotalInt
  <2>6. Made[t] \in Int /\ Made'[t] \in Int
    BY <1>1, <2>3
  <2> QED
    BY <1>2, <2>1, <2>3, <2>4, <2>5, <2>6 DEF ValueBelow
<1>5. CASE UNCHANGED vars
  BY <1>5 DEF vars, ValueBelow, Made
<1> QED
  BY <1>3, <1>4, <1>5 DEF Next, Terminating, Threads, Call

\* How far t is in its round of incloop or in its call.  A round ends one
\* higher, for it has increased value; a call of dec ends lower than it began,
\* which the call made is there to pay for.
Within(t) ==
  IF t \in Loopers
  THEN CASE pc[t] = "unlock" -> 0
         [] pc[t] = "lock" -> 1
         [] pc[t] = "check" -> 2
         [] pc[t] \in {"load", "leave"} -> 3
         [] pc[t] \in {"store", "done"} -> 4
  ELSE CASE pc[t] = "lock" -> 0
         [] pc[t] = "load" -> 1
         [] pc[t] = "store" -> 2
         [] pc[t] = "unlock" -> 8
         [] pc[t] = "idle" -> 9

Ahead == [t \in Threads |-> 10 * calls[t] + Within(t)]

Work == 5 * value + Total(Ahead, Threads)

LEMMA AheadType ==
  IInv => \A t \in Threads : Ahead[t] \in 0 .. 10 * MaxCalls + 9
<1> SUFFICES ASSUME IInv, NEW t \in Threads
             PROVE  Ahead[t] \in 0 .. 10 * MaxCalls + 9
  OBVIOUS
<1>1. calls[t] \in 0 .. MaxCalls /\ MaxCalls \in Nat
  BY CounterAssumption DEF IInv, TypeOK
<1>2. Within(t) \in 0 .. 9
  <2>1. pc[t] \in {"idle", "lock", "check", "load", "store", "unlock", "leave", "done"}
    BY DEF IInv, TypeOK
  <2>2. CASE t \in Loopers
    BY <2>1, <2>2, CounterAssumption DEF IInv, Roles, Within
  <2>3. CASE t \notin Loopers
    BY <2>1, <2>3 DEF IInv, Roles, Within
  <2> QED
    BY <2>2, <2>3
<1> QED
  BY <1>1, <1>2 DEF Ahead

LEMMA AheadNext ==
  IInv' => \A t \in Threads : Ahead'[t] \in 0 .. 10 * MaxCalls + 9
<1>1. (IInv => \A t \in Threads : Ahead[t] \in 0 .. 10 * MaxCalls + 9)'
  BY AheadType, PTL
<1> QED
  BY <1>1

LEMMA ThreadsFinite == IsFiniteSet(Threads)
  BY CounterAssumption, FS_Union DEF Threads

LEMMA CounterOnward ==
  ASSUME IInv, IInv', NEW t \in Threads, Call(t) \/ Step(t)
  PROVE  Work' > Work
<1>1. \A u \in Threads : Ahead[u] \in Int /\ Ahead'[u] \in Int
  BY AheadType, AheadNext, CounterAssumption
<1>2. \A u \in Threads : u # t => Ahead'[u] = Ahead[u]
  <2>1. \A u \in Threads : u # t => pc'[u] = pc[u] /\ calls'[u] = calls[u]
    BY DEF Step, Call, Lock, Check, Load, Store, Unlock, Leave, Move, IInv, TypeOK
  <2>2. ASSUME NEW u \in Threads, u # t PROVE Ahead'[u] = Ahead[u]
    <3>1. pc'[u] = pc[u] /\ calls'[u] = calls[u]
      BY <2>1, <2>2
    <3>2. Within(u)' = Within(u)
      BY <3>1 DEF Within
    <3> QED
      BY <3>1, <3>2 DEF Ahead
  <2> QED
    BY <2>2
<1>3. 5 * (value' - value) + (Ahead'[t] - Ahead[t]) >= 1
  <2> USE DEF Move, IInv, TypeOK, Ahead, Within
  <2>0. value \in Int /\ value' \in Int /\ calls[t] \in Int
    OBVIOUS
  <2>1. CASE Call(t)
    BY <2>0, <2>1, CounterAssumption DEF Call
  <2>2. CASE Lock(t)
    BY <2>0, <2>2 DEF Lock, Roles
  <2>3. CASE Check(t)
    BY <2>0, <2>3 DEF Check, Roles
  <2>4. CASE Load(t)
    BY <2>0, <2>4 DEF Load, Roles
  <2>5. CASE Store(t)
    <3>1. CASE t \in Loopers
      <4>1. value' = value + 1
        BY <2>5, <3>1 DEF Store, Amount, Roles, FreshReads
      <4> QED
        BY <2>0, <2>5, <3>1, <4>1 DEF Store
    <3>2. CASE t \notin Loopers
      <4>1. value' - value >= -1
        BY <2>5 DEF Store, Amount, FreshReads
      <4> QED
        BY <2>0, <2>5, <3>2, <4>1 DEF Store
    <3> QED
      BY <3>1, <3>2
  <2>6. CASE Unlock(t)
    BY <2>0, <2>6 DEF Unlock, Roles
  <2>7. CASE Leave(t)
    BY <2>0, <2>7 DEF Leave, Roles
  <2> QED
    BY <2>1, <2>2, <2>3, <2>4, <2>5, <2>6, <2>7 DEF Step
<1>4. Total(Ahead', Threads) - Total(Ahead, Threads) = Ahead'[t] - Ahead[t]
  BY <1>1, <1>2, ThreadsFinite, TotalChange
<1>5. Total(Ahead', Threads) \in Int /\ Total(Ahead, Threads) \in Int
  BY <1>1, ThreadsFinite, TotalInt
<1> QED
  BY <1>1, <1>3, <1>4, <1>5 DEF Work, IInv, TypeOK

(***************************************************************************)
(* counter.c comes to an end, whatever the order of its steps: each does   *)
(* some of the work, of which there is a bounded amount, though a call of  *)
(* dec makes the loopers go round once more.  (That it does not end        *)
(* earlier is MutexComesFree.)                                             *)
(***************************************************************************)
THEOREM CounterStepsRunOut ==
  Spec =>
    /\ [](Work <= 5 * (Limit + MaxCalls * Cardinality(Clients))
                    + (10 * MaxCalls + 9) * Cardinality(Threads))
    /\ [][Work' > Work]_vars
<1>1. IInv /\ ValueBelow =>
        Work <= 5 * (Limit + MaxCalls * Cardinality(Clients))
                 + (10 * MaxCalls + 9) * Cardinality(Threads)
  <2> SUFFICES ASSUME IInv, ValueBelow
               PROVE  Work <= 5 * (Limit + MaxCalls * Cardinality(Clients))
                               + (10 * MaxCalls + 9) * Cardinality(Threads)
    OBVIOUS
  <2>1. Total(Made, Clients) \in 0 .. Cardinality(Clients) * MaxCalls
    BY CounterAssumption, TotalWithin DEF ValueBelow
  <2>2. 10 * MaxCalls + 9 \in Nat
    BY CounterAssumption
  <2>3. Total(Ahead, Threads) \in 0 .. Cardinality(Threads) * (10 * MaxCalls + 9)
    BY <2>2, AheadType, ThreadsFinite, TotalWithin
  <2>4. Cardinality(Clients) \in Nat /\ Cardinality(Threads) \in Nat
    BY CounterAssumption, ThreadsFinite, CountIsNat
  <2>5. value \in Int /\ value <= Limit + Total(Made, Clients)
    BY DEF IInv, TypeOK, ValueBelow
  <2> QED
    BY <2>1, <2>2, <2>3, <2>4, <2>5, CounterAssumption DEF Work
<1>2. IInv /\ IInv' /\ [Next]_vars => [Work' > Work]_vars
  BY CounterOnward DEF Next, Terminating
<1>3. IInv /\ IInv' /\ ValueBelow /\ [Next]_vars => ValueBelow'
  BY ValueBelowStep
<1> QED
  BY <1>1, <1>2, <1>3, ValueBelowInit, CounterInductive, PTL DEF Spec

-----------------------------------------------------------------------------
\* fifo_seqnum_server.c and fifo_seqnum_client.c

\* The invariant holds at first.
LEMMA SeqnumStarts == SeqnumInit => SeqnumInv
<1> SUFFICES ASSUME SeqnumInit PROVE SeqnumInv
  OBVIOUS
<1> USE FifoAssumption DEF SeqnumInit
<1>1. requests \in Seq(Askers)
  OBVIOUS
<1>2. SeqnumTypeOK
  <2>1. 0 \in 0 .. MaxStops + 1 /\ 0 \in 0 .. MaxStops /\ 0 \in Int
    OBVIOUS
  <2>2. file \in Int \cup {None} /\ req \in Askers \cup {None}
    OBVIOUS
  <2>3. /\ place \in [Askers -> {"mkfifo", "open_server", "opening", "write", "wrote",
                         "open_own", "read", "printed", "ended"}]
        /\ fifo \in [Askers -> 0 .. MaxStops + 1]
        /\ resp \in [Askers -> Int \cup {None}]
    BY <2>1
  <2> QED
    BY <1>1, <2>1, <2>2, <2>3 DEF SeqnumTypeOK
<1>3. ServerKnows
  BY DEF ServerKnows
<1>4. NumbersUniqueUnlessTorn
  BY DEF NumbersUniqueUnlessTorn, Answered
<1> QED
  BY <1>2, <1>3, <1>4 DEF SeqnumInv

\* A step that gives out nothing keeps the numbers apart.
LEMMA Unanswering ==
  ASSUME SeqnumInv,
         NextNumber' = NextNumber, UNCHANGED <<resp, seqLen>>, torn => torn'
  PROVE  NumbersUniqueUnlessTorn'
BY DEF SeqnumInv, NumbersUniqueUnlessTorn, Answered, Numbers, SteppedBack

\* One step for each action; what matters happens in Reply and in End.
LEMMA SeqnumStep ==
  ASSUME SeqnumInv, [SeqnumNext]_seqnumVars
  PROVE  SeqnumInv'
<1> USE FifoAssumption DEF server, client, history
<1>1. CASE Start
  <2>1. SeqnumTypeOK'
    BY <1>1 DEF SeqnumInv, SeqnumTypeOK, Start
  <2>2. NextNumber' = NextNumber
    BY <1>1 DEF Start, NextNumber
  <2>3. NumbersUniqueUnlessTorn'
    BY <1>1, <2>2, Unanswering DEF Start
  <2>4. ServerKnows'
    BY <1>1 DEF Start, ServerKnows
  <2> QED
    BY <2>1, <2>3, <2>4 DEF SeqnumInv
<1>2. CASE ReadRequest
  <2>1. Head(requests) \in Askers /\ Tail(requests) \in Seq(Askers)
    BY <1>2 DEF SeqnumInv, SeqnumTypeOK, ReadRequest
  <2>2. SeqnumTypeOK'
    BY <1>2, <2>1 DEF SeqnumInv, SeqnumTypeOK, ReadRequest
  <2>3. NextNumber' = NextNumber
    BY <1>2 DEF ReadRequest, NextNumber
  <2>4. ServerKnows'
    BY <1>2, <2>1 DEF SeqnumInv, ReadRequest, ServerKnows
  <2> QED
    BY <1>2, <2>2, <2>3, <2>4, Unanswering DEF SeqnumInv, ReadRequest
<1>3. CASE OpenClient
  <2>0. req \in Askers
    BY <1>3 DEF SeqnumInv, ServerKnows, OpenClient
  <2>1. SeqnumTypeOK'
    BY <1>3, <2>0 DEF SeqnumInv, SeqnumTypeOK, OpenClient
  <2>3. NextNumber' = NextNumber
    BY <1>3 DEF OpenClient, NextNumber
  <2>4. ServerKnows'
    BY <1>3 DEF SeqnumInv, OpenClient, ServerKnows
  <2> QED
    BY <1>3, <2>1, <2>3, <2>4, Unanswering DEF SeqnumInv, OpenClient
<1>4. CASE Reply
  <2>0. req \in Askers
    BY <1>4 DEF SeqnumInv, ServerKnows, Reply
  <2>1. SeqnumTypeOK'
    BY <1>4, <2>0 DEF SeqnumInv, SeqnumTypeOK, Reply
  <2>2. ServerKnows'
    BY <1>4, <2>0 DEF SeqnumInv, ServerKnows, Reply
  <2>3. seqNum \in Int /\ seqLen[req] \in Int /\ resp \in [Askers -> Int \cup {None}]
    BY <2>0 DEF SeqnumInv, SeqnumTypeOK
  <2>4. /\ NextNumber = seqNum
        /\ NextNumber' = seqNum + seqLen[req]
    BY <1>4 DEF Reply, NextNumber
  <2>5. resp' = [resp EXCEPT ![req] = seqNum] /\ seqLen' = seqLen /\ torn' = torn
    BY <1>4 DEF Reply
  <2>6. ASSUME ~torn, ~SteppedBack'
        PROVE /\ \A c \in Answered' : \A n \in Numbers(c)' : n < NextNumber'
              /\ \A c, d \in Answered' : c # d => Numbers(c)' \cap Numbers(d)' = {}
    <3>0. ~SteppedBack /\ seqLen[req] >= 0
      <4>1. Answered \subseteq Answered' /\ req \in Answered'
        BY <2>0, <2>3, <2>5, FifoAssumption DEF Answered
      <4>2. \A c \in Answered' : ~(seqLen[c] < 0)
        BY <2>5, <2>6 DEF SteppedBack
      <4> QED
        BY <2>3, <4>1, <4>2 DEF SteppedBack
    <3>1. \A c \in Answered : \A n \in Numbers(c) : n < seqNum
      BY <2>6, <2>4, <3>0 DEF SeqnumInv, NumbersUniqueUnlessTorn
    <3>2. \A c, d \in Answered : c # d => Numbers(c) \cap Numbers(d) = {}
      BY <2>6, <3>0 DEF SeqnumInv, NumbersUniqueUnlessTorn
    <3>3. PICK r \in Askers : r = req
      BY <2>0
    <3>4. Numbers(r)' = seqNum .. seqNum + seqLen[req] - 1
      BY <2>3, <2>5, <3>3 DEF Numbers
    <3>5. \A c \in Answered' : c = r \/ (c \in Answered /\ Numbers(c)' = Numbers(c))
      BY <2>3, <2>5, <3>3 DEF Answered, Numbers
    <3>6. \A c \in Answered : Numbers(c) \subseteq Int
      BY DEF Numbers
    <3>7. ASSUME NEW c \in Answered' PROVE \A n \in Numbers(c)' : n < NextNumber'
      <4>1. CASE c = r
        BY <2>3, <2>4, <3>0, <3>4, <4>1
      <4>2. CASE c \in Answered /\ Numbers(c)' = Numbers(c)
        BY <2>3, <2>4, <3>0, <3>1, <3>6, <4>2
      <4> QED
        BY <3>5, <4>1, <4>2
    <3>8. ASSUME NEW c \in Answered', NEW d \in Answered', c # d
          PROVE  Numbers(c)' \cap Numbers(d)' = {}
      <4>1. \A e \in Answered : Numbers(r)' \cap Numbers(e) = {}
        BY <2>3, <3>1, <3>4, <3>6
      <4> QED
        BY <3>2, <3>5, <3>8, <4>1
    <3> QED
      BY <3>7, <3>8
  <2> QED
    BY <2>1, <2>2, <2>5, <2>6 DEF SeqnumInv, NumbersUniqueUnlessTorn
<1>5. CASE Advance
  <2>0. req \in Askers
    BY <1>5 DEF SeqnumInv, ServerKnows, Advance
  <2>1. SeqnumTypeOK'
    <3>1. seqLen[req] \in Int /\ seqNum \in Int
      BY <2>0 DEF SeqnumInv, SeqnumTypeOK
    <3>2. seqNum' \in Int
      BY <1>5, <3>1 DEF Advance
    <3> QED
      BY <1>5, <3>2 DEF SeqnumInv, SeqnumTypeOK, Advance
  <2>3. NextNumber' = NextNumber
    BY <1>5 DEF Advance, NextNumber
  <2>4. ServerKnows'
    BY <1>5 DEF SeqnumInv, Advance, ServerKnows
  <2> QED
    BY <1>5, <2>1, <2>3, <2>4, Unanswering DEF SeqnumInv, Advance
<1>6. CASE Truncate
  <2>1. SeqnumTypeOK'
    BY <1>6 DEF SeqnumInv, SeqnumTypeOK, Truncate
  <2>3. NextNumber' = NextNumber
    BY <1>6 DEF Truncate, NextNumber
  <2>4. ServerKnows'
    BY <1>6 DEF SeqnumInv, Truncate, ServerKnows
  <2> QED
    BY <1>6, <2>1, <2>3, <2>4, Unanswering DEF SeqnumInv, Truncate
<1>7. CASE StoreNumber
  <2>1. SeqnumTypeOK'
    BY <1>7 DEF SeqnumInv, SeqnumTypeOK, StoreNumber
  <2>3. NextNumber' = NextNumber
    BY <1>7 DEF StoreNumber, NextNumber
  <2>4. ServerKnows'
    BY <1>7 DEF SeqnumInv, SeqnumTypeOK, StoreNumber, ServerKnows
  <2> QED
    BY <1>7, <2>1, <2>3, <2>4, Unanswering DEF SeqnumInv, StoreNumber
<1>8. CASE Kill \/ SigHandler
  <2>0. /\ End /\ requests' \in Seq(Askers) /\ path' \in 0 .. MaxStops + 1
        /\ lost' \subseteq Askers
    <3>1. <<>> \in Seq(Askers) /\ 0 \in 0 .. MaxStops + 1
      OBVIOUS
    <3> QED
      BY <1>8, <3>1 DEF Kill, SigHandler, ServerCloses, SeqnumInv, SeqnumTypeOK
  <2>1. UNCHANGED <<seqLen, resp>>
    BY <1>8 DEF Kill, SigHandler, End
  <2>2. SeqnumTypeOK'
    BY <2>0, <2>1 DEF SeqnumInv, SeqnumTypeOK, End
  <2>3. torn' \/ NextNumber' = NextNumber
    BY <2>0 DEF SeqnumInv, SeqnumTypeOK, ServerKnows, End, NextNumber
  <2>4. ServerKnows'
    BY <2>0 DEF End, ServerKnows
  <2>5. NumbersUniqueUnlessTorn'
    BY <2>0, <2>1, <2>3, Unanswering DEF End, NumbersUniqueUnlessTorn
  <2> QED
    BY <2>2, <2>4, <2>5 DEF SeqnumInv
<1>10. ASSUME NEW c \in Askers, Client(c) \/ KillClient(c) PROVE SeqnumInv'
  <2>0. UNCHANGED <<svFifo, seqNum, req, file, path, stops, seqLen, resp, history>>
    BY <1>10 DEF Client, KillClient, MakeFifo, OpenServer, Opened, Write, OpenOwn,
       Read, ReadEOF
  <2>1. sv' = sv \/ (sv = "open" /\ sv' = "read")
    BY <1>10 DEF Client, KillClient, MakeFifo, OpenServer, Opened, Write, OpenOwn,
       Read, ReadEOF
  <2>2. requests' \in Seq(Askers)
    <3>1. <<>> \in Seq(Askers) /\ requests \in Seq(Askers) /\ Append(requests, c) \in Seq(Askers)
      BY DEF SeqnumInv, SeqnumTypeOK
    <3> QED
      BY <1>10, <3>1 DEF Client, KillClient, MakeFifo, OpenServer, Opened, Write,
         OpenOwn, Read, ReadEOF, ClientCloses
  <2>3. place' \in [Askers -> {"mkfifo", "open_server", "opening", "write", "wrote",
                         "open_own", "read", "printed", "ended"}]
    BY <1>10 DEF SeqnumInv, SeqnumTypeOK, Move, Client, KillClient, MakeFifo,
       OpenServer, Opened, Write, OpenOwn, Read, ReadEOF
  <2>4. fifo' \in [Askers -> 0 .. MaxStops + 1]
    BY <1>10 DEF SeqnumInv, SeqnumTypeOK, Client, KillClient, MakeFifo, OpenServer,
       Opened, Write, OpenOwn, Read, ReadEOF
  <2>5. SeqnumTypeOK'
    BY <2>0, <2>1, <2>2, <2>3, <2>4 DEF SeqnumInv, SeqnumTypeOK
  <2>6. NextNumber' = NextNumber
    BY <2>0, <2>1 DEF NextNumber
  <2>7. ServerKnows'
    BY <2>0, <2>1 DEF SeqnumInv, ServerKnows
  <2> QED
    BY <2>0, <2>5, <2>6, <2>7, Unanswering DEF SeqnumInv
<1>11. CASE UNCHANGED seqnumVars
  BY <1>11 DEF seqnumVars, SeqnumInv, SeqnumTypeOK, ServerKnows,
     NumbersUniqueUnlessTorn, NextNumber, Answered, Numbers, SteppedBack
<1> QED
  BY <1>1, <1>2, <1>3, <1>4, <1>5, <1>6, <1>7, <1>8, <1>10, <1>11
  DEF SeqnumNext, Server, SeqnumTerminating

(***************************************************************************)
(* fifo_seqnum_server.c gives no number to two clients, across any number  *)
(* of stops and restarts, unless it is stopped between an answer and the   *)
(* end of the store that follows it, or has answered a client that asked   *)
(* for a negative length.  Any number of clients may come, ask for any     *)
(* length, which atoi does not check, and be killed at any point.          *)
(***************************************************************************)
THEOREM SeqnumInvariance == SeqnumSpec => []SeqnumInv
<1>1. SeqnumInit => SeqnumInv
  BY SeqnumStarts
<1>2. SeqnumInv /\ [SeqnumNext]_seqnumVars => SeqnumInv'
  BY SeqnumStep
<1> QED
  BY <1>1, <1>2, PTL DEF SeqnumSpec

=============================================================================
