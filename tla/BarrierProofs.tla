--------------------------- MODULE BarrierProofs ---------------------------
(***************************************************************************)
(* Proofs about Barrier, for any number of children.                       *)
(***************************************************************************)
EXTENDS Barrier, Counting

LEMMA ThreadsCount == IsFiniteSet(Threads) /\ Cardinality(Threads) = N
BY BarrierAssumption, FS_Interval DEF Threads

LEMMA AtFinite == ASSUME NEW L PROVE IsFiniteSet(At(L))
BY ThreadsCount, FS_Subset DEF At

\* A complete count means that everybody is counted.
LEMMA AllArrived == Cardinality(Arrived) = N => Arrived = Threads
<1>1. Arrived \in SUBSET Threads
  BY DEF Arrived, At
<1> QED
  BY <1>1, ThreadsCount, FS_Subset

LEMMA InitInvariant == Init => IInv
<1> SUFFICES ASSUME Init PROVE IInv
  OBVIOUS
<1> USE BarrierAssumption
<1>1. Arrived = {} /\ At({"after"}) = {} /\ At(Opening) = {}
  BY DEF Init, Arrived, At, Opening
<1>2. Phases /\ LastCounts /\ Permits
  BY <1>1, FS_EmptySet DEF Init, Phases, LastCounts, Permits, Opened
<1>3. TypeOK
  BY DEF Init, TypeOK, LockSection
<1> QED
  BY <1>2, <1>3 DEF Init, IInv, LockExclusion, At, LockSection

-----------------------------------------------------------------------------

LEMMA StepLock ==
  ASSUME IInv, [Next]_vars
  PROVE  TypeOK' /\ LockExclusion'
<1> USE BarrierAssumption
    DEF IInv, TypeOK, LockExclusion, At, LockSection, Threads, Move
<1>1. ASSUME NEW t \in Threads,
             WaitLock(t) \/ OpenerPost(t) \/ PostLock(t) \/ WaitSem(t)
      PROVE  TypeOK' /\ LockExclusion'
  <2>1. CASE WaitLock(t)
    BY <2>1 DEF WaitLock, SemWait
  <2>2. CASE OpenerPost(t)
    BY <2>2 DEF OpenerPost, SemPost
  <2>3. CASE PostLock(t)
    BY <2>3 DEF PostLock, SemPost
  <2>4. CASE WaitSem(t)
    BY <2>4 DEF WaitSem, SemWait
  <2> QED
    BY <1>1, <2>1, <2>2, <2>3, <2>4
<1>2. ASSUME NEW t \in Threads, Count(t) \/ Test(t) \/ Open(t) \/ Reset(t)
      PROVE  TypeOK' /\ LockExclusion'
  <2>1. CASE Count(t)
    BY <2>1 DEF Count
  <2>2. CASE Test(t)
    BY <2>2 DEF Test
  <2>3. CASE Open(t)
    BY <2>3 DEF Open, SemPost, threshold
  <2>4. CASE Reset(t)
    BY <2>4 DEF Reset
  <2> QED
    BY <1>2, <2>1, <2>2, <2>3, <2>4
<1>3. CASE Main
  BY <1>3 DEF Main, Create, Join
<1>4. CASE UNCHANGED vars
  BY <1>4 DEF vars
<1> QED
  BY <1>1, <1>2, <1>3, <1>4 DEF Next, Child, Terminating

Counts == Phases /\ LastCounts /\ Permits

\* Steps that change who has arrived, who is at the test or who has passed.
LEMMA StepCount ==
  ASSUME IInv, NEW t \in Threads, Count(t)
  PROVE  Counts'
<1>1. ~Opened
  BY DEF IInv, Phases, Count, Move, Arrived, At
<1>2. ~Opened'
  BY <1>1 DEF IInv, TypeOK, Count, Move, Opened, At, Opening
<1>3. Arrived' = Arrived \cup {t} /\ t \notin Arrived
  BY DEF IInv, TypeOK, Count, Move, Arrived, At
<1>4. Cardinality(Arrived') = Cardinality(Arrived) + 1
  BY <1>3, AtFinite, CountUp DEF Arrived
<1>5. Phases'
  BY <1>1, <1>2, <1>4 DEF IInv, Phases, Count
<1>6. LastCounts'
  BY DEF LastCounts, IInv, TypeOK, Count, Move, At
<1> QED
  BY <1>2, <1>5, <1>6 DEF Counts, Permits

LEMMA StepTest ==
  ASSUME IInv, NEW t \in Threads, Test(t)
  PROVE  Counts'
<1>1. ~Opened /\ Arrived' = Arrived
  BY DEF IInv, TypeOK, Phases, Test, Move, Arrived, At
<1>2. CASE waiters = N
  <2>1. Arrived = Threads
    BY <1>1, <1>2, AllArrived DEF IInv, Phases
  <2>2. t \in At(Opening)' /\ t \in At({"open"})'
    BY <1>2 DEF Test, Move, threshold, At, Opening, IInv, TypeOK
  <2>3. At({"test", "post_lock"})' = {}
    BY <1>2 DEF Test, Move, threshold, At, IInv, TypeOK, LockExclusion,
                LockSection
  <2>4. At({"after"})' = {}
    BY <1>1 DEF Test, Move, At, Opened, IInv, TypeOK, threshold
  <2>5. Cardinality(At({"after"})') = 0
    BY <2>4, FS_EmptySet
  <2>6. sem' = 0 /\ i' = 0
    BY <1>1 DEF Test, IInv, Phases
  <2> QED
    BY <1>1, <2>1, <2>2, <2>3, <2>5, <2>6
    DEF Counts, Phases, LastCounts, Permits, Opened
<1>3. CASE waiters # N
  <2>1. ~Opened'
    BY <1>1, <1>3 DEF Test, Move, threshold, Opened, At, Opening, IInv, TypeOK
  <2>2. waiters' = waiters /\ sem' = sem /\ i' = i
    BY DEF Test
  <2> QED
    BY <1>1, <1>3, <2>1, <2>2
    DEF Counts, Phases, LastCounts, Permits, IInv
<1> QED
  BY <1>2, <1>3

LEMMA StepOpen ==
  ASSUME IInv, NEW t \in Threads, Open(t)
  PROVE  Counts'
<1>1. Opened /\ At(Opening) # {} /\ t \in At({"open"})
  BY DEF Open, Move, Opened, At, Opening
<1>2. Arrived' = Arrived /\ At({"after"})' = At({"after"})
  BY DEF IInv, TypeOK, Open, Move, Arrived, At
<1>3. At(Opening)' # {}
  BY DEF IInv, TypeOK, Open, Move, At, Opening
<1>4. At({"test", "post_lock"})' = {}
  BY <1>1 DEF IInv, TypeOK, Phases, Open, Move, At
<1>5. Cardinality(At({"after"})) \in Nat
  BY AtFinite, CountIsNat
<1>6. sem' + Cardinality(At({"after"})) = i' /\ i' \in Nat
  BY <1>1, <1>5 DEF IInv, TypeOK, Permits, Open, SemPost
<1>7. At({"open"})' = {} => i' = N
  BY BarrierAssumption DEF IInv, TypeOK, Open, Move, At, threshold
<1>8. Phases' /\ LastCounts'
  BY <1>1, <1>2, <1>3, <1>4 DEF IInv, Phases, LastCounts, Opened
<1>9. sem' + Cardinality(At({"after"})')
        = i' + (IF At(Opening)' = {} THEN 1 ELSE 0)
  BY <1>2, <1>3, <1>6 DEF IInv, TypeOK, Open
<1> QED
  BY <1>7, <1>8, <1>9 DEF Counts, Permits

LEMMA StepReset ==
  ASSUME IInv, NEW t \in Threads, Reset(t)
  PROVE  Counts'
<1>1. Opened /\ At(Opening) # {} /\ At(Opening)' # {}
  BY DEF IInv, TypeOK, Reset, Move, Opened, At, Opening
<1>2. Arrived' = Arrived /\ At({"after"})' = At({"after"})
  BY DEF IInv, TypeOK, Reset, Move, Arrived, At
<1>3. At({"test", "post_lock"})' = {} /\ At({"open"}) = {}
  BY <1>1
  DEF IInv, TypeOK, Phases, Reset, Move, At, LockExclusion, LockSection
<1> QED
  BY <1>1, <1>2, <1>3
  DEF Reset, Counts, IInv, Phases, LastCounts, Permits, Opened

LEMMA StepOpenerPost ==
  ASSUME IInv, NEW t \in Threads, OpenerPost(t)
  PROVE  Counts'
<1>1. Opened /\ At(Opening) # {} /\ At({"open"}) = {}
  BY DEF IInv, TypeOK, OpenerPost, Move, Opened, At, Opening, LockExclusion,
         LockSection
<1>2. At(Opening)' = {} /\ At({"open"})' = {}
  BY DEF IInv, TypeOK, OpenerPost, Move, At, Opening, LockExclusion,
         LockSection
<1>3. Arrived' = Arrived /\ At({"test", "post_lock"})' = {}
  BY <1>1 DEF IInv, TypeOK, Phases, OpenerPost, Move, Arrived, At
<1>4. At({"after"})' = At({"after"}) \cup {t} /\ t \notin At({"after"})
  BY DEF IInv, TypeOK, OpenerPost, Move, At
<1>5. Cardinality(At({"after"})') = Cardinality(At({"after"})) + 1
  BY <1>4, AtFinite, CountUp
<1>6. Cardinality(At({"after"})) \in Nat
  BY AtFinite, CountIsNat
<1>7. Opened'
  BY <1>4 DEF Opened
<1>8. sem' = sem /\ i' = i /\ waiters' = waiters
  BY DEF OpenerPost
<1> QED
  BY <1>1, <1>2, <1>3, <1>5, <1>6, <1>7, <1>8
  DEF Counts, IInv, TypeOK, Phases, LastCounts, Permits

LEMMA StepWaitSem ==
  ASSUME IInv, NEW t \in Threads, WaitSem(t)
  PROVE  Counts'
<1>1. Opened
  BY DEF IInv, Phases, WaitSem, SemWait
<1>2. At(Opening)' = At(Opening) /\ At({"open"})' = At({"open"})
  BY DEF IInv, TypeOK, WaitSem, Move, At, Opening
<1>3. Arrived' = Arrived /\ At({"test", "post_lock"})' = {}
  BY <1>1 DEF IInv, TypeOK, Phases, WaitSem, Move, Arrived, At
<1>4. At({"after"})' = At({"after"}) \cup {t} /\ t \notin At({"after"})
  BY DEF IInv, TypeOK, WaitSem, Move, At
<1>5. Cardinality(At({"after"})') = Cardinality(At({"after"})) + 1
  BY <1>4, AtFinite, CountUp
<1>6. Cardinality(At({"after"})) \in Nat
  BY AtFinite, CountIsNat
<1>7. Opened'
  BY <1>4 DEF Opened
<1>8. sem' = sem - 1 /\ i' = i /\ waiters' = waiters
  BY DEF WaitSem, SemWait
<1> QED
  BY <1>1, <1>2, <1>3, <1>5, <1>6, <1>7, <1>8
  DEF Counts, IInv, TypeOK, Phases, LastCounts, Permits

\* The other steps move a thread within or outside all the sets counted.
LEMMA StepOther ==
  ASSUME IInv,
         \/ Main
         \/ \E t \in Threads : WaitLock(t) \/ PostLock(t)
         \/ UNCHANGED vars
  PROVE  Counts'
<1>1. /\ Arrived' = Arrived
      /\ At({"after"})' = At({"after"})
      /\ At(Opening)' = At(Opening)
      /\ At({"open"})' = At({"open"})
      /\ At({"test"})' = At({"test"})
      /\ At({"test", "post_lock"})' \subseteq At({"test", "post_lock"})
      /\ UNCHANGED <<sem, waiters, i>>
  BY DEF IInv, TypeOK, Main, Create, Join, WaitLock, PostLock, vars, Move,
         Arrived, At, Opening
<1> QED
  BY <1>1 DEF Counts, IInv, Phases, LastCounts, Permits, Opened

LEMMA Inductive == Spec => []IInv
<1>1. Init => IInv
  BY InitInvariant
<1>2. IInv /\ [Next]_vars => IInv'
  BY StepLock, StepCount, StepTest, StepOpen, StepReset, StepOpenerPost,
     StepWaitSem, StepOther
  DEF IInv, Counts, Next, Child, Terminating
<1> QED
  BY <1>1, <1>2, PTL DEF Spec

\* main creates the children in order, and no child goes back.
LEMMA StepUncreated ==
  ASSUME IInv, Uncreated, [Next]_vars
  PROVE  Uncreated'
<1> USE BarrierAssumption DEF IInv, TypeOK, Uncreated, Threads, Move
<1>1. CASE Main
  BY <1>1 DEF Main, Create, Join
<1>2. ASSUME NEW t \in Threads, Child(t) PROVE Uncreated'
  BY <1>2
  DEF Child, WaitLock, Count, Test, Open, Reset, OpenerPost, PostLock, WaitSem
<1>3. CASE UNCHANGED vars
  BY <1>3 DEF vars
<1> QED
  BY <1>1, <1>2, <1>3 DEF Next, Terminating

\* Suppose all that are not past the barrier sleep.  Then nobody holds lock, so
\* all have arrived: if the barrier is open more have left than there are
\* children, if it is not somebody is at the test.
LEMMA SomebodyRuns ==
  ASSUME IInv, Uncreated
  PROVE  NoDeadlock
<1> SUFFICES ASSUME created = N, NEW t \in Threads, pc[t] # "after",
                    \A u \in Threads : pc[u] = "after" \/ Blocked(u)
             PROVE  FALSE
  BY DEF NoDeadlock
<1>1. lock = 1
  <2> SUFFICES ASSUME lock = 0 PROVE FALSE
    BY DEF IInv, TypeOK
  <2>1. PICK u \in Threads : pc[u] \in LockSection
    BY DEF IInv, LockExclusion, At
  <2> QED
    BY <2>1 DEF Blocked, LockSection
<1>2. \A u \in Threads : pc[u] = "after" \/ (pc[u] = "wait_sem" /\ sem = 0)
  BY <1>1 DEF Blocked
<1>3. sem = 0
  BY <1>2
<1>4. At(Opening) = {} /\ At({"open"}) = {} /\ At({"test"}) = {}
  BY <1>2 DEF At, Opening
<1>5. Arrived = Threads
  BY <1>2 DEF Arrived, At
<1>6. CASE Opened
  <2>1. Cardinality(At({"after"})) = N + 1
    <3>1. Cardinality(At({"after"})) \in Nat
      BY AtFinite, CountIsNat
    <3> QED
      BY <1>3, <1>4, <1>6, <3>1 DEF IInv, TypeOK, Permits
  <2>2. Cardinality(At({"after"})) <= N
    BY ThreadsCount, FS_Subset DEF At
  <2> QED
    BY <2>1, <2>2, BarrierAssumption
<1>7. CASE ~Opened
  BY <1>4, <1>5, <1>7, ThreadsCount DEF IInv, Phases, LastCounts
<1> QED
  BY <1>6, <1>7

(***************************************************************************)
(* The permits of sem are those the opener posted, none exists before the  *)
(* last thread is counted, and no child is left asleep at the barrier with *)
(* nobody to wake it, for any number of children.                          *)
(***************************************************************************)
THEOREM Invariance == Spec => []Inv
<1>1. Init => Uncreated
  BY BarrierAssumption DEF Init, Uncreated, Threads
<1>2. IInv /\ Uncreated /\ [Next]_vars => Uncreated'
  BY StepUncreated
<1>3. IInv /\ Uncreated => Inv
  BY SomebodyRuns DEF Inv
<1> QED
  BY <1>1, <1>2, <1>3, Inductive, PTL DEF Spec

(***************************************************************************)
(* barrier.c is a barrier, for the one use its main makes of it: no child  *)
(* leaves before the last one has arrived.                                 *)
(***************************************************************************)
THEOREM Refinement == Spec => ImplementsRendezvous
<1>1. Init => Meeting!Init
  BY DEF Init, Meeting!Init, Arrived, At
<1>2. IInv /\ [Next]_vars => [Meeting!Next]_<<Arrived, At({"after"})>>
  <2> SUFFICES ASSUME IInv, [Next]_vars
               PROVE  \/ Meeting!Next
                      \/ UNCHANGED <<Arrived, At({"after"})>>
    OBVIOUS
  <2>1. ASSUME NEW t \in Threads, Count(t) PROVE Meeting!Next
    <3>1. Meeting!Arrive(t)
      BY <2>1 DEF IInv, TypeOK, Count, Move, Arrived, At, Meeting!Arrive
    <3> QED
      BY <3>1 DEF Meeting!Next
  <2>2. ASSUME NEW t \in Threads, OpenerPost(t) \/ WaitSem(t)
        PROVE  Meeting!Next
    <3>1. Opened
      BY <2>2
      DEF IInv, Phases, WaitSem, SemWait, OpenerPost, Move, Opened, At, Opening
    <3>2. Arrived = Threads
      BY <3>1 DEF IInv, Phases
    <3>3. /\ Arrived' = Arrived
          /\ t \notin At({"after"})
          /\ At({"after"})' = At({"after"}) \cup {t}
      BY <2>2 DEF IInv, TypeOK, OpenerPost, WaitSem, Move, Arrived, At
    <3>4. Meeting!Leave(t)
      BY <3>2, <3>3 DEF Meeting!Leave
    <3> QED
      BY <3>4 DEF Meeting!Next
  <2>3. ASSUME NEW t \in Threads,
               WaitLock(t) \/ Test(t) \/ Open(t) \/ Reset(t) \/ PostLock(t)
        PROVE  UNCHANGED <<Arrived, At({"after"})>>
    BY <2>3
    DEF IInv, TypeOK, WaitLock, Test, Open, Reset, PostLock, Move, Arrived, At
  <2>4. CASE Main \/ UNCHANGED vars
    BY <2>4 DEF IInv, TypeOK, Main, Create, Join, vars, Move, Arrived, At
  <2> QED
    BY <2>1, <2>2, <2>3, <2>4 DEF Next, Child, Terminating
<1> QED
  BY <1>1, <1>2, Inductive, PTL
  DEF Spec, ImplementsRendezvous, Meeting!Spec, Meeting!vars

(***************************************************************************)
(* The barrier does not return to its initial state: when all children are *)
(* past it, sem holds one permit nobody waits for, whatever their number.  *)
(***************************************************************************)
THEOREM OnePermitLeft == Spec => [](At({"after"}) = Threads => sem = 1)
<1>1. ASSUME IInv, At({"after"}) = Threads PROVE sem = 1
  <2>1. Cardinality(At({"after"})) = N
    BY <1>1, ThreadsCount
  <2>2. Threads # {}
    BY BarrierAssumption DEF Threads
  <2>3. Opened /\ At(Opening) = {} /\ At({"open"}) = {}
    BY <1>1, <2>2 DEF Opened, At, Opening
  <2> QED
    BY <1>1, <2>1, <2>3, BarrierAssumption DEF IInv, TypeOK, Permits
<1> QED
  BY <1>1, Inductive, PTL

-----------------------------------------------------------------------------
\* How far a child is, the turns of the opener's loop aside.
Place(label) ==
  CASE label = "not_created" -> 0
    [] label = "wait_lock" -> 1
    [] label = "count" -> 2
    [] label = "test" -> 3
    [] label \in {"open", "post_lock"} -> 4
    [] label \in {"reset", "wait_sem"} -> 5
    [] label = "opener_post" -> 6
    [] label = "after" -> 7

Places == [t \in Threads |-> Place(pc[t])]

\* How far all of them and main are.
Progress == Total(Places, Threads) + i + joined

LEMMA PlacesType ==
  TypeOK => /\ \A t \in Threads : Places[t] \in 0 .. 7
            /\ Total(Places, Threads) \in 0 .. 7 * N
<1> SUFFICES ASSUME TypeOK
             PROVE  /\ \A t \in Threads : Places[t] \in 0 .. 7
                    /\ Total(Places, Threads) \in 0 .. 7 * N
  OBVIOUS
<1>1. \A t \in Threads : Places[t] \in 0 .. 7
  BY DEF Places, Place, TypeOK, LockSection
<1>2. Total(Places, Threads) \in 0 .. Cardinality(Threads) * 7
  BY <1>1, ThreadsCount, TotalWithin
<1> QED
  BY <1>1, <1>2, ThreadsCount, BarrierAssumption

LEMMA PlacesNext ==
  TypeOK' => \A t \in Threads : Places'[t] \in 0 .. 7
<1>1. (TypeOK => \A t \in Threads : Places[t] \in 0 .. 7)'
  BY PlacesType, PTL
<1> QED
  BY <1>1

\* A child that moves on.
LEMMA ChildOnward ==
  ASSUME TypeOK, TypeOK', NEW t \in Threads, Place(pc'[t]) > Place(pc[t]),
         \A u \in Threads : u # t => pc'[u] = pc[u]
  PROVE  Total(Places', Threads) > Total(Places, Threads)
<1>1. \A u \in Threads : Places[u] \in Int /\ Places'[u] \in Int
  BY PlacesType, PlacesNext
<1>2. \A u \in Threads : u # t => Places'[u] = Places[u]
  BY DEF Places
<1>3. Total(Places', Threads) - Total(Places, Threads) = Places'[t] - Places[t]
  BY <1>1, <1>2, ThreadsCount, TotalChange
<1>4. Places'[t] > Places[t]
  BY DEF Places
<1>5. Total(Places', Threads) \in Int /\ Total(Places, Threads) \in Int
  BY <1>1, ThreadsCount, TotalInt
<1> QED
  BY <1>1, <1>3, <1>4, <1>5

LEMMA StepOnward ==
  ASSUME TypeOK, TypeOK', Next, ~UNCHANGED vars
  PROVE  Progress' > Progress
<1>0. /\ Total(Places, Threads) \in Int /\ Total(Places', Threads) \in Int
      /\ i \in Int /\ joined \in Int
  BY PlacesType, PlacesNext, ThreadsCount, TotalInt DEF TypeOK
<1> USE DEF TypeOK, Move
<1>1. ASSUME NEW t \in Threads,
             \/ WaitLock(t) \/ Count(t) \/ Test(t) \/ Reset(t)
             \/ OpenerPost(t) \/ PostLock(t) \/ WaitSem(t)
      PROVE  Progress' > Progress
  <2>1. /\ Place(pc'[t]) > Place(pc[t])
        /\ \A u \in Threads : u # t => pc'[u] = pc[u]
    BY <1>1
    DEF WaitLock, Count, Test, Reset, OpenerPost, PostLock, WaitSem, Place
  <2>2. UNCHANGED <<i, joined>>
    BY <1>1 DEF WaitLock, Count, Test, Reset, OpenerPost, PostLock, WaitSem
  <2> QED
    BY <1>0, <2>1, <2>2, ChildOnward DEF Progress
<1>2. ASSUME NEW t \in Threads, Open(t) PROVE Progress' > Progress
  <2>1. CASE i < threshold
    <3>1. pc' = pc /\ i' = i + 1 /\ joined' = joined
      BY <1>2, <2>1 DEF Open
    <3>2. Places' = Places
      BY <3>1 DEF Places
    <3> QED
      BY <1>0, <3>1, <3>2 DEF Progress
  <2>2. CASE ~(i < threshold)
    <3>1. /\ Place(pc'[t]) > Place(pc[t])
          /\ \A u \in Threads : u # t => pc'[u] = pc[u]
          /\ UNCHANGED <<i, joined>>
      BY <1>2, <2>2 DEF Open, Place
    <3> QED
      BY <1>0, <3>1, ChildOnward DEF Progress
  <2> QED
    BY <2>1, <2>2
<1>3. CASE Create
  <2>1. /\ created \in Threads
        /\ Place(pc'[created]) > Place(pc[created])
        /\ \A u \in Threads : u # created => pc'[u] = pc[u]
        /\ UNCHANGED <<i, joined>>
    BY <1>3, BarrierAssumption DEF Create, Place, Threads
  <2> QED
    BY <1>0, <2>1, ChildOnward DEF Progress
<1>4. CASE Join
  <2>1. pc' = pc /\ i' = i /\ joined' = joined + 1
    BY <1>4 DEF Join
  <2>2. Places' = Places
    BY <2>1 DEF Places
  <2> QED
    BY <1>0, <2>1, <2>2 DEF Progress
<1> QED
  BY <1>1, <1>2, <1>3, <1>4 DEF Next, Main, Child, Terminating

(***************************************************************************)
(* barrier.c comes to an end after 9 * N steps at most, whatever their     *)
(* order: each step of a child or of main makes progress, of which there   *)
(* is a bounded amount.  (That it does not end before main has joined all  *)
(* children is NoDeadlock.)                                                *)
(***************************************************************************)
THEOREM StepsRunOut ==
  Spec => [](Progress \in 0 .. 9 * N) /\ [][Progress' > Progress]_vars
<1>1. IInv => Progress \in 0 .. 9 * N
  BY PlacesType, BarrierAssumption DEF Progress, IInv, TypeOK
<1>2. IInv /\ IInv' /\ [Next]_vars => [Progress' > Progress]_vars
  BY StepOnward DEF IInv
<1> QED
  BY <1>1, <1>2, Inductive, PTL DEF Spec

=============================================================================
