---------------------------- MODULE RWLockProofs ----------------------------
(***************************************************************************)
(* Proofs about RWLock, with fair_lock and without, for any finite sets of *)
(* readers and writers, any number of iterations, and readers that stop or *)
(* do not.                                                                 *)
(***************************************************************************)
EXTENDS RWLock, Counting

LEMMA CountedFinite == IsFiniteSet(At(Counted))
<1>1. IsFiniteSet(Threads)
  BY RWAssumption, FS_Union DEF Threads
<1> QED
  BY <1>1, FS_Subset DEF At

\* While r is between sem_wait and sem_post of lock, a reader the count has
\* besides r is inside: no other counted reader can be on its way in or out.
LEMMA AnotherInside ==
  ASSUME IInv, NEW r \in Readers, pc[r] \in CountSection,
         IF pc[r] \in Counted THEN readers # 1 ELSE readers # 0
  PROVE  \E u \in Threads \ {r} : pc[u] \in {"post_fair", "read", "wait_out"}
<1>1. At(Counted) \notin {{}, {r}}
  <2>1. CASE pc[r] \in Counted
    <3>1. Cardinality({r}) = 1
      BY FS_Singleton
    <3>2. r \in At(Counted)
      BY <2>1 DEF At, Threads
    <3> QED
      BY <2>1, <3>1, <3>2 DEF IInv, ReadersCounted
  <2>2. CASE pc[r] \notin Counted
    <3>1. At(Counted) # {}
      BY <2>2, FS_EmptySet DEF IInv, ReadersCounted
    <3> QED
      BY <2>2, <3>1 DEF At
  <2> QED
    BY <2>1, <2>2
<1>2. PICK u \in At(Counted) : u # r
  BY <1>1
<1>3. pc[u] \notin CountSection
  BY <1>2 DEF IInv, SectionExclusion, At, Threads
<1> QED
  BY <1>2, <1>3 DEF At, Counted, CountSection

\* A counter of zero or one says who is counted.
LEMMA CountedNone ==
  ASSUME IInv, readers = 0
  PROVE  At(Counted) = {}
BY CountedFinite, CountIsNat DEF IInv, ReadersCounted

LEMMA CountedOnly ==
  ASSUME IInv, readers = 1, NEW r \in At(Counted)
  PROVE  At(Counted) = {r}
BY CountedFinite, CountOne DEF IInv, ReadersCounted

LEMMA InitInvariant == Init => IInv
<1> SUFFICES ASSUME Init PROVE IInv
  OBVIOUS
<1>1. At(Counted) = {}
  BY DEF Init, At, Counted, Start, Enter
<1>2. ReadersCounted
  BY <1>1, FS_EmptySet DEF Init, ReadersCounted
<1>3. TypeOK
  BY RWAssumption
  DEF Init, TypeOK, Threads, CountSection, FairSection, Writing, Start, Enter,
      kind
<1> QED
  BY <1>2, <1>3
  DEF Init, IInv, SectionExclusion, WritelockHeld, GroupHolds, Branches,
      FreshLoad, At, CountSection, FairSection, Counted, Inside, Writing,
      Start, Enter

-----------------------------------------------------------------------------

\* Each of fair_lock and lock is taken when its section is empty.
LEMMA StepExclusion ==
  ASSUME IInv, [Next]_vars
  PROVE  SectionExclusion'
<1> USE RWAssumption DEF IInv, TypeOK, SectionExclusion, At, CountSection,
        FairSection, Threads, Move, Iterate, Start, Enter, Writing, sems, kind
<1>1. ASSUME NEW r \in Readers, Reader(r) PROVE SectionExclusion'
  BY <1>1, SMTT(60)
  DEF Reader, WaitIn, Incr, TestIn, FirstWait, PostIn, Read, WaitOut, Decr,
      TestOut, LastPost, PostOut, WaitFair, PostFair, SemWait, SemPost
<1>2. ASSUME NEW w \in Writers, Writer(w) PROVE SectionExclusion'
  BY <1>2
  DEF Writer, WaitWrite, Load, Store, PostWrite, WaitFair, ReleaseFair,
      SemWait, SemPost
<1>3. CASE UNCHANGED vars
  BY <1>3 DEF vars
<1> QED
  BY <1>1, <1>2, <1>3 DEF Next, Terminating

LEMMA StepCounted ==
  ASSUME IInv, [Next]_vars
  PROVE  ReadersCounted'
<1> USE RWAssumption DEF IInv, TypeOK, ReadersCounted, Threads, Move, Start, Enter, sems, kind
<1>1. ASSUME NEW r \in Readers, Incr(r) PROVE ReadersCounted'
  <2>1. At(Counted)' = At(Counted) \cup {r} /\ r \notin At(Counted)
    BY <1>1 DEF Incr, At, Counted
  <2> QED
    BY <1>1, <2>1, CountedFinite, CountUp DEF Incr
<1>2. ASSUME NEW r \in Readers, Decr(r) PROVE ReadersCounted'
  <2>1. At(Counted)' = At(Counted) \ {r} /\ r \in At(Counted)
    BY <1>2 DEF Decr, At, Counted
  <2> QED
    BY <1>2, <2>1, CountedFinite, CountDown DEF Decr
<1>3. ASSUME NEW r \in Readers, Reader(r), ~Incr(r), ~Decr(r)
      PROVE  ReadersCounted'
  <2>1. At(Counted)' = At(Counted) /\ readers' = readers
    BY <1>3
    DEF Reader, WaitIn, TestIn, FirstWait, PostIn, Read, WaitOut, TestOut,
        LastPost, PostOut, WaitFair, PostFair, Iterate, At, Counted
  <2> QED
    BY <2>1
<1>4. ASSUME NEW w \in Writers, Writer(w) PROVE ReadersCounted'
  <2>1. At(Counted)' = At(Counted) /\ readers' = readers
    BY <1>4
    DEF Writer, WaitWrite, Load, Store, PostWrite, WaitFair, ReleaseFair,
        Iterate, At, Counted
  <2> QED
    BY <2>1
<1>5. CASE UNCHANGED vars
  BY <1>5 DEF vars, At
<1> QED
  BY <1>1, <1>2, <1>3, <1>4, <1>5 DEF Next, Terminating

LEMMA StepWritelock ==
  ASSUME IInv, [Next]_vars
  PROVE  WritelockHeld' /\ Branches'
<1> USE RWAssumption
    DEF WritelockHeld, Branches, GroupHolds, At, Threads, Move, Inside, Writing,
        Start, Enter, sems, kind
<1>1. ASSUME NEW r \in Readers,
             WaitFair(r) \/ WaitIn(r) \/ Incr(r) \/ PostIn(r) \/ PostFair(r)
             \/ Read(r) \/ WaitOut(r)
      PROVE  WritelockHeld' /\ Branches'
  <2>1. CASE WaitFair(r) \/ WaitIn(r) \/ PostIn(r)
    BY <2>1 DEF IInv, TypeOK, WaitFair, WaitIn, PostIn
  <2>2. CASE PostFair(r) \/ Read(r) \/ WaitOut(r)
    BY <2>2 DEF IInv, TypeOK, PostFair, Read, WaitOut
  <2>3. CASE Incr(r)
    BY <2>3 DEF IInv, TypeOK, Incr, SectionExclusion, CountSection
  <2> QED
    BY <1>1, <2>1, <2>2, <2>3
<1>2. ASSUME NEW r \in Readers, TestIn(r)
      PROVE  WritelockHeld' /\ Branches'
  <2>1. CASE readers = 1
    BY <1>2, <2>1 DEF IInv, TypeOK, TestIn
  <2>2. CASE readers # 1
    <3>1. PICK u \in Threads \ {r} : pc[u] \in {"post_fair", "read", "wait_out"}
      BY <1>2, <2>2, AnotherInside DEF TestIn, CountSection, Counted
    <3> QED
      BY <1>2, <2>2, <3>1 DEF IInv, TypeOK, TestIn
  <2> QED
    BY <2>1, <2>2
<1>3. ASSUME NEW r \in Readers, FirstWait(r)
      PROVE  WritelockHeld' /\ Branches'
  BY <1>3
  DEF IInv, TypeOK, FirstWait, SemWait, SectionExclusion, CountSection
<1>4. ASSUME NEW r \in Readers, Decr(r)
      PROVE  WritelockHeld' /\ Branches'
  <2>1. readers' \in Nat /\ readers' = readers - 1
    <3>1. readers # 0
      BY <1>4, CountedNone DEF Decr, Counted
    <3> QED
      BY <1>4, <3>1 DEF Decr, IInv, TypeOK
  <2>2. CASE readers = 1
    BY <1>4, <2>1, <2>2 DEF IInv, TypeOK, Decr, SectionExclusion, CountSection
  <2>3. CASE readers # 1
    <3>1. PICK u \in Threads \ {r} : pc[u] \in {"post_fair", "read", "wait_out"}
      BY <1>4, <2>3, AnotherInside DEF Decr, CountSection, Counted
    <3> QED
      BY <1>4, <2>1, <2>3, <3>1
      DEF IInv, TypeOK, Decr, SectionExclusion, CountSection
  <2> QED
    BY <2>2, <2>3
<1>5. ASSUME NEW r \in Readers, TestOut(r)
      PROVE  WritelockHeld' /\ Branches'
  <2>1. CASE readers = 0
    BY <1>5, <2>1 DEF IInv, TypeOK, TestOut
  <2>2. CASE readers # 0
    <3>1. PICK u \in Threads \ {r} : pc[u] \in {"post_fair", "read", "wait_out"}
      BY <1>5, <2>2, AnotherInside DEF TestOut, CountSection, Counted
    <3> QED
      BY <1>5, <2>2, <3>1 DEF IInv, TypeOK, TestOut
  <2> QED
    BY <2>1, <2>2
<1>6. ASSUME NEW r \in Readers, LastPost(r)
      PROVE  WritelockHeld' /\ Branches'
  <2>1. At(Counted) = {}
    BY <1>6, CountedNone DEF IInv, LastPost
  <2> QED
    BY <1>6, <2>1
    DEF IInv, TypeOK, LastPost, SemPost, SectionExclusion, CountSection, Counted
<1>7. ASSUME NEW r \in Readers, PostOut(r)
      PROVE  WritelockHeld' /\ Branches'
  BY <1>7 DEF IInv, TypeOK, PostOut, Iterate
<1>8. ASSUME NEW w \in Writers, Writer(w)
      PROVE  WritelockHeld' /\ Branches'
  BY <1>8
  DEF IInv, TypeOK, Writer, WaitWrite, Load, Store, PostWrite, WaitFair,
      ReleaseFair, Iterate, SemWait, SemPost, SectionExclusion, FairSection
<1>9. CASE UNCHANGED vars
  BY <1>9 DEF IInv, vars
<1> QED
  BY <1>1, <1>2, <1>3, <1>4, <1>5, <1>6, <1>7, <1>8, <1>9
  DEF Next, Reader, Terminating

LEMMA StepType ==
  ASSUME IInv, [Next]_vars
  PROVE  TypeOK' /\ FreshLoad'
<1> USE RWAssumption
    DEF IInv, TypeOK, FreshLoad, Threads, Move, Iterate, CountSection,
        FairSection, Writing, SemWait, SemPost, Start, Enter, sems, kind
<1>1. ASSUME NEW r \in Readers,
             WaitFair(r) \/ WaitIn(r) \/ Incr(r) \/ TestIn(r) \/ FirstWait(r)
             \/ Read(r) \/ WaitOut(r) \/ TestOut(r)
      PROVE  TypeOK' /\ FreshLoad'
  BY <1>1 DEF WaitFair, WaitIn, Incr, TestIn, FirstWait, Read, WaitOut, TestOut
<1>2. ASSUME NEW r \in Readers, PostIn(r) \/ PostFair(r) \/ PostOut(r)
      PROVE  TypeOK' /\ FreshLoad'
  BY <1>2 DEF PostIn, PostFair, PostOut, SectionExclusion, At
<1>3. ASSUME NEW r \in Readers, Decr(r) PROVE TypeOK' /\ FreshLoad'
  <2>1. readers # 0
    BY <1>3, CountedNone DEF Decr, Counted, At
  <2> QED
    BY <1>3, <2>1 DEF Decr
<1>4. ASSUME NEW r \in Readers, LastPost(r) PROVE TypeOK' /\ FreshLoad'
  BY <1>4 DEF LastPost, WritelockHeld, GroupHolds, At
<1>5. ASSUME NEW w \in Writers, WaitFair(w) \/ WaitWrite(w) \/ Load(w)
      PROVE  TypeOK' /\ FreshLoad'
  BY <1>5 DEF WaitFair, WaitWrite, Load
<1>6. ASSUME NEW w \in Writers, Store(w) \/ PostWrite(w) \/ ReleaseFair(w)
      PROVE  TypeOK' /\ FreshLoad'
  BY <1>6
  DEF Store, PostWrite, ReleaseFair, WritelockHeld, SectionExclusion, At
<1>7. CASE UNCHANGED vars
  BY <1>7 DEF vars
<1> QED
  BY <1>1, <1>2, <1>3, <1>4, <1>5, <1>6, <1>7
  DEF Next, Reader, Writer, Terminating

LEMMA Inductive == Spec => []IInv
<1>1. Init => IInv
  BY InitInvariant
<1>2. IInv /\ [Next]_vars => IInv'
  BY StepExclusion, StepCounted, StepWritelock, StepType DEF IInv
<1> QED
  BY <1>1, <1>2, PTL DEF Spec

-----------------------------------------------------------------------------
\* The writes behind value.

Written == At({"post_write", "release_fair"})

Rounds == \A w \in Writers : i[w] <= loops /\ (pc[w] = "done" <=> i[w] = loops)

Writes == value = Total(i, Writers) + Cardinality(Written) /\ Rounds

LEMMA WritesNow == WritesCounted <=> Writes
BY DEF WritesCounted, Writes, Rounds, Written, Total

LEMMA WritesNext == WritesCounted' <=> Writes'
BY WritesNow, PTL

LEMMA WritesTypes ==
  ASSUME IInv
  PROVE  /\ IsFiniteSet(Written) /\ Cardinality(Written) \in Nat
         /\ \A w \in Writers : i[w] \in Nat
         /\ Total(i, Writers) \in Int
<1>1. Written \subseteq Threads /\ IsFiniteSet(Threads)
  BY RWAssumption, FS_Union DEF Threads, Written, At
<1>2. \A w \in Writers : i[w] \in Nat
  BY DEF IInv, TypeOK, Threads
<1> QED
  BY <1>1, <1>2, FS_Subset, CountIsNat, TotalInt, RWAssumption

LEMMA InitWrites == Init => WritesCounted
<1> SUFFICES ASSUME Init PROVE Writes
  BY WritesNow
<1>1. Written = {}
  BY DEF Init, Start, Enter, Written, At
<1>2. Total(i, Writers) = 0
  BY TotalZero, RWAssumption DEF Init, Threads
<1>3. Rounds
  BY RWAssumption DEF Init, Start, Enter, Threads, Rounds
<1> QED
  BY <1>1, <1>2, <1>3, FS_EmptySet DEF Init, Writes

\* value and the writers' own counts move together: one step adds to value and
\* puts the writer among those past their store, another takes it from there
\* and ends its iteration.
LEMMA StepWrites ==
  ASSUME IInv, WritesCounted, [Next]_vars
  PROVE  WritesCounted'
<1> SUFFICES Writes'
  BY WritesNext
<1>0. Writes
  BY WritesNow
<1> USE RWAssumption, WritesTypes
<1>1. ASSUME NEW w \in Writers, Store(w) PROVE Writes'
  <2>1. Written' = Written \cup {w} /\ w \notin Written
    BY <1>1 DEF Store, Move, Written, At, IInv, TypeOK, Threads
  <2>2. Cardinality(Written)' = Cardinality(Written) + 1
    BY <2>1, CountUp
  <2>3. value' = value + 1 /\ i' = i
    BY <1>1 DEF Store, Move, IInv, FreshLoad
  <2>4. Rounds'
    BY <1>0, <1>1 DEF Store, Move, Writes, Rounds, IInv, TypeOK, Threads
  <2> QED
    BY <1>0, <2>2, <2>3, <2>4 DEF Writes
<1>2. ASSUME NEW w \in Writers, pc[w] \in {"post_write", "release_fair"},
             Iterate(w, pc[w]), value' = value
      PROVE  Writes'
  <2>1. i' = [i EXCEPT ![w] = @ + 1] /\ w \notin Readers
    BY <1>2 DEF Iterate
  <2>2. i'[w] = i[w] + 1 /\ \A x \in Writers : x # w => i'[x] = i[x]
    BY <2>1 DEF IInv, TypeOK, Threads
  <2>3. Total(i', Writers) = Total(i, Writers) + 1
    BY <2>2, TotalUp
  <2>4. Written' = Written \ {w} /\ w \in Written
    BY <1>2 DEF Iterate, Move, Start, Enter, Written, At, IInv, TypeOK, Threads
  <2>5. Cardinality(Written)' = Cardinality(Written) - 1
    BY <2>4, CountDown
  <2>6. Rounds'
    BY <1>0, <1>2, <2>1
    DEF Iterate, Move, Start, Enter, Writes, Rounds, IInv, TypeOK, Threads
  <2> QED
    BY <1>0, <1>2, <2>3, <2>5, <2>6 DEF Writes
<1>3. ASSUME value' = value, Written' = Written, Rounds',
             \A w \in Writers : i'[w] = i[w]
      PROVE  Writes'
  <2>1. Total(i', Writers) = Total(i, Writers)
    BY <1>3, TotalSame
  <2> QED
    BY <1>0, <1>3, <2>1 DEF Writes
<1>4. ASSUME NEW w \in Writers, PostWrite(w), fair PROVE Writes'
  <2>1. value' = value /\ i' = i /\ Written' = Written
    BY <1>4 DEF PostWrite, Move, Written, At, IInv, TypeOK, Threads
  <2>2. Rounds'
    BY <1>0, <1>4 DEF PostWrite, Move, Writes, Rounds, IInv, TypeOK, Threads
  <2> QED
    BY <1>3, <2>1, <2>2
<1>5. ASSUME NEW w \in Writers, WaitFair(w) \/ WaitWrite(w) \/ Load(w)
      PROVE  Writes'
  <2>1. value' = value /\ i' = i /\ Written' = Written
    BY <1>5
    DEF WaitFair, WaitWrite, Load, Move, Enter, Written, At, IInv, TypeOK,
        Threads
  <2>2. Rounds'
    BY <1>0, <1>5
    DEF WaitFair, WaitWrite, Load, Move, Enter, Writes, Rounds, IInv, TypeOK,
        Threads
  <2> QED
    BY <1>3, <2>1, <2>2
<1>6. ASSUME NEW r \in Readers, Reader(r) PROVE Writes'
  <2>1. value' = value /\ \A w \in Writers : i'[w] = i[w] /\ pc'[w] = pc[w]
    BY <1>6
    DEF Reader, WaitFair, WaitIn, Incr, TestIn, FirstWait, PostIn, PostFair,
        Read, WaitOut, Decr, TestOut, LastPost, PostOut, Iterate, Move, IInv,
        TypeOK, Threads
  <2>2. Written' = Written
    <3>1. pc' \in [Threads -> FairSection \cup CountSection
                             \cup {"wait_fair", "read", "wait_out", "done"}]
          /\ \A x \in Readers : pc'[x] \notin {"post_write", "release_fair"}
      BY StepType DEF TypeOK, Writing
    <3>2. \A x \in Readers : pc[x] \notin {"post_write", "release_fair"}
      BY DEF IInv, TypeOK, Writing
    <3> QED
      BY <2>1, <3>1, <3>2 DEF Written, At, Threads
  <2>3. Rounds'
    BY <1>0, <2>1 DEF Writes, Rounds
  <2> QED
    BY <1>3, <2>1, <2>2, <2>3
<1>7. CASE UNCHANGED vars
  BY <1>0, <1>7 DEF vars, Writes, Rounds, Written, At
<1>8. ASSUME NEW w \in Writers, (PostWrite(w) /\ ~fair) \/ ReleaseFair(w)
      PROVE  Writes'
  BY <1>2, <1>8 DEF PostWrite, ReleaseFair, Iterate, Move
<1> QED
  BY <1>1, <1>4, <1>5, <1>6, <1>7, <1>8 DEF Next, Writer, Terminating

\* Suppose all that are not done sleep.  lock is free, or its holder is the
\* only reader counted and finds writelock taken, by nobody who could have it.
\* Then writelock is free too, and with it fair_lock.
LEMMA SomebodyRuns ==
  ASSUME IInv
  PROVE  NoDeadlock
<1> SUFFICES ASSUME ~Finished, \A t \in Threads : pc[t] = "done" \/ Blocked(t)
             PROVE  FALSE
  BY DEF NoDeadlock
<1>1. At(Writing) = {}
  BY DEF At, Writing, Blocked
<1>2. \A t \in At(Inside) : pc[t] = "wait_out" /\ lock = 0
  BY DEF At, Inside, Blocked
<1>3. At({"test_out"}) = {} /\ At({"last_post"}) = {}
  BY DEF At, Blocked
<1>4. lock = 1
  <2> SUFFICES ASSUME lock = 0 PROVE FALSE
    BY DEF IInv, TypeOK
  <2>1. PICK t \in Threads : pc[t] \in CountSection
    BY DEF IInv, SectionExclusion, At
  <2>2. pc[t] = "first_wait" /\ writelock = 0
    BY <2>1 DEF Blocked, CountSection
  <2>3. PICK u \in Threads : pc[u] = "wait_out"
    BY <1>1, <1>2, <1>3, <2>2 DEF IInv, WritelockHeld, GroupHolds, At
  <2>4. readers = 1
    BY <2>2 DEF IInv, Branches, At
  <2>5. t \in At(Counted) /\ u \in At(Counted)
    BY <2>2, <2>3 DEF At, Counted
  <2> QED
    BY <2>2, <2>3, <2>4, <2>5, CountedOnly
<1>5. writelock = 1
  BY <1>1, <1>2, <1>3, <1>4 DEF IInv, WritelockHeld, GroupHolds
<1>6. PICK t \in Threads : pc[t] # "done"
  BY DEF Finished
<1>7. pc[t] = "wait_fair" /\ fair_lock = 0
  <2>1. pc[t] # "first_wait"
    BY <1>4 DEF IInv, SectionExclusion, At, CountSection
  <2> QED
    BY <1>4, <1>5, <1>6, <2>1 DEF Blocked
<1>8. PICK u \in Threads : pc[u] \in FairSection
  BY <1>7 DEF IInv, SectionExclusion, At
<1> QED
  BY <1>4, <1>5, <1>8 DEF Blocked, FairSection

(***************************************************************************)
(* readers counts the readers exactly, writelock has one holder, a writer  *)
(* or the group, no value++ is lost, and the semaphores are never waited   *)
(* for in a ring: some thread that is not done can go on.                  *)
(***************************************************************************)
THEOREM Invariance == Spec => []Inv
<1>1. Init => WritesCounted
  BY InitWrites
<1>2. IInv /\ WritesCounted /\ [Next]_vars => WritesCounted'
  BY StepWrites
<1>3. IInv /\ WritesCounted => Inv
  BY SomebodyRuns DEF Inv
<1> QED
  BY <1>1, <1>2, <1>3, Inductive, PTL DEF Spec

(***************************************************************************)
(* When the writers are done, whatever the readers do, "end: value" is     *)
(* writers * loops.                                                        *)
(***************************************************************************)
THEOREM NoWriteLost ==
  Spec => []((\A w \in Writers : pc[w] = "done")
               => value = Cardinality(Writers) * loops)
<1>1. Inv /\ (\A w \in Writers : pc[w] = "done")
        => value = Cardinality(Writers) * loops
  <2> SUFFICES ASSUME Inv, \A w \in Writers : pc[w] = "done"
               PROVE  value = Cardinality(Writers) * loops
    OBVIOUS
  <2>1. Writes
    BY WritesNow DEF Inv
  <2>2. Written = {}
    BY DEF Inv, IInv, TypeOK, Threads, Written, At, Writing
  <2>3. Total(i, Writers) = Cardinality(Writers) * loops
    BY <2>1, TotalConstant, RWAssumption DEF Writes, Rounds
  <2>4. Cardinality(Writers) * loops \in Int
    BY CountIsNat, RWAssumption
  <2> QED
    BY <2>1, <2>2, <2>3, <2>4, FS_EmptySet DEF Writes
<1> QED
  BY <1>1, Invariance, PTL

-----------------------------------------------------------------------------
\* Where a thread is in an iteration, and how far it is in all.
Place(label) ==
  CASE label \in {"wait_fair", "done"} -> 0
    [] label \in {"wait_in", "wait_write"} -> 1
    [] label \in {"incr", "load"} -> 2
    [] label \in {"test_in", "store"} -> 3
    [] label \in {"first_wait", "post_write"} -> 4
    [] label \in {"post_in", "release_fair"} -> 5
    [] label = "post_fair" -> 6
    [] label = "read" -> 7
    [] label = "wait_out" -> 8
    [] label = "decr" -> 9
    [] label = "test_out" -> 10
    [] label = "last_post" -> 11
    [] label = "post_out" -> 12

Places == [t \in Threads |-> 13 * i[t] + Place(pc[t])]

Progress == Total(Places, Threads)

\* Nobody makes more than loops iterations.
AllRounds ==
  \A t \in Threads : i[t] <= loops /\ (pc[t] # "done" => i[t] < loops)

LEMMA PlaceType ==
  ASSUME TypeOK, NEW t \in Threads
  PROVE  /\ Place(pc[t]) \in 0 .. 12
         /\ pc[t] = "done" => Place(pc[t]) = 0
         /\ i[t] \in Nat
<1>1. /\ i[t] \in Nat
      /\ pc[t] \in FairSection \cup CountSection
                    \cup {"wait_fair", "read", "wait_out", "done"}
  BY DEF TypeOK
<1>2. CASE pc[t] \in FairSection
  BY <1>1, <1>2 DEF Place, FairSection
<1>3. CASE pc[t] \in CountSection
  BY <1>1, <1>3 DEF Place, CountSection
<1>4. CASE pc[t] \in {"wait_fair", "read", "wait_out", "done"}
  BY <1>1, <1>4 DEF Place
<1> QED
  BY <1>1, <1>2, <1>3, <1>4

LEMMA PlaceNext ==
  TypeOK' => \A t \in Threads : Place(pc'[t]) \in 0 .. 12 /\ i'[t] \in Nat
<1>1. TypeOK => \A t \in Threads : Place(pc[t]) \in 0 .. 12 /\ i[t] \in Nat
  BY PlaceType
<1>2. (TypeOK => \A t \in Threads : Place(pc[t]) \in 0 .. 12 /\ i[t] \in Nat)'
  BY <1>1, PTL
<1> QED
  BY <1>2

LEMMA PlacesType ==
  ASSUME IInv, AllRounds
  PROVE  /\ \A t \in Threads : Places[t] \in 0 .. 13 * loops
         /\ Progress \in 0 .. Cardinality(Threads) * (13 * loops)
<1>1. ASSUME NEW t \in Threads PROVE Places[t] \in 0 .. 13 * loops
  <2>1. /\ i[t] \in Nat /\ loops \in Nat /\ Place(pc[t]) \in 0 .. 12
        /\ IF pc[t] = "done" THEN i[t] <= loops /\ Place(pc[t]) = 0
                             ELSE i[t] + 1 <= loops
    BY PlaceType, RWAssumption DEF IInv, TypeOK, AllRounds
  <2> QED
    BY <2>1 DEF Places
<1>2. IsFiniteSet(Threads)
  BY RWAssumption, FS_Union DEF Threads
<1>3. 13 * loops \in Nat
  BY RWAssumption
<1> QED
  BY <1>1, <1>2, <1>3, TotalWithin DEF Progress

\* A step of t that moves t on and nobody else.
Onward(t) ==
  /\ pc[t] # "done"
  /\ \A u \in Threads : u # t => pc'[u] = pc[u] /\ i'[u] = i[u]
  /\ \/ i' = i /\ Place(pc'[t]) > Place(pc[t])
     \/ i'[t] = i[t] + 1 /\ i[t] + 1 <= loops
          /\ (pc'[t] # "done" => i[t] + 1 < loops)

LEMMA ThreadOnward ==
  ASSUME IInv, IInv', NEW t \in Threads, Onward(t)
  PROVE  Progress' > Progress
<1>1. \A u \in Threads : u # t => Places'[u] = Places[u]
  BY DEF Places, Onward
<1>2. Place(pc'[t]) \in 0 .. 12 /\ i'[t] \in Nat
  BY PlaceNext DEF IInv
<1>3. \A u \in Threads : Places[u] \in Int
  BY PlaceType DEF IInv, Places
<1>4. Places'[t] \in Int /\ Places'[t] > Places[t]
  <2>1. /\ Place(pc[t]) \in 0 .. 12 /\ Place(pc'[t]) \in 0 .. 12
        /\ i[t] \in Nat /\ i'[t] \in Nat
    BY <1>2, PlaceType DEF IInv
  <2>2. \/ i'[t] = i[t] /\ Place(pc'[t]) > Place(pc[t])
        \/ i'[t] = i[t] + 1
    BY DEF Onward
  <2> QED
    BY <2>1, <2>2 DEF Places
<1>5. IsFiniteSet(Threads)
  BY RWAssumption, FS_Union DEF Threads
<1>6. Total(Places', Threads) - Total(Places, Threads) = Places'[t] - Places[t]
  BY <1>1, <1>3, <1>4, <1>5, TotalChange
<1>7. Total(Places', Threads) \in Int /\ Total(Places, Threads) \in Int
  BY <1>1, <1>3, <1>4, <1>5, TotalInt
<1> QED
  BY <1>3, <1>4, <1>6, <1>7 DEF Progress

LEMMA StepOnward ==
  ASSUME IInv, AllRounds, ~endless, Next, ~UNCHANGED vars
  PROVE  \E t \in Threads : Onward(t)
<1> USE RWAssumption DEF IInv, TypeOK, Threads, Move, Onward, sems, kind
<1>1. ASSUME NEW r \in Readers,
             \/ WaitFair(r) \/ WaitIn(r) \/ Incr(r) \/ TestIn(r) \/ FirstWait(r)
             \/ PostIn(r) \/ PostFair(r) \/ Read(r) \/ WaitOut(r) \/ Decr(r)
             \/ TestOut(r) \/ LastPost(r)
      PROVE  Onward(r)
  BY <1>1
  DEF WaitFair, WaitIn, Incr, TestIn, FirstWait, PostIn, PostFair, Read,
      WaitOut, Decr, TestOut, LastPost, Enter, Place
<1>2. ASSUME NEW w \in Writers,
             \/ WaitFair(w) \/ WaitWrite(w) \/ Load(w) \/ Store(w)
             \/ PostWrite(w) /\ fair
      PROVE  Onward(w)
  BY <1>2 DEF WaitFair, WaitWrite, Load, Store, PostWrite, Enter, Place
<1>3. ASSUME NEW t \in Threads, Iterate(t, pc[t]), pc[t] # "done"
      PROVE  Onward(t)
  BY <1>3 DEF Iterate, AllRounds, Start, Enter
<1>4. ASSUME NEW r \in Readers, PostOut(r) PROVE Onward(r)
  BY <1>3, <1>4 DEF PostOut, Iterate
<1>5. ASSUME NEW w \in Writers, ReleaseFair(w) \/ (PostWrite(w) /\ ~fair)
      PROVE  Onward(w)
  BY <1>3, <1>5 DEF ReleaseFair, PostWrite, Iterate
<1> QED
  BY <1>1, <1>2, <1>4, <1>5 DEF Next, Reader, Writer, Terminating

\* AllRounds holds unless the readers are endless.
LEMMA RoundsInit == Init => AllRounds
BY RWAssumption DEF Init, AllRounds, Threads

LEMMA RoundsStep ==
  ASSUME IInv, AllRounds, ~endless, [Next]_vars
  PROVE  AllRounds' /\ ~endless'
<1>1. CASE UNCHANGED vars
  BY <1>1 DEF vars, AllRounds
<1>2. CASE Next /\ ~UNCHANGED vars
  <2>1. ~endless'
    BY <1>2
    DEF Next, Reader, Writer, Terminating, WaitFair, WaitIn, Incr, TestIn,
        FirstWait, PostIn, PostFair, Read, WaitOut, Decr, TestOut, LastPost,
        PostOut, WaitWrite, Load, Store, PostWrite, ReleaseFair, kind
  <2>2. PICK t \in Threads : Onward(t)
    BY <1>2, StepOnward
  <2>3. \A u \in Threads : i[u] \in Nat
    BY DEF IInv, TypeOK
  <2>4. Place("done") = 0 /\ Place(pc[t]) \in 0 .. 12
    BY PlaceType DEF IInv, Place
  <2> QED
    BY <2>1, <2>2, <2>3, <2>4, RWAssumption DEF AllRounds, Onward
<1> QED
  BY <1>1, <1>2

(***************************************************************************)
(* Unless the readers are endless, both programs come to an end after 13   *)
(* steps for each iteration of each thread at most, whatever their order.  *)
(* (That they do not end earlier is NoDeadlock.)                           *)
(***************************************************************************)
THEOREM StepsRunOut ==
  Spec /\ ~endless
    => /\ [](Progress \in 0 .. Cardinality(Threads) * (13 * loops))
       /\ [][Progress' > Progress]_vars
<1>1. IInv /\ AllRounds => Progress \in 0 .. Cardinality(Threads) * (13 * loops)
  BY PlacesType
<1>2. IInv /\ AllRounds /\ ~endless /\ [Next]_vars => AllRounds' /\ ~endless'
  BY RoundsStep
<1>3. IInv /\ IInv' /\ AllRounds /\ ~endless /\ [Next]_vars
        => [Progress' > Progress]_vars
  BY StepOnward, ThreadOnward
<1>4. Init => AllRounds
  BY RoundsInit
<1> QED
  BY <1>1, <1>2, <1>3, <1>4, Inductive, PTL DEF Spec

-----------------------------------------------------------------------------
(***************************************************************************)
(* Both programs implement the readers-writers specification: a reader     *)
(* enters where it takes writelock or finds it taken, and leaves where it  *)
(* leaves the count.                                                       *)
(***************************************************************************)
THEOREM Refinement == Spec => ImplementsReadersWriters
<1>1. Init => RW!Init
  BY DEF Init, RW!Init, At, Inside, Writing, Start, Enter
<1>2. IInv /\ [Next]_vars
        => [RW!Next]_<<At(Inside), At(Writing), At({"post_write"}), value>>
  <2> SUFFICES ASSUME IInv, [Next]_vars
               PROVE  \/ RW!Next
                      \/ UNCHANGED <<At(Inside), At(Writing),
                                     At({"post_write"}), value>>
    OBVIOUS
  <2> DEFINE Stutter == UNCHANGED <<At(Inside), At(Writing),
                                    At({"post_write"}), value>>
  <2> USE RWAssumption
      DEF IInv, TypeOK, Threads, Move, At, Inside, Writing, Start, Enter,
          sems, kind, CountSection, FairSection
  <2>1. ASSUME NEW r \in Readers, TestIn(r) PROVE RW!Next \/ Stutter
    <3>1. CASE readers = 1
      BY <2>1, <3>1 DEF TestIn
    <3>2. CASE readers # 1
      <4>1. PICK u \in Threads \ {r} : pc[u] \in {"post_fair", "read", "wait_out"}
        BY <2>1, <3>2, AnotherInside DEF TestIn, Counted
      <4>2. At(Writing) = {}
        BY <4>1 DEF WritelockHeld, GroupHolds
      <4>3. RW!EnterRead(r)
        BY <2>1, <3>2, <4>2 DEF TestIn, RW!EnterRead
      <4> QED
        BY <4>3 DEF RW!Next
    <3> QED
      BY <3>1, <3>2
  <2>2. ASSUME NEW r \in Readers, FirstWait(r) PROVE RW!Next
    <3>1. RW!EnterRead(r)
      BY <2>2 DEF FirstWait, SemWait, WritelockHeld, RW!EnterRead
    <3> QED
      BY <3>1 DEF RW!Next
  <2>3. ASSUME NEW r \in Readers, Decr(r) PROVE RW!Next
    <3>1. RW!LeaveRead(r)
      BY <2>3 DEF Decr, RW!LeaveRead
    <3> QED
      BY <3>1 DEF RW!Next
  <2>4. ASSUME NEW r \in Readers,
               WaitFair(r) \/ WaitIn(r) \/ Incr(r) \/ PostIn(r) \/ PostFair(r)
               \/ Read(r) \/ WaitOut(r) \/ TestOut(r) \/ LastPost(r)
               \/ PostOut(r)
        PROVE  Stutter
    BY <2>4
    DEF WaitFair, WaitIn, Incr, PostIn, PostFair, Read, WaitOut, TestOut,
        LastPost, PostOut, Iterate
  <2>5. ASSUME NEW w \in Writers, WaitWrite(w) PROVE RW!Next
    <3>1. RW!EnterWrite(w)
      BY <2>5
      DEF WaitWrite, SemWait, WritelockHeld, GroupHolds, RW!EnterWrite
    <3> QED
      BY <3>1 DEF RW!Next
  <2>6. ASSUME NEW w \in Writers, WaitFair(w) \/ Load(w) \/ ReleaseFair(w)
        PROVE  Stutter
    BY <2>6 DEF WaitFair, Load, ReleaseFair, Iterate
  <2>7. ASSUME NEW w \in Writers, Store(w) PROVE RW!Next
    <3>1. RW!Write(w)
      BY <2>7 DEF Store, FreshLoad, RW!Write
    <3> QED
      BY <3>1 DEF RW!Next
  <2>8. ASSUME NEW w \in Writers, PostWrite(w) PROVE RW!Next
    <3>1. RW!LeaveWrite(w)
      BY <2>8 DEF PostWrite, Iterate, RW!LeaveWrite
    <3> QED
      BY <3>1 DEF RW!Next
  <2>9. CASE UNCHANGED vars
    BY <2>9 DEF vars
  <2> QED
    BY <2>1, <2>2, <2>3, <2>4, <2>5, <2>6, <2>7, <2>8, <2>9
    DEF Next, Reader, Writer, Terminating
<1> QED
  BY <1>1, <1>2, Inductive, PTL
  DEF Spec, ImplementsReadersWriters, RW!Spec, RW!vars

(***************************************************************************)
(* Once a writer waits for writelock with fair_lock in hand, no reader     *)
(* joins the group: a reader enters only while it holds fair_lock.         *)
(***************************************************************************)
THEOREM NotOvertaken == Spec => WriterNotOvertaken
<1>1. IInv /\ [Next]_vars
        => [fair /\ At({"wait_write"}) # {} => At(Inside)' \subseteq At(Inside)]_vars
  <2> SUFFICES ASSUME IInv, [Next]_vars, fair, At({"wait_write"}) # {}
               PROVE  At(Inside)' \subseteq At(Inside)
    OBVIOUS
  <2> USE DEF IInv, TypeOK, Threads, Move, At, Inside, Start, Enter, sems, kind
  <2>1. ASSUME NEW r \in Readers, TestIn(r) \/ FirstWait(r) PROVE FALSE
    <3>1. \A t, u \in At(FairSection) : t = u
      BY DEF SectionExclusion
    <3>2. PICK w \in Threads : pc[w] = "wait_write"
      OBVIOUS
    <3>3. pc[r] \in {"test_in", "first_wait"}
      BY <2>1 DEF TestIn, FirstWait
    <3>4. r \in At(FairSection) /\ w \in At(FairSection)
      BY <3>2, <3>3 DEF FairSection
    <3> QED
      BY <3>1, <3>2, <3>3, <3>4
  <2>2. ASSUME NEW r \in Readers,
               WaitFair(r) \/ WaitIn(r) \/ Incr(r) \/ PostIn(r) \/ PostFair(r)
               \/ Read(r) \/ WaitOut(r) \/ Decr(r) \/ TestOut(r)
               \/ LastPost(r) \/ PostOut(r)
        PROVE  At(Inside)' \subseteq At(Inside)
    BY <2>2
    DEF WaitFair, WaitIn, Incr, PostIn, PostFair, Read, WaitOut, Decr,
        TestOut, LastPost, PostOut, Iterate
  <2>3. ASSUME NEW w \in Writers, Writer(w)
        PROVE  At(Inside)' \subseteq At(Inside)
    BY <2>3
    DEF Writer, WaitFair, WaitWrite, Load, Store, PostWrite, ReleaseFair,
        Iterate, Writing
  <2>4. CASE UNCHANGED vars
    BY <2>4 DEF vars
  <2> QED
    BY <2>1, <2>2, <2>3, <2>4 DEF Next, Reader, Terminating
<1> QED
  BY <1>1, Inductive, PTL DEF Spec, WriterNotOvertaken

=============================================================================
