---------------------------- MODULE BufferProofs ----------------------------
(***************************************************************************)
(* Proofs about Buffer, for any finite sets of producers and consumers,    *)
(* any MAX and any number of loops.                                        *)
(***************************************************************************)
EXTENDS Buffer, Counting, SequenceTheorems

LEMMA SetsFinite ==
  /\ IsFiniteSet(Filling) /\ IsFiniteSet(Draining)
  /\ IsFiniteSet(Posting) /\ IsFiniteSet(Claiming)
  /\ Cardinality(Filling) \in Nat /\ Cardinality(Draining) \in Nat
  /\ Cardinality(Posting) \in Nat /\ Cardinality(Claiming) \in Nat
BY BufferAssumption, FS_Subset, FS_CardinalityType
DEF Filling, Draining, Posting, Claiming, At

\* Adding an index below MAX to a distance of at most MAX wraps once.
LEMMA Wrap ==
  ASSUME NEW a \in Slots, NEW b \in 0 .. MAX
  PROVE  /\ (a + b) % MAX = IF a + b < MAX THEN a + b ELSE a + b - MAX
         /\ (a + b) % MAX \in Slots
BY BufferAssumption DEF Slots

\* The ring never holds more than MAX items; a producer on its way in finds
\* room, a consumer that has claimed an item finds one.
LEMMA CountRange ==
  ASSUME IInv
  PROVE  /\ Count \in 0 .. MAX
         /\ \A p \in Filling \ Posting : Count < MAX
         /\ \A c \in Claiming : Count > 0
<1>1. /\ Posting \subseteq Filling
      /\ Claiming \subseteq Draining
  BY DEF Posting, Filling, Claiming, Draining, At
<1>2. /\ Cardinality(Posting) <= Cardinality(Filling)
      /\ Cardinality(Claiming) <= Cardinality(Draining)
      /\ Cardinality(Posting) = Cardinality(Filling) => Posting = Filling
  BY <1>1, SetsFinite, FS_Subset
<1>3. Count \in 0 .. MAX
  BY <1>2, SetsFinite, BufferAssumption
  DEF IInv, TypeOK, SlotAccounting, Count
<1>4. ASSUME NEW p \in Filling \ Posting PROVE Count < MAX
  <2>1. Cardinality(Posting) < Cardinality(Filling)
    BY <1>2, <1>4, SetsFinite
  <2> QED
    BY <1>2, <2>1, SetsFinite, BufferAssumption
    DEF IInv, TypeOK, SlotAccounting, Count
<1>5. ASSUME NEW c \in Claiming PROVE Count > 0
  <2>1. Cardinality(Claiming) > 0
    BY <1>5, SetsFinite, CountIsNat
  <2> QED
    BY <2>1, SetsFinite DEF IInv, TypeOK, Count
<1> QED
  BY <1>3, <1>4, <1>5

LEMMA InitInvariant == Init => IInv
<1> SUFFICES ASSUME Init PROVE IInv
  OBVIOUS
<1>1. Filling = {} /\ Draining = {} /\ Posting = {} /\ Claiming = {}
  BY BufferAssumption
  DEF Init, Start, Filling, Draining, Posting, Claiming, At, Threads
<1>2. Cardinality({}) = 0
  BY FS_EmptySet
<1>3. SlotAccounting
  BY <1>1, <1>2, BufferAssumption DEF Init, SlotAccounting
<1>4. RingIndices
  <2>1. (0 + 0) % MAX = 0
    BY Wrap, BufferAssumption DEF Slots
  <2> QED
    BY <1>1, <1>2, <2>1 DEF Init, RingIndices, Count
<1>5. TypeOK
  BY BufferAssumption
  DEF Init, TypeOK, Start, Threads, Slots, ProducerLabels, ConsumerLabels
<1> QED
  BY <1>3, <1>4, <1>5, BufferAssumption
  DEF Init, IInv, OneInRing, HalfDone, InLoop, Start, At, InRing, Threads

-----------------------------------------------------------------------------

\* What a step does to the accounts and to the number of items in the ring.
LEMMA StepAccounts ==
  ASSUME IInv, [Next]_vars
  PROVE  /\ SlotAccounting'
         /\ \/ Count' = Count + 1 /\ \E p \in Producers : AdvanceFill(p)
            \/ Count' = Count - 1 /\ \E c \in Consumers : AdvanceUse(c)
            \/ Count' = Count /\ UNCHANGED <<fill, use>>
<1> DEFINE Goal ==
      /\ SlotAccounting'
      /\ \/ Count' = Count + 1 /\ \E p \in Producers : AdvanceFill(p)
         \/ Count' = Count - 1 /\ \E c \in Consumers : AdvanceUse(c)
         \/ Count' = Count /\ UNCHANGED <<fill, use>>
<1> USE BufferAssumption, SetsFinite
    DEF IInv, TypeOK, Threads, Move, Iterate, Start, At, Filling, Draining,
        Posting, Claiming
<1>1. ASSUME NEW p \in Producers, WaitEmpty(p) PROVE Goal
  <2>1. /\ p \notin Filling /\ Filling' = Filling \cup {p}
        /\ UNCHANGED <<Draining, Posting, Claiming>>
    BY <1>1 DEF WaitEmpty
  <2>2. Cardinality(Filling)' = Cardinality(Filling) + 1
    BY <2>1, CountUp
  <2> HIDE DEF Filling, Draining, Posting, Claiming
  <2> QED
    BY <1>1, <2>1, <2>2 DEF WaitEmpty, SemWait, SlotAccounting, Count
<1>2. ASSUME NEW c \in Consumers, WaitFull(c) PROVE Goal
  <2>1. /\ c \notin Draining /\ Draining' = Draining \cup {c}
        /\ c \notin Claiming /\ Claiming' = Claiming \cup {c}
        /\ UNCHANGED <<Filling, Posting>>
    BY <1>2 DEF WaitFull
  <2>2. /\ Cardinality(Draining)' = Cardinality(Draining) + 1
        /\ Cardinality(Claiming)' = Cardinality(Claiming) + 1
    BY <2>1, CountUp
  <2> HIDE DEF Filling, Draining, Posting, Claiming
  <2> QED
    BY <1>2, <2>1, <2>2 DEF WaitFull, SemWait, SlotAccounting, Count
<1>3. ASSUME NEW t \in Threads, WaitMutex(t) PROVE Goal
  <2>1. UNCHANGED <<Filling, Draining, Posting, Claiming>>
    BY <1>3 DEF WaitMutex
  <2> HIDE DEF Filling, Draining, Posting, Claiming
  <2> QED
    BY <1>3, <2>1 DEF WaitMutex, SlotAccounting, Count
<1>4. ASSUME NEW p \in Producers, Store(p) PROVE Goal
  <2>1. UNCHANGED <<Filling, Draining, Posting, Claiming>>
    BY <1>4 DEF Store
  <2> HIDE DEF Filling, Draining, Posting, Claiming
  <2> QED
    BY <1>4, <2>1 DEF Store, SlotAccounting, Count
<1>5. ASSUME NEW p \in Producers, AdvanceFill(p) PROVE Goal
  <2>1. /\ p \notin Posting /\ Posting' = Posting \cup {p}
        /\ UNCHANGED <<Filling, Draining, Claiming>>
    BY <1>5 DEF AdvanceFill
  <2>2. Cardinality(Posting)' = Cardinality(Posting) + 1
    BY <2>1, CountUp
  <2> HIDE DEF Filling, Draining, Posting, Claiming
  <2>3. SlotAccounting' /\ Count' = Count + 1
    BY <1>5, <2>1, <2>2 DEF AdvanceFill, SlotAccounting, Count
  <2> QED
    BY <1>5, <2>3
<1>6. ASSUME NEW c \in Consumers, Load(c) PROVE Goal
  <2>1. UNCHANGED <<Filling, Draining, Posting, Claiming>>
    BY <1>6 DEF Load
  <2> HIDE DEF Filling, Draining, Posting, Claiming
  <2> QED
    BY <1>6, <2>1 DEF Load, SlotAccounting, Count
<1>7. ASSUME NEW c \in Consumers, AdvanceUse(c) PROVE Goal
  <2>1. /\ c \in Claiming /\ Claiming' = Claiming \ {c}
        /\ UNCHANGED <<Filling, Draining, Posting>>
    BY <1>7 DEF AdvanceUse
  <2>2. Cardinality(Claiming)' = Cardinality(Claiming) - 1
    BY <2>1, CountDown
  <2> HIDE DEF Filling, Draining, Posting, Claiming
  <2>3. SlotAccounting' /\ Count' = Count - 1
    BY <1>7, <2>1, <2>2 DEF AdvanceUse, SlotAccounting, Count
  <2> QED
    BY <1>7, <2>3
<1>8. ASSUME NEW t \in Threads, PostMutex(t) PROVE Goal
  <2>1. UNCHANGED <<Filling, Draining, Posting, Claiming>>
    BY <1>8 DEF PostMutex
  <2> HIDE DEF Filling, Draining, Posting, Claiming
  <2> QED
    BY <1>8, <2>1 DEF PostMutex, SlotAccounting, Count
<1>9. ASSUME NEW p \in Producers, PostFull(p) PROVE Goal
  <2>1. /\ p \in Filling /\ Filling' = Filling \ {p}
        /\ p \in Posting /\ Posting' = Posting \ {p}
        /\ UNCHANGED <<Draining, Claiming>>
    BY <1>9 DEF PostFull
  <2>2. /\ Cardinality(Filling)' = Cardinality(Filling) - 1
        /\ Cardinality(Posting)' = Cardinality(Posting) - 1
    BY <2>1, CountDown
  <2> HIDE DEF Filling, Draining, Posting, Claiming
  <2> QED
    BY <1>9, <2>1, <2>2 DEF PostFull, SemPost, SlotAccounting, Count
<1>10. ASSUME NEW c \in Consumers, PostEmpty(c) PROVE Goal
  <2>1. /\ c \in Draining /\ Draining' = Draining \ {c}
        /\ UNCHANGED <<Filling, Posting, Claiming>>
    BY <1>10 DEF PostEmpty
  <2>2. Cardinality(Draining)' = Cardinality(Draining) - 1
    BY <2>1, CountDown
  <2> HIDE DEF Filling, Draining, Posting, Claiming
  <2> QED
    BY <1>10, <2>1, <2>2 DEF PostEmpty, SemPost, SlotAccounting, Count
<1>11. CASE UNCHANGED vars
  <2>1. UNCHANGED <<Filling, Draining, Posting, Claiming>>
    BY <1>11 DEF vars
  <2> HIDE DEF Filling, Draining, Posting, Claiming
  <2> QED
    BY <1>11, <2>1 DEF vars, SlotAccounting, Count
<1> QED
  BY <1>1, <1>2, <1>3, <1>4, <1>5, <1>6, <1>7, <1>8, <1>9, <1>10, <1>11
  DEF Next, Produce, Consume, Terminating

LEMMA StepRing ==
  ASSUME IInv, [Next]_vars
  PROVE  OneInRing' /\ HalfDone'
<1> USE BufferAssumption
    DEF IInv, TypeOK, OneInRing, HalfDone, Threads, Move, Iterate, Start, At,
        InRing, ProducerLabels, ConsumerLabels
<1>1. ASSUME NEW t \in Threads, WaitMutex(t) PROVE OneInRing' /\ HalfDone'
  BY <1>1 DEF WaitMutex, SemWait
<1>2. ASSUME NEW p \in Producers, Store(p) PROVE OneInRing' /\ HalfDone'
  BY <1>2 DEF Store
<1>3. ASSUME NEW p \in Producers, AdvanceFill(p)
      PROVE  OneInRing' /\ HalfDone'
  BY <1>3 DEF AdvanceFill
<1>4. ASSUME NEW c \in Consumers, Load(c) PROVE OneInRing' /\ HalfDone'
  BY <1>4 DEF Load
<1>5. ASSUME NEW c \in Consumers, AdvanceUse(c) PROVE OneInRing' /\ HalfDone'
  BY <1>5 DEF AdvanceUse
<1>6. ASSUME NEW t \in Threads, PostMutex(t) PROVE OneInRing' /\ HalfDone'
  BY <1>6 DEF PostMutex, SemPost
<1>7. ASSUME NEW p \in Producers, WaitEmpty(p) \/ PostFull(p)
      PROVE  OneInRing' /\ HalfDone'
  BY <1>7 DEF WaitEmpty, PostFull
<1>8. ASSUME NEW c \in Consumers, WaitFull(c) \/ PostEmpty(c)
      PROVE  OneInRing' /\ HalfDone'
  BY <1>8 DEF WaitFull, PostEmpty
<1>9. CASE UNCHANGED vars
  BY <1>9 DEF vars
<1> QED
  BY <1>1, <1>2, <1>3, <1>4, <1>5, <1>6, <1>7, <1>8, <1>9
  DEF Next, Produce, Consume, Terminating

LEMMA StepIndices ==
  ASSUME IInv, [Next]_vars
  PROVE  RingIndices'
<1>1. CASE Count' = Count /\ UNCHANGED <<fill, use>>
  BY <1>1 DEF IInv, RingIndices
<1>2. ASSUME NEW p \in Producers, AdvanceFill(p), Count' = Count + 1
      PROVE  RingIndices'
  <2>1. p \in Filling \ Posting
    BY <1>2 DEF AdvanceFill, Move, Filling, Posting, At
  <2>2. Count \in 0 .. MAX - 1 /\ use \in Slots
    BY <2>1, CountRange, BufferAssumption DEF IInv, TypeOK
  <2>3. fill = IF use + Count < MAX THEN use + Count ELSE use + Count - MAX
    BY <2>2, Wrap, BufferAssumption DEF IInv, RingIndices
  <2>4. (fill + 1) % MAX = IF fill + 1 < MAX THEN fill + 1 ELSE fill + 1 - MAX
    BY Wrap, BufferAssumption DEF IInv, TypeOK
  <2>5. (use + (Count + 1)) % MAX = IF use + (Count + 1) < MAX
                                    THEN use + (Count + 1)
                                    ELSE use + (Count + 1) - MAX
    <3>1. Count + 1 \in 0 .. MAX
      BY <2>2, BufferAssumption
    <3> QED
      BY <2>2, <3>1, Wrap
  <2>6. (use + (Count + 1)) % MAX = (fill + 1) % MAX
    BY <2>2, <2>3, <2>4, <2>5, BufferAssumption DEF Slots
  <2> QED
    BY <1>2, <2>6 DEF RingIndices, AdvanceFill
<1>3. ASSUME NEW c \in Consumers, AdvanceUse(c), Count' = Count - 1
      PROVE  RingIndices'
  <2>1. c \in Claiming
    BY <1>3 DEF AdvanceUse, Move, Claiming, At
  <2>2. Count \in 1 .. MAX /\ use \in Slots
    BY <2>1, CountRange, BufferAssumption DEF IInv, TypeOK
  <2>3. fill = IF use + Count < MAX THEN use + Count ELSE use + Count - MAX
    BY <2>2, Wrap, BufferAssumption DEF IInv, RingIndices
  <2>4. use' = IF use + 1 < MAX THEN use + 1 ELSE use + 1 - MAX
    BY <1>3, <2>2, Wrap, BufferAssumption DEF AdvanceUse
  <2>5. use' \in Slots /\ Count - 1 \in 0 .. MAX
    BY <2>2, <2>4, BufferAssumption DEF Slots
  <2>6. (use' + (Count - 1)) % MAX = IF use' + (Count - 1) < MAX
                                     THEN use' + (Count - 1)
                                     ELSE use' + (Count - 1) - MAX
    BY <2>5, Wrap
  <2>7. (use' + (Count - 1)) % MAX = fill
    BY <2>2, <2>3, <2>4, <2>6, BufferAssumption DEF Slots
  <2> QED
    BY <1>3, <2>7 DEF RingIndices, AdvanceUse
<1> QED
  BY <1>1, <1>2, <1>3, StepAccounts

\* full stays in range because the accounts do.
LEMMA StepType ==
  ASSUME IInv, [Next]_vars
  PROVE  TypeOK' /\ InLoop'
<1> USE BufferAssumption
    DEF IInv, TypeOK, InLoop, Threads, Move, Iterate, Start, ProducerLabels,
        ConsumerLabels, SemWait, SemPost, Items
<1>1. ASSUME NEW p \in Producers, WaitEmpty(p) PROVE TypeOK' /\ InLoop'
  BY <1>1 DEF WaitEmpty
<1>2. ASSUME NEW c \in Consumers, WaitFull(c) PROVE TypeOK' /\ InLoop'
  BY <1>2 DEF WaitFull
<1>3. ASSUME NEW t \in Threads, WaitMutex(t) PROVE TypeOK' /\ InLoop'
  BY <1>3 DEF WaitMutex
<1>4. ASSUME NEW p \in Producers, Store(p) PROVE TypeOK' /\ InLoop'
  BY <1>4 DEF Store
<1>5. ASSUME NEW p \in Producers, AdvanceFill(p) PROVE TypeOK' /\ InLoop'
  <2>1. fill' \in Slots
    BY <1>5, Wrap DEF AdvanceFill
  <2> QED
    BY <1>5, <2>1 DEF AdvanceFill
<1>6. ASSUME NEW c \in Consumers, Load(c) PROVE TypeOK' /\ InLoop'
  BY <1>6 DEF Load
<1>7. ASSUME NEW c \in Consumers, AdvanceUse(c) PROVE TypeOK' /\ InLoop'
  <2>1. use' \in Slots
    BY <1>7, Wrap DEF AdvanceUse
  <2> QED
    BY <1>7, <2>1 DEF AdvanceUse
<1>8. ASSUME NEW t \in Threads, PostMutex(t) PROVE TypeOK' /\ InLoop'
  BY <1>8 DEF PostMutex, OneInRing, At, InRing
<1>9. ASSUME NEW p \in Producers, PostFull(p) PROVE TypeOK' /\ InLoop'
  <2>1. full < MAX
    <3>1. Cardinality(Filling) > 0
      <4>1. p \in Filling
        BY <1>9 DEF PostFull, Filling, At
      <4> QED
        BY <4>1, SetsFinite, CountIsNat
    <3> QED
      BY <3>1, SetsFinite DEF SlotAccounting
  <2> QED
    BY <1>9, <2>1 DEF PostFull
<1>10. ASSUME NEW c \in Consumers, PostEmpty(c) PROVE TypeOK' /\ InLoop'
  <2>1. empty < MAX
    <3>1. Cardinality(Draining) > 0
      <4>1. c \in Draining
        BY <1>10 DEF PostEmpty, Draining, At
      <4> QED
        BY <4>1, SetsFinite, CountIsNat
    <3> QED
      BY <3>1, SetsFinite DEF SlotAccounting
  <2> QED
    BY <1>10, <2>1 DEF PostEmpty
<1>11. CASE UNCHANGED vars
  BY <1>11 DEF vars
<1> QED
  BY <1>1, <1>2, <1>3, <1>4, <1>5, <1>6, <1>7, <1>8, <1>9, <1>10, <1>11
  DEF Next, Produce, Consume, Terminating

LEMMA Inductive == Spec => []IInv
<1>1. Init => IInv
  BY InitInvariant
<1>2. IInv /\ [Next]_vars => IInv'
  BY StepAccounts, StepRing, StepIndices, StepType DEF IInv
<1> QED
  BY <1>1, <1>2, PTL DEF Spec

-----------------------------------------------------------------------------
\* The iterations behind full.

Posted ==
  full = Total(i, Producers) - Total(i, Consumers) - Cardinality(Draining)

LEMMA PostedNow == FullPosted <=> Posted
BY DEF FullPosted, Posted, Total

LEMMA PostedNext == FullPosted' <=> Posted'
BY PostedNow, PTL

LEMMA IterationTypes ==
  ASSUME IInv
  PROVE  /\ \A t \in Threads : i[t] \in Nat /\ i[t] <= loops
         /\ Total(i, Producers) \in Int /\ Total(i, Consumers) \in Int
         /\ \A t \in Producers \cup Consumers : i[t] \in Int
<1>1. \A t \in Threads : i[t] \in Nat /\ i[t] <= loops
  BY BufferAssumption DEF IInv, TypeOK
<1> QED
  BY <1>1, TotalInt, BufferAssumption DEF Threads

LEMMA InitPosted == Init => FullPosted /\ DoneInLoops
<1> SUFFICES ASSUME Init PROVE FullPosted /\ DoneInLoops
  OBVIOUS
<1>1. Draining = {}
  BY BufferAssumption DEF Init, Start, Draining, At, Threads
<1>2. Total(i, Producers) = 0 /\ Total(i, Consumers) = 0
  BY TotalZero, BufferAssumption DEF Init, Threads
<1>3. Posted
  BY <1>1, <1>2, FS_EmptySet DEF Init, Posted
<1>4. DoneInLoops
  BY BufferAssumption DEF Init, Start, Threads, DoneInLoops
<1> QED
  BY <1>3, <1>4, PostedNow

\* Only three steps change an account behind full.
LEMMA StepPosted ==
  ASSUME IInv, FullPosted, [Next]_vars
  PROVE  FullPosted'
<1> SUFFICES Posted'
  BY PostedNext
<1>0. Posted
  BY PostedNow
<1> USE BufferAssumption, SetsFinite, IterationTypes
<1>1. ASSUME NEW c \in Consumers, WaitFull(c) PROVE Posted'
  <2>1. c \notin Draining /\ Draining' = Draining \cup {c}
    BY <1>1 DEF WaitFull, Move, Draining, At, IInv, TypeOK, Threads
  <2>2. Cardinality(Draining)' = Cardinality(Draining) + 1
    BY <2>1, CountUp
  <2> QED
    BY <1>0, <1>1, <2>2 DEF WaitFull, SemWait, Posted, IInv, TypeOK
<1>2. ASSUME NEW p \in Producers, PostFull(p) PROVE Posted'
  <2>1. UNCHANGED Draining /\ i' = [i EXCEPT ![p] = @ + 1] /\ full' = full + 1
    BY <1>2
    DEF PostFull, Iterate, Move, SemPost, Draining, At, IInv, TypeOK, Threads
  <2>2. /\ \A q \in Producers : q # p => i'[q] = i[q]
        /\ \A c \in Consumers : i'[c] = i[c]
        /\ i'[p] = i[p] + 1
    BY <2>1 DEF IInv, TypeOK, Threads
  <2>3. Total(i', Producers) = Total(i, Producers) + 1
    BY <2>2, TotalUp
  <2>4. Total(i', Consumers) = Total(i, Consumers)
    BY <2>2, TotalSame
  <2> QED
    BY <1>0, <2>1, <2>3, <2>4 DEF Posted, IInv, TypeOK
<1>3. ASSUME NEW c \in Consumers, PostEmpty(c) PROVE Posted'
  <2>1. /\ c \in Draining /\ Draining' = Draining \ {c}
        /\ i' = [i EXCEPT ![c] = @ + 1] /\ full' = full
    BY <1>3
    DEF PostEmpty, Iterate, Move, Start, Draining, At, IInv, TypeOK, Threads
  <2>2. /\ \A d \in Consumers : d # c => i'[d] = i[d]
        /\ \A p \in Producers : i'[p] = i[p]
        /\ i'[c] = i[c] + 1
    BY <2>1 DEF IInv, TypeOK, Threads
  <2>3. Total(i', Consumers) = Total(i, Consumers) + 1
    BY <2>2, TotalUp
  <2>4. Total(i', Producers) = Total(i, Producers)
    BY <2>2, TotalSame
  <2>5. Cardinality(Draining)' = Cardinality(Draining) - 1
    BY <2>1, CountDown
  <2> QED
    BY <1>0, <2>1, <2>3, <2>4, <2>5 DEF Posted, IInv, TypeOK
<1>4. ASSUME UNCHANGED <<full, i, Draining>> PROVE Posted'
  BY <1>0, <1>4 DEF Posted
<1>5. ASSUME NEW p \in Producers,
             WaitEmpty(p) \/ WaitMutex(p) \/ Store(p) \/ AdvanceFill(p)
             \/ PostMutex(p)
      PROVE  UNCHANGED <<full, i, Draining>>
  BY <1>5
  DEF WaitEmpty, WaitMutex, Store, AdvanceFill, PostMutex, Move, Draining, At,
      IInv, TypeOK, Threads
<1>6. ASSUME NEW c \in Consumers,
             WaitMutex(c) \/ Load(c) \/ AdvanceUse(c) \/ PostMutex(c)
      PROVE  UNCHANGED <<full, i, Draining>>
  BY <1>6
  DEF WaitMutex, Load, AdvanceUse, PostMutex, Move, Draining, At, IInv, TypeOK,
      Threads
<1>7. ASSUME UNCHANGED vars PROVE UNCHANGED <<full, i, Draining>>
  BY <1>7 DEF vars, Draining, At
<1> QED
  BY <1>1, <1>2, <1>3, <1>4, <1>5, <1>6, <1>7
  DEF Next, Produce, Consume, Terminating

\* A thread leaves its loop in the iteration that makes i loops.
LEMMA StepDone ==
  ASSUME IInv, DoneInLoops, [Next]_vars
  PROVE  DoneInLoops'
<1> USE BufferAssumption
    DEF IInv, TypeOK, InLoop, DoneInLoops, Threads, Move, Iterate, Start
<1>1. ASSUME NEW p \in Producers, Produce(p) PROVE DoneInLoops'
  <2>1. CASE PostFull(p)
    BY <2>1 DEF PostFull
  <2>2. CASE WaitEmpty(p) \/ WaitMutex(p) \/ Store(p) \/ AdvanceFill(p)
             \/ PostMutex(p)
    BY <2>2 DEF WaitEmpty, WaitMutex, Store, AdvanceFill, PostMutex
  <2> QED
    BY <1>1, <2>1, <2>2 DEF Produce
<1>2. ASSUME NEW c \in Consumers, Consume(c) PROVE DoneInLoops'
  <2>1. CASE PostEmpty(c)
    BY <2>1 DEF PostEmpty
  <2>2. CASE WaitFull(c) \/ WaitMutex(c) \/ Load(c) \/ AdvanceUse(c)
             \/ PostMutex(c)
    BY <2>2 DEF WaitFull, WaitMutex, Load, AdvanceUse, PostMutex
  <2> QED
    BY <1>2, <2>1, <2>2 DEF Consume
<1>3. CASE UNCHANGED vars
  BY <1>3 DEF vars
<1> QED
  BY <1>1, <1>2, <1>3 DEF Next, Terminating

\* Threads that are done have gone round loops times, each of the others less.
LEMMA Rounds ==
  ASSUME IInv, DoneInLoops, NEW S \in {Producers, Consumers}
  PROVE  /\ (\A t \in S : pc[t] = "done") =>
              Total(i, S) = Cardinality(S) * loops
         /\ (\E t \in S : pc[t] # "done") =>
              Total(i, S) < Cardinality(S) * loops
<1>1. IsFiniteSet(S) /\ S \subseteq Threads /\ loops \in Nat
  BY BufferAssumption DEF Threads
<1>2. \A t \in S : i[t] \in Nat /\ i[t] <= loops
  BY <1>1, IterationTypes
<1>3. ASSUME \A t \in S : pc[t] = "done"
      PROVE  Total(i, S) = Cardinality(S) * loops
  BY <1>1, <1>3, TotalConstant DEF DoneInLoops
<1>4. ASSUME NEW t \in S, pc[t] # "done"
      PROVE  Total(i, S) < Cardinality(S) * loops
  BY <1>1, <1>2, <1>4, TotalBelow DEF IInv, InLoop
<1> QED
  BY <1>3, <1>4

\* Nobody is inside mutex and everybody is done or sleeps: then nobody holds a
\* slot or an item, and the side that is not asleep would have had to go round
\* more often than the other.
LEMMA SomebodyRuns ==
  ASSUME IInv, FullPosted, DoneInLoops
  PROVE  NoDeadlock
<1> SUFFICES ASSUME Cardinality(Producers) = Cardinality(Consumers), ~Finished,
                    \A t \in Threads : pc[t] = "done" \/ Blocked(t)
             PROVE  FALSE
  BY DEF NoDeadlock
<1>1. mutex = 1
  <2> SUFFICES ASSUME mutex # 1 PROVE FALSE
    OBVIOUS
  <2>1. PICK t \in Threads : pc[t] \in InRing
    BY DEF IInv, OneInRing, At
  <2> QED
    BY <2>1 DEF Blocked, InRing
<1>2. Filling = {} /\ Draining = {}
  BY <1>1 DEF Filling, Draining, At, Threads, Blocked
<1>3. empty + full = MAX /\ empty \in Nat /\ full \in Nat
  BY <1>2, FS_EmptySet, BufferAssumption DEF IInv, TypeOK, SlotAccounting
<1>4. full = Total(i, Producers) - Total(i, Consumers)
  BY <1>2, <1>3, FS_EmptySet, PostedNow, IterationTypes DEF Posted
<1>5. Cardinality(Producers) * loops \in Int
  BY CountIsNat, BufferAssumption
<1>6. PICK t \in Threads : pc[t] # "done"
  BY DEF Finished
<1>7. CASE empty # 0
  <2>1. \A p \in Producers : pc[p] = "done"
    BY <1>1, <1>7 DEF Threads, Blocked, IInv, TypeOK, ProducerLabels
  <2>2. t \in Consumers /\ full = 0
    BY <1>1, <1>6, <2>1 DEF Threads, Blocked, IInv, TypeOK, ConsumerLabels
  <2> QED
    BY <1>4, <1>5, <1>6, <2>1, <2>2, Rounds, IterationTypes
<1>8. CASE empty = 0
  <2>1. full > 0
    BY <1>3, <1>8, BufferAssumption
  <2>2. \A c \in Consumers : pc[c] = "done"
    BY <1>1, <2>1 DEF Threads, Blocked, IInv, TypeOK, ConsumerLabels
  <2>3. t \in Producers
    BY <1>6, <2>2 DEF Threads
  <2> QED
    BY <1>4, <1>5, <1>6, <2>1, <2>2, <2>3, Rounds, IterationTypes
<1> QED
  BY <1>7, <1>8

(***************************************************************************)
(* The semaphores and the threads between them account for all MAX slots,  *)
(* one thread at a time is inside put or get, and no matter how producer   *)
(* and consumer interleave somebody who is not done can go on when there   *)
(* are as many consumers as producers.                                     *)
(***************************************************************************)
THEOREM Invariance == Spec => []Inv
<1>1. Init => FullPosted /\ DoneInLoops
  BY InitPosted
<1>2. IInv /\ FullPosted /\ DoneInLoops /\ [Next]_vars
        => FullPosted' /\ DoneInLoops'
  BY StepPosted, StepDone
<1>3. IInv /\ FullPosted /\ DoneInLoops => Inv
  BY SomebodyRuns DEF Inv
<1> QED
  BY <1>1, <1>2, <1>3, Inductive, PTL DEF Spec

(***************************************************************************)
(* With as many consumers as producers nothing is left when all have       *)
(* finished: every item put was got and every slot is free again.          *)
(***************************************************************************)
THEOREM EverythingGot ==
  Spec => [](Finished /\ Cardinality(Producers) = Cardinality(Consumers)
               => Count = 0 /\ empty = MAX)
<1>1. Inv /\ Finished /\ Cardinality(Producers) = Cardinality(Consumers)
        => Count = 0 /\ empty = MAX
  <2> SUFFICES ASSUME Inv, Finished,
                      Cardinality(Producers) = Cardinality(Consumers)
               PROVE  Count = 0 /\ empty = MAX
    OBVIOUS
  <2>1. Filling = {} /\ Draining = {} /\ Posting = {} /\ Claiming = {}
    BY DEF Finished, Filling, Draining, Posting, Claiming, At, Threads
  <2>2. /\ Total(i, Producers) = Cardinality(Producers) * loops
        /\ Total(i, Consumers) = Cardinality(Consumers) * loops
    BY Rounds DEF Inv, Finished, Threads
  <2>3. full = 0
    BY <2>1, <2>2, FS_EmptySet, PostedNow, IterationTypes DEF Inv, Posted
  <2> QED
    BY <2>1, <2>3, FS_EmptySet, BufferAssumption
    DEF Inv, IInv, TypeOK, SlotAccounting, Count
<1> QED
  BY <1>1, Invariance, PTL

-----------------------------------------------------------------------------
\* Where a thread is in an iteration, and how far it is in all.
Place(label) ==
  CASE label \in {"wait_empty", "wait_full", "done"} -> 0
    [] label = "wait_mutex" -> 1
    [] label \in {"store", "load"} -> 2
    [] label \in {"advance_fill", "advance_use"} -> 3
    [] label = "post_mutex" -> 4
    [] label \in {"post_full", "post_empty"} -> 5

Places == [t \in Threads |-> 6 * i[t] + Place(pc[t])]

Progress == Total(Places, Threads)

LEMMA PlacesType ==
  ASSUME IInv, DoneInLoops
  PROVE  /\ \A t \in Threads : Places[t] \in 0 .. 6 * loops
         /\ Progress \in 0 .. Cardinality(Threads) * (6 * loops)
<1>1. ASSUME NEW t \in Threads PROVE Places[t] \in 0 .. 6 * loops
  <2>1. i[t] \in 0 .. loops /\ loops \in Nat
    BY BufferAssumption DEF IInv, TypeOK
  <2>2. Place(pc[t]) \in 0 .. 5
    BY DEF Place, IInv, TypeOK, ProducerLabels, ConsumerLabels
  <2>3. IF i[t] = loops THEN Place(pc[t]) = 0 ELSE i[t] + 1 <= loops
    BY <2>1 DEF DoneInLoops, Place
  <2> QED
    BY <2>1, <2>2, <2>3 DEF Places
<1>2. IsFiniteSet(Threads)
  BY BufferAssumption, FS_Union DEF Threads
<1>3. 6 * loops \in Nat
  BY BufferAssumption
<1> QED
  BY <1>1, <1>2, <1>3, TotalWithin DEF Progress

\* A thread that moves on by one.
LEMMA ThreadOnward ==
  ASSUME IInv, DoneInLoops, NEW t \in Threads, Places'[t] = Places[t] + 1,
         \A u \in Threads : u # t => pc'[u] = pc[u] /\ i'[u] = i[u]
  PROVE  Progress' = Progress + 1
<1>1. \A u \in Threads : u # t => Places'[u] = Places[u]
  BY DEF Places
<1>2. IsFiniteSet(Threads)
  BY BufferAssumption, FS_Union DEF Threads
<1>3. \A u \in Threads : Places[u] \in Int
  BY PlacesType
<1>4. Total(Places', Threads) = Total(Places, Threads) + 1
  BY <1>1, <1>2, <1>3, TotalUp
<1> QED
  BY <1>4 DEF Progress

LEMMA StepOnward ==
  ASSUME IInv, DoneInLoops, Next, ~UNCHANGED vars
  PROVE  Progress' = Progress + 1
<1> DEFINE Onward(t) ==
      /\ Places'[t] = Places[t] + 1
      /\ \A u \in Threads : u # t => pc'[u] = pc[u] /\ i'[u] = i[u]
<1> USE DEF IInv, TypeOK, InLoop, Threads, Move
<1>1. ASSUME NEW p \in Producers,
             WaitEmpty(p) \/ WaitMutex(p) \/ Store(p) \/ AdvanceFill(p)
             \/ PostMutex(p)
      PROVE  Onward(p)
  <2>1. /\ Place(pc'[p]) = Place(pc[p]) + 1 /\ Place(pc[p]) \in Int
        /\ i' = i /\ i[p] \in Int
        /\ \A u \in Threads : u # p => pc'[u] = pc[u]
    BY <1>1 DEF WaitEmpty, WaitMutex, Store, AdvanceFill, PostMutex, Place
  <2> QED
    BY <2>1 DEF Places
<1>2. ASSUME NEW c \in Consumers,
             WaitFull(c) \/ WaitMutex(c) \/ Load(c) \/ AdvanceUse(c)
             \/ PostMutex(c)
      PROVE  Onward(c)
  <2>0. c \notin Producers
    BY BufferAssumption
  <2>1. /\ Place(pc'[c]) = Place(pc[c]) + 1 /\ Place(pc[c]) \in Int
        /\ i' = i /\ i[c] \in Int
        /\ \A u \in Threads : u # c => pc'[u] = pc[u]
    BY <1>2, <2>0 DEF WaitFull, WaitMutex, Load, AdvanceUse, PostMutex, Place
  <2> QED
    BY <2>1 DEF Places
<1>3. ASSUME NEW t \in Threads, Iterate(t, pc[t]),
             pc[t] \in {"post_full", "post_empty"}
      PROVE  Onward(t)
  <2>1. /\ Place(pc[t]) = 5 /\ Place(pc'[t]) = 0
        /\ i'[t] = i[t] + 1 /\ i[t] \in Int
        /\ \A u \in Threads : u # t => pc'[u] = pc[u] /\ i'[u] = i[u]
    BY <1>3 DEF Iterate, Start, Place
  <2> QED
    BY <2>1 DEF Places
<1>4. ASSUME NEW p \in Producers, PostFull(p) PROVE Onward(p)
  BY <1>3, <1>4 DEF PostFull, Iterate
<1>5. ASSUME NEW c \in Consumers, PostEmpty(c) PROVE Onward(c)
  BY <1>3, <1>5 DEF PostEmpty, Iterate
<1>6. PICK t \in Threads : Onward(t)
  BY <1>1, <1>2, <1>4, <1>5 DEF Next, Produce, Consume, Terminating
<1> QED
  BY <1>6, ThreadOnward

(***************************************************************************)
(* buffer.c comes to an end after six steps for each iteration of each     *)
(* thread, whatever their order: every step is one of them.  (That it does *)
(* not end earlier is NoDeadlock.)                                         *)
(***************************************************************************)
THEOREM StepsRunOut ==
  Spec => /\ [](Progress \in 0 .. Cardinality(Threads) * (6 * loops))
          /\ [][Progress' = Progress + 1]_vars
<1>1. IInv /\ DoneInLoops
        => Progress \in 0 .. Cardinality(Threads) * (6 * loops)
  BY PlacesType
<1>2. IInv /\ DoneInLoops /\ [Next]_vars => [Progress' = Progress + 1]_vars
  BY StepOnward
<1>3. Inv => IInv /\ DoneInLoops
  BY DEF Inv
<1> QED
  BY <1>1, <1>2, <1>3, Invariance, PTL DEF Spec

-----------------------------------------------------------------------------
\* The items of a ring b from slot u on, as a sequence.

Contents == Items \cup {NoItem}

Ring(b, u, n) == [k \in 1 .. n |-> b[(u + k - 1) % MAX]]

LEMMA RingIsSeq ==
  ASSUME NEW b \in [Slots -> Contents], NEW u \in Slots, NEW n \in 0 .. MAX
  PROVE  /\ Ring(b, u, n) \in Seq(Contents)
         /\ Len(Ring(b, u, n)) = n
         /\ \A k \in 1 .. n : Ring(b, u, n)[k] = b[(u + k - 1) % MAX]
<1>1. \A k \in 1 .. n : (u + k - 1) % MAX \in Slots
  <2> SUFFICES ASSUME NEW k \in 1 .. n PROVE (u + (k - 1)) % MAX \in Slots
    BY BufferAssumption DEF Slots
  <2>1. k - 1 \in 0 .. MAX
    BY BufferAssumption
  <2> QED
    BY <2>1, Wrap
<1>2. Ring(b, u, n) \in [1 .. n -> Contents]
  BY <1>1 DEF Ring
<1>3. n \in Nat
  BY BufferAssumption
<1>4. Ring(b, u, n) \in Seq(Contents)
  BY <1>2, <1>3, SeqDef
<1>5. Len(Ring(b, u, n)) = n
  BY <1>2, <1>3, <1>4, LenProperties
<1> QED
  BY <1>4, <1>5 DEF Ring

\* One more slot is one more item at the end.
LEMMA RingAppend ==
  ASSUME NEW b \in [Slots -> Contents], NEW u \in Slots,
         NEW n \in 0 .. MAX - 1
  PROVE  Ring(b, u, n + 1) = Append(Ring(b, u, n), b[(u + n) % MAX])
<1>1. n \in 0 .. MAX /\ n + 1 \in 0 .. MAX /\ n \in Nat
  BY BufferAssumption
<1> DEFINE e == b[(u + n) % MAX]
           s == Ring(b, u, n)
<1>2. e \in Contents
  BY <1>1, Wrap
<1>3. /\ s \in Seq(Contents) /\ Len(s) = n
      /\ Ring(b, u, n + 1) \in Seq(Contents)
      /\ Len(Ring(b, u, n + 1)) = n + 1
  BY <1>1, RingIsSeq
<1>4. /\ Append(s, e) \in Seq(Contents) /\ Len(Append(s, e)) = n + 1
      /\ \A k \in 1 .. n : Append(s, e)[k] = s[k]
      /\ Append(s, e)[n + 1] = e
  BY <1>2, <1>3, AppendProperties
<1>5. ASSUME NEW k \in 1 .. n + 1
      PROVE  Ring(b, u, n + 1)[k] = Append(s, e)[k]
  <2>1. CASE k = n + 1
    <3>1. u + (n + 1) - 1 = u + n
      BY <1>1 DEF Slots
    <3> QED
      BY <1>4, <2>1, <3>1 DEF Ring
  <2>2. CASE k # n + 1
    <3>1. k \in 1 .. n
      BY <1>1, <2>2
    <3> QED
      BY <1>4, <3>1 DEF Ring
  <2> QED
    BY <2>1, <2>2
<1> HIDE DEF e, s
<1>6. Ring(b, u, n + 1) = Append(s, e)
  BY <1>3, <1>4, <1>5, SeqEqual
<1> QED
  BY <1>6 DEF e, s

\* The first item is in slot u, the rest start one slot on.
LEMMA RingTail ==
  ASSUME NEW b \in [Slots -> Contents], NEW u \in Slots, NEW n \in 1 .. MAX
  PROVE  /\ Ring(b, u, n) # <<>>
         /\ Head(Ring(b, u, n)) = b[u]
         /\ Tail(Ring(b, u, n)) = Ring(b, (u + 1) % MAX, n - 1)
<1> DEFINE v == (u + 1) % MAX
           s == Ring(b, u, n)
           r == Ring(b, v, n - 1)
<1>1. /\ n \in 0 .. MAX /\ n - 1 \in 0 .. MAX /\ 1 \in 0 .. MAX
      /\ n \in Nat \ {0} /\ MAX \in Nat \ {0}
  BY BufferAssumption
<1>2. v \in Slots /\ v = IF u + 1 < MAX THEN u + 1 ELSE u + 1 - MAX
  BY <1>1, Wrap
<1>3. s \in Seq(Contents) /\ Len(s) = n
  BY <1>1, RingIsSeq
<1>4. r \in Seq(Contents) /\ Len(r) = n - 1
  BY <1>1, <1>2, RingIsSeq
<1>5. s # <<>>
  BY <1>1, <1>3, EmptySeq
<1>6. /\ Tail(s) \in Seq(Contents) /\ Len(Tail(s)) = n - 1
      /\ \A k \in 1 .. n - 1 : Tail(s)[k] = s[k + 1]
  BY <1>3, <1>5, HeadTailProperties
<1>7. Head(s) = b[u]
  <2>1. Head(s) = s[1]
    <3>1. SubSeq(s, 1, n) = s
      BY <1>3, SubSeqFull
    <3>2. 1 \in 1 .. Len(s) /\ n \in 1 .. Len(s)
      BY <1>1, <1>3
    <3>3. Head(SubSeq(s, 1, n)) = s[1]
      BY <1>3, <3>2, HeadTailOfSubSeq
    <3> QED
      BY <3>1, <3>3
  <2>2. (u + 1 - 1) % MAX = u
    <3>1. u + 1 - 1 = u + 0 /\ 0 \in 0 .. MAX
      BY <1>1 DEF Slots
    <3>2. (u + 0) % MAX = IF u + 0 < MAX THEN u + 0 ELSE u + 0 - MAX
      BY <3>1, Wrap
    <3>3. (u + 0) % MAX = u
      BY <1>1, <3>2 DEF Slots
    <3> QED
      BY <3>1, <3>3, Zenon
  <2>3. 1 \in 1 .. n
    BY <1>1
  <2> QED
    BY <2>1, <2>2, <2>3 DEF Ring
<1>8. ASSUME NEW k \in 1 .. n - 1 PROVE Tail(s)[k] = r[k]
  <2>1. /\ k \in 0 .. MAX /\ k - 1 \in 0 .. MAX /\ k + 1 \in 1 .. n
        /\ k < MAX
    BY <1>1
  <2>2. s[k + 1] = b[(u + k) % MAX]
    <3>1. u + (k + 1) - 1 = u + k
      BY <2>1 DEF Slots
    <3> QED
      BY <2>1, <3>1 DEF Ring
  <2>3. r[k] = b[(v + (k - 1)) % MAX]
    <3>1. v + k - 1 = v + (k - 1)
      BY <1>2, <2>1 DEF Slots
    <3> QED
      BY <3>1 DEF Ring
  <2>4. (u + k) % MAX = IF u + k < MAX THEN u + k ELSE u + k - MAX
    BY <2>1, Wrap
  <2>5. (v + (k - 1)) % MAX
          = IF v + (k - 1) < MAX THEN v + (k - 1) ELSE v + (k - 1) - MAX
    BY <1>2, <2>1, Wrap
  <2>6. (v + (k - 1)) % MAX = (u + k) % MAX
    <3>1. CASE u + 1 < MAX
      <4>1. v + (k - 1) = u + k
        BY <1>2, <2>1, <3>1 DEF Slots
      <4> QED
        BY <4>1
    <3>2. CASE ~(u + 1 < MAX)
      <4>1. u = MAX - 1 /\ v = 0
        BY <1>1, <1>2, <3>2 DEF Slots
      <4> QED
        BY <1>1, <2>1, <2>4, <2>5, <4>1
    <3> QED
      BY <3>1, <3>2
  <2> QED
    BY <1>6, <2>2, <2>3, <2>6
<1> HIDE DEF s, r
<1>9. Tail(s) = r
  BY <1>4, <1>6, <1>8, SeqEqual
<1> QED
  BY <1>5, <1>7, <1>9 DEF s, r

\* The slot behind the last item holds none of the items.
LEMMA RingSlots ==
  ASSUME NEW u \in Slots, NEW n \in 0 .. MAX - 1, NEW k \in 1 .. n
  PROVE  /\ (u + k - 1) % MAX \in Slots
         /\ (u + k - 1) % MAX # (u + n) % MAX
<1>1. /\ k - 1 \in 0 .. MAX /\ n \in 0 .. MAX /\ MAX \in Nat \ {0}
      /\ u + k - 1 = u + (k - 1)
  BY BufferAssumption DEF Slots
<1>2. /\ (u + (k - 1)) % MAX
           = IF u + (k - 1) < MAX THEN u + (k - 1) ELSE u + (k - 1) - MAX
      /\ (u + n) % MAX = IF u + n < MAX THEN u + n ELSE u + n - MAX
      /\ (u + (k - 1)) % MAX \in Slots
  BY <1>1, Wrap
<1> QED
  BY <1>1, <1>2 DEF Slots

(***************************************************************************)
(* buffer.c is a bounded FIFO queue: what the consumers get is what the    *)
(* producers put, each item once, in order, and never more than MAX are    *)
(* under way, for any number of threads and any size of the ring.          *)
(***************************************************************************)
THEOREM Refinement == Spec => ImplementsFIFO
<1>1. Init => FIFO!Init
  <2> SUFFICES ASSUME Init PROVE FIFO!Init
    OBVIOUS
  <2>1. Posting = {} /\ Claiming = {}
    BY BufferAssumption DEF Init, Start, Posting, Claiming, At, Threads
  <2>2. Count = 0
    BY <2>1, FS_EmptySet DEF Init, Count
  <2>3. Ring(buffer, use, 0) = <<>>
    <3>1. IInv
      BY InitInvariant
    <3>2. 0 \in 0 .. MAX
      BY BufferAssumption
    <3>3. /\ Ring(buffer, use, 0) \in Seq(Contents)
          /\ Len(Ring(buffer, use, 0)) = 0
      BY <3>1, <3>2, RingIsSeq DEF IInv, TypeOK, Contents
    <3> QED
      BY <3>3, EmptySeq
  <2>4. Sent = [p \in Producers |-> 0]
    BY DEF Init, Start, Threads, Sent
  <2> QED
    BY <2>2, <2>3, <2>4 DEF Init, FIFO!Init, Ring, Queue
<1>2. IInv /\ [Next]_vars => [FIFO!Next]_<<Queue, Sent, got>>
  <2> SUFFICES ASSUME IInv, [Next]_vars
               PROVE  FIFO!Next \/ UNCHANGED <<Queue, Sent, got>>
    OBVIOUS
  <2>0. /\ buffer \in [Slots -> Contents] /\ use \in Slots
        /\ Count \in 0 .. MAX
        /\ Queue = Ring(buffer, use, Count)
        /\ Queue' = Ring(buffer', use', Count')
        /\ Len(Queue) = Count
    BY CountRange, RingIsSeq DEF IInv, TypeOK, Contents, Queue, Ring
  <2>1. ASSUME NEW p \in Producers, AdvanceFill(p), Count' = Count + 1
        PROVE  FIFO!Next
    <3>1. p \in Filling \ Posting
      BY <2>1 DEF AdvanceFill, Move, Filling, Posting, At
    <3>2. Count \in 0 .. MAX - 1
      BY <2>0, <3>1, CountRange, BufferAssumption
    <3>3. buffer[(use + Count) % MAX] = <<p, i[p]>>
      BY <2>1 DEF IInv, RingIndices, HalfDone, AdvanceFill, Move
    <3>4. Queue' = Append(Queue, <<p, i[p]>>)
      <4>1. Queue' = Ring(buffer, use, Count + 1)
        BY <2>0, <2>1 DEF AdvanceFill
      <4> QED
        BY <2>0, <3>2, <3>3, <4>1, RingAppend
    <3>5. Sent[p] = i[p] /\ Sent' = [Sent EXCEPT ![p] = @ + 1]
      BY <2>1 DEF AdvanceFill, Move, IInv, TypeOK, Threads, Sent
    <3>6. FIFO!Put(p)
      BY <2>0, <2>1, <3>2, <3>4, <3>5, BufferAssumption
      DEF FIFO!Put, AdvanceFill
    <3> QED
      BY <3>6 DEF FIFO!Next
  <2>2. ASSUME NEW c \in Consumers, AdvanceUse(c), Count' = Count - 1
        PROVE  FIFO!Next
    <3>1. c \in Claiming
      BY <2>2 DEF AdvanceUse, Move, Claiming, At
    <3>2. Count \in 1 .. MAX
      BY <2>0, <3>1, CountRange, BufferAssumption
    <3>3. Queue # <<>> /\ Head(Queue) = buffer[use] /\ Queue' = Tail(Queue)
      <4>1. Queue' = Ring(buffer, (use + 1) % MAX, Count - 1)
        BY <2>0, <2>2 DEF AdvanceUse
      <4> QED
        BY <2>0, <3>2, <4>1, RingTail
    <3>4. got' = [got EXCEPT ![c] = Head(Queue)]
      BY <2>2, <3>3 DEF AdvanceUse, Move, IInv, HalfDone
    <3>5. UNCHANGED Sent
      BY <2>2, BufferAssumption
      DEF AdvanceUse, Move, IInv, TypeOK, Threads, Sent
    <3>6. FIFO!Get(c)
      BY <3>3, <3>4, <3>5 DEF FIFO!Get
    <3> QED
      BY <3>6 DEF FIFO!Next
  <2>3. ASSUME Count' = Count, UNCHANGED <<fill, use>>
        PROVE  UNCHANGED <<Queue, Sent, got>>
    <3> USE BufferAssumption DEF Move, IInv, TypeOK, Threads, Sent
    <3>1. ASSUME NEW p \in Producers, Store(p)
          PROVE  UNCHANGED <<Queue, Sent, got>>
      <4>1. p \in Filling \ Posting
        BY <3>1 DEF Store, Filling, Posting, At
      <4>2. Count \in 0 .. MAX - 1
        BY <2>0, <4>1, CountRange
      <4>3. buffer' = [buffer EXCEPT ![(use + Count) % MAX] = <<p, i[p]>>]
        BY <3>1 DEF Store, RingIndices
      <4>4. Ring(buffer', use, Count) = Ring(buffer, use, Count)
        <5>1. ASSUME NEW k \in 1 .. Count
              PROVE  buffer'[(use + k - 1) % MAX] = buffer[(use + k - 1) % MAX]
          <6>1. /\ (use + k - 1) % MAX \in Slots
                /\ (use + k - 1) % MAX # (use + Count) % MAX
            BY <2>0, <4>2, RingSlots
          <6> QED
            BY <2>0, <4>3, <6>1
        <5> QED
          BY <5>1 DEF Ring
      <4>5. UNCHANGED Queue
        BY <2>0, <2>3, <4>4
      <4> QED
        BY <3>1, <4>5 DEF Store
    <3>2. ASSUME NEW p \in Producers,
                 WaitEmpty(p) \/ WaitMutex(p) \/ PostMutex(p) \/ PostFull(p)
          PROVE  UNCHANGED <<buffer, Sent, got>>
      BY <3>2
      DEF WaitEmpty, WaitMutex, PostMutex, PostFull, Iterate, Start,
          ProducerLabels
    <3>3. ASSUME NEW c \in Consumers,
                 WaitFull(c) \/ WaitMutex(c) \/ Load(c) \/ PostMutex(c)
                 \/ PostEmpty(c)
          PROVE  UNCHANGED <<buffer, Sent, got>>
      BY <3>3
      DEF WaitFull, WaitMutex, Load, PostMutex, PostEmpty, Iterate, Start
    <3>4. ASSUME UNCHANGED vars
          PROVE  UNCHANGED <<buffer, Sent, got>>
      BY <3>4 DEF vars
    <3>5. ASSUME UNCHANGED <<buffer, Sent, got>>
          PROVE  UNCHANGED <<Queue, Sent, got>>
      BY <2>0, <2>3, <3>5
    <3>6. ASSUME NEW p \in Producers, AdvanceFill(p) PROVE FALSE
      <4>1. p \notin Posting /\ Posting' = Posting \cup {p}
            /\ UNCHANGED Claiming
        BY <3>6 DEF AdvanceFill, Posting, Claiming, At
      <4>2. Cardinality(Posting)' = Cardinality(Posting) + 1
        BY <4>1, SetsFinite, CountUp
      <4> QED
        BY <2>3, <3>6, <4>1, <4>2, SetsFinite DEF AdvanceFill, Count
    <3>7. ASSUME NEW c \in Consumers, AdvanceUse(c) PROVE FALSE
      <4>1. c \in Claiming /\ Claiming' = Claiming \ {c}
            /\ UNCHANGED Posting
        BY <3>7 DEF AdvanceUse, Posting, Claiming, At
      <4>2. Cardinality(Claiming)' = Cardinality(Claiming) - 1
        BY <4>1, SetsFinite, CountDown
      <4> QED
        BY <2>3, <3>7, <4>1, <4>2, SetsFinite DEF AdvanceUse, Count
    <3> QED
      BY <3>1, <3>2, <3>3, <3>4, <3>5, <3>6, <3>7
      DEF Next, Produce, Consume, Terminating
  <2> QED
    BY <2>1, <2>2, <2>3, StepAccounts
<1> QED
  BY <1>1, <1>2, Inductive, PTL DEF Spec, ImplementsFIFO, FIFO!Spec

=============================================================================
