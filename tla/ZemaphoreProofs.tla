-------------------------- MODULE ZemaphoreProofs --------------------------
(***************************************************************************)
(* Proofs about the semaphores and the mutex made of them: Zemaphore, for  *)
(* any finite set of threads and any initial value, and NsMutex, for any   *)
(* number of threads and any finite set of addresses.                      *)
(***************************************************************************)
EXTENDS Zemaphore, NsMutex, Counting

LEMMA RousedFinite == IsFiniteSet(Roused)
BY ZemAssumption, FS_Subset DEF Roused, At

LEMMA InitInvariant == Init => IInv
<1> SUFFICES ASSUME Init PROVE IInv
  OBVIOUS
<1>1. TypeOK
  BY ZemAssumption DEF Init, TypeOK, Labels
<1> QED
  BY <1>1
  DEF Init, IInv, LockExclusion, TestedValue, NoLostWakeup, At, Locked

-----------------------------------------------------------------------------

\* Every step but NoLostWakeup, which counts: the mutex has one holder, and
\* only the holder changes value.
LEMMA StepLock ==
  ASSUME IInv, [Next]_vars
  PROVE  TypeOK' /\ LockExclusion' /\ TestedValue'
<1> USE ZemAssumption
    DEF IInv, TypeOK, LockExclusion, TestedValue, At, Locked, Labels, Move
<1>1. ASSUME NEW t \in Threads, Call(t) \/ WakeSpuriously(t)
      PROVE  TypeOK' /\ LockExclusion' /\ TestedValue'
  BY <1>1 DEF Call, WakeSpuriously
<1>2. ASSUME NEW t \in Threads, WaitLock(t) \/ Relock(t) \/ PostLock(t)
      PROVE  TypeOK' /\ LockExclusion' /\ TestedValue'
  BY <1>2 DEF WaitLock, Relock, PostLock, MutexLock
<1>3. ASSUME NEW t \in Threads, Test(t)
      PROVE  TypeOK' /\ LockExclusion' /\ TestedValue'
  BY <1>3 DEF Test
<1>4. ASSUME NEW t \in Threads, Sleep(t) \/ Unlock(t)
      PROVE  TypeOK' /\ LockExclusion' /\ TestedValue'
  BY <1>4 DEF Sleep, Unlock, MutexUnlock
<1>5. ASSUME NEW t \in Threads, Incr(t) \/ Decr(t)
      PROVE  TypeOK' /\ LockExclusion' /\ TestedValue'
  BY <1>5 DEF Incr, Decr
<1>6. ASSUME NEW t \in Threads, Signal(t)
      PROVE  TypeOK' /\ LockExclusion' /\ TestedValue'
  BY <1>6 DEF Signal
<1>7. CASE UNCHANGED vars
  BY <1>7 DEF vars
<1> QED
  BY <1>1, <1>2, <1>3, <1>4, <1>5, <1>6, <1>7 DEF Next, Step, Terminating

\* The steps that neither put a thread to sleep nor change value keep every
\* roused thread roused, or leave nobody asleep.
LEMMA StepWakeup ==
  ASSUME IInv, [Next]_vars
  PROVE  NoLostWakeup'
<1> DEFINE Asleep == At({"asleep"})
<1> USE ZemAssumption DEF IInv, TypeOK, NoLostWakeup, At, Move
<1>1. ASSUME NEW t \in Threads,
             Call(t) \/ PostLock(t) \/ Relock(t) \/ Unlock(t)
      PROVE  NoLostWakeup'
  <2>1. Asleep' = Asleep /\ value' = value /\ Roused' = Roused
    BY <1>1 DEF Call, PostLock, Relock, Unlock, Roused
  <2> QED
    BY <2>1
<1>2. ASSUME NEW t \in Threads, WakeSpuriously(t)
      PROVE  NoLostWakeup'
  <2>1. t \in Asleep /\ value' = value /\ Roused' = Roused \cup {t} /\ t \notin Roused
    BY <1>2 DEF WakeSpuriously, Roused
  <2>2. Cardinality(Roused') = Cardinality(Roused) + 1
    BY <2>1, RousedFinite, CountUp
  <2> QED
    BY <2>1, <2>2, RousedFinite, CountIsNat
<1>3. ASSUME NEW t \in Threads, WaitLock(t)
      PROVE  NoLostWakeup'
  <2>1. Asleep' = Asleep /\ value' = value /\ Roused' = Roused \cup {t} /\ t \notin Roused
    BY <1>3 DEF WaitLock, Roused
  <2>2. Cardinality(Roused') = Cardinality(Roused) + 1
    BY <2>1, RousedFinite, CountUp
  <2> QED
    BY <2>1, <2>2, RousedFinite, CountIsNat
<1>4. ASSUME NEW t \in Threads, Test(t)
      PROVE  NoLostWakeup'
  <2>1. CASE value <= 0
    <3>1. value' <= 0 /\ value' \in Int
      BY <1>4, <2>1 DEF Test
    <3>2. Cardinality(Roused') \in Nat
      <4>1. Roused' = Roused \ {t} /\ t \in Roused
        BY <1>4, <2>1 DEF Test, Roused
      <4>2. IsFiniteSet(Roused')
        BY <4>1, RousedFinite, CountDown
      <4> QED
        BY <4>2, CountIsNat
    <3> QED
      BY <3>1, <3>2
  <2>2. CASE ~(value <= 0)
    <3>1. Asleep' = Asleep /\ value' = value /\ Roused' = Roused
      BY <1>4, <2>2 DEF Test, Roused
    <3> QED
      BY <3>1
  <2> QED
    BY <2>1, <2>2
<1>5. ASSUME NEW t \in Threads, Sleep(t)
      PROVE  NoLostWakeup'
  <2>1. value' <= 0 /\ Roused' = Roused
    BY <1>5 DEF Sleep, Roused, TestedValue
  <2> QED
    BY <1>5, <2>1, RousedFinite, CountIsNat DEF Sleep
<1>6. ASSUME NEW t \in Threads, Decr(t)
      PROVE  NoLostWakeup'
  <2>1. Asleep' = Asleep /\ value' = value - 1 /\ Roused' = Roused \ {t} /\ t \in Roused
    BY <1>6 DEF Decr, Roused
  <2>2. Cardinality(Roused') = Cardinality(Roused) - 1
    BY <2>1, RousedFinite, CountDown
  <2> QED
    BY <2>1, <2>2, RousedFinite, CountIsNat
<1>7. ASSUME NEW t \in Threads, Incr(t)
      PROVE  NoLostWakeup'
  <2>1. Asleep' = Asleep /\ value' = value + 1 /\ Roused' = Roused \cup {t} /\ t \notin Roused
    BY <1>7 DEF Incr, Roused
  <2>2. Cardinality(Roused') = Cardinality(Roused) + 1
    BY <2>1, RousedFinite, CountUp
  <2> QED
    BY <2>1, <2>2, RousedFinite, CountIsNat
<1>8. ASSUME NEW t \in Threads, Signal(t)
      PROVE  NoLostWakeup'
  <2>1. CASE Asleep = {}
    BY <1>8, <2>1 DEF Signal
  <2>2. CASE Asleep # {}
    <3>1. PICK u \in Asleep : pc' = [pc EXCEPT ![t] = "unlock", ![u] = "relock"]
      BY <1>8, <2>2 DEF Signal
    <3>2. /\ t \in Roused
          /\ u \notin Roused \ {t}
          /\ Roused' = (Roused \ {t}) \cup {u}
      BY <1>8, <3>1 DEF Signal, Roused
    <3>3. /\ IsFiniteSet(Roused \ {t})
          /\ Cardinality(Roused \ {t}) = Cardinality(Roused) - 1
      BY <3>2, RousedFinite, CountDown
    <3>4. Cardinality((Roused \ {t}) \cup {u}) = Cardinality(Roused \ {t}) + 1
      BY <3>2, <3>3, CountUp
    <3>5. value' = value /\ value <= Cardinality(Roused)
      BY <1>8, <2>2 DEF Signal
    <3> QED
      BY <3>2, <3>3, <3>4, <3>5, RousedFinite, CountIsNat
  <2> QED
    BY <2>1, <2>2
<1>9. CASE UNCHANGED vars
  BY <1>9 DEF vars, Roused
<1> QED
  BY <1>1, <1>2, <1>3, <1>4, <1>5, <1>6, <1>7, <1>8, <1>9
  DEF Next, Step, Terminating

(***************************************************************************)
(* The inductive invariant holds in every behaviour.  Its last part says   *)
(* that the signal of zem_post is enough: no thread sleeps through a value *)
(* it could take, however many threads wait and post.                      *)
(***************************************************************************)
THEOREM Invariance == Spec => []IInv
<1>1. Init => IInv
  BY InitInvariant
<1>2. IInv /\ [Next]_vars => IInv'
  BY StepLock, StepWakeup DEF IInv
<1> QED
  BY <1>1, <1>2, PTL DEF Spec

(***************************************************************************)
(* zem_t implements a counting semaphore: every wait and every post of     *)
(* zemaphore.c takes effect in one step.                                   *)
(***************************************************************************)
THEOREM Refinement == Spec => Semaphore!Spec
<1>1. Init => Semaphore!Init
  BY DEF Init, Semaphore!Init, Waiting, At
<1>2. IInv /\ [Next]_vars => [Semaphore!Next]_<<value, Waiting>>
  <2> SUFFICES ASSUME IInv, [Next]_vars
               PROVE  Semaphore!Next \/ UNCHANGED <<value, Waiting>>
    OBVIOUS
  <2> USE DEF IInv, TypeOK, Waiting, At, Move
  <2>1. ASSUME NEW t \in Threads, Call(t)
        PROVE  Semaphore!Next \/ UNCHANGED <<value, Waiting>>
    <3>1. CASE pc' = [pc EXCEPT ![t] = "wait_lock"]
      <4>1. Semaphore!CallWait(t)
        BY <2>1, <3>1 DEF Call, Semaphore!CallWait
      <4> QED
        BY <4>1 DEF Semaphore!Next
    <3>2. CASE pc' = [pc EXCEPT ![t] = "post_lock"]
      BY <2>1, <3>2 DEF Call
    <3> QED
      BY <2>1, <3>1, <3>2 DEF Call
  <2>2. ASSUME NEW t \in Threads, Decr(t) PROVE Semaphore!Next
    <3>1. Semaphore!Grant(t)
      BY <2>2 DEF Decr, Semaphore!Grant, TestedValue
    <3> QED
      BY <3>1 DEF Semaphore!Next
  <2>3. ASSUME NEW t \in Threads, Incr(t) PROVE Semaphore!Next
    <3>1. Semaphore!Post
      BY <2>3 DEF Incr, Semaphore!Post
    <3> QED
      BY <3>1 DEF Semaphore!Next
  <2>4. ASSUME NEW t \in Threads,
               WaitLock(t) \/ Test(t) \/ Sleep(t) \/ Relock(t) \/ PostLock(t)
               \/ Signal(t) \/ Unlock(t) \/ WakeSpuriously(t)
        PROVE  UNCHANGED <<value, Waiting>>
    BY <2>4
    DEF WaitLock, Test, Sleep, Relock, PostLock, Signal, Unlock, WakeSpuriously
  <2>5. CASE UNCHANGED vars
    BY <2>5 DEF vars
  <2> QED
    BY <2>1, <2>2, <2>3, <2>4, <2>5 DEF Next, Step, Terminating
<1> QED
  BY <1>1, <1>2, Invariance, PTL DEF Spec, Semaphore!Spec, Semaphore!vars

-----------------------------------------------------------------------------
\* ns_mutex.c

\* What a walk from q->head meets is closed under next, and is the least such
\* set.
LEMMA ReachedClosed ==
  ASSUME NEW link \in [Addr \cup {Dummy} -> Addr \cup {NULL}]
  PROVE  /\ Dummy \in Reached(link)
         /\ Reached(link) \subseteq Addr \cup {Dummy}
         /\ \A a \in Reached(link) : link[a] \in Reached(link) \cup {NULL}
<1>1. Dummy \in Reached(link)
  BY DEF Reached
<1>2. Reached(link) \subseteq Addr \cup {Dummy}
  BY DEF Reached
<1>3. ASSUME NEW a \in Reached(link), link[a] # NULL
      PROVE  link[a] \in Reached(link)
  <2>1. link[a] \in Addr
    BY <1>2, <1>3
  <2>2. ASSUME NEW S \in SUBSET (Addr \cup {Dummy}), Dummy \in S,
               \A b \in S : link[b] \in S \cup {NULL}
        PROVE  link[a] \in S
    <3>1. a \in S
      BY <2>2 DEF Reached
    <3> QED
      BY <3>1, <2>2, <1>3
  <2> QED
    BY <2>1, <2>2 DEF Reached
<1> QED
  BY <1>1, <1>2, <1>3

LEMMA ReachedLeast ==
  ASSUME NEW link, NEW S \in SUBSET (Addr \cup {Dummy}), Dummy \in S,
         \A b \in S : link[b] \in S \cup {NULL}
  PROVE  Reached(link) \subseteq S
BY DEF Reached

\* A store to a node out of the queue leaves the queue as it is.
LEMMA ReachedSame ==
  ASSUME NEW link \in [Addr \cup {Dummy} -> Addr \cup {NULL}],
         NEW a \in (Addr \cup {Dummy}) \ Reached(link),
         NEW b \in Addr \cup {NULL}
  PROVE  Reached([link EXCEPT ![a] = b]) = Reached(link)
<1> DEFINE new == [link EXCEPT ![a] = b]
<1>1. new \in [Addr \cup {Dummy} -> Addr \cup {NULL}]
  OBVIOUS
<1>2. Reached(new) \subseteq Reached(link)
  <2>1. /\ Dummy \in Reached(link)
        /\ Reached(link) \in SUBSET (Addr \cup {Dummy})
        /\ \A c \in Reached(link) : link[c] \in Reached(link) \cup {NULL}
    BY ReachedClosed
  <2>2. \A c \in Reached(link) : new[c] \in Reached(link) \cup {NULL}
    BY <2>1
  <2> HIDE DEF new
  <2> QED
    BY <2>1, <2>2, ReachedLeast
<1>3. Reached(link) \subseteq Reached(new)
  <2> HIDE DEF new
  <2>1. /\ Dummy \in Reached(new)
        /\ Reached(new) \in SUBSET (Addr \cup {Dummy})
        /\ \A c \in Reached(new) : new[c] \in Reached(new) \cup {NULL}
    BY <1>1, ReachedClosed
  <2>2. \A c \in Reached(new) : link[c] \in Reached(new) \cup {NULL}
    BY <2>1, <1>2 DEF new
  <2> QED
    BY <2>1, <2>2, ReachedLeast
<1> QED
  BY <1>2, <1>3

LEMMA NsInitInvariant == NsInit => NsInv
<1> SUFFICES ASSUME NsInit PROVE NsInv
  OBVIOUS
<1>1. NsTypeOK
  BY NsMutexAssumption DEF NsInit, NsTypeOK, NsLabels
<1>2. Queue = {Dummy}
  <2>1. Queue \subseteq {Dummy}
    BY ReachedLeast DEF NsInit, Queue
  <2>2. Dummy \in Queue
    BY <1>1, ReachedClosed DEF Queue, NsTypeOK
  <2> QED
    BY <2>1, <2>2
<1>3. \A t \in Workers : at[t] = "malloc"
  BY DEF NsInit
<1>4. QueueSound
  BY <1>2, <1>3 DEF QueueSound, NsInit
<1>5. OneInSection /\ NodesOwned
  BY <1>3 DEF OneInSection, Section, NodesOwned, NodeOwned, Owns
<1>6. QueueEnds
  BY <1>2, <1>3 DEF QueueEnds, NsInit
<1> QED
  BY <1>1, <1>4, <1>5, <1>6 DEF NsInv

-----------------------------------------------------------------------------

\* What the invariant says of the queue before a step.
LEMMA QueueNow ==
  ASSUME NsInv
  PROVE  /\ Dummy \in Queue
         /\ Queue \subseteq live \cup {Dummy}
         /\ \A a \in Queue : next[a] \in Queue \cup {NULL}
         /\ \A a \in Queue : next[a] # Dummy
BY NsMutexAssumption, ReachedClosed DEF NsInv, NsTypeOK, QueueSound, Queue

\* The steps that leave the queue and its tail alone.
Aside(t) ==
  \/ Malloc(t) \/ InitSem(t) \/ EnqWait(t) \/ EnqPost(t) \/ WaitSem(t)
  \/ DeqWait(t) \/ PostNode(t) \/ Free(t) \/ DeqPost(t)

LEMMA AsideStep ==
  ASSUME NsInv, NEW t \in Workers, Aside(t)
  PROVE  NsInv'
<1> USE NsMutexAssumption DEF NsInv, Move
<1>0. Queue' = Queue /\ tail' = tail /\ next' = next
  BY DEF Queue, Aside, Malloc, InitSem, EnqWait, EnqPost, WaitSem, DeqWait,
         PostNode, Free, DeqPost
<1>a. t \in Workers /\ at \in [Workers -> NsLabels]
  BY DEF NsTypeOK
<1>1. NsTypeOK' /\ OneInSection'
  <2> USE DEF NsTypeOK, NsLabels, OneInSection, Section
  <2>1. CASE Malloc(t)
    BY <2>1 DEF Malloc
  <2>2. CASE InitSem(t)
    BY <2>2 DEF InitSem
  <2>3. CASE EnqWait(t) \/ DeqWait(t)
    BY <2>3 DEF EnqWait, DeqWait, SemWait
  <2>4. CASE EnqPost(t) \/ DeqPost(t)
    BY <2>4 DEF EnqPost, DeqPost, SemPost
  <2>5. CASE WaitSem(t)
    BY <2>5 DEF WaitSem, Stale
  <2>6. CASE PostNode(t)
    <3>1. curr[t] \in Addr
      BY <2>6 DEF PostNode, QueueSound
    <3> QED
      BY <2>6, <3>1 DEF PostNode
  <2>7. CASE Free(t)
    BY <2>7 DEF Free
  <2> QED
    BY <2>1, <2>2, <2>3, <2>4, <2>5, <2>6, <2>7 DEF Aside
<1>2. QueueSound'
  <2> USE <1>0, <1>a DEF QueueSound, Drained
  <2>1. CASE Malloc(t)
    BY <2>1 DEF Malloc
  <2>2. CASE InitSem(t) \/ EnqWait(t) \/ EnqPost(t) \/ WaitSem(t) \/ DeqWait(t)
               \/ PostNode(t) \/ DeqPost(t)
    BY <2>2 DEF InitSem, EnqWait, EnqPost, WaitSem, DeqWait, PostNode, DeqPost
  <2>3. CASE Free(t)
    BY <2>3 DEF Free
  <2> QED
    BY <2>1, <2>2, <2>3 DEF Aside
<1>3. NodesOwned'
  <2> USE <1>0, <1>a DEF NodesOwned, NodeOwned, Owns, Drained
  <2>1. CASE Malloc(t)
    <3>1. PICK a \in Addr \ live :
            live' = live \cup {a} /\ node' = [node EXCEPT ![t] = a]
      BY <2>1 DEF Malloc
    <3>2. a \notin Queue
      BY <3>1 DEF QueueSound
    <3>3. \A u \in Workers : at[u] \in {"post_node", "free"} => curr[u] # a
      BY <3>1 DEF QueueSound
    <3>4. node \in [Workers -> Addr \cup {NULL}]
      BY DEF NsTypeOK
    <3> QED
      BY <2>1, <3>1, <3>2, <3>3, <3>4 DEF Malloc
  <2>2. CASE InitSem(t) \/ EnqWait(t) \/ EnqPost(t) \/ WaitSem(t) \/ DeqWait(t)
               \/ PostNode(t) \/ DeqPost(t)
    BY <2>2 DEF InitSem, EnqWait, EnqPost, WaitSem, DeqWait, PostNode, DeqPost
  <2>3. CASE Free(t)
    BY <2>3 DEF Free
  <2> QED
    BY <2>1, <2>2, <2>3 DEF Aside
<1>4. QueueEnds'
  <2> USE <1>0, <1>a DEF QueueEnds, Drained
  <2>1. CASE Malloc(t)
    BY <2>1 DEF Malloc
  <2>2. CASE InitSem(t) \/ EnqWait(t) \/ EnqPost(t) \/ WaitSem(t) \/ DeqWait(t)
               \/ PostNode(t) \/ DeqPost(t) \/ Free(t)
    BY <2>2 DEF InitSem, EnqWait, EnqPost, WaitSem, DeqWait, PostNode, DeqPost, Free
  <2> QED
    BY <2>1, <2>2 DEF Aside
<1> QED
  BY <1>1, <1>2, <1>3, <1>4

\* next is set to NULL in a node that is not in the queue.
LEMMA InitNextStep ==
  ASSUME NsInv, NEW t \in Workers, InitNext(t)
  PROVE  NsInv'
<1> USE NsMutexAssumption DEF NsInv, Move, InitNext
<1>1. NsTypeOK' /\ OneInSection'
  BY DEF NsTypeOK, NsLabels, OneInSection, Section
<1>2. node[t] \in Addr /\ node[t] \notin Queue
  BY DEF NodesOwned, NodeOwned, Owns, NsTypeOK
<1>3. Queue' = Queue
  BY <1>2, ReachedSame DEF Queue, NsTypeOK
<1>4. \A a \in Queue : next'[a] = next[a]
  BY <1>2, QueueNow DEF NsTypeOK
<1>5. QueueSound' /\ QueueEnds'
  <2>1. QueueSound'
    BY <1>3, <1>4, QueueNow DEF QueueSound, Drained, NsTypeOK
  <2>2. tail \in Queue \/ (tail # Dummy /\ next'[Dummy] = next[Dummy])
    BY <1>4, QueueNow DEF QueueSound, Drained
  <2>3. ASSUME NEW u \in Workers, at[u] = "set_tail", next[tail] = node[u],
               next[node[u]] = NULL, ~Drained
        PROVE  next'[node[u]] = NULL
    BY <2>3, <1>2 DEF NsTypeOK, NodesOwned, NodeOwned
  <2> QED
    BY <1>3, <1>4, <2>1, <2>2, <2>3, QueueNow
    DEF QueueEnds, QueueSound, Drained, NsTypeOK
<1>6. NodesOwned'
  <2>1. next'[node[t]] = NULL
    BY <1>2 DEF NsTypeOK
  <2>2. Drained' = Drained
    BY <1>4, QueueNow DEF Drained
  <2> QED
    BY <1>2, <1>3, <2>1, <2>2 DEF NodesOwned, NodeOwned, Owns, NsTypeOK
<1> QED
  BY <1>1, <1>5, <1>6

\* The node of t is put behind tail.  Once the queue has been emptied, tail is
\* out of the queue and so is the node.
LEMMA LinkStep ==
  ASSUME NsInv, NEW t \in Workers, Link(t)
  PROVE  NsInv'
<1> USE NsMutexAssumption DEF NsInv, Move, Link
<1>1. NsTypeOK' /\ OneInSection'
  <2>1. node[t] \in Addr
    BY DEF NodesOwned, NodeOwned, Owns, NsTypeOK
  <2> QED
    BY <2>1 DEF NsTypeOK, NsLabels, OneInSection, Section
<1>2. node[t] \in Addr /\ node[t] \in live /\ node[t] \notin Queue
  BY DEF NodesOwned, NodeOwned, Owns, NsTypeOK
<1>3. \A u \in Workers : at[u] \notin {"set_tail", "post_node", "free"}
  BY DEF OneInSection, Section
<1>4. at' = [at EXCEPT ![t] = "set_tail"] /\ node' = node /\ tail' = tail
  OBVIOUS
<1>5. CASE Drained
  <2>1. Queue \subseteq {Dummy}
    BY <1>5, ReachedLeast DEF Drained, Queue
  <2>2. tail \notin Queue
    BY <1>5, <2>1 DEF Drained
  <2>3. Queue' = Queue
    BY <1>2, <2>2, ReachedSame DEF Queue, NsTypeOK
  <2>4. Drained'
    BY <1>5 DEF Drained, NsTypeOK
  <2>5. \A a \in Queue : next'[a] = next[a]
    BY <2>2, QueueNow DEF NsTypeOK
  <2>6. QueueSound'
    BY <1>3, <1>4, <2>3, <2>4, QueueNow DEF QueueSound, NsTypeOK
  <2>7. QueueEnds'
    BY <2>1, <2>3, <2>4 DEF QueueEnds
  <2>8. NodesOwned'
    BY <1>2, <1>3, <2>3, <2>4 DEF NodesOwned, NodeOwned, Owns, NsTypeOK
  <2> QED
    BY <1>1, <2>6, <2>7, <2>8
<1>6. CASE ~Drained
  <2>1. tail \in Queue /\ next[tail] = NULL
    BY <1>3, <1>6 DEF QueueSound, QueueEnds
  <2>2. next'[tail] = node[t] /\ next'[node[t]] = NULL
    <3>1. node[t] # tail
      BY <1>2, <2>1
    <3>2. next[node[t]] = NULL
      BY <1>6 DEF NodesOwned, NodeOwned
    <3> QED
      BY <1>2, <3>1, <3>2 DEF NsTypeOK
  <2>3. \A a \in Queue \ {tail} : next'[a] = next[a]
    BY QueueNow DEF NsTypeOK
  <2>4. Queue' \subseteq Queue \cup {node[t]}
    <3> DEFINE S == Queue \cup {node[t]}
    <3>1. Dummy \in S /\ S \in SUBSET (Addr \cup {Dummy})
      BY <1>2, QueueNow DEF NsTypeOK
    <3>2. \A a \in S : next'[a] \in S \cup {NULL}
      BY <2>2, <2>3, QueueNow
    <3> HIDE DEF S
    <3>3. Reached(next') \subseteq S
      BY <3>1, <3>2, ReachedLeast
    <3> QED
      BY <3>3 DEF S, Queue
  <2>5. Queue \subseteq Queue'
    <3>1. /\ Dummy \in Queue'
          /\ Queue' \in SUBSET (Addr \cup {Dummy})
          /\ \A a \in Queue' : next'[a] \in Queue' \cup {NULL}
      BY <1>1, ReachedClosed DEF Queue, NsTypeOK
    <3>2. \A a \in Queue' : next[a] \in Queue' \cup {NULL}
      <4> TAKE a \in Queue'
      <4>1. CASE a \in Queue \ {tail}
        BY <4>1, <2>3, <3>1
      <4>2. CASE a = tail
        BY <4>2, <2>1
      <4>3. CASE a = node[t]
        BY <4>3, <1>6 DEF NodesOwned, NodeOwned
      <4> QED
        BY <2>4, <4>1, <4>2, <4>3
    <3>3. Reached(next) \subseteq Queue'
      BY <3>1, <3>2, ReachedLeast
    <3> QED
      BY <3>3 DEF Queue
  <2>6. tail \in Queue'
    BY <2>1, <2>5
  <2>7. QueueSound'
    BY <1>2, <1>3, <1>4, <2>4, <2>6, QueueNow DEF QueueSound, NsTypeOK
  <2>8. QueueEnds'
    <3>1. ASSUME NEW a \in Queue', NEW b \in Queue',
                 next'[a] = next'[b], next'[a] # NULL
          PROVE  a = b
      <4>1. a \in Queue /\ b \in Queue
        BY <3>1, <2>2, <2>4
      <4>2. \A c \in Queue \ {tail} : next'[c] # node[t]
        BY <1>2, <2>3, QueueNow DEF NsTypeOK
      <4> QED
        BY <3>1, <4>1, <4>2, <2>2, <2>3 DEF QueueEnds
    <3>2. at'[t] = "set_tail"
      BY DEF NsTypeOK
    <3> QED
      BY <1>4, <2>2, <3>1, <3>2 DEF QueueEnds
  <2>9. NodesOwned'
    <3>1. Drained' => Drained
      BY <2>1, <2>2, <2>3, <1>2, <1>6, QueueNow DEF Drained
    <3> SUFFICES ASSUME NEW u \in Workers
                 PROVE  NodeOwned(u)'
      BY DEF NodesOwned, NodeOwned
    <3>2. CASE u = t
      BY <3>2, <1>2 DEF NodeOwned, Owns, NsTypeOK
    <3>3. CASE u # t
      <4>1. Owns(u)' = Owns(u) /\ at'[u] = at[u]
        BY <3>3 DEF Owns, NsTypeOK
      <4>2. Owns(t) /\ ~Owns(t)'
        BY DEF Owns, NsTypeOK
      <4>3. Owns(u) => node[u] \in live \ Queue'
        BY <3>3, <4>2, <2>4 DEF NodesOwned, NodeOwned
      <4>4. Owns(u) => \A v \in Workers \ {u} : Owns(v)' => node[v] # node[u]
        BY <4>2 DEF NodesOwned, NodeOwned, Owns, NsTypeOK
      <4>5. Owns(u) =>
              \A v \in Workers : at'[v] \in {"post_node", "free"} => curr[v] # node[u]
        BY <1>3 DEF NsTypeOK
      <4>6. at[u] \in {"enq_wait", "link"} => Drained' \/ next'[node[u]] = NULL
        <5> SUFFICES ASSUME at[u] \in {"enq_wait", "link"} PROVE next'[node[u]] = NULL
          OBVIOUS
        <5>1. Owns(u)
          BY DEF Owns
        <5>2. node[u] # tail /\ next[node[u]] = NULL
          BY <5>1, <1>6, <2>1 DEF NodesOwned, NodeOwned
        <5>3. node[u] \in Addr
          BY <5>1 DEF NodesOwned, NodeOwned, NsTypeOK
        <5> QED
          BY <5>2, <5>3 DEF NsTypeOK
      <4>7. at[u] # "set_tail"
        BY <1>3
      <4> QED
        BY <4>1, <4>3, <4>4, <4>5, <4>6, <4>7 DEF NodeOwned
    <3> QED
      BY <3>2, <3>3
  <2> QED
    BY <1>1, <2>7, <2>8, <2>9
<1> QED
  BY <1>5, <1>6

\* tail catches up with the node that was linked behind it.
LEMMA SetTailStep ==
  ASSUME NsInv, NEW t \in Workers, SetTail(t)
  PROVE  NsInv'
<1> USE NsMutexAssumption DEF NsInv, Move, SetTail
<1>1. NsTypeOK' /\ OneInSection'
  BY DEF NsTypeOK, NsLabels, OneInSection, Section, NodesOwned, NodeOwned
<1>2. node[t] \in Addr
  BY DEF NodesOwned, NodeOwned
<1>3. \A u \in Workers : at[u] = "set_tail" => u = t
  BY DEF OneInSection, Section
<1>4. Queue' = Queue
  BY DEF Queue
<1>5. at' = [at EXCEPT ![t] = "enq_post"] /\ next' = next /\ node' = node
  OBVIOUS
<1>6. Drained => Drained'
  BY <1>2 DEF Drained
<1>7. Drained \/ (node[t] \in Queue /\ next[node[t]] = NULL)
  <2>1. CASE Drained
    BY <2>1
  <2>2. CASE ~Drained
    <3>1. next[tail] = node[t] /\ next[node[t]] = NULL
      BY <1>3, <2>2 DEF QueueEnds
    <3>2. tail \in Queue
      BY <2>2 DEF QueueSound
    <3> QED
      BY <3>1, <3>2, <1>2, QueueNow
  <2> QED
    BY <2>1, <2>2
<1>8. QueueSound'
  BY <1>4, <1>5, <1>6, <1>7 DEF QueueSound, NsTypeOK
<1>9. QueueEnds'
  <2>1. \A u \in Workers : at'[u] # "set_tail"
    BY <1>3 DEF NsTypeOK
  <2> QED
    BY <1>4, <1>5, <1>6, <1>7, <2>1 DEF QueueEnds
<1>10. NodesOwned'
  BY <1>4, <1>5, <1>6 DEF NodesOwned, NodeOwned, Owns, NsTypeOK
<1> QED
  BY <1>1, <1>8, <1>9, <1>10

\* The first node leaves the queue; when it is the last one too, tail stays
\* behind on it.
LEMMA TakeStep ==
  ASSUME NsInv, NEW t \in Workers, Take(t)
  PROVE  NsInv'
<1> USE NsMutexAssumption DEF NsInv, Move
<1> USE DEF Take
<1>1. NsTypeOK' /\ OneInSection'
  BY DEF NsTypeOK, NsLabels, OneInSection, Section
<1>2. tail' = tail /\ node' = node /\ live' = live
  OBVIOUS
<1>3. CASE next[Dummy] = NULL
  <2>1. Queue' = Queue /\ next' = next /\ curr' = curr
    BY <1>3 DEF Queue
  <2>2. Drained' = Drained
    BY <1>2, <2>1 DEF Drained
  <2>3. at' = [at EXCEPT ![t] = "deq_post"]
    BY <1>3
  <2>4. QueueSound'
    BY <1>2, <2>1, <2>2, <2>3 DEF QueueSound, NsTypeOK
  <2>5. QueueEnds'
    BY <1>2, <2>1, <2>2, <2>3 DEF QueueEnds, NsTypeOK
  <2>6. NodesOwned'
    BY <1>2, <2>1, <2>2, <2>3 DEF NodesOwned, NodeOwned, Owns, NsTypeOK
  <2> QED
    BY <1>1, <2>4, <2>5, <2>6
<1>4. CASE next[Dummy] # NULL
  <2> DEFINE first == next[Dummy]
  <2>1. /\ curr' = [curr EXCEPT ![t] = first]
        /\ next' = [next EXCEPT ![Dummy] = next[first]]
        /\ at' = [at EXCEPT ![t] = "post_node"]
    BY <1>4
  <2> HIDE DEF Take
  <2>2. first \in Queue /\ first \in live /\ first # Dummy
    BY <1>4, QueueNow
  <2>3. first \in Addr
    BY <1>4 DEF NsTypeOK
  <2>4. next'[Dummy] = next[first]
    BY <2>1 DEF NsTypeOK
  <2>5. \A a \in Addr : next'[a] = next[a]
    BY <2>1 DEF NsTypeOK
  <2>6. \A a \in Queue \ {Dummy} : next[a] # first
    BY <1>4, QueueNow DEF QueueEnds
  <2>7. Queue \subseteq Addr \cup {Dummy}
    BY QueueNow DEF NsTypeOK
  <2>8. Queue' \subseteq Queue \ {first}
    <3> DEFINE S == Queue \ {first}
    <3>1. Dummy \in S /\ S \in SUBSET (Addr \cup {Dummy})
      BY <2>2, <2>7, QueueNow
    <3>2. \A a \in S : next'[a] \in S \cup {NULL}
      <4> TAKE a \in S
      <4>1. CASE a = Dummy
        BY <4>1, <2>2, <2>4, <2>6, QueueNow
      <4>2. CASE a # Dummy
        BY <4>2, <2>5, <2>6, <2>7, QueueNow
      <4> QED
        BY <4>1, <4>2
    <3> HIDE DEF S
    <3>3. Reached(next') \subseteq S
      BY <3>1, <3>2, ReachedLeast
    <3> QED
      BY <3>3 DEF S, Queue
  <2>9. Queue \subseteq Queue' \cup {first}
    <3> DEFINE S == Queue' \cup {first}
    <3>1. /\ Dummy \in Queue'
          /\ Queue' \in SUBSET (Addr \cup {Dummy})
          /\ \A a \in Queue' : next'[a] \in Queue' \cup {NULL}
      BY <1>1, ReachedClosed DEF Queue, NsTypeOK
    <3>2. S \in SUBSET (Addr \cup {Dummy}) /\ Dummy \in S
      BY <3>1, <2>3
    <3>3. \A a \in S : next[a] \in S \cup {NULL}
      <4> TAKE a \in S
      <4>1. CASE a = Dummy
        BY <4>1
      <4>2. CASE a = first
        BY <4>2, <3>1, <2>4
      <4>3. CASE a \in Queue' \ {Dummy, first}
        BY <4>3, <3>1, <2>5
      <4> QED
        BY <4>1, <4>2, <4>3
    <3> HIDE DEF S
    <3>4. Reached(next) \subseteq S
      BY <3>2, <3>3, ReachedLeast
    <3> QED
      BY <3>4 DEF S, Queue
  <2>10. \A u \in Workers : at[u] \notin {"set_tail", "post_node", "free"}
    BY DEF OneInSection, Section, Take
  <2>11. at[t] = "take" /\ \A u \in Workers : at'[u] = IF u = t THEN "post_node" ELSE at[u]
    BY <2>1 DEF NsTypeOK, Take
  <2>12. ~Drained
    BY <1>4 DEF Drained
  <2>13. next[tail] = NULL /\ tail \in Queue
    BY <2>10, <2>12 DEF QueueEnds, QueueSound
  <2>14. Drained' \/ tail \in Queue' \ {Dummy}
    <3>1. CASE tail = first
      BY <3>1, <1>2, <2>2, <2>4, <2>13 DEF Drained
    <3>2. CASE tail # first
      BY <3>2, <1>4, <2>9, <2>13
    <3> QED
      BY <3>1, <3>2
  <2>15. QueueSound'
    <3>1. Queue' \subseteq live' \cup {Dummy}
      BY <1>2, <2>8, QueueNow
    <3>2. Drained' \/ tail' \in Queue'
      BY <1>2, <2>14
    <3>3. curr'[t] = first /\ first \in live' \ Queue'
      BY <1>2, <2>1, <2>2, <2>8 DEF NsTypeOK
    <3> QED
      BY <3>1, <3>2, <3>3, <2>10, <2>11 DEF QueueSound
  <2>16. QueueEnds'
    <3>1. ASSUME NEW a \in Queue', NEW b \in Queue',
                 next'[a] = next'[b], next'[a] # NULL
          PROVE  a = b
      <4>1. a \in Queue \ {first} /\ b \in Queue \ {first}
        BY <2>8
      <4> QED
        BY <3>1, <4>1, <2>2, <2>4, <2>5, <2>7 DEF QueueEnds
    <3>2. \A u \in Workers : at'[u] # "set_tail"
      BY <2>10, <2>11
    <3>3. Drained' \/ next'[tail'] = NULL
      BY <1>2, <2>5, <2>7, <2>13, <2>14
    <3> QED
      BY <3>1, <3>2, <3>3 DEF QueueEnds
  <2>17. NodesOwned'
    <3> SUFFICES ASSUME NEW u \in Workers
                 PROVE  NodeOwned(u)'
      BY DEF NodesOwned, NodeOwned
    <3>1. \A v \in Workers : Owns(v)' = Owns(v)
      BY <2>11 DEF Owns
    <3>2. Owns(u) => node[u] \in live \ Queue'
      BY <2>8 DEF NodesOwned, NodeOwned
    <3>3. Owns(u) =>
            \A v \in Workers : at'[v] \in {"post_node", "free"} => curr'[v] # node[u]
      BY <2>1, <2>2, <2>10, <2>11 DEF NodesOwned, NodeOwned, NsTypeOK
    <3>4. at[u] \in {"enq_wait", "link"} => next'[node[u]] = NULL
      <4> SUFFICES ASSUME at[u] \in {"enq_wait", "link"} PROVE next'[node[u]] = NULL
        OBVIOUS
      <4>1. Owns(u) /\ next[node[u]] = NULL
        BY <2>12 DEF NodesOwned, NodeOwned, Owns
      <4>2. node[u] \in Addr
        BY <4>1 DEF NodesOwned, NodeOwned, NsTypeOK
      <4> QED
        BY <4>1, <4>2, <2>5
    <3> QED
      BY <1>2, <2>10, <2>11, <3>1, <3>2, <3>3, <3>4 DEF NodesOwned, NodeOwned
  <2> QED
    BY <1>1, <2>15, <2>16, <2>17
<1> QED
  BY <1>3, <1>4

LEMMA NsStepInvariant ==
  ASSUME NsInv, [NsNext]_nsVars
  PROVE  NsInv'
<1>1. ASSUME NEW t \in Workers, Worker(t)
      PROVE  NsInv'
  BY <1>1, AsideStep, InitNextStep, LinkStep, SetTailStep, TakeStep DEF Worker, Aside
<1>2. CASE UNCHANGED nsVars
  BY <1>2 DEF nsVars, NsInv, NsTypeOK, QueueSound, OneInSection, NodesOwned, NodeOwned,
              QueueEnds, Queue, Drained, Owns
<1> QED
  BY <1>1, <1>2 DEF NsNext, NsTerminating

\* Who holds glock keeps it until it posts.
LEMMA GlockStep ==
  ASSUME NsTypeOK, GlockHeld, [NsNext]_nsVars
  PROVE  GlockHeld'
<1> USE DEF NsTypeOK, GlockHeld, Section, Move
<1>1. ASSUME NEW t \in Workers, Worker(t)
      PROVE  GlockHeld'
  <2>1. CASE EnqWait(t) \/ DeqWait(t)
    BY <2>1 DEF EnqWait, DeqWait
  <2>2. CASE EnqPost(t) \/ DeqPost(t)
    BY <2>2 DEF EnqPost, DeqPost, SemPost
  <2>3. CASE Malloc(t) \/ InitSem(t) \/ InitNext(t) \/ WaitSem(t)
    BY <2>3 DEF Malloc, InitSem, InitNext, WaitSem
  <2>4. CASE Link(t) \/ SetTail(t) \/ Take(t) \/ PostNode(t) \/ Free(t)
    BY <2>4 DEF Link, SetTail, Take, PostNode, Free
  <2> QED
    BY <1>1, <2>1, <2>2, <2>3, <2>4 DEF Worker
<1>2. CASE UNCHANGED nsVars
  BY <1>2 DEF nsVars
<1> QED
  BY <1>1, <1>2 DEF NsNext, NsTerminating

\* Each address given out is counted with the thread that came for it.
LEMMA LiveStep ==
  ASSUME NsTypeOK, LiveCounted, [NsNext]_nsVars
  PROVE  LiveCounted'
<1> DEFINE Came == {t \in Workers : at[t] # "malloc"}
<1> USE DEF NsTypeOK, Move
<1>1. /\ IsFiniteSet(live) /\ IsFiniteSet(Came)
      /\ Cardinality(live) \in Nat /\ Cardinality(Came) \in Nat
      /\ Cardinality(live) <= Cardinality(Came)
  <2>1. IsFiniteSet(live) /\ IsFiniteSet(Came)
    BY NsMutexAssumption, FS_Subset
  <2> QED
    BY <2>1, CountIsNat DEF LiveCounted
<1>2. ASSUME NEW t \in Workers, Malloc(t)
      PROVE  LiveCounted'
  <2>1. PICK a \in Addr \ live : live' = live \cup {a}
    BY <1>2 DEF Malloc
  <2>2. Came' = Came \cup {t} /\ t \notin Came
    BY <1>2 DEF Malloc
  <2>3. Cardinality(live') = Cardinality(live) + 1
    BY <1>1, <2>1, CountUp
  <2>4. Cardinality(Came') = Cardinality(Came) + 1
    BY <1>1, <2>2, CountUp
  <2> QED
    BY <1>1, <2>3, <2>4 DEF LiveCounted
<1>3. ASSUME NEW t \in Workers, Worker(t), ~Malloc(t)
      PROVE  LiveCounted'
  <2>1. Came' = Came
    BY <1>3
    DEF Worker, InitSem, InitNext, EnqWait, Link, SetTail, EnqPost, WaitSem, DeqWait,
        Take, PostNode, Free, DeqPost
  <2>2. live' \subseteq live
    BY <1>3
    DEF Worker, InitSem, InitNext, EnqWait, Link, SetTail, EnqPost, WaitSem, DeqWait,
        Take, PostNode, Free, DeqPost
  <2>3. Cardinality(live') \in Nat /\ Cardinality(live') <= Cardinality(live)
    BY <1>1, <2>2, FS_Subset, FS_CardinalityType
  <2> QED
    BY <1>1, <2>1, <2>3 DEF LiveCounted
<1>4. CASE UNCHANGED nsVars
  BY <1>4 DEF nsVars, LiveCounted
<1> QED
  BY <1>2, <1>3, <1>4 DEF NsNext, NsTerminating

\* There is an address for a thread at malloc: its own node is not counted yet.
LEMMA AddressLeft ==
  ASSUME NsTypeOK, LiveCounted, NEW t \in Workers, at[t] = "malloc"
  PROVE  live # Addr
<1> DEFINE Came == {u \in Workers : at[u] # "malloc"}
<1>1. Came \subseteq Workers /\ Came # Workers
  OBVIOUS
<1>2. /\ IsFiniteSet(Came) /\ Cardinality(Came) <= Cardinality(Workers)
      /\ Cardinality(Workers) # Cardinality(Came)
  <2> HIDE DEF Came
  <2> QED
    BY <1>1, NsMutexAssumption, FS_Subset
<1>3. /\ Cardinality(Came) \in Nat /\ Cardinality(Workers) \in Nat
      /\ Cardinality(Addr) \in Nat
  BY <1>2, NsMutexAssumption, CountIsNat
<1>4. Cardinality(live) <= Cardinality(Came) /\ Cardinality(Addr) >= Cardinality(Workers)
  BY NsMutexAssumption DEF LiveCounted
<1> QED
  BY <1>2, <1>3, <1>4

LEMMA GoesOn ==
  NsTypeOK /\ GlockHeld /\ LiveCounted => NobodyStuck
<1> SUFFICES ASSUME NsTypeOK, GlockHeld, LiveCounted,
                    NEW t \in Workers, at[t] \notin {"wait_sem", "done"}
             PROVE  \E u \in Workers : at[u] \notin {"wait_sem", "done"} /\ ~Blocked(u)
  BY DEF NobodyStuck, Stuck
<1>1. CASE at[t] = "malloc"
  BY <1>1, AddressLeft DEF Blocked
<1>2. CASE at[t] # "malloc" /\ glock = 0
  BY <1>2 DEF GlockHeld, Section, Blocked
<1>3. CASE at[t] # "malloc" /\ glock # 0
  BY <1>3 DEF Blocked
<1> QED
  BY <1>1, <1>2, <1>3

LEMMA NsInductive == NsSpec => []NsInv
BY NsInitInvariant, NsStepInvariant, PTL DEF NsSpec

(***************************************************************************)
(* The queue of ns_mutex.c is sound for any number of threads and          *)
(* addresses, freed addresses given out again included: it never holds a   *)
(* freed node, a node is freed once, and the queue ends at tail until it   *)
(* has been emptied once.  Whatever becomes of the queue, nobody is kept   *)
(* from glock for ever.                                                    *)
(***************************************************************************)
THEOREM NsInvariance == NsSpec => []NsSafe
<1>1. NsInit => GlockHeld /\ LiveCounted
  <2> SUFFICES ASSUME NsInit PROVE GlockHeld /\ LiveCounted
    OBVIOUS
  <2>1. live = {} /\ {t \in Workers : at[t] # "malloc"} = {}
    BY DEF NsInit
  <2>2. Cardinality({}) = 0
    BY FS_EmptySet
  <2> QED
    BY <2>1, <2>2 DEF NsInit, GlockHeld, LiveCounted
<1>2. NsInv /\ GlockHeld /\ LiveCounted /\ [NsNext]_nsVars => GlockHeld' /\ LiveCounted'
  BY GlockStep, LiveStep DEF NsInv
<1>3. NsInv /\ GlockHeld /\ LiveCounted => NsSafe
  BY GoesOn DEF NsSafe, NsInv
<1> QED
  BY <1>1, <1>2, <1>3, NsInductive, PTL DEF NsSpec

(***************************************************************************)
(* A queue that has been emptied (ns_mutex.c:58-66) is empty for ever: its *)
(* tail is never the dummy node again.                                     *)
(***************************************************************************)
THEOREM NsDrained == NsSpec => DrainedForEver
<1>1. ASSUME NsInv, [NsNext]_nsVars
      PROVE  Drained => Drained'
  <2> SUFFICES ASSUME Drained PROVE Drained'
    OBVIOUS
  <2> USE NsMutexAssumption DEF Drained
  <2>1. ASSUME NEW t \in Workers, Worker(t)
        PROVE  Drained'
    <3>1. CASE Link(t)
      BY <3>1, <1>1 DEF Link, NsInv, NsTypeOK
    <3>2. CASE SetTail(t)
      <4>1. tail' = node[t] /\ next' = next /\ at[t] = "set_tail"
        BY <3>2 DEF SetTail, Move
      <4>2. node[t] \in Addr
        BY <4>1, <1>1 DEF NsInv, NodesOwned, NodeOwned
      <4> QED
        BY <4>1, <4>2
    <3>3. CASE Take(t)
      BY <3>3 DEF Take
    <3>4. CASE InitNext(t)
      <4>1. node[t] \in Addr
        <5>1. Owns(t)
          BY <3>4 DEF InitNext, Move, Owns
        <5> QED
          BY <5>1, <1>1 DEF NsInv, NodesOwned, NodeOwned, NsTypeOK
      <4> QED
        BY <3>4, <4>1, <1>1 DEF InitNext, NsInv, NsTypeOK
    <3>5. CASE Aside(t)
      BY <3>5 DEF Aside, Malloc, InitSem, EnqWait, EnqPost, WaitSem, DeqWait,
                  PostNode, Free, DeqPost
    <3> QED
      BY <2>1, <3>1, <3>2, <3>3, <3>4, <3>5 DEF Worker, Aside
  <2>2. CASE UNCHANGED nsVars
    BY <2>2 DEF nsVars
  <2> QED
    BY <2>1, <2>2, <1>1 DEF NsNext, NsTerminating
<1> QED
  BY <1>1, NsInductive, PTL DEF NsSpec, DrainedForEver

-----------------------------------------------------------------------------

\* How far a thread of ns_mutex.c is: it passes each label once.
Place(label) ==
  CASE label = "malloc" -> 0
    [] label = "init_sem" -> 1
    [] label = "init_next" -> 2
    [] label = "enq_wait" -> 3
    [] label = "link" -> 4
    [] label = "set_tail" -> 5
    [] label = "enq_post" -> 6
    [] label = "wait_sem" -> 7
    [] label = "critical" -> 8
    [] label = "take" -> 9
    [] label = "post_node" -> 10
    [] label = "free" -> 11
    [] label = "deq_post" -> 12
    [] label = "done" -> 13

Places == [t \in Workers |-> Place(at[t])]

Progress == Total(Places, Workers)

LEMMA PlacesType ==
  NsTypeOK => /\ \A t \in Workers : Places[t] \in 0 .. 13
              /\ Progress \in 0 .. Cardinality(Workers) * 13
<1> SUFFICES ASSUME NsTypeOK
             PROVE  /\ \A t \in Workers : Places[t] \in 0 .. 13
                    /\ Progress \in 0 .. Cardinality(Workers) * 13
  OBVIOUS
<1>1. \A t \in Workers : Places[t] \in 0 .. 13
  BY DEF Places, Place, NsTypeOK, NsLabels
<1> QED
  BY <1>1, NsMutexAssumption, TotalWithin DEF Progress

LEMMA PlacesNext ==
  NsTypeOK' => \A t \in Workers : Places'[t] \in 0 .. 13
<1>1. (NsTypeOK => \A t \in Workers : Places[t] \in 0 .. 13)'
  BY PlacesType, PTL
<1> QED
  BY <1>1

LEMMA WorkerOnward ==
  ASSUME NsTypeOK, NsTypeOK', NEW t \in Workers, Worker(t)
  PROVE  Progress' > Progress
<1>1. /\ Place(at'[t]) > Place(at[t])
      /\ \A u \in Workers : u # t => at'[u] = at[u]
  <2> USE DEF NsTypeOK, Move, Place
  <2>1. CASE Malloc(t) \/ InitSem(t) \/ InitNext(t) \/ EnqWait(t) \/ Link(t)
    BY <2>1 DEF Malloc, InitSem, InitNext, EnqWait, Link
  <2>2. CASE SetTail(t) \/ EnqPost(t) \/ WaitSem(t) \/ DeqWait(t)
    BY <2>2 DEF SetTail, EnqPost, WaitSem, DeqWait
  <2>3. CASE Take(t) \/ PostNode(t) \/ Free(t) \/ DeqPost(t)
    BY <2>3 DEF Take, PostNode, Free, DeqPost
  <2> QED
    BY <2>1, <2>2, <2>3 DEF Worker
<1>2. \A u \in Workers : Places[u] \in Int /\ Places'[u] \in Int
  BY PlacesType, PlacesNext
<1>3. \A u \in Workers : u # t => Places'[u] = Places[u]
  BY <1>1 DEF Places
<1>4. Total(Places', Workers) - Total(Places, Workers) = Places'[t] - Places[t]
  BY <1>2, <1>3, NsMutexAssumption, TotalChange
<1>5. Places'[t] > Places[t]
  BY <1>1 DEF Places
<1>6. Total(Places', Workers) \in Int /\ Total(Places, Workers) \in Int
  BY <1>2, NsMutexAssumption, TotalInt
<1> QED
  BY <1>2, <1>4, <1>5, <1>6 DEF Progress

(***************************************************************************)
(* ns_mutex.c comes to a rest after 13 steps of each thread at most.  With *)
(* NobodyStuck: then every thread is done or waits for its node's          *)
(* semaphore (ns_mutex.c:54).                                              *)
(***************************************************************************)
THEOREM NsStepsRunOut ==
  NsSpec => /\ [](Progress <= 13 * Cardinality(Workers))
            /\ [][Progress' > Progress]_nsVars
<1>1. NsInv => Progress <= 13 * Cardinality(Workers)
  <2>1. Cardinality(Workers) \in Nat
    BY NsMutexAssumption, CountIsNat
  <2> QED
    BY <2>1, PlacesType DEF NsInv
<1>2. NsInv /\ NsInv' /\ [NsNext]_nsVars => [Progress' > Progress]_nsVars
  BY WorkerOnward DEF NsInv, NsNext, NsTerminating
<1> QED
  BY <1>1, <1>2, NsInductive, PTL DEF NsSpec

-----------------------------------------------------------------------------

\* No thread waits on a node that was freed under it.
NoneStale == \A t \in Workers : at[t] = "wait_sem" => ~Stale(t)

\* From malloc to the end of its wait a thread has its node.
Keeping(t) == Owns(t) \/ at[t] \in {"set_tail", "enq_post", "wait_sem"}

\* The node is allocated and nobody else's, and its semaphore is up.
Kept(t) ==
  Keeping(t) =>
    /\ node[t] \in live
    /\ at[t] # "init_sem" => sem[node[t]] > 0
    /\ \A u \in Workers \ {t} : Keeping(u) => node[u] # node[t]

LEMMA KeptStep ==
  ASSUME NsInv, NoneStale', \A t \in Workers : Kept(t), [NsNext]_nsVars
  PROVE  \A t \in Workers : Kept(t)'
<1> USE DEF NsInv, NsTypeOK, Kept, Keeping, Owns, Move
<1>1. ASSUME NEW t \in Workers, Worker(t)
      PROVE  \A u \in Workers : Kept(u)'
  <2>1. CASE Malloc(t)
    <3>1. PICK a \in Addr \ live :
            live' = live \cup {a} /\ node' = [node EXCEPT ![t] = a] /\ sem' = sem
      BY <2>1 DEF Malloc
    <3>2. at[t] = "malloc" /\ at' = [at EXCEPT ![t] = "init_sem"]
      BY <2>1 DEF Malloc
    <3> QED
      BY <3>1, <3>2
  <2>2. CASE InitSem(t)
    BY <2>2 DEF InitSem
  <2>3. CASE InitNext(t) \/ EnqWait(t) \/ Link(t) \/ SetTail(t) \/ EnqPost(t)
    <3>1. /\ UNCHANGED <<live, sem, node>>
          /\ at[t] \in {"init_next", "enq_wait", "link", "set_tail", "enq_post"}
          /\ at'[t] \in {"enq_wait", "link", "set_tail", "enq_post", "wait_sem"}
          /\ \A u \in Workers \ {t} : at'[u] = at[u]
      BY <2>3 DEF InitNext, EnqWait, Link, SetTail, EnqPost
    <3> QED
      BY <3>1
  <2>4. CASE WaitSem(t)
    <3>1. /\ UNCHANGED <<live, node>> /\ at[t] = "wait_sem"
          /\ at' = [at EXCEPT ![t] = "critical"]
          /\ \A a \in Addr : a # node[t] => sem'[a] = sem[a]
      BY <2>4 DEF WaitSem
    <3> QED
      BY <3>1
  <2>5. CASE DeqWait(t) \/ Take(t) \/ DeqPost(t)
    <3>1. /\ UNCHANGED <<live, sem, node>>
          /\ at[t] \in {"critical", "take", "deq_post"}
          /\ at'[t] \in {"take", "post_node", "deq_post", "done"}
          /\ \A u \in Workers \ {t} : at'[u] = at[u]
      BY <2>5 DEF DeqWait, Take, DeqPost
    <3> QED
      BY <3>1
  <2>6. CASE PostNode(t)
    <3>1. /\ UNCHANGED <<live, node>> /\ at[t] = "post_node"
          /\ at' = [at EXCEPT ![t] = "free"]
          /\ sem' = [sem EXCEPT ![curr[t]] = @ + 1]
      BY <2>6 DEF PostNode
    <3>2. \A a \in Addr : sem[a] > 0 => sem'[a] > 0
      BY <3>1
    <3> QED
      BY <3>1, <3>2
  <2>7. CASE Free(t)
    <3>1. /\ UNCHANGED <<sem, node>> /\ live' = live \ {curr[t]}
          /\ at[t] = "free" /\ at' = [at EXCEPT ![t] = "deq_post"]
      BY <2>7 DEF Free
    <3>2. \A u \in Workers : Owns(u) => curr[t] # node[u]
      BY <3>1 DEF NodesOwned, NodeOwned
    <3>3. \A u \in Workers : at[u] \notin {"set_tail", "enq_post"}
      BY <3>1 DEF OneInSection, Section
    <3>4. \A u \in Workers : at[u] = "wait_sem" => node[u] \in live'
      BY <3>1 DEF NoneStale, Stale
    <3> QED
      BY <3>1, <3>2, <3>3, <3>4
  <2> QED
    BY <1>1, <2>1, <2>2, <2>3, <2>4, <2>5, <2>6, <2>7 DEF Worker
<1>2. CASE UNCHANGED nsVars
  BY <1>2 DEF nsVars
<1> QED
  BY <1>1, <1>2 DEF NsNext, NsTerminating

(***************************************************************************)
(* The only thing that can keep a worker from its end is a node freed      *)
(* before its thread has waited on it (ns_mutex.c:54): as long as none is, *)
(* no wait for a node's semaphore sleeps, since node_init has left it at   *)
(* 1, and somebody can go on until all are done.                           *)
(***************************************************************************)
THEOREM NsWaitsEnd ==
  NsSpec /\ []NoneStale =>
    []( /\ \A t \in Workers : at[t] = "wait_sem" => sem[node[t]] > 0
        /\ (\E t \in Workers : at[t] # "done") =>
             \E t \in Workers :
               /\ at[t] # "done" /\ ~Blocked(t)
               /\ at[t] = "wait_sem" => sem[node[t]] > 0 )
<1> DEFINE AllKept == \A t \in Workers : Kept(t)
           GoesOnToEnd ==
             /\ \A t \in Workers : at[t] = "wait_sem" => sem[node[t]] > 0
             /\ (\E t \in Workers : at[t] # "done") =>
                  \E t \in Workers :
                    /\ at[t] # "done" /\ ~Blocked(t)
                    /\ at[t] = "wait_sem" => sem[node[t]] > 0
<1>1. NsInit => AllKept
  BY DEF NsInit, Kept, Keeping, Owns
<1>2. NsInv /\ NoneStale' /\ AllKept /\ [NsNext]_nsVars => AllKept'
  BY KeptStep
<1>3. NsSafe /\ AllKept => GoesOnToEnd
  <2> SUFFICES ASSUME NsSafe, AllKept PROVE GoesOnToEnd
    OBVIOUS
  <2>1. \A t \in Workers : at[t] = "wait_sem" => sem[node[t]] > 0
    BY DEF Kept, Keeping
  <2>2. ASSUME NEW t \in Workers, at[t] # "done"
        PROVE  \E u \in Workers : at[u] # "done" /\ ~Blocked(u)
    <3>1. CASE Stuck
      BY <2>2, <3>1 DEF Stuck, Blocked
    <3>2. CASE ~Stuck
      BY <3>2 DEF NsSafe, NobodyStuck
    <3> QED
      BY <3>1, <3>2
  <2> QED
    BY <2>1, <2>2
<1> HIDE DEF AllKept, GoesOnToEnd
<1>4. NsSpec /\ []NoneStale => []GoesOnToEnd
  BY <1>1, <1>2, <1>3, NsInductive, NsInvariance, PTL DEF NsSpec
<1> QED
  BY <1>4 DEF GoesOnToEnd

=============================================================================
