------------------------------- MODULE Buffer -------------------------------
(***************************************************************************)
(* src/os-three-easy-pieces/concurrency/buffer.c: producers and consumers  *)
(* share a ring of MAX slots behind three semaphores.  empty counts the    *)
(* slots a producer may still claim, full the items a consumer may still   *)
(* claim, and mutex guards buffer, fill and use.                           *)
(*                                                                         *)
(* put and get are two steps each (the slot, then the index), so nothing   *)
(* but mutex keeps another thread from running between them.  The int i a  *)
(* producer puts is tagged with the producer, to tell equal ints apart.    *)
(***************************************************************************)
EXTENDS Sync, FiniteSets, FiniteSetsExt

CONSTANTS
  Producers,   \* threads that run producer
  Consumers,   \* threads that run consumer
  MAX,         \* MAX, the slots of the ring
  loops,       \* items each producer puts and each consumer gets
  NoItem       \* a slot never written

ASSUME BufferAssumption ==
  /\ MAX \in Nat \ {0}
  /\ loops \in Nat
  /\ Producers \cap Consumers = {}
  /\ IsFiniteSet(Producers)
  /\ IsFiniteSet(Consumers)

Threads == Producers \cup Consumers
Slots == 0 .. MAX - 1
Items == Producers \X Nat

VARIABLES
  empty,    \* sem_t empty
  full,     \* sem_t full
  mutex,    \* sem_t mutex
  buffer,   \* int buffer[MAX]
  fill,     \* the slot the next put writes
  use,      \* the slot the next get reads
  pc,       \* where each thread is
  i,        \* the loop counter of each thread
  tmp,      \* the local tmp of get
  got       \* the tmp of consumer, what get returned

vars == <<empty, full, mutex, buffer, fill, use, pc, i, tmp, got>>

Start(t) ==
  IF loops = 0 THEN "done"
  ELSE IF t \in Producers THEN "wait_empty" ELSE "wait_full"

Init ==
  /\ empty = MAX
  /\ full = 0
  /\ mutex = 1
  /\ buffer = [s \in Slots |-> NoItem]
  /\ fill = 0
  /\ use = 0
  /\ pc = [t \in Threads |-> Start(t)]
  /\ i = [t \in Threads |-> 0]
  /\ tmp = [c \in Consumers |-> NoItem]
  /\ got = [c \in Consumers |-> NoItem]

\* for (i = 0; i < loops; ++i): the label after an iteration of t.
Iterate(t, from) ==
  /\ Move(pc, t, from, IF i[t] + 1 < loops THEN Start(t) ELSE "done")
  /\ i' = [i EXCEPT ![t] = @ + 1]

WaitEmpty(p) ==
  /\ Move(pc, p, "wait_empty", "wait_mutex")
  /\ SemWait(empty)
  /\ UNCHANGED <<full, mutex, buffer, fill, use, i, tmp, got>>

WaitFull(c) ==
  /\ Move(pc, c, "wait_full", "wait_mutex")
  /\ SemWait(full)
  /\ UNCHANGED <<empty, mutex, buffer, fill, use, i, tmp, got>>

\* Mutant of WaitMutex: the ring is entered without the semaphore.
EnterRing(t) ==
  /\ Move(pc, t, "wait_mutex", IF t \in Producers THEN "store" ELSE "load")
  /\ mutex' = 0
  /\ UNCHANGED <<empty, full, buffer, fill, use, i, tmp, got>>

WaitMutex(t) ==
  /\ Move(pc, t, "wait_mutex", IF t \in Producers THEN "store" ELSE "load")
  /\ SemWait(mutex)
  /\ UNCHANGED <<empty, full, buffer, fill, use, i, tmp, got>>

\* put: buffer[fill] = value.
Store(p) ==
  /\ Move(pc, p, "store", "advance_fill")
  /\ buffer' = [buffer EXCEPT ![fill] = <<p, i[p]>>]
  /\ UNCHANGED <<empty, full, mutex, fill, use, i, tmp, got>>

AdvanceFill(p) ==
  /\ Move(pc, p, "advance_fill", "post_mutex")
  /\ fill' = (fill + 1) % MAX
  /\ UNCHANGED <<empty, full, mutex, buffer, use, i, tmp, got>>

\* Mutant of Load: get reads the slot put will write.
LoadFill(c) ==
  /\ Move(pc, c, "load", "advance_use")
  /\ tmp' = [tmp EXCEPT ![c] = buffer[fill]]
  /\ UNCHANGED <<empty, full, mutex, buffer, fill, use, i, got>>

\* get: int tmp = buffer[use].
Load(c) ==
  /\ Move(pc, c, "load", "advance_use")
  /\ tmp' = [tmp EXCEPT ![c] = buffer[use]]
  /\ UNCHANGED <<empty, full, mutex, buffer, fill, use, i, got>>

\* get: the index moves on and tmp is returned.
AdvanceUse(c) ==
  /\ Move(pc, c, "advance_use", "post_mutex")
  /\ use' = (use + 1) % MAX
  /\ got' = [got EXCEPT ![c] = tmp[c]]
  /\ UNCHANGED <<empty, full, mutex, buffer, fill, i, tmp>>

PostMutex(t) ==
  /\ Move(pc, t, "post_mutex",
          IF t \in Producers THEN "post_full" ELSE "post_empty")
  /\ SemPost(mutex)
  /\ UNCHANGED <<empty, full, buffer, fill, use, i, tmp, got>>

PostFull(p) ==
  /\ Iterate(p, "post_full")
  /\ SemPost(full)
  /\ UNCHANGED <<empty, mutex, buffer, fill, use, tmp, got>>

\* Mutant of PostEmpty: the slot is not given back.
PostNothing(c) ==
  /\ Iterate(c, "post_empty")
  /\ UNCHANGED <<empty, full, mutex, buffer, fill, use, tmp, got>>

PostEmpty(c) ==
  /\ Iterate(c, "post_empty")
  /\ SemPost(empty)
  /\ UNCHANGED <<full, mutex, buffer, fill, use, tmp, got>>

Produce(p) ==
  \/ WaitEmpty(p) \/ WaitMutex(p) \/ Store(p) \/ AdvanceFill(p)
  \/ PostMutex(p) \/ PostFull(p)

Consume(c) ==
  \/ WaitFull(c) \/ WaitMutex(c) \/ Load(c) \/ AdvanceUse(c)
  \/ PostMutex(c) \/ PostEmpty(c)

Finished == \A t \in Threads : pc[t] = "done"

Terminating == Finished /\ UNCHANGED vars

Next ==
  \/ \E p \in Producers : Produce(p)
  \/ \E c \in Consumers : Consume(c)
  \/ Terminating

\* The kernel keeps running every runnable thread.  sem_post wakes some
\* waiter, no particular one.
Fairness ==
  /\ \A p \in Producers : WF_vars(Produce(p))
  /\ \A c \in Consumers : WF_vars(Consume(c))

Spec == Init /\ [][Next]_vars

FairSpec == Spec /\ Fairness

-----------------------------------------------------------------------------

ProducerLabels == {"wait_empty", "wait_mutex", "store", "advance_fill",
                   "post_mutex", "post_full", "done"}
ConsumerLabels == {"wait_full", "wait_mutex", "load", "advance_use",
                   "post_mutex", "post_empty", "done"}

TypeOK ==
  /\ empty \in 0 .. MAX
  /\ full \in 0 .. MAX
  /\ mutex \in {0, 1}
  /\ buffer \in [Slots -> Items \cup {NoItem}]
  /\ fill \in Slots
  /\ use \in Slots
  /\ pc \in [Threads -> ProducerLabels \cup ConsumerLabels]
  /\ \A p \in Producers : pc[p] \in ProducerLabels
  /\ \A c \in Consumers : pc[c] \in ConsumerLabels
  /\ i \in [Threads -> 0 .. loops]
  /\ tmp \in [Consumers -> Items \cup {NoItem}]
  /\ got \in [Consumers -> Items \cup {NoItem}]

At(S, labels) == {t \in S : pc[t] \in labels}

InRing == {"store", "advance_fill", "load", "advance_use", "post_mutex"}

(***************************************************************************)
(* buffer, fill and use are touched by one thread at a time, the one that  *)
(* took mutex: no put or get runs between the two halves of another.       *)
(***************************************************************************)
OneInRing ==
  /\ \A t, u \in At(Threads, InRing) : t = u
  /\ mutex = 1 <=> At(Threads, InRing) = {}

\* Producers that hold a slot they have claimed from empty and not yet given
\* to full, and consumers that hold an item the other way round.
Filling == At(Producers, {"wait_mutex", "store", "advance_fill", "post_mutex",
                          "post_full"})
Draining == At(Consumers, {"wait_mutex", "load", "advance_use", "post_mutex",
                           "post_empty"})

(***************************************************************************)
(* Every slot is accounted for: free, filled, or in the hands of exactly   *)
(* one thread between its sem_wait and its sem_post.                       *)
(***************************************************************************)
SlotAccounting ==
  empty + full + Cardinality(Filling) + Cardinality(Draining) = MAX

\* Producers that have put an item and not yet told full, and consumers that
\* have taken an item from full and not yet moved use past it.
Posting == At(Producers, {"post_mutex", "post_full"})
Claiming == At(Consumers, {"wait_mutex", "load", "advance_use"})

\* The items in the ring.
Count == full + Cardinality(Posting) + Cardinality(Claiming)

\* fill is Count slots ahead of use.
RingIndices == fill = (use + Count) % MAX

\* Between the two halves of put and of get the slot holds still.
HalfDone ==
  /\ \A p \in Producers : pc[p] = "advance_fill" => buffer[fill] = <<p, i[p]>>
  /\ \A c \in Consumers : pc[c] = "advance_use" => tmp[c] = buffer[use]

InLoop == \A t \in Threads : pc[t] # "done" => i[t] < loops

(***************************************************************************)
(* The inductive invariant: the slots are accounted for, the items lie     *)
(* from use to fill, and whoever is between the halves of put or get finds *)
(* the slot as it left it.                                                 *)
(***************************************************************************)
IInv ==
  TypeOK /\ OneInRing /\ SlotAccounting /\ RingIndices /\ HalfDone /\ InLoop

\* What is posted to full and not claimed from it: the iterations the producers
\* have finished, less those the consumers have begun.
FullPosted ==
  full = MapThenSumSet(LAMBDA p : i[p], Producers)
           - MapThenSumSet(LAMBDA c : i[c], Consumers) - Cardinality(Draining)

\* A thread is done when it has put or got loops items.
DoneInLoops == \A t \in Threads : pc[t] = "done" <=> i[t] = loops

\* t sleeps on a semaphore.
Blocked(t) ==
  \/ pc[t] = "wait_empty" /\ empty = 0
  \/ pc[t] = "wait_full" /\ full = 0
  \/ pc[t] = "wait_mutex" /\ mutex = 0

(***************************************************************************)
(* With as many consumers as producers somebody can always go on: the ring *)
(* is never full with the consumers gone nor empty with the producers      *)
(* gone, and nobody sleeps inside mutex.                                   *)
(***************************************************************************)
NoDeadlock ==
  Cardinality(Producers) = Cardinality(Consumers) /\ ~Finished =>
    \E t \in Threads : pc[t] # "done" /\ ~Blocked(t)

Inv == IInv /\ FullPosted /\ DoneInLoops /\ NoDeadlock

\* The items from use on, oldest first, and how many each producer has put.
Queue == [k \in 1 .. Count |-> buffer[(use + k - 1) % MAX]]
Sent ==
  [p \in Producers |->
     IF pc[p] \in {"post_mutex", "post_full"} THEN i[p] + 1 ELSE i[p]]

(***************************************************************************)
(* The ring implements a bounded FIFO: a put takes effect when it advances *)
(* fill, a get when it advances use.                                       *)
(***************************************************************************)
FIFO == INSTANCE BoundedFIFO WITH queue <- Queue, sent <- Sent

ImplementsFIFO == FIFO!Spec

(***************************************************************************)
(* As many gets as puts: every producer and every consumer finishes, none  *)
(* is left asleep on a semaphore.                                          *)
(***************************************************************************)
Termination == <>Finished

=============================================================================
