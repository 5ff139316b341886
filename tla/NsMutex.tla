------------------------------ MODULE NsMutex ------------------------------
(***************************************************************************)
(* src/os-three-easy-pieces/concurrency/sema/ns_mutex.c: a mutex meant to  *)
(* starve nobody.  ns_mutex_acquire puts a node of its own at the tail of  *)
(* a queue and waits for the node's semaphore; ns_mutex_release takes the  *)
(* first node off the queue, posts its semaphore and frees it.             *)
(*                                                                         *)
(* Two things in the code shape what follows.  node_init gives the node's  *)
(* semaphore the value 1, so the wait that should park a thread does not.  *)
(* And the dequeue that empties the queue leaves tail on the node it frees.*)
(*                                                                         *)
(* A node is the address malloc gave it; freed addresses may be given out  *)
(* again.  The allocator keeps its own data in the first bytes of a freed  *)
(* node, where sem was: a wait for such a semaphore may return or not.     *)
(* next lies behind them, so a store to it is kept.  That the allocator    *)
(* may then abort the program is left out.                                 *)
(*                                                                         *)
(* The names differ from those of Zemaphore: ZemaphoreProofs extends both. *)
(***************************************************************************)
EXTENDS Sync, FiniteSets

CONSTANTS
  Workers,   \* the threads that run worker
  Addr,      \* the addresses malloc can return for a node_t
  Dummy,     \* the address of the node lock_queue_init makes, q->head
  NULL

ASSUME NsMutexAssumption ==
  /\ IsFiniteSet(Addr) /\ IsFiniteSet(Workers)
  /\ Cardinality(Addr) >= Cardinality(Workers)   \* malloc never fails
  /\ Dummy \notin Addr
  /\ NULL \notin Addr \cup {Dummy}

VARIABLES
  glock,   \* q->glock
  tail,    \* q->tail
  live,    \* the addresses allocated to nodes
  sem,     \* n->sem of the node at each address
  next,    \* n->next of the node at each address
  at,      \* where each thread is
  node,    \* new_node of each thread
  curr     \* curr of each thread

nsVars == <<glock, tail, live, sem, next, at, node, curr>>

\* ns_mutex_init
NsInit ==
  /\ glock = 1
  /\ tail = Dummy
  /\ live = {}
  /\ sem = [a \in Addr |-> 0]
  /\ next = [a \in Addr \cup {Dummy} |-> NULL]
  /\ at = [t \in Workers |-> "malloc"]
  /\ node = [t \in Workers |-> NULL]
  /\ curr = [t \in Workers |-> NULL]

-----------------------------------------------------------------------------
\* ns_mutex_acquire: lock_queue_enqueue

Malloc(t) ==
  /\ Move(at, t, "malloc", "init_sem")
  /\ \E a \in Addr \ live :
       /\ live' = live \cup {a}
       /\ node' = [node EXCEPT ![t] = a]
  /\ UNCHANGED <<glock, tail, sem, next, curr>>

\* node_init: sem_init(&n->sem, 0, 1).
InitSem(t) ==
  /\ Move(at, t, "init_sem", "init_next")
  /\ sem' = [sem EXCEPT ![node[t]] = 1]
  /\ UNCHANGED <<glock, tail, live, next, node, curr>>

InitNext(t) ==
  /\ Move(at, t, "init_next", "enq_wait")
  /\ next' = [next EXCEPT ![node[t]] = NULL]
  /\ UNCHANGED <<glock, tail, live, sem, node, curr>>

\* Mutant of EnqWait: the queue is entered without glock.
EnqEnter(t) ==
  /\ Move(at, t, "enq_wait", "link")
  /\ glock' = 0
  /\ UNCHANGED <<tail, live, sem, next, node, curr>>

EnqWait(t) ==
  /\ Move(at, t, "enq_wait", "link")
  /\ SemWait(glock)
  /\ UNCHANGED <<tail, live, sem, next, node, curr>>

\* Mutant of Link: the node is put behind the head.
LinkHead(t) ==
  /\ Move(at, t, "link", "set_tail")
  /\ next' = [next EXCEPT ![Dummy] = node[t]]
  /\ UNCHANGED <<glock, tail, live, sem, node, curr>>

\* q->tail->next = new_node: tail may have been freed.
Link(t) ==
  /\ Move(at, t, "link", "set_tail")
  /\ next' = [next EXCEPT ![tail] = node[t]]
  /\ UNCHANGED <<glock, tail, live, sem, node, curr>>

SetTail(t) ==
  /\ Move(at, t, "set_tail", "enq_post")
  /\ tail' = node[t]
  /\ UNCHANGED <<glock, live, sem, next, node, curr>>

EnqPost(t) ==
  /\ Move(at, t, "enq_post", "wait_sem")
  /\ SemPost(glock)
  /\ UNCHANGED <<tail, live, sem, next, node, curr>>

\* The node of t may have been dequeued and freed by another thread.
Stale(t) == node[t] \notin live

\* sem_wait(&new_node->sem)
WaitSem(t) ==
  /\ Move(at, t, "wait_sem", "critical")
  /\ \/ /\ ~Stale(t)
        /\ sem[node[t]] > 0
        /\ sem' = [sem EXCEPT ![node[t]] = @ - 1]
     \/ Stale(t) /\ UNCHANGED sem
  /\ UNCHANGED <<glock, tail, live, next, node, curr>>

-----------------------------------------------------------------------------
\* ns_mutex_release: lock_queue_dequeue

\* From "acquired the mutex" to "releasing the mutex", and into the release.
DeqWait(t) ==
  /\ Move(at, t, "critical", "take")
  /\ SemWait(glock)
  /\ UNCHANGED <<tail, live, sem, next, node, curr>>

\* The first node is unlinked, if there is one.  The nodes the queue holds are
\* changed under glock only, so this is one step.
Take(t) ==
  /\ IF next[Dummy] = NULL
     THEN Move(at, t, "take", "deq_post") /\ UNCHANGED <<next, curr>>
     ELSE /\ Move(at, t, "take", "post_node")
          /\ curr' = [curr EXCEPT ![t] = next[Dummy]]
          /\ next' = [next EXCEPT ![Dummy] = next[next[Dummy]]]
  /\ UNCHANGED <<glock, tail, live, sem, node>>

PostNode(t) ==
  /\ Move(at, t, "post_node", "free")
  /\ sem' = [sem EXCEPT ![curr[t]] = @ + 1]
  /\ UNCHANGED <<glock, tail, live, next, node, curr>>

\* node_free
Free(t) ==
  /\ Move(at, t, "free", "deq_post")
  /\ live' = live \ {curr[t]}
  /\ UNCHANGED <<glock, tail, sem, next, node, curr>>

\* Mutant of DeqPost: the dequeue leaves glock taken.
DeqLeave(t) ==
  /\ Move(at, t, "deq_post", "done")
  /\ UNCHANGED <<glock, tail, live, sem, next, node, curr>>

DeqPost(t) ==
  /\ Move(at, t, "deq_post", "done")
  /\ SemPost(glock)
  /\ UNCHANGED <<tail, live, sem, next, node, curr>>

-----------------------------------------------------------------------------

Worker(t) ==
  \/ Malloc(t) \/ InitSem(t) \/ InitNext(t)
  \/ EnqWait(t) \/ Link(t) \/ SetTail(t) \/ EnqPost(t) \/ WaitSem(t)
  \/ DeqWait(t) \/ Take(t) \/ PostNode(t) \/ Free(t) \/ DeqPost(t)

\* main joins every worker, but one that waits on its node may do so for ever.
Stuck == \A t \in Workers : at[t] \in {"wait_sem", "done"}

NsTerminating == Stuck /\ UNCHANGED nsVars

NsNext == (\E t \in Workers : Worker(t)) \/ NsTerminating

NsSpec == NsInit /\ [][NsNext]_nsVars

\* The kernel keeps running every runnable thread.  A wait for a semaphore
\* that has been freed need not return.
NsFairSpec ==
  /\ NsSpec
  /\ \A t \in Workers :
       WF_nsVars(Worker(t) /\ (at[t] = "wait_sem" => ~Stale(t)))

-----------------------------------------------------------------------------

NsLabels == {"malloc", "init_sem", "init_next", "enq_wait", "link", "set_tail",
           "enq_post", "wait_sem", "critical", "take", "post_node", "free",
           "deq_post", "done"}

NsTypeOK ==
  /\ glock \in {0, 1}
  /\ tail \in Addr \cup {Dummy}
  /\ live \subseteq Addr
  /\ sem \in [Addr -> Nat]
  /\ next \in [Addr \cup {Dummy} -> Addr \cup {NULL}]
  /\ at \in [Workers -> NsLabels]
  /\ node \in [Workers -> Addr \cup {NULL}]
  /\ curr \in [Workers -> Addr \cup {NULL}]

\* The addresses a walk from q->head meets: those in every set of addresses
\* that holds q->head and what follows each of its members.
Reached(link) ==
  {a \in Addr \cup {Dummy} :
     \A S \in SUBSET (Addr \cup {Dummy}) :
       Dummy \in S /\ (\A b \in S : link[b] \in S \cup {NULL}) => a \in S}

Queue == Reached(next)

\* The queue has been emptied: tail is not the dummy node, which is alone.
Drained == next[Dummy] = NULL /\ tail # Dummy

(***************************************************************************)
(* The queue never holds a freed node, and ends at tail until it has been  *)
(* emptied once.  A node is freed once, and out of the queue.              *)
(***************************************************************************)
QueueSound ==
  /\ Queue \subseteq live \cup {Dummy}
  /\ Drained \/ tail \in Queue
  /\ \A t \in Workers :
       at[t] \in {"post_node", "free"} =>
         /\ curr[t] \in live \ Queue
         /\ \A u \in Workers \ {t} :
              at[u] \in {"post_node", "free"} => curr[u] # curr[t]

\* Labels between the wait for glock and its post.
Section == {"link", "set_tail", "enq_post", "take", "post_node", "free",
            "deq_post"}

\* One thread at a time is there, and glock is taken.
OneInSection ==
  \A t \in Workers : at[t] \in Section =>
    glock = 0 /\ \A u \in Workers : at[u] \in Section => u = t

\* The node of t is its own: allocated, and not in the queue yet.
Owns(t) == at[t] \in {"init_sem", "init_next", "enq_wait", "link"}

NodeOwned(t) ==
  /\ Owns(t) =>
       /\ node[t] \in live \ Queue
       /\ \A u \in Workers \ {t} : Owns(u) => node[u] # node[t]
       /\ \A u \in Workers : at[u] \in {"post_node", "free"} => curr[u] # node[t]
  /\ at[t] \in {"enq_wait", "link"} => Drained \/ next[node[t]] = NULL
  /\ at[t] = "set_tail" => node[t] \in Addr

NodesOwned == \A t \in Workers : NodeOwned(t)

\* No two nodes of the queue have the same next node, and tail is its last or,
\* while a thread is at set_tail, the last but one.
QueueEnds ==
  /\ \A a, b \in Queue : next[a] = next[b] /\ next[a] # NULL => a = b
  /\ \/ Drained
     \/ next[tail] = NULL /\ \A t \in Workers : at[t] # "set_tail"
     \/ \E t \in Workers : /\ at[t] = "set_tail"
                          /\ next[tail] = node[t]
                          /\ next[node[t]] = NULL

(***************************************************************************)
(* The inductive invariant: glock keeps the threads in the queue apart,    *)
(* and a node is with its thread, then in the queue, then with the thread  *)
(* that frees it.                                                          *)
(***************************************************************************)
NsInv ==
  NsTypeOK /\ QueueSound /\ OneInSection /\ NodesOwned /\ QueueEnds

\* Only a thread in the section keeps glock down.
GlockHeld == glock = 0 => \E t \in Workers : at[t] \in Section

\* No more nodes are allocated than threads have come for one.
LiveCounted ==
  Cardinality(live) <= Cardinality({t \in Workers : at[t] # "malloc"})

\* t sleeps on glock, or malloc has no address for it.
Blocked(t) ==
  \/ at[t] \in {"enq_wait", "critical"} /\ glock = 0
  \/ at[t] = "malloc" /\ live = Addr

(***************************************************************************)
(* While any thread is neither done nor at the wait for its node's         *)
(* semaphore, one of those can go on: glock is given back, whatever became *)
(* of the queue, and there is an address for each node.                    *)
(***************************************************************************)
NobodyStuck == ~Stuck => \E t \in Workers : at[t] \notin {"wait_sem", "done"} /\ ~Blocked(t)

NsSafe == NsInv /\ GlockHeld /\ LiveCounted /\ NobodyStuck

(***************************************************************************)
(* Because tail stays on the freed node, an emptied queue is empty for     *)
(* ever: every later node is lost, and every later release finds "queue is *)
(* empty" (ns_mutex.c:63).                                                 *)
(***************************************************************************)
DrainedForEver == [][Drained => Drained']_nsVars

(***************************************************************************)
(* If no thread ever waits on a node that was freed under it, every worker *)
(* is joined.                                                              *)
(***************************************************************************)
CompletesUnlessStale ==
  [](\A t \in Workers : at[t] = "wait_sem" => ~Stale(t))
    => <>(\A t \in Workers : at[t] = "done")

(***************************************************************************)
(* One thread at a time is between "acquired the mutex" and "releasing the *)
(* mutex" (ns_mutex.c:104 and 106).  The code does not provide it.         *)
(***************************************************************************)
MutualExclusion ==
  \A t, u \in Workers : at[t] = "critical" /\ at[u] = "critical" => t = u

=============================================================================
