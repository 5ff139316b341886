---------------------------- MODULE LockCoupling ----------------------------
(***************************************************************************)
(* src/os-three-easy-pieces/concurrency/lock_coupling.c: a singly linked   *)
(* list with a mutex in every node.  list_insert puts a node behind the    *)
(* head; list_delete walks the list holding two neighbouring nodes, so     *)
(* that whoever unlinks and frees a node holds the only way to it.         *)
(*                                                                         *)
(* Threads call list_insert and list_delete as they like, MaxCalls times   *)
(* each (a bound of the model), on a list that earlier calls have left;    *)
(* main then joins them, prints the list and frees it.  A node is the      *)
(* address malloc gave it.  What a lock guards is read and written in one  *)
(* step.                                                                   *)
(*                                                                         *)
(* serial, rank and target are history variables: the nodes of the list as *)
(* it would be if each call took place when it locked the head, their      *)
(* order, and the node a delete would find in that list.                   *)
(***************************************************************************)
EXTENDS Sync, SequencesExt

CONSTANTS
  Threads, Vals,
  Addr,       \* the addresses malloc can return for a node_t
  HeadNode,   \* the address of the node list_init makes
  Longest,    \* the length of the longest list the threads find
  MaxCalls,   \* calls of each thread
  NULL

ASSUME LockCouplingAssumption ==
  /\ IsFiniteSet(Addr)
  /\ HeadNode \notin Addr
  /\ NULL \notin Addr \cup {HeadNode}
  /\ MaxCalls \in Nat
  /\ Longest \in 0 .. Cardinality(Addr)

Nodes == Addr \cup {HeadNode}

VARIABLES
  live,      \* the addresses allocated
  val,       \* val of the node at each address
  next,      \* next of the node at each address
  mutex,     \* mutex of the node at each address
  pc,        \* where each thread is
  calls,     \* the calls each thread has made
  arg,       \* the argument val of each call
  prev,      \* prev of each call
  curr,      \* curr of each call
  new,       \* new_node of each call
  main,      \* where main is
  walk,      \* curr of list_print or list_free
  printed,   \* what list_print has printed
  serial,    \* history: the list in the order in which calls lock the head
  rank,      \* history: what orders serial, the first node has the highest
  target     \* history: the node of serial that a delete is to find, or NULL

node == <<live, val, next, mutex>>
frame == <<calls, arg>>
history == <<serial, rank, target>>
atMain == <<main, walk, printed>>
vars == <<node, pc, frame, prev, curr, new, atMain, history>>

\* list_init, and the list s that earlier calls inserted.
Filled(s) ==
  LET addr == SetToSeq(Addr)
      place(a) == CHOOSE k \in DOMAIN addr : addr[k] = a
      used == {a \in Addr : place(a) <= Len(s)}
      node_(k) == IF k <= Len(s) THEN addr[k] ELSE NULL
  IN  /\ live = {HeadNode} \cup used
      /\ val = [a \in Addr |-> IF a \in used THEN s[place(a)] ELSE NULL]
      /\ next = [a \in Nodes |-> node_(IF a = HeadNode THEN 1 ELSE 1 + place(a))]
      /\ serial = used
      /\ rank = [a \in Addr |-> IF a \in used THEN 1 + Len(s) - place(a) ELSE 0]

Init ==
  /\ \E n \in 0 .. Longest : \E s \in [1 .. n -> Vals] : Filled(s)
  /\ mutex = [a \in Nodes |-> {}]
  /\ pc = [t \in Threads |-> "idle"]
  /\ calls = [t \in Threads |-> 0]
  /\ arg = [t \in Threads |-> NULL]
  /\ prev = [t \in Threads |-> NULL]
  /\ curr = [t \in Threads |-> NULL]
  /\ new = [t \in Threads |-> NULL]
  /\ main = "join"
  /\ walk = NULL
  /\ printed = <<>>
  /\ target = [t \in Threads |-> NULL]

\* t locks the mutex of the node at a, or unlocks it.
Lock(t, a) == mutex[a] = {} /\ mutex' = [mutex EXCEPT ![a] = {t}]
Unlock(t, a) == mutex' = [mutex EXCEPT ![a] = @ \ {t}]

Call(t) ==
  /\ calls[t] < MaxCalls
  /\ \E call \in {"malloc", "del_lock"} : Move(pc, t, "idle", call)
  /\ \E v \in Vals : arg' = [arg EXCEPT ![t] = v]
  /\ calls' = [calls EXCEPT ![t] = @ + 1]
  /\ UNCHANGED <<node, prev, curr, new, atMain, history>>

-----------------------------------------------------------------------------
\* list_insert

\* malloc, and the new node's val, next and mutex.
Malloc(t) ==
  /\ Move(pc, t, "malloc", "ins_lock")
  /\ \E a \in Addr \ live :
       /\ live' = live \cup {a}
       /\ val' = [val EXCEPT ![a] = arg[t]]
       /\ next' = [next EXCEPT ![a] = NULL]
       /\ mutex' = [mutex EXCEPT ![a] = {}]
       /\ new' = [new EXCEPT ![t] = a]
  /\ UNCHANGED <<frame, prev, curr, atMain, history>>

\* malloc returns NULL: the value is not inserted.
MallocFails(t) ==
  /\ Move(pc, t, "malloc", "idle")
  /\ UNCHANGED <<node, frame, prev, curr, new, atMain, history>>

\* The node at a becomes the first of serial.
PutFirst(a) ==
  /\ serial' = serial \cup {a}
  /\ rank' = [rank EXCEPT ![a] =
                1 + IF next[HeadNode] = NULL THEN 0 ELSE rank[next[HeadNode]]]

\* Mutant of InsLock: the head is not locked.
InsEnter(t) ==
  /\ Move(pc, t, "ins_lock", IF next[HeadNode] = NULL THEN "link" ELSE "ins_lock_curr")
  /\ prev' = [prev EXCEPT ![t] = HeadNode]
  /\ curr' = [curr EXCEPT ![t] = next[HeadNode]]
  /\ PutFirst(new[t])
  /\ UNCHANGED <<node, frame, new, atMain, target>>

\* prev = list->head is locked and curr = prev->next read.
InsLock(t) ==
  /\ Move(pc, t, "ins_lock", IF next[HeadNode] = NULL THEN "link" ELSE "ins_lock_curr")
  /\ Lock(t, HeadNode)
  /\ prev' = [prev EXCEPT ![t] = HeadNode]
  /\ curr' = [curr EXCEPT ![t] = next[HeadNode]]
  /\ PutFirst(new[t])
  /\ UNCHANGED <<live, val, next, frame, new, atMain, target>>

InsLockCurr(t) ==
  /\ Move(pc, t, "ins_lock_curr", "link")
  /\ Lock(t, curr[t])
  /\ UNCHANGED <<live, val, next, frame, prev, curr, new, atMain, history>>

Link(t) ==
  /\ Move(pc, t, "link", IF curr[t] = NULL THEN "ins_unlock" ELSE "ins_unlock_curr")
  /\ next' = [next EXCEPT ![prev[t]] = new[t], ![new[t]] = curr[t]]
  /\ UNCHANGED <<live, val, mutex, frame, prev, curr, new, atMain, history>>

InsUnlockCurr(t) ==
  /\ Move(pc, t, "ins_unlock_curr", "ins_unlock")
  /\ Unlock(t, curr[t])
  /\ UNCHANGED <<live, val, next, frame, prev, curr, new, atMain, history>>

InsUnlock(t) ==
  /\ Move(pc, t, "ins_unlock", "idle")
  /\ Unlock(t, prev[t])
  /\ UNCHANGED <<live, val, next, frame, prev, curr, new, atMain, history>>

-----------------------------------------------------------------------------
\* list_delete

\* A walk that has reached curr locks it, one that has reached the end leaves.
Onward(from, t, a) == Move(pc, t, from, IF a = NULL THEN "miss" ELSE "del_lock_curr")

\* The first node of serial that holds v, or NULL.
FirstWith(v) ==
  LET with == {a \in serial : val[a] = v}
  IN  IF with = {} THEN NULL
      ELSE CHOOSE a \in with : \A b \in with : rank[b] <= rank[a]

\* prev = list->head is locked and curr = prev->next read.
DelLock(t) ==
  /\ Onward("del_lock", t, next[HeadNode])
  /\ Lock(t, HeadNode)
  /\ prev' = [prev EXCEPT ![t] = HeadNode]
  /\ curr' = [curr EXCEPT ![t] = next[HeadNode]]
  /\ target' = [target EXCEPT ![t] = FirstWith(arg[t])]
  /\ serial' = serial \ {FirstWith(arg[t])}
  /\ UNCHANGED <<live, val, next, frame, new, atMain, rank>>

\* Mutant of DelLockCurr: curr is entered without its mutex.
DelEnterCurr(t) ==
  /\ Move(pc, t, "del_lock_curr", IF val[curr[t]] = arg[t] THEN "unlink" ELSE "step")
  /\ UNCHANGED <<node, frame, prev, curr, new, atMain, history>>

\* curr is locked and curr->val compared.
DelLockCurr(t) ==
  /\ Move(pc, t, "del_lock_curr", IF val[curr[t]] = arg[t] THEN "unlink" ELSE "step")
  /\ Lock(t, curr[t])
  /\ UNCHANGED <<live, val, next, frame, prev, curr, new, atMain, history>>

\* prev gives way to curr, which stays locked, and curr to its successor.
Step(t) ==
  /\ Onward("step", t, next[curr[t]])
  /\ Unlock(t, prev[t])
  /\ prev' = [prev EXCEPT ![t] = curr[t]]
  /\ curr' = [curr EXCEPT ![t] = next[curr[t]]]
  /\ UNCHANGED <<live, val, next, frame, new, atMain, history>>

Unlink(t) ==
  /\ Move(pc, t, "unlink", "hit")
  /\ next' = [next EXCEPT ![prev[t]] = next[curr[t]]]
  /\ UNCHANGED <<live, val, mutex, frame, prev, curr, new, atMain, history>>

\* Mutant of UnlockPrev: the delete returns with prev locked.
KeepPrev(t) ==
  /\ Move(pc, t, "hit", "free")
  /\ UNCHANGED <<node, frame, prev, curr, new, atMain, history>>

UnlockPrev(t) ==
  /\ Move(pc, t, "hit", "free")
  /\ Unlock(t, prev[t])
  /\ UNCHANGED <<live, val, next, frame, prev, curr, new, atMain, history>>

\* curr's mutex is destroyed while t holds it, and curr freed.
Free(t) ==
  /\ Move(pc, t, "free", "idle")
  /\ live' = live \ {curr[t]}
  /\ rank' = [rank EXCEPT ![curr[t]] = 0]
  /\ UNCHANGED <<val, next, mutex, frame, prev, curr, new, atMain, serial, target>>

\* The end of the list: nothing to delete.
Miss(t) ==
  /\ Move(pc, t, "miss", "idle")
  /\ Unlock(t, prev[t])
  /\ UNCHANGED <<live, val, next, frame, prev, curr, new, atMain, history>>

-----------------------------------------------------------------------------
\* main, once its threads have returned

Join ==
  /\ main = "join"
  /\ \A t \in Threads : pc[t] = "idle" /\ calls[t] = MaxCalls
  /\ main' = "print"
  /\ walk' = next[HeadNode]
  /\ UNCHANGED <<node, pc, frame, prev, curr, new, printed, history>>

\* A turn of the loop of list_print, or its end.
PrintNode ==
  /\ main = "print"
  /\ IF walk = NULL
     THEN main' = "free" /\ walk' = HeadNode /\ UNCHANGED printed
     ELSE /\ mutex[walk] = {}
          /\ printed' = Append(printed, val[walk])
          /\ walk' = next[walk]
          /\ UNCHANGED main
  /\ UNCHANGED <<node, pc, frame, prev, curr, new, history>>

\* A turn of the loop of list_free, or its end.
FreeList ==
  /\ main = "free"
  /\ IF walk = NULL
     THEN main' = "end" /\ UNCHANGED <<live, walk>>
     ELSE live' = live \ {walk} /\ walk' = next[walk] /\ UNCHANGED main
  /\ UNCHANGED <<val, next, mutex, pc, frame, prev, curr, new, printed, history>>

Main == Join \/ PrintNode \/ FreeList

-----------------------------------------------------------------------------

Thread(t) ==
  \/ Call(t)
  \/ Malloc(t) \/ MallocFails(t)
  \/ InsLock(t) \/ InsLockCurr(t) \/ Link(t) \/ InsUnlockCurr(t) \/ InsUnlock(t)
  \/ DelLock(t) \/ DelLockCurr(t) \/ Step(t) \/ Miss(t)
  \/ Unlink(t) \/ UnlockPrev(t) \/ Free(t)

Terminating == main = "end" /\ UNCHANGED vars

Next == (\E t \in Threads : Thread(t)) \/ Main \/ Terminating

Spec == Init /\ [][Next]_vars

\* The kernel keeps running every runnable thread.
FairSpec == Spec /\ WF_vars(Main) /\ \A t \in Threads : WF_vars(Thread(t))

-----------------------------------------------------------------------------

Labels == {"idle", "malloc", "ins_lock", "ins_lock_curr", "link",
           "ins_unlock_curr", "ins_unlock", "del_lock", "del_lock_curr",
           "step", "unlink", "hit", "free", "miss"}

TypeOK ==
  /\ live \subseteq Nodes
  /\ val \in [Addr -> Vals \cup {NULL}]
  /\ next \in [Nodes -> Addr \cup {NULL}]
  /\ mutex \in [Nodes -> SUBSET Threads]
  /\ pc \in [Threads -> Labels]
  /\ calls \in [Threads -> 0 .. MaxCalls]
  /\ arg \in [Threads -> Vals \cup {NULL}]
  /\ prev \in [Threads -> Nodes \cup {NULL}]
  /\ curr \in [Threads -> Addr \cup {NULL}]
  /\ new \in [Threads -> Addr \cup {NULL}]
  /\ main \in {"join", "print", "free", "end"}
  /\ walk \in Nodes \cup {NULL}
  /\ printed \in Seq(Vals)
  /\ serial \subseteq Addr
  /\ rank \in [Addr -> Nat]
  /\ target \in [Threads -> Addr \cup {NULL}]

\* The nodes a thread is about to lock, unlock, read or write.
Touched(t) ==
  CASE pc[t] \in {"link", "ins_unlock_curr"} -> {prev[t], curr[t], new[t]} \ {NULL}
    [] pc[t] \in {"ins_lock_curr", "del_lock_curr", "step", "unlink", "hit"} ->
         {prev[t], curr[t]}
    [] pc[t] \in {"ins_unlock", "miss"} -> {prev[t]}
    [] pc[t] = "free" -> {curr[t]}
    [] OTHER -> {}

(***************************************************************************)
(* No thread touches a node that has been freed, and none is freed while   *)
(* another thread holds it, waits for it or has a pointer to it that it    *)
(* will use.                                                               *)
(***************************************************************************)
NoUseAfterFree ==
  \A t \in Threads :
    /\ Touched(t) \subseteq live
    /\ pc[t] = "free" => \A u \in Threads \ {t} : curr[t] \notin Touched(u)

\* The calls that serial is ahead of: inserts that have not linked their node,
\* and deletes that have not unlinked their target.
Inserting == {t \in Threads : pc[t] \in {"ins_lock_curr", "link"}}
Deleting ==
  {t \in Threads : pc[t] \in {"del_lock_curr", "step", "unlink"} /\ target[t] # NULL}

\* The nodes of the list.
List == (serial \cup {target[t] : t \in Deleting}) \ {new[t] : t \in Inserting}

\* The node at a comes after the one at b.
Behind(a, b) == b = HeadNode \/ rank[a] < rank[b]

\* next leads from the node at a to the one behind it, and passes none over.
Linked(a) ==
  /\ next[a] \in List \cup {NULL}
  /\ next[a] # NULL => Behind(next[a], a)
  /\ \A b \in List : Behind(b, a) =>
       next[a] # NULL /\ (b = next[a] \/ rank[b] < rank[next[a]])

ListSound ==
  /\ main \in {"join", "print"} => List \cup {HeadNode} \subseteq live
  /\ main = "print" => walk \in List \cup {NULL}
  /\ \A a \in List : val[a] \in Vals
  /\ \A a, b \in List : rank[a] = rank[b] => a = b
  /\ \A a \in List \cup {HeadNode} : Linked(a)

\* serial holds what is to be inserted, ahead of the list, and not what is to
\* be deleted, which differs from one delete to the next.
HistorySound ==
  /\ \A t \in Inserting :
       new[t] \in serial /\ \A a \in List : rank[a] < rank[new[t]]
  /\ \A t \in Deleting :
       /\ target[t] \notin serial
       /\ \A u \in Deleting : target[u] = target[t] => u = t

\* The nodes whose mutex t has locked.
Holds(t) ==
  CASE pc[t] \in {"link", "ins_unlock_curr", "step", "unlink", "hit"} ->
         {prev[t], curr[t]} \ {NULL}
    [] pc[t] \in {"ins_lock_curr", "ins_unlock", "del_lock_curr", "miss"} -> {prev[t]}
    [] pc[t] = "free" -> {curr[t]}
    [] OTHER -> {}

Locked ==
  /\ \A a \in live, t \in Threads : t \in mutex[a] <=> a \in Holds(t)
  /\ \A t, u \in Threads : t # u => Holds(t) \cap Holds(u) = {}

\* A new node is its thread's own until it is linked.
NewOwned(t) ==
  pc[t] \in {"ins_lock", "ins_lock_curr", "link"} =>
    /\ new[t] \in live \ List
    /\ val[new[t]] \in Vals
    /\ mutex[new[t]] = {}
    /\ \A u \in Threads \ {t} :
         pc[u] \in {"ins_lock", "ins_lock_curr", "link"} => new[u] # new[t]

\* Where prev and curr of t are.
InPlace(t) ==
  /\ main = "join" \/ (pc[t] = "idle" /\ calls[t] = MaxCalls)
  /\ pc[t] # "idle" => arg[t] \in Vals
  /\ pc[t] \in {"ins_lock_curr", "link", "ins_unlock_curr", "ins_unlock"} =>
       prev[t] = HeadNode
  /\ pc[t] \in {"ins_lock_curr", "link"} => curr[t] = next[HeadNode]
  /\ pc[t] = "ins_lock_curr" => curr[t] # NULL
  /\ pc[t] = "ins_unlock_curr" =>
       curr[t] \in List /\ new[t] = next[HeadNode] /\ new[t] # NULL
  /\ pc[t] \in {"del_lock_curr", "step", "unlink", "hit", "miss"} =>
       prev[t] \in List \cup {HeadNode}
  /\ pc[t] \in {"del_lock_curr", "step", "unlink"} =>
       curr[t] = next[prev[t]] /\ curr[t] # NULL
  /\ pc[t] = "step" => val[curr[t]] # arg[t]
  /\ pc[t] \in {"hit", "free"} => curr[t] \in live \ List
  /\ pc[t] = "miss" => next[prev[t]] = NULL

\* The target of a delete is ahead of it, and the nodes with its value that it
\* meets before are the targets of other deletes, which it does not overtake.
Ordered(t) ==
  /\ t \in Deleting => Behind(target[t], prev[t]) /\ val[target[t]] = arg[t]
  /\ pc[t] \in {"del_lock_curr", "step"} =>
       \A a \in List :
         /\ val[a] = arg[t]
         /\ Behind(a, prev[t])
         /\ target[t] # NULL => rank[target[t]] < rank[a]
         => \E u \in Deleting :
              target[u] = a /\ prev[u] # HeadNode /\ Behind(prev[u], prev[t])

(***************************************************************************)
(* Calls take effect in the order in which they lock the head: a delete    *)
(* finds the node that the list of that order says, although other calls   *)
(* are at work ahead of it and behind it.                                  *)
(***************************************************************************)
FindsAsExpected ==
  \A t \in Threads :
    /\ pc[t] = "unlink" => curr[t] = target[t]
    /\ pc[t] = "miss" => target[t] = NULL

(***************************************************************************)
(* The inductive invariant: what next leads through is what serial says,   *)
(* but for the calls that are under way; those hold the nodes they stand   *)
(* on and stay in the order in which they came.                            *)
(***************************************************************************)
Coupled ==
  /\ TypeOK /\ ListSound /\ HistorySound /\ Locked /\ FindsAsExpected
  /\ \A t \in Threads : NewOwned(t) /\ InPlace(t) /\ Ordered(t)

\* The nodes that t has taken: its new one, not linked yet, and the one it has
\* unlinked and will free.
Taken(t) ==
  CASE pc[t] \in {"ins_lock", "ins_lock_curr", "link"} -> {new[t]}
    [] pc[t] \in {"hit", "free"} -> {curr[t]}
    [] OTHER -> {}

(***************************************************************************)
(* Every node allocated is in the list or in the hands of one thread, and  *)
(* list_free frees each node of the list once: what is allocated is what   *)
(* its loop has still to visit, and nothing when it ends.                  *)
(***************************************************************************)
NoLeak ==
  /\ main \in {"join", "print"} =>
       live \subseteq List \cup {HeadNode} \cup UNION {Taken(t) : t \in Threads}
  /\ main = "free" =>
       /\ walk \in List \cup {HeadNode, NULL}
       /\ live = IF walk = NULL THEN {} ELSE {walk} \cup {a \in List : Behind(a, walk)}
  /\ main = "end" => live = {}

\* The nodes list_print has passed.
Passed ==
  CASE main = "join" -> {}
    [] main = "print" /\ walk # NULL -> {a \in List : rank[walk] < rank[a]}
    [] OTHER -> List

(***************************************************************************)
(* list_print prints the list that the calls amount to, in its order: the  *)
(* value of a node comes after those of the nodes before it, and no other. *)
(***************************************************************************)
PrintsList ==
  /\ Len(printed) = Cardinality(Passed)
  /\ \A a \in Passed : printed[Cardinality({b \in List : rank[a] <= rank[b]})] = val[a]
  /\ main # "join" => List = serial

\* t waits for the mutex of a node.
Blocked(t) ==
  \/ pc[t] \in {"ins_lock", "del_lock"} /\ mutex[HeadNode] # {}
  \/ pc[t] \in {"ins_lock_curr", "del_lock_curr"} /\ mutex[curr[t]] # {}

\* t has made its calls.
Returned(t) == pc[t] = "idle" /\ calls[t] = MaxCalls

(***************************************************************************)
(* Threads that hold one node and wait for the next never wait in a ring:  *)
(* while any has not returned, one of those is not waiting.  None returns  *)
(* with a mutex, which list_print would wait for.                          *)
(***************************************************************************)
NoDeadlock ==
  /\ (\E t \in Threads : ~Returned(t)) => \E t \in Threads : ~Returned(t) /\ ~Blocked(t)
  /\ main = "print" /\ walk # NULL => mutex[walk] = {}

Inv == Coupled /\ NoUseAfterFree /\ NoLeak /\ PrintsList /\ NoDeadlock

\* The values of serial, the first node's first.
SerialVals ==
  LET nodes == SetToSortSeq(serial, LAMBDA a, b : rank[a] > rank[b])
  IN  [k \in DOMAIN nodes |-> val[nodes[k]]]

(***************************************************************************)
(* No deadlock, no lost insert and no leak: main joins every thread,       *)
(* prints the list the calls amount to, and frees every node.              *)
(***************************************************************************)
Completes == <>(main = "end" /\ printed = SerialVals /\ live = {})

=============================================================================
