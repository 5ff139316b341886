----------------------------- MODULE ListProofs -----------------------------
(***************************************************************************)
(* Proofs about LockCoupling: the inductive invariant Coupled, kept by     *)
(* every call of list_insert and list_delete.  A step of one thread is     *)
(* shown to disturb neither the nodes the others stand on (HoldsApart,     *)
(* LockStays) nor the list that the history variables say (QuietStep).     *)
(***************************************************************************)
EXTENDS LockCoupling, Counting

\* What the steps do not touch, seen from the history.
Quiet ==
  /\ serial' = serial /\ target' = target
  /\ \A a \in List : val'[a] = val[a] /\ rank'[a] = rank[a]
  /\ \A a \in List \cup {HeadNode} : next'[a] = next[a]
  /\ Inserting' = Inserting
  /\ \A u \in Inserting : new'[u] = new[u] /\ rank'[new[u]] = rank[new[u]]
  /\ Deleting' = Deleting
  /\ \A u \in Deleting : prev'[u] = prev[u] /\ arg'[u] = arg[u]
  /\ \A u \in Threads : pc'[u] \in {"del_lock_curr", "step"} =>
       /\ pc[u] \in {"del_lock_curr", "step"}
       /\ prev'[u] = prev[u] /\ arg'[u] = arg[u]
  /\ main' \in {"join", "print"} =>
       main \in {"join", "print"} /\ List \cup {HeadNode} \subseteq live'
  /\ main' = "print" => walk' \in List \cup {NULL}

\* Where the nodes that the history names are.
LEMMA Naming ==
  ASSUME Coupled
  PROVE  /\ List \subseteq Addr
         /\ HeadNode \notin List /\ NULL \notin List /\ HeadNode # NULL
         /\ \A t \in Deleting : target[t] \in List
         /\ \A t \in Inserting : new[t] \in Addr /\ new[t] \notin List
         /\ serial \subseteq List \cup {new[t] : t \in Inserting}
<1> USE LockCouplingAssumption DEF Coupled, TypeOK
<1>1. \A t \in Inserting : new[t] \in Addr /\ new[t] \notin List
  BY DEF Inserting, NewOwned, List, Nodes
<1>2. \A t \in Deleting : target[t] \in Addr
  BY DEF Deleting
<1>3. \A t \in Deleting : target[t] \in List
  <2> TAKE t \in Deleting
  <2>1. ASSUME NEW u \in Inserting PROVE target[t] # new[u]
    BY DEF HistorySound
  <2> QED
    BY <2>1 DEF List
<1>4. List \subseteq Addr
  BY <1>2 DEF List
<1>5. serial \subseteq List \cup {new[t] : t \in Inserting}
  BY DEF List
<1> QED
  BY <1>1, <1>3, <1>4, <1>5 DEF Nodes

\* A step that touches nothing the history speaks of leaves the list as it is.
LEMMA QuietStep ==
  ASSUME Coupled, Quiet
  PROVE  List' = List /\ ListSound' /\ HistorySound'
         /\ \A t \in Threads : Ordered(t)'
<1>1. List' = List
  BY DEF Quiet, List
<1>2. \A a, b \in List \cup {HeadNode} : Behind(a, b) /\ a # HeadNode => Behind(a, b)'
  BY DEF Quiet, Behind
<1>2a. \A a, b \in List \cup {HeadNode} : Behind(a, b)' /\ a # HeadNode => Behind(a, b)
  BY DEF Quiet, Behind
<1>3. ListSound'
  <2>1. \A a \in List \cup {HeadNode} : Linked(a) /\ next'[a] = next[a]
    BY DEF Quiet, Coupled, ListSound
  <2>2. main' \in {"join", "print"} => List' \cup {HeadNode} \subseteq live'
    BY <1>1 DEF Quiet
  <2>2a. main' = "print" => walk' \in List' \cup {NULL}
    BY <1>1 DEF Quiet
  <2>3. \A a \in List' : val'[a] \in Vals
    BY <1>1 DEF Quiet, Coupled, ListSound
  <2>4. \A a, b \in List' : rank'[a] = rank'[b] => a = b
    BY <1>1 DEF Quiet, Coupled, ListSound
  <2>5. ASSUME NEW a \in List \cup {HeadNode}
        PROVE  Linked(a)'
    <3>1. next'[a] = next[a] /\ next[a] \in List \cup {NULL}
      BY <2>1 DEF Linked
    <3>2. ASSUME next[a] # NULL
          PROVE  a = HeadNode \/ rank'[next[a]] < rank'[a]
      <4>1. /\ next[a] \in List /\ next[a] # HeadNode
            /\ a = HeadNode \/ rank[next[a]] < rank[a]
        BY <2>1, <3>1, <3>2, Naming DEF Linked, Behind
      <4> QED
        BY <4>1 DEF Quiet
    <3>3. ASSUME NEW b \in List, Behind(b, a)'
          PROVE  next'[a] # NULL /\ (b = next'[a] \/ rank'[b] < rank'[next'[a]])
      <4>1. Behind(b, a)
        BY <1>2a, <3>3, Naming
      <4>2. next[a] # NULL /\ (b = next[a] \/ rank[b] < rank[next[a]])
        BY <2>1, <4>1 DEF Linked
      <4> QED
        BY <3>1, <4>2 DEF Quiet
    <3> QED
      BY <1>1, <3>1, <3>2, <3>3 DEF Linked, Behind
  <2> QED
    BY <1>1, <2>2, <2>2a, <2>3, <2>4, <2>5 DEF ListSound
<1>4. HistorySound'
  BY <1>1 DEF Quiet, Coupled, HistorySound
<1>5. ASSUME NEW t \in Threads PROVE Ordered(t)'
  <2>1. t \in Deleting' => Behind(target[t], prev[t])' /\ val'[target'[t]] = arg'[t]
    BY Naming DEF Quiet, Coupled, Ordered, Behind, InPlace, Deleting
  <2>2. ASSUME pc'[t] \in {"del_lock_curr", "step"}, NEW a \in List,
               val'[a] = arg'[t], Behind(a, prev[t])',
               target'[t] # NULL => rank'[target'[t]] < rank'[a]
        PROVE  \E u \in Deleting :
                 target[u] = a /\ prev[u] # HeadNode /\ Behind(prev[u], prev[t])'
    <3>1. /\ pc[t] \in {"del_lock_curr", "step"} /\ prev'[t] = prev[t]
          /\ prev[t] \in List \cup {HeadNode}
      BY <2>2 DEF Quiet, Coupled, InPlace
    <3>2. target[t] # NULL => t \in Deleting /\ target[t] \in List
      BY <3>1, Naming DEF Deleting
    <3>3. /\ val[a] = arg[t] /\ Behind(a, prev[t])
          /\ target[t] # NULL => rank[target[t]] < rank[a]
      BY <2>2, <3>1, <3>2, <1>2a, Naming DEF Quiet, Behind
    <3>4. PICK u \in Deleting :
            target[u] = a /\ prev[u] # HeadNode /\ Behind(prev[u], prev[t])
      BY <3>1, <3>3 DEF Coupled, Ordered
    <3>5. prev[u] \in List
      BY <3>4 DEF Coupled, InPlace, Deleting
    <3>6. Behind(prev[u], prev[t])'
      BY <3>1, <3>4, <3>5, Naming DEF Quiet, Behind
    <3> QED
      BY <3>4, <3>6
  <2>3. \A u \in Deleting : target'[u] = target[u] /\ prev'[u] = prev[u]
    BY DEF Quiet
  <2>4. Deleting' = Deleting
    BY DEF Quiet
  <2> QED
    BY <1>1, <2>1, <2>2, <2>3, <2>4 DEF Ordered
<1> QED
  BY <1>1, <1>3, <1>4, <1>5

\* The invariant makes every access safe.
LEMMA SafeNow ==
  Coupled => NoUseAfterFree
<1> SUFFICES ASSUME Coupled PROVE NoUseAfterFree
  OBVIOUS
<1> USE LockCouplingAssumption DEF Coupled, TypeOK, Nodes
<1>1. ASSUME NEW t \in Threads
      PROVE  Touched(t) \subseteq live
  <2>1. pc[t] # "idle" => List \cup {HeadNode} \subseteq live
    BY DEF InPlace, ListSound
  <2>2. Linked(HeadNode)
    BY DEF ListSound
  <2>3. CASE pc[t] = "link"
    BY <2>1, <2>2, <2>3 DEF Touched, InPlace, NewOwned, Linked
  <2>4. CASE pc[t] = "ins_unlock_curr"
    BY <2>1, <2>2, <2>4 DEF Touched, InPlace, Linked
  <2>5. CASE pc[t] \in {"ins_lock_curr", "ins_unlock", "free"}
    BY <2>1, <2>2, <2>5 DEF Touched, InPlace, Linked
  <2>6. CASE pc[t] \in {"del_lock_curr", "step", "unlink"}
    <3>1. Linked(prev[t])
      BY <2>6 DEF InPlace, ListSound
    <3> QED
      BY <2>1, <2>6, <3>1 DEF Touched, InPlace, Linked
  <2>7. CASE pc[t] \in {"hit", "miss"}
    BY <2>1, <2>7 DEF Touched, InPlace
  <2>8. CASE pc[t] \in {"idle", "malloc", "ins_lock", "del_lock"}
    BY <2>8 DEF Touched
  <2> QED
    BY <2>3, <2>4, <2>5, <2>6, <2>7, <2>8 DEF Labels
<1>2. ASSUME NEW t \in Threads, NEW u \in Threads \ {t}, pc[t] = "free"
      PROVE  curr[t] \notin Touched(u)
  <2>1. curr[t] \in live \ List /\ curr[t] \in Addr
    BY <1>2 DEF InPlace
  <2>3. Linked(HeadNode)
    BY DEF ListSound
  <2>4. curr[t] \notin Holds(u)
    BY <1>2 DEF Locked, Holds
  <2>5. CASE pc[u] \in {"ins_lock_curr", "link", "ins_unlock_curr", "ins_unlock"}
    <3>1. pc[u] = "link" => new[u] # curr[t]
      BY <2>1, <1>2 DEF NewOwned, Locked, Holds
    <3> QED
      BY <2>1, <2>3, <2>5, <3>1 DEF Touched, InPlace, Linked
  <2>6. CASE pc[u] \in {"del_lock_curr", "step", "unlink"}
    <3>1. Linked(prev[u])
      BY <2>6 DEF InPlace, ListSound
    <3> QED
      BY <2>1, <2>6, <3>1 DEF Touched, InPlace, Linked
  <2>7. CASE pc[u] \in {"hit", "miss", "free"}
    BY <2>1, <2>4, <2>7 DEF Touched, InPlace, Holds
  <2>8. CASE pc[u] \in {"idle", "malloc", "ins_lock", "del_lock"}
    BY <2>8 DEF Touched
  <2> QED
    BY <2>5, <2>6, <2>7, <2>8 DEF Labels
<1> QED
  BY <1>1, <1>2 DEF NoUseAfterFree

\* A step of t leaves alone what belongs to the other threads, and main.
Apart(t) ==
  /\ main' = main
  /\ \A u \in Threads \ {t} :
       /\ pc'[u] = pc[u] /\ calls'[u] = calls[u] /\ arg'[u] = arg[u]
       /\ prev'[u] = prev[u] /\ curr'[u] = curr[u] /\ new'[u] = new[u]
       /\ target'[u] = target[u]

\* A thread changes nothing of another one.
LEMMA ThreadApart ==
  ASSUME TypeOK, NEW t \in Threads, Thread(t)
  PROVE  Apart(t)
<1> USE DEF TypeOK, Apart, Move, frame, history, node, atMain
<1>1. CASE Call(t)
  BY <1>1 DEF Call
<1>2. CASE Malloc(t) \/ MallocFails(t)
  BY <1>2 DEF Malloc, MallocFails
<1>3. CASE InsLock(t)
  BY <1>3 DEF InsLock
<1>4. CASE InsLockCurr(t) \/ Link(t) \/ InsUnlockCurr(t) \/ InsUnlock(t)
  BY <1>4 DEF InsLockCurr, Link, InsUnlockCurr, InsUnlock
<1>5. CASE DelLock(t) \/ Step(t)
  BY <1>5 DEF DelLock, Step, Onward
<1>6. CASE DelLockCurr(t) \/ Miss(t) \/ Unlink(t) \/ UnlockPrev(t) \/ Free(t)
  BY <1>6 DEF DelLockCurr, Miss, Unlink, UnlockPrev, Free
<1> QED
  BY <1>1, <1>2, <1>3, <1>4, <1>5, <1>6 DEF Thread

\* What the others hold stays,
LEMMA HoldsApart ==
  ASSUME NEW t \in Threads, Apart(t)
  PROVE  \A u \in Threads \ {t} : Holds(u)' = Holds(u)
BY DEF Apart, Holds

\* when one locks a mutex that is free,
LEMMA LockGrows ==
  ASSUME Coupled, NEW t \in Threads, Apart(t), NEW a \in live, Lock(t, a),
         live' = live, Holds(t)' = Holds(t) \cup {a}
  PROVE  Locked'
<1>1. \A u \in Threads : a \notin Holds(u)
  BY DEF Lock, Coupled, Locked
<1>2. mutex \in [Nodes -> SUBSET Threads] /\ live \subseteq Nodes
  BY DEF Coupled, TypeOK
<1> QED
  BY <1>1, <1>2, HoldsApart DEF Coupled, Locked, Lock

\* when it unlocks a node it holds,
LEMMA LockShrinks ==
  ASSUME Coupled, NEW t \in Threads, Apart(t), NEW a \in live, Unlock(t, a),
         live' = live, Holds(t)' = Holds(t) \ {a}
  PROVE  Locked'
<1>1. mutex \in [Nodes -> SUBSET Threads] /\ live \subseteq Nodes
  BY DEF Coupled, TypeOK
<1> QED
  BY <1>1, HoldsApart DEF Coupled, Locked, Unlock

\* and when it does neither.
LEMMA LockStays ==
  ASSUME Coupled, mutex' = mutex, live' \subseteq live,
         \A u \in Threads : /\ Holds(u)' \subseteq Holds(u)
                            /\ Holds(u) \cap live' \subseteq Holds(u)'
  PROVE  Locked'
BY DEF Coupled, Locked

\* A thread that has a new node keeps it to itself.
LEMMA NewStays ==
  ASSUME Coupled,
         \A u \in Threads :
           pc'[u] \in {"ins_lock", "ins_lock_curr", "link"} =>
             /\ pc[u] \in {"ins_lock", "ins_lock_curr", "link"}
             /\ new'[u] = new[u] /\ new[u] \in live' \ List'
             /\ val'[new[u]] = val[new[u]] /\ mutex'[new[u]] = {}
  PROVE  \A u \in Threads : NewOwned(u)'
BY DEF Coupled, NewOwned

\* Where another thread is in the list.
LEMMA PlaceStays ==
  ASSUME Coupled, Quiet, List' = List, NEW u \in Threads,
         pc'[u] = pc[u], calls'[u] = calls[u], arg'[u] = arg[u], prev'[u] = prev[u],
         curr'[u] = curr[u], new'[u] = new[u], main' = main,
         pc[u] \in {"hit", "free"} => curr[u] \in live'
  PROVE  InPlace(u)'
<1> USE DEF Coupled, InPlace, Quiet
<1>1. pc[u] \in {"del_lock_curr", "step", "unlink"} => curr[u] \in List
  BY DEF ListSound, Linked
<1> QED
  BY <1>1

\* What a thread that is at work relies on.
LEMMA AtWork ==
  ASSUME Coupled, NEW t \in Threads, pc[t] # "idle"
  PROVE  /\ main = "join"
         /\ List \cup {HeadNode} \subseteq live
         /\ arg[t] \in Vals
BY DEF Coupled, InPlace, ListSound

\* A call begins.
LEMMA CallStep ==
  ASSUME Coupled, NEW t \in Threads, Call(t)
  PROVE  Coupled' /\ List' = List
<1> USE LockCouplingAssumption DEF Call, Move, history, node, atMain
<1>0. Apart(t)
  BY ThreadApart DEF Thread, Coupled
<1>1. TypeOK'
  BY DEF Coupled, TypeOK, Labels
<1>2. calls[t] < MaxCalls /\ pc \in [Threads -> Labels]
      /\ calls \in [Threads -> 0 .. MaxCalls]
  BY DEF Coupled, TypeOK
<1>3. main = "join"
  BY <1>2 DEF Coupled, InPlace
<1>4. pc'[t] \in {"malloc", "del_lock"}
  BY <1>2
<1>5. Inserting' = Inserting /\ Deleting' = Deleting
  BY <1>0, <1>4 DEF Inserting, Deleting, Apart
<1>6. Quiet
  BY <1>0, <1>3, <1>4, <1>5 DEF Quiet, Apart, Inserting, Deleting, Coupled, ListSound
<1>7. List' = List /\ ListSound' /\ HistorySound' /\ \A u \in Threads : Ordered(u)'
  BY <1>6, QuietStep
<1>8. Locked'
  <2>1. Holds(t)' = Holds(t)
    BY <1>4 DEF Holds
  <2> QED
    BY <1>0, <2>1, HoldsApart, LockStays
<1>9. \A u \in Threads : NewOwned(u)'
  <2>1. \A u \in Threads :
          pc'[u] \in {"ins_lock", "ins_lock_curr", "link"} => pc'[u] = pc[u]
    BY <1>0, <1>4 DEF Apart
  <2> QED
    BY <1>7, <2>1, NewStays DEF Coupled, NewOwned
<1>10. ASSUME NEW u \in Threads PROVE InPlace(u)'
  <2>1. CASE u = t
    BY <1>1, <1>3, <1>4, <2>1 DEF InPlace, TypeOK, Coupled
  <2>2. CASE u # t
    BY <1>0, <1>6, <1>7, <2>2, PlaceStays DEF Apart, Coupled, InPlace
  <2> QED
    BY <2>1, <2>2
<1>11. FindsAsExpected'
  BY <1>0, <1>4 DEF Apart, Coupled, FindsAsExpected
<1> QED
  BY <1>1, <1>7, <1>8, <1>9, <1>10, <1>11 DEF Coupled

\* An insert without memory returns.
LEMMA MallocFailsStep ==
  ASSUME Coupled, NEW t \in Threads, MallocFails(t)
  PROVE  Coupled' /\ List' = List
<1> USE LockCouplingAssumption DEF MallocFails, Move, history, node, atMain, frame
<1>0. Apart(t)
  BY ThreadApart DEF Thread, Coupled
<1>1. TypeOK'
  BY DEF Coupled, TypeOK, Labels
<1>2. pc[t] = "malloc" /\ pc'[t] = "idle"
  BY DEF Coupled, TypeOK
<1>3. main = "join"
  BY <1>2, AtWork
<1>5. Inserting' = Inserting /\ Deleting' = Deleting
  BY <1>0, <1>2 DEF Inserting, Deleting, Apart
<1>6. Quiet
  BY <1>0, <1>2, <1>3, <1>5 DEF Quiet, Apart, Inserting, Deleting, Coupled, ListSound
<1>7. List' = List /\ ListSound' /\ HistorySound' /\ \A u \in Threads : Ordered(u)'
  BY <1>6, QuietStep
<1>8. Locked'
  <2>1. Holds(t)' = Holds(t)
    BY <1>2 DEF Holds
  <2> QED
    BY <1>0, <2>1, HoldsApart, LockStays
<1>9. \A u \in Threads : NewOwned(u)'
  <2>1. \A u \in Threads :
          pc'[u] \in {"ins_lock", "ins_lock_curr", "link"} => pc'[u] = pc[u]
    BY <1>0, <1>2 DEF Apart
  <2> QED
    BY <1>7, <2>1, NewStays DEF Coupled, NewOwned
<1>10. ASSUME NEW u \in Threads PROVE InPlace(u)'
  <2>1. CASE u = t
    BY <1>1, <1>2, <1>3, <2>1 DEF InPlace
  <2>2. CASE u # t
    BY <1>0, <1>6, <1>7, <2>2, PlaceStays DEF Apart, Coupled, InPlace
  <2> QED
    BY <2>1, <2>2
<1>11. FindsAsExpected'
  BY <1>0, <1>2 DEF Apart, Coupled, FindsAsExpected
<1> QED
  BY <1>1, <1>7, <1>8, <1>9, <1>10, <1>11 DEF Coupled

\* A node that was not live, so that no thread stands on it.
LEMMA MallocStep ==
  ASSUME Coupled, NEW t \in Threads, Malloc(t)
  PROVE  Coupled' /\ List' = List
<1> USE LockCouplingAssumption DEF Move, history, atMain, frame
<1>0. Apart(t)
  BY ThreadApart DEF Thread, Coupled
<1>a. PICK a \in Addr \ live :
        /\ live' = live \cup {a}
        /\ val' = [val EXCEPT ![a] = arg[t]]
        /\ next' = [next EXCEPT ![a] = NULL]
        /\ mutex' = [mutex EXCEPT ![a] = {}]
        /\ new' = [new EXCEPT ![t] = a]
  BY DEF Malloc
<1>b. pc' = [pc EXCEPT ![t] = "ins_lock"] /\ pc[t] = "malloc"
      /\ UNCHANGED <<calls, arg, prev, curr, main, walk, printed, serial, rank, target>>
  BY DEF Malloc
<1>1. TypeOK'
  BY <1>a, <1>b DEF Coupled, TypeOK, Labels, Nodes
<1>2. pc'[t] = "ins_lock"
  BY <1>b DEF Coupled, TypeOK
<1>3. main = "join" /\ List \cup {HeadNode} \subseteq live /\ arg[t] \in Vals
  BY <1>b, AtWork
<1>4. \A b \in live : /\ mutex'[b] = mutex[b] /\ next'[b] = next[b]
                      /\ b # HeadNode => val'[b] = val[b]
  BY <1>a DEF Coupled, TypeOK, Nodes
<1>5. Inserting' = Inserting /\ Deleting' = Deleting
  BY <1>0, <1>b, <1>2 DEF Inserting, Deleting, Apart
<1>6. Quiet
  BY <1>0, <1>b, <1>2, <1>3, <1>4, <1>5, <1>a, Naming
  DEF Quiet, Apart, Inserting, Deleting
<1>7. List' = List /\ ListSound' /\ HistorySound' /\ \A u \in Threads : Ordered(u)'
  BY <1>6, QuietStep
<1>8. Locked'
  <2>1. Holds(t)' = Holds(t)
    BY <1>b, <1>2 DEF Holds
  <2>2. \A u \in Threads : Holds(u)' = Holds(u)
    BY <1>0, <2>1, HoldsApart
  <2>3. ASSUME NEW u \in Threads PROVE a \notin Holds(u)
    <3>1. Holds(u) \subseteq List \cup {HeadNode} \cup live
      BY <1>3 DEF Holds, Coupled, InPlace, ListSound, Linked
    <3> QED
      BY <1>3, <3>1
  <2>4. mutex'[a] = {}
    BY <1>a DEF Coupled, TypeOK, Nodes
  <2> QED
    BY <1>4, <1>a, <2>2, <2>3, <2>4 DEF Coupled, Locked
<1>9. ASSUME NEW u \in Threads PROVE NewOwned(u)'
  <2>1. new'[t] = a /\ val'[a] = arg[t] /\ mutex'[a] = {}
    BY <1>a DEF Coupled, TypeOK, Nodes
  <2>2. \A w \in Threads \ {t} :
          pc[w] \in {"ins_lock", "ins_lock_curr", "link"} => new[w] # a
    BY DEF Coupled, NewOwned
  <2>3. CASE u = t
    BY <1>0, <1>3, <1>7, <1>a, <2>1, <2>2, <2>3 DEF NewOwned, Apart
  <2>4. CASE u # t
    <3> SUFFICES ASSUME pc[u] \in {"ins_lock", "ins_lock_curr", "link"}
                 PROVE  NewOwned(u)'
      BY <1>0, <2>4 DEF NewOwned, Apart
    <3>1. /\ new[u] \in live \ List /\ val[new[u]] \in Vals /\ mutex[new[u]] = {}
          /\ \A w \in Threads \ {u} :
               pc[w] \in {"ins_lock", "ins_lock_curr", "link"} => new[w] # new[u]
      BY DEF Coupled, NewOwned
    <3>2. new[u] # HeadNode
      BY <3>1, <1>1 DEF Coupled, TypeOK
    <3>3. new'[u] = new[u]
      BY <1>0, <2>4 DEF Apart
    <3> QED
      BY <1>0, <1>4, <1>7, <1>a, <2>1, <2>2, <2>4, <3>1, <3>2, <3>3 DEF NewOwned, Apart
  <2> QED
    BY <2>3, <2>4
<1>10. ASSUME NEW u \in Threads PROVE InPlace(u)'
  <2>1. CASE u = t
    BY <1>b, <1>2, <1>3, <2>1 DEF InPlace
  <2>2. CASE u # t
    BY <1>0, <1>6, <1>7, <1>a, <2>2, PlaceStays DEF Apart, Coupled, InPlace
  <2> QED
    BY <2>1, <2>2
<1>11. FindsAsExpected'
  BY <1>0, <1>2 DEF Apart, Coupled, FindsAsExpected
<1> QED
  BY <1>1, <1>7, <1>8, <1>9, <1>10, <1>11 DEF Coupled

\* The steps that lock or unlock a mutex and do nothing else to the list.
Locking(t) ==
  \/ InsLockCurr(t) \/ InsUnlockCurr(t) \/ InsUnlock(t)
  \/ DelLockCurr(t) \/ UnlockPrev(t) \/ Miss(t)

\* A delete that comes to a node with its value has come to its target: were
\* that further on, the node would be the target of a delete that is behind.
LEMMA MeetsTarget ==
  ASSUME Coupled, NEW t \in Threads, pc[t] = "del_lock_curr", val[curr[t]] = arg[t],
         mutex[curr[t]] = {}
  PROVE  curr[t] = target[t]
<1> SUFFICES ASSUME curr[t] # target[t] PROVE FALSE
  OBVIOUS
<1>1. /\ prev[t] \in List \cup {HeadNode} /\ curr[t] = next[prev[t]] /\ curr[t] # NULL
  BY DEF Coupled, InPlace
<1>2. Linked(prev[t])
  BY <1>1 DEF Coupled, ListSound
<1>3. curr[t] \in List /\ Behind(curr[t], prev[t])
  BY <1>1, <1>2 DEF Linked
<1>4. ASSUME target[t] # NULL
      PROVE  rank[target[t]] < rank[curr[t]]
  <2>1. t \in Deleting
    BY <1>4 DEF Deleting
  <2>2. target[t] \in List /\ Behind(target[t], prev[t])
    BY <2>1, Naming DEF Coupled, Ordered
  <2> QED
    BY <1>1, <1>2, <2>2 DEF Linked
<1>5. PICK u \in Deleting :
        target[u] = curr[t] /\ prev[u] # HeadNode /\ Behind(prev[u], prev[t])
  BY <1>3, <1>4 DEF Coupled, Ordered
<1>6. prev[u] \in List /\ Behind(curr[t], prev[u])
  BY <1>5 DEF Coupled, Ordered, InPlace, Deleting
<1>7. rank[curr[t]] < rank[prev[u]]
  BY <1>5, <1>6 DEF Behind
<1>8. prev[u] = curr[t] \/ rank[prev[u]] < rank[curr[t]]
  BY <1>1, <1>2, <1>5, <1>6 DEF Linked
<1>9. rank[curr[t]] \in Nat /\ rank[prev[u]] \in Nat
  BY <1>3, <1>6, Naming DEF Coupled, TypeOK
<1> QED
  BY <1>7, <1>8, <1>9

\* The steps that only lock or unlock a node: they leave every field as it is.
LEMMA LockingStep ==
  ASSUME Coupled, NEW t \in Threads, Locking(t)
  PROVE  Coupled' /\ List' = List
<1> USE LockCouplingAssumption
<1>0. Apart(t)
  BY ThreadApart DEF Thread, Coupled, Locking
<1>a. /\ UNCHANGED <<live, val, next, frame, new, atMain, history>>
      /\ prev' = prev /\ curr' = curr
  BY DEF Locking, InsLockCurr, InsUnlockCurr, InsUnlock, DelLockCurr, UnlockPrev, Miss
<1>b. \/ Lock(t, curr[t]) /\ pc[t] \in {"ins_lock_curr", "del_lock_curr"}
      \/ Unlock(t, curr[t]) /\ pc[t] = "ins_unlock_curr"
      \/ Unlock(t, prev[t]) /\ pc[t] \in {"ins_unlock", "hit", "miss"}
  BY DEF Locking, InsLockCurr, InsUnlockCurr, InsUnlock, DelLockCurr, UnlockPrev,
         Miss, Move
<1>c. /\ pc[t] = "ins_lock_curr" => pc' = [pc EXCEPT ![t] = "link"]
      /\ pc[t] = "del_lock_curr" =>
           pc' = [pc EXCEPT ![t] = IF val[curr[t]] = arg[t] THEN "unlink" ELSE "step"]
      /\ pc[t] = "ins_unlock_curr" => pc' = [pc EXCEPT ![t] = "ins_unlock"]
      /\ pc[t] = "hit" => pc' = [pc EXCEPT ![t] = "free"]
      /\ pc[t] \in {"ins_unlock", "miss"} => pc' = [pc EXCEPT ![t] = "idle"]
  BY DEF Locking, InsLockCurr, InsUnlockCurr, InsUnlock, DelLockCurr, UnlockPrev,
         Miss, Move
<1>d. /\ pc[t] = "ins_lock_curr" => pc'[t] = "link"
      /\ pc[t] = "del_lock_curr" =>
           pc'[t] = IF val[curr[t]] = arg[t] THEN "unlink" ELSE "step"
      /\ pc[t] = "ins_unlock_curr" => pc'[t] = "ins_unlock"
      /\ pc[t] = "hit" => pc'[t] = "free"
      /\ pc[t] \in {"ins_unlock", "miss"} => pc'[t] = "idle"
  BY <1>c DEF Coupled, TypeOK
<1>1. TypeOK'
  <2>1. pc' \in [Threads -> Labels]
    BY <1>b, <1>c DEF Coupled, TypeOK, Labels
  <2>2. mutex' \in [Nodes -> SUBSET Threads]
    <3> DEFINE Typed == mutex' \in [Nodes -> SUBSET Threads]
    <3>1. mutex \in [Nodes -> SUBSET Threads]
      BY DEF Coupled, TypeOK
    <3>2. ASSUME NEW a, Lock(t, a) PROVE Typed
      BY <3>1, <3>2 DEF Lock
    <3>3. ASSUME NEW a, Unlock(t, a) PROVE Typed
      BY <3>1, <3>3 DEF Unlock
    <3> QED
      BY <1>b, <3>2, <3>3
  <2> QED
    BY <1>a, <2>1, <2>2 DEF Coupled, TypeOK, frame, atMain, history
<1>2. main = "join" /\ List \cup {HeadNode} \subseteq live /\ arg[t] \in Vals
  BY <1>b, AtWork
<1>5. Inserting' = Inserting /\ Deleting' = Deleting
  BY <1>0, <1>a, <1>b, <1>d DEF Inserting, Deleting, Apart, history
<1>6. Quiet
  BY <1>0, <1>a, <1>b, <1>d, <1>2, <1>5 DEF Quiet, Apart, frame, atMain, history
<1>7. List' = List /\ ListSound' /\ HistorySound' /\ \A u \in Threads : Ordered(u)'
  BY <1>6, QuietStep
<1>8. Linked(HeadNode) /\ (prev[t] \in List => Linked(prev[t]))
  BY DEF Coupled, ListSound
<1>9. /\ pc[t] \in {"ins_lock_curr", "del_lock_curr"} => curr[t] \in List
      /\ pc[t] \in {"ins_unlock", "hit", "miss"} => prev[t] \in List \cup {HeadNode}
      /\ pc[t] = "ins_unlock_curr" => curr[t] \in List /\ prev[t] = HeadNode
      /\ pc[t] = "hit" => curr[t] # prev[t]
  BY <1>8 DEF Coupled, InPlace, Linked, TypeOK
<1>10. Locked'
  <2>1. CASE pc[t] \in {"ins_lock_curr", "del_lock_curr"}
    <3>1. curr[t] \in live /\ Lock(t, curr[t])
      BY <1>b, <1>2, <1>9, <2>1
    <3>2. Holds(t)' = Holds(t) \cup {curr[t]}
      BY <1>a, <1>d, <1>9, <2>1, Naming DEF Holds, Coupled, InPlace
    <3> QED
      BY <1>0, <1>a, <3>1, <3>2, LockGrows
  <2>2. CASE pc[t] = "ins_unlock_curr"
    <3>1. curr[t] \in live /\ Unlock(t, curr[t])
      BY <1>b, <1>2, <1>9, <2>2
    <3>2. Holds(t)' = Holds(t) \ {curr[t]}
      BY <1>a, <1>d, <1>9, <2>2, Naming DEF Holds
    <3> QED
      BY <1>0, <1>a, <3>1, <3>2, LockShrinks
  <2>3. CASE pc[t] \in {"ins_unlock", "hit", "miss"}
    <3>1. prev[t] \in live /\ Unlock(t, prev[t])
      BY <1>b, <1>2, <1>9, <2>3
    <3>2. curr[t] # NULL \/ pc[t] # "hit"
      BY Naming DEF Coupled, InPlace, TypeOK, Nodes
    <3>3. Holds(t)' = Holds(t) \ {prev[t]}
      BY <1>a, <1>d, <1>9, <2>3, <3>2, Naming DEF Holds
    <3> QED
      BY <1>0, <1>a, <3>1, <3>3, LockShrinks
  <2> QED
    BY <1>b, <2>1, <2>2, <2>3
<1>11. \A u \in Threads : NewOwned(u)'
  <2> SUFFICES ASSUME NEW u \in Threads,
                      pc'[u] \in {"ins_lock", "ins_lock_curr", "link"}
               PROVE  /\ pc[u] \in {"ins_lock", "ins_lock_curr", "link"}
                      /\ new'[u] = new[u] /\ new[u] \in live' \ List'
                      /\ val'[new[u]] = val[new[u]] /\ mutex'[new[u]] = {}
    BY NewStays
  <2>1. pc[u] \in {"ins_lock", "ins_lock_curr", "link"}
    BY <1>0, <1>b, <1>d DEF Apart
  <2>2. new[u] \in live \ List /\ mutex[new[u]] = {} /\ new[u] \in Nodes
        /\ new[u] # HeadNode
    BY <2>1 DEF Coupled, NewOwned, TypeOK, Nodes
  <2>3. mutex'[new[u]] = {}
    BY <1>b, <1>9, <2>2 DEF Lock, Unlock, Coupled, TypeOK
  <2> QED
    BY <1>a, <1>7, <2>1, <2>2, <2>3
<1>12. ASSUME NEW u \in Threads PROVE InPlace(u)'
  <2>1. CASE u = t
    BY <1>a, <1>b, <1>d, <1>2, <1>7, <2>1
    DEF InPlace, Coupled, frame, atMain
  <2>2. CASE u # t
    BY <1>0, <1>6, <1>7, <1>a, <2>2, PlaceStays DEF Apart, Coupled, InPlace
  <2> QED
    BY <2>1, <2>2
<1>13. FindsAsExpected'
  <2>1. pc'[t] = "unlink" => curr[t] = target[t]
    BY <1>b, <1>d, MeetsTarget DEF Lock
  <2>2. pc'[t] # "miss"
    BY <1>b, <1>d
  <2> QED
    BY <1>0, <1>a, <2>1, <2>2 DEF Apart, Coupled, FindsAsExpected, history
<1> QED
  BY <1>1, <1>7, <1>10, <1>11, <1>12, <1>13 DEF Coupled

\* curr has left the list, and nobody but t holds it.
LEMMA FreeStep ==
  ASSUME Coupled, NEW t \in Threads, Free(t)
  PROVE  Coupled' /\ List' = List
<1> USE LockCouplingAssumption
<1>0. Apart(t)
  BY ThreadApart DEF Thread, Coupled
<1>a. /\ UNCHANGED <<val, next, mutex, frame, prev, curr, new, atMain, serial, target>>
      /\ live' = live \ {curr[t]} /\ rank' = [rank EXCEPT ![curr[t]] = 0]
      /\ pc[t] = "free" /\ pc' = [pc EXCEPT ![t] = "idle"]
  BY DEF Free, Move
<1>b. pc'[t] = "idle"
  BY <1>a DEF Coupled, TypeOK
<1>1. TypeOK'
  BY <1>a DEF Coupled, TypeOK, Labels, frame, atMain
<1>2. main = "join" /\ List \cup {HeadNode} \subseteq live
  BY <1>a, AtWork
<1>3. curr[t] \notin List /\ curr[t] # HeadNode /\ curr[t] \in live
  BY <1>a DEF Coupled, InPlace, TypeOK
<1>4. Holds(t) = {curr[t]} /\ t \in mutex[curr[t]]
  BY <1>a, <1>3 DEF Holds, Coupled, Locked
<1>5. Inserting' = Inserting /\ Deleting' = Deleting
  BY <1>0, <1>a, <1>b DEF Inserting, Deleting, Apart
<1>6. \A u \in Threads :
        pc[u] \in {"ins_lock", "ins_lock_curr", "link"} => new[u] # curr[t]
  BY <1>4 DEF Coupled, NewOwned
<1>7. Quiet
  <2>1. \A a \in Addr \ {curr[t]} : rank'[a] = rank[a]
    BY <1>a DEF Coupled, TypeOK
  <2> QED
    BY <1>0, <1>a, <1>b, <1>2, <1>3, <1>5, <1>6, <2>1, Naming
    DEF Quiet, Apart, frame, atMain, Inserting
<1>8. List' = List /\ ListSound' /\ HistorySound' /\ \A u \in Threads : Ordered(u)'
  BY <1>7, QuietStep
<1>9. Locked'
  <2>1. Holds(t)' = {}
    BY <1>b DEF Holds
  <2> QED
    BY <1>0, <1>a, <1>4, <2>1, HoldsApart, LockStays
<1>10. \A u \in Threads : NewOwned(u)'
  <2> SUFFICES ASSUME NEW u \in Threads,
                      pc'[u] \in {"ins_lock", "ins_lock_curr", "link"}
               PROVE  /\ pc[u] \in {"ins_lock", "ins_lock_curr", "link"}
                      /\ new'[u] = new[u] /\ new[u] \in live' \ List'
                      /\ val'[new[u]] = val[new[u]] /\ mutex'[new[u]] = {}
    BY NewStays
  <2>1. pc[u] \in {"ins_lock", "ins_lock_curr", "link"}
    BY <1>0, <1>b DEF Apart
  <2> QED
    BY <1>a, <1>6, <1>8, <2>1 DEF Coupled, NewOwned
<1>11. ASSUME NEW u \in Threads PROVE InPlace(u)'
  <2>1. CASE u = t
    BY <1>0, <1>b, <1>2, <2>1 DEF InPlace, Apart
  <2>2. CASE u # t
    <3>1. pc[u] \in {"hit", "free"} => curr[u] \in live'
      <4> SUFFICES ASSUME pc[u] \in {"hit", "free"} PROVE curr[u] \in live'
        OBVIOUS
      <4>1. curr[u] \in live /\ curr[u] \in Addr
        BY DEF Coupled, InPlace, TypeOK, Nodes
      <4>2. curr[u] \in Holds(u)
        BY <4>1 DEF Holds
      <4>3. curr[u] # curr[t]
        BY <1>4, <2>2, <4>2 DEF Coupled, Locked
      <4> QED
        BY <1>a, <4>1, <4>3
    <3> QED
      BY <1>0, <1>7, <1>8, <2>2, <3>1, PlaceStays DEF Apart
  <2> QED
    BY <2>1, <2>2
<1>12. FindsAsExpected'
  BY <1>0, <1>a, <1>b DEF Apart, Coupled, FindsAsExpected
<1> QED
  BY <1>1, <1>8, <1>9, <1>10, <1>11, <1>12 DEF Coupled

\* The head is free: no insert is under way, every delete is past the head.
LEMMA HeadFree ==
  ASSUME Coupled, mutex[HeadNode] = {}, HeadNode \in live
  PROVE  /\ \A u \in Threads :
              pc[u] \notin {"ins_lock_curr", "link", "ins_unlock_curr", "ins_unlock"}
         /\ Inserting = {}
         /\ \A u \in Deleting : prev[u] \in List
         /\ \A u \in Threads :
              pc[u] \in {"del_lock_curr", "step", "unlink", "hit", "miss"}
                => prev[u] # HeadNode
<1>1. \A u \in Threads : HeadNode \notin Holds(u)
  BY DEF Coupled, Locked
<1>2. HeadNode # NULL
  BY Naming
<1>3. \A u \in Threads :
        pc[u] \notin {"ins_lock_curr", "link", "ins_unlock_curr", "ins_unlock"}
  BY <1>1, <1>2 DEF Holds, Coupled, InPlace
<1>4. \A u \in Threads :
        pc[u] \in {"del_lock_curr", "step", "unlink", "hit", "miss"} => prev[u] # HeadNode
  BY <1>1, <1>2 DEF Holds
<1> QED
  BY <1>3, <1>4 DEF Inserting, Deleting, Coupled, InPlace

\* What a thread that locks the head finds.
LEMMA AtHead ==
  ASSUME Coupled, NEW t \in Threads, Lock(t, HeadNode), pc[t] # "idle"
  PROVE  /\ Inserting = {} /\ HeadNode \in live
         /\ serial \subseteq List
         /\ \A u \in Deleting : prev[u] \in List
         /\ \A a \in List : next[HeadNode] # NULL /\ rank[a] <= rank[next[HeadNode]]
         /\ next[HeadNode] \in List \cup {NULL}
<1>1. HeadNode \in live /\ Inserting = {}
  BY AtWork, HeadFree DEF Lock
<1>2. Linked(HeadNode)
  BY DEF Coupled, ListSound
<1>3. \A a \in List : rank[a] \in Nat
  BY Naming DEF Coupled, TypeOK
<1>4. \A a \in List : next[HeadNode] # NULL /\ rank[a] <= rank[next[HeadNode]]
  BY <1>2, <1>3 DEF Linked, Behind
<1> QED
  BY <1>1, <1>2, <1>4, HeadFree, Naming DEF Lock, Linked

\* An insert at the head: its node becomes the first of serial.
LEMMA InsLockStep ==
  ASSUME Coupled, NEW t \in Threads, InsLock(t)
  PROVE  Coupled' /\ List' = List
<1> USE LockCouplingAssumption
<1> DEFINE first == next[HeadNode]
           n == new[t]
<1>0. Apart(t)
  BY ThreadApart DEF Thread, Coupled
<1>a. /\ UNCHANGED <<live, val, next, frame, new, atMain, target>>
      /\ prev' = [prev EXCEPT ![t] = HeadNode] /\ curr' = [curr EXCEPT ![t] = first]
      /\ serial' = serial \cup {n}
      /\ rank' = [rank EXCEPT ![n] = 1 + IF first = NULL THEN 0 ELSE rank[first]]
      /\ pc[t] = "ins_lock" /\ Lock(t, HeadNode)
      /\ pc' = [pc EXCEPT ![t] = IF first = NULL THEN "link" ELSE "ins_lock_curr"]
  BY DEF InsLock, Move, PutFirst
<1>b. /\ pc'[t] = IF first = NULL THEN "link" ELSE "ins_lock_curr"
      /\ prev'[t] = HeadNode /\ curr'[t] = first /\ new'[t] = n
  BY <1>a DEF Coupled, TypeOK
<1>1. n \in live \ List /\ n \in Addr /\ HeadNode \in live /\ main = "join"
      /\ arg[t] \in Vals /\ List \cup {HeadNode} \subseteq live
  BY <1>a, AtWork DEF Coupled, NewOwned, TypeOK, Nodes
<1>2. /\ Inserting = {} /\ serial \subseteq List
      /\ \A u \in Deleting : prev[u] \in List
      /\ \A a \in List : first # NULL /\ rank[a] <= rank[first]
      /\ first \in List \cup {NULL}
  BY <1>a, AtHead
<1>3. TypeOK'
  BY <1>a, <1>1 DEF Coupled, TypeOK, Labels, frame, atMain, Nodes, Lock
<1>4. Inserting' = {t} /\ Deleting' = Deleting
  BY <1>0, <1>a, <1>b, <1>2 DEF Inserting, Deleting, Apart
<1>5. List' = List
  BY <1>0, <1>a, <1>b, <1>1, <1>2, <1>4, Naming DEF List, Apart
<1>6. /\ \A a \in Addr \ {n} : rank'[a] = rank[a]
      /\ \A a \in List : rank'[a] = rank[a] /\ rank[a] < rank'[n]
  <2>1. \A a \in Addr : rank[a] \in Nat
    BY DEF Coupled, TypeOK
  <2>2. rank'[n] = 1 + IF first = NULL THEN 0 ELSE rank[first]
    BY <1>a, <1>1 DEF Coupled, TypeOK
  <2>3. \A a \in Addr \ {n} : rank'[a] = rank[a]
    BY <1>a DEF Coupled, TypeOK
  <2> QED
    BY <1>1, <1>2, <2>1, <2>2, <2>3, Naming
<1>7. \A a, b \in List \cup {HeadNode} : a # HeadNode => Behind(a, b)' = Behind(a, b)
  BY <1>6 DEF Behind
<1>8. ListSound'
  <2>1. ASSUME NEW a \in List \cup {HeadNode} PROVE Linked(a)'
    <3>1. Linked(a) /\ next'[a] = next[a]
      BY <1>a DEF Coupled, ListSound
    <3> QED
      BY <1>5, <1>6, <1>a, <3>1, Naming DEF Linked, Behind
  <2> QED
    BY <1>a, <1>1, <1>5, <1>6, <2>1 DEF ListSound, Coupled, atMain
<1>9. HistorySound'
  BY <1>a, <1>b, <1>1, <1>4, <1>5, <1>6, Naming DEF HistorySound, Coupled
<1>10. Locked'
  <2>1. Holds(t) = {} /\ Holds(t)' = {HeadNode}
    BY <1>a, <1>b, Naming DEF Holds
  <2> QED
    BY <1>0, <1>a, <1>1, <2>1, LockGrows
<1>11. \A u \in Threads : NewOwned(u)'
  <2> SUFFICES ASSUME NEW u \in Threads,
                      pc'[u] \in {"ins_lock", "ins_lock_curr", "link"}
               PROVE  /\ pc[u] \in {"ins_lock", "ins_lock_curr", "link"}
                      /\ new'[u] = new[u] /\ new[u] \in live' \ List'
                      /\ val'[new[u]] = val[new[u]] /\ mutex'[new[u]] = {}
    BY NewStays
  <2>1. pc[u] \in {"ins_lock", "ins_lock_curr", "link"}
    BY <1>0, <1>a, <1>b DEF Apart
  <2>2. new[u] \in live \ List /\ mutex[new[u]] = {} /\ new[u] \in Nodes
        /\ new[u] # HeadNode
    BY <2>1 DEF Coupled, NewOwned, TypeOK, Nodes
  <2>3. mutex'[new[u]] = {}
    BY <1>a, <2>2 DEF Lock, Coupled, TypeOK
  <2> QED
    BY <1>a, <1>5, <2>1, <2>2, <2>3
<1>12. ASSUME NEW u \in Threads PROVE InPlace(u)'
  <2>1. CASE u = t
    BY <1>0, <1>a, <1>b, <1>1, <2>1 DEF InPlace, frame, Apart
  <2>2. CASE u # t
    <3>1. pc[u] \in {"del_lock_curr", "step", "unlink"} => curr[u] \in List
      BY DEF Coupled, InPlace, ListSound, Linked
    <3> QED
      BY <1>0, <1>a, <1>1, <1>5, <2>2, <3>1 DEF Coupled, InPlace, Apart
  <2> QED
    BY <2>1, <2>2
<1>13. ASSUME NEW u \in Threads PROVE Ordered(u)'
  <2>1. CASE u = t
    BY <1>b, <1>4, <1>2, <1>a, <2>1 DEF Ordered, Deleting
  <2>2. CASE u # t
    <3>1. /\ pc'[u] = pc[u] /\ prev'[u] = prev[u] /\ arg'[u] = arg[u]
          /\ target' = target /\ val' = val
      BY <1>0, <1>a, <2>2 DEF Apart
    <3>2. \A w \in Deleting : w # t /\ prev'[w] = prev[w] /\ target[w] \in List
      BY <1>0, <1>a, Naming DEF Apart, Deleting
    <3>3. pc[u] \in {"del_lock_curr", "step"} => prev[u] \in List \cup {HeadNode}
      BY DEF Coupled, InPlace
    <3>4. u \in Deleting => Behind(target[u], prev[u])' /\ val[target[u]] = arg[u]
      BY <1>2, <1>6, <3>1, <3>2 DEF Coupled, Ordered, Behind
    <3>5. pc[u] \in {"del_lock_curr", "step"} /\ target[u] # NULL => u \in Deleting
      BY DEF Deleting
    <3>6. ASSUME pc[u] \in {"del_lock_curr", "step"}, NEW a \in List, val[a] = arg[u],
                 Behind(a, prev[u])', target[u] # NULL => rank'[target[u]] < rank'[a]
          PROVE  \E w \in Deleting :
                   target[w] = a /\ prev[w] # HeadNode /\ Behind(prev[w], prev[u])'
      <4>1. Behind(a, prev[u]) /\ (target[u] # NULL => rank[target[u]] < rank[a])
        BY <1>6, <3>1, <3>2, <3>3, <3>5, <3>6 DEF Behind
      <4>2. PICK w \in Deleting :
              target[w] = a /\ prev[w] # HeadNode /\ Behind(prev[w], prev[u])
        BY <3>6, <4>1 DEF Coupled, Ordered
      <4> QED
        <5>1. prev[w] \in List /\ prev'[w] = prev[w] /\ rank'[prev[w]] = rank[prev[w]]
          BY <4>2, <1>2, <1>6, <3>2
        <5>2. prev[u] = HeadNode \/ rank'[prev[u]] = rank[prev[u]]
          BY <1>6, <3>3, <3>6
        <5> QED
          BY <4>2, <5>1, <5>2, <3>1 DEF Behind
    <3> QED
      BY <1>4, <1>5, <3>1, <3>2, <3>4, <3>6 DEF Ordered
  <2> QED
    BY <2>1, <2>2
<1>14. FindsAsExpected'
  BY <1>0, <1>a, <1>b DEF Apart, Coupled, FindsAsExpected
<1> QED
  BY <1>3, <1>8, <1>9, <1>10, <1>11, <1>12, <1>13, <1>14, <1>5 DEF Coupled

\* A set of nodes has a last one.
LEMMA LastOf ==
  ASSUME NEW S, S # {}, NEW r, \A a \in S : r[a] \in Nat
  PROVE  \E a \in S : \A b \in S : r[a] <= r[b]
<1> DEFINE Ranks == {r[a] : a \in S}
<1>1. Ranks \subseteq Nat /\ Ranks # {}
  OBVIOUS
<1>2. PICK g \in Ranks : \A h \in Ranks : ~(<<h, g>> \in OpToRel(<, Nat))
  <2> HIDE DEF Ranks
  <2> QED
    BY <1>1, WFMin, NatLessThanWellFounded
<1>3. PICK a \in S : g = r[a]
  OBVIOUS
<1>4. ASSUME NEW b \in S PROVE r[a] <= r[b]
  <2>1. r[b] \in Ranks /\ r[b] \in Nat /\ g \in Nat
    BY <1>1
  <2>2. ~(r[b] < g)
    BY <1>2, <2>1 DEF OpToRel
  <2> QED
    BY <1>3, <2>1, <2>2
<1> QED
  BY <1>4

\* If their ranks are bounded it has a first one.
LEMMA FirstOf ==
  ASSUME NEW S, S # {}, NEW r, \A a \in S : r[a] \in Nat,
         NEW top \in Nat, \A a \in S : r[a] <= top
  PROVE  \E a \in S : \A b \in S : r[b] <= r[a]
<1> DEFINE gap == [a \in S |-> top - r[a]]
<1>1. \A a \in S : gap[a] \in Nat
  OBVIOUS
<1>2. PICK a \in S : \A b \in S : gap[a] <= gap[b]
  <2> HIDE DEF gap
  <2> QED
    BY <1>1, LastOf
<1> QED
  BY <1>2

\* What a delete is to find.
LEMMA FirstWithSound ==
  ASSUME Coupled, NEW v, serial \subseteq List,
         \A a \in List : next[HeadNode] # NULL /\ rank[a] <= rank[next[HeadNode]],
         next[HeadNode] \in List \cup {NULL}
  PROVE  /\ FirstWith(v) = NULL => \A a \in serial : val[a] # v
         /\ FirstWith(v) # NULL =>
              /\ FirstWith(v) \in serial /\ val[FirstWith(v)] = v
              /\ \A a \in serial : val[a] = v => rank[a] <= rank[FirstWith(v)]
<1> DEFINE with == {a \in serial : val[a] = v}
<1>1. CASE with = {}
  BY <1>1 DEF FirstWith
<1>2. CASE with # {}
  <2>1. \A a \in List : rank[a] \in Nat
    BY Naming DEF Coupled, TypeOK
  <2>2. \E a \in with : \A b \in with : rank[b] <= rank[a]
    <3>1. PICK a \in with : TRUE
      BY <1>2
    <3>2. next[HeadNode] \in List
      BY <3>1
    <3>3. rank[next[HeadNode]] \in Nat
      BY <3>2, <2>1
    <3>4. \A b \in with : rank[b] \in Nat /\ rank[b] <= rank[next[HeadNode]]
      BY <2>1
    <3> HIDE DEF with
    <3> QED
      BY <1>2, <3>3, <3>4, FirstOf
  <2>3. FirstWith(v) = CHOOSE a \in with : \A b \in with : rank[b] <= rank[a]
    BY <1>2 DEF FirstWith
  <2>4. FirstWith(v) \in with /\ \A b \in with : rank[b] <= rank[FirstWith(v)]
    BY <2>2, <2>3
  <2> QED
    BY <2>4, Naming
<1> QED
  BY <1>1, <1>2

\* A delete at the head: its target leaves serial.
LEMMA DelLockStep ==
  ASSUME Coupled, NEW t \in Threads, DelLock(t)
  PROVE  Coupled' /\ List' = List
<1> USE LockCouplingAssumption
<1> DEFINE first == next[HeadNode]
           n == FirstWith(arg[t])
<1>0. Apart(t)
  BY ThreadApart DEF Thread, Coupled
<1>a. /\ UNCHANGED <<live, val, next, frame, new, atMain, rank>>
      /\ prev' = [prev EXCEPT ![t] = HeadNode] /\ curr' = [curr EXCEPT ![t] = first]
      /\ serial' = serial \ {n} /\ target' = [target EXCEPT ![t] = n]
      /\ pc[t] = "del_lock" /\ Lock(t, HeadNode)
      /\ pc' = [pc EXCEPT ![t] = IF first = NULL THEN "miss" ELSE "del_lock_curr"]
  BY DEF DelLock, Onward, Move
<1>b. /\ pc'[t] = IF first = NULL THEN "miss" ELSE "del_lock_curr"
      /\ prev'[t] = HeadNode /\ curr'[t] = first /\ target'[t] = n
  BY <1>a DEF Coupled, TypeOK
<1>1. main = "join" /\ arg[t] \in Vals /\ List \cup {HeadNode} \subseteq live
  BY <1>a, AtWork
<1>2. /\ Inserting = {} /\ serial \subseteq List
      /\ \A u \in Deleting : prev[u] \in List
      /\ \A a \in List : first # NULL /\ rank[a] <= rank[first]
      /\ first \in List \cup {NULL}
  BY <1>a, AtHead
<1>3. /\ n = NULL => \A a \in serial : val[a] # arg[t]
      /\ n # NULL =>
           /\ n \in serial /\ val[n] = arg[t]
           /\ \A a \in serial : val[a] = arg[t] => rank[a] <= rank[n]
  BY <1>2, FirstWithSound
<1> HIDE DEF n
<1>4. n # NULL => n \in List /\ first # NULL /\ n \in Addr
  BY <1>2, <1>3, Naming
<1>5. TypeOK'
  BY <1>a, <1>1, <1>4 DEF Coupled, TypeOK, Labels, frame, atMain, Nodes, Lock
<1>6. t \notin Deleting /\ Inserting' = {}
  BY <1>0, <1>a, <1>b, <1>2 DEF Deleting, Inserting, Apart
<1>7. Deleting' = IF n = NULL THEN Deleting ELSE Deleting \cup {t}
  BY <1>0, <1>b, <1>4, <1>6 DEF Deleting, Apart
<1>8. \A u \in Deleting : /\ target'[u] = target[u] /\ prev'[u] = prev[u]
                          /\ target[u] \notin serial /\ target[u] \in List /\ u # t
  BY <1>0, <1>6, Naming DEF Apart, Coupled, HistorySound, Deleting
<1>9. List' = List
  <2>1. List = serial \cup {target[u] : u \in Deleting}
    BY <1>2 DEF List
  <2>2. List' = serial' \cup {target'[u] : u \in Deleting'}
    BY <1>6 DEF List
  <2>3. CASE n = NULL
    BY <1>a, <1>2, <1>7, <1>8, <2>1, <2>2, <2>3, Naming
  <2>4. CASE n # NULL
    BY <1>a, <1>b, <1>3, <1>7, <1>8, <2>1, <2>2, <2>4
  <2> QED
    BY <2>3, <2>4
<1>10. ListSound'
  BY <1>a, <1>9 DEF ListSound, Linked, Behind, Coupled, atMain
<1>11. HistorySound'
  <2>1. \A u \in Deleting' : target'[u] \notin serial'
    BY <1>a, <1>b, <1>7, <1>8
  <2>2. \A u, w \in Deleting' : target'[u] = target'[w] => u = w
    BY <1>b, <1>3, <1>7, <1>8 DEF Coupled, HistorySound
  <2> QED
    BY <1>6, <2>1, <2>2 DEF HistorySound
<1>12. Locked'
  <2>1. Holds(t) = {} /\ Holds(t)' = {HeadNode}
    BY <1>a, <1>b, Naming DEF Holds
  <2> QED
    BY <1>0, <1>a, <1>1, <2>1, LockGrows
<1>13. \A u \in Threads : NewOwned(u)'
  <2> SUFFICES ASSUME NEW u \in Threads,
                      pc'[u] \in {"ins_lock", "ins_lock_curr", "link"}
               PROVE  /\ pc[u] \in {"ins_lock", "ins_lock_curr", "link"}
                      /\ new'[u] = new[u] /\ new[u] \in live' \ List'
                      /\ val'[new[u]] = val[new[u]] /\ mutex'[new[u]] = {}
    BY NewStays
  <2>1. pc[u] \in {"ins_lock", "ins_lock_curr", "link"}
    BY <1>0, <1>a, <1>b DEF Apart
  <2>2. new[u] \in live \ List /\ mutex[new[u]] = {} /\ new[u] \in Nodes
        /\ new[u] # HeadNode
    BY <2>1 DEF Coupled, NewOwned, TypeOK, Nodes
  <2>3. mutex'[new[u]] = {}
    BY <1>a, <2>2 DEF Lock, Coupled, TypeOK
  <2> QED
    BY <1>a, <1>9, <2>1, <2>2, <2>3
<1>14. ASSUME NEW u \in Threads PROVE InPlace(u)'
  <2>1. CASE u = t
    BY <1>0, <1>a, <1>b, <1>1, <1>2, <1>9, <2>1 DEF InPlace, frame, Apart
  <2>2. CASE u # t
    BY <1>0, <1>a, <1>1, <1>9, <2>2 DEF Coupled, InPlace, Apart
  <2> QED
    BY <2>1, <2>2
<1>15. ASSUME NEW u \in Threads PROVE Ordered(u)'
  <2>1. CASE u = t
    <3>1. t \in Deleting' => Behind(target[t], prev[t])' /\ val'[target'[t]] = arg'[t]
      BY <1>a, <1>b, <1>3, <1>6, <1>7 DEF Behind, frame
    <3>2. ASSUME NEW a \in List, val[a] = arg[t],
                 n # NULL => rank[n] < rank[a]
          PROVE  \E w \in Deleting' :
                   target'[w] = a /\ prev'[w] # HeadNode /\ Behind(prev[w], prev[t])'
      <4>0. rank[a] \in Nat /\ (n # NULL => rank[n] \in Nat)
        BY <1>4, Naming DEF Coupled, TypeOK
      <4>1. a \notin serial
        BY <1>3, <3>2, <4>0
      <4>2. PICK w \in Deleting : target[w] = a
        BY <4>1 DEF List
      <4>3. w \in Deleting' /\ target'[w] = a /\ prev'[w] = prev[w] /\ prev[w] \in List
        BY <1>2, <1>7, <1>8, <4>2
      <4> QED
        BY <1>b, <4>3, Naming DEF Behind
    <3> QED
      BY <1>a, <1>b, <1>9, <2>1, <3>1, <3>2 DEF Ordered, frame
  <2>2. CASE u # t
    <3>1. /\ pc'[u] = pc[u] /\ prev'[u] = prev[u] /\ arg'[u] = arg[u]
          /\ target'[u] = target[u] /\ val' = val /\ rank' = rank
      BY <1>0, <1>a, <2>2 DEF Apart
    <3>2. u \in Deleting' <=> u \in Deleting
      BY <1>7, <2>2
    <3> QED
      BY <1>7, <1>8, <1>9, <3>1, <3>2 DEF Ordered, Behind, Coupled
  <2> QED
    BY <2>1, <2>2
<1>16. FindsAsExpected'
  BY <1>0, <1>b, <1>4 DEF Apart, Coupled, FindsAsExpected
<1> QED
  BY <1>5, <1>10, <1>11, <1>12, <1>13, <1>14, <1>15, <1>16, <1>9 DEF Coupled

\* curr, which stays locked, gives way to the node behind it.
LEMMA StepStep ==
  ASSUME Coupled, NEW t \in Threads, Step(t)
  PROVE  Coupled' /\ List' = List
<1> USE LockCouplingAssumption
<1> DEFINE p == prev[t]
           c == curr[t]
           d == next[c]
<1>0. Apart(t)
  BY ThreadApart DEF Thread, Coupled
<1>a. /\ UNCHANGED <<live, val, next, frame, new, atMain, history>>
      /\ prev' = [prev EXCEPT ![t] = c] /\ curr' = [curr EXCEPT ![t] = d]
      /\ pc[t] = "step" /\ Unlock(t, p)
      /\ pc' = [pc EXCEPT ![t] = IF d = NULL THEN "miss" ELSE "del_lock_curr"]
  BY DEF Step, Onward, Move
<1>b. /\ pc'[t] = IF d = NULL THEN "miss" ELSE "del_lock_curr"
      /\ prev'[t] = c /\ curr'[t] = d
  BY <1>a DEF Coupled, TypeOK
<1>1. main = "join" /\ arg[t] \in Vals /\ List \cup {HeadNode} \subseteq live
  BY <1>a, AtWork
<1>2. p \in List \cup {HeadNode} /\ c = next[p] /\ c # NULL /\ val[c] # arg[t]
  BY <1>a DEF Coupled, InPlace
<1>3. Linked(p)
  BY <1>2 DEF Coupled, ListSound
<1>4. c \in List /\ c \in Addr /\ Behind(c, p) /\ c # p
  BY <1>2, <1>3, Naming DEF Linked, Behind, Coupled, TypeOK
<1>5. Linked(c) /\ d \in List \cup {NULL}
  BY <1>4 DEF Coupled, ListSound, Linked
<1> HIDE DEF p, c, d
<1>6. TypeOK'
  <2>1. d \in Addr \cup {NULL}
    BY <1>5, Naming
  <2>2. mutex' \in [Nodes -> SUBSET Threads]
    BY <1>a DEF Coupled, TypeOK, Unlock
  <2> QED
    BY <1>a, <1>4, <2>1, <2>2
    DEF Coupled, TypeOK, Labels, frame, atMain, history, Nodes
<1>7. Inserting' = Inserting /\ Deleting' \subseteq Deleting
      /\ (d # NULL => Deleting' = Deleting)
  BY <1>0, <1>a, <1>b DEF Deleting, Inserting, Apart, history
\* The target of t, if there is one, is behind curr.
<1>8. target[t] # NULL => d # NULL /\ target[t] \in List /\ Behind(target[t], c)
  <2> SUFFICES ASSUME target[t] # NULL
               PROVE  d # NULL /\ target[t] \in List /\ Behind(target[t], c)
    OBVIOUS
  <2>1. t \in Deleting
    BY <1>a DEF Deleting
  <2>2. target[t] \in List /\ Behind(target[t], p) /\ val[target[t]] = arg[t]
    BY <2>1, Naming DEF Coupled, Ordered, p
  <2>3. rank[target[t]] < rank[c]
    BY <1>2, <1>3, <2>2 DEF Linked
  <2> QED
    BY <1>5, <2>2, <2>3 DEF Linked, Behind, d
<1>9. Deleting' = Deleting
  <2>1. CASE d = NULL
    <3>1. t \notin Deleting
      BY <1>8, <2>1 DEF Deleting
    <3> QED
      BY <1>0, <1>a, <1>b, <3>1, <2>1 DEF Deleting, Apart, history
  <2> QED
    BY <1>7, <2>1
<1>10. List' = List
  BY <1>a, <1>7, <1>9 DEF List, history
<1>11. ListSound' /\ HistorySound'
  BY <1>a, <1>7, <1>9, <1>10
  DEF ListSound, Linked, Behind, HistorySound, Coupled, atMain, history
<1>12. Locked'
  <2>1. Holds(t) = {p, c} /\ Holds(t)' = {c}
    BY <1>a, <1>b, <1>2, <1>4, Naming DEF Holds, p, c
  <2> QED
    BY <1>0, <1>a, <1>1, <1>2, <1>4, <2>1, LockShrinks
<1>13. \A u \in Threads : NewOwned(u)'
  <2> SUFFICES ASSUME NEW u \in Threads,
                      pc'[u] \in {"ins_lock", "ins_lock_curr", "link"}
               PROVE  /\ pc[u] \in {"ins_lock", "ins_lock_curr", "link"}
                      /\ new'[u] = new[u] /\ new[u] \in live' \ List'
                      /\ val'[new[u]] = val[new[u]] /\ mutex'[new[u]] = {}
    BY NewStays
  <2>1. pc[u] \in {"ins_lock", "ins_lock_curr", "link"}
    BY <1>0, <1>b DEF Apart
  <2>2. new[u] \in live \ List /\ mutex[new[u]] = {} /\ new[u] \in Nodes
    BY <2>1 DEF Coupled, NewOwned, TypeOK
  <2>3. mutex'[new[u]] = {}
    BY <1>a, <2>2 DEF Unlock, Coupled, TypeOK
  <2> QED
    BY <1>a, <1>10, <2>1, <2>2, <2>3
<1>14. ASSUME NEW u \in Threads PROVE InPlace(u)'
  <2>1. CASE u = t
    BY <1>0, <1>a, <1>b, <1>1, <1>4, <1>10, <2>1 DEF InPlace, frame, Apart, d
  <2>2. CASE u # t
    BY <1>0, <1>a, <1>1, <1>10, <2>2 DEF Coupled, InPlace, Apart
  <2> QED
    BY <2>1, <2>2
\* Who is ahead of t stays ahead: t holds curr.
<1>15. \A w \in Deleting : w # t /\ prev[w] # HeadNode /\ Behind(prev[w], p)
         => Behind(prev[w], c)
  <2> TAKE w \in Deleting
  <2> HAVE w # t /\ prev[w] # HeadNode /\ Behind(prev[w], p)
  <2>1. prev[w] \in List
    BY DEF Coupled, InPlace, Deleting
  <2>2. prev[w] # c
    <3>1. c \in Holds(t)
      BY <1>a, <1>2 DEF Holds, c
    <3>2. prev[w] \in Holds(w)
      BY <2>1, Naming DEF Holds, Deleting
    <3> QED
      BY <3>1, <3>2 DEF Coupled, Locked, Deleting
  <2> QED
    BY <1>2, <1>3, <2>1, <2>2 DEF Linked, Behind
<1>16. ASSUME NEW u \in Threads PROVE Ordered(u)'
  <2>1. /\ arg'[u] = arg[u] /\ target' = target /\ val' = val /\ rank' = rank
        /\ \A w \in Threads \ {t} : pc'[w] = pc[w] /\ prev'[w] = prev[w]
    BY <1>0, <1>a DEF Apart, frame, history
  <2>2. CASE u = t
    <3>1. t \in Deleting' => Behind(target[t], prev[t])' /\ val'[target'[t]] = arg'[t]
      BY <1>b, <1>8, <1>9, <2>1, <2>2 DEF Behind, Coupled, Ordered, Deleting
    <3>2. ASSUME NEW a \in List, val[a] = arg[t], Behind(a, c),
                 target[t] # NULL => rank[target[t]] < rank[a]
          PROVE  \E w \in Deleting :
                   target[w] = a /\ prev'[w] # HeadNode /\ Behind(prev'[w], c)
      <4>1. Behind(a, p)
        <5>1. rank[a] \in Nat /\ rank[c] \in Nat /\ (p = HeadNode \/ rank[p] \in Nat)
          BY <1>2, <1>4, Naming DEF Coupled, TypeOK
        <5> QED
          BY <1>4, <3>2, <5>1, Naming DEF Behind
      <4>2. PICK w \in Deleting :
              target[w] = a /\ prev[w] # HeadNode /\ Behind(prev[w], p)
        BY <1>a, <3>2, <4>1 DEF Coupled, Ordered, p
      <4>3. w # t
        <5>1. CASE p = HeadNode
          BY <5>1, <4>2 DEF p
        <5>2. CASE p \in List
          BY <5>2, <4>2, Naming DEF Behind, Coupled, TypeOK, p
        <5> QED
          BY <1>2, <5>1, <5>2
      <4> QED
        BY <1>15, <2>1, <4>2, <4>3 DEF Deleting
    <3> QED
      BY <1>b, <1>9, <1>10, <2>1, <2>2, <3>1, <3>2 DEF Ordered, Behind
  <2>3. CASE u # t
    <3>1. u \in Deleting => Behind(target[u], prev[u])' /\ val'[target'[u]] = arg'[u]
      BY <2>1, <2>3 DEF Coupled, Ordered, Behind
    <3>2. ASSUME pc[u] \in {"del_lock_curr", "step"}, NEW a \in List, val[a] = arg[u],
                 Behind(a, prev[u]), target[u] # NULL => rank[target[u]] < rank[a]
          PROVE  \E w \in Deleting :
                   target[w] = a /\ prev'[w] # HeadNode /\ Behind(prev'[w], prev[u])
      <4>1. PICK w \in Deleting :
              target[w] = a /\ prev[w] # HeadNode /\ Behind(prev[w], prev[u])
        BY <3>2 DEF Coupled, Ordered
      <4>2. CASE w # t
        BY <2>1, <4>1, <4>2 DEF Deleting
      <4>3. CASE w = t
        <5>1. prev[u] \in List \cup {HeadNode} /\ p # HeadNode
          BY <3>2, <4>1, <4>3 DEF Coupled, InPlace, p
        <5>2. Behind(c, prev[u])
          <6>1. prev[u] = HeadNode \/ (rank[c] < rank[p] /\ rank[p] < rank[prev[u]])
            BY <1>4, <4>1, <4>3, <5>1 DEF Behind, p
          <6>2. rank[c] \in Nat /\ rank[p] \in Nat
                /\ (prev[u] # HeadNode => rank[prev[u]] \in Nat)
            BY <1>2, <1>4, <5>1, Naming DEF Coupled, TypeOK
          <6> QED
            BY <6>1, <6>2 DEF Behind
        <5> QED
          BY <1>b, <1>4, <4>1, <4>3, <5>2, Naming
      <4> QED
        BY <4>2, <4>3
    <3> QED
      BY <1>9, <1>10, <2>1, <2>3, <3>1, <3>2 DEF Ordered, Behind
  <2> QED
    BY <2>2, <2>3
<1>17. FindsAsExpected'
  BY <1>0, <1>a, <1>b, <1>8 DEF Apart, Coupled, FindsAsExpected, history
<1> QED
  BY <1>6, <1>11, <1>12, <1>13, <1>14, <1>16, <1>17, <1>10 DEF Coupled

\* The new node comes first; nobody but t can be at the head.
LEMMA LinkStep ==
  ASSUME Coupled, NEW t \in Threads, Link(t)
  PROVE  Coupled' /\ List' = List \cup {new[t]}
<1> USE LockCouplingAssumption
<1> DEFINE n == new[t]
           c == curr[t]
<1>0. Apart(t)
  BY ThreadApart DEF Thread, Coupled
<1>a. /\ UNCHANGED <<live, val, mutex, frame, prev, curr, new, atMain, history>>
      /\ next' = [next EXCEPT ![prev[t]] = n, ![n] = c]
      /\ pc[t] = "link"
      /\ pc' = [pc EXCEPT ![t] = IF c = NULL THEN "ins_unlock" ELSE "ins_unlock_curr"]
  BY DEF Link, Move
<1>b. pc'[t] = IF c = NULL THEN "ins_unlock" ELSE "ins_unlock_curr"
  BY <1>a DEF Coupled, TypeOK
<1>1. main = "join" /\ arg[t] \in Vals /\ List \cup {HeadNode} \subseteq live
  BY <1>a, AtWork
<1>2. /\ prev[t] = HeadNode /\ c = next[HeadNode] /\ n \in live \ List
      /\ val[n] \in Vals /\ mutex[n] = {} /\ n \in Addr
  BY <1>a DEF Coupled, InPlace, NewOwned, TypeOK, Nodes
<1>3. Linked(HeadNode) /\ c \in List \cup {NULL}
  BY <1>2 DEF Coupled, ListSound, Linked
<1>4. /\ next'[HeadNode] = n /\ next'[n] = c
      /\ \A a \in List : next'[a] = next[a]
  BY <1>a, <1>2, Naming DEF Coupled, TypeOK, Nodes
<1>5. HeadNode \in Holds(t) /\ \A u \in Threads \ {t} : HeadNode \notin Holds(u)
  BY <1>a, <1>2, Naming DEF Holds, Coupled, Locked
<1>6. \A u \in Threads \ {t} :
        /\ pc[u] \notin {"ins_lock_curr", "link", "ins_unlock_curr", "ins_unlock"}
        /\ pc[u] \in {"del_lock_curr", "step", "unlink", "hit", "miss"}
             => prev[u] \in List
  BY <1>5, Naming DEF Holds, Coupled, InPlace
<1>7. n \in serial /\ \A a \in List : rank[a] < rank[n]
  BY <1>a DEF Coupled, HistorySound, Inserting
<1> HIDE DEF n, c
<1>8. TypeOK'
  BY <1>a, <1>2, <1>3, Naming DEF Coupled, TypeOK, Labels, frame, atMain, history, Nodes
<1>9. Inserting = {t} /\ Inserting' = {} /\ Deleting' = Deleting /\ t \notin Deleting
  BY <1>0, <1>a, <1>b, <1>6 DEF Inserting, Deleting, Apart, history
<1>10. List' = List \cup {n}
  <2>1. List' = serial \cup {target[u] : u \in Deleting}
    BY <1>a, <1>9 DEF List, history
  <2>2. List = (serial \cup {target[u] : u \in Deleting}) \ {n}
    BY <1>9 DEF List, n
  <2> QED
    BY <2>1, <2>2, <1>7
<1>11. \A a \in Addr : rank[a] \in Nat
  BY DEF Coupled, TypeOK
<1>12. ListSound'
  <2>1. \A a, b \in List' : rank'[a] = rank'[b] => a = b
    <3>1. \A a \in List : rank[a] # rank[n]
      BY <1>2, <1>7, <1>11, Naming
    <3> QED
      BY <1>a, <1>10, <3>1 DEF Coupled, ListSound, history
  <2>2. ASSUME NEW a \in List' \cup {HeadNode} PROVE Linked(a)'
    <3>1. CASE a = HeadNode
      <4>1. next'[a] = n /\ n # NULL /\ n \in List'
        BY <1>2, <1>4, <1>10, <3>1 DEF Coupled, TypeOK, Nodes
      <4>2. \A b \in List' : b = n \/ rank'[b] < rank'[n]
        BY <1>a, <1>7, <1>10 DEF history
      <4> QED
        BY <3>1, <4>1, <4>2 DEF Linked, Behind
    <3>2. CASE a = n
      <4>1. next'[a] \in List' \cup {NULL}
        BY <1>3, <1>4, <1>10, <3>2
      <4>2. next'[a] # NULL => rank'[next'[a]] < rank'[a]
        BY <1>a, <1>3, <1>4, <1>7, <3>2 DEF history
      <4>3. ASSUME NEW b \in List', Behind(b, a)'
            PROVE  next'[a] # NULL /\ (b = next'[a] \/ rank'[b] < rank'[next'[a]])
        <5>1. rank[b] < rank[n]
          BY <1>a, <1>2, <3>2, <4>3 DEF Behind, history
        <5>2. b \in List
          BY <5>1, <1>2, <1>10, <1>11
        <5> QED
          BY <1>a, <1>2, <1>3, <1>4, <3>2, <5>2 DEF Linked, Behind, history
      <4> QED
        BY <4>1, <4>2, <4>3 DEF Linked, Behind
    <3>3. CASE a \in List
      <4>1. Linked(a) /\ next'[a] = next[a] /\ a # HeadNode
        BY <1>4, <3>3, Naming DEF Coupled, ListSound
      <4>2. ASSUME NEW b \in List', Behind(b, a)'
            PROVE  b \in List /\ Behind(b, a)
        <5>1. rank[b] < rank[a]
          BY <1>a, <4>1, <4>2 DEF Behind, history
        <5>2. b # n
          BY <5>1, <1>2, <1>7, <1>11, <3>3, Naming
        <5> QED
          BY <1>10, <5>1, <5>2 DEF Behind
      <4>3. next'[a] \in List' \cup {NULL}
        BY <1>10, <4>1 DEF Linked
      <4>4. next'[a] # NULL => rank'[next'[a]] < rank'[a]
        BY <1>a, <4>1 DEF Linked, Behind, history
      <4>5. ASSUME NEW b \in List', Behind(b, a)'
            PROVE  next'[a] # NULL /\ (b = next'[a] \/ rank'[b] < rank'[next'[a]])
        BY <1>a, <4>1, <4>2, <4>5 DEF Linked, history
      <4> QED
        BY <4>3, <4>4, <4>5 DEF Linked, Behind
    <3> QED
      BY <1>10, <3>1, <3>2, <3>3
  <2>3. \A a \in List' : val'[a] \in Vals
    BY <1>a, <1>2, <1>10 DEF Coupled, ListSound
  <2>4. List' \cup {HeadNode} \subseteq live'
    BY <1>a, <1>1, <1>2, <1>10
  <2> QED
    BY <1>a, <1>1, <2>1, <2>2, <2>3, <2>4 DEF ListSound, atMain
<1>13. HistorySound'
  BY <1>a, <1>9 DEF HistorySound, Coupled, history
<1>14. Locked'
  <2>1. Holds(t)' = Holds(t)
    BY <1>a, <1>b, <1>2, Naming DEF Holds, c
  <2> QED
    BY <1>0, <1>a, <2>1, HoldsApart, LockStays
<1>15. \A u \in Threads : NewOwned(u)'
  <2> SUFFICES ASSUME NEW u \in Threads,
                      pc'[u] \in {"ins_lock", "ins_lock_curr", "link"}
               PROVE  /\ pc[u] \in {"ins_lock", "ins_lock_curr", "link"}
                      /\ new'[u] = new[u] /\ new[u] \in live' \ List'
                      /\ val'[new[u]] = val[new[u]] /\ mutex'[new[u]] = {}
    BY NewStays
  <2>1. u # t /\ pc[u] \in {"ins_lock", "ins_lock_curr", "link"}
    BY <1>0, <1>b DEF Apart
  <2>2. new[u] \in live \ List /\ mutex[new[u]] = {} /\ new[u] # n
    BY <1>a, <2>1 DEF Coupled, NewOwned, n
  <2> QED
    BY <1>a, <1>10, <2>1, <2>2
<1>16. ASSUME NEW u \in Threads PROVE InPlace(u)'
  <2>1. CASE u = t
    BY <1>0, <1>a, <1>b, <1>1, <1>2, <1>3, <1>4, <1>10, <2>1, Naming
    DEF InPlace, frame, Apart, n, c, atMain
  <2>2. CASE u # t
    <3>1. pc[u] \in {"hit", "free"} => curr[u] # n
      <4>1. pc[u] \in {"hit", "free"} => curr[u] \in Holds(u)
        BY DEF Coupled, InPlace, Holds, TypeOK, Nodes
      <4> QED
        BY <1>2, <4>1 DEF Coupled, Locked
    <3>2. /\ pc'[u] = pc[u] /\ calls'[u] = calls[u] /\ arg'[u] = arg[u]
          /\ prev'[u] = prev[u] /\ curr'[u] = curr[u] /\ main' = main
          /\ live' = live /\ val' = val
      BY <1>0, <1>a, <2>2 DEF Apart
    <3>3. pc[u] \in {"del_lock_curr", "step", "unlink", "miss"} =>
            next'[prev[u]] = next[prev[u]]
      BY <1>4, <1>6, <2>2
    <3>4. pc[u] \in {"hit", "free"} => curr[u] \in live \ List'
      BY <1>10, <3>1 DEF Coupled, InPlace
    <3>5. InPlace(u) /\ List \subseteq List'
      BY <1>10 DEF Coupled
    <3> QED
      BY <1>6, <2>2, <3>2, <3>3, <3>4, <3>5 DEF InPlace
  <2> QED
    BY <2>1, <2>2
<1>17. ASSUME NEW u \in Threads PROVE Ordered(u)'
  <2>1. CASE u = t
    BY <1>b, <1>9, <2>1 DEF Ordered
  <2>2. CASE u # t
    <3>1. /\ pc'[u] = pc[u] /\ prev' = prev /\ arg' = arg /\ target' = target
          /\ val' = val /\ rank' = rank
      BY <1>0, <1>a, <2>2 DEF Apart, frame, history
    <3>2. pc[u] \in {"del_lock_curr", "step"} => ~Behind(n, prev[u])
      BY <1>2, <1>6, <1>7, <1>11, <2>2, Naming DEF Behind
    <3> QED
      BY <1>9, <1>10, <3>1, <3>2 DEF Ordered, Behind, Coupled
  <2> QED
    BY <2>1, <2>2
<1>18. FindsAsExpected'
  BY <1>0, <1>a, <1>b DEF Apart, Coupled, FindsAsExpected, history
<1> QED
  BY <1>8, <1>12, <1>13, <1>14, <1>15, <1>16, <1>17, <1>18, <1>10 DEF Coupled, n

\* curr, the target, leaves the list; t holds it and the node before it.
LEMMA UnlinkStep ==
  ASSUME Coupled, NEW t \in Threads, Unlink(t)
  PROVE  Coupled' /\ List' = List \ {curr[t]}
<1> USE LockCouplingAssumption
<1> DEFINE p == prev[t]
           c == curr[t]
<1>0. Apart(t)
  BY ThreadApart DEF Thread, Coupled
<1>a. /\ UNCHANGED <<live, val, mutex, frame, prev, curr, new, atMain, history>>
      /\ next' = [next EXCEPT ![p] = next[c]]
      /\ pc[t] = "unlink" /\ pc' = [pc EXCEPT ![t] = "hit"]
  BY DEF Unlink, Move
<1>b. pc'[t] = "hit"
  BY <1>a DEF Coupled, TypeOK
<1>1. main = "join" /\ arg[t] \in Vals /\ List \cup {HeadNode} \subseteq live
  BY <1>a, AtWork
<1>2. p \in List \cup {HeadNode} /\ c = next[p] /\ c # NULL /\ c = target[t]
  BY <1>a DEF Coupled, InPlace, FindsAsExpected
<1>3. Linked(p)
  BY <1>2 DEF Coupled, ListSound
<1>4. c \in List /\ c \in Addr /\ Behind(c, p) /\ c # p
  BY <1>2, <1>3, Naming DEF Linked, Behind, Coupled, TypeOK
<1>5. Linked(c) /\ next[c] \in List \cup {NULL}
  BY <1>4 DEF Coupled, ListSound, Linked
<1>6. p \in Holds(t) /\ c \in Holds(t)
  BY <1>a, <1>2, Naming DEF Holds
<1> HIDE DEF p, c
<1>7. \A u \in Threads \ {t} :
        /\ pc[u] \in {"del_lock_curr", "step", "unlink", "hit", "miss"}
             => prev[u] # p /\ prev[u] # c
        /\ pc[u] = "ins_unlock_curr" => curr[u] # c /\ new[u] # c
        /\ pc[u] \in {"ins_lock_curr", "link", "ins_unlock_curr"} => p # HeadNode
  <2> TAKE u \in Threads \ {t}
  <2>1. p \notin Holds(u) /\ c \notin Holds(u)
    BY <1>6 DEF Coupled, Locked
  <2>2. pc[u] \in {"del_lock_curr", "step", "unlink", "hit", "miss"} => prev[u] # NULL
    BY Naming DEF Coupled, InPlace
  <2>3. pc[u] \in {"del_lock_curr", "step", "unlink", "hit", "miss"}
          => prev[u] # p /\ prev[u] # c
    BY <2>1, <2>2 DEF Holds
  <2>4. pc[u] \in {"ins_lock_curr", "link", "ins_unlock_curr"} => p # HeadNode
    BY <2>1, Naming DEF Holds, Coupled, InPlace
  <2>5. pc[u] = "ins_unlock_curr" => curr[u] # c
    BY <2>1, <1>2 DEF Holds
  <2>6. pc[u] = "ins_unlock_curr" => new[u] # c
    <3> SUFFICES ASSUME pc[u] = "ins_unlock_curr" PROVE new[u] # c
      OBVIOUS
    <3>1. new[u] = next[HeadNode] /\ p # HeadNode /\ p \in List
      BY <1>2, <2>4 DEF Coupled, InPlace
    <3>2. Linked(HeadNode) /\ Behind(p, HeadNode)
      BY DEF Coupled, ListSound, Behind
    <3>3. p = new[u] \/ rank[p] < rank[new[u]]
      BY <3>1, <3>2 DEF Linked
    <3>4. rank[c] < rank[p]
      BY <1>4, <3>1 DEF Behind
    <3> QED
      BY <1>4, <3>1, <3>3, <3>4, Naming DEF Coupled, TypeOK
  <2> QED
    BY <2>3, <2>4, <2>5, <2>6
<1>8. next'[p] = next[c] /\ \A a \in Nodes \ {p} : next'[a] = next[a]
  BY <1>a, <1>2, Naming DEF Coupled, TypeOK, Nodes
<1>9. TypeOK'
  BY <1>a, <1>5, Naming DEF Coupled, TypeOK, Labels, frame, atMain, history
<1>10. t \in Deleting /\ Inserting' = Inserting /\ Deleting' = Deleting \ {t}
  BY <1>0, <1>a, <1>b, <1>2 DEF Inserting, Deleting, Apart, history
<1>11. List' = List \ {c}
  <2>1. \A u \in Inserting : c # new[u] /\ u # t
    BY <1>a, <1>4 DEF Coupled, NewOwned, Inserting
  <2>2. c \notin serial /\ \A u \in Deleting \ {t} : target[u] # c
    BY <1>2, <1>10 DEF Coupled, HistorySound
  <2> QED
    BY <1>a, <1>2, <1>10, <2>1, <2>2 DEF List, history
<1>12. \A a \in Addr : rank[a] \in Nat
  BY DEF Coupled, TypeOK
<1>13. ListSound'
  <2>1. ASSUME NEW a \in List' \cup {HeadNode} PROVE Linked(a)'
    <3>1. CASE a = p
      <4>1. next'[a] = next[c]
        BY <1>8, <3>1
      <4>2. next[c] # c
        BY <1>4, <1>5, <1>12, Naming DEF Linked, Behind
      <4>3. next[c] # NULL => a = HeadNode \/ rank[next[c]] < rank[a]
        <5> SUFFICES ASSUME next[c] # NULL, p # HeadNode
                     PROVE  rank[next[c]] < rank[p]
          BY <3>1
        <5>1. rank[next[c]] < rank[c] /\ rank[c] < rank[p]
          BY <1>4, <1>5, Naming DEF Linked, Behind
        <5> QED
          BY <5>1, <1>2, <1>4, <1>5, <1>12, Naming
      <4>4. ASSUME NEW b \in List \ {c}, Behind(b, p)
            PROVE  next[c] # NULL /\ (b = next[c] \/ rank[b] < rank[next[c]])
        <5>1. rank[b] < rank[c]
          BY <1>2, <1>3, <4>4 DEF Linked
        <5> QED
          BY <1>5, <5>1 DEF Linked, Behind
      <4> QED
        BY <1>a, <1>5, <1>11, <3>1, <4>1, <4>2, <4>3, <4>4 DEF Linked, Behind, history
    <3>2. CASE a # p
      <4>1. a \in List \cup {HeadNode} /\ next'[a] = next[a] /\ Linked(a) /\ a # c
        BY <1>8, <1>11, <1>4, <3>2, Naming DEF Coupled, ListSound, Nodes
      <4>2. next[a] # c
        <5> SUFFICES ASSUME next[a] = c PROVE FALSE
          OBVIOUS
        <5>1. Behind(c, a)
          BY <4>1, <1>4, Naming DEF Linked
        <5>2. CASE Behind(p, a) /\ p # HeadNode
          <6>1. p \in List
            BY <1>2, <5>2
          <6>2. p = c \/ rank[p] < rank[c]
            BY <4>1, <5>2, <6>1 DEF Linked
          <6>3. rank[c] < rank[p]
            BY <1>4, <6>1, Naming DEF Behind
          <6> QED
            BY <1>4, <1>12, <6>1, <6>2, <6>3, Naming
        <5>3. CASE Behind(a, p) /\ a # HeadNode
          <6>1. a = c \/ rank[a] < rank[c]
            BY <1>2, <1>3, <4>1, <5>3 DEF Linked
          <6>2. rank[c] < rank[a]
            BY <5>1, <5>3 DEF Behind
          <6> QED
            BY <4>1, <1>12, <5>3, <6>1, <6>2, <1>4, Naming
        <5>4. (Behind(p, a) /\ p # HeadNode) \/ (Behind(a, p) /\ a # HeadNode)
          <6>1. p \in List /\ a \in List => rank[a] # rank[p]
            BY <3>2 DEF Coupled, ListSound
          <6> QED
            BY <1>2, <1>12, <3>2, <4>1, <6>1, Naming DEF Behind
        <5> QED
          BY <5>2, <5>3, <5>4
      <4> QED
        BY <1>a, <1>11, <4>1, <4>2 DEF Linked, Behind, history
    <3> QED
      BY <3>1, <3>2
  <2> QED
    BY <1>a, <1>1, <1>11, <2>1 DEF ListSound, Coupled, atMain, history
<1>14. HistorySound'
  BY <1>a, <1>10, <1>11 DEF HistorySound, Coupled, history
<1>15. Locked'
  <2>1. Holds(t)' = Holds(t)
    BY <1>a, <1>b DEF Holds
  <2> QED
    BY <1>0, <1>a, <2>1, HoldsApart, LockStays
<1>16. \A u \in Threads : NewOwned(u)'
  <2> SUFFICES ASSUME NEW u \in Threads,
                      pc'[u] \in {"ins_lock", "ins_lock_curr", "link"}
               PROVE  /\ pc[u] \in {"ins_lock", "ins_lock_curr", "link"}
                      /\ new'[u] = new[u] /\ new[u] \in live' \ List'
                      /\ val'[new[u]] = val[new[u]] /\ mutex'[new[u]] = {}
    BY NewStays
  <2>1. u # t /\ pc[u] \in {"ins_lock", "ins_lock_curr", "link"}
    BY <1>0, <1>b DEF Apart
  <2>2. new[u] \in live \ List /\ mutex[new[u]] = {}
    BY <2>1 DEF Coupled, NewOwned
  <2> QED
    BY <1>a, <1>11, <2>1, <2>2
<1>17. ASSUME NEW u \in Threads PROVE InPlace(u)'
  <2>1. CASE u = t
    BY <1>0, <1>a, <1>b, <1>1, <1>2, <1>4, <1>11, <2>1
    DEF InPlace, frame, Apart, p, c, atMain
  <2>2. CASE u # t
    <3>1. pc[u] \in {"del_lock_curr", "step", "unlink", "miss"} =>
            next'[prev[u]] = next[prev[u]]
      BY <1>7, <1>8, <2>2, Naming DEF Coupled, InPlace, Nodes
    <3>2. pc[u] \in {"ins_lock_curr", "link", "ins_unlock_curr"} =>
            next'[HeadNode] = next[HeadNode]
      BY <1>7, <1>8, <2>2 DEF Nodes
    <3> QED
      BY <1>0, <1>a, <1>1, <1>7, <1>11, <2>2, <3>1, <3>2 DEF Coupled, InPlace, Apart
  <2> QED
    BY <2>1, <2>2
<1>18. ASSUME NEW u \in Threads PROVE Ordered(u)'
  <2>1. CASE u = t
    BY <1>b, <1>10, <2>1 DEF Ordered
  <2>2. CASE u # t
    <3>1. /\ pc'[u] = pc[u] /\ prev' = prev /\ arg' = arg /\ target' = target
          /\ val' = val /\ rank' = rank
      BY <1>0, <1>a, <2>2 DEF Apart, frame, history
    <3>2. \A w \in Deleting : target[w] # c => w \in Deleting'
      BY <1>2, <1>10
    <3> QED
      BY <1>10, <1>11, <2>2, <3>1, <3>2 DEF Ordered, Behind, Coupled
  <2> QED
    BY <2>1, <2>2
<1>19. FindsAsExpected'
  BY <1>0, <1>a, <1>b DEF Apart, Coupled, FindsAsExpected, history
<1> QED
  BY <1>9, <1>13, <1>14, <1>15, <1>16, <1>17, <1>18, <1>19, <1>11 DEF Coupled, c

\* main works when its threads have returned, and does not change the list.
LEMMA MainStep ==
  ASSUME Coupled, Main
  PROVE  Coupled' /\ List' = List
<1> USE LockCouplingAssumption DEF Main, Join, PrintNode, FreeList
<1>a. /\ UNCHANGED <<val, next, mutex, pc, frame, prev, curr, new, history>>
      /\ live' \subseteq live
  BY DEF node
<1>b. \A t \in Threads : pc[t] = "idle" /\ calls[t] = MaxCalls
  BY DEF Coupled, InPlace
<1>c. Inserting = {} /\ Deleting = {} /\ List = serial
  <2>1. Inserting = {} /\ Deleting = {}
    BY <1>b DEF Inserting, Deleting
  <2> QED
    BY <2>1 DEF List
<1>1. walk = NULL \/ walk \in Nodes
  BY DEF Coupled, TypeOK
<1>2. main' \in {"join", "print"} =>
        main \in {"join", "print"} /\ List \cup {HeadNode} \subseteq live'
  BY DEF Coupled, ListSound, node
<1>2a. main' = "print" => walk' \in List \cup {NULL}
  <2>1. \A a \in List \cup {HeadNode} : next[a] \in List \cup {NULL}
    BY DEF Coupled, ListSound, Linked
  <2>2. CASE Join
    BY <2>1, <2>2
  <2>3. CASE PrintNode
    BY <2>1, <2>3 DEF Coupled, ListSound
  <2>4. CASE FreeList
    BY <2>4
  <2> QED
    BY <2>2, <2>3, <2>4
<1>3. Quiet
  BY <1>a, <1>b, <1>c, <1>2, <1>2a DEF Quiet, Inserting, Deleting, frame, history
<1>4. List' = List /\ ListSound' /\ HistorySound' /\ \A t \in Threads : Ordered(t)'
  BY <1>3, QuietStep
<1>5. TypeOK'
  <2> USE DEF Coupled, TypeOK, node, frame, history, Nodes
  <2>1. CASE Join
    BY <2>1
  <2>2. CASE PrintNode
    <3>1. walk # NULL => val[walk] \in Vals /\ walk \in Nodes
      BY <2>2, <1>1 DEF ListSound
    <3>2. printed' \in Seq(Vals)
      <4>1. printed \in Seq(Vals)
        OBVIOUS
      <4>2. walk # NULL => printed' = Append(printed, val[walk])
        BY <2>2
      <4>3. walk = NULL => printed' = printed
        BY <2>2
      <4> QED
        BY ONLY <3>1, <4>1, <4>2, <4>3
    <3>3. walk' \in Nodes \cup {NULL} /\ main' \in {"join", "print", "free", "end"}
      BY <2>2, <3>1
    <3> QED
      BY <2>2, <3>2, <3>3
  <2>3. CASE FreeList
    BY <2>3
  <2> QED
    BY <2>1, <2>2, <2>3
<1>6. Locked'
  <2>1. \A t \in Threads : Holds(t)' = Holds(t)
    BY <1>a DEF Holds
  <2> QED
    BY <1>a, <2>1, LockStays
<1>7. \A t \in Threads : NewOwned(t)' /\ InPlace(t)'
  BY <1>a, <1>b DEF NewOwned, InPlace, frame
<1>8. FindsAsExpected'
  BY <1>a, <1>b DEF FindsAsExpected
<1> QED
  BY <1>4, <1>5, <1>6, <1>7, <1>8 DEF Coupled

\* A thread works only while main waits for it.
LEMMA Working ==
  ASSUME Coupled, NEW t \in Threads, Thread(t)
  PROVE  main = "join" /\ main' = "join" /\ printed' = printed
<1>1. pc[t] # "idle" \/ calls[t] < MaxCalls
  BY DEF Thread, Call, Malloc, MallocFails, InsLock, InsLockCurr, Link, InsUnlockCurr,
         InsUnlock, DelLock, DelLockCurr, Step, Onward, Miss, Unlink, UnlockPrev, Free,
         Move
<1>2. calls[t] \in Nat /\ MaxCalls \in Nat
  BY LockCouplingAssumption DEF Coupled, TypeOK
<1>3. main = "join"
  BY <1>1, <1>2 DEF Coupled, InPlace
<1>4. UNCHANGED atMain
  BY DEF Thread, Call, Malloc, MallocFails, InsLock, InsLockCurr, Link, InsUnlockCurr,
         InsUnlock, DelLock, DelLockCurr, Step, Miss, Unlink, UnlockPrev, Free
<1> QED
  BY <1>3, <1>4 DEF atMain

\* What one thread does with its node: it comes from malloc or the list, and
\* goes to the list or to free.
LEMMA TakenStep ==
  ASSUME Coupled, NEW t \in Threads, Thread(t),
         NEW a \in live', a \notin List' \cup Taken(t)'
  PROVE  a \in live /\ a \notin List \cup Taken(t)
<1> USE DEF Move
<1>0. pc \in [Threads -> Labels] /\ new \in [Threads -> Addr \cup {NULL}]
  BY DEF Coupled, TypeOK
<1>1. CASE Call(t) \/ MallocFails(t) \/ InsLock(t) \/ DelLock(t) \/ Step(t)
  <2>1. List' = List
    BY <1>1, CallStep, MallocFailsStep, InsLockStep, DelLockStep, StepStep
  <2>2. live' = live
    BY <1>1 DEF Call, MallocFails, InsLock, DelLock, Step, node
  <2>3. CASE InsLock(t)
    <3>1. /\ pc[t] = "ins_lock" /\ new' = new
          /\ pc'[t] \in {"link", "ins_lock_curr"}
      BY <1>0, <2>3 DEF InsLock
    <3> QED
      BY <2>1, <2>2, <3>1 DEF Taken
  <2>4. CASE Call(t) \/ MallocFails(t) \/ DelLock(t) \/ Step(t)
    <3>1. pc[t] \in {"idle", "malloc", "del_lock", "step"}
      BY <2>4 DEF Call, MallocFails, DelLock, Step, Onward
    <3> QED
      BY <2>1, <2>2, <3>1 DEF Taken
  <2> QED
    BY <1>1, <2>3, <2>4
<1>2. CASE Locking(t)
  <2>1. List' = List
    BY <1>2, LockingStep
  <2>2. live' = live /\ new' = new /\ curr' = curr
    BY <1>2
    DEF Locking, InsLockCurr, InsUnlockCurr, InsUnlock, DelLockCurr, UnlockPrev, Miss
  <2>3. \/ pc[t] = "ins_lock_curr" /\ pc'[t] = "link"
        \/ pc[t] = "hit" /\ pc'[t] = "free"
        \/ pc[t] \in {"ins_unlock_curr", "ins_unlock", "del_lock_curr", "miss"}
    BY <1>0, <1>2
    DEF Locking, InsLockCurr, InsUnlockCurr, InsUnlock, DelLockCurr, UnlockPrev, Miss
  <2> QED
    BY <2>1, <2>2, <2>3 DEF Taken
<1>3. CASE Malloc(t)
  <2>1. List' = List
    BY <1>3, MallocStep
  <2>2. pc[t] = "malloc" /\ pc'[t] = "ins_lock"
    BY <1>0, <1>3 DEF Malloc
  <2>3. live' = live \cup {new'[t]}
    BY <1>0, <1>3 DEF Malloc
  <2> QED
    BY <2>1, <2>2, <2>3 DEF Taken
<1>4. CASE Link(t)
  <2>1. List' = List \cup {new[t]}
    BY <1>4, LinkStep
  <2>2. pc[t] = "link" /\ live' = live
    BY <1>4 DEF Link
  <2> QED
    BY <2>1, <2>2 DEF Taken
<1>5. CASE Unlink(t)
  <2>1. List' = List \ {curr[t]}
    BY <1>5, UnlinkStep
  <2>2. pc[t] = "unlink" /\ pc'[t] = "hit" /\ live' = live /\ curr' = curr
    BY <1>0, <1>5 DEF Unlink
  <2> QED
    BY <2>1, <2>2 DEF Taken
<1>6. CASE Free(t)
  <2>1. List' = List
    BY <1>6, FreeStep
  <2>2. pc[t] = "free" /\ live' = live \ {curr[t]}
    BY <1>6 DEF Free
  <2> QED
    BY <2>1, <2>2 DEF Taken
<1> QED
  BY <1>1, <1>2, <1>3, <1>4, <1>5, <1>6 DEF Thread, Locking

\* A thread neither loses a node nor takes another's.
LEMMA ThreadLeaksNothing ==
  ASSUME Coupled, NoLeak, PrintsList, NEW t \in Threads, Thread(t)
  PROVE  NoLeak' /\ PrintsList'
<1>1. main = "join" /\ main' = "join" /\ printed' = printed
  BY Working
<1>2. \A u \in Threads \ {t} : Taken(u)' = Taken(u)
  BY ThreadApart DEF Coupled, Apart, Taken
<1>3. ASSUME NEW a \in live', a \notin List' \cup {HeadNode} \cup Taken(t)'
      PROVE  \E u \in Threads \ {t} : a \in Taken(u)
  <2>1. a \in live /\ a \notin List \cup {HeadNode} \cup Taken(t)
    BY <1>3, TakenStep
  <2>2. PICK u \in Threads : a \in Taken(u)
    BY <1>1, <2>1 DEF NoLeak
  <2> QED
    BY <2>1, <2>2
<1>4. live' \subseteq List' \cup {HeadNode} \cup UNION {Taken(u)' : u \in Threads}
  <2> SUFFICES ASSUME NEW a \in live', a \notin List' \cup {HeadNode} \cup Taken(t)'
               PROVE  \E u \in Threads : a \in Taken(u)'
    OBVIOUS
  <2> QED
    BY <1>2, <1>3
<1>5. NoLeak'
  BY <1>1, <1>4 DEF NoLeak
<1>6. Passed = {} /\ Passed' = {}
  BY <1>1 DEF Passed
<1>7. PrintsList'
  BY <1>1, <1>6 DEF PrintsList
<1> QED
  BY <1>5, <1>7

\* main's threads have returned: nobody has a node of his own.
LEMMA AllReturned ==
  ASSUME Coupled, Main
  PROVE  /\ \A t \in Threads : Taken(t) = {}
         /\ List' = List /\ List = serial
         /\ \A a \in List : rank[a] \in Nat
         /\ IsFiniteSet(List) /\ NULL \notin List /\ HeadNode \notin List
         /\ \A a \in List \cup {HeadNode} : Linked(a)
         /\ UNCHANGED <<val, next, rank, serial>>
<1>1. \A t \in Threads : pc[t] = "idle"
  BY DEF Coupled, InPlace, Main, Join, PrintNode, FreeList
<1>2. List = serial
  <2>1. Inserting = {} /\ Deleting = {}
    BY <1>1 DEF Inserting, Deleting
  <2> QED
    BY <2>1 DEF List
<1>3. List' = List
  BY MainStep
<1>4. List \subseteq Addr /\ NULL \notin List /\ HeadNode \notin List
  BY Naming
<1>5. IsFiniteSet(List)
  BY <1>4, LockCouplingAssumption, FS_Subset
<1>6. UNCHANGED <<val, next, rank, serial>>
  BY DEF Main, Join, PrintNode, FreeList, node, history
<1> QED
  BY <1>1, <1>2, <1>3, <1>4, <1>5, <1>6 DEF Taken, Coupled, TypeOK, ListSound

\* Where a walk goes from a: the nodes behind a are the next one and those
\* behind it, and what comes before the next one is a and what comes before a.
LEMMA Onwards ==
  ASSUME Coupled, NEW a \in List \cup {HeadNode}, Linked(a)
  PROVE  /\ next[a] = NULL => {b \in List : Behind(b, a)} = {}
         /\ next[a] # NULL =>
              /\ next[a] \in List
              /\ {b \in List : Behind(b, a)}
                   = {next[a]} \cup {b \in List : Behind(b, next[a])}
<1>1. HeadNode \notin List /\ \A b \in List : rank[b] \in Nat
  BY Naming DEF Coupled, TypeOK
<1>2. CASE next[a] = NULL
  BY <1>2 DEF Linked
<1>3. CASE next[a] # NULL
  <2>1. next[a] \in List /\ Behind(next[a], a)
    BY <1>3 DEF Linked
  <2>2. ASSUME NEW b \in List, Behind(b, a)
        PROVE  b = next[a] \/ Behind(b, next[a])
    BY <2>2 DEF Linked, Behind
  <2>3. ASSUME NEW b \in List, Behind(b, next[a])
        PROVE  Behind(b, a)
    BY <1>1, <2>1, <2>3 DEF Behind
  <2> QED
    BY <1>3, <2>1, <2>2, <2>3
<1> QED
  BY <1>2, <1>3

\* main frees each node of the list and the head, one after the other.
LEMMA MainLeaksNothing ==
  ASSUME Coupled, NoLeak, Main
  PROVE  NoLeak'
<1> USE AllReturned
<1>1. CASE Join
  <2>1. main = "join" /\ main' = "print" /\ live' = live
    BY <1>1 DEF Join, node
  <2> QED
    BY <2>1 DEF NoLeak
<1>2. CASE PrintNode
  <2>1. main = "print" /\ live' = live /\ live \subseteq List \cup {HeadNode}
    BY <1>2 DEF PrintNode, NoLeak, node
  <2>2. CASE walk = NULL
    <3>1. main' = "free" /\ walk' = HeadNode
      BY <1>2, <2>2 DEF PrintNode
    <3>2. live = List \cup {HeadNode}
      BY <2>1 DEF Coupled, ListSound
    <3>3. HeadNode # NULL
      BY Naming
    <3> QED
      BY <2>1, <3>1, <3>2, <3>3 DEF NoLeak, Behind
  <2>3. CASE walk # NULL
    <3>1. main' = "print"
      BY <1>2, <2>3 DEF PrintNode
    <3> QED
      BY <2>1, <3>1 DEF NoLeak
  <2> QED
    BY <2>2, <2>3
<1>3. CASE FreeList
  <2>1. main = "free" /\ walk \in List \cup {HeadNode, NULL}
        /\ live = IF walk = NULL THEN {} ELSE {walk} \cup {a \in List : Behind(a, walk)}
    BY <1>3 DEF FreeList, NoLeak
  <2>2. CASE walk = NULL
    <3>1. main' = "end" /\ live' = live
      BY <1>3, <2>2 DEF FreeList
    <3> QED
      BY <2>1, <2>2, <3>1 DEF NoLeak
  <2>3. CASE walk # NULL
    <3>1. main' = "free" /\ walk' = next[walk] /\ live' = live \ {walk}
      BY <1>3, <2>1, <2>3 DEF FreeList
    <3>2. ~Behind(walk, walk) \/ walk \notin List
      BY DEF Behind
    <3>3. live' = {a \in List : Behind(a, walk)}
      BY <2>1, <2>3, <3>1, <3>2
    <3>4. /\ next[walk] = NULL => live' = {}
          /\ next[walk] # NULL =>
               /\ next[walk] \in List
               /\ live' = {next[walk]} \cup {b \in List : Behind(b, next[walk])}
      BY <2>1, <2>3, <3>3, Onwards
    <3>5. \A b \in List : Behind(b, walk)' <=> Behind(b, next[walk])
      BY <3>1 DEF Behind
    <3>6. {b \in List : Behind(b, walk)}' = {b \in List : Behind(b, next[walk])}
      BY <3>5
    <3>7. CASE next[walk] = NULL
      BY <3>1, <3>4, <3>7 DEF NoLeak
    <3>8. CASE next[walk] # NULL
      BY <3>1, <3>4, <3>6, <3>8 DEF NoLeak
    <3> QED
      BY <3>7, <3>8
  <2> QED
    BY <2>2, <2>3
<1> QED
  BY <1>1, <1>2, <1>3 DEF Main

\* A turn of list_print's loop appends the value of the next node.
LEMMA PrintStep ==
  ASSUME Coupled, PrintsList, PrintNode, walk # NULL
  PROVE  PrintsList'
<1>0. Main
  BY DEF Main
<1> USE AllReturned, <1>0
<1>1. /\ main = "print" /\ main' = "print" /\ walk' = next[walk]
      /\ printed' = Append(printed, val[walk])
  BY DEF PrintNode
<1>2. walk \in List /\ Linked(walk)
  BY <1>1 DEF Coupled, ListSound
<1>3. Passed = {a \in List : rank[walk] < rank[a]}
  BY <1>1 DEF Passed
<1>4. Passed' = IF next[walk] = NULL THEN List ELSE {a \in List : rank[next[walk]] < rank[a]}
  BY <1>1 DEF Passed
\* The node printed is the one after those that have been.
<1>5. ASSUME NEW a \in List
      PROVE  a \in Passed' <=> a \in Passed \cup {walk}
  <2>1. /\ next[walk] = NULL => ~Behind(a, walk)
        /\ next[walk] # NULL =>
             /\ next[walk] \in List
             /\ Behind(a, walk) <=> (a = next[walk] \/ Behind(a, next[walk]))
             /\ Behind(next[walk], walk)
    BY <1>2, Onwards
  <2>2. rank[a] = rank[walk] => a = walk
    BY <1>2 DEF Coupled, ListSound
  <2>3. Behind(a, walk) <=> rank[a] < rank[walk]
    BY <1>2 DEF Behind
  <2>4. CASE next[walk] = NULL
    BY <1>2, <1>3, <1>4, <2>1, <2>2, <2>3, <2>4
  <2>5. CASE next[walk] # NULL
    <3>1. /\ next[walk] \in List /\ rank[next[walk]] < rank[walk]
          /\ rank[a] < rank[walk] => a = next[walk] \/ rank[a] < rank[next[walk]]
      BY <1>2, <2>1, <2>3, <2>5 DEF Behind
    <3> QED
      BY <1>2, <1>3, <1>4, <2>2, <2>5, <3>1
  <2> QED
    BY <2>4, <2>5
<1>6. Passed' = Passed \cup {walk} /\ Passed \subseteq List /\ walk \notin Passed
  BY <1>2, <1>3, <1>4, <1>5
<1>7. IsFiniteSet(Passed) /\ Cardinality(Passed) \in Nat
      /\ Cardinality(Passed') = Cardinality(Passed) + 1
  BY <1>6, FS_Subset, FS_CardinalityType, FS_AddElement
<1>8. printed \in Seq(Vals) /\ val[walk] \in Vals
  BY <1>2 DEF Coupled, TypeOK, ListSound
<1>9. /\ Len(printed) = Cardinality(Passed)
      /\ \A a \in Passed : printed[Cardinality({b \in List : rank[a] <= rank[b]})] = val[a]
  BY DEF PrintsList
<1>10. /\ Len(printed') = Len(printed) + 1
       /\ printed'[Len(printed) + 1] = val[walk]
       /\ \A k \in 1 .. Len(printed) : printed'[k] = printed[k]
  BY <1>1, <1>8
<1>11. ASSUME NEW a \in Passed
       PROVE  Cardinality({b \in List : rank[a] <= rank[b]}) \in 1 .. Len(printed)
  <2> DEFINE before == {b \in List : rank[a] <= rank[b]}
  <2>1. before \subseteq Passed /\ a \in before
    BY <1>2, <1>3
  <2> HIDE DEF before
  <2>2. IsFiniteSet(before) /\ Cardinality(before) <= Cardinality(Passed)
    BY <1>7, <2>1, FS_Subset
  <2>3. Cardinality(before) \in Nat /\ Cardinality(before) # 0
    BY <2>1, <2>2, FS_CardinalityType, FS_EmptySet
  <2>4. Cardinality(before) \in 1 .. Len(printed)
    BY <1>7, <1>9, <2>2, <2>3
  <2> QED
    BY <2>4 DEF before
<1>12. Cardinality({b \in List : rank[walk] <= rank[b]}) = Len(printed) + 1
  <2>1. {b \in List : rank[walk] <= rank[b]} = Passed \cup {walk}
    BY <1>2, <1>3 DEF Coupled, ListSound
  <2> QED
    BY <1>6, <1>7, <1>9, <2>1
<1>13. \A a \in Passed' :
         printed'[Cardinality({b \in List : rank[a] <= rank[b]})] = val[a]
  BY <1>6, <1>9, <1>10, <1>11, <1>12
<1> QED
  BY <1>6, <1>7, <1>9, <1>10, <1>13 DEF PrintsList

\* The rest of main changes nothing of what is printed.
LEMMA MainPrintsList ==
  ASSUME Coupled, PrintsList, Main
  PROVE  PrintsList'
<1> USE AllReturned
<1>1. CASE Join
  <2>1. main = "join" /\ main' = "print" /\ walk' = next[HeadNode] /\ printed' = printed
    BY <1>1 DEF Join
  <2>2. Passed = {}
    BY <2>1 DEF Passed
  <2>3. /\ next[HeadNode] = NULL => List = {}
        /\ next[HeadNode] # NULL =>
             /\ next[HeadNode] \in List
             /\ List = {next[HeadNode]} \cup {b \in List : Behind(b, next[HeadNode])}
    BY Onwards DEF Behind
  <2>4. Passed' = {}
    <3>1. CASE next[HeadNode] = NULL
      BY <2>1, <2>3, <3>1 DEF Passed
    <3>2. CASE next[HeadNode] # NULL
      <4>1. \A a \in List : ~(rank[next[HeadNode]] < rank[a])
        BY <2>3, <3>2 DEF Behind
      <4>2. Passed' = {a \in List : rank[next[HeadNode]] < rank[a]}
        BY <2>1, <3>2 DEF Passed
      <4> QED
        BY <4>1, <4>2
    <3> QED
      BY <3>1, <3>2
  <2> QED
    BY <2>1, <2>2, <2>4 DEF PrintsList
<1>2. CASE PrintNode /\ walk # NULL
  BY <1>2, PrintStep
<1>3. CASE (PrintNode /\ walk = NULL) \/ FreeList
  <2>1. printed' = printed
    BY <1>3 DEF PrintNode, FreeList
  <2>2. \/ main = "print" /\ walk = NULL /\ main' = "free"
        \/ main = "free" /\ main' \in {"free", "end"}
    BY <1>3 DEF PrintNode, FreeList
  <2>3. Passed = List /\ Passed' = List
    BY <2>2 DEF Passed
  <2> QED
    BY <2>1, <2>3 DEF PrintsList
<1> QED
  BY <1>1, <1>2, <1>3 DEF Main

\* At the start the list is all that is allocated, and nothing is printed.
LEMMA AccountsInit == Init => NoLeak /\ PrintsList
<1> SUFFICES ASSUME Init PROVE NoLeak /\ PrintsList
  OBVIOUS
<1>1. live = {HeadNode} \cup serial
  BY DEF Init, Filled
<1>2. List = serial
  <2>1. Inserting = {} /\ Deleting = {}
    BY DEF Init, Inserting, Deleting
  <2> QED
    BY <2>1 DEF List
<1>3. main = "join" /\ printed = <<>>
  BY DEF Init
<1>4. Passed = {} /\ Cardinality(Passed) = 0
  BY <1>3, FS_EmptySet DEF Passed
<1> QED
  BY <1>1, <1>2, <1>3, <1>4 DEF NoLeak, PrintsList

\* Every step keeps the account of the nodes and of what is printed.
LEMMA AccountsStep ==
  ASSUME Coupled, NoLeak, PrintsList, [Next]_vars
  PROVE  NoLeak' /\ PrintsList'
<1>1. CASE \E t \in Threads : Thread(t)
  BY <1>1, ThreadLeaksNothing
<1>2. CASE Main
  BY <1>2, MainLeaksNothing, MainPrintsList
<1>3. CASE UNCHANGED vars
  <2>1. UNCHANGED <<live, val, next, pc, prev, curr, new, main, walk, printed, serial,
                    rank, target>>
    BY <1>3 DEF vars, node, atMain, history
  <2>2. List' = List
    BY <2>1 DEF List, Inserting, Deleting
  <2>3. NoLeak'
    BY <2>1, <2>2 DEF NoLeak, Taken, Behind
  <2>4. PrintsList'
    BY <2>1, <2>2 DEF PrintsList, Passed
  <2> QED
    BY <2>3, <2>4
<1> QED
  BY <1>1, <1>2, <1>3 DEF Next, Terminating

\* Whoever has a mutex that another waits for, and waits in turn, waits for a
\* node behind it.  The thread that is last in the list waits for nobody.
LEMMA NoRing ==
  Coupled => NoDeadlock
<1> SUFFICES ASSUME Coupled PROVE NoDeadlock
  OBVIOUS
<1>1. ASSUME NEW t \in Threads, ~Returned(t),
             \A u \in Threads : Returned(u) \/ Blocked(u)
      PROVE  FALSE
  <2>1. main = "join" /\ List \cup {HeadNode} \subseteq live
    BY <1>1 DEF Coupled, InPlace, Returned, ListSound
  <2> DEFINE Held == {a \in List : \E u \in Threads : a \in Holds(u)}
  <2>2. ASSUME NEW a \in List \cup {HeadNode}, mutex[a] # {}
        PROVE  next[a] \in Held /\ Behind(next[a], a)
    <3>1. PICK u \in Threads : u \in mutex[a]
      BY <2>1, <2>2 DEF Coupled, TypeOK
    <3>2. a \in Holds(u)
      BY <2>1, <3>1 DEF Coupled, Locked
    <3>3. pc[u] \in {"ins_lock_curr", "del_lock_curr"} /\ mutex[curr[u]] # {}
      <4>1. pc[u] \notin {"idle", "ins_lock", "del_lock"}
        BY <3>2 DEF Holds
      <4> QED
        BY <1>1, <4>1 DEF Returned, Blocked
    <3>4. prev[u] = a /\ curr[u] = next[a] /\ curr[u] # NULL
      BY <3>2, <3>3 DEF Holds, Coupled, InPlace
    <3>5. next[a] \in List /\ Behind(next[a], a)
      BY <3>4 DEF Coupled, ListSound, Linked
    <3>6. \E w \in Threads : next[a] \in Holds(w)
      BY <2>1, <3>3, <3>4, <3>5 DEF Coupled, TypeOK, Locked
    <3> QED
      BY <3>5, <3>6
  <2>3. Held # {}
    <3>1. CASE mutex[HeadNode] # {}
      BY <2>2, <3>1
    <3>2. CASE mutex[HeadNode] = {}
      <4>1. pc[t] \in {"ins_lock_curr", "del_lock_curr"} /\ mutex[curr[t]] # {}
        BY <1>1, <3>2 DEF Blocked
      <4>2. curr[t] \in List
        BY <4>1 DEF Coupled, InPlace, ListSound, Linked
      <4> QED
        BY <2>2, <4>1, <4>2
    <3> QED
      BY <3>1, <3>2
  <2>4. \A a \in Held : a \in List /\ mutex[a] # {} /\ rank[a] \in Nat
    BY <2>1, Naming DEF Coupled, Locked, TypeOK
  <2>5. \A a \in Held : next[a] \in Held /\ rank[next[a]] < rank[a]
    BY <2>2, <2>4, Naming DEF Behind
  <2>6. PICK a \in Held : \A b \in Held : rank[a] <= rank[b]
    <3> HIDE DEF Held
    <3> QED
      BY <2>3, <2>4, LastOf
  <2> QED
    BY <2>4, <2>5, <2>6
<1>2. ASSUME main = "print", walk # NULL
      PROVE  mutex[walk] = {}
  <2>1. walk \in live /\ \A t \in Threads : Holds(t) = {}
    BY <1>2 DEF Coupled, ListSound, InPlace, Holds
  <2> QED
    BY <2>1 DEF Coupled, TypeOK, Locked
<1> QED
  BY <1>1, <1>2 DEF NoDeadlock

\* SetToSeq names every address once.
LEMMA Addresses ==
  /\ SetToSeq(Addr) \in [1 .. Cardinality(Addr) -> Addr]
  /\ IsInjective(SetToSeq(Addr))
  /\ \A a \in Addr : \E k \in 1 .. Cardinality(Addr) : SetToSeq(Addr)[k] = a
<1> DEFINE size == Cardinality(Addr)
<1>1. IsFiniteSet(Addr)
  BY LockCouplingAssumption
<1>2. size \in Nat /\ ExistsBijection(1 .. size, Addr)
  BY <1>1, FS_CardinalityType
<1>3. PICK f \in [1 .. size -> Addr] : IsInjective(f)
  BY <1>2 DEF ExistsBijection, Bijection, Injection
<1>4. SetToSeq(Addr) \in [1 .. size -> Addr] /\ IsInjective(SetToSeq(Addr))
  BY <1>3 DEF SetToSeq
<1>5. SetToSeq(Addr) \in Surjection(1 .. size, Addr)
  <2>1. SetToSeq(Addr) \in Injection(1 .. size, Addr)
    BY <1>4 DEF Injection
  <2>2. Cardinality(1 .. size) = size
    BY <1>2, FS_Interval
  <2> QED
    BY <1>1, <2>1, <2>2, FS_Injection
<1> QED
  BY <1>4, <1>5 DEF Surjection

\* list_init, and any list that earlier calls have left.
LEMMA CoupledInit == Init => Coupled
<1> SUFFICES ASSUME Init PROVE Coupled
  OBVIOUS
<1> DEFINE addr == SetToSeq(Addr)
           size == Cardinality(Addr)
           place(a) == CHOOSE k \in DOMAIN addr : addr[k] = a
<1>0. size \in Nat
  BY LockCouplingAssumption, FS_CardinalityType
<1>1. PICK len \in 0 .. Longest : \E s \in [1 .. len -> Vals] : Filled(s)
  BY DEF Init
<1>2. PICK s \in [1 .. len -> Vals] : Filled(s)
  BY <1>1
<1>3. len \in Nat /\ len <= size /\ Len(s) = len
  BY <1>0, LockCouplingAssumption
<1>4. addr \in [1 .. size -> Addr] /\ DOMAIN addr = 1 .. size
  BY Addresses
<1>5. \A a \in Addr : place(a) \in 1 .. size /\ addr[place(a)] = a
  BY Addresses, <1>4
<1>6. \A k \in 1 .. size : place(addr[k]) = k
  BY <1>4, <1>5, Addresses DEF IsInjective
<1> DEFINE used == {a \in Addr : place(a) <= len}
           node_(k) == IF k <= len THEN addr[k] ELSE NULL
<1>7. /\ live = {HeadNode} \cup used
      /\ val = [a \in Addr |-> IF a \in used THEN s[place(a)] ELSE NULL]
      /\ next = [a \in Nodes |-> node_(IF a = HeadNode THEN 1 ELSE 1 + place(a))]
      /\ serial = used
      /\ rank = [a \in Addr |-> IF a \in used THEN 1 + len - place(a) ELSE 0]
  <2>1. Len(s) = len
    BY <1>3
  <2> QED
    BY <1>2, <2>1 DEF Filled
<1> HIDE DEF addr, size, place
<1>8. \A k \in 1 .. len : addr[k] \in used /\ k \in 1 .. size
  BY <1>0, <1>3, <1>4, <1>6
<1>9. \A k \in Nat \ {0} : node_(k) \in used \cup {NULL}
  BY <1>3, <1>8
<1> HIDE DEF used
<1>10. used \subseteq Addr /\ \A a \in used : place(a) \in 1 .. len /\ addr[place(a)] = a
  BY <1>3, <1>5 DEF used
<1>11. /\ \A a \in used : val[a] = s[place(a)] /\ rank[a] = 1 + len - place(a)
       /\ next[HeadNode] = node_(1)
       /\ \A a \in Addr : next[a] = node_(1 + place(a))
  BY <1>7, <1>10, LockCouplingAssumption DEF Nodes
<1>12. TypeOK
  <2>1. next \in [Nodes -> Addr \cup {NULL}]
    BY <1>5, <1>7, <1>9, <1>10 DEF Nodes
  <2>2. val \in [Addr -> Vals \cup {NULL}]
    BY <1>7, <1>10
  <2>3. rank \in [Addr -> Nat]
    <3>1. \A a \in used : 1 + len - place(a) \in Nat
      BY <1>3, <1>10
    <3> QED
      BY <1>7, <3>1
  <2>4. live \subseteq Nodes /\ serial \subseteq Addr
    BY <1>7, <1>10 DEF Nodes
  <2>5. mutex \in [Nodes -> SUBSET Threads]
    BY DEF Init
  <2>6. pc \in [Threads -> Labels] /\ calls \in [Threads -> 0 .. MaxCalls]
    BY LockCouplingAssumption DEF Init, Labels
  <2>7. printed \in Seq(Vals)
    BY DEF Init
  <2>8. /\ arg \in [Threads -> Vals \cup {NULL}]
        /\ prev \in [Threads -> Nodes \cup {NULL}]
        /\ curr \in [Threads -> Addr \cup {NULL}]
        /\ new \in [Threads -> Addr \cup {NULL}]
        /\ target \in [Threads -> Addr \cup {NULL}]
        /\ main \in {"join", "print", "free", "end"}
        /\ walk \in Nodes \cup {NULL}
    BY DEF Init
  <2> QED
    BY <2>1, <2>2, <2>3, <2>4, <2>5, <2>6, <2>7, <2>8 DEF TypeOK
<1>13. Inserting = {} /\ Deleting = {} /\ List = used
  BY <1>7 DEF Init, Inserting, Deleting, List
<1>14. ListSound
  <2>1. \A a \in List : val[a] \in Vals
    BY <1>10, <1>11, <1>13
  <2>2. \A a, b \in List : rank[a] = rank[b] => a = b
    BY <1>3, <1>10, <1>11, <1>13
  <2>3. ASSUME NEW a \in List \cup {HeadNode} PROVE Linked(a)
    <3> DEFINE at == IF a = HeadNode THEN 0 ELSE place(a)
    <3>1. at \in 0 .. len /\ next[a] = node_(1 + at)
      BY <1>3, <1>10, <1>11, <1>13
    <3>2. ASSUME next[a] # NULL
          PROVE  /\ 1 + at \in 1 .. len /\ next[a] = addr[1 + at] /\ next[a] \in used
                 /\ place(next[a]) = 1 + at
      BY <1>3, <1>6, <1>8, <3>1, <3>2
    <3>3. next[a] # NULL => Behind(next[a], a)
      BY <1>3, <1>10, <1>11, <1>13, <3>2 DEF Behind
    <3>4. ASSUME NEW b \in List, Behind(b, a)
          PROVE  next[a] # NULL /\ (b = next[a] \/ rank[b] < rank[next[a]])
      <4>1. place(b) \in 1 .. len /\ b = addr[place(b)] /\ rank[b] = 1 + len - place(b)
        BY <1>10, <1>11, <1>13
      <4>2. at < place(b)
        BY <1>3, <1>10, <1>11, <1>13, <3>1, <3>4, <4>1 DEF Behind
      <4>3. 1 + at \in 1 .. len /\ next[a] = addr[1 + at]
        BY <1>3, <3>1, <4>1, <4>2
      <4>4. next[a] # NULL
        BY <1>8, <1>10, <4>3, LockCouplingAssumption
      <4>5. rank[next[a]] = 1 + len - (1 + at)
        BY <1>11, <3>2, <4>4
      <4> QED
        BY <1>3, <3>1, <4>1, <4>2, <4>3, <4>4, <4>5
    <3> QED
      BY <1>13, <3>2, <3>3, <3>4 DEF Linked
  <2> QED
    BY <1>7, <1>13, <2>1, <2>2, <2>3 DEF ListSound, Init
<1>15. HistorySound
  BY <1>13 DEF HistorySound
<1>16. Locked
  BY <1>10, <1>7 DEF Locked, Holds, Init, Nodes
<1>17. FindsAsExpected /\ \A t \in Threads : NewOwned(t) /\ InPlace(t) /\ Ordered(t)
  BY <1>13 DEF FindsAsExpected, NewOwned, InPlace, Ordered, Init
<1> QED
  BY <1>12, <1>14, <1>15, <1>16, <1>17 DEF Coupled

\* Every step, one lemma for each.
LEMMA CoupledStep ==
  ASSUME Coupled, [Next]_vars
  PROVE  Coupled'
<1>1. ASSUME NEW t \in Threads, Thread(t)
      PROVE  Coupled'
  BY <1>1, CallStep, MallocStep, MallocFailsStep, InsLockStep, LockingStep,
     LinkStep, DelLockStep, StepStep, UnlinkStep, FreeStep DEF Thread, Locking
<1>2. CASE UNCHANGED vars
  <2>1. Quiet
    BY <1>2 DEF Quiet, Inserting, Deleting, vars, node, frame, atMain, history,
                Coupled, ListSound
  <2>2. List' = List /\ ListSound' /\ HistorySound' /\ \A t \in Threads : Ordered(t)'
    BY <2>1, QuietStep
  <2>3. Locked'
    BY <1>2 DEF vars, node, Coupled, Locked, Holds
  <2> QED
    BY <1>2, <2>2, <2>3
    DEF vars, node, frame, atMain, history, Coupled, TypeOK, FindsAsExpected,
        NewOwned, InPlace
<1> QED
  BY <1>1, <1>2, MainStep DEF Next, Terminating

(***************************************************************************)
(* The inductive invariant of lock_coupling.c holds in every behaviour,    *)
(* for any number of threads and of calls, any list they find and any      *)
(* finite heap; with it, no thread touches a node that has been freed,     *)
(* none is freed while another thread still needs it, and every node       *)
(* allocated is in the list or in the hands of one thread.                 *)
(***************************************************************************)
THEOREM ListInvariance == Spec => []Inv
<1> DEFINE IInv == Coupled /\ NoLeak /\ PrintsList
<1>1. Init => IInv
  BY CoupledInit, AccountsInit
<1>2. IInv /\ [Next]_vars => IInv'
  BY CoupledStep, AccountsStep
<1>3. IInv => Inv
  BY SafeNow, NoRing DEF Inv
<1> QED
  BY <1>1, <1>2, <1>3, PTL DEF Spec

(***************************************************************************)
(* When main ends it has freed every node, and has printed the values of   *)
(* the list that the order of the head's lock gives: as many as there are  *)
(* nodes, and each node's after those of the nodes before it.              *)
(***************************************************************************)
THEOREM NothingLost ==
  Spec => [](main = "end" =>
    /\ live = {}
    /\ Len(printed) = Cardinality(serial)
    /\ \A a \in serial :
         printed[Cardinality({b \in serial : rank[a] <= rank[b]})] = val[a])
<1>1. ASSUME Inv, main = "end"
      PROVE  /\ live = {}
             /\ Len(printed) = Cardinality(serial)
             /\ \A a \in serial :
                  printed[Cardinality({b \in serial : rank[a] <= rank[b]})] = val[a]
  <2>1. Passed = serial /\ List = serial
    BY <1>1 DEF Inv, PrintsList, Passed
  <2> QED
    BY <1>1, <2>1 DEF Inv, NoLeak, PrintsList
<1> QED
  BY <1>1, ListInvariance, PTL

-----------------------------------------------------------------------------

\* The number of addresses, and of steps of a call with its return at most.
Size == Cardinality(Addr)
Long == 2 * Size + 7

\* The nodes that a walk of t has still before it.
Rest(t) == {a \in List : Behind(a, prev[t])}

Walking(t) == pc[t] \in {"del_lock_curr", "step"}

\* The steps of a call that are not turns of list_delete's loop,
Chain(label) ==
  CASE label \in {"malloc", "del_lock"} -> 0
    [] label \in {"ins_lock", "del_lock_curr"} -> 1
    [] label \in {"ins_lock_curr", "step"} -> 2
    [] label \in {"link", "unlink", "miss"} -> 3
    [] label \in {"ins_unlock_curr", "hit"} -> 4
    [] label \in {"ins_unlock", "free"} -> 5
    [] label = "idle" -> 6

\* those that are, two for each node,
Walked(t) ==
  IF Walking(t) THEN 2 * (Size - Cardinality(Rest(t)))
  ELSE IF pc[t] \in {"unlink", "miss", "hit", "free", "idle"} THEN 2 * Size ELSE 0

\* and how far t is.
Place(t) == Chain(pc[t]) + Walked(t)

Places == [t \in Threads |-> Long * calls[t] + Place(t)]

\* How far main is: what it has printed, and what it has freed.
MainPlace ==
  CASE main = "join" -> 0
    [] main = "print" -> 1 + Len(printed)
    [] main = "free" -> 2 * Size + 3 - Cardinality(live)
    [] main = "end" -> 2 * Size + 4

Progress == Total(Places, Threads) + MainPlace

\* A walk has no more before it than there are nodes.
LEMMA RestSize ==
  ASSUME Coupled, NEW t
  PROVE  /\ IsFiniteSet(Rest(t)) /\ Size \in Nat
         /\ Cardinality(Rest(t)) \in 0 .. Size
<1>1. Rest(t) \subseteq Addr
  BY Naming DEF Rest
<1>2. IsFiniteSet(Addr)
  BY LockCouplingAssumption
<1>3. IsFiniteSet(Rest(t)) /\ Cardinality(Rest(t)) <= Cardinality(Addr)
  BY <1>1, <1>2, FS_Subset
<1>4. Cardinality(Rest(t)) \in Nat /\ Cardinality(Addr) \in Nat
  BY <1>2, <1>3, FS_CardinalityType
<1> QED
  BY <1>3, <1>4 DEF Size

LEMMA PlaceType ==
  ASSUME Coupled, NEW t \in Threads
  PROVE  /\ Chain(pc[t]) \in 0 .. 6 /\ Walked(t) \in 0 .. 2 * Size
         /\ Place(t) \in 0 .. 2 * Size + 6
<1>1. Chain(pc[t]) \in 0 .. 6
  BY DEF Coupled, TypeOK, Labels, Chain
<1>2. Size \in Nat /\ Cardinality(Rest(t)) \in 0 .. Size
  BY RestSize
<1>3. Walked(t) \in 0 .. 2 * Size
  BY <1>2 DEF Walked
<1> QED
  BY <1>1, <1>2, <1>3 DEF Place

\* A product, for the provers.
LEMMA Times ==
  ASSUME NEW k \in Nat, NEW c \in Nat, NEW m \in Nat, c <= m
  PROVE  k * c \in Nat /\ k * c <= k * m /\ k * (c + 1) = k * c + k
<1>1. (m - c) \in Nat /\ k * (m - c) \in Nat
  OBVIOUS
<1>2. k * (m - c) = k * m - k * c
  OBVIOUS
<1> QED
  BY <1>1, <1>2

LEMMA PlacesType ==
  ASSUME Coupled, NEW t \in Threads
  PROVE  Places[t] \in 0 .. Long * MaxCalls + 2 * Size + 6
<1>1. Size \in Nat /\ Long \in Nat
  BY RestSize DEF Long
<1>2. calls[t] \in Nat /\ MaxCalls \in Nat /\ calls[t] <= MaxCalls
  BY LockCouplingAssumption DEF Coupled, TypeOK
<1>3. /\ Long * calls[t] \in Nat /\ Long * MaxCalls \in Nat
      /\ Long * calls[t] <= Long * MaxCalls
  BY <1>1, <1>2, Times
<1>4. Place(t) \in 0 .. 2 * Size + 6
  BY PlaceType
<1> QED
  BY <1>1, <1>3, <1>4 DEF Places

LEMMA PlacesNext ==
  Coupled' =>
    /\ \A t \in Threads : Places'[t] \in 0 .. Long * MaxCalls + 2 * Size + 6
    /\ \A t \in Threads :
         /\ Cardinality(Rest(t))' \in 0 .. Size /\ Place(t)' \in 0 .. 2 * Size + 6
         /\ Chain(pc[t])' \in 0 .. 6 /\ Walked(t)' \in 0 .. 2 * Size
<1>1. Coupled =>
        /\ \A t \in Threads : Places[t] \in 0 .. Long * MaxCalls + 2 * Size + 6
        /\ \A t \in Threads :
             /\ Cardinality(Rest(t)) \in 0 .. Size /\ Place(t) \in 0 .. 2 * Size + 6
             /\ Chain(pc[t]) \in 0 .. 6 /\ Walked(t) \in 0 .. 2 * Size
  BY PlacesType, PlaceType, RestSize
<1>2. (Coupled =>
         /\ \A t \in Threads : Places[t] \in 0 .. Long * MaxCalls + 2 * Size + 6
         /\ \A t \in Threads :
              /\ Cardinality(Rest(t)) \in 0 .. Size /\ Place(t) \in 0 .. 2 * Size + 6
              /\ Chain(pc[t]) \in 0 .. 6 /\ Walked(t) \in 0 .. 2 * Size)'
  BY <1>1, PTL
<1> QED
  BY <1>2

\* The nodes keep their order; only a node that is linked comes in, at the head.
LEMMA ListMoves ==
  ASSUME Coupled, NEW t \in Threads, Thread(t)
  PROVE  /\ \A a \in List : rank'[a] = rank[a]
         /\ ~Link(t) => List' \subseteq List
         /\ Link(t) => List' = List \cup {new[t]} /\ rank' = rank
<1>1. CASE Link(t)
  BY <1>1, LinkStep DEF Link, history
<1>2. CASE ~Link(t)
  <2>1. List' \subseteq List
    BY <1>2, CallStep, MallocStep, MallocFailsStep, InsLockStep, LockingStep, DelLockStep,
       StepStep, UnlinkStep, FreeStep DEF Thread, Locking
  <2>2. CASE InsLock(t)
    <3>1. new[t] \notin List
      BY <2>2 DEF InsLock, Move, Coupled, NewOwned
    <3> QED
      BY <1>2, <2>1, <2>2, <3>1, Naming DEF InsLock, PutFirst, Coupled, TypeOK
  <2>3. CASE Free(t)
    <3>1. curr[t] \notin List
      BY <2>3 DEF Free, Move, Coupled, InPlace
    <3> QED
      BY <1>2, <2>1, <2>3, <3>1, Naming DEF Free, Coupled, TypeOK
  <2>4. CASE ~InsLock(t) /\ ~Free(t)
    <3>1. rank' = rank
      BY <1>2, <2>4
      DEF Thread, Call, Malloc, MallocFails, InsLockCurr, InsUnlockCurr, InsUnlock,
          DelLock, DelLockCurr, Step, Miss, Unlink, UnlockPrev, history
    <3> QED
      BY <1>2, <2>1, <3>1
  <2> QED
    BY <1>2, <2>1, <2>2, <2>3, <2>4
<1> QED
  BY <1>1, <1>2

\* Nothing comes between a walk of another thread and the end of the list.
LEMMA OthersRest ==
  ASSUME Coupled, NEW t \in Threads, Thread(t), NEW u \in Threads, u # t, Walking(u)
  PROVE  Rest(u)' \subseteq Rest(u)
<1>1. prev'[u] = prev[u]
  BY ThreadApart DEF Coupled, Apart
<1>2. prev[u] \in List \cup {HeadNode}
  BY DEF Walking, Coupled, InPlace
<1>3. ASSUME NEW a \in List, Behind(a, prev[u])'
      PROVE  Behind(a, prev[u])
  BY <1>1, <1>2, <1>3, ListMoves DEF Behind
<1>4. ASSUME Link(t), NEW a, a = new[t] PROVE ~Behind(a, prev[u])'
  <2>1. pc[t] = "link" /\ prev[t] = HeadNode
    BY <1>4 DEF Link, Move, Coupled, InPlace
  <2>2. HeadNode \in Holds(t) /\ HeadNode \notin Holds(u)
    BY <2>1, Naming DEF Holds, Coupled, Locked
  <2>3. prev[u] \in List
    BY <1>2, <2>2, Naming DEF Holds, Walking
  <2>4. rank[prev[u]] < rank[new[t]] /\ rank' = rank
    BY <1>4, <2>1, <2>3, ListMoves DEF Coupled, HistorySound, Inserting
  <2>5. rank[prev[u]] \in Nat /\ rank[new[t]] \in Nat
    BY <2>1, <2>3, Naming DEF Coupled, TypeOK, Inserting
  <2> QED
    BY <1>1, <1>4, <2>3, <2>4, <2>5, Naming DEF Behind
<1>5. \A a \in List' : a \in List \/ (Link(t) /\ a = new[t])
  <2>1. CASE Link(t)
    BY <2>1, ListMoves
  <2>2. CASE ~Link(t)
    BY <2>2, ListMoves
  <2> QED
    BY <2>1, <2>2
<1>6. \A a \in List' : Behind(a, prev[u])' => a \in List /\ Behind(a, prev[u])
  BY <1>3, <1>4, <1>5
<1> QED
  BY <1>6 DEF Rest

LEMMA OthersKeep ==
  ASSUME Coupled, Coupled', NEW t \in Threads, Thread(t), NEW u \in Threads, u # t
  PROVE  Places[u] <= Places'[u]
<1>1. pc'[u] = pc[u] /\ calls'[u] = calls[u]
  BY ThreadApart DEF Coupled, Apart
<1>2. Place(u) <= Place(u)'
  <2>1. CASE Walking(u)
    <3>1. Rest(u)' \subseteq Rest(u)
      BY <2>1, OthersRest
    <3>2. IsFiniteSet(Rest(u)) /\ Size \in Nat /\ Cardinality(Rest(u)) \in 0 .. Size
      BY RestSize
    <3>3. Cardinality(Rest(u)') <= Cardinality(Rest(u))
      BY <3>1, <3>2, FS_Subset
    <3>4. Cardinality(Rest(u)') \in 0 .. Size
      BY PlacesNext
    <3> QED
      BY <1>1, <2>1, <3>2, <3>3, <3>4, PlaceType DEF Place, Walked, Walking, Size
  <2>2. CASE ~Walking(u)
    <3>1. Place(u)' = Place(u)
      BY <1>1, <2>2 DEF Place, Walked, Walking, Size
    <3>2. Place(u) \in 0 .. 2 * Size + 6
      BY PlaceType
    <3> QED
      BY <3>1, <3>2
  <2> QED
    BY <2>1, <2>2
<1>3. Place(u) \in Int /\ Place(u)' \in Int
  BY PlaceType, PlacesNext, RestSize
<1>4. Long * calls[u] \in Int
  <2>1. Long \in Nat
    BY RestSize DEF Long
  <2>2. calls[u] \in Nat
    BY LockCouplingAssumption DEF Coupled, TypeOK
  <2> QED
    BY <2>1, <2>2
<1> QED
  BY <1>1, <1>2, <1>3, <1>4 DEF Places, Long, Size

\* A turn of list_delete's loop leaves one node less before it.
LEMMA StepPasses ==
  ASSUME Coupled, NEW t \in Threads, Step(t)
  PROVE  Cardinality(Rest(t)') = Cardinality(Rest(t)) - 1
<1>1. /\ pc[t] = "step" /\ prev' = [prev EXCEPT ![t] = curr[t]] /\ rank' = rank
      /\ List' = List
  BY StepStep DEF Step, Onward, Move, history
<1>2. /\ prev[t] \in List \cup {HeadNode} /\ curr[t] = next[prev[t]]
      /\ curr[t] # NULL /\ Linked(prev[t])
  BY <1>1 DEF Coupled, InPlace, ListSound
<1>3. /\ curr[t] \in List
      /\ Rest(t) = {curr[t]} \cup {b \in List : Behind(b, curr[t])}
  BY <1>2, Onwards DEF Rest
<1>4. prev'[t] = curr[t]
  BY <1>1 DEF Coupled, TypeOK
<1>5. Rest(t)' = {b \in List : Behind(b, curr[t])}
  BY <1>1, <1>4 DEF Rest, Behind
<1>6. curr[t] \notin Rest(t)'
  <2>1. curr[t] # HeadNode /\ rank[curr[t]] \in Nat
    BY <1>3, Naming DEF Coupled, TypeOK
  <2> QED
    BY <1>5, <2>1 DEF Behind
<1>7. Rest(t)' = Rest(t) \ {curr[t]} /\ curr[t] \in Rest(t)
  BY <1>3, <1>5, <1>6
<1> QED
  BY <1>7, RestSize, FS_RemoveElement

LEMMA OwnStep ==
  ASSUME Coupled, Coupled', NEW t \in Threads, Thread(t), ~Call(t)
  PROVE  calls'[t] = calls[t] /\ Place(t)' > Place(t)
<1>1. /\ Chain(pc[t]) \in 0 .. 6 /\ Walked(t) \in 0 .. 2 * Size
      /\ Chain(pc[t])' \in 0 .. 6 /\ Walked(t)' \in 0 .. 2 * Size /\ Size \in Nat
  BY PlaceType, PlacesNext, RestSize
<1>2. calls' = calls
  BY DEF Thread, Malloc, MallocFails, InsLock, InsLockCurr, Link, InsUnlockCurr,
         InsUnlock, DelLock, DelLockCurr, Step, Onward, Miss, Unlink, UnlockPrev, Free,
         frame
<1>3. pc \in [Threads -> Labels]
  BY DEF Coupled, TypeOK
<1> USE DEF Move
<1>4. CASE Malloc(t) \/ MallocFails(t) \/ InsLock(t)
  <2>1. \/ pc[t] = "malloc" /\ pc'[t] \in {"ins_lock", "idle"}
        \/ pc[t] = "ins_lock" /\ pc'[t] \in {"link", "ins_lock_curr"}
    BY <1>3, <1>4 DEF Malloc, MallocFails, InsLock
  <2>2. Chain(pc[t])' > Chain(pc[t]) /\ Walked(t) = 0
    BY <2>1 DEF Chain, Walked, Walking
  <2> QED
    BY <1>1, <1>2, <2>2 DEF Place
<1>5. CASE InsLockCurr(t) \/ Link(t) \/ InsUnlockCurr(t) \/ InsUnlock(t)
  <2>1. \/ pc[t] = "ins_lock_curr" /\ pc'[t] = "link"
        \/ pc[t] = "link" /\ pc'[t] \in {"ins_unlock", "ins_unlock_curr"}
        \/ pc[t] = "ins_unlock_curr" /\ pc'[t] = "ins_unlock"
        \/ pc[t] = "ins_unlock" /\ pc'[t] = "idle"
    BY <1>3, <1>5 DEF InsLockCurr, Link, InsUnlockCurr, InsUnlock
  <2>2. Chain(pc[t])' > Chain(pc[t]) /\ Walked(t) = 0
    BY <2>1 DEF Chain, Walked, Walking
  <2> QED
    BY <1>1, <1>2, <2>2 DEF Place
<1>6. CASE Unlink(t) \/ UnlockPrev(t) \/ Free(t) \/ Miss(t)
  <2>1. \/ pc[t] = "unlink" /\ pc'[t] = "hit"
        \/ pc[t] = "hit" /\ pc'[t] = "free"
        \/ pc[t] \in {"free", "miss"} /\ pc'[t] = "idle"
    BY <1>3, <1>6 DEF Unlink, UnlockPrev, Free, Miss
  <2>2. Chain(pc[t])' > Chain(pc[t])
    BY <2>1 DEF Chain
  <2>3. Walked(t) = 2 * Size /\ Walked(t)' = 2 * Size
    BY <2>1 DEF Walked, Walking, Size
  <2> QED
    BY <1>1, <1>2, <2>2, <2>3 DEF Place
<1>7. CASE DelLock(t)
  <2>1. pc[t] = "del_lock" /\ pc'[t] \in {"miss", "del_lock_curr"}
    BY <1>3, <1>7 DEF DelLock, Onward
  <2>2. Chain(pc[t])' > Chain(pc[t]) /\ Walked(t) = 0
    BY <2>1 DEF Chain, Walked, Walking
  <2> QED
    BY <1>1, <1>2, <2>2 DEF Place
<1>8. CASE DelLockCurr(t)
  <2>1. /\ pc[t] = "del_lock_curr" /\ pc'[t] \in {"unlink", "step"}
        /\ prev' = prev /\ rank' = rank
    BY <1>3, <1>8 DEF DelLockCurr, history
  <2>2. Chain(pc[t])' > Chain(pc[t])
    BY <2>1 DEF Chain
  <2>3. List' = List
    BY <1>8, LockingStep DEF Locking
  <2>4. Rest(t)' = Rest(t)
    BY <2>1, <2>3 DEF Rest, Behind
  <2>5. Walked(t)' = Walked(t) \/ Walked(t)' = 2 * Size
    BY <2>1, <2>4 DEF Walked, Walking, Size
  <2> QED
    BY <1>1, <1>2, <2>2, <2>5 DEF Place
<1>9. CASE Step(t)
  <2>1. pc[t] = "step" /\ pc'[t] \in {"miss", "del_lock_curr"}
    BY <1>3, <1>9 DEF Step, Onward
  <2>2. CASE pc'[t] = "miss"
    <3>1. Chain(pc[t]) = 2 /\ Chain(pc[t])' = 3 /\ Walked(t)' = 2 * Size
      BY <2>1, <2>2 DEF Chain, Walked, Walking, Size
    <3> QED
      BY <1>1, <1>2, <3>1 DEF Place
  <2>3. CASE pc'[t] = "del_lock_curr"
    <3>1. Chain(pc[t]) = 2 /\ Chain(pc[t])' = 1
      BY <2>1, <2>3 DEF Chain
    <3>2. /\ Walked(t) = 2 * (Size - Cardinality(Rest(t)))
          /\ Walked(t)' = 2 * (Size - Cardinality(Rest(t)'))
      BY <2>1, <2>3 DEF Walked, Walking, Size
    <3>3. Cardinality(Rest(t)') = Cardinality(Rest(t)) - 1
      BY <1>9, StepPasses
    <3>4. Cardinality(Rest(t)) \in Int
      BY RestSize
    <3> QED
      BY <1>1, <1>2, <3>1, <3>2, <3>3, <3>4 DEF Place
  <2> QED
    BY <2>1, <2>2, <2>3
<1> QED
  BY <1>4, <1>5, <1>6, <1>7, <1>8, <1>9 DEF Thread

LEMMA ThreadOnward ==
  ASSUME Coupled, Coupled', IsFiniteSet(Threads), NEW t \in Threads, Thread(t)
  PROVE  Total(Places', Threads) > Total(Places, Threads)
<1>1. Long \in Nat /\ Size \in Nat
  BY RestSize DEF Long
<1>2. calls[t] \in Nat /\ calls[t] <= MaxCalls /\ MaxCalls \in Nat
  BY LockCouplingAssumption DEF Coupled, TypeOK
<1>3. /\ Long * calls[t] \in Nat
      /\ Long * (calls[t] + 1) = Long * calls[t] + Long
  BY <1>1, <1>2, Times
<1>4. Place(t) \in 0 .. 2 * Size + 6 /\ Place(t)' \in 0 .. 2 * Size + 6
  BY PlaceType, PlacesNext
<1>5. Places[t] < Places'[t]
  <2>1. CASE Call(t)
    <3>1. calls'[t] = calls[t] + 1
      BY <2>1 DEF Call, Coupled, TypeOK
    <3>2. Places'[t] = Long * calls[t] + Long + Place(t)'
      BY <1>3, <3>1 DEF Places, Long, Size
    <3>3. Places[t] = Long * calls[t] + Place(t)
      BY DEF Places
    <3> QED
      BY <1>1, <1>3, <1>4, <3>2, <3>3 DEF Long
  <2>2. CASE ~Call(t)
    <3>1. calls'[t] = calls[t] /\ Place(t)' > Place(t)
      BY <2>2, OwnStep
    <3>2. Places'[t] = Long * calls[t] + Place(t)'
      BY <3>1 DEF Places, Long, Size
    <3>3. Places[t] = Long * calls[t] + Place(t)
      BY DEF Places
    <3> QED
      BY <1>3, <1>4, <3>1, <3>2, <3>3
  <2> QED
    BY <2>1, <2>2
<1>6. \A u \in Threads : Places[u] \in Int /\ Places'[u] \in Int
  BY PlacesType, PlacesNext
<1>7. \A u \in Threads : Places[u] <= Places'[u]
  <2>1. Places[t] \in Int /\ Places'[t] \in Int
    BY <1>6
  <2> QED
    BY <1>5, <2>1, OthersKeep
<1> QED
  BY <1>5, <1>6, <1>7, TotalGrows

\* main prints no more nodes than there are, and has those and the head to free.
LEMMA MainPlaceType ==
  Coupled /\ NoLeak /\ PrintsList =>
    /\ MainPlace \in 0 .. 2 * Size + 4
    /\ main = "print" => Len(printed) \in 0 .. Size
    /\ main = "free" => IsFiniteSet(live) /\ Cardinality(live) \in 0 .. Size + 1
<1> SUFFICES ASSUME Coupled, NoLeak, PrintsList
             PROVE  /\ MainPlace \in 0 .. 2 * Size + 4
                    /\ main = "print" => Len(printed) \in 0 .. Size
                    /\ main = "free" =>
                         IsFiniteSet(live) /\ Cardinality(live) \in 0 .. Size + 1
  OBVIOUS
<1>1. Size \in Nat /\ IsFiniteSet(Addr)
  BY RestSize, LockCouplingAssumption
<1>2. IsFiniteSet(List) /\ Cardinality(List) \in 0 .. Size
  <2>1. List \subseteq Addr
    BY Naming
  <2>2. IsFiniteSet(List) /\ Cardinality(List) <= Size
    BY <1>1, <2>1, FS_Subset DEF Size
  <2> QED
    BY <1>1, <2>2, FS_CardinalityType
<1>3. ASSUME main = "print" PROVE Len(printed) \in 0 .. Size
  <2>1. Passed \subseteq List
    BY <1>3 DEF Passed
  <2>2. IsFiniteSet(Passed) /\ Cardinality(Passed) <= Cardinality(List)
    BY <1>2, <2>1, FS_Subset
  <2>3. Cardinality(Passed) \in Nat
    BY <2>2, FS_CardinalityType
  <2> QED
    BY <1>1, <1>2, <2>2, <2>3 DEF PrintsList
<1>4. ASSUME main = "free"
      PROVE  IsFiniteSet(live) /\ Cardinality(live) \in 0 .. Size + 1
  <2>1. live \subseteq List \cup {HeadNode}
    BY <1>4 DEF NoLeak
  <2>2. /\ IsFiniteSet(List \cup {HeadNode})
        /\ Cardinality(List \cup {HeadNode}) = Cardinality(List) + 1
    BY <1>2, Naming, FS_AddElement
  <2>3. IsFiniteSet(live) /\ Cardinality(live) <= Cardinality(List) + 1
    BY <2>1, <2>2, FS_Subset
  <2>4. Cardinality(live) \in Nat
    BY <2>3, FS_CardinalityType
  <2> QED
    BY <1>1, <1>2, <2>3, <2>4
<1>5. main \in {"join", "print", "free", "end"}
  BY DEF Coupled, TypeOK
<1> QED
  BY <1>1, <1>3, <1>4, <1>5 DEF MainPlace

LEMMA MainOnward ==
  ASSUME Coupled, NoLeak, PrintsList, Coupled', NoLeak', PrintsList', Main
  PROVE  MainPlace' > MainPlace
<1>1. /\ MainPlace \in 0 .. 2 * Size + 4 /\ Size \in Nat
      /\ main = "print" => Len(printed) \in 0 .. Size
      /\ main = "free" => IsFiniteSet(live) /\ Cardinality(live) \in 0 .. Size + 1
  BY MainPlaceType, RestSize
<1>2. /\ main' = "print" => Len(printed)' \in 0 .. Size
      /\ main' = "free" => Cardinality(live)' \in 0 .. Size + 1
  <2>1. (Coupled /\ NoLeak /\ PrintsList =>
           /\ main = "print" => Len(printed) \in 0 .. Size
           /\ main = "free" => Cardinality(live) \in 0 .. Size + 1)'
    BY MainPlaceType, PTL
  <2> QED
    BY <2>1 DEF Size
<1>3. CASE Join
  <2>1. main = "join" /\ main' = "print"
    BY <1>3 DEF Join
  <2>2. MainPlace = 0 /\ MainPlace' = 1 + Len(printed)'
    BY <2>1 DEF MainPlace
  <2> QED
    BY <1>2, <2>1, <2>2
<1>4. CASE PrintNode /\ walk = NULL
  <2>1. main = "print" /\ main' = "free"
    BY <1>4 DEF PrintNode
  <2>2. MainPlace = 1 + Len(printed) /\ MainPlace' = 2 * Size + 3 - Cardinality(live)'
    BY <2>1 DEF MainPlace, Size
  <2> QED
    BY <1>1, <1>2, <2>1, <2>2
<1>5. CASE PrintNode /\ walk # NULL
  <2>1. main = "print" /\ main' = "print" /\ printed' = Append(printed, val[walk])
    BY <1>5 DEF PrintNode
  <2>2. walk \in List /\ val[walk] \in Vals /\ printed \in Seq(Vals)
    BY <1>5, <2>1 DEF Coupled, ListSound, TypeOK
  <2>3. Len(printed') = Len(printed) + 1
    BY <2>1, <2>2
  <2>4. MainPlace = 1 + Len(printed) /\ MainPlace' = 1 + Len(printed')
    BY <2>1 DEF MainPlace
  <2> QED
    BY <1>1, <2>1, <2>3, <2>4
<1>6. CASE FreeList /\ walk = NULL
  <2>1. main = "free" /\ main' = "end"
    BY <1>6 DEF FreeList
  <2>2. MainPlace = 2 * Size + 3 - Cardinality(live) /\ MainPlace' = 2 * Size + 4
    BY <2>1 DEF MainPlace, Size
  <2> QED
    BY <1>1, <2>1, <2>2
<1>7. CASE FreeList /\ walk # NULL
  <2>1. main = "free" /\ main' = "free" /\ live' = live \ {walk}
    BY <1>7 DEF FreeList
  <2>2. walk \in live
    BY <1>7, <2>1 DEF NoLeak
  <2>3. Cardinality(live') = Cardinality(live) - 1
    BY <1>1, <2>1, <2>2, FS_RemoveElement
  <2>4. /\ MainPlace = 2 * Size + 3 - Cardinality(live)
        /\ MainPlace' = 2 * Size + 3 - Cardinality(live')
    BY <2>1 DEF MainPlace, Size
  <2> QED
    BY <1>1, <2>1, <2>3, <2>4
<1> QED
  BY <1>3, <1>4, <1>5, <1>6, <1>7 DEF Main

(***************************************************************************)
(* No call and no loop goes on for ever: every step of a thread or of main *)
(* is one of a number that the threads, their calls and the addresses      *)
(* bound.  A walk of list_delete ends although others insert meanwhile,    *)
(* since a node is linked behind the head and never ahead of a walk; with  *)
(* NoDeadlock, the threads return and main frees the list.                 *)
(***************************************************************************)
THEOREM StepsRunOut ==
  IsFiniteSet(Threads) /\ Spec =>
    /\ [](Progress <= Cardinality(Threads) * (Long * MaxCalls + 2 * Size + 6)
                        + 2 * Size + 4)
    /\ [][Progress' > Progress]_vars
<1> SUFFICES ASSUME IsFiniteSet(Threads)
             PROVE  Spec =>
                      /\ [](Progress <= Cardinality(Threads) * (Long * MaxCalls + 2 * Size + 6)
                                          + 2 * Size + 4)
                      /\ [][Progress' > Progress]_vars
  OBVIOUS
<1> DEFINE Most == Long * MaxCalls + 2 * Size + 6
           Accounts == Coupled /\ NoLeak /\ PrintsList
<1>1. ASSUME Accounts
      PROVE  /\ Total(Places, Threads) \in Int /\ MainPlace \in Int
             /\ Progress <= Cardinality(Threads) * Most + 2 * Size + 4
  <2>1. Size \in Nat /\ Long \in Nat /\ MaxCalls \in Nat
    BY <1>1, RestSize, LockCouplingAssumption DEF Long
  <2>2. Most \in Nat
    <3>1. Long * MaxCalls \in Nat
      BY <2>1
    <3> QED
      BY <2>1, <3>1
  <2>3. \A t \in Threads : Places[t] \in 0 .. Most
    BY <1>1, PlacesType
  <2> HIDE DEF Most
  <2>4. Total(Places, Threads) \in 0 .. Cardinality(Threads) * Most
    BY <1>1, <2>2, <2>3, TotalWithin
  <2>5. MainPlace \in 0 .. 2 * Size + 4
    BY <1>1, MainPlaceType
  <2>6. Cardinality(Threads) * Most \in Int
    BY <1>1, <2>2, FS_CardinalityType
  <2> QED
    BY <2>1, <2>4, <2>5, <2>6 DEF Progress
<1>2. ASSUME Accounts, Accounts', Next, vars' # vars
      PROVE  Progress' > Progress
  <2>1. Total(Places, Threads) \in Int /\ MainPlace \in Int
    BY <1>1, <1>2
  <2>2. CASE \E t \in Threads : Thread(t)
    <3>1. PICK t \in Threads : Thread(t)
      BY <2>2
    <3>2. Total(Places', Threads) > Total(Places, Threads)
      BY <1>2, <3>1, ThreadOnward
    <3>3. MainPlace = 0 /\ MainPlace' = 0
      BY <1>2, <3>1, Working DEF MainPlace
    <3>4. Progress' = Total(Places', Threads) + 0 /\ Progress = Total(Places, Threads) + 0
      BY <3>3 DEF Progress
    <3>5. \A u \in Threads : Places'[u] \in Int
      BY <1>2, PlacesNext
    <3>6. Total(Places', Threads) \in Int
      BY <3>5, TotalInt
    <3> QED
      BY <2>1, <3>2, <3>4, <3>6
  <2>3. CASE Main
    <3>1. MainPlace' > MainPlace
      BY <1>2, <2>3, MainOnward
    <3>2. List' = List /\ UNCHANGED <<pc, calls, prev, rank>>
      BY <1>2, <2>3, MainStep DEF Main, Join, PrintNode, FreeList, history, frame
    <3>3. Places' = Places
      BY <3>2 DEF Places, Place, Walked, Walking, Rest, Behind, Long, Size
    <3>4. Progress' = Total(Places, Threads) + MainPlace'
      BY <3>3 DEF Progress
    <3>5. MainPlace' \in Int
      <4>1. (Coupled /\ NoLeak /\ PrintsList => MainPlace \in 0 .. 2 * Size + 4)'
        BY MainPlaceType, PTL
      <4>2. Size \in Nat
        BY <1>2, RestSize
      <4> QED
        BY <1>2, <4>1, <4>2 DEF Size
    <3> QED
      BY <2>1, <3>1, <3>4, <3>5 DEF Progress
  <2>4. CASE Terminating
    BY <1>2, <2>4 DEF Terminating
  <2> QED
    BY <1>2, <2>2, <2>3, <2>4 DEF Next
<1>3. Spec => []Accounts
  <2>1. Inv => Accounts
    BY DEF Inv
  <2> QED
    BY <2>1, ListInvariance, PTL
<1> HIDE DEF Accounts, Most
<1>4. /\ Accounts => Progress <= Cardinality(Threads) * Most + 2 * Size + 4
      /\ Accounts /\ Accounts' /\ [Next]_vars => [Progress' > Progress]_vars
  BY <1>1, <1>2
<1>5. Spec => /\ [](Progress <= Cardinality(Threads) * Most + 2 * Size + 4)
              /\ [][Progress' > Progress]_vars
  BY <1>3, <1>4, PTL DEF Spec
<1> QED
  BY <1>5 DEF Most

=============================================================================
