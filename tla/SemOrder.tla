------------------------------ MODULE SemOrder ------------------------------
(***************************************************************************)
(* sema/fork-join.c and sema/randezvous.c: semaphores that start at 0 put  *)
(* the lines of two threads in order.  In fork-join.c main waits for the   *)
(* child's post and returns; in randezvous.c child 1 posts s1 and waits    *)
(* for s2, child 2 waits for s1 and posts s2.                              *)
(***************************************************************************)
EXTENDS Unix

Printed(line) == [mem EXCEPT !.out = Append(@, line)]

-----------------------------------------------------------------------------
\* fork-join.c

ForkJoinInit ==
  Begin("fork_join", [main |-> "create", child |-> "new"],
        [s |-> 0, out |-> <<>>], <<>>)

ForkJoinCreate ==
  Create("fork_join", "main", "create", "wait", "child", "print")

ChildPrints == Compute("fork_join", "child", "print", "post", Printed("child"))

ChildPosts ==
  Compute("fork_join", "child", "post", "done", [mem EXCEPT !.s = @ + 1])

\* main returns after its line, which ends the process and the child.
ParentWaits ==
  /\ Compute("fork_join", "main", "wait", "print", [mem EXCEPT !.s = @ - 1])
  /\ mem.s > 0

ParentPrints == Compute("fork_join", "main", "print", "done", Printed("parent: end"))

ForkJoinMain == ForkJoinCreate \/ ParentWaits \/ ParentPrints
ForkJoinChild == ChildPrints \/ ChildPosts

-----------------------------------------------------------------------------
\* randezvous.c

Children == {"child 1", "child 2"}

Before(c) == <<c, "before">>
After(c) == <<c, "after">>

\* Mutant of RandezvousInit: s1 starts at 1.
RandezvousOpen ==
  Begin("randezvous",
        [p \in Children \cup {"main"} |-> IF p = "main" THEN "create1" ELSE "new"],
        [sem |-> [c \in Children |-> IF c = "child 1" THEN 1 ELSE 0],
         out |-> <<>>], <<>>)

\* sem[c] is the semaphore child c posts: s1 or s2.
RandezvousInit ==
  Begin("randezvous",
        [p \in Children \cup {"main"} |-> IF p = "main" THEN "create1" ELSE "new"],
        [sem |-> [c \in Children |-> 0], out |-> <<>>], <<>>)

Other(c) == IF c = "child 1" THEN "child 2" ELSE "child 1"

RandezvousMain ==
  \/ Create("randezvous", "main", "create1", "create2", "child 1", "print")
  \/ Create("randezvous", "main", "create2", "join1", "child 2", "print")
  \/ Join("randezvous", "main", "join1", "join2", "child 1")
  \/ Join("randezvous", "main", "join2", "done", "child 2")

\* Child 1 posts first; child 2 waits first.
PrintBefore(c) ==
  Compute("randezvous", c, "print", IF c = "child 1" THEN "post" ELSE "wait",
          Printed(Before(c)))

PostOwn(c) ==
  Compute("randezvous", c, "post", IF c = "child 1" THEN "wait" ELSE "after",
          [mem EXCEPT !.sem[c] = @ + 1])

WaitOther(c) ==
  /\ Compute("randezvous", c, "wait", IF c = "child 1" THEN "after" ELSE "post",
             [mem EXCEPT !.sem[Other(c)] = @ - 1])
  /\ mem.sem[Other(c)] > 0

PrintAfter(c) == Compute("randezvous", c, "after", "done", Printed(After(c)))

RandezvousChild(c) ==
  PrintBefore(c) \/ PostOwn(c) \/ WaitOther(c) \/ PrintAfter(c)

-----------------------------------------------------------------------------

SemOrderNext ==
  \/ ForkJoinMain \/ ForkJoinChild
  \/ RandezvousMain \/ \E c \in Children : RandezvousChild(c)

SemOrderFairness ==
  /\ WF_vars(ForkJoinMain) /\ WF_vars(ForkJoinChild)
  /\ WF_vars(RandezvousMain)
  /\ \A c \in Children : WF_vars(RandezvousChild(c))

SemOrderEnds ==
  \/ program = "fork_join" /\ Ended({"main"})
  \/ program = "randezvous" /\ Ended(Children \cup {"main"})

\* In the output, line b is preceded by line a.
Precedes(a, b) ==
  \A n \in DOMAIN mem.out :
    mem.out[n] = b => \E m \in 1 .. n - 1 : mem.out[m] = a

(***************************************************************************)
(* fork-join.c: the parent's last line comes after the child's.            *)
(* randezvous.c: no child prints "after" before both have printed          *)
(* "before" (randezvous.c:11, :16, :23, :30).                              *)
(***************************************************************************)
LinesInOrder ==
  /\ program = "fork_join" => Precedes("child", "parent: end")
  /\ program = "randezvous" =>
       \A c, d \in Children : Precedes(Before(c), After(d))

=============================================================================
