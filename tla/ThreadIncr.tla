----------------------------- MODULE ThreadIncr -----------------------------
(***************************************************************************)
(* POSIXthreads-sync/thread_incr.c: two threads add to glob without a lock.*)
(* loc = glob; loc++; glob = loc is a load and a store on any build; a     *)
(* store may bury what the other thread has done since the load.           *)
(***************************************************************************)
EXTENDS Unix

CONSTANT Loops   \* atoi(argv[1])

ASSUME LoopsAssumption == Loops \in Nat

Adders == {"t1", "t2"}

ThreadIncrInit ==
  Begin("thread_incr",
        [t1 |-> "new", t2 |-> "new", main |-> "create1"],
        [glob |-> 0, loc |-> [t \in Adders |-> 0], j |-> [t \in Adders |-> 0]],
        <<>>)

Enter == IF Loops > 0 THEN "load" ELSE "done"

CreateAdders ==
  \/ Create("thread_incr", "main", "create1", "create2", "t1", Enter)
  \/ Create("thread_incr", "main", "create2", "join1", "t2", Enter)

\* Mutant of JoinAdders: main does not wait for the second thread.
JoinOne ==
  \/ Join("thread_incr", "main", "join1", "join2", "t1")
  \/ Goto("thread_incr", "main", "join2", "done")

\* Afterwards main prints glob.
JoinAdders ==
  \/ Join("thread_incr", "main", "join1", "join2", "t1")
  \/ Join("thread_incr", "main", "join2", "done", "t2")

LoadGlob(t) ==
  Compute("thread_incr", t, "load", "store", [mem EXCEPT !.loc[t] = mem.glob])

StoreGlob(t) ==
  Compute("thread_incr", t, "store",
          IF mem.j[t] + 1 < Loops THEN "load" ELSE "done",
          [mem EXCEPT !.glob = mem.loc[t] + 1, !.j[t] = @ + 1])

ThreadIncrMain == CreateAdders \/ JoinAdders
ThreadIncrAdder(t) == LoadGlob(t) \/ StoreGlob(t)

ThreadIncrNext == ThreadIncrMain \/ \E t \in Adders : ThreadIncrAdder(t)

ThreadIncrFairness ==
  WF_vars(ThreadIncrMain) /\ \A t \in Adders : WF_vars(ThreadIncrAdder(t))

ThreadIncrEnds == program = "thread_incr" /\ Ended({"main", "t1", "t2"})

(***************************************************************************)
(* What the last line (thread_incr.c:64) can print: at most the 2 * loops  *)
(* of two threads that never meet, and at least 2, however the two threads *)
(* interleave, once each of them goes round twice.                         *)
(***************************************************************************)
GlobWithinBounds ==
  program = "thread_incr" /\ pc["main"] = "done"
    => mem.glob \in (IF Loops < 2 THEN Loops ELSE 2) .. 2 * Loops

=============================================================================
