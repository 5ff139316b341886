---------------------------- MODULE OneTimeInit ----------------------------
(***************************************************************************)
(* POSIXthreads-thrdsf-lclstrg/one_time_init.c: a pthread_once of its own. *)
(* A thread that calls one_time_init runs init_routine if nobody has, and  *)
(* otherwise returns only after it has run, since the mutex is held over   *)
(* the routine.                                                            *)
(***************************************************************************)
EXTENDS Unix

CONSTANT Callers   \* the threads that run thread_routine

ASSUME CallersAssumption == "main" \notin Callers

OneTimeInitInit ==
  Begin("one_time_init",
        [t \in Callers \cup {"main"} |-> IF t = "main" THEN "create" ELSE "new"],
        [mtx |-> {}, flg |-> FALSE, routine |-> 0], <<>>)

CreateCaller(t) ==
  Create("one_time_init", "main", "create", "create", t, "lock")
  /\ pc[t] = "new"

\* main joins every thread and exits.
JoinCallers ==
  Goto("one_time_init", "main", "create", "done") /\ Ended(Callers)

\* Mutant of LockOnce: the lock is not waited for.
EnterOnce(t) == Goto("one_time_init", t, "lock", "test")

LockOnce(t) ==
  /\ Compute("one_time_init", t, "lock", "test", [mem EXCEPT !.mtx = {t}])
  /\ mem.mtx = {}

\* if (once_control->flg == FALSE)
TestFlag(t) ==
  Goto("one_time_init", t, "test", IF mem.flg THEN "unlock" ELSE "routine")

\* init_routine returns: routine counts the calls that have.
RunRoutine(t) ==
  Compute("one_time_init", t, "routine", "set", [mem EXCEPT !.routine = @ + 1])

SetFlag(t) ==
  Compute("one_time_init", t, "set", "unlock", [mem EXCEPT !.flg = TRUE])

\* Afterwards the thread exits.
UnlockOnce(t) ==
  Compute("one_time_init", t, "unlock", "done", [mem EXCEPT !.mtx = @ \ {t}])

Caller(t) ==
  LockOnce(t) \/ TestFlag(t) \/ RunRoutine(t) \/ SetFlag(t) \/ UnlockOnce(t)

OneTimeInitMain == (\E t \in Callers : CreateCaller(t)) \/ JoinCallers

OneTimeInitNext == OneTimeInitMain \/ \E t \in Callers : Caller(t)

OneTimeInitFairness ==
  WF_vars(OneTimeInitMain) /\ \A t \in Callers : WF_vars(Caller(t))

OneTimeInitEnds == program = "one_time_init" /\ Ended(Callers \cup {"main"})

(***************************************************************************)
(* init_routine runs once, and nobody returns from one_time_init           *)
(* (one_time_init.c:15-37) before it has.                                  *)
(***************************************************************************)
OnceBeforeUse ==
  program = "one_time_init" =>
    /\ mem.routine \in {0, 1}
    /\ \A t \in Callers : pc[t] \in {"unlock", "done"} => mem.routine = 1

=============================================================================
