------------------------------ MODULE Sigmask ------------------------------
(***************************************************************************)
(* POSIXthreads-further-details/independant_thrd_sigmask.c: each of two    *)
(* threads blocks a signal of its own, tells main so, and waits until main *)
(* has sent the signal to it; then it prints what is pending for it.  Both *)
(* handshakes are a flag under a mutex and a condition variable.           *)
(*                                                                         *)
(* A task asleep in pthread_cond_wait is at label "asleep"; a wakeup,      *)
(* signalled or spurious, takes it to "relock".                            *)
(***************************************************************************)
EXTENDS Unix

CONSTANT MaxSpurious   \* bound on the wakeups nobody sent

ASSUME SpuriousAssumption == MaxSpurious \in Nat

Thrds == {"t1", "t2"}

Sig(t) == IF t = "t1" THEN "SIGUSR1" ELSE "SIGUSR2"

SigmaskInit ==
  Begin("sigmask", [t1 |-> "new", t2 |-> "new", main |-> "create"],
        [mtx |-> [t \in Thrds |-> {}], turn |-> "t1", spurious |-> 0,
         blocked |-> [t \in Thrds |-> FALSE], sent |-> [t \in Thrds |-> FALSE],
         report |-> [t \in Thrds |-> {}]],
        <<>>)

Take(t, p) == [mem EXCEPT !.mtx[t] = {p}]
Release(t) == [mem EXCEPT !.mtx[t] = {}]

-----------------------------------------------------------------------------
\* thrdFunc1 and thrdFunc2

BlockOwn(t) == Block("sigmask", t, "mask", "lock", {Sig(t)})

LockOwn(t) ==
  /\ \/ Compute("sigmask", t, "lock", "publish", Take(t, t))
     \/ Compute("sigmask", t, "lock2", "test", Take(t, t))
     \/ Compute("sigmask", t, "relock", "test", Take(t, t))
  /\ mem.mtx[t] = {}

\* Mutant of PublishBlocked: main is not signalled.
PublishSilently(t) ==
  Compute("sigmask", t, "publish", "unlock", [mem EXCEPT !.blocked[t] = TRUE])

\* The flag and the signal, both inside the mutex: main is woken if it sleeps
\* on this thread's condition.
PublishBlocked(t) ==
  /\ program = "sigmask" /\ pc[t] = "publish"
  /\ pc' = [pc EXCEPT ![t] = "unlock",
                      !["main"] = IF @ = "asleep" /\ mem.turn = t
                                  THEN "relock" ELSE @]
  /\ mem' = [mem EXCEPT !.blocked[t] = TRUE]
  /\ UNCHANGED <<program, kernel>>

UnlockOwn(t) ==
  \/ Compute("sigmask", t, "unlock", "lock2", Release(t))
  \/ Compute("sigmask", t, "unlock2", "pending", Release(t))

\* while (SigSent == FALSE) pthread_cond_wait
TestSent(t) ==
  \/ Goto("sigmask", t, "test", "unlock2") /\ mem.sent[t]
  \/ Compute("sigmask", t, "test", "asleep", Release(t)) /\ ~mem.sent[t]

\* sigpending and printSigset
Report(t) ==
  Compute("sigmask", t, "pending", "done", [mem EXCEPT !.report[t] = pending[t]])

Thrd(t) ==
  \/ BlockOwn(t) \/ LockOwn(t) \/ PublishBlocked(t) \/ UnlockOwn(t)
  \/ TestSent(t) \/ Report(t)

-----------------------------------------------------------------------------
\* main, which does each thing for one thread and then for the other: the
\* thread is turn.

After2(again, next) == IF mem.turn = "t1" THEN again ELSE next

Turned(variables) ==
  [variables EXCEPT !.turn = IF @ = "t1" THEN "t2" ELSE "t1"]

CreateThrd ==
  /\ program = "sigmask" /\ pc["main"] = "create"
  /\ pc' = [pc EXCEPT !["main"] = After2("create", "lock"), ![mem.turn] = "mask"]
  /\ mem' = Turned(mem)
  /\ UNCHANGED <<program, kernel>>

\* Mutant of LockFor: if for while, a main that has slept does not test again.
LockForIf ==
  /\ \/ Compute("sigmask", "main", "lock", "test", Take(mem.turn, "main"))
     \/ Compute("sigmask", "main", "relock", "unlock", Take(mem.turn, "main"))
     \/ Compute("sigmask", "main", "lock2", "publish", Take(mem.turn, "main"))
  /\ mem.mtx[mem.turn] = {}

LockFor ==
  /\ \/ Compute("sigmask", "main", "lock", "test", Take(mem.turn, "main"))
     \/ Compute("sigmask", "main", "relock", "test", Take(mem.turn, "main"))
     \/ Compute("sigmask", "main", "lock2", "publish", Take(mem.turn, "main"))
  /\ mem.mtx[mem.turn] = {}

\* while (SigBlockCompleted == FALSE) pthread_cond_wait
TestBlocked ==
  \/ Goto("sigmask", "main", "test", "unlock") /\ mem.blocked[mem.turn]
  \/ /\ Compute("sigmask", "main", "test", "asleep", Release(mem.turn))
     /\ ~mem.blocked[mem.turn]

KillThrd ==
  /\ Step("sigmask", "main", "kill", After2("kill", "lock2"))
  /\ pending' = [pending EXCEPT ![mem.turn] = @ \cup {Sig(mem.turn)}]
  /\ mem' = Turned(mem)
  /\ UNCHANGED <<mask, queue>>

PublishSent ==
  /\ program = "sigmask" /\ pc["main"] = "publish"
  /\ pc' = [pc EXCEPT !["main"] = "unlock2",
                      ![mem.turn] = IF @ = "asleep" THEN "relock" ELSE @]
  /\ mem' = [mem EXCEPT !.sent[mem.turn] = TRUE]
  /\ UNCHANGED <<program, kernel>>

UnlockFor ==
  \/ Compute("sigmask", "main", "unlock", After2("lock", "kill"),
             Turned(Release(mem.turn)))
  \/ Compute("sigmask", "main", "unlock2", After2("lock2", "join"),
             Turned(Release(mem.turn)))

JoinThrd ==
  /\ Compute("sigmask", "main", "join", After2("join", "done"), Turned(mem))
  /\ pc[mem.turn] = "done"

SigmaskMain ==
  \/ CreateThrd \/ LockFor \/ TestBlocked \/ KillThrd \/ PublishSent
  \/ UnlockFor \/ JoinThrd

\* pthread_cond_wait may return although nobody signalled, at most MaxSpurious
\* times.
SpuriousWakeup ==
  \E p \in Thrds \cup {"main"} :
    /\ Compute("sigmask", p, "asleep", "relock", [mem EXCEPT !.spurious = @ + 1])
    /\ mem.spurious < MaxSpurious

SigmaskNext == SigmaskMain \/ (\E t \in Thrds : Thrd(t)) \/ SpuriousWakeup

SigmaskFairness == WF_vars(SigmaskMain) /\ \A t \in Thrds : WF_vars(Thrd(t))

SigmaskEnds == program = "sigmask" /\ Ended({"main", "t1", "t2"})

(***************************************************************************)
(* No signal reaches a thread that does not block it, which would kill the *)
(* process, and each thread prints its own signal and no other             *)
(* (independant_thrd_sigmask.c:42, :67).                                   *)
(***************************************************************************)
OwnSignalPending ==
  program = "sigmask" =>
    \A t \in Thrds :
      /\ Deliverable(t) = {}
      /\ pc[t] = "done" => mem.report[t] = {Sig(t)}

=============================================================================
