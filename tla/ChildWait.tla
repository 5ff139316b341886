----------------------------- MODULE ChildWait -----------------------------
(***************************************************************************)
(* child-process-monitoring/make_zombie_sync.c, procres/rusage_child_wait.c*)
(* and process-execution/27_6.c: a parent blocks the signal that tells it  *)
(* of its child before it forks.  make_zombie_sync waits in sigsuspend for *)
(* the SIGCHLD of the child's exit, sends SIGKILL to the zombie, reaps it  *)
(* and runs a shell; rusage_child_wait waits in sigsuspend for the child's *)
(* SIGUSR1; 27_6 only waits, its child runs a shell, and SIGCHLD is let    *)
(* through afterwards.  The exit of a shell is a SIGCHLD too, for the task *)
(* that called system.                                                     *)
(***************************************************************************)
EXTENDS Unix

WaitPrograms == {"make_zombie_sync", "rusage_child_wait", "27_6"}

\* The signal the program blocks and handles.
Awaited(name) == IF name = "rusage_child_wait" THEN "SIGUSR1" ELSE "SIGCHLD"

\* The task that calls system.
Sheller(name) == IF name = "27_6" THEN "child" ELSE "parent"

ChildWaitInit ==
  \E name \in WaitPrograms :
    Begin(name, [parent |-> "block", child |-> "new", shell |-> "new"],
          [handled |-> 0], <<>>)

\* Mutant of ReapShell: the SIGCHLD of the shell is taken back with it.
ReapSilently(name) ==
  /\ program = name
  /\ pc[Sheller(name)] = "await_shell" /\ pc["shell"] = "zombie"
  /\ pc' = [pc EXCEPT ![Sheller(name)] = IF name = "27_6" THEN "exit" ELSE "unblock",
                      !["shell"] = "done"]
  /\ pending' = [pending EXCEPT ![Sheller(name)] = {}]
  /\ UNCHANGED <<program, mem, mask, queue>>

\* Mutant of BlockAwaited: the signal is not blocked.
BlockNothing(name) == Goto(name, "parent", "block", "fork")

\* sigprocmask and the sigaction beside it.
BlockAwaited(name) == Block(name, "parent", "block", "fork", {Awaited(name)})

ForkChild(name) ==
  Fork(name, "parent", "fork", IF name = "27_6" THEN "wait" ELSE "suspend",
       "child", CASE name = "rusage_child_wait" -> "kill"
                  [] name = "make_zombie_sync" -> "exit"
                  [] name = "27_6" -> "system")

\* kill(getppid(), SIGUSR1)
ChildKills ==
  Kill("rusage_child_wait", "child", "kill", "exit", "parent", "SIGUSR1")

\* Exiting sends SIGCHLD, which rusage_child_wait ignores by default.
ChildExits(name) ==
  \/ Goto(name, "child", "exit", "zombie") /\ Awaited(name) # "SIGCHLD"
  \/ /\ Kill(name, "child", "exit", "zombie", "parent", "SIGCHLD")
     /\ Awaited(name) = "SIGCHLD"

\* sigsuspend(&emptyMask)
SuspendParent(name) == Block(name, "parent", "suspend", "suspended", {})

\* The handler runs to its end; sigsuspend then returns.
RunHandler(name) ==
  /\ program = name
  /\ Awaited(name) \in Deliverable("parent")
  /\ pc' = [pc EXCEPT !["parent"] = IF @ = "suspended" THEN "resume" ELSE @]
  /\ pending' = [pending EXCEPT !["parent"] = @ \ {Awaited(name)}]
  /\ mem' = [mem EXCEPT !.handled = @ + 1]
  /\ UNCHANGED <<program, mask, queue>>

ResumeParent(name) ==
  Block(name, "parent", "resume",
        IF name = "make_zombie_sync" THEN "kill" ELSE "wait", {Awaited(name)})

\* SIGKILL has no effect on a zombie.
KillZombie == Goto("make_zombie_sync", "parent", "kill", "wait")

\* wait or waitpid
ReapChild(name) ==
  Wait(name, "parent", "wait",
       CASE name = "rusage_child_wait" -> "exit"
         [] name = "make_zombie_sync" -> "system"
         [] name = "27_6" -> "unblock", {"child"})

\* system(3) forks a shell and waits for it.  It blocks SIGCHLD meanwhile,
\* which both callers have blocked already; reaping the shell does not take
\* back the SIGCHLD of its exit.
ForkShell(name) ==
  /\ name # "rusage_child_wait"
  /\ Fork(name, Sheller(name), "system", "await_shell", "shell", "exit")

ShellExits(name) ==
  Kill(name, "shell", "exit", "zombie", Sheller(name), "SIGCHLD")

ReapShell(name) ==
  Wait(name, Sheller(name), "await_shell",
       IF name = "27_6" THEN "exit" ELSE "unblock", {"shell"})

UnblockAwaited(name) == Block(name, "parent", "unblock", "exit", {})

\* sigprocmask delivers what it unblocks before it returns.
ParentExits(name) ==
  /\ Goto(name, "parent", "exit", "done")
  /\ Deliverable("parent") = {}

WaitingParent ==
  \/ KillZombie
  \/ \E name \in WaitPrograms :
       \/ BlockAwaited(name) \/ ForkChild(name) \/ SuspendParent(name)
       \/ RunHandler(name) \/ ResumeParent(name) \/ ReapChild(name)
       \/ UnblockAwaited(name) \/ ParentExits(name)

AwaitedChild == ChildKills \/ \E name \in WaitPrograms : ChildExits(name)

Shell ==
  \E name \in WaitPrograms : ForkShell(name) \/ ShellExits(name) \/ ReapShell(name)

ChildWaitNext == WaitingParent \/ AwaitedChild \/ Shell

ChildWaitFairness ==
  WF_vars(WaitingParent) /\ WF_vars(AwaitedChild) /\ WF_vars(Shell)

ChildWaitEnds == program \in WaitPrograms /\ Ended({"parent", "child"})

(***************************************************************************)
(* The child's signal waits for the parent.  make_zombie_sync.c: the child *)
(* is a zombie when SIGKILL is sent to it ("After sending SIGKILL to       *)
(* zombie", :63), and the handler, which its author waits for once, runs a *)
(* second time for the shell of system, when SIGCHLD is unblocked at :67   *)
(* and not before.  27_6.c: the handler runs after "wait is end", and once *)
(* although a shell has exited too, which is the child's child.            *)
(***************************************************************************)
ChildSignalKept ==
  program \in WaitPrograms =>
    /\ program = "make_zombie_sync" /\ pc["parent"] \in {"kill", "wait"}
         => pc["child"] = "zombie"
    /\ program = "27_6" /\ mem.handled # 0 => pc["parent"] \in {"exit", "done"}
    /\ program = "make_zombie_sync" /\ pc["parent"] \in {"kill", "wait", "system",
                                                        "await_shell", "unblock"}
         => mem.handled = 1
    /\ pc["parent"] = "done"
         => mem.handled = IF program = "make_zombie_sync" THEN 2 ELSE 1

=============================================================================
