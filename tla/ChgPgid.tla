------------------------------ MODULE ChgPgid ------------------------------
(***************************************************************************)
(* pgrps-sessions-taskmngmnt/chg_pgid_for_diff_descendants.c and helper.c: *)
(* a parent shows that it can change the process group of a child that has *)
(* not called exec (child 1) and not of one that has (child 2).  Child 1   *)
(* sends SIGUSR1; child 2 executes helper, which sends SIGUSR2.  The       *)
(* parent blocks both, and waits for them in two sigsuspends.              *)
(*                                                                         *)
(* A sigsuspend returns when a handler returns.  A second signal that      *)
(* comes before that is handled in the same sigsuspend, or it is not and   *)
(* stays pending: when the two meet is up to the kernel.                   *)
(***************************************************************************)
EXTENDS Unix

UserSignals == {"SIGUSR1", "SIGUSR2"}

ChgPgidInit ==
  Begin("chg_pgid", [parent |-> "block", child1 |-> "new", child2 |-> "new"],
        [handled |-> {}, execed |-> FALSE, failed |-> FALSE, impossible |-> FALSE],
        <<>>)

\* The two sigactions and sigprocmask(SIG_BLOCK).
BlockUser == Block("chg_pgid", "parent", "block", "fork1", UserSignals)

ForkBoth ==
  \/ Fork("chg_pgid", "parent", "fork1", "fork2", "child1", "kill")
  \/ Fork("chg_pgid", "parent", "fork2", "suspend1", "child2", "exec")

Child1Kills == Kill("chg_pgid", "child1", "kill", "zombie", "parent", "SIGUSR1")

\* Mutant of Child2Execs: SIGUSR2 is sent before the exec.
Child2KillsFirst ==
  \/ Kill("chg_pgid", "child2", "exec", "helper", "parent", "SIGUSR2")
  \/ Compute("chg_pgid", "child2", "helper", "zombie",
             [mem EXCEPT !.execed = TRUE])

\* execl("./helper"), which fails if there is no such file.
Child2Execs ==
  \/ Compute("chg_pgid", "child2", "exec", "helper", [mem EXCEPT !.execed = TRUE])
  \/ Compute("chg_pgid", "child2", "exec", "zombie", [mem EXCEPT !.failed = TRUE])

\* helper.c
HelperKills == Kill("chg_pgid", "child2", "helper", "zombie", "parent", "SIGUSR2")

\* sigsuspend(&emptyMask)
Suspend ==
  \/ Block("chg_pgid", "parent", "suspend1", "suspended1", {})
  \/ Block("chg_pgid", "parent", "suspend2", "suspended2", {})

\* sigUsr1Handler or sigUsr2Handler is called, in the first or the second
\* sigsuspend.
HandleUser ==
  \E s \in UserSignals :
    /\ \/ Step("chg_pgid", "parent", "suspended1", "handler1")
       \/ Step("chg_pgid", "parent", "handler1", "handler1")
       \/ Step("chg_pgid", "parent", "suspended2", "handler2")
    /\ s \in Deliverable("parent")
    /\ pending' = [pending EXCEPT !["parent"] = @ \ {s}]
    /\ mask' = [mask EXCEPT !["parent"] = @ \cup {s}]
    /\ mem' = [mem EXCEPT !.handled = @ \cup {s}]
    /\ UNCHANGED queue

\* The handler returns, and with it sigsuspend, which restores the mask.
SuspendReturns ==
  \/ Block("chg_pgid", "parent", "handler1", "suspend2", UserSignals)
  \/ Block("chg_pgid", "parent", "handler2", "unblock", UserSignals)

UnblockUser == Block("chg_pgid", "parent", "unblock", "setpgid1", {})

\* setpgid(childPid1, childPid1) succeeds; for child 2 it fails with EACCES
\* after its exec.
SetPgids ==
  \/ Goto("chg_pgid", "parent", "setpgid1", "setpgid2")
  \/ Compute("chg_pgid", "parent", "setpgid2", "wait1",
             [mem EXCEPT !.impossible = ~mem.execed])

WaitBoth ==
  \/ Wait("chg_pgid", "parent", "wait1", "wait2", {"child1", "child2"})
  \/ Wait("chg_pgid", "parent", "wait2", "done", {"child1", "child2"})

ChgPgidParent ==
  \/ BlockUser \/ ForkBoth \/ Suspend \/ HandleUser \/ SuspendReturns
  \/ UnblockUser \/ SetPgids \/ WaitBoth

ChgPgidChild2 == Child2Execs \/ HelperKills

ChgPgidNext == ChgPgidParent \/ Child1Kills \/ ChgPgidChild2

ChgPgidFairness ==
  WF_vars(ChgPgidParent) /\ WF_vars(Child1Kills) /\ WF_vars(ChgPgidChild2)

\* The parent waits for a signal nobody will send: both were handled in its
\* first sigsuspend, or there was no helper to send the second.
SignalMissing ==
  /\ pc["parent"] = "suspended2"
  /\ pending["parent"] = {}
  /\ IF mem.failed THEN mem.handled = {"SIGUSR1"} ELSE mem.handled = UserSignals

ChgPgidEnds ==
  program = "chg_pgid" /\ (Ended({"parent", "child1", "child2"}) \/ SignalMissing)

(***************************************************************************)
(* "This is impossible" (chg_pgid_for_diff_descendants.c:88, :93) is never *)
(* printed: when the parent changes the groups both signals have been      *)
(* handled, and the second tells that child 2 is past its exec.            *)
(***************************************************************************)
GroupsChangedInTime ==
  program = "chg_pgid" =>
    /\ ~mem.impossible
    /\ pc["parent"] \in {"setpgid1", "setpgid2", "wait1", "wait2", "done"}
         => mem.handled = UserSignals /\ mem.execed

=============================================================================
