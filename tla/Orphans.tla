------------------------------ MODULE Orphans ------------------------------
(***************************************************************************)
(* pgrps-sessions-taskmngmnt/orphan_read.c and orphans_sig_trickies.c,     *)
(* whose child waits until its parent has exited and init has adopted it,  *)
(* and then does what only a member of an orphaned process group may; and  *)
(* child-process-monitoring/new_parent_init.c, whose child kills its       *)
(* parent.                                                                 *)
(***************************************************************************)
EXTENDS Unix

OrphanPrograms == {"orphan_read", "orphans_sig_trickies"}

StopSignals == {"SIGTTIN", "SIGTTOU", "SIGTSTP"}

\* subreaper: whether a process other than init adopts orphans here.  raised
\* holds the stop signals raised since their disposition was last set, and
\* handled those whose handler has run.
OrphansInit ==
  \E name \in OrphanPrograms \cup {"new_parent_init"}, subreaper \in BOOLEAN :
    Begin(name, [parent |-> "fork", child |-> "new"],
          [subreaper |-> subreaper, handlers |-> FALSE, raised |-> {},
           handled |-> {}, error |-> FALSE],
          <<>>)

\* The parent exits, or pauses.
ForkOrphan(name) ==
  Fork(name, "parent", "fork", IF name = "new_parent_init" THEN "pause" ELSE "exit",
       "child", IF name = "new_parent_init" THEN "kill" ELSE "spin")

ParentGone == pc["parent"] = "done"

ExitParent == \E name \in OrphanPrograms : Goto(name, "parent", "exit", "done")

\* Mutant of Adopted: the child does not wait.
AdoptedOrNot == TRUE

\* getppid() == 1
Adopted == ParentGone /\ ~mem.subreaper

\* while (getppid() != 1)
LeaveWait(name) ==
  /\ Goto(name, "child", "spin", IF name = "orphan_read" THEN "read" ELSE "raise")
  /\ Adopted

\* read(STDIN_FILENO) from the background: EIO in an orphaned process group, and
\* else a SIGTTIN that stops the child.
ReadTerminal ==
  program = "orphan_read" /\
  IF ParentGone
  THEN Compute("orphan_read", "child", "read", "done", [mem EXCEPT !.error = TRUE])
  ELSE Goto("orphan_read", "child", "read", "stopped")

\* raise of the three signals in turn, with SIG_DFL and then with sig_handler.
\* By default they stop a process, but not in an orphaned process group.
RaiseStopSignal ==
  \E s \in StopSignals :
    /\ Compute("orphans_sig_trickies", "child", "raise",
               IF mem.handlers \/ ParentGone THEN "raise" ELSE "stopped",
               [mem EXCEPT !.raised = @ \cup {s},
                           !.handled = IF mem.handlers THEN @ \cup {s} ELSE @])
    /\ s = CASE mem.raised = {} -> "SIGTTIN"
             [] mem.raised = {"SIGTTIN"} -> "SIGTTOU"
             [] OTHER -> "SIGTSTP"
    /\ s \notin mem.raised

\* signal() of the three, or _exit.
StopSignalsRaised ==
  program = "orphans_sig_trickies" /\ mem.raised = StopSignals /\
  IF mem.handlers THEN Goto("orphans_sig_trickies", "child", "raise", "done")
  ELSE Compute("orphans_sig_trickies", "child", "raise", "raise",
               [mem EXCEPT !.handlers = TRUE, !.raised = {}])

\* kill(getppid(), SIGTERM), by which the parent dies, in pause or before it.
KillParent ==
  Kill("new_parent_init", "child", "kill", "sleep", "parent", "SIGTERM")

DieOfSigterm ==
  Goto("new_parent_init", "parent", "pause", "done")
  /\ "SIGTERM" \in pending["parent"]

\* sleep(3) is taken for the parent's death.
TellParentKilled == Goto("new_parent_init", "child", "sleep", "done")

OrphanParent ==
  \/ DieOfSigterm \/ ExitParent
  \/ \E name \in OrphanPrograms \cup {"new_parent_init"} : ForkOrphan(name)

OrphanChild ==
  \/ ReadTerminal \/ RaiseStopSignal \/ StopSignalsRaised
  \/ KillParent \/ TellParentKilled
  \/ \E name \in OrphanPrograms : LeaveWait(name)

OrphansNext == OrphanParent \/ OrphanChild

OrphansFairness == WF_vars(OrphanParent) /\ WF_vars(OrphanChild)

\* Under a subreaper getppid() never becomes 1, and the child spins.
OrphansEnds ==
  /\ program \in OrphanPrograms \cup {"new_parent_init"}
  /\ \/ Ended({"parent", "child"})
     \/ pc["child"] = "spin" /\ ParentGone /\ mem.subreaper

(***************************************************************************)
(* The child is never stopped by what it tries: a read that would stop it  *)
(* fails, and the stop signals are thrown away, then handled               *)
(* (orphan_read.c:11-24, orphans_sig_trickies.c:20-44).  "parent was       *)
(* killed" (new_parent_init.c:26) is said only after the signal was sent.  *)
(***************************************************************************)
OrphansUnstopped ==
  program \in OrphanPrograms \cup {"new_parent_init"} =>
    /\ pc["child"] # "stopped"
    /\ pc["child"] = "done" =>
         CASE program = "orphan_read" -> mem.error
           [] program = "orphans_sig_trickies" -> mem.handled = StopSignals
           [] OTHER -> ParentGone \/ "SIGTERM" \in pending["parent"]

=============================================================================
