---------------------------- MODULE SigReceiver ----------------------------
(***************************************************************************)
(* signals-intro/sig_receiver.c and somebody who sends signals to it.  It  *)
(* counts each signal it catches until SIGINT; with an argument it first   *)
(* sleeps with every signal blocked.  A signal sent again while it is      *)
(* pending is merged.  Its PID is printed before the loop that installs    *)
(* the handlers (sig_receiver.c:66-70): a signal whose handler is not in   *)
(* yet kills.                                                              *)
(*                                                                         *)
(* sa_flags is not initialised (sig_receiver.c:65-70): the build decides   *)
(* whether the handler stays or is reset by the first signal               *)
(* (SA_RESETHAND), after which a second one of the kind kills.             *)
(*                                                                         *)
(* signals-intro/siginterrupt.c has a siginterrupt of its own, and reads   *)
(* from the terminal while SIGINT may come.                                *)
(*                                                                         *)
(* signals-addfeatures/SIGCONT_is_weird.c is sent SIGCONT: the signal      *)
(* wakes a stopped process although the process blocks it; the handler     *)
(* runs when it is unblocked.  Stopping discards a pending SIGCONT.        *)
(***************************************************************************)
EXTENDS Unix

CONSTANTS
  MaxSent,   \* bound on the signals of each kind that are sent
  MaxCont    \* bound on the SIGCONTs sent

ASSUME SentAssumption == MaxSent \in Nat /\ MaxCont \in Nat

Caught == {"SIGINT", "SIGUSR1"}

SigReceiverInit ==
  \E resethand \in BOOLEAN :
    Begin("sig_receiver", [receiver |-> "sigint"],
          [sent |-> [s \in Caught |-> 0], sigCnt |-> [s \in Caught |-> 0],
           gotSigint |-> FALSE, resethand |-> resethand, installed |-> {},
           reset |-> {}, atSleep |-> 0],
          <<>>)

\* The loop of sigaction calls comes to SIGINT, and then to SIGUSR1; argc > 1
\* or not.
InstallHandlers ==
  \/ Compute("sig_receiver", "receiver", "sigint", "sigusr1",
             [mem EXCEPT !.installed = {"SIGINT"}])
  \/ \E sleeps \in BOOLEAN :
       Compute("sig_receiver", "receiver", "sigusr1",
               IF sleeps THEN "block" ELSE "spin",
               [mem EXCEPT !.installed = Caught])

\* The default action of both signals is to kill.
DefaultAction(s) == s \notin mem.installed \/ s \in mem.reset

\* Mutant of FillMask: the mask is left as it was.
FillNothing ==
  Compute("sig_receiver", "receiver", "block", "sleep",
          [mem EXCEPT !.atSleep = mem.sigCnt["SIGUSR1"]])

\* sigfillset and sigprocmask; atSleep is what was counted before.
FillMask ==
  /\ Step("sig_receiver", "receiver", "block", "sleep")
  /\ mask' = [mask EXCEPT !["receiver"] = Caught]
  /\ mem' = [mem EXCEPT !.atSleep = mem.sigCnt["SIGUSR1"]]
  /\ UNCHANGED <<pending, queue>>

\* sleep, printSigset of the pending signals, and sigprocmask
EmptyMask == Block("sig_receiver", "receiver", "sleep", "spin", {})

\* A signal is delivered: handler, or death where there is none.
Deliver ==
  \E s \in Caught :
    /\ program = "sig_receiver"
    /\ s \in Deliverable("receiver")
    /\ pc["receiver"] \notin {"done", "killed"}
    /\ pending' = [pending EXCEPT !["receiver"] = @ \ {s}]
    /\ pc' = [pc EXCEPT !["receiver"] = IF DefaultAction(s) THEN "killed" ELSE @]
    /\ mem' =
         IF DefaultAction(s) THEN mem
         ELSE [mem EXCEPT !.reset = IF mem.resethand THEN @ \cup {s} ELSE @,
                          !.gotSigint = @ \/ s = "SIGINT",
                          !.sigCnt[s] = IF s = "SIGINT" THEN @ ELSE @ + 1]
    /\ UNCHANGED <<program, mask, queue>>

\* while (!gotSigint), then the counts are printed.
LeaveSpin ==
  Goto("sig_receiver", "receiver", "spin", "done") /\ mem.gotSigint

\* Somebody sends a signal, to the PID that is printed first of all.
SendSignal ==
  \E s \in Caught :
    /\ program = "sig_receiver"
    /\ pc["receiver"] \notin {"done", "killed"}
    /\ mem.sent[s] < MaxSent
    /\ pending' = [pending EXCEPT !["receiver"] = @ \cup {s}]
    /\ mem' = [mem EXCEPT !.sent[s] = @ + 1]
    /\ UNCHANGED <<program, pc, mask, queue>>

Receiver == InstallHandlers \/ FillMask \/ EmptyMask \/ Deliver \/ LeaveSpin

SigReceiverNext == Receiver \/ SendSignal

SigReceiverFairness == WF_vars(Receiver)

\* It has ended, or it spins and nobody has sent SIGINT.
SigReceiverEnds ==
  /\ program = "sig_receiver"
  /\ \/ pc["receiver"] \in {"done", "killed"}
     \/ pc["receiver"] = "spin" /\ mem.sent["SIGINT"] = 0
          /\ Deliverable("receiver") = {}

(***************************************************************************)
(* What is printed (sig_receiver.c:100-103) never exceeds what was sent,   *)
(* nothing is counted while the process sleeps, and if any was sent one at *)
(* least is counted or still pending, unless the process was killed.  Once *)
(* its handler is in, a signal kills only if it was sent twice and         *)
(* sa_flags happens to hold SA_RESETHAND; before, it always does.          *)
(***************************************************************************)
SignalsCounted ==
  program = "sig_receiver" =>
    /\ mem.sigCnt["SIGUSR1"] + Cardinality(pending["receiver"] \cap {"SIGUSR1"})
         <= mem.sent["SIGUSR1"]
    /\ mem.sent["SIGUSR1"] > 0 /\ pc["receiver"] # "killed" =>
         mem.sigCnt["SIGUSR1"] > 0 \/ "SIGUSR1" \in pending["receiver"]
    /\ pc["receiver"] = "sleep" => mem.sigCnt["SIGUSR1"] = mem.atSleep
    /\ pc["receiver"] = "killed" =>
         \E s \in Caught :
           \/ s \notin mem.installed /\ mem.sent[s] > 0
           \/ mem.resethand /\ mem.sent[s] > 1

-----------------------------------------------------------------------------
\* siginterrupt.c

\* restart: whether SA_RESTART is set for SIGINT.  interrupts counts the calls
\* of handler while read waits, and eintr is whether read failed with EINTR.
SiginterruptInit ==
  Begin("siginterrupt", [reader |-> "sigaction"],
        [sent |-> 0, restart |-> FALSE, interrupts |-> 0, eintr |-> FALSE], <<>>)

\* sigaction(SIGINT) with no flag
InstallInterrupt == Goto("siginterrupt", "reader", "sigaction", "siginterrupt")

\* Mutant of SetRestart: the flag of siginterrupt is taken the other way round.
ClearRestart ==
  Compute("siginterrupt", "reader", "siginterrupt", "read", [mem EXCEPT !.restart = FALSE])

\* siginterrupt(SIGINT, 0)
SetRestart ==
  Compute("siginterrupt", "reader", "siginterrupt", "read", [mem EXCEPT !.restart = TRUE])

\* SIGINT before its handler is in ends the program.
DieOfInterrupt ==
  /\ Step("siginterrupt", "reader", "sigaction", "killed")
  /\ Deliverable("reader") # {}
  /\ pending' = [pending EXCEPT !["reader"] = {}]
  /\ UNCHANGED <<mem, mask, queue>>

\* handler is called; a read that was waiting begins again, or fails.
HandleInterrupt ==
  /\ program = "siginterrupt"
  /\ pc["reader"] \in {"siginterrupt", "read"}
  /\ Deliverable("reader") # {}
  /\ LET waits == pc["reader"] = "read"
         fails == waits /\ ~mem.restart
     IN  /\ pc' = [pc EXCEPT !["reader"] = IF fails THEN "done" ELSE @]
         /\ mem' = [mem EXCEPT !.eintr = fails,
                               !.interrupts = IF waits THEN @ + 1 ELSE @]
  /\ pending' = [pending EXCEPT !["reader"] = {}]
  /\ UNCHANGED <<program, mask, queue>>

\* The user ends a line, or presses Ctrl+C.
EndLine == Goto("siginterrupt", "reader", "read", "done")

PressInterrupt ==
  /\ program = "siginterrupt"
  /\ pc["reader"] \in {"sigaction", "siginterrupt", "read"}
  /\ mem.sent < MaxSent
  /\ mem' = [mem EXCEPT !.sent = @ + 1]
  /\ pending' = [pending EXCEPT !["reader"] = {"SIGINT"}]
  /\ UNCHANGED <<program, pc, mask, queue>>

Reader == InstallInterrupt \/ DieOfInterrupt \/ SetRestart \/ HandleInterrupt

SiginterruptNext == Reader \/ EndLine \/ PressInterrupt

SiginterruptFairness == WF_vars(Reader)

\* It has ended, or the user does not end the line.
SiginterruptEnds ==
  /\ program = "siginterrupt"
  /\ \/ pc["reader"] \in {"done", "killed"}
     \/ pc["reader"] = "read" /\ Deliverable("reader") = {}

(***************************************************************************)
(* However often the user interrupts it, read goes on: once its handler is *)
(* in, Ctrl+C never ends the program, although its prompt says "Ctrl+C to  *)
(* interrupt" and the comment that calls are interrupted                   *)
(* (siginterrupt.c:42-48).  It ends by Ctrl+C only before it has come so   *)
(* far.                                                                    *)
(***************************************************************************)
ReadRestarts ==
  program = "siginterrupt" =>
    /\ ~mem.eintr /\ (mem.interrupts > 0 => mem.restart)
    /\ pc["reader"] = "killed" => ~mem.restart

-----------------------------------------------------------------------------
\* SIGCONT_is_weird.c

SigContInit ==
  Begin("SIGCONT_is_weird", [stopper |-> "block"], [sent |-> 0, handled |-> 0],
        <<>>)

\* Mutant of BlockCont: SIGCONT is not blocked.
BlockNoCont == Goto("SIGCONT_is_weird", "stopper", "block", "sigaction")

BlockCont ==
  Block("SIGCONT_is_weird", "stopper", "block", "sigaction", {"SIGCONT"})

InstallCont == Goto("SIGCONT_is_weird", "stopper", "sigaction", "stop")

\* raise(SIGSTOP)
RaiseStop ==
  /\ Step("SIGCONT_is_weird", "stopper", "stop", "stopped")
  /\ pending' = [pending EXCEPT !["stopper"] = @ \ {"SIGCONT"}]
  /\ UNCHANGED <<mem, mask, queue>>

\* The prints and sleeps after the stop.
Resumed == Goto("SIGCONT_is_weird", "stopper", "resumed", "unblock")

UnblockCont == Block("SIGCONT_is_weird", "stopper", "unblock", "exit", {})

\* sigcont_handler
HandleCont ==
  /\ program = "SIGCONT_is_weird"
  /\ pc["stopper"] \notin {"stopped", "done"}
  /\ "SIGCONT" \in Deliverable("stopper")
  /\ pending' = [pending EXCEPT !["stopper"] = {}]
  /\ mem' = [mem EXCEPT !.handled = @ + 1]
  /\ UNCHANGED <<program, pc, mask, queue>>

\* sigprocmask delivers the signal before it returns.
StopperExits ==
  /\ Goto("SIGCONT_is_weird", "stopper", "exit", "done")
  /\ Deliverable("stopper") = {}

\* SIGCONT does nothing more to a process that has not blocked or handled it.
SendCont ==
  /\ program = "SIGCONT_is_weird"
  /\ pc["stopper"] # "done"
  /\ mem.sent < MaxCont
  /\ mem' = [mem EXCEPT !.sent = @ + 1]
  /\ pc' = [pc EXCEPT !["stopper"] = IF @ = "stopped" THEN "resumed" ELSE @]
  /\ pending' = [pending EXCEPT !["stopper"] =
                   IF pc["stopper"] = "block" THEN @ ELSE {"SIGCONT"}]
  /\ UNCHANGED <<program, mask, queue>>

Stopper ==
  \/ BlockCont \/ InstallCont \/ RaiseStop \/ Resumed \/ UnblockCont
  \/ HandleCont \/ StopperExits

SigContNext == Stopper \/ SendCont

SigContFairness == WF_vars(Stopper)

\* It has ended, or it is stopped and nobody continues it.
SigContEnds ==
  program = "SIGCONT_is_weird" /\ pc["stopper"] \in {"done", "stopped"}

(***************************************************************************)
(* "SIGCONT delivered, but where is the handler?" (SIGCONT_is_weird.c:45): *)
(* from the wakeup to the unblocking the signal is pending and its handler *)
(* has not run; when the process ends it has.                              *)
(***************************************************************************)
ContPendingUntilUnblocked ==
  program = "SIGCONT_is_weird" =>
    /\ pc["stopper"] \in {"resumed", "unblock"} =>
         "SIGCONT" \in pending["stopper"] /\ mem.handled = 0
    /\ pc["stopper"] = "done" => mem.handled > 0

=============================================================================
