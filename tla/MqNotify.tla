------------------------------ MODULE MqNotify ------------------------------
(***************************************************************************)
(* POSIX-mqueue/pmsg_create.c, pmsg_send.c, pmsg_receive.c and             *)
(* mq_notify_sig.c, all run on the queue /mq.  mq_notify_sig asks for a    *)
(* signal when a message comes to the empty queue, and waits for it.       *)
(*                                                                         *)
(* The kernel hands a message to a receiver that waits, if there is one;   *)
(* only otherwise does it enter the queue, and if the queue was empty the  *)
(* registered process is sent its signal and is registered no more.        *)
(***************************************************************************)
EXTENDS Unix

CONSTANTS
  Senders,       \* the runs of pmsg_send; each names its message
  Receivers,     \* the runs of pmsg_receive
  MaxCapacity    \* bound on the messages the queue holds

ASSUME MqNotifyAssumption ==
  /\ Senders \cap Receivers = {}
  /\ {"creator", "notified"} \cap (Senders \cup Receivers) = {}
  /\ MaxCapacity \in Nat \ {0}

\* No flag, -n and -t.
Modes == {"blocking", "nonblocking", "timed"}

\* emptied is whether the queue was empty at some time since notified
\* registered.
MqNotifyInit ==
  \E flag \in [Receivers -> Modes] :
    Begin("mq", [p \in Senders \cup Receivers \cup {"creator", "notified"} |-> "open"],
          [flag |-> flag, capacity |-> 0, sent |-> <<>>, got |-> <<>>,
           registered |-> FALSE, emptied |-> FALSE],
          [mq |-> <<>>])

\* The attributes mq_open needs with O_CREAT are not passed (pmsg_create.c:11):
\* the queue gets some capacity, or the call fails.
CreateQueue ==
  \E capacity \in 0 .. MaxCapacity :
    Compute("mq", "creator", "open", "done", [mem EXCEPT !.capacity = capacity])

\* mq_open fails if the queue does not exist.
OpenMq(p, next) ==
  Goto("mq", p, "open", IF mem.capacity = 0 THEN "done" ELSE next)

Waiting == {r \in Receivers : pc[r] = "waiting"}

-----------------------------------------------------------------------------
\* pmsg_send.c

OpenSender(s) == program = "mq" /\ OpenMq(s, "send")

\* mq_send to a receiver that waits.
HandOver(s) ==
  \E r \in Receivers :
    /\ program = "mq"
    /\ pc[s] = "send" /\ pc[r] = "waiting"
    /\ pc' = [pc EXCEPT ![s] = "done", ![r] = "done"]
    /\ mem' = [mem EXCEPT !.sent = Append(@, s), !.got = Append(@, s)]
    /\ UNCHANGED <<program, kernel>>

\* mq_send to the queue waits for room.
Enqueue(s) ==
  /\ Step("mq", s, "send", "done")
  /\ Waiting = {}
  /\ Len(queue.mq) < mem.capacity
  /\ queue' = [queue EXCEPT !.mq = Append(@, s)]
  /\ LET notifies == queue.mq = <<>> /\ mem.registered
     IN  /\ mem' = [mem EXCEPT !.sent = Append(@, s),
                               !.registered = @ /\ ~notifies]
         /\ pending' = [pending EXCEPT !["notified"] =
                          IF notifies THEN {"SIGUSR1"} ELSE @]
  /\ UNCHANGED mask

Sender(s) == OpenSender(s) \/ HandOver(s) \/ Enqueue(s)

-----------------------------------------------------------------------------
\* pmsg_receive.c

OpenReceiver(r) == program = "mq" /\ OpenMq(r, "receive")

Receive(r) ==
  /\ Step("mq", r, "receive", "done")
  /\ queue.mq # <<>>
  /\ mem' = [mem EXCEPT !.got = Append(@, Head(queue.mq)),
                        !.emptied = @ \/ Len(queue.mq) = 1]
  /\ queue' = [queue EXCEPT !.mq = Tail(@)]
  /\ UNCHANGED signals

\* The queue is empty: EAGAIN with -n.
ReceiveNothing(r) ==
  /\ Goto("mq", r, "receive",
          IF mem.flag[r] = "nonblocking" THEN "done" ELSE "waiting")
  /\ queue.mq = <<>>

\* ETIMEDOUT with -t.
TimeOut(r) == Goto("mq", r, "waiting", "done") /\ mem.flag[r] = "timed"

MqReceiver(r) == OpenReceiver(r) \/ Receive(r) \/ ReceiveNothing(r) \/ TimeOut(r)

-----------------------------------------------------------------------------
\* mq_notify_sig.c

OpenNotified == program = "mq" /\ OpenMq("notified", "block")

\* Mutant of BlockNotify: the signal is not blocked.
LeaveNotify == Goto("mq", "notified", "block", "register")

\* sigprocmask(SIG_BLOCK), and the sigaction after it.
BlockNotify == Block("mq", "notified", "block", "register", {"SIGUSR1"})

\* mq_notify, before the loop and again after the first signal.
RegisterAt(from, to) ==
  program = "mq" /\ Compute("mq", "notified", from, to,
          [mem EXCEPT !.registered = TRUE, !.emptied = queue.mq = <<>>])

Register == RegisterAt("register", "suspend")

SuspendNotified == Block("mq", "notified", "suspend", "suspended", {})

HandleNotify ==
  /\ program = "mq" /\ pc["notified"] # "done"
  /\ Deliverable("notified") # {}
  /\ pending' = [pending EXCEPT !["notified"] = {}]
  /\ pc' = [pc EXCEPT !["notified"] = IF @ = "suspended" THEN "again" ELSE @]
  /\ mask' = [mask EXCEPT !["notified"] =
                IF pc["notified"] = "suspended" THEN {"SIGUSR1"} ELSE @]
  /\ UNCHANGED <<program, mem, queue>>

RegisterAgain == RegisterAt("again", "errExit")

\* errExit is called unconditionally (:71), and the registration ends with the
\* process: the loop that reads the queue is never reached.
NotifiedEnds ==
  program = "mq" /\ Compute("mq", "notified", "errExit", "done",
                            [mem EXCEPT !.registered = FALSE])

NotifiedProcess ==
  \/ OpenNotified \/ BlockNotify \/ Register \/ SuspendNotified
  \/ HandleNotify \/ RegisterAgain \/ NotifiedEnds

-----------------------------------------------------------------------------

MqNotifyNext ==
  \/ CreateQueue \/ NotifiedProcess
  \/ \E s \in Senders : Sender(s)
  \/ \E r \in Receivers : MqReceiver(r)

MqNotifyFairness ==
  /\ WF_vars(CreateQueue) /\ WF_vars(NotifiedProcess)
  /\ \A s \in Senders : WF_vars(Sender(s))
  /\ \A r \in Receivers : WF_vars(MqReceiver(r))

\* Who has not ended waits: for room, for a message, or for a notification.
MqNotifyEnds ==
  /\ program = "mq"
  /\ pc["creator"] = "done"
  /\ \A s \in Senders :
       \/ pc[s] = "done"
       \/ /\ pc[s] = "send" /\ Waiting = {}
          /\ Len(queue.mq) = mem.capacity
  /\ \A r \in Receivers :
       pc[r] = "done" \/ (pc[r] = "waiting" /\ mem.flag[r] = "blocking")
  /\ pc["notified"] = "done" \/ (pc["notified"] = "suspended" /\ mem.registered)

(***************************************************************************)
(* No wakeup is lost: mq_notify_sig is suspended only while it is          *)
(* registered or its signal is pending (mq_notify_sig.c:44-63), and while  *)
(* it is registered a queue that holds messages has held some all along,   *)
(* since nothing is sent for those.  Messages arrive once each and in the  *)
(* order they were sent, and a receiver waits only at an empty queue.      *)
(***************************************************************************)
NotifiedOnArrival ==
  program = "mq" =>
    /\ pc["notified"] = "suspended" =>
         mem.registered \/ "SIGUSR1" \in pending["notified"]
    /\ mem.registered /\ mem.emptied => queue.mq = <<>>
    /\ mem.sent = mem.got \o queue.mq
    /\ Waiting # {} => queue.mq = <<>>

=============================================================================
