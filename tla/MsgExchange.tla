---------------------------- MODULE MsgExchange ----------------------------
(***************************************************************************)
(* POSIX-mqueue/msg_exchange.c, run by two users who name each other.      *)
(* Each user's process opens a queue to the other and one from the other,  *)
(* creating them if need be, and forks: the parent sends what the user     *)
(* types, the child prints what arrives.  SIGINT from the terminal reaches *)
(* both; its handler, cleaner, removes both names and exits.  A user may   *)
(* start again.                                                            *)
(*                                                                         *)
(* The queue from a user is named by the user.  A name refers to a queue   *)
(* (a number, 0 for none); who has it open keeps it when the name is gone. *)
(***************************************************************************)
EXTENDS Unix

CONSTANTS
  MaxMessages,   \* messages a queue holds
  MaxTyped,      \* bound on the lines typed
  Restarters     \* bound: the users who may start the program again, once

ASSUME MsgExchangeAssumption ==
  MaxMessages \in Nat \ {0} /\ MaxTyped \in Nat /\ Restarters \subseteq {"a", "b"}

Users == {"a", "b"}
Peer(u) == IF u = "a" THEN "b" ELSE "a"

Parent(u) == IF u = "a" THEN "a parent" ELSE "b parent"
Child(u) == IF u = "a" THEN "a child" ELSE "b child"
Tasks(u) == {Parent(u), Child(u)}

\* More than two names and four descriptors can refer to.
Queues == 1 .. 7

MsgExchangeInit ==
  Begin("msg_exchange",
        [p \in Tasks("a") \cup Tasks("b") |->
           IF p \in {Parent("a"), Parent("b")} THEN "open1" ELSE "done"],
        [name |-> [u \in Users |-> 0], typed |-> 0,
         mqd1 |-> [u \in Users |-> 0], mqd2 |-> [u \in Users |-> 0],
         restarted |-> {}, cleaned |-> FALSE],
        [q \in Queues |-> <<>>])

-----------------------------------------------------------------------------

\* A queue exists while it has a name or is open.
Exists(q) == \E u \in Users : q \in {mem.name[u], mem.mqd1[u], mem.mqd2[u]}

Fresh == CHOOSE q \in Queues : ~Exists(q)

\* Mutant of Opened: O_CREAT makes a queue although the name exists.
OpenedAnew(from) == Fresh

\* mq_open with O_CREAT: the queue from a user, new if there is none.
Opened(from) == IF mem.name[from] = 0 THEN Fresh ELSE mem.name[from]

\* The handler was installed before; mqd1 sends and mqd2 receives.
OpenQueues(u) ==
  /\ program = "msg_exchange"
  /\ \/ /\ Step("msg_exchange", Parent(u), "open1", "open2")
        /\ mem' = [mem EXCEPT !.name[u] = Opened(u), !.mqd1[u] = Opened(u)]
     \/ /\ Step("msg_exchange", Parent(u), "open2", "fork")
        /\ mem' = [mem EXCEPT !.name[Peer(u)] = Opened(Peer(u)),
                              !.mqd2[u] = Opened(Peer(u))]
  /\ queue' = [q \in Queues |-> IF Exists(q) THEN queue[q] ELSE <<>>]
  /\ UNCHANGED signals

\* A signal that is pending when fork is called is handled before it forks.
ForkExchange(u) ==
  /\ Fork("msg_exchange", Parent(u), "fork", "fgets", Child(u), "receive")
  /\ Deliverable(Parent(u)) = {}

\* The variables after task p has closed its queues: one, or both if it is the
\* parent and has not forked.
Closed(u, p) ==
  IF p = Child(u) THEN [mem EXCEPT !.mqd2[u] = 0]
  ELSE [mem EXCEPT !.mqd1[u] = 0,
                   !.mqd2[u] = IF pc[Child(u)] = "done" THEN 0 ELSE @]

\* The user types a line, or ends the input: errExit, which cleans nothing.
TypeLine(u) ==
  \/ /\ Compute("msg_exchange", Parent(u), "fgets", "send",
                [mem EXCEPT !.typed = @ + 1])
     /\ mem.typed < MaxTyped
  \/ Compute("msg_exchange", Parent(u), "fgets", "done", Closed(u, Parent(u)))

\* mq_send blocks while the queue is full.
SendMessage(u) ==
  /\ Step("msg_exchange", Parent(u), "send", "fgets")
  /\ Len(queue[mem.mqd1[u]]) < MaxMessages
  /\ queue' = [queue EXCEPT ![mem.mqd1[u]] = Append(@, u)]
  /\ UNCHANGED <<mem, signals>>

\* mq_receive blocks while the queue is empty.
ReceiveMessage(u) ==
  /\ Step("msg_exchange", Child(u), "receive", "receive")
  /\ queue[mem.mqd2[u]] # <<>>
  /\ queue' = [queue EXCEPT ![mem.mqd2[u]] = Tail(@)]
  /\ UNCHANGED <<mem, signals>>

-----------------------------------------------------------------------------

\* The user presses ^C, which is nothing to a task that has ended or is in
\* its cleaner.
Interrupt(u) ==
  LET hit == {p \in Tasks(u) : pc[p] \notin {"done", "unlink1", "unlink2"}}
  IN  /\ program = "msg_exchange" /\ hit # {}
      /\ pending' = [p \in DOMAIN pending |->
                       IF p \in hit THEN {"SIGINT"} ELSE pending[p]]
      /\ UNCHANGED <<program, pc, mem, mask, queue>>

\* cleaner is called, whatever the task was doing, and closes the queues.
CallCleaner(u, p) ==
  /\ program = "msg_exchange"
  /\ pc[p] # "done" /\ "SIGINT" \in Deliverable(p)
  /\ pc' = [pc EXCEPT ![p] = "unlink1"]
  /\ pending' = [pending EXCEPT ![p] = {}]
  /\ mem' = Closed(u, p)
  /\ UNCHANGED <<program, mask, queue>>

\* Mutant of Unlink: only the queue to the other user is removed.
UnlinkFirst(u, p) ==
  Compute("msg_exchange", p, "unlink1", "done",
          [mem EXCEPT !.name[u] = 0, !.cleaned = TRUE])

\* mq_unlink of both names, where ENOENT is no error, and exit.
Unlink(u, p) ==
  \/ Compute("msg_exchange", p, "unlink1", "unlink2",
             [mem EXCEPT !.name[u] = 0, !.cleaned = TRUE])
  \/ Compute("msg_exchange", p, "unlink2", "done", [mem EXCEPT !.name[Peer(u)] = 0])

\* The user runs the program again, after both tasks have ended.
RunAgain(u) ==
  /\ program = "msg_exchange"
  /\ \A p \in Tasks(u) : pc[p] = "done"
  /\ u \in Restarters \ mem.restarted
  /\ pc' = [pc EXCEPT ![Parent(u)] = "open1"]
  /\ pending' = [pending EXCEPT ![Parent(u)] = {}]
  /\ mem' = [mem EXCEPT !.restarted = @ \cup {u}]
  /\ UNCHANGED <<program, mask, queue>>

ExchangeTask(u) ==
  \/ OpenQueues(u) \/ ForkExchange(u) \/ SendMessage(u)
  \/ \E p \in Tasks(u) : CallCleaner(u, p) \/ Unlink(u, p)

MsgExchangeNext ==
  \E u \in Users :
    ExchangeTask(u) \/ ReceiveMessage(u)
    \/ TypeLine(u) \/ Interrupt(u) \/ RunAgain(u)

\* Nobody has to type, to interrupt or to start again.
MsgExchangeFairness ==
  \A u \in Users : WF_vars(ExchangeTask(u)) /\ WF_vars(ReceiveMessage(u))

\* Every task has ended or waits for its user, its queue or its peer.
AtRest(u) ==
  /\ pc[Parent(u)] \in {"done", "fgets", "send"}
  /\ pc[Child(u)] \in {"done", "receive"}
  /\ pc[Parent(u)] = "send" => Len(queue[mem.mqd1[u]]) = MaxMessages
  /\ pc[Child(u)] = "receive" => queue[mem.mqd2[u]] = <<>>
  /\ \A p \in Tasks(u) : pc[p] # "done" => Deliverable(p) = {}

MsgExchangeEnds == program = "msg_exchange" /\ \A u \in Users : AtRest(u)

(***************************************************************************)
(* When every task has ended no queue is left behind, in whatever order    *)
(* the cleaners of the four tasks meet (msg_exchange.c:23-36).             *)
(***************************************************************************)
NoQueueLeft ==
  program = "msg_exchange" /\ (\A p \in DOMAIN pc : pc[p] = "done") =>
    mem.name = [u \in Users |-> 0]

(***************************************************************************)
(* What one user sends the other receives, if both have their queues open  *)
(* and nobody has cleaned up: then both have opened the same queues,       *)
(* whoever came first (msg_exchange.c:54-63).                              *)
(***************************************************************************)
SameQueues ==
  program = "msg_exchange" /\ ~mem.cleaned =>
    \A u \in Users :
      mem.mqd1[u] # 0 /\ mem.mqd2[Peer(u)] # 0 => mem.mqd1[u] = mem.mqd2[Peer(u)]

=============================================================================
