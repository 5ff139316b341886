----------------------------- MODULE SlowReader -----------------------------
(***************************************************************************)
(* sockets-UNIX-domain/slow-reader-fast-sender: a client that sends        *)
(* datagrams as fast as it can and a server that reads one in three        *)
(* seconds.  The server's queue is bounded, and a sender blocks when it is *)
(* full.  Both run until they are killed; the server may be started again. *)
(*                                                                         *)
(* The server removes sockpath, but copies one character less of it into   *)
(* the address it binds (server.c:20-25): the name it removes is not the   *)
(* name it binds.  The client makes the same copy and finds the server.    *)
(***************************************************************************)
EXTENDS Unix

CONSTANTS
  QueueLength,   \* datagrams a socket holds
  MaxDatagrams,  \* bound on the datagrams sent
  MaxStarts      \* bound on the times the server is started

ASSUME SlowReaderAssumption ==
  /\ QueueLength \in Nat \ {0}
  /\ MaxDatagrams \in Nat
  /\ MaxStarts \in Nat \ {0}

\* sockpath and sun_path
RemovedName == "/tmp/reciever"
BoundName == "/tmp/recieve"

SlowReaderInit ==
  Begin("slow_reader", [server |-> "remove", client |-> "sendto"],
        [files |-> {}, starts |-> 1, binds |-> 0, sent |-> 0, received |-> <<>>],
        [dgrams |-> <<>>])

\* remove(sockpath); ENOENT is no error
RemoveOld ==
  Compute("slow_reader", "server", "remove", "bind",
          [mem EXCEPT !.files = @ \ {RemovedName}])

\* bind makes the file, and fails if there is one.
BindSocket ==
  \/ /\ Compute("slow_reader", "server", "bind", "recvfrom",
                [mem EXCEPT !.files = @ \cup {BoundName}, !.binds = @ + 1])
     /\ BoundName \notin mem.files
  \/ Goto("slow_reader", "server", "bind", "done") /\ BoundName \in mem.files

\* sleep(3) and recvfrom
RecvFrom ==
  /\ Step("slow_reader", "server", "recvfrom", "recvfrom")
  /\ queue.dgrams # <<>>
  /\ mem' = [mem EXCEPT !.received = Append(@, Head(queue.dgrams))]
  /\ queue' = [queue EXCEPT !.dgrams = Tail(@)]
  /\ UNCHANGED signals

\* The server is killed: its socket and what is queued in it are gone, the
\* file stays.
KillServer ==
  /\ program = "slow_reader" /\ pc["server"] # "done"
  /\ pc' = [pc EXCEPT !["server"] = "done"]
  /\ queue' = [dgrams |-> <<>>]
  /\ UNCHANGED <<program, mem, signals>>

\* Somebody starts the server again.
StartServer ==
  /\ Compute("slow_reader", "server", "done", "remove",
             [mem EXCEPT !.starts = @ + 1])
  /\ mem.starts < MaxStarts

\* sendto blocks while the queue is full, and fails without a server.
SendTo ==
  \/ /\ Step("slow_reader", "client", "sendto", "sendto")
     /\ pc["server"] = "recvfrom"
     /\ Len(queue.dgrams) < QueueLength
     /\ mem.sent < MaxDatagrams
     /\ mem' = [mem EXCEPT !.sent = @ + 1]
     /\ queue' = [queue EXCEPT !.dgrams = Append(@, mem.sent + 1)]
     /\ UNCHANGED signals
  \/ Goto("slow_reader", "client", "sendto", "done") /\ pc["server"] # "recvfrom"

SlowServer == RemoveOld \/ BindSocket \/ RecvFrom

SlowReaderNext == SlowServer \/ KillServer \/ StartServer \/ SendTo

SlowReaderFairness == WF_vars(SlowServer) /\ WF_vars(SendTo)

\* The server is gone, or all that was sent to it is received.
SlowReaderEnds ==
  /\ program = "slow_reader"
  /\ \/ pc["server"] = "done"
     \/ /\ pc["server"] = "recvfrom" /\ queue.dgrams = <<>>
        /\ pc["client"] = "done" \/ mem.sent = MaxDatagrams

(***************************************************************************)
(* A fast sender loses nothing: the datagrams the server has received and  *)
(* those queued for it are, in order, all that were sent to it, as long as *)
(* it runs.                                                                *)
(***************************************************************************)
DatagramsInOrder ==
  program = "slow_reader" /\ pc["server"] = "recvfrom" =>
    mem.received \o queue.dgrams = [k \in 1 .. mem.sent |-> k]

(***************************************************************************)
(* Once a server has bound its address no later one does: it removes       *)
(* another name than the one in its way, and exits with EADDRINUSE.        *)
(***************************************************************************)
BoundOnce == program = "slow_reader" => mem.binds <= 1

=============================================================================
