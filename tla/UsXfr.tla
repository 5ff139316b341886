------------------------------- MODULE UsXfr -------------------------------
(***************************************************************************)
(* sockets-UNIX-domain/us-xfr: clients that copy their input to a stream   *)
(* socket and a server that accepts one connection after the other and     *)
(* copies each to its output.  A client may connect and write while the    *)
(* server still serves another.                                            *)
(*                                                                         *)
(* A byte is the client it comes from and its position.                    *)
(***************************************************************************)
EXTENDS Unix, SequencesExt

CONSTANTS
  XfrBuf,       \* BUF_SIZE
  XfrCapacity,  \* what a socket holds before a writer blocks
  XfrBytes      \* bound on the bytes a client sends

ASSUME XfrAssumption ==
  {XfrBuf, XfrCapacity} \subseteq Nat \ {0} /\ XfrBytes \in Nat

XfrClients == {"c1", "c2"}

UsXfrInit ==
  Begin("us_xfr", [p \in XfrClients \cup {"server"} |-> "start"],
        [backlog |-> <<>>, accepted |-> <<>>, out |-> <<>>,
         written |-> [c \in XfrClients |-> 0], numRead |-> [c \in XfrClients |-> 0]],
        [c \in XfrClients |-> <<>>])

Current == mem.accepted[Len(mem.accepted)]

-----------------------------------------------------------------------------
\* client.c

\* connect, which fails unless the server listens.
Connect(c) ==
  \/ /\ Compute("us_xfr", c, "start", "read",
                [mem EXCEPT !.backlog = Append(@, c)])
     /\ pc["server"] # "start"
  \/ Goto("us_xfr", c, "start", "done") /\ pc["server"] = "start"

\* read returns some bytes, or none at the end of the client's input.
ClientReads(c) ==
  \E n \in 0 .. XfrBuf :
    /\ Compute("us_xfr", c, "read", IF n = 0 THEN "done" ELSE "write",
               [mem EXCEPT !.numRead[c] = n])
    /\ mem.written[c] + n <= XfrBytes

\* write blocks while the socket is full.
ClientWrites(c) ==
  /\ Step("us_xfr", c, "write", "read")
  /\ Len(queue[c]) + mem.numRead[c] <= XfrCapacity
  /\ queue' = [queue EXCEPT ![c] =
                 @ \o [k \in 1 .. mem.numRead[c] |-> <<c, mem.written[c] + k>>]]
  /\ mem' = [mem EXCEPT !.written[c] = @ + mem.numRead[c]]
  /\ UNCHANGED signals

-----------------------------------------------------------------------------
\* server.c

\* socket, bind and listen
Listen == Goto("us_xfr", "server", "start", "accept")

AcceptClient ==
  /\ program = "us_xfr" /\ mem.backlog # <<>>
  /\ Compute("us_xfr", "server", "accept", "copy",
             [mem EXCEPT !.backlog = Tail(@),
                         !.accepted = Append(@, Head(mem.backlog))])

\* Mutant of CopyBytes: a short read is taken for the end of the stream.
CopyFull ==
  /\ Step("us_xfr", "server", "copy",
          IF Len(queue[Current]) < XfrBuf THEN "accept" ELSE "copy")
  /\ queue[Current] # <<>>
  /\ mem' = [mem EXCEPT !.out = @ \o Fetched(Current, XfrBuf)]
  /\ queue' = [queue EXCEPT ![Current] = Left(Current, XfrBuf)]
  /\ UNCHANGED signals

\* read from the connection and write to the output
CopyBytes ==
  /\ Step("us_xfr", "server", "copy", "copy")
  /\ queue[Current] # <<>>
  /\ mem' = [mem EXCEPT !.out = @ \o Fetched(Current, XfrBuf)]
  /\ queue' = [queue EXCEPT ![Current] = Left(Current, XfrBuf)]
  /\ UNCHANGED signals

\* read returns 0: the client has closed its end.
CloseClient ==
  /\ Goto("us_xfr", "server", "copy", "accept")
  /\ queue[Current] = <<>> /\ pc[Current] = "done"

XfrServer == Listen \/ AcceptClient \/ CopyBytes \/ CloseClient
XfrClient(c) == Connect(c) \/ ClientReads(c) \/ ClientWrites(c)

UsXfrNext == XfrServer \/ \E c \in XfrClients : XfrClient(c)

UsXfrFairness ==
  WF_vars(XfrServer) /\ \A c \in XfrClients : WF_vars(XfrClient(c))

\* The server waits for the next connection; everything it got is copied.
UsXfrEnds ==
  /\ program = "us_xfr"
  /\ Ended(XfrClients) /\ pc["server"] = "accept" /\ mem.backlog = <<>>

\* The bytes client c has written.
Written(c) == [k \in 1 .. mem.written[c] |-> <<c, k>>]

(***************************************************************************)
(* The server's output is what the clients wrote, one client after the     *)
(* other in the order in which they were accepted: nothing is lost, and    *)
(* two clients at once do not mix (server.c:35-49).                        *)
(***************************************************************************)
OutputInAcceptOrder ==
  program = "us_xfr" =>
    LET served == FlattenSeq([k \in DOMAIN mem.accepted |-> Written(mem.accepted[k])])
    IN  /\ IsPrefix(mem.out, served)
        /\ pc["server"] = "accept" => mem.out = served

=============================================================================
