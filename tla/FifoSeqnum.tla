----------------------------- MODULE FifoSeqnum -----------------------------
(***************************************************************************)
(* src/linux-api-kerrisk/pipesFIFOs/seqnum: a server that gives out        *)
(* sequence numbers.  A client makes a FIFO of its own, writes a request   *)
(* to the server's FIFO and only then opens its own FIFO for the answer;   *)
(* the server opens it without waiting, answers, and only then stores the  *)
(* next number in its file, which it truncates first.                      *)
(*                                                                         *)
(* The server may be killed at any point, which leaves its FIFO behind, or *)
(* be stopped by SIGINT or SIGTERM, whose handler removes the FIFO; it may *)
(* be started again.  It stops MaxStops times at most (a bound of the      *)
(* model).  Clients, here the Askers, may be killed as well.               *)
(*                                                                         *)
(* A FIFO, once removed and made again, is another one: inode numbers tell *)
(* them apart.  What was written to a FIFO stays in it until nobody has it *)
(* open.  An open for writing waits for a reader and the other way round.  *)
(*                                                                         *)
(* The names differ from those of Counter and ApproxCounter: CounterProofs *)
(* extends all three.                                                      *)
(***************************************************************************)
EXTENDS Sync, Sequences, FiniteSets

CONSTANTS
  Askers,           \* the client processes, by pid
  SeqLens,          \* how many numbers a client may ask for: what atoi returns
  InitialNumbers,   \* what the server's file may hold before
  MaxStops,         \* how often the server may stop
  None

ASSUME FifoAssumption ==
  /\ SeqLens \subseteq Int
  /\ InitialNumbers \subseteq Int
  /\ MaxStops \in Nat
  /\ None \notin Int \cup Askers

\* SeqLens for TLC: a .cfg has no negative numbers.
MCSeqLens == {-1, 0, 2}

VARIABLES
  sv,         \* where the server is, "down" when it does not run
  svFifo,     \* the inode the server has open, 0 for none
  seqNum,     \* the server's seqNum
  req,        \* the client whose request the server handles
  file,       \* SERVER_INIT_FILE: None when empty
  path,       \* the inode of SERVER_FIFO, 0 when there is no such file
  requests,   \* the clients whose requests are in the FIFO path names
  stops,      \* how often the server has stopped
  place,      \* where each client is
  seqLen,     \* req.seqLen of each client
  fifo,       \* the inode each client has open or opens, 0 for none
  resp,       \* the answer in each client's FIFO
  dropped,    \* history: the clients the server has turned away
  lost,       \* history: the clients whose requests died with the server
  torn        \* history: the server has stopped between answer and file

server == <<sv, svFifo, seqNum, req>>
client == <<place, seqLen, fifo>>
history == <<dropped, lost, torn>>
seqnumVars == <<server, file, path, requests, stops, client, resp, history>>

SeqnumInit ==
  /\ sv = "down" /\ svFifo = 0 /\ seqNum = 0 /\ req = None
  /\ file \in InitialNumbers \cup {None}
  /\ path = 0
  /\ requests = <<>>
  /\ stops = 0
  /\ place = [c \in Askers |-> "mkfifo"]
  /\ seqLen \in [Askers -> SeqLens]
  /\ fifo = [c \in Askers |-> 0]
  /\ resp = [c \in Askers |-> None]
  /\ dropped = {} /\ lost = {}
  /\ torn = FALSE

\* Clients that have the FIFO path names open for writing.
Writers ==
  {c \in Askers : /\ fifo[c] = path
                  /\ place[c] \in {"write", "wrote", "open_own", "read"}}

\* What is left in the FIFO once client c has closed it.
ClientCloses(c) ==
  requests' = IF sv \in {"down", "open"} /\ Writers \subseteq {c} THEN <<>> ELSE requests

-----------------------------------------------------------------------------
\* The server

\* Mutant of Start: the file is not read.
StartZero ==
  /\ sv = "down"
  /\ seqNum' = 0
  /\ sv' = IF Writers = {} THEN "open" ELSE "read"
  /\ path' = IF path = 0 THEN stops + 1 ELSE path
  /\ svFifo' = path'
  /\ UNCHANGED <<req, file, requests, stops, client, resp, history>>

\* The file is read and SERVER_FIFO made, if it is not there.  The server's
\* open for reading waits for a writer; dummyFd is then one for ever.
Start ==
  /\ sv = "down"
  /\ seqNum' = IF file = None THEN 0 ELSE file
  /\ sv' = IF Writers = {} THEN "open" ELSE "read"
  /\ path' = IF path = 0 THEN stops + 1 ELSE path
  /\ svFifo' = path'
  /\ UNCHANGED <<req, file, requests, stops, client, resp, history>>

\* Mutant of ReadRequest: the last request in the FIFO is lost.
ReadNothing ==
  /\ sv = "read" /\ requests # <<>>
  /\ req' = Head(requests)
  /\ requests' = Tail(requests)
  /\ sv' = IF Tail(requests) = <<>> THEN "read" ELSE "open_client"
  /\ UNCHANGED <<svFifo, seqNum, file, path, stops, client, resp, history>>

ReadRequest ==
  /\ sv = "read" /\ requests # <<>>
  /\ req' = Head(requests)
  /\ requests' = Tail(requests)
  /\ sv' = "open_client"
  /\ UNCHANGED <<svFifo, seqNum, file, path, stops, client, resp, history>>

\* open(clientFifo, O_WRONLY | O_NONBLOCK) succeeds if the client is already
\* in its open for reading, which then returns; the request is dropped if not.
OpenClient ==
  /\ sv = "open_client"
  /\ IF place[req] = "open_own"
     THEN /\ sv' = "reply"
          /\ place' = [place EXCEPT ![req] = "read"]
          /\ UNCHANGED dropped
     ELSE /\ sv' = "read"
          /\ dropped' = dropped \cup {req}
          /\ UNCHANGED place
  /\ UNCHANGED <<svFifo, seqNum, req, file, path, requests, stops, seqLen, fifo,
                 resp, lost, torn>>

\* The answer is written, also if the client is gone (SIGPIPE is ignored).
Reply ==
  /\ sv = "reply"
  /\ resp' = [resp EXCEPT ![req] = seqNum]
  /\ sv' = "advance"
  /\ UNCHANGED <<svFifo, seqNum, req, file, path, requests, stops, client, history>>

\* clientFd is closed and seqNum increased.
Advance ==
  /\ sv = "advance"
  /\ seqNum' = seqNum + seqLen[req]
  /\ sv' = "truncate"
  /\ UNCHANGED <<svFifo, req, file, path, requests, stops, client, resp, history>>

Truncate ==
  /\ sv = "truncate"
  /\ file' = None
  /\ sv' = "store"
  /\ UNCHANGED <<svFifo, seqNum, req, path, requests, stops, client, resp, history>>

StoreNumber ==
  /\ sv = "store"
  /\ file' = seqNum
  /\ sv' = "read"
  /\ UNCHANGED <<svFifo, seqNum, req, path, requests, stops, client, resp, history>>

Server ==
  \/ Start \/ ReadRequest \/ OpenClient
  \/ Reply \/ Advance \/ Truncate \/ StoreNumber

\* The server process ends: its descriptors are closed.
End ==
  /\ sv # "down"
  /\ stops < MaxStops
  /\ stops' = stops + 1
  /\ sv' = "down" /\ svFifo' = 0 /\ seqNum' = 0 /\ req' = None
  /\ torn' = (torn \/ sv \in {"advance", "truncate", "store"})
  /\ UNCHANGED <<file, client, resp, dropped>>

\* Its FIFO is closed and left is in it; the request it handles is lost too.
ServerCloses(left) ==
  /\ requests' = left
  /\ lost' = lost \cup {c \in Askers :
                \/ c = req /\ sv \in {"open_client", "reply"}
                \/ left = <<>> /\ \E i \in DOMAIN requests : requests[i] = c}

\* A crash, or a signal that cannot be caught.
Kill == End /\ ServerCloses(IF Writers = {} THEN <<>> ELSE requests) /\ UNCHANGED path

\* SIGINT or SIGTERM: sigHandler removes SERVER_FIFO and ends the process.
SigHandler == End /\ ServerCloses(<<>>) /\ path' = 0

-----------------------------------------------------------------------------
\* A client c

MakeFifo(c) ==
  /\ Move(place, c, "mkfifo", "open_server")
  /\ UNCHANGED <<server, file, path, requests, stops, seqLen, fifo, resp, history>>

\* open(SERVER_FIFO, O_WRONLY) finds the file, or the client ends.
OpenServer(c) ==
  /\ Move(place, c, "open_server", IF path = 0 THEN "ended" ELSE "opening")
  /\ fifo' = [fifo EXCEPT ![c] = path]
  /\ UNCHANGED <<server, file, path, requests, stops, seqLen, resp, history>>

\* ... and waits for a reader: the server, or its open, which returns too.
Opened(c) ==
  /\ Move(place, c, "opening", "write")
  /\ fifo[c] = svFifo
  /\ sv' = IF sv = "open" THEN "read" ELSE sv
  /\ UNCHANGED <<svFifo, seqNum, req, file, path, requests, stops, seqLen, fifo,
                 resp, history>>

\* The request is written; without a reader the client dies of SIGPIPE.
Write(c) ==
  /\ IF fifo[c] = svFifo
     THEN Move(place, c, "write", "wrote") /\ requests' = Append(requests, c)
     ELSE Move(place, c, "write", "ended") /\ ClientCloses(c)
  /\ UNCHANGED <<server, file, path, stops, seqLen, fifo, resp, history>>

\* open(clientFifo, O_RDONLY) is called, and waits for the server.
OpenOwn(c) ==
  /\ Move(place, c, "wrote", "open_own")
  /\ UNCHANGED <<server, file, path, requests, stops, seqLen, fifo, resp, history>>

\* The answer is read and printed.
Read(c) ==
  /\ resp[c] # None
  /\ Move(place, c, "read", "printed")
  /\ ClientCloses(c)
  /\ UNCHANGED <<server, file, path, stops, seqLen, fifo, resp, history>>

\* End of file: the server closed the FIFO, or ended, without an answer.
ReadEOF(c) ==
  /\ resp[c] = None
  /\ ~(sv = "reply" /\ req = c)
  /\ Move(place, c, "read", "ended")
  /\ ClientCloses(c)
  /\ UNCHANGED <<server, file, path, stops, seqLen, fifo, resp, history>>

Client(c) ==
  \/ MakeFifo(c) \/ OpenServer(c) \/ Opened(c) \/ Write(c) \/ OpenOwn(c)
  \/ Read(c) \/ ReadEOF(c)

KillClient(c) ==
  /\ place[c] \notin {"printed", "ended"}
  /\ place' = [place EXCEPT ![c] = "ended"]
  /\ ClientCloses(c)
  /\ UNCHANGED <<server, file, path, stops, seqLen, fifo, resp, history>>

-----------------------------------------------------------------------------

\* The server waits, and every client has ended or waits in vain.
Quiet ==
  /\ \A c \in Askers : place[c] \in {"printed", "ended", "opening", "open_own"}
  /\ sv = "open" \/ (sv = "read" /\ requests = <<>>)

SeqnumTerminating == Quiet /\ UNCHANGED seqnumVars

SeqnumNext ==
  \/ Server \/ Kill \/ SigHandler
  \/ \E c \in Askers : Client(c) \/ KillClient(c)
  \/ SeqnumTerminating

SeqnumSpec == SeqnumInit /\ [][SeqnumNext]_seqnumVars

\* The kernel runs every runnable process, and the server is started again
\* after it has stopped; nobody need kill anything.
SeqnumFairSpec ==
  /\ SeqnumSpec
  /\ WF_seqnumVars(Server)
  /\ \A c \in Askers : WF_seqnumVars(Client(c))

-----------------------------------------------------------------------------

SeqnumTypeOK ==
  /\ sv \in {"down", "open", "read", "open_client", "reply", "advance",
            "truncate", "store"}
  /\ svFifo \in 0 .. MaxStops + 1
  /\ seqNum \in Int
  /\ req \in Askers \cup {None}
  /\ file \in Int \cup {None}
  /\ path \in 0 .. MaxStops + 1
  /\ requests \in Seq(Askers)
  /\ stops \in 0 .. MaxStops
  /\ place \in [Askers -> {"mkfifo", "open_server", "opening", "write", "wrote",
                         "open_own", "read", "printed", "ended"}]
  /\ seqLen \in [Askers -> SeqLens]
  /\ fifo \in [Askers -> 0 .. MaxStops + 1]
  /\ resp \in [Askers -> Int \cup {None}]
  /\ dropped \subseteq Askers /\ lost \subseteq Askers
  /\ torn \in BOOLEAN

\* The number the next client will get if the server does not stop, or the
\* one the next server will start from.
NextNumber ==
  IF sv = "down" THEN (IF file = None THEN 0 ELSE file)
  ELSE IF sv = "advance" THEN seqNum + seqLen[req]
  ELSE seqNum

Answered == {c \in Askers : resp[c] # None}
Numbers(c) == resp[c] .. resp[c] + seqLen[c] - 1

\* Nothing keeps a client from asking for less than nothing.
SteppedBack == \E c \in Answered : seqLen[c] < 0

(***************************************************************************)
(* No number is given to two clients, across any stops and restarts that   *)
(* do not fall between an answer and the end of the store that follows it, *)
(* until a client that asked for a negative length is answered: the next   *)
(* number goes back then, and is given again (fifo_seqnum_client.c:40,     *)
(* fifo_seqnum_server.c:72-107).                                           *)
(***************************************************************************)
NumbersUniqueUnlessTorn ==
  torn \/ SteppedBack \/
  /\ \A c \in Answered : \A n \in Numbers(c) : n < NextNumber
  /\ \A c, d \in Answered : c # d => Numbers(c) \cap Numbers(d) = {}

\* A server that has not answered since it last stored knows what it stored,
\* and one that handles a request knows whose it is.
ServerKnows ==
  /\ sv \in {"open", "read", "open_client", "reply"} =>
       seqNum = IF file = None THEN 0 ELSE file
  /\ sv \in {"open_client", "reply", "advance"} => req \in Askers

\* The inductive invariant.
SeqnumInv == SeqnumTypeOK /\ ServerKnows /\ NumbersUniqueUnlessTorn

(***************************************************************************)
(* A client that has found the server's FIFO comes to write to it, however *)
(* often the server is killed and started again, unless the file was       *)
(* removed: then it may wait in the open for ever, beside a server that    *)
(* reads another FIFO of that name.  A client that has sent its request    *)
(* gets an answer, unless it was turned away or killed or the request died *)
(* with the server; one that is in a FIFO others hold open does not        *)
(* (fifo_seqnum_server.c:13-22, :57-81, fifo_seqnum_client.c:44-56).       *)
(***************************************************************************)
Served ==
  \A c \in Askers :
    /\ place[c] = "opening" ~> place[c] # "opening" \/ fifo[c] # path
    /\ place[c] = "wrote" ~>
         place[c] \in {"printed", "ended"} \/ c \in dropped \cup lost

(***************************************************************************)
(* A client the server turns away is one that does not open its FIFO: the  *)
(* server says "client forgot to open FIFO queue on read"                  *)
(* (fifo_seqnum_server.c:84).  The code does not provide it: the client    *)
(* may be turned away before it comes to open, and then waits for ever.    *)
(***************************************************************************)
DroppedClientsForgot == \A c \in dropped : place[c] # "open_own"

=============================================================================
