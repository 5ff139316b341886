---------------------------- MODULE ToUppercase ----------------------------
(***************************************************************************)
(* pipesFIFOs/to_uppercase.c: the parent sends each piece of its input     *)
(* through one pipe to a child that upper-cases it and answers through     *)
(* another.  A piece fits a pipe, so writes are whole and do not block.    *)
(*                                                                         *)
(* The bytes of the input are numbered from 1; upper(b) is -b.             *)
(***************************************************************************)
EXTENDS Unix

CONSTANTS
  BufSize,    \* 1024
  InputSize   \* bound on the bytes of input

ASSUME UppercaseAssumption == BufSize \in Nat \ {0} /\ InputSize \in Nat

ToUppercaseInit ==
  Begin("to_uppercase", [parent |-> "input", child |-> "read"],
        [used |-> 0, piece |-> <<>>, held |-> <<>>, result |-> <<>>],
        [sendPipe |-> <<>>, recievePipe |-> <<>>])

-----------------------------------------------------------------------------
\* The parent

\* read(STDIN_FILENO) returns some bytes, or none at the end of the input.
ReadInput ==
  \E n \in 0 .. BufSize :
    /\ Compute("to_uppercase", "parent", "input", "send",
               [mem EXCEPT !.used = @ + n, !.piece = [k \in 1..n |-> mem.used + k]])
    /\ mem.used + n <= InputSize

\* A read error: errExit, which closes the pipes.
InputFails == Goto("to_uppercase", "parent", "input", "done")

\* Writing no byte to a pipe has no effect.
SendPiece ==
  /\ Step("to_uppercase", "parent", "send", "receive")
  /\ queue' = [queue EXCEPT !.sendPipe = @ \o mem.piece]
  /\ UNCHANGED <<mem, signals>>

\* The answer is read and printed.
ReceiveAnswer ==
  /\ Step("to_uppercase", "parent", "receive", "input")
  /\ queue.recievePipe # <<>>
  /\ mem' = [mem EXCEPT !.result = @ \o Fetched("recievePipe", BufSize)]
  /\ queue' = [queue EXCEPT !.recievePipe = Left("recievePipe", BufSize)]
  /\ UNCHANGED signals

-----------------------------------------------------------------------------
\* The child

\* Mutant of ReadPiece: a buffer of one byte.
ReadByte ==
  /\ Step("to_uppercase", "child", "read", "write")
  /\ queue.sendPipe # <<>>
  /\ mem' = [mem EXCEPT !.held = Fetched("sendPipe", 1)]
  /\ queue' = [queue EXCEPT !.sendPipe = Left("sendPipe", 1)]
  /\ UNCHANGED signals

ReadPiece ==
  /\ Step("to_uppercase", "child", "read", "write")
  /\ queue.sendPipe # <<>>
  /\ mem' = [mem EXCEPT !.held = Fetched("sendPipe", BufSize)]
  /\ queue' = [queue EXCEPT !.sendPipe = Left("sendPipe", BufSize)]
  /\ UNCHANGED signals

\* read returns 0 once the parent has gone: the loop is left.
ReadNothing ==
  /\ Goto("to_uppercase", "child", "read", "done")
  /\ queue.sendPipe = <<>> /\ pc["parent"] = "done"

\* upper, and the write of the answer
AnswerPiece ==
  /\ Step("to_uppercase", "child", "write", "read")
  /\ queue' = [queue EXCEPT !.recievePipe =
                 @ \o [k \in DOMAIN mem.held |-> -mem.held[k]]]
  /\ UNCHANGED <<mem, signals>>

UpperParent == ReadInput \/ InputFails \/ SendPiece \/ ReceiveAnswer
UpperChild == ReadPiece \/ ReadNothing \/ AnswerPiece

ToUppercaseNext == UpperParent \/ UpperChild

ToUppercaseFairness == WF_vars(UpperParent) /\ WF_vars(UpperChild)

\* At the end of the input the parent reads an answer to nothing, and the
\* child has nothing to read: main's loop has no way out.
BothWait ==
  /\ pc["parent"] = "receive" /\ pc["child"] = "read"
  /\ mem.piece = <<>>
  /\ queue.sendPipe = <<>> /\ queue.recievePipe = <<>>

ToUppercaseEnds ==
  program = "to_uppercase" /\ (Ended({"parent", "child"}) \/ BothWait)

(***************************************************************************)
(* Parent and child go in step: whenever the parent asks for more input it *)
(* has printed the answer to all it has read, and only the end of input    *)
(* leaves it waiting ("data is lost", to_uppercase.c:96, never happens).   *)
(***************************************************************************)
AnswersInStep ==
  program = "to_uppercase" =>
    /\ pc["parent"] = "input" => mem.result = [k \in 1 .. mem.used |-> -k]
    /\ Len(queue.sendPipe) + Len(queue.recievePipe) <= Len(mem.piece)

=============================================================================
