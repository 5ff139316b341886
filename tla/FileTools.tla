----------------------------- MODULE FileTools -----------------------------
(***************************************************************************)
(* fbufio/tail.c, fileio/mytee.c and mmaps/cp.c.  tail reads a file from   *)
(* its end in pieces of BUFSIZ bytes until it has met the newlines asked   *)
(* for, and then copies from there; meanwhile somebody may append to the   *)
(* file.  mytee copies its input to its output and to each file it is      *)
(* given.  cp maps two files into memory and copies one to the other,      *)
(* while somebody may change the first.                                    *)
(***************************************************************************)
EXTENDS Unix

CONSTANTS
  TailBuf,    \* BUFSIZ
  MaxFile,    \* bound on the length of the file
  MaxLines,   \* bound on the lines asked for
  TeeBuf,     \* BUFF_SIZE
  TeeInput,   \* bound on the length of mytee's input
  CpPages,    \* bound on the pages of a file that is copied
  CpChanges   \* bound on the changes made to the source meanwhile

ASSUME FileToolsAssumption ==
  /\ {TailBuf, TeeBuf} \subseteq Nat \ {0}
  /\ {MaxFile, MaxLines, TeeInput, CpPages, CpChanges} \subseteq Nat

-----------------------------------------------------------------------------
\* tail.c

Characters == {"x", "newline"}

\* The file that is opened, and the number of lines, 10 or an argument.
TailInit ==
  \E n \in 0 .. MaxFile, asked \in 0 .. MaxLines :
    \E file \in [1..n -> Characters] :
      Begin("tail", [tail |-> "seek"],
            [file |-> file, asked |-> asked, nlines |-> asked, filesiz |-> 0,
             pos |-> 0, out |-> <<>>], <<>>)

\* The offsets behind the newlines between two offsets.
Newlines(from, to) == {k \in from + 1 .. to : mem.file[k] = "newline"}

\* lseek(fd, 0, SEEK_END)
SeekFileEnd ==
  LET size == Len(mem.file)
  IN  Compute("tail", "tail", "seek", "scan",
              [mem EXCEPT !.filesiz = size, !.pos = size])

\* while (pos > 0 && nlines > 0)
More == mem.pos > 0 /\ mem.nlines > 0

\* The piece before pos.  begins is where the lines asked for begin, if that
\* is in this piece: behind the first newline, from the end, too many.
PieceStart == IF mem.pos > TailBuf THEN mem.pos - TailBuf ELSE 0

\* Mutant of Begins: the newline that completes the count is taken for the one
\* before the lines.
BeginsEarly(found) ==
  {k \in found : Cardinality({j \in found : j > k}) = mem.nlines - 1}

Begins(found) ==
  {k \in found : Cardinality({j \in found : j > k}) = mem.nlines}

ScanPiece ==
  LET found == Newlines(PieceStart, mem.pos)
  IN  /\ program = "tail" /\ More
      /\ \/ /\ Compute("tail", "tail", "scan", "scan",
                       [mem EXCEPT !.pos = PieceStart,
                                   !.nlines = @ - Cardinality(found)])
            /\ Begins(found) = {}
         \/ \E k \in Begins(found) :
              Compute("tail", "tail", "scan", "scan",
                      [mem EXCEPT !.pos = k, !.nlines = -1])

StopScan == program = "tail" /\ ~More /\ Goto("tail", "tail", "scan", "copy")

\* while ((bytesRead = read(...)) > 0) write
CopyPiece ==
  LET next == IF mem.pos + TailBuf < Len(mem.file)
              THEN mem.pos + TailBuf ELSE Len(mem.file)
  IN  Compute("tail", "tail", "copy", IF next = mem.pos THEN "done" ELSE "copy",
              [mem EXCEPT !.pos = next,
                          !.out = @ \o SubSeq(mem.file, mem.pos + 1, next)])

\* Somebody appends a character.
AppendToFile ==
  \E c \in Characters :
    /\ program = "tail" /\ pc["tail"] # "done"
    /\ Len(mem.file) < MaxFile
    /\ mem' = [mem EXCEPT !.file = Append(@, c)]
    /\ UNCHANGED <<program, pc, kernel>>

TailSteps == SeekFileEnd \/ ScanPiece \/ StopScan \/ CopyPiece

(***************************************************************************)
(* What tail prints ends at the end of the file and has the newlines that  *)
(* were asked for, or all there are, among what the file held when tail    *)
(* began.  It starts at the start of a line, unless the count ran out in a *)
(* piece with no newline before: then tail starts with that piece, inside  *)
(* a line or not (tail.c:67-89).                                           *)
(***************************************************************************)
TailExact ==
  program = "tail" /\ pc["tail"] = "done" =>
    LET start == mem.pos - Len(mem.out)
        all == Cardinality(Newlines(0, mem.filesiz))
    IN  /\ mem.pos >= mem.filesiz
        /\ mem.out = SubSeq(mem.file, start + 1, mem.pos)
        /\ Cardinality(Newlines(start, mem.filesiz))
             = IF all < mem.asked THEN all ELSE mem.asked
        /\ \/ start = 0 \/ mem.file[start] = "newline"
           \/ (mem.filesiz - start) % TailBuf = 0

-----------------------------------------------------------------------------
\* mytee.c: the files are argv[1], argv[2], ..., and with -a so is "-a".

Arguments ==
  {<<"f", "g">>, <<"f", "f">>, <<"-a", "f">>, <<"-a", "f", "g">>}

TeeFiles == {"f", "g", "-a"}

\* The byte 0 is what a file held before; the input is 1, 2, ...
Old(name) == IF name = "f" THEN <<0>> ELSE <<>>

TeeInit ==
  \E argv \in Arguments :
    Begin("mytee", [tee |-> "open"],
          [argv |-> argv, apnd |-> argv[1] = "-a", offset |-> <<>>, j |-> 0, numRead |-> 0,
           buff |-> <<>>, short |-> FALSE, failed |-> FALSE,
           content |-> [name \in TeeFiles |-> Old(name)]],
          <<>>)

\* Mutant of OpenNext: the file is truncated with -a too.
OpenTruncated ==
  LET name == mem.argv[Len(mem.offset) + 1]
  IN  program = "mytee" /\ pc["tee"] = "open" /\ Compute("mytee", "tee", "open",
              IF Len(mem.offset) + 1 = Len(mem.argv) THEN "read" ELSE "open",
              [mem EXCEPT !.offset = Append(@, 0), !.content[name] = <<>>])

\* open, which creates a file or may fail.  The -1 the code writes behind the last
\* of fds lies outside the array, and is left out.
OpenNext ==
  LET name == mem.argv[Len(mem.offset) + 1]
  IN  \/ Compute("mytee", "tee", "open",
                 IF Len(mem.offset) + 1 = Len(mem.argv) THEN "read" ELSE "open",
                 [mem EXCEPT !.offset = Append(@, 0),
                             !.content[name] = IF mem.apnd THEN @ ELSE <<>>])
      \/ Compute("mytee", "tee", "open", "done", [mem EXCEPT !.failed = TRUE])

\* read from the input; none at its end, or after an error: the test of -1 in
\* the loop is never reached.
TeeRead ==
  \E n \in 0 .. TeeBuf :
    /\ Compute("mytee", "tee", "read", IF n = 0 THEN "done" ELSE "write",
               [mem EXCEPT !.buff = [k \in 1..n |-> mem.numRead + k],
                           !.numRead = @ + n])
    /\ mem.numRead + n <= TeeInput

\* The content of a file after bytes were written at an offset.
Overwritten(content, at, bytes) ==
  SubSeq(content, 1, at) \o bytes
    \o SubSeq(content, at + Len(bytes) + 1, Len(content))

\* The loop over fds, j being the next one: a file takes all of the buffer, or
\* less, which is not noticed, or the write fails.
WriteCopy ==
  LET d == mem.j + 1
      name == mem.argv[d]
      at == IF mem.apnd THEN Len(mem.content[name]) ELSE mem.offset[d]
      last == d = Len(mem.offset)
  IN  \/ /\ program = "mytee"
         /\ \E n \in 0 .. Len(mem.buff) :
              Compute("mytee", "tee", "write", IF last THEN "read" ELSE "write",
                [mem EXCEPT
                   !.content[name] = Overwritten(@, at, SubSeq(mem.buff, 1, n)),
                   !.offset[d] = at + n,
                   !.short = @ \/ n < Len(mem.buff),
                   !.j = IF last THEN 0 ELSE d])
      \/ Compute("mytee", "tee", "write", "done", [mem EXCEPT !.failed = TRUE])

TeeSteps == OpenNext \/ TeeRead \/ WriteCopy

(***************************************************************************)
(* Between two pieces of the input, unless a write was short or a call has *)
(* failed, every file that is named once holds the input so far, behind    *)
(* what it held if it is appended to, and so does a file that is named     *)
(* twice if it is not.  With -a that is true of a file called "-a"         *)
(* (mytee.c:36-45).  No other file is touched.                             *)
(***************************************************************************)
TeeExact ==
  program = "mytee" =>
    /\ \A name \in TeeFiles :
         (\A d \in DOMAIN mem.argv : mem.argv[d] # name) => mem.content[name] = Old(name)
    /\ pc["tee"] \in {"read", "done"} /\ ~mem.short /\ ~mem.failed =>
         \A d \in DOMAIN mem.argv :
           mem.content[mem.argv[d]]
             = (IF mem.apnd THEN Old(mem.argv[d]) ELSE <<>>)
                 \o [k \in 1 .. mem.numRead |-> k]

-----------------------------------------------------------------------------
\* cp.c.  The content of a file is its pages; "f" is copied to "g" or to itself.
\* The pages of "f" are numbered 1, 2, ... and get greater numbers when they are
\* written again; those of "g" are -1, and 0 is a page that was never written.

Sized(content, n) == [k \in 1..n |-> IF k <= Len(content) THEN content[k] ELSE 0]

\* versions[k] holds what page k of the source has been; shrunk is whether
\* somebody made it shorter.
CpInit ==
  \E n, m \in 0 .. CpPages, dest \in {"f", "g"} :
    Begin("cp", [cp |-> "fstat"],
          [content |-> [f |-> [k \in 1..n |-> k], g |-> [k \in 1..m |-> -1]],
           dest |-> dest, srcSiz |-> 0, copied |-> 0, changes |-> 0,
           versions |-> [k \in 1..n |-> {k}], shrunk |-> FALSE],
          <<>>)

\* open of both files, which must exist, and fstat
StatSource ==
  Compute("cp", "cp", "fstat", "mmap", [mem EXCEPT !.srcSiz = Len(mem.content.f)])

\* mmap of no byte fails.
MapSource ==
  program = "cp" /\
  Goto("cp", "cp", "mmap", IF mem.srcSiz = 0 THEN "failed" ELSE "ftruncate")

\* Mutant of SizeDest: the destination keeps its length.
KeepSize == Goto("cp", "cp", "ftruncate", "memcpy")

\* ftruncate, and the mmap of the destination
SizeDest ==
  program = "cp" /\
  Compute("cp", "cp", "ftruncate", "memcpy",
          [mem EXCEPT !.content[mem.dest] = Sized(@, mem.srcSiz)])

\* memcpy of a page: SIGBUS if one of the files has become too short for it.
CopyPage ==
  program = "cp" /\
  LET k == mem.copied + 1
      there == k <= Len(mem.content.f) /\ k <= Len(mem.content[mem.dest])
  IN  IF there
      THEN Compute("cp", "cp", "memcpy", IF k = mem.srcSiz THEN "done" ELSE "memcpy",
                   [mem EXCEPT !.content[mem.dest][k] = mem.content.f[k],
                               !.copied = k])
      ELSE Goto("cp", "cp", "memcpy", "killed")

\* Somebody writes a page of the source again, or makes it shorter.
ChangeSource ==
  /\ program = "cp" /\ pc["cp"] \in {"mmap", "ftruncate", "memcpy"}
  /\ mem.changes < CpChanges
  /\ \/ \E k \in DOMAIN mem.content.f :
          mem' = [mem EXCEPT !.content.f[k] = @ + CpPages, !.changes = @ + 1,
                             !.versions[k] = @ \cup {mem.content.f[k] + CpPages}]
     \/ \E n \in 0 .. Len(mem.content.f) - 1 :
          mem' = [mem EXCEPT !.content.f = SubSeq(@, 1, n), !.changes = @ + 1,
                             !.shrunk = TRUE]
  /\ UNCHANGED <<program, pc, kernel>>

CpSteps == StatSource \/ MapSource \/ SizeDest \/ CopyPage

(***************************************************************************)
(* When cp has ended well its destination is as long as the source was,    *)
(* and each page is one the source had meanwhile, unless the source was    *)
(* made shorter, which alone can kill it.  It fails on an empty source,    *)
(* and leaves what was in the destination (cp.c:33-66).                    *)
(***************************************************************************)
CopyExact ==
  program = "cp" =>
    LET copy == mem.content[mem.dest]
    IN  /\ pc["cp"] = "killed" => mem.shrunk
        /\ pc["cp"] = "failed" =>
             mem.srcSiz = 0 /\ \A k \in DOMAIN copy : copy[k] = -1
        /\ pc["cp"] = "done" /\ ~mem.shrunk =>
             /\ Len(copy) = mem.srcSiz
             /\ \A k \in 1 .. mem.srcSiz : copy[k] \in mem.versions[k]

-----------------------------------------------------------------------------

FileToolsNext == TailSteps \/ AppendToFile \/ TeeSteps \/ CpSteps \/ ChangeSource

FileToolsFairness == WF_vars(TailSteps) /\ WF_vars(TeeSteps) /\ WF_vars(CpSteps)

FileToolsEnds ==
  \/ program = "cp" /\ pc["cp"] \in {"done", "failed", "killed"}
  \/ program = "tail" /\ Ended({"tail"})
  \/ program = "mytee" /\ Ended({"tee"})

=============================================================================
