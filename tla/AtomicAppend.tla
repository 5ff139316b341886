---------------------------- MODULE AtomicAppend ----------------------------
(***************************************************************************)
(* fileio/atomic_append.c, run twice at once on one file: each process     *)
(* seeks to the end and writes a byte, Bytes times.  With O_APPEND the     *)
(* kernel moves the offset to the end in the write itself; with a third    *)
(* argument, x, the write goes where the lseek left the offset.            *)
(***************************************************************************)
EXTENDS Unix

CONSTANT Bytes   \* atoll(argv[2])

ASSUME BytesAssumption == Bytes \in Nat

Appenders == {"p1", "p2"}

\* x[p] is whether p has the third argument.
AtomicAppendInit ==
  \E x \in [Appenders -> BOOLEAN] :
    Begin("atomic_append", [p \in Appenders |-> "open"],
          [size |-> 0, x |-> x, append |-> [p \in Appenders |-> TRUE],
           offset |-> [p \in Appenders |-> 0], left |-> [p \in Appenders |-> Bytes]],
          <<>>)

\* while (n_bytes_to_add--), and the close after the loop
Again(left) == IF left = 0 THEN "done" ELSE "seek"

\* Mutant of OpenFile: O_APPEND is cleared without a third argument too.
OpenPlain(p) ==
  program = "atomic_append" /\
  Compute("atomic_append", p, "open", Again(mem.left[p]),
          [mem EXCEPT !.append[p] = FALSE])

\* flags ^= O_APPEND with four arguments
OpenFile(p) ==
  program = "atomic_append" /\
  Compute("atomic_append", p, "open", Again(mem.left[p]),
          [mem EXCEPT !.append[p] = ~mem.x[p]])

SeekEnd(p) ==
  Compute("atomic_append", p, "seek", "write",
          [mem EXCEPT !.offset[p] = mem.size])

WriteByte(p) ==
  LET at == IF mem.append[p] THEN mem.size ELSE mem.offset[p]
  IN  Compute("atomic_append", p, "write", Again(mem.left[p] - 1),
              [mem EXCEPT !.size = IF at < @ THEN @ ELSE at + 1,
                          !.offset[p] = at + 1, !.left[p] = @ - 1])

Appender(p) == OpenFile(p) \/ SeekEnd(p) \/ WriteByte(p)

AtomicAppendNext == \E p \in Appenders : Appender(p)

AtomicAppendFairness == \A p \in Appenders : WF_vars(Appender(p))

AtomicAppendEnds == program = "atomic_append" /\ Ended(Appenders)

(***************************************************************************)
(* Two processes that both append lose no byte; if one of them does not,   *)
(* the file still holds as many bytes as either of them wrote.             *)
(***************************************************************************)
AppendsKept ==
  AtomicAppendEnds =>
    /\ mem.size \in Bytes .. 2 * Bytes
    /\ (\A p \in Appenders : ~mem.x[p]) => mem.size = 2 * Bytes

=============================================================================
