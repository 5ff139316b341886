--------------------------- MODULE ReadersWriters ---------------------------
(***************************************************************************)
(* What reader-writer.c and reader-writer-nostarve.c promise: any number   *)
(* of readers together, a writer alone, and a value that only a writer     *)
(* changes, by one each time it holds the lock.                            *)
(***************************************************************************)
EXTENDS Integers

CONSTANTS Readers, Writers

VARIABLES
  reading,   \* the readers that hold the read lock
  writing,   \* the writers that hold the write lock
  wrote,     \* the writers that have written since they got the lock
  value      \* the shared int

vars == <<reading, writing, wrote, value>>

Init == reading = {} /\ writing = {} /\ wrote = {} /\ value = 0

EnterRead(r) ==
  /\ r \notin reading
  /\ writing = {}
  /\ reading' = reading \cup {r}
  /\ UNCHANGED <<writing, wrote, value>>

LeaveRead(r) ==
  /\ r \in reading
  /\ reading' = reading \ {r}
  /\ UNCHANGED <<writing, wrote, value>>

EnterWrite(w) ==
  /\ writing = {}
  /\ reading = {}
  /\ writing' = {w}
  /\ UNCHANGED <<reading, wrote, value>>

Write(w) ==
  /\ w \in writing \ wrote
  /\ value' = value + 1
  /\ wrote' = wrote \cup {w}
  /\ UNCHANGED <<reading, writing>>

LeaveWrite(w) ==
  /\ w \in writing \cap wrote
  /\ writing' = writing \ {w}
  /\ wrote' = wrote \ {w}
  /\ UNCHANGED <<reading, value>>

Next ==
  \/ \E r \in Readers : EnterRead(r) \/ LeaveRead(r)
  \/ \E w \in Writers : EnterWrite(w) \/ Write(w) \/ LeaveWrite(w)

Spec == Init /\ [][Next]_vars

=============================================================================
