----------------------------- MODULE PathManip -----------------------------
(***************************************************************************)
(* POSIXthreads-thrdsf-lclstrg/pathmanip_threadsafe.c: my_basename returns *)
(* a buffer that belongs to the calling thread.  The first call of a       *)
(* thread allocates it and stores it under a key made once; the key's      *)
(* destructor frees it when the thread exits.  malloc may return any free  *)
(* address, one that was freed before too.                                 *)
(*                                                                         *)
(* What the basename is does not matter here: text is the thread whose     *)
(* call wrote a buffer last.  The 0 at buf[PATH_MAX] is one past what was  *)
(* asked for and inside what malloc rounds it up to.                       *)
(***************************************************************************)
EXTENDS Unix

Namers == {"t1", "t2"}

\* What malloc can return.
Addresses == 1..2

PathManipInit ==
  Begin("pathmanip", [t1 |-> "new", t2 |-> "new", main |-> "create1"],
        [key |-> FALSE, used |-> {}, text |-> [a \in Addresses |-> ""],
         specific |-> [t \in Namers |-> 0], result |-> [t \in Namers |-> 0]],
        <<>>)

CreateNamers ==
  \/ Create("pathmanip", "main", "create1", "create2", "t1", "once")
  \/ Create("pathmanip", "main", "create2", "join1", "t2", "once")

\* pthread_once: the first caller makes the key.
MakeKey(t) ==
  Compute("pathmanip", t, "once", "get", [mem EXCEPT !.key = TRUE])

\* pthread_getspecific
GetSpecific(t) ==
  Goto("pathmanip", t, "get", IF mem.specific[t] = 0 THEN "malloc" ELSE "copy")

\* Mutant of AllocBuffer: one static buffer, as basename_result was.
StaticBuffer(t) ==
  Compute("pathmanip", t, "malloc", "copy",
          [mem EXCEPT !.used = {1}, !.specific[t] = 1])

\* malloc and pthread_setspecific
AllocBuffer(t) ==
  \E a \in Addresses :
    /\ Compute("pathmanip", t, "malloc", "copy",
               [mem EXCEPT !.used = @ \cup {a}, !.specific[t] = a])
    /\ a \notin mem.used

\* The copy into the buffer, which is returned and given to pthread_exit.
CopyName(t) ==
  Compute("pathmanip", t, "copy", "exit",
          [mem EXCEPT !.text[mem.specific[t]] = t, !.result[t] = mem.specific[t]])

\* The key's destructor frees the buffer before the thread can be joined.
Destructor(t) ==
  Compute("pathmanip", t, "exit", "done",
          [mem EXCEPT !.used = @ \ {mem.specific[t]}, !.specific[t] = 0])

JoinNamers ==
  \/ Join("pathmanip", "main", "join1", "join2", "t1")
  \/ Join("pathmanip", "main", "join2", "print", "t2")

\* main prints the two results.
PrintNames == Goto("pathmanip", "main", "print", "done")

PathManipMain == CreateNamers \/ JoinNamers \/ PrintNames

Namer(t) ==
  \/ MakeKey(t) \/ GetSpecific(t) \/ AllocBuffer(t) \/ CopyName(t)
  \/ Destructor(t)

PathManipNext == PathManipMain \/ \E t \in Namers : Namer(t)

PathManipFairness ==
  WF_vars(PathManipMain) /\ \A t \in Namers : WF_vars(Namer(t))

PathManipEnds == program = "pathmanip" /\ Ended({"main", "t1", "t2"})

(***************************************************************************)
(* "function became threadsafe" (pathmanip_threadsafe.c:50-53): no two     *)
(* threads have one buffer, and what a thread has put into its buffer is   *)
(* there until the thread has exited.                                      *)
(***************************************************************************)
BuffersPrivate ==
  program = "pathmanip" =>
    \A t \in Namers :
      /\ pc[t] = "exit" => mem.text[mem.specific[t]] = t
      /\ pc[t] \in {"copy", "exit"} =>
           /\ mem.specific[t] \in mem.used
           /\ \A u \in Namers \ {t} : mem.specific[u] # mem.specific[t]

(***************************************************************************)
(* main prints from memory that is no longer allocated: pthread_join has   *)
(* returned, so the destructors have run (pathmanip_threadsafe.c:164-167). *)
(***************************************************************************)
ResultsFreed ==
  program = "pathmanip" /\ pc["main"] = "print" =>
    \A t \in Namers : mem.result[t] \notin mem.used

=============================================================================
