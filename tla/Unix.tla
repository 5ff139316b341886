-------------------------------- MODULE Unix --------------------------------
(***************************************************************************)
(* What the small programs of src/linux-api-kerrisk and of sema/ run on:   *)
(* the state a process or thread has in the kernel and the system calls    *)
(* they make.  None of it is in the repository; each call does what its    *)
(* callers rely on.                                                        *)
(*                                                                         *)
(* One program runs in a behaviour; its module names it in the variable    *)
(* program, and every step of the program is guarded by that name.  A      *)
(* task is a process or a thread.  Calls that fail only for lack of memory *)
(* or of processes succeed.                                                *)
(***************************************************************************)
EXTENDS Sync, Sequences, FiniteSets

VARIABLES
  program,   \* the source file whose tasks run
  pc,        \* where each task is
  mem,       \* the variables of the program, a record
  mask,      \* the signals each task blocks
  pending,   \* the signals generated for each task and not yet delivered
  queue      \* what is in each pipe, socket or message queue, oldest first

vars == <<program, pc, mem, mask, pending, queue>>

signals == <<mask, pending>>
kernel == <<mask, pending, queue>>

\* A program begins: no signal is blocked or pending.
Begin(name, labels, variables, queues) ==
  /\ program = name
  /\ pc = labels
  /\ mem = variables
  /\ mask = [p \in DOMAIN labels |-> {}]
  /\ pending = [p \in DOMAIN labels |-> {}]
  /\ queue = queues

\* Task p of the program moves from a label to a label.
Step(name, p, from, to) ==
  program = name /\ Move(pc, p, from, to) /\ UNCHANGED program

\* A step that changes the program's variables only.
Compute(name, p, from, to, variables) ==
  Step(name, p, from, to) /\ mem' = variables /\ UNCHANGED kernel

\* A step that changes nothing but where p is.
Goto(name, p, from, to) == Compute(name, p, from, to, mem)

\* pthread_create(3): the thread q starts at a label.
Create(name, p, from, to, q, label) ==
  /\ program = name
  /\ pc[p] = from
  /\ pc' = [pc EXCEPT ![p] = to, ![q] = label]
  /\ UNCHANGED <<program, mem, kernel>>

\* pthread_join(3) returns once the thread q has ended.
Join(name, p, from, to, q) ==
  Goto(name, p, from, to) /\ pc[q] = "done"

\* sigprocmask(2), pthread_sigmask(3): p blocks the signals of a set.
Block(name, p, from, to, set) ==
  /\ Step(name, p, from, to)
  /\ mask' = [mask EXCEPT ![p] = set]
  /\ UNCHANGED <<mem, pending, queue>>

\* kill(2), pthread_kill(3): a pending signal is pending once.
Kill(name, p, from, to, q, signal) ==
  /\ Step(name, p, from, to)
  /\ pending' = [pending EXCEPT ![q] = @ \cup {signal}]
  /\ UNCHANGED <<mem, mask, queue>>

\* The signals that can interrupt p now.
Deliverable(p) == pending[p] \ mask[p]

\* fork(2): the child begins at a label with the parent's mask and no pending
\* signal.
Fork(name, p, from, to, child, label) ==
  /\ program = name
  /\ pc[p] = from
  /\ pc' = [pc EXCEPT ![p] = to, ![child] = label]
  /\ mask' = [mask EXCEPT ![child] = mask[p]]
  /\ UNCHANGED <<program, mem, pending, queue>>

\* wait(2) returns once some child has exited, and the child is gone.
Wait(name, p, from, to, children) ==
  \E c \in children :
    /\ program = name
    /\ pc[p] = from
    /\ pc[c] = "zombie"
    /\ pc' = [pc EXCEPT ![p] = to, ![c] = "done"]
    /\ UNCHANGED <<program, mem, kernel>>

\* read(2) of at most n bytes from a pipe or stream takes what there is.
Fetched(q, n) ==
  SubSeq(queue[q], 1, IF Len(queue[q]) < n THEN Len(queue[q]) ELSE n)
Left(q, n) == SubSeq(queue[q], n + 1, Len(queue[q]))

\* The tasks named in a set have all ended.
Ended(tasks) == \A p \in tasks : pc[p] = "done"

=============================================================================
