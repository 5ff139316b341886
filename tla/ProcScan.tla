------------------------------ MODULE ProcScan ------------------------------
(***************************************************************************)
(* procfs/userfsact.c and procfs/useract.c: a walk over /proc, by rising   *)
(* number, while processes begin, end and change.  userfsact looks for a   *)
(* file behind the descriptors 0, 1, ... of each process; useract looks at *)
(* its user once, in its status file.                                      *)
(*                                                                         *)
(* has[p] holds what of process p the program would accept: descriptors    *)
(* open on the file, or 0 alone if the process belongs to the user.        *)
(***************************************************************************)
EXTENDS Unix

CONSTANTS
  LastPid,     \* the numbers of processes are 1 .. LastPid
  FopenMax,    \* FOPEN_MAX
  MaxChanges   \* bound on what the other processes do

ASSUME ProcScanAssumption == {LastPid, FopenMax, MaxChanges} \subseteq Nat

Pids == 1 .. LastPid

ScanPrograms == {"userfsact", "useract"}

Places(name) == IF name = "userfsact" THEN 0 .. FopenMax - 1 ELSE {0}

\* The program begins beside the processes that exist, with what they have.
\* ever and throughout hold what was accepted at some time, and all the time.
ScanAmong(name, alive, has) ==
  Begin(name, [scan |-> "readdir"],
        [alive |-> alive, has |-> has, entries |-> {}, at |-> 0, fdnum |-> 0,
         path |-> <<>>, opened |-> FALSE, printed |-> <<>>, changes |-> 0,
         ever |-> {p \in Pids : has[p] # {}},
         throughout |-> {pn \in Pids \X Places(name) : pn[2] \in has[pn[1]]}],
        <<>>)

ScanInit ==
  \E name \in ScanPrograms : \E alive \in SUBSET Pids :
    \E has \in [Pids -> SUBSET Places(name)] :
      (\A p \in Pids \ alive : has[p] = {}) /\ ScanAmong(name, alive, has)

-----------------------------------------------------------------------------
\* The program

\* getdents(2): readdir has used up the entries it has, and the kernel gives it
\* those of some more processes, or none.
FetchEntries(name) ==
  \/ \E last \in Pids :
       /\ Compute(name, "scan", "readdir", "readdir",
                  [mem EXCEPT !.entries = {p \in mem.alive : mem.at < p /\ p <= last}])
       /\ mem.entries = {} /\ last > mem.at /\ last \in mem.alive
  \/ /\ Goto(name, "scan", "readdir", "done")
     /\ mem.entries = {} /\ \A p \in mem.alive : p <= mem.at

\* The next entry; its number begins the path.
ReadEntry(name) ==
  \E p \in Pids :
    /\ Compute(name, "scan", "readdir", "look",
               [mem EXCEPT !.entries = @ \ {p}, !.at = p, !.fdnum = 0, !.path = <<>>])
    /\ p \in mem.entries /\ \A q \in mem.entries : p <= q

\* Mutant of Longer: the descriptor before is left in the path.
LongerStill(path, n) == Append(path, n)

\* The path with a descriptor appended to it; the one before was cut off.
Longer(path, n) == <<n>>

\* readlink, which fails if there is no such process or descriptor.
ReadLink ==
  /\ program = "userfsact" /\ pc["scan"] = "look"
  /\ LET path == Longer(mem.path, mem.fdnum)
         found == \E n \in mem.has[mem.at] : path = <<n>>
         last == mem.fdnum + 1 = FopenMax
     IN  Compute("userfsact", "scan", "look",
                 IF found \/ last THEN "readdir" ELSE "look",
                 [mem EXCEPT !.path = path, !.fdnum = @ + 1,
                             !.printed = IF found THEN Append(@, mem.at) ELSE @])

\* wtchprocstatus: fopen fails if the process has gone
OpenStatus ==
  LET there == mem.at \in mem.alive
  IN  Compute("useract", "scan", "look", IF there THEN "read" ELSE "readdir",
              [mem EXCEPT !.opened = there])

\* fgets reads nothing if the process has gone since.
ReadStatus ==
  Compute("useract", "scan", "read", "readdir",
          [mem EXCEPT !.opened = FALSE,
                      !.printed = IF mem.opened /\ mem.has[mem.at] # {}
                                  THEN Append(@, mem.at) ELSE @])

Scan ==
  \/ ReadLink \/ OpenStatus \/ ReadStatus
  \/ \E name \in ScanPrograms : FetchEntries(name) \/ ReadEntry(name)

-----------------------------------------------------------------------------
\* The processes

\* Processes alive and what they have, after a change.  A file that was opened
\* belongs to the process that had the number then.
Change(alive, has, opened) ==
  /\ mem.changes < MaxChanges
  /\ mem' = [mem EXCEPT
       !.alive = alive, !.has = has, !.opened = opened, !.changes = @ + 1,
       !.ever = @ \cup {p \in Pids : has[p] # {}},
       !.throughout = {pn \in @ : pn[2] \in has[pn[1]]}]
  /\ UNCHANGED <<program, pc, kernel>>

ProcessBegins ==
  \E p \in Pids : \E accepted \in SUBSET {0} :
    /\ program \in ScanPrograms /\ pc["scan"] # "done"
    /\ p \notin mem.alive
    /\ Change(mem.alive \cup {p}, [mem.has EXCEPT ![p] = accepted], mem.opened)

ProcessEnds ==
  \E p \in Pids :
    /\ program \in ScanPrograms /\ pc["scan"] # "done"
    /\ p \in mem.alive
    /\ Change(mem.alive \ {p}, [mem.has EXCEPT ![p] = {}],
              mem.opened /\ p # mem.at)

\* It opens the file or closes it, or becomes the user or another.
ProcessChanges ==
  \E p \in Pids : \E n \in Places(program) :
    /\ program \in ScanPrograms /\ pc["scan"] # "done"
    /\ p \in mem.alive
    /\ Change(mem.alive,
              [mem.has EXCEPT ![p] = IF n \in @ THEN @ \ {n} ELSE @ \cup {n}],
              mem.opened)

-----------------------------------------------------------------------------

ProcScanNext == Scan \/ ProcessBegins \/ ProcessEnds \/ ProcessChanges

ProcScanFairness == WF_vars(Scan)

ProcScanEnds == program \in ScanPrograms /\ pc["scan"] = "done"

(***************************************************************************)
(* Each process is printed once at most.  What is printed was accepted at  *)
(* some time of the walk, and what was accepted all the time, under one    *)
(* descriptor, is printed, whatever other processes do (userfsact.c:92,    *)
(* useract.c:78-92).                                                       *)
(***************************************************************************)
ScanComplete ==
  program \in ScanPrograms =>
    /\ \A i, j \in DOMAIN mem.printed : i < j => mem.printed[i] < mem.printed[j]
    /\ \A i \in DOMAIN mem.printed : mem.printed[i] \in mem.ever
    /\ pc["scan"] = "done" =>
         \A pn \in mem.throughout : \E i \in DOMAIN mem.printed : mem.printed[i] = pn[1]

=============================================================================
