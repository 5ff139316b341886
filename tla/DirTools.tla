------------------------------ MODULE DirTools ------------------------------
(***************************************************************************)
(* Programs that walk directories while somebody else changes them:        *)
(* dirsrefs/getcwd.c, which climbs from its directory to the root and      *)
(* looks for each directory in its parent; inotify/dirwatch.c, which walks *)
(* down and asks to be told of changes; and the search of PATH in          *)
(* process-execution/execlp.c.                                             *)
(***************************************************************************)
EXTENDS Unix

CONSTANTS
  Depth,        \* of the directory getcwd begins in
  MaxRenames,   \* bound on the changes made while getcwd runs
  MaxEdits,     \* bound on the changes made while dirwatch runs
  PathLength,   \* directories in PATH
  MaxInstalls   \* bound on the changes made while execlp searches

ASSUME DirToolsAssumption ==
  {Depth, MaxRenames, MaxEdits, PathLength, MaxInstalls} \subseteq Nat

-----------------------------------------------------------------------------
\* getcwd.c.  Directory 0 is the root, and d + 1 lies in d under name[d + 1].
\* Beside it there may be one other entry, a sibling: a file, or a symbolic link,
\* which is written as the name it holds.

Names == {"x", "y"}

Siblings == {"none", "file"} \cup Names

Levels == 1 .. Depth

\* at is cst, the directory sought; cwd is the process's; seen holds the names
\* readdir has given.  fresh holds the entries that were made since the open
\* directory stream began, renamed the directories that were renamed since the
\* program began, skipped those that were not found; had[d] holds the entries
\* that led to d at some time.
GetcwdInit ==
  \E name \in [Levels -> Names], sibling \in [Levels -> Siblings] :
    Begin("getcwd", [getcwd |-> "climb"],
          [name |-> name, sibling |-> sibling, at |-> Depth, cwd |-> Depth,
           entry |-> "", seen |-> {}, path |-> <<>>, failed |-> FALSE,
           changes |-> 0, renamed |-> {}, fresh |-> {}, skipped |-> {},
           had |-> [d \in Levels |->
                      {name[d]} \cup {e \in {"sibling"} : sibling[d] = name[d]}]],
          <<>>)

\* stat(".."), opendir("..") and chdir(".."), until at is the root.
Climb ==
  /\ program = "getcwd"
  /\ IF mem.at = 0 THEN Goto("getcwd", "getcwd", "climb", "return")
     ELSE Compute("getcwd", "getcwd", "climb", "readdir",
                  [mem EXCEPT !.cwd = mem.at - 1, !.seen = {}, !.fresh = {}])

\* The names in the directory that is read.
Entries ==
  {mem.name[mem.at]} \cup {e \in {"sibling"} : mem.sibling[mem.at] # "none"}

\* readdir gives a name it has not given.  It may pass over one that was made
\* since opendir; then at its end the directory may not have been found.
ReadDirectory ==
  /\ program = "getcwd" /\ pc["getcwd"] = "readdir"
  /\ \/ \E e \in Entries \ mem.seen :
          Compute("getcwd", "getcwd", "readdir", "stat",
                  [mem EXCEPT !.entry = e, !.seen = @ \cup {e}])
     \/ /\ Entries \ mem.seen \subseteq mem.fresh
        /\ Compute("getcwd", "getcwd", "readdir", "climb",
                   [mem EXCEPT !.at = @ - 1, !.skipped = @ \cup {mem.at}])

\* stat and chdir follow symbolic links.
LeadsTo(d, entry) ==
  \/ entry = mem.name[d]
  \/ entry = "sibling" /\ mem.sibling[d] = mem.name[d]

\* Mutant of PathBefore: the name is put behind the path.
PathBackwards(path, d, entry) == Append(path, <<d, entry>>)

\* "/%s%s"
PathBefore(path, d, entry) == <<<<d, entry>>>> \o path

\* stat: the entry is the directory sought, or a file, or stat fails, which ends
\* the program: the entry is gone, or a link that leads nowhere.
StatEntry ==
  /\ program = "getcwd" /\ pc["getcwd"] = "stat"
  /\ IF LeadsTo(mem.at, mem.entry)
     THEN Compute("getcwd", "getcwd", "stat", "climb",
                  [mem EXCEPT !.path = PathBefore(@, mem.at, mem.entry), !.at = @ - 1])
     ELSE IF mem.entry = "sibling" /\ mem.sibling[mem.at] = "file"
     THEN Goto("getcwd", "getcwd", "stat", "readdir")
     ELSE Compute("getcwd", "getcwd", "stat", "done", [mem EXCEPT !.failed = TRUE])

\* chdir(path), whose failure is not looked at.
ReturnPath ==
  program = "getcwd" /\
  LET resolves == \A i \in DOMAIN mem.path : LeadsTo(i, mem.path[i][2])
  IN  Compute("getcwd", "getcwd", "return", "done",
              [mem EXCEPT !.cwd = IF resolves THEN Len(mem.path) ELSE @])

Getcwd == Climb \/ ReadDirectory \/ StatEntry \/ ReturnPath

\* Somebody renames a directory in place, or makes, changes or removes a sibling.
RenameDirectory ==
  \E d \in Levels : \E n \in Names :
    /\ program = "getcwd" /\ pc["getcwd"] # "done"
    /\ mem.changes < MaxRenames /\ n # mem.name[d]
    /\ mem' = [mem EXCEPT !.name[d] = n, !.changes = @ + 1, !.renamed = @ \cup {d},
                 !.fresh = @ \cup {e \in {n} : d = mem.at},
                 !.had[d] = @ \cup {n} \cup {e \in {"sibling"} : mem.sibling[d] = n}]
    /\ UNCHANGED <<program, pc, kernel>>

ChangeSibling ==
  \E d \in Levels : \E s \in Siblings :
    /\ program = "getcwd" /\ pc["getcwd"] # "done"
    /\ mem.changes < MaxRenames /\ s # mem.sibling[d]
    /\ mem' = [mem EXCEPT !.sibling[d] = s, !.changes = @ + 1,
                 !.fresh = @ \cup {e \in {"sibling"} : d = mem.at},
                 !.had[d] = @ \cup {e \in {"sibling"} : s = mem.name[d]}]
    /\ UNCHANGED <<program, pc, kernel>>

(***************************************************************************)
(* The path has one name for each directory from the root down, an entry   *)
(* that led to it at some time while the program ran: its name, or a link  *)
(* beside it, which stat follows.  Only a directory that was renamed       *)
(* meanwhile may be left out, and nothing tells that it was.  If none was  *)
(* renamed and there never was a link to one, the path is exact; if none   *)
(* was renamed and all that led to one still does, the process is back     *)
(* where it began (getcwd.c:33-77).                                        *)
(***************************************************************************)
PathExact ==
  program = "getcwd" /\ pc["getcwd"] = "done" /\ ~mem.failed =>
    /\ {mem.path[i][1] : i \in DOMAIN mem.path} = Levels \ mem.skipped
    /\ \A i, j \in DOMAIN mem.path : i < j => mem.path[i][1] < mem.path[j][1]
    /\ \A i \in DOMAIN mem.path : mem.path[i][2] \in mem.had[mem.path[i][1]]
    /\ mem.skipped \subseteq mem.renamed
    /\ mem.renamed = {} =>
         /\ (\A d \in Levels : mem.had[d] = {mem.name[d]}) =>
              mem.path = [d \in Levels |-> <<d, mem.name[d]>>]
         /\ (\A d \in Levels : \A e \in mem.had[d] : LeadsTo(d, e)) => mem.cwd = Depth

-----------------------------------------------------------------------------
\* dirwatch.c, on a tree of at most four directories.

Directories == {"top", "a", "b", "c"}
ParentOf(d) == CASE d = "a" -> "top" [] d = "b" -> "a" [] OTHER -> "top"
ChildrenOf(d) == {c \in Directories \ {"top"} : ParentOf(c) = d}

\* found holds the directories nftw has yet to visit, entry the one it visits;
\* made those that were made since the program began, refused those that got no
\* watch though they were there, and missed those where something was changed,
\* after the walk, and no event told of it.
DirwatchInit ==
  \E exists \in SUBSET Directories :
    /\ "top" \in exists /\ \A d \in exists : ParentOf(d) \in exists
    /\ Begin("dirwatch", [watch |-> "watch"],
             [exists |-> exists, watched |-> {}, found |-> {}, entry |-> "top",
              aborted |-> FALSE, edits |-> 0, made |-> {}, refused |-> {},
              missed |-> {}],
             [inotify |-> <<>>])

\* inotify_add_watch(dirpath), and nftw begins there.
WatchTop ==
  Compute("dirwatch", "watch", "watch", "walk",
          [mem EXCEPT !.watched = {"top"}, !.found = {"top"}])

\* nftw takes one of the entries it has found.  One that is gone is reported
\* without its status, and has no watch added.
VisitEntry ==
  \E d \in Directories :
    /\ Compute("dirwatch", "watch", "walk",
               IF d \in mem.exists THEN "opendir" ELSE "walk",
               [mem EXCEPT !.found = @ \ {d}, !.entry = d])
    /\ d \in mem.found

\* It opens a directory before it reports it; if that fails because the
\* directory is gone, the walk ends there.
OpenEntry ==
  /\ program = "dirwatch"
  /\ IF mem.entry \in mem.exists
     THEN Goto("dirwatch", "watch", "opendir", "process")
     ELSE Compute("dirwatch", "watch", "opendir", "walk",
                  [mem EXCEPT !.found = {}, !.aborted = TRUE])

\* Mutant of Process: the test for a directory fails.
ProcessNothing == Goto("dirwatch", "watch", "process", "list")

\* process adds a watch, if the directory is still there.  inotify_add_watch may
\* fail all the same (too many watches, no permission): process says so and
\* returns 0, and the walk goes on.
Process ==
  \/ Compute("dirwatch", "watch", "process", "list",
             [mem EXCEPT !.watched = @ \cup ({mem.entry} \cap mem.exists)])
  \/ Compute("dirwatch", "watch", "process", "list",
             [mem EXCEPT !.refused = @ \cup ({mem.entry} \cap mem.exists)])

ListEntries ==
  Compute("dirwatch", "watch", "list", "walk",
          [mem EXCEPT !.found = @ \cup (ChildrenOf(mem.entry) \cap mem.exists)])

\* nftw returns.
WalkEnds == Goto("dirwatch", "watch", "walk", "read") /\ mem.found = {}

\* read and display_inotify_event
DisplayEvent ==
  /\ Step("dirwatch", "watch", "read", "read")
  /\ queue.inotify # <<>>
  /\ queue' = [queue EXCEPT !.inotify = Tail(@)]
  /\ UNCHANGED <<mem, signals>>

Dirwatch ==
  \/ WatchTop \/ VisitEntry \/ OpenEntry \/ Process \/ ListEntries
  \/ WalkEnds \/ DisplayEvent

\* Somebody makes a directory or removes an empty one; the event goes to the
\* watch on the directory it is in, and a watch ends with its directory.
EditTree ==
  \E d \in Directories \ {"top"} :
    /\ program = "dirwatch" /\ mem.edits < MaxEdits
    /\ ParentOf(d) \in mem.exists /\ ChildrenOf(d) \cap mem.exists = {}
    /\ LET told == ParentOf(d) \in mem.watched
           exists == IF d \in mem.exists THEN mem.exists \ {d} ELSE mem.exists \cup {d}
       IN  /\ mem' = [mem EXCEPT
                 !.exists = exists, !.edits = @ + 1,
                 !.watched = @ \cap exists,
                 !.made = @ \cup (exists \ mem.exists),
                 !.missed = IF told \/ pc["watch"] # "read" THEN @
                            ELSE @ \cup {ParentOf(d)}]
           /\ queue' = IF told THEN [queue EXCEPT !.inotify = Append(@, d)] ELSE queue
    /\ UNCHANGED <<program, pc, signals>>

(***************************************************************************)
(* When the walk is over every directory that was there from the start is  *)
(* watched, but those that were refused a watch, which was said, unless a  *)
(* directory vanished from under nftw and ended the walk.  After it        *)
(* changes are missed only inside directories that were refused a watch or *)
(* made since the start, however soon the directory above told of them     *)
(* (dirwatch.c:37-51, :84).                                                *)
(***************************************************************************)
WatchesComplete ==
  program = "dirwatch" /\ pc["watch"] = "read" /\ ~mem.aborted =>
    /\ mem.exists \ mem.made \subseteq mem.watched \cup mem.refused
    /\ mem.missed \subseteq mem.made \cup mem.refused

-----------------------------------------------------------------------------
\* execlp.c: PATH names directories; in each the command is missing, is a file
\* that is not executable, one its owner alone may execute, or a program.

Files == {"none", "plain", "owners", "program"}

LooksExecutable == {"owners", "program"}   \* st_mode & S_IXUSR

\* always holds the directories where the command looked executable throughout;
\* stale: what stat found has been changed since.
ExeclpInit ==
  \E file \in [1 .. PathLength -> Files] :
    Begin("execlp", [exec |-> "stat"],
          [file |-> file, dir |-> 1, installs |-> 0, fullpath |-> 0, stale |-> FALSE,
           always |-> {i \in 1 .. PathLength : file[i] \in LooksExecutable}], <<>>)

\* Mutant of TryDirectory: the search does not stop at what it finds.
TryEveryDirectory ==
  program = "execlp" /\
  LET found == mem.file[mem.dir] \in LooksExecutable
      fullpath == IF found THEN mem.dir ELSE mem.fullpath
  IN  Compute("execlp", "exec", "stat",
              IF mem.dir < PathLength THEN "stat"
              ELSE IF fullpath = 0 THEN "not found" ELSE "execve",
              [mem EXCEPT !.fullpath = fullpath, !.dir = @ + 1])

\* The loop of PATHContains.
TryDirectory ==
  program = "execlp" /\
  LET found == mem.file[mem.dir] \in LooksExecutable
  IN  Compute("execlp", "exec", "stat",
              IF found THEN "execve"
              ELSE IF mem.dir < PathLength THEN "stat" ELSE "not found",
              [mem EXCEPT !.fullpath = IF found THEN mem.dir ELSE @,
                          !.dir = @ + 1])

\* execve, and errExit if it fails.
Execve ==
  program = "execlp" /\
  Goto("execlp", "exec", "execve",
       IF mem.file[mem.fullpath] = "program" THEN "program" ELSE "failed")

Execlp == TryDirectory \/ Execve

\* Somebody installs or removes the command somewhere.
Install ==
  \E i \in 1 .. PathLength : \E f \in Files :
    /\ program = "execlp" /\ pc["exec"] \in {"stat", "execve"}
    /\ mem.installs < MaxInstalls /\ f # mem.file[i]
    /\ mem' = [mem EXCEPT !.file[i] = f, !.installs = @ + 1,
                 !.stale = @ \/ (pc["exec"] = "execve" /\ i = mem.fullpath),
                 !.always = IF f \in LooksExecutable THEN @ ELSE @ \ {i}]
    /\ UNCHANGED <<program, pc, kernel>>

(***************************************************************************)
(* The command that is executed, or tried, is in no later directory than   *)
(* the first where one was all the time, and "command not found" is said   *)
(* only if there was none (execlp.c:31-44, :82-90).  What is tried is what *)
(* stat found, unless it was changed in between: then anything may be      *)
(* there.  Else the execution fails only at a file whose owner alone may   *)
(* execute it, though a directory behind may have the program.             *)
(***************************************************************************)
FirstInPath ==
  program = "execlp" =>
    /\ pc["exec"] \in {"execve", "program", "failed"} =>
         \A i \in mem.always : i >= mem.fullpath
    /\ pc["exec"] = "not found" => mem.always = {}
    /\ pc["exec"] \in {"execve", "program", "failed"} /\ ~mem.stale =>
         mem.file[mem.fullpath] \in LooksExecutable
    /\ pc["exec"] = "failed" /\ ~mem.stale => mem.file[mem.fullpath] = "owners"

-----------------------------------------------------------------------------

DirToolsInit == GetcwdInit \/ DirwatchInit \/ ExeclpInit

DirToolsNext ==
  \/ Getcwd \/ RenameDirectory \/ ChangeSibling
  \/ Dirwatch \/ EditTree
  \/ Execlp \/ Install

DirToolsFairness == WF_vars(Getcwd) /\ WF_vars(Dirwatch) /\ WF_vars(Execlp)

DirToolsEnds ==
  \/ program = "getcwd" /\ Ended({"getcwd"})
  \/ program = "dirwatch" /\ pc["watch"] = "read" /\ queue.inotify = <<>>
  \/ program = "execlp" /\ pc["exec"] \in {"not found", "program", "failed"}

=============================================================================
