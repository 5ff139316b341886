# TLA+ verification of operating-systems-theory-and-practice

The repository is a collection of small C programs written along three books:
*Operating Systems: Three Easy Pieces*, *The Linux Programming Interface* and
*UNIX Network Programming*. There is no common application. Each program is a
system of its own: a few threads or processes, some shared state, and a claim
about what they do together that its author checked by running it.

This directory states those claims and checks them over every interleaving the
kernel may choose. The programs with an algorithm of their own have a module
each; the small ones, which are little more than the system calls they make,
have a module per program or per kind of program, all over one module that
states what the kernel does for them. The modules are checked with TLC on small
instances, and every safety property that a passing run checks is also proved
with TLAPS, for instances of every size.

Contents: [inventory](#inventory), [modules](#modules-and-their-code),
[runs](#what-each-run-checks-and-shows), [fairness](#fairness),
[proofs](#what-is-proved), [findings](#findings),
[not modelled](#what-is-not-modelled), [plan](#plan).

## Inventory

### Thread programs, `src/os-three-easy-pieces/concurrency`

| program | state | operations | interaction | what is hard | what makes it correct |
|---|---|---|---|---|---|
| `counter.c` | a value, a mutex | `inc`, `dec`, `get`, `incloop`; a test with 1 to 4 loopers | shared counter | `++` is a load and a store; the limit is tested before the increment; the loop is left under the lock | every call is atomic; the counter ends at `LIMIT` exactly; all threads are joined |
| `buffer.c` | ring of `MAX` slots, `fill`, `use`, three semaphores | `put`, `get`, `producer`, `consumer` | semaphores `empty`, `full`, `mutex` | equal indices mean both full and empty; `put` and `get` are two assignments | FIFO delivery, nothing lost, duplicated or overwritten; nobody left asleep |
| `sema/reader-writer.c` | `readers`, semaphores `lock` and `writelock` | acquire and release for either role | first reader in, last reader out handle `writelock` for the group | the first reader sleeps on `writelock` with `lock` in hand | writers alone, readers together; no lost write; all joined |
| `sema/reader-writer-nostarve.c` | the same and `fair_lock` | the same | `fair_lock` queues readers behind a writer | three nested semaphores; endless readers | the same, and a writer at the door is not overtaken |
| `sema/zemaphore.c` | value, mutex, condition variable | `zem_wait`, `zem_post` | condition variable | one signal per post, spurious wake-ups, a unit taken by a newcomer | a counting semaphore; no lost wake-up |
| `sema/barrier.c` | count, threshold, two semaphores | `barrier` | opener posts for everybody | the opener may leave while others still have to wait; late arrivals | nobody passes before all have arrived; all joined |
| `sema/ns_mutex.c` | queue of nodes, one semaphore per node, `glock` | acquire (enqueue and wait), release (dequeue, post, free) | nodes handed from thread to thread | nodes freed under their owners; addresses used again; the emptied queue | mutual exclusion (which the code does not provide), a sound queue |
| `lock_coupling.c` | list of nodes with a mutex each | insert, delete, print, free | hand-over-hand locking | unlink and free beside walking threads; malloc failing | no freed node is touched; calls act in the order of the head's lock; no leak |
| `approximate_counter.c` | a global count, one local count per CPU, a mutex each | update, get | local counts flushed to the global one | nested locks; several threads per CPU; flush in two stores | nothing lost or counted twice; `get` lags by a known bound |
| `sema/fork-join.c`, `sema/randezvous.c` | one or two semaphores | post, wait | order between threads | a post before or after the wait for it | the printed order |

### Processes, `src/linux-api-kerrisk`

| program | state | interaction | what is hard | what would make it correct |
|---|---|---|---|---|
| `pipesFIFOs/seqnum` | number file, server FIFO, a FIFO per client | requests and answers over FIFOs; SIGINT and SIGTERM remove the FIFO | crash between answer, truncation and store; client slower than server; stale FIFO | no number twice; no request forgotten |
| `POSIXthreads-sync/thread_incr.c` | an int without a lock | two threads | lost updates | (an example of a race) bounds of the result |
| `POSIXthreads-thrdsf-lclstrg/one_time_init.c` | flag, mutex | any threads | once only, and finished before anybody goes on | exactly one call of the routine |
| `POSIXthreads-thrdsf-lclstrg/pathmanip_threadsafe.c` | a buffer per thread, freed at its exit | `main` prints the buffers of joined threads | use after free | (not provided) |
| `POSIXthreads-further-details/independant_thrd_sigmask.c` | four flags, two mutexes, four condition variables, two pending sets | `main` and two threads | wake-ups, order of signal and report | each thread reports its signal as pending; all joined |
| `pipesFIFOs/to_uppercase.c` | two pipes | parent and child | end of input, partial writes | every line comes back; at the end both stop (not provided) |
| `POSIX-mqueue` (`pmsg_*`, `mq_notify_sig.c`) | a queue, a registration | a signal per empty-to-nonempty change | a receiver that waits takes the message and no signal is sent; a message before the wait | no message or notification lost |
| `POSIX-mqueue/msg_exchange.c` | two queues, two names | two processes for each of two users, SIGINT | four cleaners remove the same names while a user opens them | the users share both queues; no name is left |
| `sockets-UNIX-domain` | stream or datagram queue, the socket's file | clients and server | blocking on a full queue; a server started again | bytes arrive once and in order; the next server can bind (not provided) |
| `pgrps-sessions-taskmngmnt` | pending and blocked signals, process groups, parents | a parent suspends twice for two children's signals; a child waits to be adopted | both signals handled in one suspend; a subreaper | groups are changed in time; the parent comes to its end (not provided) |
| `child-process-monitoring`, `procres/rusage_child_wait.c`, `process-execution/27_6.c` | process table, SIGCHLD | fork, signal, wait | order of a child's death and its parent's wait | no signal missed, no zombie left |
| `signals-intro`, `signals-addfeatures/SIGCONT_is_weird.c` | masks, pending sets, handlers | signals from outside | merged signals, interrupted calls, an uninitialised `sa_flags` | each signal is counted or merged with one that was pending |
| `fileio/atomic_append.c` | the file's size, two offsets | two appending processes | seek and write apart | with `O_APPEND` no byte is overwritten |
| `fileio/mytee.c`, `fbufio/tail.c`, `mmaps/cp.c` | files, a buffer | somebody who appends to or truncates the file | short writes, lines across buffers, a file named twice, a mapping beyond the end | the output is what the input says |
| `dirsrefs/getcwd.c`, `inotify/dirwatch.c`, `process-execution/execlp.c` | directories, watches, `PATH` | somebody who renames, makes and removes | what was seen is changed when it is used | an entry that led there at its time; a watch on each directory, or word that there is none; the first file in `PATH` |
| `procfs/userfsact.c`, `procfs/useract.c` | the walk over `/proc` | processes that begin and end | a number used again | what stays is found, what is reported was true |
| `fileattrs`, `xattrs`, `procpri`, `syslim`, `vmops`, `procid`, `proc`, `daemons`, `getpwnam.c` | none of their own | single calls | nothing concurrent | - |
| `error_functions.c`, `essentials*.h` | none | called by the others | - | `errExit` ends the process |

`src/os-three-easy-pieces/{intro,mem_api,proc_api}` and
`src/stevens-fst-volume` are exercises of a few lines each. `mem_api/vector.c`, a
growing array, is the one with state worth a model: its capacity is counted in
ints and handed to `realloc` as bytes.

`PROJECT.json` lists every component with its sources, and the hazards with
the line at which each one bites.

## Modules and their code

Conventions of all modules:

- One action per statement that reads or writes shared state. An action is
  named for the statement, the program counter `pc` for the statement to come.
  `x++` and `x += y` on shared variables are a load into a register and a
  store, so that only a lock makes them one step. Where a lock held at that
  point makes a finer step unobservable (the unlinking in `NsMutex` and
  `LockCoupling`), the comment at the action says so.
- POSIX semaphores and mutexes are not part of the repository. `Sync` models
  them by what the programs rely on: `sem_wait` passes when the value is
  positive, a mutex admits one holder, and nothing is said about who is woken.
- Error paths that only report and end the program (`errExit` on a failing
  `pthread_create`, `sem_init`, and the like) are left out; errors another
  actor can cause (a file removed, a queue full, a process gone) are modelled,
  and `malloc` failing where the program goes on after it (`LockCoupling`).
- `printf`, `sleep` and time measurements change no state and are left out,
  except where the order of the lines is the point (`SemOrder`).
- Operators whose comment begins "Mutant of" are not part of `Next`. They are
  the plausible mistakes that each property is known to catch.

| module | code | abstract specification | proofs |
|---|---|---|---|
| `Counter` | `counter.c` | `AtomicCounter` | `CounterProofs` |
| `Buffer` | `buffer.c` | `BoundedFIFO` | `BufferProofs` |
| `RWLock` | `sema/reader-writer.c`, `sema/reader-writer-nostarve.c` | `ReadersWriters` | `RWLockProofs` |
| `Zemaphore`, `MCZemaphore` | `sema/zemaphore.c` | `CountingSemaphore` | `ZemaphoreProofs` |
| `Barrier` | `sema/barrier.c` | `Rendezvous` | `BarrierProofs` |
| `NsMutex` | `sema/ns_mutex.c` | | `ZemaphoreProofs` |
| `LockCoupling` | `lock_coupling.c` | the list of the serial order, in history variables | `ListProofs` |
| `ApproxCounter` | `approximate_counter.c` | `LaggingCounter` | `CounterProofs` |
| `FifoSeqnum` | `pipesFIFOs/seqnum` | | `CounterProofs` |
| `ThreadIncr` | `POSIXthreads-sync/thread_incr.c` | | `ProgramsProofs` |
| `AtomicAppend` | `fileio/atomic_append.c` | | `ProgramsProofs` |
| `OneTimeInit` | `POSIXthreads-thrdsf-lclstrg/one_time_init.c` | | `ProgramsProofs` |
| `SemOrder` | `sema/fork-join.c`, `sema/randezvous.c` | | `ProgramsProofs` |
| `Sigmask` | `POSIXthreads-further-details/independant_thrd_sigmask.c` | | `ProgramsProofs` |
| `PathManip` | `POSIXthreads-thrdsf-lclstrg/pathmanip_threadsafe.c` | | `ProgramsProofs` |
| `ChgPgid` | `pgrps-sessions-taskmngmnt/chg_pgid_for_diff_descendants.c`, `helper.c` | | `ProgramsProofs` |
| `ChildWait` | `make_zombie_sync.c`, `rusage_child_wait.c`, `27_6.c` | | `ProgramsProofs` |
| `Orphans` | `orphan_read.c`, `orphans_sig_trickies.c`, `new_parent_init.c` | | `ProgramsProofs` |
| `SigReceiver` | `signals-intro/sig_receiver.c`, `siginterrupt.c`, `signals-addfeatures/SIGCONT_is_weird.c` | | `ProgramsProofs` |
| `ToUppercase` | `pipesFIFOs/to_uppercase.c` | | `ProgramsProofs` |
| `UsXfr` | `sockets-UNIX-domain/us-xfr` | | `ProgramsProofs` |
| `SlowReader` | `sockets-UNIX-domain/slow-reader-fast-sender` | | `ProgramsProofs` |
| `MsgExchange` | `POSIX-mqueue/msg_exchange.c` | | `ProgramsProofs` |
| `MqNotify` | `POSIX-mqueue/pmsg_create.c`, `pmsg_send.c`, `pmsg_receive.c`, `mq_notify_sig.c` | | `ProgramsProofs` |
| `FileTools` | `fbufio/tail.c`, `fileio/mytee.c`, `mmaps/cp.c` | | `ProgramsProofs` |
| `DirTools` | `dirsrefs/getcwd.c`, `inotify/dirwatch.c`, `process-execution/execlp.c` | | `ProgramsProofs` |
| `ProcScan` | `procfs/userfsact.c`, `procfs/useract.c` | | `ProgramsProofs` |
| `Vector` | `mem_api/vector.c` | | `ProgramsProofs` |
| `MCPrograms` | the modules from `ThreadIncr` to `Vector` in one run | | `ProgramsProofs` |
| `Unix` | the kernel, as those modules use it | | |
| `Sync` | POSIX, as used | | |
| `Counting` | lemmas on cardinalities and sums for the proofs | | itself |

**Counter.** `Loopers` run `incloop` as `test_for_n_threads` starts them;
`Clients` call `inc`, `dec` and `get`, the rest of the file's interface. `rv`
is the local of that name in the three operations. In `AtomicCounter` a call goes
through three phases (called, effective, returned): it takes effect once, and by the
amount its operation stands for.

**Buffer.** `put` is `Store` and `AdvanceFill`, `get` is `Load` and
`AdvanceUse`. A put item carries its producer beside the int, to tell equal
ints apart. The file does not compile as it stands: `loops` is not declared in it,
and `get` is declared `void` with an `int` parameter but returns a value and is called
without one; and its `main` starts no thread. Threads and `loops` are constants here,
and `get` is what its body and its caller say.

**RWLock.** The two programs differ by `fair_lock` alone; `fair`, chosen in the
initial state, is whether it is there. Every semaphore operation and every
access to `readers` and `value` is a step. `endless` makes the readers iterate
for ever: whether a writer is served must then depend on `fair_lock` and not on
the readers running out.

**Zemaphore.** A thread in `pthread_cond_wait` is "asleep" until it is
signalled or wakes spuriously, and then has to lock the mutex again.
`zem_init` may be given a negative value, as an `int` allows. The file gives
`pthread_cond_init` and `pthread_mutex_init` one argument (:12-13), which does not
compile; they are modelled as meant, with default attributes.

**Barrier.** `main` creates the children one by one, so that some are at the
barrier before others exist, and joins them in order.

**NsMutex.** A node is the address `malloc` gave it, and a freed address may be
given out again. The code waits on and links to freed nodes; what it finds
there is left to the allocator: a wait for a freed semaphore may return or not
return, a store to a freed node's `next` is kept.

**LockCoupling.** The threads find a list earlier calls have left, with equal
values in it, and call insert and delete on it. Three history variables hold
the list as it would be if every call took place when it locks the head: `serial`
is its nodes, `rank` orders them, and `target` is the node that a delete will find
in it. No step of the code depends on them.

**ApproxCounter.** A thread belongs to the CPU `threadID % NUMCPUS`, and three
threads on two CPUs make two of them share a local count. `returned` is a
history variable, the sum of the updates that have returned.

**FifoSeqnum.** A FIFO that was removed and made again is another one: inode
numbers tell them apart. Its content is lost when nobody has it open. Opening
for writing waits for a reader and the other way round, but for the server's
non-blocking open of a client's FIFO. The server can be killed at every step
(its FIFO stays) or be stopped by a signal (its handler removes it), and be
started again; clients can be killed. `torn` records a stop between an answer
started again; clients can be killed. `torn` records a stop between an answer
and the end of the store that follows it, `dropped` the clients the server has
turned away, and `lost` those whose request died with the server or its FIFO. The
client passes on whatever `atoi` makes of its argument, so that lengths are integers,
negative ones too.

### The programs over `Unix`

`Unix` has the variables: `program`, the one whose behaviour this is; `pc`;
`mem`, a record of the program's own variables; `mask` and `pending`, the signals
each task blocks and has pending; `queue`, the content of pipes, sockets and
message queues. `Begin` sets them up; `Step`, `Compute` and `Goto` move a task
from a label to the next; `Create`, `Join`, `Fork`, `Wait`, `Block` and `Kill` are
the system calls several programs make. Each module defines `...Init`, `...Next`,
`...Fairness` and `...Ends` of its program, and `MCPrograms` is their
disjunction: a behaviour of it is a behaviour of one program. The names in
`NsMutex`, `ApproxCounter` and `FifoSeqnum` carry a prefix (`NsNext`, `ApproxNext`,
`SeqnumNext`), so that one module of proofs can be about two of them.

**ThreadIncr, AtomicAppend.** Two actors that change one thing in two steps: a
load and a store, a seek and a write. What is lost is bounded (`glob` ends
between 2 and `2 * loops`), or nothing where `O_APPEND` makes it one step.

**OneTimeInit.** The flag, the mutex and the routine for any set of callers.

**SemOrder, Sigmask.** Handshakes, by semaphores and by a flag, a mutex and a
condition variable each way with spurious wake-ups. `Sigmask` also has the two
signals, which must find the thread that gets them with the signal blocked.

**PathManip.** Who owns which buffer from `malloc` to the destructor, with
addresses that are given out again.

**ChgPgid, ChildWait, Orphans.** Parents and children. When a signal meets a
`sigsuspend` that another signal has ended, the kernel may run both handlers or
leave one pending, so both are steps. A subreaper, which adopts orphans in place
of process 1, is a choice of the initial state. The shell that `system` runs is a child
too: in `make_zombie_sync.c` its exit leaves SIGCHLD pending, and the handler runs a
second time when it is unblocked; in `27_6.c` it is the child's child.

**SigReceiver.** Three programs, each one process beside somebody who sends
signals at any time. `sa_flags` of `sig_receiver.c` is not initialised, so that the
initial state chooses whether it holds `SA_RESETHAND`. It prints its PID before it
installs its handlers one by one: a signal whose handler is not in yet ends it, and so
does a Ctrl+C before the `sigaction` of `siginterrupt.c`.

**ToUppercase, UsXfr, SlowReader.** Bytes and datagrams through bounded
channels. A byte is its position (and its client), which tells loss, repetition
and disorder apart. `SlowReader` has the server die and start again with the
socket's file in its way.

**MsgExchange, MqNotify.** Names and queues are two things: a queue lives on for
who has it open when its name is gone. `MsgExchange` has four tasks whose SIGINT
handlers remove the same two names, and users who start again. `MqNotify`
composes `mq_notify_sig` with the senders and receivers of the `pmsg_` programs on
one queue.

**FileTools, DirTools, ProcScan.** One process each, beside somebody who changes
the files, directories or processes it walks over. A file is a sequence in which
newlines are told from other bytes (`tail`), of numbered pieces (`mytee`) or of
pages with the versions each has had (`cp`). `getcwd.c` calls `stat`, which follows
symbolic links, so that what lies beside a directory may be a link to it, to
something else, or to nothing; a watch of `dirwatch.c` may be refused, which it
prints before it walks on.

**Vector.** `push_back` with its capacity and the bytes `realloc` was asked for.

## What each run checks and shows

Every run takes less than three minutes.

| run | instance | what it shows |
|---|---|---|
| `counter` | 2 loopers, 1 client with up to 3 calls, `LIMIT` 3 | every call takes effect once, between its call and its return, as the operation it is (`ImplementsAtomicCounter`); the loopers alone end at `LIMIT` (`ReachesLimit`); threads that are left never all wait, and all return |
| `buffer` | 2 producers, 2 consumers, 2 slots, 3 items each | FIFO delivery; slots accounted for at every step; threads that are left never all wait |
| `rwlock` | 3 readers, which stop or never do, 2 writers, 2 iterations; either program | readers together or one writer; the value printed at the end is the number of writes; with `fair_lock`, a writer is not overtaken and gets to write |
| `zemaphore` | 3 threads, 2 calls each, initial value -1, 0 or 1 | a positive value never stays unused while somebody waits |
| `barrier` | 5 children | no early leaver, nobody left waiting, all joined; one permit is left over |
| `ns_mutex` | 3 workers, 3 addresses | the queue holds no freed node; once empty it is empty for ever; nobody is kept from `glock`, whatever became of the queue; workers that never wait on a freed node are joined |
| `ns_mutex_exclusion` | 2 workers | *violated*: two workers hold the mutex |
| `lock_coupling` | 3 threads with a call each, lists of up to 2 nodes, 4 addresses | no use after free, the result of every delete is that of the serial order, no ring of waiting threads, no leak; the list printed is that of the serial order |
| `approx_counter` | 3 threads, 2 CPUs, threshold 2, 2 calls each | no amount is lost or counted twice; `global` lags by less than `threshold` per CPU; no lock is waited for in a ring |
| `fifo_seqnum` | 2 clients that ask for -1, 0 or 2 numbers, a server that stops twice | numbers are unique unless a stop falls between answer and store or a negative length was answered; nobody is forgotten who is not turned away and whose request did not die with a server |
| `fifo_seqnum_dropped` | 2 clients | *violated*: who is turned away has not opened in time, which is not the same as having forgotten |
| `programs` | 24 programs, one in each behaviour | what each promises, see the next table, and that each comes to its end or to a wait its module names (`Terminates`) |

The invariants of `programs`, each the conjunction of those of several modules:

| property | parts | what could go wrong |
|---|---|---|
| `SharedDataKept` | `GlobWithinBounds`, `AppendsKept` | lost updates and overwritten bytes beyond those the code explains |
| `OnceBeforeUse` | | the routine runs twice, or a caller goes on before it has run |
| `ThreadsInOrder` | `LinesInOrder`, `OwnSignalPending` | a line before the one it waits for; a signal to a thread that does not block it yet |
| `BuffersSound` | `BuffersPrivate`, `ResultsFreed` | two threads in one buffer; (what main prints *is* freed) |
| `SignalsAwaited` | `GroupsChangedInTime`, `ChildSignalKept`, `OrphansUnstopped` | a group changed before or after the exec it should follow; a child's signal lost before the wait, or a shell's taken for it; an orphan stopped |
| `SignalsHandled` | `SignalsCounted`, `ContPendingUntilUnblocked`, `ReadRestarts` | a signal counted twice or before it is let through; a program that a signal ends with its handler in |
| `StreamsIntact` | `AnswersInStep`, `OutputInAcceptOrder`, `DatagramsInOrder`, `BoundOnce` | bytes lost, mixed or out of order; (a second server *cannot* bind) |
| `QueuesSound` | `NoQueueLeft`, `SameQueues`, `NotifiedOnArrival` | a name left behind by four cleaners; users on different queues; a message nobody is told of |
| `FilesCopied` | `TailExact`, `TeeExact`, `CopyExact` | lines lost at a buffer's edge; a short write; pages of no version of the source |
| `WalksSound` | `PathExact`, `WatchesComplete`, `FirstInPath`, `ScanComplete` | a path that never was; a directory unwatched and not reported; the wrong program; a process missed or reported twice |
| `VectorFits` | | an element outside the memory earlier than the code explains |

Every property has a mutant in `PROJECT.json`: a plausible bug in the code it is
about, under which the run finds it violated.

**Why the bounds are enough.** Each instance is the smallest in which all the
roles meet: two of a role contend for the same step, while a third thread (a
reader behind the first reader, a third waiter of a semaphore, a second thread
of the same CPU) is at another. The ring of two slots is
smaller than the four items that two producers offer at once, so that it is
full, empty and wrapped around. Two values and two amounts tell equal from
different. Threshold 2 with amounts 1 and 2 reaches it from below, exactly and
in excess. Three calls of a client include each of `inc`, `dec` and `get`. In
`fifo_seqnum` two stops let a client outlive two servers, one FIFO removed
and one left behind. Where a proof exists the bounds bear on liveness only.

In `programs` every buffer is smaller than what goes through it, so that it is
full, empty and partly filled: pieces of 2 bytes for inputs of up to 5
(`BufSize`, `InputSize`) and of 3 (`TeeBuf`, `TeeInput`), 2-byte pieces of files
of up to 4 bytes (`TailBuf`, `MaxFile`), sockets of 3 bytes for 4, queues of 2
datagrams for 4 and of 1 message for 2. Two or three of each kind
of actor contend (3 callers, 2 clients, 2 senders and 2 receivers, 2 users of 2
tasks). A disturbing neighbour acts two or three times (`MaxRenames`,
`CpChanges`, `MaxChanges`, `MaxEdits`), so that it can undo what it did; once
where one change splits a check from its use (`MaxInstalls`). A server starts
three times, for the second and third to meet what the first has left. `Pushes`
13 goes beyond the capacities around which `vector.c` behaves differently
(below 4, from 4 to 10).

**Bounds in the models:** `MaxCalls` (`Counter`, `Zemaphore`, `LockCoupling`,
`ApproxCounter`), `Longest` (`LockCoupling`), `MaxStops` (`FifoSeqnum`); in
`programs`, the constants whose comment says "bound". The
threads of `buffer.c` and of the reader-writer drivers iterate `loops` times in
the code too.

**Integers.** `LIMIT` is 10^6 and the other counts are bounded by loops of the
driver programs, far from `INT_MAX`; the models use unbounded integers, and the
component notes say so where it matters. Sequence lengths include 0 and a negative
one.

**Deadlock** is checked in every run. A run ends in a state whose only step
is `Terminating`, enabled exactly when the program has come to its end; in
`NsMutex` and `FifoSeqnum`, whose threads may wait for ever, when everybody
has either ended or waits for something nobody will do. The programs over
`Unix` name these waits in `...Ends` (for a user who does not type, a signal
nobody has sent, a full queue nobody reads), and `Terminates` says that nothing
else keeps them: each such wait is a fact about the code, listed under
[findings](#findings) where its author did not mean it.

## Fairness

Weak fairness of every thread or process as a whole: the kernel keeps running
whoever can run. Nothing more is assumed. In particular the models do
not say which waiter a `sem_post` or an unlock lets through, so that
liveness in `rwlock` is only claimed for finitely many iterations, and
`WriterServed` follows from `fair_lock` although the readers never stop. It is
stated from the moment the writer *has* `fair_lock`: getting `fair_lock` among
endless readers depends on the wake-up order, which POSIX leaves open.

In `Zemaphore` spurious wake-ups are not fair: nobody may rely on them. In
`NsMutex` a thread waiting for a freed semaphore need not be let through. In
`FifoSeqnum` the server is started again after a stop, and nobody is killed
out of fairness. Over `Unix`, the program's own threads and processes are fair,
and what comes from outside is not: users who type or interrupt, senders of
signals, neighbours that change files and processes, spurious wake-ups, deaths
and restarts.

## What is proved

For all values of the constants that satisfy the assumptions named in their
modules (finite sets of threads where threads are counted, disjoint roles, a
buffer of at least one place, bounds that are natural numbers), and for the
specification without fairness:

| theorem | states |
|---|---|
| `CounterProofs!Invariance`, `LimitReached`, `Refinement` | what was read under the lock is fresh; the threads that are left never all wait for it (`MutexComesFree`); the counter ends at `LIMIT`; `Counter` implements `AtomicCounter` |
| `CounterProofs!ApproxInvariance`, `PrintedClose`, `ApproxRefinement` | no amount is lost or counted twice (`Conserved`); the threads that are left never all wait (`NobodyStuck`); what `main` prints is behind by less than `threshold` per CPU; `ApproxCounter` implements `LaggingCounter` |
| `CounterProofs!SeqnumInvariance` | for any integers as lengths, no number goes to two clients, over any stops and restarts that do not fall between an answer and its store, as long as no negative length was answered |
| `BufferProofs!Invariance`, `Refinement` | slot accounting and ring indices; the threads that are left never all wait (`NoDeadlock`); `Buffer` implements `BoundedFIFO` |
| `BufferProofs!EverythingGot` | with as many consumers as producers, the ring is empty and every slot free when all have returned |
| `RWLockProofs!Invariance`, `Refinement`, `NotOvertaken` | in both programs, the reader count is exact, `writelock` and `fair_lock` have one holder, and the threads that are left never all wait (`NoDeadlock`); `RWLock` implements `ReadersWriters`; behind `fair_lock` no reader enters while a writer waits at the door |
| `RWLockProofs!NoWriteLost` | when the writers have returned, the value is their number times their iterations |
| `ZemaphoreProofs!Invariance`, `Refinement` | no lost wake-up; the safety part of the refinement to `CountingSemaphore` |
| `ZemaphoreProofs!NsInvariance`, `NsDrained` | the queue of `ns_mutex.c` never holds a freed node, a node is freed once, and the queue ends at `tail` until it is emptied; from then on it is empty for ever; some thread that is neither done nor at the wait for its node can always go on (`NobodyStuck`) |
| `ZemaphoreProofs!NsWaitsEnd` | unless a node is freed before its thread has waited on it, no wait for a node's semaphore sleeps and somebody can go on until all are done |
| `BarrierProofs!Invariance`, `Refinement`, `OnePermitLeft` | permits are conserved and nobody is left waiting (`NoDeadlock`); `Barrier` implements `Rendezvous`; `sem` is 1 when all have passed |
| `BufferProofs!StepsRunOut`, `RWLockProofs!StepsRunOut`, `BarrierProofs!StepsRunOut`, `CounterProofs!ApproxStepsRunOut`, `ZemaphoreProofs!NsStepsRunOut` | every step adds to a measure that has a bound (6 or 13 for each iteration of each thread, 9 for each child, 11 for each call, 13 for each worker), so that no behaviour goes on for ever, whatever the scheduler does; for `RWLock`, if its readers stop |
| `CounterProofs!CounterStepsRunOut`, `ListProofs!StepsRunOut` | the same where what one thread does makes another's way longer: a `dec` sends the loopers round again, an insert makes the list longer that a delete walks |
| `ListProofs!ListInvariance` | no thread touches a freed node, and none frees what another still needs; every node allocated is in the list or in the hands of a call (`NoLeak`); threads that hold a node and wait for the next never wait in a ring (`NoDeadlock`); every delete finds what the order in which the calls lock the head gives it (`FindsAsExpected`) |
| `ListProofs!NothingLost` | at the end no node is allocated, and `list_print` has printed the values of the serial order's list, each in its place |
| `ProgramsProofs!SharedData` | for any number of loops `glob` ends between 2 (or the loops, if fewer) and twice the loops; for any number of bytes no byte is lost with `O_APPEND`, and half of them at most without |
| `ProgramsProofs!RoutineOnce` | for any set of callers, `init_routine` runs once and has run when anybody leaves `one_time_init` |
| `ProgramsProofs!LinesAndSignals` | lines in their order; each signal finds its thread with the signal blocked |
| `ProgramsProofs!BuffersOwned` | for any set of threads, a buffer belongs to one thread, and what `main` prints has been freed |
| `ProgramsProofs!SignalsInTime`, `SignalsCome` | `SignalsAwaited` and `SignalsHandled`, for any number of signals, sent before or after the handlers are in, and of spurious wake-ups |
| `ProgramsProofs!StreamsArrive` | for any sizes of input, buffers and queues, any clients and restarts, bytes and datagrams arrive once and in order |
| `ProgramsProofs!QueuesKept` | for any numbers of senders, receivers, messages and restarts, `QueuesSound` |
| `ProgramsProofs!FilesExact` | for any sizes of files and buffers and any changes meanwhile, `tail`, `mytee` and `cp` write what `FilesCopied` says |
| `ProgramsProofs!WalksComplete` | for any depth, `PATH`, number of processes and of changes, links and refused watches included, `WalksSound` |
| `ProgramsProofs!VectorRoom` | for any number of calls, a vector begun with 4 to 10 places keeps one to spare, a smaller one never grows, and the elements leave the memory at the first `realloc` |

Every proof follows one argument: an inductive invariant, then the property or
the refinement step by step from it. For the programs with a module of their
own the run checks the inductive invariant itself (`IInv`, `Inv`, `NsSafe`,
`ApproxSafe`, `SeqnumInv`), with `NoDeadlock` where it follows; those of the
programs over `Unix` are in `ProgramsProofs`, next to their proofs. The properties by themselves are not
inductive. What has to be added:

- `Counter`: the value a thread has loaded or compared is still the value of the
  counter (`FreshReads`). It rests on mutual exclusion. For its steps to run out, the
  value has to be at most `LIMIT` and the `inc` calls made (`ValueBelow`), which makes
  the value itself a measure; what a `dec` takes from it, that call pays for, as
  each thread can make `MaxCalls` of them only (`Work`).
- `ApproxCounter`: the amounts returned and in flight are what the local and
  global parts hold (`Conserved`), which each `+=` keeps because what it has loaded
  is still there (`Fresh`); a local part is at `threshold` only while the update
  that brought it there is about to flush it (`Kept`). A worker waits
  for its CPU's lock, then for the global one, and never the other way round
  (`InLocal`, `InGlobal`), so that who holds the global one is not waiting. The sums are folds over any
  finite set of threads or CPUs. `Counting` shows that they are what one thinks
  (`TotalStep` to `TotalPart`); in place of an induction it takes the smallest set
  that would be a counterexample (`SmallestSubset`, from the well-foundedness of
  the subset ordering).
- `FifoSeqnum`: a server that has not answered since its last store has the
  number it stored (`ServerKnows`).
- `Buffer`: `empty`, `full` and the threads between a wait and the matching
  post add up to `MAX` (`SlotAccounting`), the distance from `use` to `fill` is
  the number of items (`RingIndices`), and a half-done `put` or `get`
  finds its slot untouched (`HalfDone`). Without the first, a put could
  overwrite an item and the refinement to a FIFO would fail. Who is in which round
  has to be added for the waits: the puts made are the posts of `full` made or under
  way (`FullPosted`), and who is done has made its rounds (`DoneInLoops`). If all
  that are left wait, the ring is full for the producers and empty for the consumers,
  or one kind has returned and its rounds were too few, which `NoDeadlock` excludes
  for the numbers of threads `main` starts.
- `RWLock`: `readers` is the number of readers between `++`
  and `--` (`ReadersCounted`), and `writelock` is held by one writer or by the
  group of readers, which includes the last reader out before it has posted
  (`WritelockHeld`, `GroupHolds`). What the writers have stored is their rounds
  (`WritesCounted`). No semaphore is waited for in a ring because each that is down
  has a holder (`SectionExclusion`) and the holders wait in one order only:
  `fair_lock`, `lock`, `writelock`.
- `Zemaphore`: while somebody sleeps, every unit of `value` has a thread that is
  awake to take it or a poster about to wake one (`NoLostWakeup`).
- `NsMutex`: a thread's node is its own until it is linked (`NodesOwned`), one
  thread at a time is at the queue (`OneInSection`), and no two nodes of the queue
  have the same successor (`QueueEnds`), so that taking the first node takes
  nothing else out. Whoever is between the wait for `glock` and its post is why it is
  down (`GlockHeld`), and those who have come for a node are as many as the nodes
  at least (`LiveCounted`), so that `malloc` has an address. As long as no node is freed under its thread, a
  thread that is at its wait or before it has its node for itself, at 1 (`Kept`). The queue is the smallest set that holds the dummy node and
  whatever follows a member; that definition needs no walk and no induction.
- `LockCoupling`: the nodes of the list are those of `serial`, with the targets
  of deletes under way and without the nodes of inserts under way (`List`);
  `next` leads from each to the one with the next smaller rank (`Linked`);
  the threads hold the nodes they stand on (`Locked`, `InPlace`) and a delete
  meets its value first at its target, because an earlier delete of an equal node is
  ahead of it and is not overtaken (`Ordered`). The last part is what hand-over-hand
  locking is for: drop it and `FindsAsExpected` is not kept by `step`. Of those who
  wait for a node, the one furthest along the list waits for somebody who waits for
  none: this is why they form no ring, and it needs `Linked`. What a thread has taken
  out of the list or not yet put in is its alone (`Taken`), so that the list and what
  is taken are all that is allocated (`NoLeak`); `main` passes its list by rank, which
  says of each node whether it has been printed or freed (`PrintsList`). A walk ends
  because the nodes it has before it (`Rest`) never become more: a new node has the
  highest rank and is linked at the head, which no walk can then be standing on.
- `Barrier`: permits posted are in `sem` or were taken by a thread on its way
  out; the opener leaves without one (`Permits`). `main` and the children not yet
  created go together (`Uncreated`), which the absence of deadlock needs: as long as
  the barrier is shut somebody is still to come.

`ProgramsProofs` begins with two lemmas on all programs: a behaviour stays with
one program and takes its steps only (`OneProgram`), and begins in its initial
states (`OneBegins`). Each property of `programs` then needs the invariants of its
own programs. Those that carry most:

- `IncrInv`: `glob`, and what a thread has loaded, is at most the rounds made so far;
  it is positive once anybody has made a round, and more than 1 once both have
  made two, whatever is lost between. `AppendInv`: the file holds at
  least what either process has added, and what both have if both append.
- `OnceInv`: the holder of the mutex is who is between lock and unlock
  (`OnceHeld`), and the flag, the routine's count and where the holder is go together
  (`OnceKnown`). Without the first, two callers could both find the flag clear.
- `PathInv`: the buffers of the living threads are allocated and apart.
- `ChgInv`, `WaitInv`, `OrphanInv`, `SigmaskInv`: each signal is pending, handled or
  not yet sent, and which of these follows from where the sender is.
- `UpperInv`, `XfrInv`, `SlowInv`: what has arrived and what is on its way are
  together, in that order, what has been sent; a client that is not accepted yet
  has all it wrote in its own queue.
- `ExchangeInv`: for each name that exists some task will still unlink it
  (`WillUnlink`), and until a cleaner has begun, the queues that are open are those
  the names stand for. `MqInv`: what was sent is what was received and what is
  queued; the queue is empty while a receiver waits, and while a registration stands
  that has seen it empty.
- `TailInv`: the newlines behind `pos` and those still to be found add up to the
  lines asked for (`Scanned`); a character appended changes neither.
  The newline that completes the count is unique because two could not have equally
  many behind them, which is Cardinality of a proper subset.
- `TeeInv`: between two pieces every named file holds the input so far (`Holding`);
  within a piece the files before `j` have the piece too, under whichever of their
  names (`HalfWritten`). The second write to a file named twice overwrites the piece
  with itself (`WritesAgain`).
- `CpInv`: the pages of the source are versions it has had, and so are the
  pages copied, unless it was made shorter.
- `ClimbInv`, `WalkInv`, `SearchInv`, `ScanInv`: what the walk has passed was as it
  recorded it or has been changed since, and what it has not passed is still to
  come on its list. For `getcwd.c`, an entry that `stat` found led there at that time,
  by its name or as a link; for `dirwatch.c`, a directory is watched, refused, or
  still to be visited.
- `VectorInv`: the capacity and the bytes are the first ones until the first place
  runs out, and from then on an element has left the memory; from four places on
  one place is always to spare.

**Only model-checked:** the liveness properties (`Termination`, `Completes`,
`WriterServed`, `Served`, `CompletesUnlessStale`, `Terminates`, and the fairness
part of `ImplementsSemaphore`), since the prover has no rules for fairness and
`ENABLED`. For `Counter`, `Buffer`, `RWLock` with readers that
stop, `Barrier`, `LockCoupling` and `ApproxCounter` what is missing is only that rule:
`NoDeadlock` (`MutexComesFree`, `NobodyStuck`) writes the guards out in place of
`ENABLED` and is proved, and so is that steps run out (`StepsRunOut`), so a behaviour
that keeps taking steps while it can ends with all threads returned. For `NsMutex`
the same two theorems bring every worker to its end or to the wait for its node's
semaphore, and by `NsWaitsEnd` only a node freed too early can make it sleep there. Elsewhere every run checks for deadlock, and no theorem says so. The two violated properties have
counterexamples, and nothing to prove.

## Findings

- `ns_mutex.c` is no mutex. `node_init` gives a node's semaphore the value 1, so
  the wait that should park a thread returns at once (`ns_mutex_exclusion`).
  Beyond that, the dequeue that empties the queue leaves `tail` on the node it
  frees; the run `ns_mutex` shows what follows from it: the queue is then empty
  for ever, nodes are lost, and a thread may wait on a node freed under it.
- `fifo_seqnum_server.c` says of a client whose FIFO it cannot open that the
  "client forgot to open FIFO queue on read". It may only be slower than the
  server: it is turned away before it comes to its open, and waits there for
  ever (`fifo_seqnum_dropped`).
- `pathmanip_threadsafe.c` prints at :164-167 what the threads returned, which the
  key's destructor has freed when they exited; the comment at :50 calls the
  purpose achieved. (`ResultsFreed` in `programs`.)
- `slow-reader-fast-sender/server.c` removes `sockpath` at :20 and binds one
  character less of it at :25-27: what a server leaves behind is not what the
  next one removes, and no server after the first can bind. (`BoundOnce`.)
- `mq_notify_sig.c` calls `errExit` at :71 after every notification, outside the
  condition it belongs to; "Reading from queue..." is never reached.
  (`NotifiedEnds` is the step.)
- `mytee.c` opens every argument from `argv[1]` on, so with `-a` the first file it
  makes is named "-a" (:43, usage at :28). (`TeeExact` holds with that file.)
- `tail.c` leaves its loop at :69 when the last newline asked for is met. If no
  earlier newline is in the same piece, the test at :85 never finds where the first
  line begins, and the output begins at the piece, inside a line or not.
  (`TailExact` has this exception, and does not hold without it.)
- `vector.c` hands `realloc` a number of ints for bytes, and below four places
  a quarter more is no more. (`VectorFits`, `VectorRoom`.)
- `siginterrupt.c` says at :42 that calls are to be interrupted by SIGINT and
  passes a flag of 0, which restarts them: :54 is never reached. (`ReadRestarts`.)
- `dirwatch.c` says at :2-4 that it reports what happens inside the tree, but a
  directory made after the start gets no watch. (`WatchesComplete` leaves out what
  happens in those, and in directories that were refused a watch, which :46 prints.)
- Not disagreements, but shown by the runs: `barrier.c` works once (one permit
  stays in `sem`); the sequence-number server gives numbers twice after a stop
  between its answer and its store, which is why `NumbersUniqueUnlessTorn` has
  the exception in its name; the parent in
  `chg_pgid_for_diff_descendants.c` may stay suspended for ever, when both signals
  were handled in its first `sigsuspend`; both processes of `to_uppercase.c` wait
  for each other at the end of input; a child of `orphan_read.c` spins for ever
  under a subreaper; the SIGCHLD handler of `make_zombie_sync.c`, which its author
  expects once, runs again for the shell of `system`; the sequence-number server gives
  numbers twice after it was asked for less than none (`SteppedBack`);
  `getcwd.c` may put the name of a link in its path, and ends with an error at a link
  to nothing.

The findings after the second are not violations but invariants that hold: each
states what the code does where its text says otherwise.

## What is not modelled

- Within the modelled programs: output, timing, error paths that end the
  program, an abort by a corrupted allocator in `ns_mutex.c`, `list_print` beside
  running threads (`main` calls it after the joins).
- Within the programs over `Unix`: the parsing of status files and of numbers
  (`dtoa` in `useract.c`), the characters of a base name, renames beside
  `dirwatch.c`, the making of `argv` and names with a slash in `execlp.c`, writes
  to a socket that fail, priorities of messages. `mytee.c:54` stores -1 in
  `fds[argc - 1]`, one past the end of the array, as the mark at which its loops stop;
  the model has the mark and not what it overwrites. In `msg_exchange.c` the cleaners
  end the process when `mq_unlink` fails with anything but ENOENT (:27-30), and
  `dirwatch.c` ends when `inotify_init` fails.
- One call and its result, printed: `self_join.c`, `t_NONBLOCK.c`, `psem_wait.c`,
  `pgleader_sid_change_failure.c`, `mmap_segbusv.c`, `append_open.c`,
  `t_sigaction_flags.c`, `ignored_signal.c`, the TCP programs. There is no state
  and no second actor, so a model would restate the system call.
- `process_family.c`, `vfork_fdclose.c`, `multiple_fork.c`: children that do not
  communicate.
- The replacements of `abort` and `dup` do not compile; they have no behaviour.
- File attributes, priorities, limits, users, memory layout and timings: reports
  of what the kernel says, one call after the other.
- `error_functions.c` and the headers format messages and exit; the models take
  `errExit` for the end of the process. The exercises of a few lines
  (`intro`, `mem_api` but for `vector.c`, `proc_api`) show one call each.

## Plan

Done: the thread programs of *Three Easy Pieces*, where the collection's
synchronisation algorithms are; the sequence-number server, its only program
with persistent state; and, over `Unix`, the programs in which two threads,
processes, users or neighbours meet, and those that compute something worth
checking. What is left:

1. **Parts of the liveness properties that are safety.** In `FifoSeqnum`,
   that a request is in the server's FIFO, at the server, or answered; in
   `Zemaphore`, what its fair refinement needs of the guards.
2. **Waits.** For the programs over `Unix`, that a state in which no step of the
   program is possible is one its `...Ends` names, with the guards written out in
   place of `ENABLED`; and measures of their steps, where nobody outside keeps them
   going.
3. **Compositions.** The programs that use a semaphore over `CountingSemaphore`, so
   that they rest on what `Zemaphore` is proved to provide.
