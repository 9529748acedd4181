# Verification of protocols in Code_Learning

The repository collects the programs of several books on Unix and Linux
programming (see the inventory below). Most of its 3400 files demonstrate one
system call. The code that has a state of its own and a protocol between
threads, processes or machines is what these modules are about:

- the synchronisation and communication objects that *UNIX Network Programming,
  volume 2* builds in `src/unpv22e`: a read-write lock, a Posix message queue and
  Posix semaphores, with the programs that use them;
- the print spooler and the database library of *Advanced Programming in the
  UNIX Environment* (`src/apue.3e`);
- the reliable datagram client of *UNIX Network Programming, volume 1*
  (`src/unpv13e`);
- the directory monitor of *The Linux Programming Interface* (`src/tlpi-dist`).

Contents: [inventory](#inventory), [modules](#modules-and-the-code),
[runs](#runs), [fairness](#fairness), [proofs](#proofs),
[findings](#findings), [known exceptions](#known-exceptions),
[limits](#limits), [not modelled](#not-modelled).

`PROJECT.json` has the machine-readable form: components, runs, mutants, the
map from definitions to source lines, findings, hazards and theorems.

## Inventory

| Part of `src/` | What it is | Here |
|---|---|---|
| `unpv22e/my_rwlock` | read-write lock from a mutex and two condition variables; `test1.c` | modelled |
| `unpv22e/my_rwlock_cancel` | the same with cancellation handlers; `testcancel.c` | modelled |
| `unpv22e/my_pxmsg_mmap` | Posix message queue in a mapped file | modelled, except creation |
| `unpv22e/my_pxsem_mmap` | Posix semaphore in a mapped file; `prodcons1.c`, `testsem.c` | modelled, except close and getvalue |
| `apue.3e/printer/printd.c` | print spooler: job queue, spool directory, restart | modelled, except the worker list, configuration reload and the printer protocol |
| `apue.3e/db` | hashed database under record locks | modelled, except opening with truncation |
| `unpv13e/rtt`, `lib/rtt.c`, `lib/dg_echo.c` | retransmission over UDP | modelled |
| `tlpi-dist/inotify/inotify_dtree.c` | a cache of directory trees kept up to date from events | modelled, except commands `a` and `z` |
| the rest | | [not modelled](#not-modelled) |

## Modules and the code

In the modules about locks, queues and semaphores one rule holds throughout. The
objects keep their state under one mutex,
so the code between two releases of that mutex is one action, and
`pthread_cond_wait` is a release. A caller inside the wait is first *blocked*,
then *woken* (by a signal, or spuriously), and only then, in another action,
gets the mutex and tests its condition again; others run in between. Signals go
to any one of the blocked callers. Variables keep the names of the fields in C.
Calls that fail without a change of state are left out.

Each module also holds the mutated definitions (their comments begin with
*Mutant:*), each next to the definition that it varies. They are used to make
sure that a property can fail; no specification refers to them.

### Read-write lock

`RwLock` models `pthread_rwlock_t` and its seven functions. `rw_refcount` is -1
for a writer and otherwise the number of readers; `pc` says whether a thread is
idle, blocked or woken in `rdlock` or `wrlock`, reading or writing. `RdLoop` and
`WrLoop` are the two `while` loops up to the next release of `rw_mutex`; they
are entered from the call (`RdLock`, `WrLock`) and from the wait (`RdResume`,
`WrResume`). `Unlock` includes the signal or broadcast of the same critical
section. `Destroy` and `RwlockInit` do not take the mutex in the code; a program
calls them while no other thread executes a call, so each is one action. Threads
that hold the lock or are blocked inside a wait may be there.

`RwLockTest` composes the lock with `test1.c`: the loops of the reader and writer
threads, the two counters they keep and the tests that end in `err_quit`.

`RwLockCancel` is `my_rwlock_cancel`: cancellation in `pthread_cond_wait`, with
handlers that undo the count and unlock, and an `unlock` that signals writers
after every release (`CUnlock`). Its other functions are those of `my_rwlock`.

### Message queue

`MyMq` models the mapped file: `mqh_head`, `mqh_free` and the links of the
nodes, the counters, the registration for notification, and per process the
descriptor and where the process is. `Scan` is the loop in `mymq_send` that
looks for the place of a message; it is stated as the sequence of nodes that the
loop visits. `LinkIn` and `LinkOut` are the pointer assignments with the signal
that follows, `Enqueue` and `Dequeue` add the `err_dump` tests. `Kill` ends a
process between calls or inside the wait and changes nothing in the file, which
is what a crash leaves behind; `CallSpec` is the specification without it.

`PrioQueue` is the abstract queue: a sequence in the order of reception, `Put`
and `Take`. `MyMq` implements it under the mapping `Queue`, which reads the
linked list; this is the property `IsPrioQueue`.

### Semaphores

`MySem` models semaphores that are open: value, blocked and woken threads, for a
set of semaphores; it has no specification of its own. `SemCalls` gives it one: each
thread calls `mysem_wait`, `mysem_trywait` and `mysem_post` as it likes.

`ProdCons` composes three of them with `prodcons1.c`. Both threads run the same
five steps per item: `Slot` (wait for `nempty` or `nstored`), `Lock`, `Use`,
`Unlock`, `Tell`. The semaphores' creation is the initial state.

`SemOpen` models what `mysem_open` does before that: the creator makes the file
with `O_EXCL` and the user-execute bit set, initializes it and turns the bit
off; the others open the file and poll the bit, at most `MAX_TRIES` times. One
system call is one action, the labels `again`, `exists` and `err` are values of
the variable `label`, and the directory entry (`entry`) is separate from the
files, so that a file can be unlinked while it is open. The calls of a creator may fail, processes
may be killed at any point, `mysem_unlink` may be called once, and the waits of
`testsem.c` follow a successful open.

### Print spooler

`Printd` models the daemon with what it has on disk: the job number file, the
data directory (a number names an inode, which has a content) and the request
directory. A step is a critical section under `joblock` or one system call on
the spool. The client thread of a job goes from `GetNewJobno` over `CreatData`,
`Copy`, `CreatReq`, `WriteReq` and `Respond` to `AddJob` and `SignalJob`, or from
any failure to `UnlinkOnError`; the printer thread from `GetJob` over
`UpdateJobno`, `OpenData`, `SendChunk`, `SendEnd` and `StatusOk` to
`UnlinkPrinted`, or over `PrinterFails` to `Defer`. `Stop` ends the daemon at any
point: `exit` after `SIGTERM`, or a death. `Start` and `ReadRequest` are the next
daemon, which reads the spool back while the printer thread already works. A
chunk is named by the job it was received for, so that a file that two jobs
wrote can be told from one that only its own did.

### Database

`Db` models the index file (hash table, free list, records with a chain pointer)
and the data file. Records are numbered instead of addressed by offset. A step
is one read or write of a file; taking a lock belongs to the step after it and
releasing one to the step before. The length of keys and of data is kept,
since `db_store` decides by it whether to overwrite, to reuse or to append.
`_db_readidx` reads a record with two system calls and is one step: the part read
first of a record that another process may rewrite meanwhile has the same length
field before and after, and its chain pointer is not used by `db_nextrec`.

`KvStore` is the abstract map: each call takes effect at one instant. `DbMap`
reads the map off the files (`Map`, `Last`) and states that `Db` implements it
(`ImplementsMap`). A store takes effect when the index record is
written, a delete when the data is blanked, although the pointers follow later.

### Reliable datagrams

`Rtt` models one client in `dg_send_recv` against the echo server. A datagram is
in one of two sets until it is lost; receiving it may leave it there, which makes
it a duplicate, and any member may be received next. `Alarm` is `SIGALRM` with the
jump and `rtt_timeout`; it may come after an answer was accepted. Of a timestamp
the model keeps the `rtt_base` it counts from. The estimators are floating point:
`rtt_stop` arrives at any value of the set `Raw`, then applies `rtt_minmax`.

### Directory monitor

`Dtree` models `inotify_dtree.c` with the kernel's side of inotify: watches, a
queue that overflows, and a rename that queues its two events in two steps. The
variable `walk` holds what `nftw` has still to look at (`lstat`), to visit
(`traverseTree`) or to list, so that changes fall between its steps. A directory
that goes after `lstat` is passed over by `traverseTree` (`add_watch_fails`), or,
when it goes before `nftw` opens it, ends the walk (`nftw_fails`). The cache is the
sequence of its used slots, so that a watch descriptor could have two. One action per
kind of event (`on_create` ... `on_lost`) is `processNextInotifyEvent`; `reread` is the
second read, with its timeout, after an `IN_MOVED_FROM` at the end of the buffer;
`alarm_early` is a `SIGALRM` that comes before that read is entered and does not
interrupt it. `reinitialize` and `zapSubtree` are parts of the actions that call them.
`raced` is a history variable: since the cache was last built from nothing, a rename
was made before the program had caught up, or `nftw` gave up a walk with directories
left.

## Runs

| Run | Instance | Properties | Shows |
|---|---|---|---|
| `rwlock` | 4 threads | `CountersAgree`, `Exclusion`, `NoLostWakeup`, `WriterPreference` | the counters are exact, a writer is alone, nobody stays blocked on a lock that is free for them, and no reader enters before a waiting writer |
| `rwlock_test` | 2 readers, 2 writers, 2 rounds | `NoErrQuit`, `AllThreadsComplete` | `test1.c` reaches none of its `err_quit` calls and ends |
| `rwlock_cancel` | 5 threads | `CCountersAgree`, `WriterNotStranded`, `ReaderNotStranded` | the handlers keep the counters exact and strand no writer; a reader is stranded only after a cancellation |
| `mymq` | 3 processes, 2 nodes, 2 priorities, 3 sends, kills | `ListsPartition`, `NoErrDump`, `NwaitCoversReceivers`, `IsPrioQueue`, `SignalOnlyWhenDue` | also when processes are killed the lists stay a partition of the nodes and no call finds one empty that should not be, the queue is a priority queue, and no notification is sent that is not due |
| `mymq_stranded` | 3 processes, 3 nodes, 2 sends | `BlockedAreWoken` violated | finding 1 |
| `prodcons` | 2 slots, 5 items | `NoMismatch`, `BothComplete` | items arrive in order and both threads end |
| `sem_stranded` | 3 threads, 1 semaphore | `WaiterWoken` violated | finding 2 |
| `semopen` | 3 processes with any flags, 2 polls, failing calls, kills, an unlink | `InitializedUnlessRemoved`, `SameUnlessRemoved`, `NoLostDecrement`, `BitHasCreator`, `RemovesOnlyItsOwn`, `OpenReturns` | all who succeed have one initialized semaphore, unless a file was removed; the error path removes no other file than its own; every call returns |
| `printd` | 2 jobs of up to 1 chunk, 1 death | `TypeOK`, `AcknowledgedIsKept`, `PrintedAsSpooled`, `QueuedOnce`, `KeepsTurn`, `AcknowledgedIsPrinted` | a job the client was told of survives the daemon, is printed as received, keeps its turn, is queued once and printed in the end, unless its number was given out twice |
| `db` | 2 processes, 3 keys, 2 chains, 2 updates | `TypeOK`, `WellFormed`, `ScanComplete`, `ImplementsMap`, `ScanOnce` | the calls behave as on a map; chains and free list are well formed whenever they are not locked; a scan returns each record that stays, once |
| `rtt` | 3 requests, 2 contents, 3 retransmissions | `AnswersRequest`, `TimeoutBounded`, `CallReturns` | an answer is that of the request; the backoff is bounded; every call returns |
| `dtree` | 2 roots, 4 i-nodes, paths of 3 names, 2 changes, 1 rebuild | `TypeOK`, `SlotsMatchWatches`, `Consistent`, `CatchesUp` | each watch has one slot of the cache, whatever is renamed; whenever the monitor has caught up its cache agrees with the trees, through races with walks, overflow and rebuild, as long as no rename overtook it and `nftw` did not give up; and it does catch up, unless its alarm comes too early |

Invariants that are proved for every instance and that follow from, or are plainer
than, the ones above are left to the proofs: the type invariants of `RwLock`,
`MyMq`, `ProdCons`, `SemOpen` (`OpenTypeOK`) and `Rtt` (`RttTypeOK`), and
`DestroyedIsUnused`,
`DestroySucceedsAfterCancel`, `RegisteredIsOpen`, `BufferExclusion`
and `TimerRuns`.

Bounds. Four threads are two readers and two writers that hold, wait and are
woken in every combination; the fifth thread under cancellation is the one that
is taken away. `MaxSend` bounds the calls of `mymq_send`, not the depth of the
queue: three messages on two nodes fill the queue and block a sender, and are
inserted at the front and at the end. An insertion in the middle needs a third
node, which with three processes takes TLC more than five minutes; the proof has
it for every length. Five items on two slots wrap the circular buffer twice. Two polls
separate "try again" from "give up". Three files suffice for three processes,
because each creates at most one before it returns; after an unlink, a process
that would need a fourth cannot create it.

Two jobs and one death of the daemon are enough for a job to be acknowledged,
half received, printed or half unlinked when the next daemon starts, and for two
jobs to meet at one number; files of zero and one chunk are both received. In
`db` two keys share a chain and two a length, so that a free record of one key is
reused for another; it starts from a new database and from one with a free
record, and two updates run against each other and against reads and scans
without limit. In `rtt` an answer may be one or two requests late, and requests
are given up and followed by others; `Raw` has a value below, in and above the
limits. In `dtree` the queue holds three events and a read takes two, so that
two changes can overflow the one and split over the other; a larger instance with
one root and three changes (1.5 million states) was checked too.

Symmetry is used only in runs without liveness, for callers that nothing tells
apart.

Deadlock is checked, except where the system may come to rest: in `mymq` all
processes may be dead; in `printd`, `rtt` and `dtree` all jobs,
calls or changes of the instance may be used up.

## Fairness

Liveness is checked under weak fairness of each thread's next step: a thread
that can go on is scheduled, and one that keeps asking for a mutex gets it.
Spurious wakeups are possible and never assumed, and no fairness is assumed of a
kill, a failure, an unlink, or of which waiter a signal chooses. `OpenReturns`
assumes fairness only for the steps of `mysem_open` itself.

- `AcknowledgedIsPrinted`: the daemon is started again and its threads run; and a
  printer that is asked again and again takes a chunk, and answers, in the end
  (strong fairness of `SendChunk`, `SendEnd` and `StatusOk`). The code retries
  every minute without limit, which is of use only with such a printer.
- `CallReturns`: the client runs and a timer that was started expires. Nothing
  is assumed of the network or the server.
- `CatchesUp`: the monitor runs and a rename that has begun ends. Nobody need
  change anything, or stop. The second read returns by its alarm only if the alarm
  comes after it was entered; nothing is assumed of an `alarm_early`.

## Proofs

The theorems hold for every value of the constants that satisfies the named
assumptions; TLC checks the same definitions on the instances above. Every
safety property of the passing runs is proved except those of `Dtree`.

| Module | About | Assumes |
|---|---|---|
| `RwLockProofs` | `RwLock`, `RwLockTest`, `RwLockCancel` | `ThreadAssumption`, `TestAssumption`: finitely many threads |
| `MyMqProofs` | `MyMq`, `PrioQueue` | `MqAssumption` |
| `UnpProofs` | `Rtt`, `ProdCons` with `MySem`, `SemOpen` | `RttAssumption`, `ProdConsAssumption`, `SemAssumption`, `SemOpenAssumption` |
| `PrintdProofs` | `Printd` | `PrintdAssumption` |
| `DbLemmas`, `DbStepProofs`, `DbMapProofs`, `DbProofs` | `Db`, `DbMap`, `KvStore` | `DbAssumption`, `FilesAssumption` |

The three modules under `UnpProofs` have nothing to do with each other but the
proof module; their constants, variables and definitions have different names so
that one module can extend all three (`RttSpec`, `OpenSpec`, `rttVars`, ...).

### Read-write lock

For any finite set of threads. The inductive invariant is `TypeOK /\
CountersAgree /\ Exclusion /\ DestroyedIsUnused`. Exclusion alone is not
inductive: that `rw_refcount = 0` means nobody holds the lock is what
`CountersAgree` says. The step lemmas follow one thread from one group (readers,
writers, waiting readers, waiting writers) to another and count.
- `Invariance`, `RwTypeCorrect`, `CountersHold`, `ExclusionHolds`,
  `DestroyHolds`: the invariant and its parts.
- `NoLostWakeupHolds`: `NoLostWakeup` is preserved together with the invariant;
  the interesting step is `Unlock`, where the count of waiting writers decides
  between signal and broadcast.
- `WriterPreferenceHolds`: an action property, from the exactness of
  `rw_nwaitwriters`.
- `NoErrQuitHolds`: for any number of readers, writers and rounds no thread of
  `test1.c` reaches an `err_quit`. The counters of the program are tied to the
  steps of the threads (a thread past its increment holds the lock), and
  exclusion of the lock does the rest.

With cancellation the counters are stated over threads that are waiting *or
cancelled and not through their handler*: a cancelled thread stays counted until
its handler has run, which is what makes the counters inductive.
- `CInvariance`, `CCountersHold`, `CExclusionHolds`, `DestroyAfterCancelHolds`.
- `WriterNotStrandedHolds`: needs of the invariant that `rw_refcount = 0` means
  that nobody holds the lock. `unlock` signals after every release, and
  `pthread_cond_wait` (external) does not let a cancelled thread keep the signal;
  the handler itself wakes nobody.
- `ReaderNotStrandedHolds`: a blocked reader has a writer before it, as long as no
  thread was cancelled.

### Message queue

For any number of processes, nodes and sends and any set of priorities, for
`Spec`, that is with kills. The invariant adds to `TypeOK`,
`NwaitCoversReceivers`, `RegisteredIsOpen` and `NoErrDump` the list invariant:
there is an enumeration `g` of all nodes, the messages first and the free nodes
behind them, such that the links follow `g`, and the messages on it are in order
of priority. `mymq_send` moves the first free node of `g` to the place that
`Scan` finds, and `mymq_receive` moves the first node to the front of the free
part; that both keep `g` an enumeration is proved as a fact about permutations. A
sender blocked in the wait needs its own conjunct, which says that its argument
is a message.
- `Invariance`, `MqTypeCorrect`, `ListsHold`, `NoErrDumpHolds`, `NwaitHolds`,
  `RegisteredHolds`: the invariant and its parts.
- `Refinement`: `Spec => IsPrioQueue`. The enumeration is unique, so `Queue` is
  determined by the links; a send that links in a message is `Put`, a receive is
  `Take`, every other step stutters.
- `SignalsHold`: the action property `SignalOnlyWhenDue`.

### Producer and consumer

For every `NBUFF` and `nitems`. The invariant counts slots: `nempty` and
`nstored` are the distances between the two loop variables, less the slot that a
thread has taken and not passed on; `mutex` is 1 less the threads between its
wait and its post; and every item between the loop variables is in slot
`k % NBUFF`. An item is not overwritten because two numbers less than `NBUFF`
apart have different remainders (`ModDistinct`).
- `TypeCorrect`: no semaphore value goes below 0.
- `ItemsArrive`, `BufferExcluded`: the check in `consume()` never fails, and the
  buffer is used by one thread at a time.
- `NoWakeupLost`: the wakeup that `mysem_post` can lose ([finding 2](#findings)) is
  not lost in this program, because of each semaphore there is one waiter or the
  value is at most 1.

### Opening a semaphore

For any finite number of processes, and any files, polls and waits, with
failures, kills and the unlink. The invariant says that a file has one creator,
that the name refers to it until its creator fails or it is unlinked
(`CreatorOK`), that the bit is set exactly until the initialization is done
(`BitOK`), and that everyone past the open has the file of the name unless one
was removed (`SameOK`).
- `SemOpenInvariance`, `SemOpenTypeCorrect`, `InitializedHolds`, `SameHolds`,
  `BitHasCreatorHolds`: the invariant and its parts.
- `RemovesOnlyItsOwnHolds`: the action property, from `CreatorOK`.
- `NoLostDecrementHolds`: `NoLostDecrement` is a sum over the processes, stated as
  the cardinality of the set of pairs of a process and the number of one of its
  waits (`Decrements`), so that a wait adds one element and the sum needs no
  induction.

### Reliable datagrams

For all data, limits, round trips and numbers of calls. `AnswersRequest` is not
inductive by itself; the invariant says of every datagram on the way that its
number is at most the current one, and that one with the current number carries
the current content and `rtt_base` (`NetOK`).
- `RttInvariance`, `RttTypeCorrect`, `AnswersRequestHolds`.
- `TimerRunsHolds`: the timeout is at least `RXTMIN`, hence not 0.
- `TimeoutBoundedHolds`: the timeout is at most `RXTMAX` doubled once per
  retransmission. A power of two is counted as the subsets of `1 .. n`, which
  double when `n` grows by one.

### Print spooler

For any number of jobs, chunks and deaths of the daemon. A job *acts* while its
thread works or while it has a turn. The invariant says that a job that acts has
a number this daemon has given out, or its control file is in the spool (`NumOK`,
`TurnOK`); hence a job whose number was not in the spool when `get_newjobno`
returned it shares the number with nobody who acts (`AloneOK`), everyone who acts
finds at its number its own files or those of a job in `clash` (`OwnOK`), and the
two files of a number have one owner (`PairOK`). From that follows what is in the
files (`KeepOK`, `SendOK`). A step of a client thread is treated once for all
threads (`OwnStep`): it leaves alone what every other job relies on, and each step
then only has to show what its own job relies on.
- `Invariance`, `TypeCorrect`: `build_qonstart` never looks at a request that the
  printer thread unlinked after `readdir` listed it.
- `AcknowledgedKept`, `PrintedSpooled`, `OneTurn`: the three invariants of the run.
- `TurnsKept`: the action property `KeepsTurn`.

### Database

For any processes, keys, chains, lengths and numbers of updates, from any
database at rest (`FilesAssumption`: its lists end, no two meet, and every key and
every data record is used once; `MCDb` has TLC evaluate it for the instance).

The invariant (`DbInv`) does not follow the pointers, which would need a
recursion. It says that there is a numbering of the records: `own` gives each
record its list, `rank` a number, and a pointer leads to the record of the same
list with the next smaller rank (`Leads`). A list that is numbered in this way
ends and meets no other. Two things make it inductive:
- while `_db_dodelete` has the record off its chain (the record's own pointer is
  that of the free list by then) and has not yet rewritten the pointer before it,
  that one cell is excepted (`Detour`), and the process knows where it has to lead;
- every process knows, by the locks it holds, what the others cannot have changed:
  where it is in a chain and that it has not passed its key (`WalkOK`), that the
  record it found is still there (`FoundOK`), what the free list begins with
  (`DeleteOK`), that its key is on no list and which record it has to itself
  (`StoreOK`). Two processes never have the same record (`HeldOnce`).

`DbLemmas` has the facts about numberings (a record is taken out, or put in
front), the frame lemma (a step of one process leaves the others what they know),
and the steps that write no file. `DbStepProofs` has one lemma for each step that
writes one, and the theorem
- `Invariance`.

`DbMapProofs` has the lemmas about `DbMap` and about scans, and `DbProofs`:
- `TypeCorrect`: no offset a process is about to use lies outside the files.
- `WellFormedHolds`: `WellFormed` speaks of the set of records reached from an
  anchor, `ListOf`, which is the least set closed under the pointers. That it is
  the set of records that `own` assigns to the list follows from the numbering by
  the least-number principle, a fact of `WellFoundedInduction` that has no
  operator as a parameter.
- `ScanCompleteHolds`, `ScanOnceHolds`: with the invariant of a scan, that a key
  it still owes is in a record before the position if and only if it has been
  returned. It is preserved because a record of such a key is neither moved nor
  overwritten.
- `ImplementsMapHolds`: the initial files are a map; the write at which an
  update takes effect (an index record, data that is overwritten, data that is
  blanked by a delete) is a step of `KvStore`, so is the return of a call that
  changes nothing, and all other steps leave map and outcomes alone (one lemma per
  action). The effect may precede the return:
  `Effective` is what an update will report once it has taken effect.

### Only model-checked

- Liveness (`AllThreadsComplete`, `BothComplete`, `OpenReturns`,
  `AcknowledgedIsPrinted`, `CallReturns`, `CatchesUp`), which is beyond the proof
  system.
- `TypeOK`, `SlotsMatchWatches` and `Consistent` of `Dtree`. What the cache will be
  when the events that are queued now have been processed is a recursion over the
  queue, and `zapSubtree` is a fold over the cache; to show that either computes
  the right result for a queue of any length takes an induction over data, for
  which the provers cannot use the library's theorems.

## Findings

Each is a run that ends in a violation; the trace of the run is the scenario.

1. `mymq_stranded`. `mymq_send` signals one process when the queue was empty.
   Two sends before the woken receiver runs leave a second receiver blocked with
   a message on the queue. `mymq_receive` does the same to senders when the queue
   was full, and senders and receivers share one condition variable.
2. `sem_stranded`. `mysem_post` signals one thread when the value was 0. Two threads
   are blocked in `mysem_wait`, and a third posts twice before the woken one runs:
   that one takes a unit, and the other stays blocked although the value is 1.
   `prodcons1.c` is not affected (theorem `NoWakeupLost`): its semaphores never have
   two waiters.

## Known exceptions

What the code does in these cases is excepted in a property, by a condition that
its definition names:

- `ReaderNotStranded`: the handler of a cancelled writer wakes no readers.
  Readers that waited because of that writer may stay blocked on a free lock.
- `NwaitCoversReceivers` bounds `mqh_nwait` from below only: a receiver that is
  killed in its wait stays counted, and notifications stop.
- `SignalOnlyWhenDue` is about signals that are sent. `mymq_send` looks for a
  registered process before it waits for room, not after, so that a message that
  arrives on a queue drained meanwhile notifies nobody.
- `InitializedUnlessRemoved` and `SameUnlessRemoved`: `mysem_open` polls the bit by
  name. When the name is unlinked (by `mysem_unlink` or by the error path of a
  creator) and created again, it returns the old file, perhaps uninitialized.
- `AcknowledgedIsKept`, `PrintedAsSpooled`, `AcknowledgedIsPrinted`: `update_jobno`
  saves the next number when a job is taken from the queue and not when it is
  accepted. A daemon that dies before gives the number to another job, whose
  files replace those of the first. `clash` is the set of such jobs.
- `Consistent` (`raced`): `inotify_dtree.c` takes the path of an event from its cache
  when it processes the event, and walks a tree by path. A rename that is made
  before the program has caught up may be walked, or looked up, under a name that is
  no longer right, and the directory is not watched or has a wrong path for good; a
  comment in `findWatchChecked` knows of "races with nftw()". Nor does `watchDir`
  repeat a walk that `nftw` gave up with -1 because one directory went while it was
  about to open it: the directories it had not come to stay without a watch. The next
  rebuild of the cache repairs both. `SlotsMatchWatches` holds throughout.
- `CatchesUp`: `ualarm(2000, 0)` and the `read` it is for are two calls. If the signal
  comes between them, the read blocks until there is another event, with an
  `IN_MOVED_FROM` unprocessed; until then the cache has the directory at its old
  place, and no command is read.

## Limits

- The pthread and system calls are modelled from how the code uses them (marked
  external in the map). Their own error returns are modelled only in
  `mysem_open`, where the code has an error path for them.
- A process has one thread and one descriptor for a message queue.
- A process is not killed while it holds a mutex in shared memory; the code has
  no answer to that, and nothing could be shown but that the others hang.
- Values are unbounded naturals. The semaphores' `unsigned int` would wrap after
  2^32 posts without a wait; the runs stay far below.
- `mymq_open`'s creation of the queue follows the protocol of `mysem_open` and is
  not modelled a second time. `MyMq` begins with the queue created.
- `my_rwlock` without handlers is not modelled under cancellation.
- `Printd`: a client that never sends its header has no effect and is left out;
  the printer's answer is "OK" or not; numbers do not wrap at `INT_MAX`; a data
  file that is in the spool can be opened.
- `Db`: processes have opened the files themselves (no file offset is shared), and
  none dies inside a call: the library has no recovery.
- `Rtt`: `alarm` and `sigsetjmp` are one step. The code sets the jump buffer after
  the alarm, which is at least two seconds away.
- `Dtree`: one process changes the trees, only directories exist, no root is below
  another, and nothing is unmounted. After a timed out second read the code adds
  -1 to the number of bytes read (it tests `errno` and not the result); the byte
  is the end of an event that is not looked at again. For a path that is gone when
  `nftw` calls `lstat`, `traverseTree` is called with an unspecified `stat` buffer
  (`FTW_NS`); the model takes it that the path is passed over, which differs only if
  the path is there again before `inotify_add_watch`.

## Not modelled

The map covers a small share of the repository's lines, and the reason is the
repository: 3400 files of stand-alone examples, the same book code in several
versions, a vendored tool and build scripts. A program that opens a file, prints a
structure or calls one function of a library has no state over which a property
could be stated. What is left out, and why:

| Part of `src/` | Why |
|---|---|
| `unpv22e/my_pxsem_svsem` | the creation protocol is that of `SemOpen`, with `sem_otime` for the bit; wait and post are single `semop` calls. Its error path also removes a semaphore it did not create |
| `unpv22e/my_pxsem_fifo` | wait and post are a read and a write of one byte; the state is in the kernel |
| `unpv22e/mutex`, `pxsem` | the bounded buffer of `ProdCons` on other primitives |
| `unpv22e/lock` | one number under one lock |
| `unpv22e` servers (fifo, System V messages, doors), `unpv13e` servers and clients | request/reply loops; the state is in the kernel |
| `apue.3e/printer` other than `printd.c` | a sequential client, configuration, constants; in `printd.c` the IPP and HTTP text and the worker list, whose only use is followed by `exit` |
| `apue.3e/threads`, `threadctl`, `lib`, other chapters | fragments without a program, wrappers, one call per program |
| `tlpi-dist` other than the monitor | one or two system calls per program |
| `tlpi-book` | the programs of `tlpi-dist` as printed |
| `UNIX_Systems_Programming` | text book classes around one mutex and condition variable; exercises |
| `Advanced_Unix_Programming`, `OSC9e`, `IPC`, `device-model`, `netlink_example`, `uevent_example`, `Misc` | demonstrations, kernel module examples, small tools |
