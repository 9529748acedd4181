------------------------------- MODULE RwLock -------------------------------
(***************************************************************************)
(* The read-write lock of unpv22e/my_rwlock: pthread_rwlock_t and its      *)
(* seven functions, called by a set of threads.                            *)
(*                                                                         *)
(* All counters are changed under rw_mutex, so the code between two        *)
(* releases of the mutex (pthread_mutex_unlock or the atomic release       *)
(* inside pthread_cond_wait) is one action.  A thread inside               *)
(* pthread_cond_wait is "rdwait" or "wrwait" while it is blocked on the    *)
(* condition variable and "rdwake" or "wrwake" once it was woken and still *)
(* has to reacquire the mutex: other threads run in between.               *)
(*                                                                         *)
(* Two things happen outside the mutex: the test of rw_magic at the start  *)
(* of every function, and all of pthread_rwlock_init and                   *)
(* pthread_rwlock_destroy.  A program calls these two only while no other  *)
(* thread is executing a call, so they are one action each; threads that   *)
(* hold the lock, or are blocked inside a wait, there may be.              *)
(***************************************************************************)
EXTENDS Integers, FiniteSets

CONSTANT Thread     \* the threads that share the lock

ASSUME ThreadAssumption == IsFiniteSet(Thread)

VARIABLES
    rw_magic,        \* rw_magic = RW_MAGIC
    rw_refcount,     \* -1 if a writer has the lock, else the number of readers
    rw_nwaitreaders, \* number of threads inside the wait of rdlock
    rw_nwaitwriters, \* number of threads inside the wait of wrlock
    pc               \* where each thread is

lockVars == <<rw_magic, rw_refcount, rw_nwaitreaders, rw_nwaitwriters>>

vars == <<rw_magic, rw_refcount, rw_nwaitreaders, rw_nwaitwriters, pc>>

At(label) == {t \in Thread : pc[t] = label}

Goto(t, label) == pc' = [pc EXCEPT ![t] = label]

\* pthread_cond_signal: one blocked thread, any one, leaves the wait set; a
\* signal that finds the set empty has no effect.
Signal(f, blocked, woken) ==
    LET waiting == {t \in Thread : f[t] = blocked} IN
    IF waiting = {} THEN {f} ELSE {[f EXCEPT ![w] = woken] : w \in waiting}

\* pthread_cond_broadcast: every blocked thread leaves the wait set.
Broadcast(f, blocked, woken) ==
    [t \in Thread |-> IF f[t] = blocked THEN woken ELSE f[t]]

\* PTHREAD_RWLOCK_INITIALIZER: no thread has called the lock yet.
Init ==
    /\ rw_magic = TRUE
    /\ rw_refcount = 0
    /\ rw_nwaitreaders = 0
    /\ rw_nwaitwriters = 0
    /\ pc = [t \in Thread |-> "idle"]

-----------------------------------------------------------------------------

\* pthread_rwlock_init on a lock that is not initialized.
RwlockInit ==
    /\ ~rw_magic
    /\ rw_magic' = TRUE
    /\ rw_refcount' = 0
    /\ rw_nwaitreaders' = 0
    /\ rw_nwaitwriters' = 0
    /\ UNCHANGED pc

\* pthread_rwlock_destroy: EINVAL and EBUSY change nothing.
Destroy ==
    /\ rw_magic
    /\ rw_refcount = 0 /\ rw_nwaitreaders = 0 /\ rw_nwaitwriters = 0
    /\ rw_magic' = FALSE
    /\ UNCHANGED <<rw_refcount, rw_nwaitreaders, rw_nwaitwriters, pc>>

ReaderMustWait == rw_refcount < 0 \/ rw_nwaitwriters > 0

\* The loop of rdlock up to the next release of the mutex, entered with nr
\* other readers counted as waiting: wait, or take a read lock.
RdLoop(t, nr) ==
    \/ /\ ReaderMustWait
       /\ rw_nwaitreaders' = nr + 1
       /\ Goto(t, "rdwait")
       /\ UNCHANGED <<rw_magic, rw_refcount, rw_nwaitwriters>>
    \/ /\ ~ReaderMustWait
       /\ rw_nwaitreaders' = nr
       /\ rw_refcount' = rw_refcount + 1
       /\ Goto(t, "reading")
       /\ UNCHANGED <<rw_magic, rw_nwaitwriters>>

RdLock(t) ==
    /\ rw_magic /\ pc[t] = "idle"
    /\ RdLoop(t, rw_nwaitreaders)

\* Mutant: the decrement after pthread_cond_wait is missing.
RdResumeWithoutDecrement(t) ==
    /\ pc[t] = "rdwake"
    /\ RdLoop(t, rw_nwaitreaders)

RdResume(t) ==
    /\ pc[t] = "rdwake"
    /\ RdLoop(t, rw_nwaitreaders - 1)

\* Mutant: a writer waits for another writer only.
WrLoopDespiteReaders(t, nw) ==
    \/ /\ rw_refcount < 0
       /\ rw_nwaitwriters' = nw + 1
       /\ Goto(t, "wrwait")
       /\ UNCHANGED <<rw_magic, rw_refcount, rw_nwaitreaders>>
    \/ /\ rw_refcount >= 0
       /\ rw_nwaitwriters' = nw
       /\ rw_refcount' = -1
       /\ Goto(t, "writing")
       /\ UNCHANGED <<rw_magic, rw_nwaitreaders>>

\* The loop of wrlock, entered with nw other writers counted as waiting.
WrLoop(t, nw) ==
    \/ /\ rw_refcount # 0
       /\ rw_nwaitwriters' = nw + 1
       /\ Goto(t, "wrwait")
       /\ UNCHANGED <<rw_magic, rw_refcount, rw_nwaitreaders>>
    \/ /\ rw_refcount = 0
       /\ rw_nwaitwriters' = nw
       /\ rw_refcount' = -1
       /\ Goto(t, "writing")
       /\ UNCHANGED <<rw_magic, rw_nwaitreaders>>

WrLock(t) ==
    /\ rw_magic /\ pc[t] = "idle"
    /\ WrLoop(t, rw_nwaitwriters)

WrResume(t) ==
    /\ pc[t] = "wrwake"
    /\ WrLoop(t, rw_nwaitwriters - 1)

\* Mutant: readers that barge in front of waiting writers.
TryRdLockBarging(t) ==
    /\ rw_magic /\ pc[t] = "idle"
    /\ rw_refcount >= 0
    /\ rw_refcount' = rw_refcount + 1
    /\ Goto(t, "reading")
    /\ UNCHANGED <<rw_magic, rw_nwaitreaders, rw_nwaitwriters>>

\* tryrdlock and trywrlock; EBUSY changes nothing.
TryRdLock(t) ==
    /\ rw_magic /\ pc[t] = "idle"
    /\ ~ReaderMustWait
    /\ rw_refcount' = rw_refcount + 1
    /\ Goto(t, "reading")
    /\ UNCHANGED <<rw_magic, rw_nwaitreaders, rw_nwaitwriters>>

\* Mutant: only another writer is taken for an obstacle.
TryWrLockDespiteReaders(t) ==
    /\ rw_magic /\ pc[t] = "idle"
    /\ rw_refcount >= 0
    /\ rw_refcount' = -1
    /\ Goto(t, "writing")
    /\ UNCHANGED <<rw_magic, rw_nwaitreaders, rw_nwaitwriters>>

TryWrLock(t) ==
    /\ rw_magic /\ pc[t] = "idle"
    /\ rw_refcount = 0
    /\ rw_refcount' = -1
    /\ Goto(t, "writing")
    /\ UNCHANGED <<rw_magic, rw_nwaitreaders, rw_nwaitwriters>>

\* rw_refcount after the release; unlock calls err_dump when it is 0 before.
Released == IF rw_refcount > 0 THEN rw_refcount - 1 ELSE 0

\* Mutant: readers are woken one at a time.
WakeupsOneReader(f) ==
    IF rw_nwaitwriters > 0
    THEN IF Released = 0 THEN Signal(f, "wrwait", "wrwake") ELSE {f}
    ELSE IF rw_nwaitreaders > 0 THEN Signal(f, "rdwait", "rdwake") ELSE {f}

\* Mutant: the count is tested as it was before the release.
WakeupsStaleCount(f) ==
    IF rw_nwaitwriters > 0
    THEN IF rw_refcount = 0 THEN Signal(f, "wrwait", "wrwake") ELSE {f}
    ELSE IF rw_nwaitreaders > 0 THEN {Broadcast(f, "rdwait", "rdwake")} ELSE {f}

\* The wakeups of unlock, applied to f, the threads' places after the release.
Wakeups(f) ==
    IF rw_nwaitwriters > 0
    THEN IF Released = 0 THEN Signal(f, "wrwait", "wrwake") ELSE {f}
    ELSE IF rw_nwaitreaders > 0 THEN {Broadcast(f, "rdwait", "rdwake")} ELSE {f}

Unlock(t) ==
    /\ rw_magic /\ pc[t] \in {"reading", "writing"}
    /\ rw_refcount > 0 \/ rw_refcount = -1
    /\ rw_refcount' = Released
    /\ pc' \in Wakeups([pc EXCEPT ![t] = "idle"])
    /\ UNCHANGED <<rw_magic, rw_nwaitreaders, rw_nwaitwriters>>

\* pthread_cond_wait may return without a signal.
SpuriousWakeup(t) ==
    \/ pc[t] = "rdwait" /\ Goto(t, "rdwake") /\ UNCHANGED lockVars
    \/ pc[t] = "wrwait" /\ Goto(t, "wrwake") /\ UNCHANGED lockVars

Next ==
    \/ RwlockInit
    \/ Destroy
    \/ \E t \in Thread :
          \/ RdLock(t) \/ RdResume(t) \/ TryRdLock(t)
          \/ WrLock(t) \/ WrResume(t) \/ TryWrLock(t)
          \/ Unlock(t) \/ SpuriousWakeup(t)

Spec == Init /\ [][Next]_vars

-----------------------------------------------------------------------------

Readers == At("reading")
Writers == At("writing")
WaitingReaders == At("rdwait") \cup At("rdwake")
WaitingWriters == At("wrwait") \cup At("wrwake")

\* The fields and the threads' places have their types.
TypeOK ==
    /\ rw_magic \in BOOLEAN
    /\ rw_refcount \in Int /\ rw_refcount >= -1
    /\ rw_nwaitreaders \in Nat
    /\ rw_nwaitwriters \in Nat
    /\ pc \in [Thread -> {"idle", "rdwait", "rdwake", "wrwait", "wrwake",
                         "reading", "writing"}]

\* rw_refcount is what the comment in pthread_rwlock.h says: "-1 if writer has
\* the lock, else # readers holding the lock", and the two wait counters count
\* the threads inside the waits of rdlock and wrlock, woken ones included.
CountersAgree ==
    /\ rw_refcount = IF Writers # {} THEN -1 ELSE Cardinality(Readers)
    /\ rw_nwaitreaders = Cardinality(WaitingReaders)
    /\ rw_nwaitwriters = Cardinality(WaitingWriters)

\* What test1.c asserts: a thread that has the lock for writing has it alone.
Exclusion ==
    \A t \in Writers : \A u \in Readers \cup Writers : u = t

\* A lock that some thread holds or waits for is never destroyed: a lock whose
\* magic number is cleared has no user left.
DestroyedIsUnused ==
    ~rw_magic => \A t \in Thread : pc[t] = "idle"

\* No wakeup is lost: a reader is blocked only while a writer holds the lock
\* or waits for it, and writers that wait for a free lock have one among them
\* that was woken and is on its way to the mutex.
NoLostWakeup ==
    /\ At("rdwait") # {} => Writers \cup WaitingWriters # {}
    /\ WaitingWriters # {} => Readers \cup Writers \cup At("wrwake") # {}

\* "give preference to waiting writers": no reader enters while a writer
\* waits, whichever way it asked and however it was woken.
WriterPreference ==
    [][\A t \in Thread :
          pc[t] # "reading" /\ pc'[t] = "reading" => WaitingWriters = {}]_vars
=============================================================================
