---------------------------- MODULE RwLockCancel ----------------------------
(***************************************************************************)
(* unpv22e/my_rwlock_cancel: cancellation of threads that wait for the     *)
(* lock.  pthread_cond_wait is a cancellation point: the cancelled thread  *)
(* leaves the wait set, then reacquires rw_mutex, and then runs the        *)
(* handler that rdlock or wrlock has pushed, which undoes the count and    *)
(* unlocks.                                                                *)
(*                                                                         *)
(* rdlock, wrlock and the try functions differ from those of my_rwlock     *)
(* only in the handlers, so they are those of RwLock; unlock differs.      *)
(***************************************************************************)
EXTENDS RwLock

\* Mutant: writers are never signalled.
CWakeupsReadersOnly(f) ==
    IF rw_nwaitreaders > 0 THEN {Broadcast(f, "rdwait", "rdwake")} ELSE {f}

\* Mutant: readers are never woken.
CWakeupsWritersOnly(f) ==
    IF rw_nwaitwriters > 0 THEN Signal(f, "wrwait", "wrwake") ELSE {f}

\* The wakeups of my_rwlock_cancel's unlock: a writer is signalled after every
\* release, also while readers still hold the lock.
CWakeups(f) ==
    IF rw_nwaitwriters > 0 THEN Signal(f, "wrwait", "wrwake")
    ELSE IF rw_nwaitreaders > 0 THEN {Broadcast(f, "rdwait", "rdwake")} ELSE {f}

CUnlock(t) ==
    /\ rw_magic /\ pc[t] \in {"reading", "writing"}
    /\ rw_refcount > 0 \/ rw_refcount = -1
    /\ rw_refcount' = Released
    /\ pc' \in CWakeups([pc EXCEPT ![t] = "idle"])
    /\ UNCHANGED <<rw_magic, rw_nwaitreaders, rw_nwaitwriters>>

\* A cancellation request acts on a thread in pthread_cond_wait.  A thread that
\* was already signalled does not keep the signal from the other waiters.
Cancel(t) ==
    /\ \/ /\ pc[t] \in {"rdwait", "rdwake"}
          /\ Goto(t, "rdcancel")
       \/ /\ pc[t] = "wrwait"
          /\ Goto(t, "wrcancel")
       \/ /\ pc[t] = "wrwake"
          /\ pc' \in Signal([pc EXCEPT ![t] = "wrcancel"], "wrwait", "wrwake")
    /\ UNCHANGED lockVars

\* rwlock_cancelrdwait, run once the cancelled thread has rw_mutex again.
CancelRdWait(t) ==
    /\ pc[t] = "rdcancel"
    /\ rw_nwaitreaders' = rw_nwaitreaders - 1
    /\ Goto(t, "ended")
    /\ UNCHANGED <<rw_magic, rw_refcount, rw_nwaitwriters>>

\* Mutant: the handler unlocks the mutex and leaves the count.
CancelWrWaitKeepsCount(t) ==
    /\ pc[t] = "wrcancel"
    /\ Goto(t, "ended")
    /\ UNCHANGED lockVars

\* rwlock_cancelwrwait.
CancelWrWait(t) ==
    /\ pc[t] = "wrcancel"
    /\ rw_nwaitwriters' = rw_nwaitwriters - 1
    /\ Goto(t, "ended")
    /\ UNCHANGED <<rw_magic, rw_refcount, rw_nwaitreaders>>

\* rdlock and wrlock with their waits; the handlers are pushed around the wait
\* and popped after it, and change nothing unless the thread is cancelled.
CRdLock(t) == RdLock(t) \/ RdResume(t)

CWrLock(t) == WrLock(t) \/ WrResume(t)

CNext ==
    \/ RwlockInit \/ Destroy
    \/ \E t \in Thread :
          \/ CRdLock(t) \/ CWrLock(t) \/ TryRdLock(t) \/ TryWrLock(t)
          \/ CUnlock(t) \/ SpuriousWakeup(t)
          \/ Cancel(t) \/ CancelRdWait(t) \/ CancelWrWait(t)

CSpec == Init /\ [][CNext]_vars

-----------------------------------------------------------------------------

CWaitingReaders == WaitingReaders \cup At("rdcancel")
CWaitingWriters == WaitingWriters \cup At("wrcancel")

\* With the handlers, cancellation keeps the three counters exact.
CCountersAgree ==
    /\ rw_refcount = IF Writers # {} THEN -1 ELSE Cardinality(Readers)
    /\ rw_nwaitreaders = Cardinality(CWaitingReaders)
    /\ rw_nwaitwriters = Cardinality(CWaitingWriters)

\* What testcancel.c of my_rwlock_cancel prints and relies on: once the other
\* threads are done or cancelled, pthread_rwlock_destroy does not see EBUSY.
DestroySucceedsAfterCancel ==
    (\A t \in Thread : pc[t] \in {"idle", "ended"}) =>
        rw_refcount = 0 /\ rw_nwaitreaders = 0 /\ rw_nwaitwriters = 0

\* Cancelling one writer strands no other writer: a writer that is blocked has
\* a holder, or a woken writer, before it.
WriterNotStranded ==
    At("wrwait") # {} => Readers \cup Writers \cup At("wrwake") # {}

\* rdlock makes a reader wait for a writer that has the lock or waits for it, and
\* the last such writer's unlock wakes it: a blocked reader has such a writer
\* before it as long as no thread was cancelled.  (rwlock_cancelwrwait takes away
\* the writer that readers wait behind and wakes none of them.)
ReaderNotStranded ==
    At("rdwait") # {} => Writers \cup CWaitingWriters \cup At("ended") # {}
=============================================================================
