------------------------------- MODULE MySem --------------------------------
(***************************************************************************)
(* The semaphores of unpv22e/my_pxsem_mmap once they are open: a count in  *)
(* mapped memory with a mutex and a condition variable, for any number of  *)
(* semaphores and threads.                                                 *)
(*                                                                         *)
(* The count is used under sem_mutex, so the code between two releases of  *)
(* the mutex is one action.  Calls that fail (EINVAL, EAGAIN) change       *)
(* nothing and are left out, and so is mysem_getvalue, which only reads.   *)
(***************************************************************************)
EXTENDS Integers, FiniteSets

CONSTANTS
    Thread,
    Sem,        \* the semaphores
    Initial     \* the value each one was created with

ASSUME SemAssumption == IsFiniteSet(Thread) /\ Initial \in [Sem -> Nat]

VARIABLES
    sem_count,
    waiting,    \* threads blocked on sem_cond of each semaphore
    woken       \* threads that left sem_cond and need sem_mutex to go on

semVars == <<sem_count, waiting, woken>>

SemInit ==
    /\ sem_count = Initial
    /\ waiting = [s \in Sem |-> {}]
    /\ woken = [s \in Sem |-> {}]

Inside(s) == waiting[s] \cup woken[s]

\* t is in no call.
Free(t) == \A s \in Sem : t \notin Inside(s)

-----------------------------------------------------------------------------

\* Mutant: the count is incremented before it is tested.
SignalDueLate(s) == sem_count[s] + 1 = 0

\* mysem_post signals when the count leaves 0.
SignalDue(s) == sem_count[s] = 0

\* pthread_cond_signal on sem_cond.
CondSignal(s) ==
    \/ waiting[s] = {} /\ UNCHANGED <<waiting, woken>>
    \/ \E t \in waiting[s] :
          /\ waiting' = [waiting EXCEPT ![s] = @ \ {t}]
          /\ woken' = [woken EXCEPT ![s] = @ \cup {t}]

Post(s) ==
    /\ IF SignalDue(s) THEN CondSignal(s) ELSE UNCHANGED <<waiting, woken>>
    /\ sem_count' = [sem_count EXCEPT ![s] = @ + 1]

\* The loop of mysem_wait ends.
Take(s) ==
    /\ sem_count[s] > 0
    /\ sem_count' = [sem_count EXCEPT ![s] = @ - 1]

\* mysem_wait that returns at once.
WaitTakes(t, s) == Free(t) /\ Take(s) /\ UNCHANGED <<waiting, woken>>

\* mysem_wait that finds 0.
WaitBlocks(t, s) ==
    /\ Free(t) /\ sem_count[s] = 0
    /\ waiting' = [waiting EXCEPT ![s] = @ \cup {t}]
    /\ UNCHANGED <<sem_count, woken>>

\* Back from pthread_cond_wait with a value above 0.
ResumeTakes(t, s) ==
    /\ t \in woken[s] /\ Take(s)
    /\ woken' = [woken EXCEPT ![s] = @ \ {t}]
    /\ UNCHANGED waiting

\* Back from pthread_cond_wait, and another thread was faster.
ResumeBlocks(t, s) ==
    /\ t \in woken[s] /\ sem_count[s] = 0
    /\ waiting' = [waiting EXCEPT ![s] = @ \cup {t}]
    /\ woken' = [woken EXCEPT ![s] = @ \ {t}]
    /\ UNCHANGED sem_count

\* pthread_cond_wait may return without a signal.
SpuriousWakeup(t, s) ==
    /\ t \in waiting[s]
    /\ waiting' = [waiting EXCEPT ![s] = @ \ {t}]
    /\ woken' = [woken EXCEPT ![s] = @ \cup {t}]
    /\ UNCHANGED sem_count

-----------------------------------------------------------------------------

\* The fields have their types.
SemTypeOK ==
    /\ sem_count \in [Sem -> Nat]
    /\ waiting \in [Sem -> SUBSET Thread]
    /\ woken \in [Sem -> SUBSET Thread]

\* A thread is not left blocked in mysem_wait while the value is above 0: one of
\* the waiting threads has been woken to take it.  Posix semaphores promise it;
\* mysem_post, which signals only when the value leaves 0, does not keep it for
\* every program.
WaiterWoken ==
    \A s \in Sem : sem_count[s] > 0 /\ waiting[s] # {} => woken[s] # {}
=============================================================================
