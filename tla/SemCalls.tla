------------------------------ MODULE SemCalls ------------------------------
(***************************************************************************)
(* The semaphores of unpv22e/my_pxsem_mmap under any calls: each thread    *)
(* calls mysem_wait, mysem_trywait and mysem_post as it likes.             *)
(***************************************************************************)
EXTENDS MySem

CONSTANT MaxCount   \* bound: the value of a semaphore

\* The value every semaphore is created with in the run.
AllZero == [s \in Sem |-> 0]

\* mysem_trywait that succeeds.
TryWait(t, s) == Free(t) /\ Take(s) /\ UNCHANGED <<waiting, woken>>

PostCalled(t, s) == Free(t) /\ sem_count[s] < MaxCount /\ Post(s)

Next ==
    \E t \in Thread, s \in Sem :
       \/ WaitTakes(t, s) \/ WaitBlocks(t, s)
       \/ ResumeTakes(t, s) \/ ResumeBlocks(t, s) \/ SpuriousWakeup(t, s)
       \/ TryWait(t, s) \/ PostCalled(t, s)

Spec == SemInit /\ [][Next]_semVars

=============================================================================
