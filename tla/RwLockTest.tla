----------------------------- MODULE RwLockTest -----------------------------
(***************************************************************************)
(* unpv22e/my_rwlock/test1.c: reader and writer threads that each take and *)
(* release the lock NLoop times and, while they have it, count themselves  *)
(* in shared.nreaders or shared.nwriters and call err_quit when they find  *)
(* company they must not have.  The lock is the one of RwLock.             *)
(***************************************************************************)
EXTENDS RwLock

CONSTANTS
    Writer,     \* the threads that run writer(); the others run reader()
    NLoop       \* nloop

ASSUME TestAssumption == Writer \subseteq Thread /\ NLoop \in Nat

VARIABLES
    step,       \* where each thread is in the body of its loop
    left,       \* iterations each thread has left
    nreaders,   \* shared.nreaders
    nwriters,   \* shared.nwriters
    quit        \* err_quit was called: the process is gone

testVars == <<step, left, nreaders, nwriters, quit>>

allVars == <<vars, testVars>>

TestInit ==
    /\ Init
    /\ step = [t \in Thread |-> "lock"]
    /\ left = [t \in Thread |-> NLoop]
    /\ nreaders = 0
    /\ nwriters = 0
    /\ quit = FALSE

ToStep(t, from, to) == step[t] = from /\ step' = [step EXCEPT ![t] = to]

\* pthread_rwlock_rdlock or pthread_rwlock_wrlock, its waits included.
Lock(t) ==
    /\ step[t] = "lock" /\ left[t] > 0
    /\ IF t \in Writer THEN WrLock(t) \/ WrResume(t)
                      ELSE RdLock(t) \/ RdResume(t)
    /\ UNCHANGED testVars

\* shared.nreaders++ under rcountlock, or shared.nwriters++.
Count(t) ==
    /\ pc[t] \in {"reading", "writing"} /\ ToStep(t, "lock", "check")
    /\ nwriters' = IF t \in Writer THEN nwriters + 1 ELSE nwriters
    /\ nreaders' = IF t \in Writer THEN nreaders ELSE nreaders + 1
    /\ UNCHANGED <<vars, left, quit>>

\* The tests that end in err_quit.
Check(t) ==
    /\ ToStep(t, "check", "uncount")
    /\ quit' = IF t \in Writer THEN nwriters > 1 \/ nreaders > 0
                               ELSE nwriters > 0
    /\ UNCHANGED <<vars, left, nreaders, nwriters>>

Uncount(t) ==
    /\ ToStep(t, "uncount", "unlock")
    /\ nwriters' = IF t \in Writer THEN nwriters - 1 ELSE nwriters
    /\ nreaders' = IF t \in Writer THEN nreaders ELSE nreaders - 1
    /\ UNCHANGED <<vars, left, quit>>

EndOfLoop(t) ==
    /\ ToStep(t, "unlock", "lock")
    /\ Unlock(t)
    /\ left' = [left EXCEPT ![t] = @ - 1]
    /\ UNCHANGED <<nreaders, nwriters, quit>>

ThreadStep(t) ==
    ~quit /\ (Lock(t) \/ Count(t) \/ Check(t) \/ Uncount(t) \/ EndOfLoop(t))

AllDone == \A t \in Thread : left[t] = 0

\* main has joined every thread and exits.
Exit == AllDone /\ UNCHANGED allVars

TestNext ==
    \/ \E t \in Thread : ThreadStep(t)
    \/ \E t \in Thread : ~quit /\ SpuriousWakeup(t) /\ UNCHANGED testVars
    \/ Exit

\* Every thread is scheduled and gets rw_mutex when it keeps asking for it;
\* spurious wakeups need not happen.
TestSpec ==
    /\ TestInit /\ [][TestNext]_allVars
    /\ \A t \in Thread : WF_allVars(ThreadStep(t))

-----------------------------------------------------------------------------

\* "reader: %d writers found", "writer: %d writers found", "writer: %d readers
\* found": none of the three err_quit calls of test1.c is ever reached.
NoErrQuit == ~quit

\* main's pthread_join calls all return: every thread completes its loops.
AllThreadsComplete == <>AllDone
=============================================================================
