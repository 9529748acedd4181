------------------------------ MODULE ProdCons ------------------------------
(***************************************************************************)
(* unpv22e/my_pxsem_mmap/prodcons1.c: one producer and one consumer, a     *)
(* circular buffer and three of the semaphores of MySem.                   *)
(*                                                                         *)
(* Both threads run the same five steps for every item: wait for a slot,   *)
(* wait for the mutex, use the buffer, post the mutex, tell the other.     *)
(***************************************************************************)
EXTENDS MySem

CONSTANTS
    NBuff,      \* NBUFF
    NItems      \* nitems

ThreeSems ==
    [s \in Sem |-> CASE s = "mutex" -> 1 [] s = "nempty" -> NBuff
                     [] s = "nstored" -> 0]

ASSUME ProdConsAssumption ==
    /\ Thread = {"produce", "consume"}
    /\ Sem = {"mutex", "nempty", "nstored"}
    /\ NBuff \in Nat \ {0} /\ NItems \in Nat
    /\ Initial = ThreeSems

VARIABLES
    pc,         \* where each thread is
    i,          \* the loop variable of each thread
    buff,       \* shared.buff
    mismatch    \* consume() printed "buff[%d] = %d"

progVars == <<pc, i, buff, mismatch>>

vars == <<semVars, progVars>>

LoopTest(k) == IF k < NItems THEN "slot" ELSE "done"

Init ==
    /\ SemInit
    /\ pc = [t \in Thread |-> LoopTest(0)]
    /\ i = [t \in Thread |-> 0]
    /\ buff = [k \in 0..(NBuff - 1) |-> 0]
    /\ mismatch = FALSE

-----------------------------------------------------------------------------

Goto(t, from, to) == pc[t] = from /\ pc' = [pc EXCEPT ![t] = to]

\* Mysem_wait(s), its waits included.
WaitStep(t, s, from, to) ==
    /\ \/ (WaitTakes(t, s) \/ ResumeTakes(t, s)) /\ Goto(t, from, to)
       \/ (WaitBlocks(t, s) \/ ResumeBlocks(t, s)) /\ Goto(t, from, from)
    /\ UNCHANGED <<i, buff, mismatch>>

\* Mutant: the wait for a slot is missing.
SlotMissing(t) ==
    /\ Goto(t, "slot", "lock")
    /\ UNCHANGED <<semVars, i, buff, mismatch>>

\* Mysem_wait(shared.nempty) of produce(), Mysem_wait(shared.nstored) of
\* consume().
Slot(t) ==
    WaitStep(t, IF t = "produce" THEN "nempty" ELSE "nstored", "slot", "lock")

Lock(t) == WaitStep(t, "mutex", "lock", "use")

\* An item is stored, or compared.
Use(t) ==
    LET k == i[t] % NBuff IN
    /\ Goto(t, "use", "unlock")
    /\ IF t = "produce"
       THEN /\ buff' = [buff EXCEPT ![k] = i[t]]
            /\ UNCHANGED mismatch
       ELSE /\ mismatch' = (mismatch \/ buff[k] # i[t])
            /\ UNCHANGED buff
    /\ UNCHANGED <<semVars, i>>

Unlock(t) ==
    /\ Goto(t, "unlock", "tell")
    /\ Post("mutex")
    /\ UNCHANGED <<i, buff, mismatch>>

\* Mysem_post(shared.nstored) of produce(), Mysem_post(shared.nempty) of
\* consume(), and the end of the loop.
Tell(t) ==
    /\ Goto(t, "tell", LoopTest(i[t] + 1))
    /\ Post(IF t = "produce" THEN "nstored" ELSE "nempty")
    /\ i' = [i EXCEPT ![t] = @ + 1]
    /\ UNCHANGED <<buff, mismatch>>

ThreadStep(t) == Slot(t) \/ Lock(t) \/ Use(t) \/ Unlock(t) \/ Tell(t)

AllDone == \A t \in Thread : pc[t] = "done"

\* main has joined both threads and exits.
Exit == AllDone /\ UNCHANGED vars

Next ==
    \/ \E t \in Thread : ThreadStep(t)
    \/ \E t \in Thread, s \in Sem : SpuriousWakeup(t, s) /\ UNCHANGED progVars
    \/ Exit

Safety == Init /\ [][Next]_vars

\* Both threads are scheduled and get sem_mutex when they keep asking for it;
\* spurious wakeups need not happen.
Spec == Safety /\ \A t \in Thread : WF_vars(ThreadStep(t))

-----------------------------------------------------------------------------

\* The program's variables have their types.
TypeOK ==
    /\ SemTypeOK
    /\ pc \in [Thread -> {"slot", "lock", "use", "unlock", "tell", "done"}]
    /\ i \in [Thread -> 0..NItems]
    /\ buff \in [0..(NBuff - 1) -> Nat]
    /\ mismatch \in BOOLEAN

\* The check in consume(): item i is found in slot i % NBUFF, so no item is
\* overwritten before it is consumed or consumed before it is stored.
NoMismatch == ~mismatch

\* The mutex semaphore keeps the two threads from using the buffer together.
BufferExclusion ==
    \A t, u \in Thread :
       pc[t] \in {"use", "unlock"} /\ pc[u] \in {"use", "unlock"} => t = u

\* main's two pthread_join calls return.
BothComplete == <>AllDone
=============================================================================
