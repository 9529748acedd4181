---------------------------- MODULE RwLockProofs ----------------------------
(***************************************************************************)
(* Proofs about RwLock, about RwLockTest on top of it and about            *)
(* RwLockCancel, for every finite set of threads.                          *)
(***************************************************************************)
EXTENDS RwLockTest, RwLockCancel, FiniteSetTheorems, TLAPS

\* Counting the threads of a set: the facts about Cardinality that the proofs
\* below use.
LEMMA Counting ==
    ASSUME NEW S \in SUBSET Thread, NEW t \in Thread
    PROVE  /\ Cardinality(S) \in Nat
           /\ Cardinality(S) = 0 <=> S = {}
           /\ t \notin S => Cardinality(S \cup {t}) = Cardinality(S) + 1
           /\ t \in S => Cardinality(S \ {t}) = Cardinality(S) - 1
<1>1. IsFiniteSet(S)
  BY Zenon, ThreadAssumption, FS_Subset
<1> QED
  BY Zenon, <1>1, FS_CardinalityType, FS_EmptySet, FS_AddElement, FS_RemoveElement

\* The four groups of threads the counters count are sets of threads.
LEMMA Groups ==
    /\ Readers \in SUBSET Thread /\ Writers \in SUBSET Thread
    /\ WaitingReaders \in SUBSET Thread /\ WaitingWriters \in SUBSET Thread
BY Zenon DEF Readers, Writers, WaitingReaders, WaitingWriters, At

\* The inductive invariant: the counters agree only together with exclusion (a
\* reader's decrement must not hit the writer's -1), and pthread_rwlock_init,
\* which clears them, keeps them right only for a lock without users.
IInv == TypeOK /\ CountersAgree /\ Exclusion /\ DestroyedIsUnused

LEMMA InitIInv == Init => IInv
<1> SUFFICES ASSUME Init PROVE IInv
  OBVIOUS
<1>1. Readers = {} /\ Writers = {} /\ WaitingReaders = {} /\ WaitingWriters = {}
  BY Zenon DEF Init, Readers, Writers, WaitingReaders, WaitingWriters, At
<1> QED
  BY <1>1, FS_EmptySet DEF Init, IInv, TypeOK, CountersAgree, Exclusion,
      DestroyedIsUnused

\* A thread that goes to a place joins the group of that place and leaves the
\* others.
LEMMA Moves ==
    ASSUME TypeOK, NEW t \in Thread, NEW label, Goto(t, label)
    PROVE  /\ Readers' = IF label = "reading" THEN Readers \cup {t}
                                              ELSE Readers \ {t}
           /\ Writers' = IF label = "writing" THEN Writers \cup {t}
                                              ELSE Writers \ {t}
           /\ WaitingReaders' = IF label \in {"rdwait", "rdwake"}
                                THEN WaitingReaders \cup {t}
                                ELSE WaitingReaders \ {t}
           /\ WaitingWriters' = IF label \in {"wrwait", "wrwake"}
                                THEN WaitingWriters \cup {t}
                                ELSE WaitingWriters \ {t}
BY Zenon DEF TypeOK, Goto, Readers, Writers, WaitingReaders, WaitingWriters, At

\* A thread inside one of the lock's functions rules out a destroyed lock.
LEMMA InUse ==
    ASSUME IInv, NEW t \in Thread, pc[t] # "idle"
    PROVE  rw_magic
BY Zenon DEF IInv, TypeOK, DestroyedIsUnused

\* rdlock up to its first wait or to its return, and tryrdlock.
LEMMA RdLockIInv ==
    ASSUME IInv, NEW t \in Thread, RdLock(t) \/ TryRdLock(t)
    PROVE  IInv'
<1> USE DEF IInv
<1>1. /\ rw_magic
      /\ t \notin Readers \cup Writers \cup WaitingReaders \cup WaitingWriters
  BY Zenon DEF RdLock, TryRdLock, Readers, Writers, WaitingReaders, WaitingWriters, At
<1>2. CASE ReaderMustWait
  <2>1. /\ Goto(t, "rdwait") /\ rw_nwaitreaders' = rw_nwaitreaders + 1
        /\ UNCHANGED <<rw_magic, rw_refcount, rw_nwaitwriters>>
    BY Zenon, <1>2 DEF RdLock, TryRdLock, RdLoop
  <2>2. /\ Readers' = Readers /\ Writers' = Writers
        /\ WaitingReaders' = WaitingReaders \cup {t}
        /\ WaitingWriters' = WaitingWriters
    BY <2>1, <1>1, Moves
  <2>3. TypeOK'
    BY <2>1 DEF TypeOK, Goto
  <2> QED
    BY Zenon, <1>1, <2>1, <2>2, <2>3, Counting, Groups
    DEF CountersAgree, Exclusion, DestroyedIsUnused
<1>3. CASE ~ReaderMustWait
  <2>1. /\ Goto(t, "reading") /\ rw_refcount' = rw_refcount + 1
        /\ UNCHANGED <<rw_magic, rw_nwaitreaders, rw_nwaitwriters>>
    BY Zenon, <1>3 DEF RdLock, TryRdLock, RdLoop
  <2>2. /\ Readers' = Readers \cup {t} /\ Writers' = Writers
        /\ WaitingReaders' = WaitingReaders
        /\ WaitingWriters' = WaitingWriters
    BY <2>1, <1>1, Moves
  <2>3. TypeOK'
    BY <2>1 DEF TypeOK, Goto
  <2>4. Writers = {}
    BY <1>3 DEF CountersAgree, ReaderMustWait
  <2> QED
    BY Zenon, <1>1, <2>1, <2>2, <2>3, <2>4, Counting, Groups
    DEF CountersAgree, Exclusion, DestroyedIsUnused
<1> QED
  BY Zenon, <1>2, <1>3

\* A reader that comes back from pthread_cond_wait.
LEMMA RdResumeIInv ==
    ASSUME IInv, NEW t \in Thread, RdResume(t)
    PROVE  IInv'
<1> USE DEF IInv
<1>1. /\ t \in WaitingReaders
      /\ t \notin Readers \cup Writers \cup WaitingWriters
  BY Zenon DEF RdResume, Readers, Writers, WaitingReaders, WaitingWriters, At
<1>2. rw_magic /\ rw_nwaitreaders \in Nat \ {0}
  BY Zenon, <1>1, InUse, Counting, Groups DEF RdResume, CountersAgree, TypeOK
<1>3. CASE ReaderMustWait
  <2>1. Goto(t, "rdwait") /\ UNCHANGED lockVars
    BY <1>2, <1>3 DEF RdResume, RdLoop, lockVars
  <2>2. /\ Readers' = Readers /\ Writers' = Writers
        /\ WaitingReaders' = WaitingReaders
        /\ WaitingWriters' = WaitingWriters
    BY <2>1, <1>1, Moves
  <2>3. TypeOK'
    BY Zenon, <2>1 DEF TypeOK, Goto, lockVars
  <2> QED
    BY Zenon, <1>2, <2>1, <2>2, <2>3
    DEF CountersAgree, Exclusion, DestroyedIsUnused, lockVars
<1>4. CASE ~ReaderMustWait
  <2>1. /\ Goto(t, "reading") /\ rw_refcount' = rw_refcount + 1
        /\ rw_nwaitreaders' = rw_nwaitreaders - 1
        /\ UNCHANGED <<rw_magic, rw_nwaitwriters>>
    BY Zenon, <1>4 DEF RdResume, RdLoop
  <2>2. /\ Readers' = Readers \cup {t} /\ Writers' = Writers
        /\ WaitingReaders' = WaitingReaders \ {t}
        /\ WaitingWriters' = WaitingWriters
    BY <2>1, <1>1, Moves
  <2>3. TypeOK'
    BY <1>2, <2>1 DEF TypeOK, Goto
  <2>4. Writers = {}
    BY <1>4 DEF CountersAgree, ReaderMustWait
  <2> QED
    BY Zenon, <1>1, <1>2, <2>1, <2>2, <2>3, <2>4, Counting, Groups
    DEF CountersAgree, Exclusion, DestroyedIsUnused
<1> QED
  BY Zenon, <1>3, <1>4

\* When the count is zero nobody holds the lock.
LEMMA FreeLock ==
    ASSUME IInv, rw_refcount = 0, NEW t \in Thread
    PROVE  Readers = {} /\ Writers = {}
<1>1. Writers = {}
  BY DEF IInv, CountersAgree
<1> QED
  BY Zenon, <1>1, Counting, Groups DEF IInv, CountersAgree

\* What the tests on the counters in the code decide.
LEMMA Tests ==
    ASSUME IInv, NEW t \in Thread
    PROVE  /\ rw_refcount < 0 <=> Writers # {}
           /\ rw_nwaitreaders > 0 <=> WaitingReaders # {}
           /\ rw_nwaitwriters > 0 <=> WaitingWriters # {}
<1> USE DEF IInv, CountersAgree
<1>1. Cardinality(Readers) \in Nat
  BY Zenon, Counting, Groups
<1>2. /\ Cardinality(WaitingReaders) \in Nat
      /\ Cardinality(WaitingReaders) = 0 <=> WaitingReaders = {}
  BY Zenon, Counting, Groups
<1>3. /\ Cardinality(WaitingWriters) \in Nat
      /\ Cardinality(WaitingWriters) = 0 <=> WaitingWriters = {}
  BY Zenon, Counting, Groups
<1> QED
  BY <1>1, <1>2, <1>3

\* wrlock up to its first wait or to its return, and trywrlock.
LEMMA WrLockIInv ==
    ASSUME IInv, NEW t \in Thread, WrLock(t) \/ TryWrLock(t)
    PROVE  IInv'
<1> USE DEF IInv
<1>1. /\ rw_magic
      /\ t \notin Readers \cup Writers \cup WaitingReaders \cup WaitingWriters
  BY Zenon DEF WrLock, TryWrLock, Readers, Writers, WaitingReaders, WaitingWriters, At
<1>2. CASE rw_refcount # 0
  <2>1. /\ Goto(t, "wrwait") /\ rw_nwaitwriters' = rw_nwaitwriters + 1
        /\ UNCHANGED <<rw_magic, rw_refcount, rw_nwaitreaders>>
    BY Zenon, <1>2 DEF WrLock, TryWrLock, WrLoop
  <2>2. /\ Readers' = Readers /\ Writers' = Writers
        /\ WaitingReaders' = WaitingReaders
        /\ WaitingWriters' = WaitingWriters \cup {t}
    BY <2>1, <1>1, Moves
  <2>3. TypeOK'
    BY <2>1 DEF TypeOK, Goto
  <2> QED
    BY Zenon, <1>1, <2>1, <2>2, <2>3, Counting, Groups
    DEF CountersAgree, Exclusion, DestroyedIsUnused
<1>3. CASE rw_refcount = 0
  <2>1. /\ Goto(t, "writing") /\ rw_refcount' = -1
        /\ UNCHANGED <<rw_magic, rw_nwaitreaders, rw_nwaitwriters>>
    BY Zenon, <1>3 DEF WrLock, TryWrLock, WrLoop
  <2>2. /\ Readers' = Readers /\ Writers' = Writers \cup {t}
        /\ WaitingReaders' = WaitingReaders
        /\ WaitingWriters' = WaitingWriters
    BY <2>1, <1>1, Moves
  <2>3. TypeOK'
    BY <2>1 DEF TypeOK, Goto
  <2>4. Readers = {} /\ Writers = {}
    BY Zenon, <1>3, FreeLock
  <2> QED
    BY Zenon, <1>1, <2>1, <2>2, <2>3, <2>4
    DEF CountersAgree, Exclusion, DestroyedIsUnused
<1> QED
  BY Zenon, <1>2, <1>3

\* A writer that comes back from pthread_cond_wait.
LEMMA WrResumeIInv ==
    ASSUME IInv, NEW t \in Thread, WrResume(t)
    PROVE  IInv'
<1> USE DEF IInv
<1>1. /\ t \in WaitingWriters
      /\ t \notin Readers \cup Writers \cup WaitingReaders
  BY Zenon DEF WrResume, Readers, Writers, WaitingReaders, WaitingWriters, At
<1>2. rw_magic /\ rw_nwaitwriters \in Nat \ {0}
  BY Zenon, <1>1, InUse, Counting, Groups DEF WrResume, CountersAgree, TypeOK
<1>3. CASE rw_refcount # 0
  <2>1. /\ Goto(t, "wrwait") /\ rw_nwaitwriters' = (rw_nwaitwriters - 1) + 1
        /\ UNCHANGED <<rw_magic, rw_refcount, rw_nwaitreaders>>
    BY Zenon, <1>3 DEF WrResume, WrLoop
  <2>. rw_nwaitwriters' = rw_nwaitwriters
    BY <1>2, <2>1
  <2>2. /\ Readers' = Readers /\ Writers' = Writers
        /\ WaitingReaders' = WaitingReaders
        /\ WaitingWriters' = WaitingWriters
    BY <2>1, <1>1, Moves
  <2>3. TypeOK'
    BY Zenon, <2>1 DEF TypeOK, Goto
  <2> QED
    BY Zenon, <1>2, <2>1, <2>2, <2>3
    DEF CountersAgree, Exclusion, DestroyedIsUnused
<1>4. CASE rw_refcount = 0
  <2>1. /\ Goto(t, "writing") /\ rw_refcount' = -1
        /\ rw_nwaitwriters' = rw_nwaitwriters - 1
        /\ UNCHANGED <<rw_magic, rw_nwaitreaders>>
    BY Zenon, <1>4 DEF WrResume, WrLoop
  <2>2. /\ Readers' = Readers /\ Writers' = Writers \cup {t}
        /\ WaitingReaders' = WaitingReaders
        /\ WaitingWriters' = WaitingWriters \ {t}
    BY <2>1, <1>1, Moves
  <2>3. TypeOK'
    BY <1>2, <2>1 DEF TypeOK, Goto
  <2>4. Readers = {} /\ Writers = {}
    BY Zenon, <1>4, FreeLock
  <2> QED
    BY Zenon, <1>1, <1>2, <2>1, <2>2, <2>3, <2>4, Counting, Groups
    DEF CountersAgree, Exclusion, DestroyedIsUnused
<1> QED
  BY Zenon, <1>3, <1>4

\* What a wakeup does to the threads' places: blocked threads may become woken
\* ones on the same condition variable, and nothing else changes.
OnlyWakes(f, g) ==
    \A t \in Thread : \/ g[t] = f[t]
                      \/ f[t] = "rdwait" /\ g[t] = "rdwake"
                      \/ f[t] = "wrwait" /\ g[t] = "wrwake"

Place == {"idle", "rdwait", "rdwake", "wrwait", "wrwake", "reading", "writing"}

LEMMA WakeupsOnlyWake ==
    ASSUME NEW f \in [Thread -> Place], NEW g \in Wakeups(f)
    PROVE  g \in [Thread -> Place] /\ OnlyWakes(f, g)
BY Zenon DEF Wakeups, Signal, Broadcast, OnlyWakes, Place

\* unlock by a reader or by the writer.
LEMMA UnlockIInv ==
    ASSUME IInv, NEW t \in Thread, Unlock(t)
    PROVE  IInv'
<1> USE DEF IInv
<1> DEFINE f == [pc EXCEPT ![t] = "idle"]
<1>1. /\ rw_magic /\ rw_refcount' = Released
      /\ UNCHANGED <<rw_magic, rw_nwaitreaders, rw_nwaitwriters>>
  BY Zenon DEF Unlock
<1>2. f \in [Thread -> Place] /\ pc' \in Wakeups(f)
  BY Zenon DEF Unlock, TypeOK, Place
<1>3. pc' \in [Thread -> Place] /\ OnlyWakes(f, pc')
  BY Zenon, <1>2, WakeupsOnlyWake
<1>4. t \in Readers \cup Writers
  BY Zenon DEF Unlock, Readers, Writers, At
<1>5. /\ Readers' = Readers \ {t} /\ Writers' = Writers \ {t}
      /\ WaitingReaders' = WaitingReaders
      /\ WaitingWriters' = WaitingWriters
  BY Zenon, <1>3, <1>4 DEF OnlyWakes, Place, Readers, Writers, WaitingReaders,
                    WaitingWriters, At, TypeOK
<1>6. TypeOK'
  BY <1>1, <1>3 DEF TypeOK, Place, Released
<1>7. CASE t \in Writers
  <2>1. Writers = {t} /\ Readers \ {t} = {} /\ rw_refcount = -1
    BY Zenon, <1>7 DEF Exclusion, CountersAgree
  <2>2. Cardinality(Readers') = 0
    BY Zenon, <1>5, <2>1, FS_EmptySet
  <2> QED
    BY <1>1, <1>5, <1>6, <2>1, <2>2
    DEF CountersAgree, Exclusion, DestroyedIsUnused, Released
<1>8. CASE t \in Readers /\ t \notin Writers
  <2>1. Writers = {}
    BY Zenon, <1>8 DEF Exclusion
  <2>2. /\ rw_refcount = Cardinality(Readers) /\ rw_refcount \in Nat \ {0}
        /\ Cardinality(Readers \ {t}) = Cardinality(Readers) - 1
    BY Zenon, <1>8, <2>1, Counting, Groups DEF CountersAgree
  <2> QED
    BY <1>1, <1>5, <1>6, <2>1, <2>2
    DEF CountersAgree, Exclusion, DestroyedIsUnused, Released
<1> QED
  BY Zenon, <1>4, <1>7, <1>8

\* A spurious wakeup moves no thread out of its group.
LEMMA SpuriousIInv ==
    ASSUME IInv, NEW t \in Thread, SpuriousWakeup(t)
    PROVE  IInv'
<1> USE DEF IInv
<1>1. rw_magic /\ UNCHANGED lockVars
  BY Zenon, InUse DEF SpuriousWakeup
<1>2. /\ Readers' = Readers /\ Writers' = Writers
      /\ WaitingReaders' = WaitingReaders /\ WaitingWriters' = WaitingWriters
  BY Zenon DEF SpuriousWakeup, Goto, TypeOK, Readers, Writers, WaitingReaders,
         WaitingWriters, At
<1>3. TypeOK'
  BY Zenon, <1>1 DEF TypeOK, SpuriousWakeup, Goto, lockVars
<1> QED
  BY Zenon, <1>1, <1>2, <1>3 DEF CountersAgree, Exclusion, DestroyedIsUnused, lockVars

\* pthread_rwlock_init and pthread_rwlock_destroy.
LEMMA InitDestroyIInv ==
    ASSUME IInv, RwlockInit \/ Destroy
    PROVE  IInv'
<1> USE DEF IInv
<1>1. /\ Readers' = Readers /\ Writers' = Writers
      /\ WaitingReaders' = WaitingReaders /\ WaitingWriters' = WaitingWriters
  BY Zenon DEF RwlockInit, Destroy, Readers, Writers, WaitingReaders,
         WaitingWriters, At
<1>2. TypeOK'
  <2>1. CASE RwlockInit
    BY <2>1 DEF TypeOK, RwlockInit
  <2>2. CASE Destroy
    BY Zenon, <2>2 DEF TypeOK, Destroy
  <2> QED
    BY Zenon, <2>1, <2>2
<1>3. CASE RwlockInit
  <2>1. /\ Readers = {} /\ Writers = {}
        /\ WaitingReaders = {} /\ WaitingWriters = {}
    BY Zenon, <1>3 DEF RwlockInit, DestroyedIsUnused, Readers, Writers,
                WaitingReaders, WaitingWriters, At
  <2> QED
    BY Zenon, <1>1, <1>2, <1>3, <2>1, FS_EmptySet
    DEF RwlockInit, CountersAgree, Exclusion, DestroyedIsUnused
<1>4. CASE Destroy
  <2>1. ASSUME NEW t \in Thread PROVE pc[t] = "idle"
    <3>1. Readers = {} /\ Writers = {}
      BY Zenon, <1>4, FreeLock DEF Destroy
    <3>2. WaitingReaders = {} /\ WaitingWriters = {}
      BY Zenon, <1>4, Counting, Groups DEF Destroy, CountersAgree
    <3> QED
      BY Zenon, <3>1, <3>2 DEF TypeOK, Readers, Writers, WaitingReaders,
                        WaitingWriters, At
  <2> QED
    BY Zenon, <1>1, <1>2, <1>4, <2>1
    DEF Destroy, CountersAgree, Exclusion, DestroyedIsUnused
<1> QED
  BY Zenon, <1>3, <1>4

LEMMA NextIInv == IInv /\ [Next]_vars => IInv'
<1> SUFFICES ASSUME IInv, [Next]_vars PROVE IInv'
  OBVIOUS
<1>1. CASE UNCHANGED vars
  BY Zenon, <1>1 DEF IInv, vars, TypeOK, CountersAgree, Exclusion, DestroyedIsUnused,
              Readers, Writers, WaitingReaders, WaitingWriters, At
<1>2. CASE Next
  BY Zenon, <1>2, InitDestroyIInv, RdLockIInv, RdResumeIInv, WrLockIInv, WrResumeIInv,
     UnlockIInv, SpuriousIInv
  DEF Next
<1> QED
  BY Zenon, <1>1, <1>2

\* For every set of threads and every interleaving of the lock's functions, the
\* fields have their types, rw_refcount and the wait counters mean what
\* pthread_rwlock.h says they mean, a writer is alone, and a lock in use is
\* never destroyed.
THEOREM Invariance ==
    Spec => [](TypeOK /\ CountersAgree /\ Exclusion /\ DestroyedIsUnused)
<1>1. IInv => TypeOK /\ CountersAgree /\ Exclusion /\ DestroyedIsUnused
  BY Zenon DEF IInv
<1> QED
  BY <1>1, InitIInv, NextIInv, PTL DEF Spec

\* A writer that has the lock has it alone, for every set of threads.
THEOREM ExclusionHolds == Spec => []Exclusion
BY Invariance, PTL

\* pthread_rwlock_t's fields stay in their ranges, for every set of threads.
THEOREM RwTypeCorrect == Spec => []TypeOK
BY Invariance, PTL

\* The comment of pthread_rwlock.h on rw_refcount, and the meaning of the two wait
\* counters, hold at every release of rw_mutex.
THEOREM CountersHold == Spec => []CountersAgree
BY Invariance, PTL

\* pthread_rwlock_destroy never succeeds on a lock that is held or waited for.
THEOREM DestroyHolds == Spec => []DestroyedIsUnused
BY Invariance, PTL

-----------------------------------------------------------------------------

\* No step loses a wakeup.  The wait counters decide whom unlock wakes, so the
\* argument rests on CountersAgree before the step.
LEMMA NextNoLostWakeup ==
    ASSUME IInv, NoLostWakeup, [Next]_vars
    PROVE  NoLostWakeup'
<1> USE DEF IInv
<1>1. CASE UNCHANGED vars
  BY Zenon, <1>1 DEF vars, NoLostWakeup, Readers, Writers, WaitingReaders,
              WaitingWriters, At
<1>2. CASE RwlockInit \/ Destroy
  BY Zenon, <1>2 DEF RwlockInit, Destroy, NoLostWakeup, Readers, Writers,
              WaitingReaders, WaitingWriters, At
<1>3. ASSUME NEW t \in Thread, RdLock(t) \/ TryRdLock(t) \/ RdResume(t)
      PROVE  NoLostWakeup'
  <2>1. CASE ReaderMustWait
    <3>1. Goto(t, "rdwait") /\ pc[t] \in {"idle", "rdwake"}
      BY Zenon, <1>3, <2>1 DEF RdLock, TryRdLock, RdResume, RdLoop
    <3>2. Writers \cup WaitingWriters # {}
      BY Zenon, <1>3, <2>1, Tests DEF ReaderMustWait
    <3> QED
      BY Zenon, <3>1, <3>2 DEF NoLostWakeup, Goto, TypeOK, Readers, Writers,
                        WaitingWriters, At
  <2>2. CASE ~ReaderMustWait
    <3>1. Goto(t, "reading") /\ pc[t] \in {"idle", "rdwake"}
      BY Zenon, <1>3, <2>2 DEF RdLock, TryRdLock, RdResume, RdLoop
    <3> QED
      BY Zenon, <3>1 DEF NoLostWakeup, Goto, TypeOK, Readers, Writers,
                  WaitingWriters, At
  <2> QED
    BY Zenon, <2>1, <2>2
<1>4. ASSUME NEW t \in Thread, WrLock(t) \/ TryWrLock(t) \/ WrResume(t)
      PROVE  NoLostWakeup'
  <2>1. CASE rw_refcount = 0
    <3>1. Goto(t, "writing") /\ pc[t] \in {"idle", "wrwake"}
      BY Zenon, <1>4, <2>1 DEF WrLock, TryWrLock, WrResume, WrLoop
    <3> QED
      BY Zenon, <3>1 DEF NoLostWakeup, Goto, TypeOK, Readers, Writers,
                  WaitingWriters, At
  <2>2. CASE rw_refcount # 0
    <3>1. Goto(t, "wrwait") /\ pc[t] \in {"idle", "wrwake"}
      BY Zenon, <1>4, <2>2 DEF WrLock, TryWrLock, WrResume, WrLoop
    <3>2. Readers \cup Writers # {}
      BY Zenon, <2>2, FS_EmptySet DEF CountersAgree
    <3> QED
      BY Zenon, <3>1, <3>2 DEF NoLostWakeup, Goto, TypeOK, Readers, Writers,
                        WaitingWriters, At
  <2> QED
    BY Zenon, <2>1, <2>2
<1>5. ASSUME NEW t \in Thread, Unlock(t)
      PROVE  NoLostWakeup'
  <2> DEFINE f == [pc EXCEPT ![t] = "idle"]
  <2>1. /\ f \in [Thread -> Place] /\ pc' \in Wakeups(f)
        /\ pc[t] \in {"reading", "writing"} /\ pc \in [Thread -> Place]
    BY Zenon, <1>5 DEF Unlock, TypeOK, Place
  <2>2. pc' \in [Thread -> Place] /\ OnlyWakes(f, pc')
    BY Zenon, <2>1, WakeupsOnlyWake
  <2>3. WaitingWriters' = WaitingWriters
    BY Zenon, <2>1, <2>2 DEF OnlyWakes, Place, WaitingWriters, At
  <2>4. CASE rw_nwaitwriters > 0
    <3>1. WaitingWriters # {}
      BY Zenon, <1>5, <2>4, Tests
    <3>2. CASE Released = 0
      <4>1. pc' \in Signal(f, "wrwait", "wrwake")
        BY Zenon, <2>1, <2>4, <3>2 DEF Wakeups
      <4>2. CASE {u \in Thread : f[u] = "wrwait"} = {}
        BY Zenon, <2>1, <3>1, <4>1, <4>2, <2>3
        DEF Signal, NoLostWakeup, WaitingWriters, Writers, At
      <4>3. CASE {u \in Thread : f[u] = "wrwait"} # {}
        <5>1. PICK w \in Thread : pc' = [f EXCEPT ![w] = "wrwake"]
          BY Zenon, <4>1, <4>3 DEF Signal
        <5>2. w \in At("wrwake")'
          BY Zenon, <5>1, <2>1 DEF At
        <5> QED
          BY Zenon, <5>2, <2>3, <3>1 DEF NoLostWakeup
      <4> QED
        BY Zenon, <4>2, <4>3
    <3>3. CASE Released # 0
      <4>1. rw_refcount' # 0 /\ IInv'
        BY Zenon, <1>5, <3>3, UnlockIInv DEF Unlock
      <4>2. (Readers \cup Writers)' # {}
        BY Zenon, <4>1, FS_EmptySet DEF CountersAgree
      <4> QED
        BY Zenon, <4>2, <2>3, <3>1 DEF NoLostWakeup
    <3> QED
      BY Zenon, <3>2, <3>3
  <2>5. CASE ~(rw_nwaitwriters > 0)
    <3>1. WaitingWriters = {}
      BY Zenon, <1>5, <2>5, Tests
    <3>2. At("rdwait")' = {}
      <4>1. CASE rw_nwaitreaders > 0
        BY Zenon, <2>1, <2>5, <4>1 DEF Wakeups, Broadcast, At
      <4>2. CASE ~(rw_nwaitreaders > 0)
        <5>1. WaitingReaders = {}
          BY Zenon, <1>5, <4>2, Tests
        <5> QED
          BY Zenon, <5>1, <2>1, <2>2 DEF OnlyWakes, Place, WaitingReaders, At
      <4> QED
        BY Zenon, <4>1, <4>2
    <3> QED
      BY Zenon, <2>3, <3>1, <3>2 DEF NoLostWakeup
  <2> QED
    BY Zenon, <2>4, <2>5
<1>6. ASSUME NEW t \in Thread, SpuriousWakeup(t)
      PROVE  NoLostWakeup'
  BY <1>6 DEF SpuriousWakeup, Goto, NoLostWakeup, TypeOK, Readers, Writers,
              WaitingWriters, At
<1> QED
  BY Zenon, <1>1, <1>2, <1>3, <1>4, <1>5, <1>6 DEF Next

\* However many threads read, write, try and wake up spuriously: a blocked
\* reader has a writer to wait for, and writers waiting for a free lock have a
\* woken one among them, so the signals and broadcasts of unlock suffice.
THEOREM NoLostWakeupHolds == Spec => []NoLostWakeup
<1>1. Init => NoLostWakeup
  BY Zenon DEF Init, NoLostWakeup, Readers, Writers, WaitingWriters, At
<1>2. IInv /\ NoLostWakeup /\ [Next]_vars => NoLostWakeup'
  BY Zenon, NextNoLostWakeup
<1> QED
  BY <1>1, <1>2, InitIInv, NextIInv, PTL DEF Spec

\* No reader gets the lock while a writer waits, whatever the number of
\* threads: the guard reads a counter, and the counter is exact.
THEOREM WriterPreferenceHolds == Spec => WriterPreference
<1> DEFINE A == \A t \in Thread :
                 pc[t] # "reading" /\ pc'[t] = "reading" => WaitingWriters = {}
<1>1. ASSUME IInv, Next, NEW t \in Thread,
             pc[t] # "reading", pc'[t] = "reading"
      PROVE  WaitingWriters = {}
  <2>1. rw_nwaitwriters = 0
    <3> USE DEF IInv, TypeOK, Goto
    <3>1. CASE RwlockInit \/ Destroy
      BY Zenon, <1>1, <3>1 DEF RwlockInit, Destroy
    <3>2. ASSUME NEW u \in Thread, RdLock(u) \/ RdResume(u) \/ TryRdLock(u)
          PROVE  rw_nwaitwriters = 0
      BY <1>1, <3>2 DEF RdLock, RdResume, TryRdLock, RdLoop, ReaderMustWait
    <3>3. ASSUME NEW u \in Thread, WrLock(u) \/ WrResume(u) \/ TryWrLock(u)
                                  \/ SpuriousWakeup(u)
          PROVE  FALSE
      BY Zenon, <1>1, <3>3 DEF WrLock, WrResume, TryWrLock, WrLoop, SpuriousWakeup
    <3>4. ASSUME NEW u \in Thread, Unlock(u)
          PROVE  FALSE
      <4> DEFINE f == [pc EXCEPT ![u] = "idle"]
      <4>1. f \in [Thread -> Place] /\ pc' \in Wakeups(f)
        BY Zenon, <1>1, <3>4 DEF Unlock, Place
      <4>2. OnlyWakes(f, pc')
        BY Zenon, <4>1, WakeupsOnlyWake
      <4> QED
        BY Zenon, <1>1, <4>2 DEF OnlyWakes
    <3> QED
      BY Zenon, <1>1, <3>1, <3>2, <3>3, <3>4 DEF Next
  <2> QED
    BY <1>1, <2>1, Tests
<1>2. IInv /\ [Next]_vars => [A]_vars
  BY Zenon, <1>1
<1> QED
  BY <1>2, InitIInv, NextIInv, PTL DEF Spec, WriterPreference

-----------------------------------------------------------------------------
(* test1.c on top of the lock.                                             *)

\* The threads that are counted in shared.nreaders and in shared.nwriters.
Counted(t) == step[t] \in {"check", "uncount"}
CountedReaders == {t \in Thread \ Writer : Counted(t)}
CountedWriters == {t \in Writer : Counted(t)}

\* A reader thread is only where rdlock takes it, a writer thread where wrlock
\* does, and a thread past its lock call has the lock.
PlacesAgree ==
    \A t \in Thread :
       /\ t \in Writer => pc[t] \in {"idle", "wrwait", "wrwake", "writing"}
       /\ t \notin Writer => pc[t] \in {"idle", "rdwait", "rdwake", "reading"}
       /\ step[t] # "lock" => pc[t] \in {"reading", "writing"}

\* The inductive invariant of test1.c: the shared counts are the threads that
\* are between their increment and their decrement.
TestIInv ==
    /\ IInv /\ PlacesAgree /\ ~quit
    /\ step \in [Thread -> {"lock", "check", "uncount", "unlock"}]
    /\ nreaders = Cardinality(CountedReaders)
    /\ nwriters = Cardinality(CountedWriters)

LEMMA CountedGroups ==
    CountedReaders \in SUBSET Thread /\ CountedWriters \in SUBSET Thread
BY Zenon, TestAssumption DEF CountedReaders, CountedWriters

LEMMA TestInitIInv == TestInit => TestIInv
<1> SUFFICES ASSUME TestInit PROVE TestIInv
  OBVIOUS
<1>1. IInv
  BY Zenon, InitIInv DEF TestInit
<1>2. \A t \in Thread : pc[t] = "idle" /\ step[t] = "lock"
  BY Zenon DEF TestInit, Init
<1>3. CountedReaders = {} /\ CountedWriters = {}
  BY Zenon, <1>2, TestAssumption DEF CountedReaders, CountedWriters, Counted
<1>4. step \in [Thread -> {"lock", "check", "uncount", "unlock"}]
  BY Zenon DEF TestInit
<1> QED
  BY Zenon, <1>1, <1>2, <1>3, <1>4, FS_EmptySet DEF TestInit, TestIInv, PlacesAgree

\* A step of the lock that leaves the thread's place in test1.c alone.
LEMMA LockStepTestIInv ==
    ASSUME TestIInv, NEW t \in Thread, UNCHANGED testVars,
           IF t \in Writer THEN WrLock(t) \/ WrResume(t) \/ SpuriousWakeup(t)
                           ELSE RdLock(t) \/ RdResume(t) \/ SpuriousWakeup(t)
    PROVE  TestIInv'
<1>1. IInv'
  BY Zenon, RdLockIInv, RdResumeIInv, WrLockIInv, WrResumeIInv, SpuriousIInv DEF TestIInv
<1>2. UNCHANGED <<step, nreaders, nwriters, quit>>
  BY Zenon DEF testVars
<1>3. CountedReaders' = CountedReaders /\ CountedWriters' = CountedWriters
  BY Zenon, <1>2 DEF CountedReaders, CountedWriters, Counted
<1>4. PICK label : /\ Goto(t, label) /\ pc[t] \notin {"reading", "writing"}
                   /\ t \in Writer => label \in {"wrwait", "wrwake", "writing"}
                   /\ t \notin Writer => label \in {"rdwait", "rdwake", "reading"}
  BY Zenon DEF TestIInv, PlacesAgree, WrLock, WrResume, WrLoop, RdLock, RdResume, RdLoop,
     SpuriousWakeup
<1>5. pc' = [pc EXCEPT ![t] = label] /\ pc \in [Thread -> Place]
  BY Zenon, <1>4 DEF Goto, TestIInv, IInv, TypeOK, Place
<1>6. step[t] = "lock"
  BY Zenon, <1>4 DEF TestIInv, PlacesAgree
<1>7. PlacesAgree'
  BY Zenon, <1>2, <1>4, <1>5, <1>6 DEF TestIInv, PlacesAgree
<1> QED
  BY Zenon, <1>1, <1>2, <1>3, <1>7 DEF TestIInv

\* What a thread that counts itself in or out does to the counted threads.
LEMMA CountedMoves ==
    ASSUME TestIInv, NEW t \in Thread, NEW from, NEW to, ToStep(t, from, to)
    PROVE  /\ CountedReaders' = IF t \notin Writer /\ to \in {"check", "uncount"}
                                THEN CountedReaders \cup {t} ELSE CountedReaders \ {t}
           /\ CountedWriters' = IF t \in Writer /\ to \in {"check", "uncount"}
                                THEN CountedWriters \cup {t} ELSE CountedWriters \ {t}
           /\ t \in CountedReaders <=> t \notin Writer /\ from \in {"check", "uncount"}
           /\ t \in CountedWriters <=> t \in Writer /\ from \in {"check", "uncount"}
<1>1. \A u \in Thread : step'[u] = IF u = t THEN to ELSE step[u]
  BY Zenon DEF ToStep, TestIInv
<1>2. step[t] = from
  BY Zenon DEF ToStep
<1> QED
  BY Zenon, <1>1, <1>2, TestAssumption DEF CountedReaders, CountedWriters, Counted

\* The steps of a thread that has the lock: the places in the lock stay.
LEMMA InsideTestIInv ==
    ASSUME TestIInv, NEW t \in Thread, Count(t) \/ Check(t) \/ Uncount(t)
    PROVE  TestIInv'
<1>1. UNCHANGED vars /\ IInv /\ PlacesAgree
  BY Zenon DEF Count, Check, Uncount, TestIInv
<1>2. IInv'
  BY Zenon, <1>1, NextIInv
<1>3. pc[t] \in {"reading", "writing"} /\ UNCHANGED pc
  BY Zenon, <1>1 DEF Count, Check, Uncount, ToStep, PlacesAgree, vars
<1>4. PICK from, to \in {"lock", "check", "uncount", "unlock"} : ToStep(t, from, to)
  BY Zenon DEF Count, Check, Uncount
<1>5. step' \in [Thread -> {"lock", "check", "uncount", "unlock"}]
  BY Zenon, <1>4 DEF ToStep, TestIInv
<1>6. \A u \in Thread : u # t => step'[u] = step[u]
  BY Zenon, <1>4 DEF ToStep, TestIInv
<1>7. PlacesAgree'
  BY Zenon, <1>1, <1>3, <1>6 DEF PlacesAgree
<1>8. /\ Cardinality(CountedReaders) \in Nat /\ Cardinality(CountedWriters) \in Nat
      /\ nreaders = Cardinality(CountedReaders) /\ nwriters = Cardinality(CountedWriters)
  BY Zenon, Counting, CountedGroups DEF TestIInv
<1>9. CASE Count(t)
  <2>1. /\ ToStep(t, "lock", "check") /\ quit' = quit
        /\ nwriters' = IF t \in Writer THEN nwriters + 1 ELSE nwriters
        /\ nreaders' = IF t \in Writer THEN nreaders ELSE nreaders + 1
    BY Zenon, <1>9 DEF Count
  <2>2. /\ t \notin CountedReaders /\ t \notin CountedWriters
        /\ CountedReaders' = IF t \in Writer THEN CountedReaders ELSE CountedReaders \cup {t}
        /\ CountedWriters' = IF t \in Writer THEN CountedWriters \cup {t} ELSE CountedWriters
    BY <2>1, CountedMoves
  <2>3. nreaders' = Cardinality(CountedReaders') /\ nwriters' = Cardinality(CountedWriters')
    BY Zenon, <1>8, <2>1, <2>2, Counting, CountedGroups
  <2> QED
    BY Zenon, <1>2, <1>5, <1>7, <2>1, <2>3 DEF TestIInv
<1>10. CASE Uncount(t)
  <2>1. /\ ToStep(t, "uncount", "unlock") /\ quit' = quit
        /\ nwriters' = IF t \in Writer THEN nwriters - 1 ELSE nwriters
        /\ nreaders' = IF t \in Writer THEN nreaders ELSE nreaders - 1
    BY Zenon, <1>10 DEF Uncount
  <2>2. /\ t \in Writer => t \in CountedWriters /\ t \notin CountedReaders
        /\ t \notin Writer => t \in CountedReaders /\ t \notin CountedWriters
        /\ CountedReaders' = CountedReaders \ {t} /\ CountedWriters' = CountedWriters \ {t}
    BY <2>1, CountedMoves
  <2>3. nreaders' = Cardinality(CountedReaders') /\ nwriters' = Cardinality(CountedWriters')
    <3>1. t \notin CountedReaders => CountedReaders \ {t} = CountedReaders
      BY Zenon
    <3>2. t \notin CountedWriters => CountedWriters \ {t} = CountedWriters
      BY Zenon
    <3> QED
      BY Zenon, <1>8, <2>1, <2>2, <3>1, <3>2, Counting, CountedGroups
  <2> QED
    BY Zenon, <1>2, <1>5, <1>7, <2>1, <2>3 DEF TestIInv
<1>11. CASE Check(t)
  <2>1. /\ ToStep(t, "check", "uncount") /\ UNCHANGED <<nreaders, nwriters>>
        /\ quit' = IF t \in Writer THEN nwriters > 1 \/ nreaders > 0 ELSE nwriters > 0
    BY Zenon, <1>11 DEF Check
  <2>2. CountedReaders' = CountedReaders /\ CountedWriters' = CountedWriters
    BY <2>1, CountedMoves
  <2>3. /\ \A u \in CountedReaders : u \in Readers /\ u \notin Writer
        /\ \A u \in CountedWriters : u \in Writers /\ u \in Writer
    BY Zenon, <1>1, TestAssumption
    DEF CountedReaders, CountedWriters, Counted, PlacesAgree, Readers, Writers, At
  <2>4. /\ t \in Writer => t \in Writers
        /\ t \notin Writer => t \in Readers
    BY Zenon, <1>1, <1>3 DEF PlacesAgree, Readers, Writers, At
  <2>5. CASE t \in Writer
    <3>1. CountedReaders = {} /\ CountedWriters \ {t} = {}
      BY Zenon, <1>1, <2>3, <2>4, <2>5 DEF IInv, Exclusion
    <3>2. nreaders = 0
      BY Zenon, <1>8, <3>1, FS_EmptySet
    <3>3. nwriters = 0 \/ nwriters - 1 = 0
      BY ZenonT(40), <1>8, <3>1, Counting, CountedGroups
    <3>4. ~ (nwriters > 1) /\ ~ (nreaders > 0)
      BY <1>8, <3>2, <3>3
    <3>5. ~ quit'
      BY Zenon, <2>1, <2>5, <3>4
    <3> QED
      BY Zenon, <1>2, <1>5, <1>7, <1>8, <2>1, <2>2, <3>5 DEF TestIInv
  <2>6. CASE t \notin Writer
    <3>1. CountedWriters = {}
      BY Zenon, <1>1, <2>3, <2>4, <2>6 DEF IInv, Exclusion
    <3>2. nwriters = 0
      BY Zenon, <1>8, <3>1, FS_EmptySet
    <3>3. ~ (nwriters > 0)
      BY <3>2
    <3>4. ~ quit'
      BY Zenon, <2>1, <2>6, <3>3
    <3> QED
      BY Zenon, <1>2, <1>5, <1>7, <1>8, <2>1, <2>2, <3>4 DEF TestIInv
  <2> QED
    BY Zenon, <2>5, <2>6
<1> QED
  BY Zenon, <1>9, <1>10, <1>11

\* The unlock at the end of the loop.
LEMMA EndOfLoopTestIInv ==
    ASSUME TestIInv, NEW t \in Thread, EndOfLoop(t)
    PROVE  TestIInv'
<1>1. Unlock(t) /\ ToStep(t, "unlock", "lock") /\ UNCHANGED <<nreaders, nwriters, quit>>
  BY Zenon DEF EndOfLoop
<1>2. IInv'
  BY Zenon, <1>1, UnlockIInv DEF TestIInv
<1>3. CountedReaders' = CountedReaders /\ CountedWriters' = CountedWriters
  BY <1>1, CountedMoves
<1> DEFINE f == [pc EXCEPT ![t] = "idle"]
<1>4. f \in [Thread -> Place] /\ pc' \in Wakeups(f)
  BY Zenon, <1>1 DEF Unlock, TestIInv, IInv, TypeOK, Place
<1>5. OnlyWakes(f, pc')
  BY Zenon, <1>4, WakeupsOnlyWake
<1>6. /\ step' \in [Thread -> {"lock", "check", "uncount", "unlock"}]
      /\ \A u \in Thread : step'[u] = IF u = t THEN "lock" ELSE step[u]
  BY Zenon, <1>1 DEF ToStep, TestIInv
<1>7. PlacesAgree'
  <2>1. \A u \in Thread : f[u] = IF u = t THEN "idle" ELSE pc[u]
    BY Zenon DEF TestIInv, IInv, TypeOK
  <2> HIDE DEF f
  <2> SUFFICES ASSUME NEW u \in Thread
      PROVE  /\ u \in Writer => pc'[u] \in {"idle", "wrwait", "wrwake", "writing"}
             /\ u \notin Writer => pc'[u] \in {"idle", "rdwait", "rdwake", "reading"}
             /\ step'[u] # "lock" => pc'[u] \in {"reading", "writing"}
    BY Zenon DEF PlacesAgree
  <2>2. \/ pc'[u] = f[u]
        \/ f[u] = "rdwait" /\ pc'[u] = "rdwake"
        \/ f[u] = "wrwait" /\ pc'[u] = "wrwake"
    BY Zenon, <1>5 DEF OnlyWakes
  <2> QED
    BY Zenon, <1>6, <2>1, <2>2 DEF TestIInv, PlacesAgree
<1> QED
  BY Zenon, <1>1, <1>2, <1>3, <1>6, <1>7 DEF TestIInv

LEMMA TestNextIInv == TestIInv /\ [TestNext]_allVars => TestIInv'
<1> SUFFICES ASSUME TestIInv, [TestNext]_allVars PROVE TestIInv'
  OBVIOUS
<1>1. ASSUME NEW t \in Thread, ThreadStep(t) PROVE TestIInv'
  <2>1. CASE Lock(t)
    BY Zenon, <2>1, LockStepTestIInv DEF Lock
  <2> QED
    BY Zenon, <1>1, <2>1, InsideTestIInv, EndOfLoopTestIInv DEF ThreadStep
<1>2. ASSUME NEW t \in Thread, SpuriousWakeup(t), UNCHANGED testVars PROVE TestIInv'
  BY Zenon, <1>2, LockStepTestIInv
<1>3. CASE UNCHANGED allVars
  <2>1. UNCHANGED vars /\ UNCHANGED <<pc, step, nreaders, nwriters, quit>>
    BY Zenon, <1>3 DEF allVars, testVars, vars
  <2>2. IInv'
    BY Zenon, <2>1, NextIInv DEF TestIInv
  <2> QED
    BY Zenon, <2>1, <2>2 DEF TestIInv, PlacesAgree, CountedReaders, CountedWriters, Counted
<1> QED
  BY Zenon, <1>1, <1>2, <1>3 DEF TestNext, Exit

\* test1.c never prints "writers found" or "readers found", however many readers
\* and writers it starts and however often they loop: the counts each thread
\* keeps of its own kind never show company that the lock should keep out.
THEOREM NoErrQuitHolds == TestSpec => []NoErrQuit
<1>1. TestIInv => NoErrQuit
  BY Zenon DEF TestIInv, NoErrQuit
<1> QED
  BY <1>1, TestInitIInv, TestNextIInv, PTL DEF TestSpec

-----------------------------------------------------------------------------
(* my_rwlock_cancel: the handlers keep the counters exact at every point    *)
(* where a waiting thread can be cancelled, and nobody is left behind.      *)

CPlace == {"idle", "rdwait", "rdwake", "wrwait", "wrwake", "reading", "writing",
           "rdcancel", "wrcancel", "ended"}

CTypeOK ==
    /\ rw_magic \in BOOLEAN /\ rw_refcount \in Int
    /\ rw_nwaitreaders \in Int /\ rw_nwaitwriters \in Int
    /\ pc \in [Thread -> CPlace]

\* A lock that was destroyed has no user; cancelled threads are gone.
CDestroyedIsUnused ==
    ~rw_magic => \A t \in Thread : pc[t] \in {"idle", "ended"}

\* The inductive invariant.  A cancelled thread stays counted until its handler
\* has run, so the handlers decrement counters that are positive.
CIInv == CTypeOK /\ CCountersAgree /\ Exclusion /\ CDestroyedIsUnused

\* Membership in the groups of threads that the counters count.
LEMMA CGroups ==
    /\ Readers \in SUBSET Thread /\ Writers \in SUBSET Thread
    /\ CWaitingReaders \in SUBSET Thread /\ CWaitingWriters \in SUBSET Thread
BY Zenon DEF Readers, Writers, WaitingReaders, WaitingWriters, CWaitingReaders,
       CWaitingWriters, At

LEMMA CMembers ==
    ASSUME NEW t \in Thread
    PROVE  /\ t \in Readers <=> pc[t] = "reading"
           /\ t \in Writers <=> pc[t] = "writing"
           /\ t \in CWaitingReaders <=> pc[t] \in {"rdwait", "rdwake", "rdcancel"}
           /\ t \in CWaitingWriters <=> pc[t] \in {"wrwait", "wrwake", "wrcancel"}
BY Zenon DEF Readers, Writers, WaitingReaders, WaitingWriters, CWaitingReaders,
       CWaitingWriters, At

LEMMA PlaceNames ==
    /\ "rdwait" \in CPlace /\ "reading" \in CPlace /\ "wrwait" \in CPlace
    /\ "writing" \in CPlace /\ "ended" \in CPlace
BY Zenon DEF CPlace

\* A thread that goes to a place joins the group of that place and leaves the
\* others.
LEMMA CMoves ==
    ASSUME CTypeOK, NEW t \in Thread, NEW label \in CPlace, Goto(t, label)
    PROVE  /\ pc' \in [Thread -> CPlace]
           /\ Readers' = IF label = "reading" THEN Readers \cup {t}
                                              ELSE Readers \ {t}
           /\ Writers' = IF label = "writing" THEN Writers \cup {t}
                                              ELSE Writers \ {t}
           /\ CWaitingReaders' = IF label \in {"rdwait", "rdwake", "rdcancel"}
                                 THEN CWaitingReaders \cup {t}
                                 ELSE CWaitingReaders \ {t}
           /\ CWaitingWriters' = IF label \in {"wrwait", "wrwake", "wrcancel"}
                                 THEN CWaitingWriters \cup {t}
                                 ELSE CWaitingWriters \ {t}
BY Zenon DEF CTypeOK, Goto, Readers, Writers, WaitingReaders, WaitingWriters,
       CWaitingReaders, CWaitingWriters, At, CPlace

LEMMA CInitIInv == Init => CIInv
<1> SUFFICES ASSUME Init PROVE CIInv
  OBVIOUS
<1>1. /\ Readers = {} /\ Writers = {}
      /\ CWaitingReaders = {} /\ CWaitingWriters = {}
  BY Zenon DEF Init, Readers, Writers, WaitingReaders, WaitingWriters, CWaitingReaders,
         CWaitingWriters, At
<1> QED
  BY <1>1, FS_EmptySet DEF Init, CIInv, CTypeOK, CCountersAgree, Exclusion,
      CDestroyedIsUnused, CPlace

\* A thread inside one of the lock's functions rules out a destroyed lock.
LEMMA CInUse ==
    ASSUME CIInv, NEW t \in Thread, pc[t] \notin {"idle", "ended"}
    PROVE  rw_magic
BY Zenon DEF CIInv, CDestroyedIsUnused

\* What the tests on the counters in the code decide.
LEMMA CTests ==
    ASSUME CIInv, NEW t \in Thread
    PROVE  /\ rw_refcount < 0 <=> Writers # {}
           /\ rw_refcount = 0 <=> Readers = {} /\ Writers = {}
           /\ rw_nwaitreaders > 0 <=> CWaitingReaders # {}
           /\ rw_nwaitwriters > 0 <=> CWaitingWriters # {}
           /\ rw_nwaitreaders \in Nat /\ rw_nwaitwriters \in Nat
<1> USE DEF CIInv, CCountersAgree
<1>1. /\ Cardinality(Readers) \in Nat
      /\ Cardinality(Readers) = 0 <=> Readers = {}
  BY Zenon, Counting, CGroups
<1>2. /\ Cardinality(CWaitingReaders) \in Nat
      /\ Cardinality(CWaitingReaders) = 0 <=> CWaitingReaders = {}
  BY Zenon, Counting, CGroups
<1>3. /\ Cardinality(CWaitingWriters) \in Nat
      /\ Cardinality(CWaitingWriters) = 0 <=> CWaitingWriters = {}
  BY Zenon, Counting, CGroups
<1> QED
  BY <1>1, <1>2, <1>3

\* rdlock up to its first wait or to its return, tryrdlock, and the return of a
\* reader from pthread_cond_wait.
LEMMA CRdIInv ==
    ASSUME CIInv, NEW t \in Thread, CRdLock(t) \/ TryRdLock(t)
    PROVE  CIInv'
<1> USE DEF CIInv
<1> DEFINE nr == IF pc[t] = "rdwake" THEN rw_nwaitreaders - 1 ELSE rw_nwaitreaders
<1>1. pc[t] \in {"idle", "rdwake"} /\ rw_magic
  BY Zenon, CInUse DEF CRdLock, RdLock, RdResume, TryRdLock
<1>2. /\ t \notin Readers \cup Writers \cup CWaitingWriters
      /\ t \in CWaitingReaders <=> pc[t] = "rdwake"
  BY Zenon, <1>1, CMembers
<1>3. nr = Cardinality(CWaitingReaders \ {t})
  BY Zenon, <1>2, Counting, CGroups DEF CCountersAgree
<1>4. CASE Goto(t, "rdwait") /\ rw_nwaitreaders' = nr + 1
           /\ UNCHANGED <<rw_magic, rw_refcount, rw_nwaitwriters>>
  <2>1. /\ pc' \in [Thread -> CPlace] /\ Readers' = Readers /\ Writers' = Writers
        /\ CWaitingReaders' = (CWaitingReaders \ {t}) \cup {t}
        /\ CWaitingWriters' = CWaitingWriters
    <3>1. /\ pc' \in [Thread -> CPlace]
          /\ Readers' = Readers \ {t} /\ Writers' = Writers \ {t}
          /\ CWaitingReaders' = CWaitingReaders \cup {t}
          /\ CWaitingWriters' = CWaitingWriters \ {t}
      BY Zenon, <1>4, CMoves, PlaceNames
    <3> QED
      BY Zenon, <1>2, <3>1
  <2>2. Cardinality(CWaitingReaders') = nr + 1 /\ nr \in Nat
    BY <1>3, <2>1, Counting, CGroups
  <2> QED
    BY <1>1, <1>4, <2>1, <2>2
    DEF CTypeOK, CCountersAgree, Exclusion, CDestroyedIsUnused
<1>5. CASE Goto(t, "reading") /\ rw_nwaitreaders' = nr /\ ~ReaderMustWait
           /\ rw_refcount' = rw_refcount + 1 /\ UNCHANGED <<rw_magic, rw_nwaitwriters>>
  <2>1. /\ pc' \in [Thread -> CPlace]
        /\ Readers' = Readers \cup {t} /\ Writers' = Writers
        /\ CWaitingReaders' = CWaitingReaders \ {t}
        /\ CWaitingWriters' = CWaitingWriters
    <3>1. /\ pc' \in [Thread -> CPlace]
          /\ Readers' = Readers \cup {t} /\ Writers' = Writers \ {t}
          /\ CWaitingReaders' = CWaitingReaders \ {t}
          /\ CWaitingWriters' = CWaitingWriters \ {t}
      BY Zenon, <1>5, CMoves, PlaceNames
    <3> QED
      BY Zenon, <1>2, <3>1
  <2>2. Writers = {}
    BY Zenon, <1>5, CTests DEF ReaderMustWait
  <2>3. Cardinality(Readers') = rw_refcount + 1 /\ rw_refcount \in Int
    BY <1>2, <2>1, <2>2, Counting, CGroups DEF CCountersAgree
  <2>4. nr \in Int
    BY DEF CTypeOK
  <2> QED
    BY <1>1, <1>3, <1>5, <2>1, <2>2, <2>3, <2>4
    DEF CTypeOK, CCountersAgree, Exclusion, CDestroyedIsUnused
<1> QED
  BY Zenon, <1>4, <1>5 DEF CRdLock, RdLock, RdResume, RdLoop, TryRdLock

\* The same for writers.
LEMMA CWrIInv ==
    ASSUME CIInv, NEW t \in Thread, CWrLock(t) \/ TryWrLock(t)
    PROVE  CIInv'
<1> USE DEF CIInv
<1> DEFINE nw == IF pc[t] = "wrwake" THEN rw_nwaitwriters - 1 ELSE rw_nwaitwriters
<1>1. pc[t] \in {"idle", "wrwake"} /\ rw_magic
  BY Zenon, CInUse DEF CWrLock, WrLock, WrResume, TryWrLock
<1>2. /\ t \notin Readers \cup Writers \cup CWaitingReaders
      /\ t \in CWaitingWriters <=> pc[t] = "wrwake"
  BY Zenon, <1>1, CMembers
<1>3. nw = Cardinality(CWaitingWriters \ {t})
  BY Zenon, <1>2, Counting, CGroups DEF CCountersAgree
<1>4. CASE Goto(t, "wrwait") /\ rw_nwaitwriters' = nw + 1
           /\ UNCHANGED <<rw_magic, rw_refcount, rw_nwaitreaders>>
  <2>1. /\ pc' \in [Thread -> CPlace] /\ Readers' = Readers /\ Writers' = Writers
        /\ CWaitingReaders' = CWaitingReaders
        /\ CWaitingWriters' = CWaitingWriters \cup {t}
    <3>1. /\ pc' \in [Thread -> CPlace]
          /\ Readers' = Readers \ {t} /\ Writers' = Writers \ {t}
          /\ CWaitingReaders' = CWaitingReaders \ {t}
          /\ CWaitingWriters' = CWaitingWriters \cup {t}
      BY Zenon, <1>4, CMoves, PlaceNames
    <3> QED
      BY Zenon, <1>2, <3>1
  <2>2. Cardinality(CWaitingWriters') = nw + 1 /\ nw \in Nat
    <3>1. CWaitingWriters' = (CWaitingWriters \ {t}) \cup {t}
      BY Zenon, <2>1
    <3> QED
      BY <1>3, <3>1, Counting, CGroups
  <2> QED
    BY <1>1, <1>4, <2>1, <2>2
    DEF CTypeOK, CCountersAgree, Exclusion, CDestroyedIsUnused
<1>5. CASE Goto(t, "writing") /\ rw_nwaitwriters' = nw /\ rw_refcount = 0
           /\ rw_refcount' = -1 /\ UNCHANGED <<rw_magic, rw_nwaitreaders>>
  <2>1. /\ pc' \in [Thread -> CPlace]
        /\ Readers' = Readers /\ Writers' = Writers \cup {t}
        /\ CWaitingReaders' = CWaitingReaders
        /\ CWaitingWriters' = CWaitingWriters \ {t}
    <3>1. /\ pc' \in [Thread -> CPlace]
          /\ Readers' = Readers \ {t} /\ Writers' = Writers \cup {t}
          /\ CWaitingReaders' = CWaitingReaders \ {t}
          /\ CWaitingWriters' = CWaitingWriters \ {t}
      BY Zenon, <1>5, CMoves, PlaceNames
    <3> QED
      BY Zenon, <1>2, <3>1
  <2>2. Readers = {} /\ Writers = {}
    BY Zenon, <1>5, CTests
  <2>3. nw \in Int
    BY DEF CTypeOK
  <2> QED
    BY <1>1, <1>3, <1>5, <2>1, <2>2, <2>3
    DEF CTypeOK, CCountersAgree, Exclusion, CDestroyedIsUnused
<1> QED
  BY Zenon, <1>4, <1>5 DEF CWrLock, WrLock, WrResume, WrLoop, TryWrLock

\* What signals and broadcasts do to the threads' places: blocked threads may
\* become woken ones on the same condition variable, and nothing else changes.
COnlyWakes(f, g) ==
    \A t \in Thread : \/ g[t] = f[t]
                      \/ f[t] = "rdwait" /\ g[t] = "rdwake"
                      \/ f[t] = "wrwait" /\ g[t] = "wrwake"

LEMMA CSignalOnlyWakes ==
    ASSUME NEW f \in [Thread -> CPlace], NEW g \in Signal(f, "wrwait", "wrwake")
    PROVE  g \in [Thread -> CPlace] /\ COnlyWakes(f, g)
BY Zenon DEF Signal, COnlyWakes, CPlace

LEMMA CWakeupsOnlyWake ==
    ASSUME NEW f \in [Thread -> CPlace], NEW g \in CWakeups(f)
    PROVE  g \in [Thread -> CPlace] /\ COnlyWakes(f, g)
BY Zenon DEF CWakeups, Signal, Broadcast, COnlyWakes, CPlace

\* unlock by a reader or by the writer.
LEMMA CUnlockIInv ==
    ASSUME CIInv, NEW t \in Thread, CUnlock(t)
    PROVE  CIInv'
<1> USE DEF CIInv
<1> DEFINE f == [pc EXCEPT ![t] = "idle"]
<1>1. /\ rw_magic /\ rw_refcount' = Released
      /\ UNCHANGED <<rw_magic, rw_nwaitreaders, rw_nwaitwriters>>
  BY Zenon DEF CUnlock
<1>2. f \in [Thread -> CPlace] /\ pc' \in CWakeups(f)
  BY Zenon DEF CUnlock, CTypeOK, CPlace
<1>3. pc' \in [Thread -> CPlace] /\ COnlyWakes(f, pc')
  BY Zenon, <1>2, CWakeupsOnlyWake
<1>4. t \in Readers \cup Writers
  BY Zenon, CMembers DEF CUnlock
<1>5. /\ Readers' = Readers \ {t} /\ Writers' = Writers \ {t}
      /\ CWaitingReaders' = CWaitingReaders
      /\ CWaitingWriters' = CWaitingWriters
  BY Zenon, <1>3, <1>4 DEF COnlyWakes, CPlace, Readers, Writers, WaitingReaders,
                    WaitingWriters, CWaitingReaders, CWaitingWriters, At, CTypeOK
<1>6. CTypeOK'
  BY <1>1, <1>3 DEF CTypeOK, Released
<1>7. CASE t \in Writers
  <2>1. Writers = {t} /\ Readers \ {t} = {} /\ rw_refcount = -1
    BY Zenon, <1>7 DEF Exclusion, CCountersAgree
  <2>2. Cardinality(Readers') = 0
    BY Zenon, <1>5, <2>1, FS_EmptySet
  <2> QED
    BY <1>1, <1>5, <1>6, <2>1, <2>2
    DEF CCountersAgree, Exclusion, CDestroyedIsUnused, Released
<1>8. CASE t \in Readers /\ t \notin Writers
  <2>1. Writers = {}
    BY Zenon, <1>8 DEF Exclusion
  <2>2. /\ rw_refcount = Cardinality(Readers) /\ rw_refcount \in Nat \ {0}
        /\ Cardinality(Readers \ {t}) = Cardinality(Readers) - 1
    BY Zenon, <1>8, <2>1, Counting, CGroups DEF CCountersAgree
  <2> QED
    BY <1>1, <1>5, <1>6, <2>1, <2>2
    DEF CCountersAgree, Exclusion, CDestroyedIsUnused, Released
<1> QED
  BY Zenon, <1>4, <1>7, <1>8

\* A spurious wakeup and a cancellation leave every thread in its group: the
\* cancelled one is counted until its handler runs.
LEMMA CCancelIInv ==
    ASSUME CIInv, NEW t \in Thread, SpuriousWakeup(t) \/ Cancel(t)
    PROVE  CIInv'
<1> USE DEF CIInv
<1>1. rw_magic /\ UNCHANGED lockVars
  BY Zenon, CInUse DEF SpuriousWakeup, Cancel
<1> DEFINE Shift(label) ==
      /\ label \in CPlace
      /\ \/ label \in {"rdwake", "rdcancel"} /\ pc[t] \in {"rdwait", "rdwake"}
         \/ label \in {"wrwake", "wrcancel"} /\ pc[t] \in {"wrwait", "wrwake"}
      /\ COnlyWakes([pc EXCEPT ![t] = label], pc')
      /\ pc' \in [Thread -> CPlace]
<1>2. \E label \in CPlace : Shift(label)
  <2>1. ASSUME NEW label \in CPlace, Goto(t, label)
        PROVE  pc' \in [Thread -> CPlace] /\ COnlyWakes([pc EXCEPT ![t] = label], pc')
    BY Zenon, <2>1 DEF CTypeOK, COnlyWakes, Goto
  <2>2. CASE pc[t] \in {"rdwait", "rdwake"} /\ Goto(t, "rdwake")
    BY Zenon, <2>1, <2>2 DEF CPlace
  <2>3. CASE pc[t] \in {"rdwait", "rdwake"} /\ Goto(t, "rdcancel")
    BY Zenon, <2>1, <2>3 DEF CPlace
  <2>4. CASE pc[t] = "wrwait" /\ Goto(t, "wrwake")
    BY Zenon, <2>1, <2>4 DEF CPlace
  <2>5. CASE pc[t] = "wrwait" /\ Goto(t, "wrcancel")
    BY Zenon, <2>1, <2>5 DEF CPlace
  <2>6. CASE /\ pc[t] = "wrwake"
             /\ pc' \in Signal([pc EXCEPT ![t] = "wrcancel"], "wrwait", "wrwake")
    <3>1. [pc EXCEPT ![t] = "wrcancel"] \in [Thread -> CPlace]
      BY Zenon DEF CTypeOK, CPlace
    <3> QED
      BY Zenon, <2>6, <3>1, CSignalOnlyWakes DEF CPlace
  <2> QED
    BY Zenon, <2>2, <2>3, <2>4, <2>5, <2>6 DEF SpuriousWakeup, Cancel
<1>3. /\ Readers' = Readers /\ Writers' = Writers
      /\ CWaitingReaders' = CWaitingReaders /\ CWaitingWriters' = CWaitingWriters
  BY <1>2 DEF COnlyWakes, CTypeOK, Readers, Writers, WaitingReaders,
              WaitingWriters, CWaitingReaders, CWaitingWriters, At
<1> QED
  BY Zenon, <1>1, <1>2, <1>3
  DEF CTypeOK, CCountersAgree, Exclusion, CDestroyedIsUnused, lockVars

\* The handlers rwlock_cancelrdwait and rwlock_cancelwrwait.
LEMMA CHandlerIInv ==
    ASSUME CIInv, NEW t \in Thread, CancelRdWait(t) \/ CancelWrWait(t)
    PROVE  CIInv'
<1> USE DEF CIInv
<1>1. Goto(t, "ended") /\ rw_magic /\ UNCHANGED <<rw_magic, rw_refcount>>
  BY Zenon, CInUse DEF CancelRdWait, CancelWrWait
<1>2. /\ pc' \in [Thread -> CPlace]
      /\ Readers' = Readers \ {t} /\ Writers' = Writers \ {t}
      /\ CWaitingReaders' = CWaitingReaders \ {t}
      /\ CWaitingWriters' = CWaitingWriters \ {t}
  BY <1>1, CMoves, PlaceNames
<1>3. CASE CancelRdWait(t)
  <2>1. t \in CWaitingReaders /\ t \notin Readers \cup Writers \cup CWaitingWriters
    BY Zenon, <1>3, CMembers DEF CancelRdWait
  <2>2. Cardinality(CWaitingReaders') = Cardinality(CWaitingReaders) - 1
    BY Zenon, <1>2, <2>1, Counting, CGroups
  <2>3. Readers' = Readers /\ Writers' = Writers /\ CWaitingWriters' = CWaitingWriters
    BY Zenon, <1>2, <2>1
  <2>4. CTypeOK'
    BY <1>1, <1>2, <1>3 DEF CancelRdWait, CTypeOK
  <2>5. CCountersAgree' /\ Exclusion'
    BY Zenon, <1>1, <1>3, <2>2, <2>3 DEF CancelRdWait, CCountersAgree, Exclusion
  <2> QED
    BY Zenon, <1>1, <2>4, <2>5 DEF CDestroyedIsUnused
<1>4. CASE CancelWrWait(t)
  <2>1. t \in CWaitingWriters /\ t \notin Readers \cup Writers \cup CWaitingReaders
    BY Zenon, <1>4, CMembers DEF CancelWrWait
  <2>2. Cardinality(CWaitingWriters') = Cardinality(CWaitingWriters) - 1
    BY Zenon, <1>2, <2>1, Counting, CGroups
  <2>3. Readers' = Readers /\ Writers' = Writers /\ CWaitingReaders' = CWaitingReaders
    BY Zenon, <1>2, <2>1
  <2>4. CTypeOK'
    BY <1>1, <1>2, <1>4 DEF CancelWrWait, CTypeOK
  <2>5. CCountersAgree' /\ Exclusion'
    BY Zenon, <1>1, <1>4, <2>2, <2>3 DEF CancelWrWait, CCountersAgree, Exclusion
  <2> QED
    BY Zenon, <1>1, <2>4, <2>5 DEF CDestroyedIsUnused
<1> QED
  BY Zenon, <1>3, <1>4

\* pthread_rwlock_init and pthread_rwlock_destroy.
LEMMA CInitDestroyIInv ==
    ASSUME CIInv, RwlockInit \/ Destroy
    PROVE  CIInv'
<1> USE DEF CIInv
<1>1. /\ UNCHANGED pc
      /\ Readers' = Readers /\ Writers' = Writers
      /\ CWaitingReaders' = CWaitingReaders /\ CWaitingWriters' = CWaitingWriters
  BY Zenon DEF RwlockInit, Destroy, Readers, Writers, WaitingReaders, WaitingWriters,
         CWaitingReaders, CWaitingWriters, At
<1>2. CASE RwlockInit
  <2>1. /\ Readers = {} /\ Writers = {}
        /\ CWaitingReaders = {} /\ CWaitingWriters = {}
    BY Zenon, <1>2, CMembers, CGroups DEF RwlockInit, CDestroyedIsUnused
  <2>2. CTypeOK' /\ CDestroyedIsUnused'
    BY <1>1, <1>2 DEF RwlockInit, CTypeOK, CDestroyedIsUnused
  <2> QED
    BY Zenon, <1>1, <1>2, <2>1, <2>2, FS_EmptySet DEF RwlockInit, CCountersAgree, Exclusion
<1>3. CASE Destroy
  <2>1. ASSUME NEW t \in Thread PROVE pc[t] \in {"idle", "ended"}
    <3>1. /\ Readers = {} /\ Writers = {}
          /\ CWaitingReaders = {} /\ CWaitingWriters = {}
      BY Zenon, <1>3, CTests DEF Destroy
    <3> QED
      BY Zenon, <3>1, CMembers DEF CTypeOK, CPlace
  <2>2. CTypeOK'
    BY Zenon, <1>1, <1>3 DEF Destroy, CTypeOK
  <2>3. CDestroyedIsUnused'
    BY Zenon, <1>1, <2>1 DEF CDestroyedIsUnused
  <2> QED
    BY Zenon, <1>1, <1>3, <2>2, <2>3 DEF Destroy, CCountersAgree, Exclusion
<1> QED
  BY Zenon, <1>2, <1>3

LEMMA CNextIInv == CIInv /\ [CNext]_vars => CIInv'
<1> SUFFICES ASSUME CIInv, [CNext]_vars PROVE CIInv'
  OBVIOUS
<1>1. CASE UNCHANGED vars
  BY Zenon, <1>1 DEF CIInv, vars, CTypeOK, CCountersAgree, Exclusion, CDestroyedIsUnused,
              Readers, Writers, WaitingReaders, WaitingWriters, CWaitingReaders,
              CWaitingWriters, At
<1>2. CASE CNext
  BY Zenon, <1>2, CInitDestroyIInv, CRdIInv, CWrIInv, CUnlockIInv, CCancelIInv, CHandlerIInv
  DEF CNext
<1> QED
  BY Zenon, <1>1, <1>2

\* The inductive invariant holds throughout.
THEOREM CInvariance == CSpec => []CIInv
BY CInitIInv, CNextIInv, PTL DEF CSpec

\* The handlers keep the counters of the lock exact, wherever a waiting thread is
\* cancelled.
THEOREM CCountersHold == CSpec => []CCountersAgree
<1>1. CIInv => CCountersAgree
  BY Zenon DEF CIInv
<1> QED
  BY <1>1, CInvariance, PTL

\* A writer has the lock alone, also when threads are cancelled.
THEOREM CExclusionHolds == CSpec => []Exclusion
<1>1. CIInv => Exclusion
  BY Zenon DEF CIInv
<1> QED
  BY <1>1, CInvariance, PTL

\* After the other threads are done or cancelled, destroy does not see EBUSY.
THEOREM DestroyAfterCancelHolds == CSpec => []DestroySucceedsAfterCancel
<1>1. CIInv => DestroySucceedsAfterCancel
  <2> SUFFICES ASSUME CIInv, \A t \in Thread : pc[t] \in {"idle", "ended"}
               PROVE  rw_refcount = 0 /\ rw_nwaitreaders = 0 /\ rw_nwaitwriters = 0
    BY Zenon DEF DestroySucceedsAfterCancel
  <2>1. /\ Readers = {} /\ Writers = {}
        /\ CWaitingReaders = {} /\ CWaitingWriters = {}
    BY Zenon, CMembers, CGroups
  <2> QED
    BY Zenon, <2>1, FS_EmptySet DEF CIInv, CCountersAgree
<1> QED
  BY <1>1, CInvariance, PTL

-----------------------------------------------------------------------------

\* A signal that finds a blocked writer wakes one.
LEMMA SignalWakes ==
    ASSUME NEW f \in [Thread -> CPlace], NEW g \in Signal(f, "wrwait", "wrwake")
    PROVE  (\E t \in Thread : g[t] = "wrwait") => \E t \in Thread : g[t] = "wrwake"
BY Zenon DEF Signal

\* No step strands a writer.  unlock signals one, and knows from rw_nwaitwriters
\* whether there is one; a cancelled waiter does not keep the signal.
LEMMA NextWriterNotStranded ==
    ASSUME CIInv, CIInv', WriterNotStranded, [CNext]_vars
    PROVE  WriterNotStranded'
<1> USE DEF CIInv
<1> DEFINE Ahead(u) == pc'[u] \in {"reading", "writing", "wrwake"}
<1> SUFFICES ASSUME NEW w \in Thread, pc'[w] = "wrwait"
             PROVE  \E u \in Thread : Ahead(u)
  BY Zenon DEF WriterNotStranded, Readers, Writers, At
<1>1. CASE pc[w] = "wrwait"
  <2>1. PICK u \in Thread : pc[u] \in {"reading", "writing", "wrwake"}
    BY Zenon, <1>1 DEF WriterNotStranded, Readers, Writers, At
  <2>2. CASE RwlockInit \/ Destroy \/ UNCHANGED vars
    BY Zenon, <2>1, <2>2 DEF RwlockInit, Destroy, vars
  <2>3. ASSUME NEW t \in Thread, CRdLock(t) \/ TryRdLock(t) \/ SpuriousWakeup(t)
                                 \/ CancelRdWait(t) \/ CancelWrWait(t)
        PROVE  Ahead(u)
    <3>1. /\ pc[t] \in {"idle", "rdwait", "rdwake", "wrwait", "rdcancel", "wrcancel"}
          /\ \E label : Goto(t, label)
      BY Zenon, <2>3 DEF CRdLock, RdLock, RdResume, RdLoop, TryRdLock, SpuriousWakeup,
                  CancelRdWait, CancelWrWait
    <3>2. u # t
      BY Zenon, <2>1, <3>1
    <3> QED
      BY Zenon, <2>1, <3>1, <3>2 DEF Goto, CTypeOK
  <2>4. ASSUME NEW t \in Thread, CWrLock(t) \/ TryWrLock(t)
        PROVE  \E v \in Thread : Ahead(v)
    <3>1. CASE Goto(t, "writing")
      <4>1. pc'[t] = "writing"
        BY Zenon, <3>1 DEF Goto, CTypeOK
      <4> QED
        BY Zenon, <4>1
    <3>2. CASE Goto(t, "wrwait") /\ rw_refcount # 0
      <4>1. PICK v \in Thread : pc[v] \in {"reading", "writing"}
        BY Zenon, <3>2, CTests, CMembers, CGroups
      <4>2. pc[t] \in {"idle", "wrwake"}
        BY Zenon, <2>4 DEF CWrLock, WrLock, WrResume, TryWrLock
      <4>3. v # t
        BY Zenon, <4>1, <4>2
      <4>4. pc'[v] = pc[v]
        BY Zenon, <3>2, <4>3 DEF Goto, CTypeOK
      <4> QED
        BY Zenon, <4>1, <4>4
    <3> QED
      BY Zenon, <2>4, <3>1, <3>2 DEF CWrLock, WrLock, WrResume, WrLoop, TryWrLock
  <2>5. ASSUME NEW t \in Thread, CUnlock(t)
        PROVE  \E v \in Thread : Ahead(v)
    <3>1. rw_nwaitwriters > 0
      BY Zenon, <1>1, CMembers, CTests
    <3>2. pc' \in Signal([pc EXCEPT ![t] = "idle"], "wrwait", "wrwake")
      BY Zenon, <2>5, <3>1 DEF CUnlock, CWakeups
    <3>3. [pc EXCEPT ![t] = "idle"] \in [Thread -> CPlace]
      BY Zenon DEF CTypeOK, CPlace
    <3>4. \E v \in Thread : pc'[v] = "wrwake"
      BY Zenon, <3>2, <3>3, SignalWakes
    <3> QED
      BY Zenon, <3>4
  <2>6. ASSUME NEW t \in Thread, Cancel(t)
        PROVE  \E v \in Thread : Ahead(v)
    <3>1. CASE pc[t] = "wrwake"
      <4>1. pc' \in Signal([pc EXCEPT ![t] = "wrcancel"], "wrwait", "wrwake")
        BY Zenon, <2>6, <3>1 DEF Cancel
      <4>2. [pc EXCEPT ![t] = "wrcancel"] \in [Thread -> CPlace]
        BY Zenon DEF CTypeOK, CPlace
      <4>3. \E v \in Thread : pc'[v] = "wrwake"
        BY Zenon, <4>1, <4>2, SignalWakes
      <4> QED
        BY Zenon, <4>3
    <3>2. CASE pc[t] # "wrwake"
      <4>1. pc[t] \in {"rdwait", "rdwake", "wrwait"} /\ \E label : Goto(t, label)
        BY Zenon, <2>6, <3>2 DEF Cancel
      <4>2. u # t
        BY Zenon, <2>1, <3>2, <4>1
      <4> QED
        BY Zenon, <2>1, <4>1, <4>2 DEF Goto, CTypeOK
    <3> QED
      BY Zenon, <3>1, <3>2
  <2> QED
    BY Zenon, <2>2, <2>3, <2>4, <2>5, <2>6 DEF CNext
<1>2. CASE pc[w] # "wrwait"
  <2>1. PICK t \in Thread : CWrLock(t) /\ Goto(t, "wrwait") /\ rw_refcount # 0
    <3>1. ~(RwlockInit \/ Destroy \/ UNCHANGED vars)
      BY Zenon, <1>2 DEF RwlockInit, Destroy, vars
    <3>2. ASSUME NEW t \in Thread, CUnlock(t) \/ Cancel(t) PROVE FALSE
      <4>1. CASE CUnlock(t)
        BY Zenon, <1>2, <4>1 DEF CUnlock, CWakeups, Signal, Broadcast, CTypeOK
      <4>2. CASE Cancel(t)
        BY Zenon, <1>2, <4>2 DEF Cancel, Signal, Goto, CTypeOK
      <4> QED
        BY Zenon, <3>2, <4>1, <4>2
    <3>3. ASSUME NEW t \in Thread, CRdLock(t) \/ TryRdLock(t) \/ TryWrLock(t)
                     \/ SpuriousWakeup(t) \/ CancelRdWait(t) \/ CancelWrWait(t)
          PROVE  FALSE
      <4>1. PICK label : Goto(t, label) /\ label # "wrwait"
        BY <3>3 DEF CRdLock, RdLock, RdResume, RdLoop, TryRdLock, TryWrLock,
                    SpuriousWakeup, CancelRdWait, CancelWrWait
      <4> QED
        BY Zenon, <1>2, <4>1 DEF Goto, CTypeOK
    <3>4. PICK t \in Thread : CWrLock(t)
      BY Zenon, <3>1, <3>2, <3>3 DEF CNext
    <3>5. Goto(t, "writing") \/ (Goto(t, "wrwait") /\ rw_refcount # 0)
      BY Zenon, <3>4 DEF CWrLock, WrLock, WrResume, WrLoop
    <3>6. ~Goto(t, "writing")
      BY Zenon, <1>2 DEF Goto, CTypeOK
    <3> QED
      BY Zenon, <3>4, <3>5, <3>6
  <2>2. PICK v \in Thread : pc[v] \in {"reading", "writing"}
    BY Zenon, <2>1, CTests, CMembers, CGroups
  <2>3. pc[t] \in {"idle", "wrwake"}
    BY Zenon, <2>1 DEF CWrLock, WrLock, WrResume
  <2>4. v # t
    BY Zenon, <2>2, <2>3
  <2>5. pc'[v] = pc[v]
    BY Zenon, <2>1, <2>4 DEF Goto, CTypeOK
  <2> QED
    BY Zenon, <2>2, <2>5
<1> QED
  BY Zenon, <1>1, <1>2

\* Cancelling a writer, also one that was just signalled, strands no other writer.
THEOREM WriterNotStrandedHolds == CSpec => []WriterNotStranded
<1>1. Init => WriterNotStranded
  BY Zenon DEF Init, WriterNotStranded, At
<1>2. CIInv /\ CIInv' /\ WriterNotStranded /\ [CNext]_vars => WriterNotStranded'
  BY Zenon, NextWriterNotStranded
<1> QED
  BY <1>1, <1>2, CInvariance, PTL DEF CSpec

-----------------------------------------------------------------------------

\* No step strands a reader while no thread was cancelled.  unlock broadcasts when
\* rw_nwaitwriters is 0, and knows from rw_nwaitreaders whether there is a reader.
LEMMA NextReaderNotStranded ==
    ASSUME CIInv, CIInv', ReaderNotStranded, [CNext]_vars
    PROVE  ReaderNotStranded'
<1> USE DEF CIInv
<1> DEFINE Before == {"writing", "wrwait", "wrwake", "wrcancel", "ended"}
           Ahead(u) == pc'[u] \in Before
<1> SUFFICES ASSUME NEW r \in Thread, pc'[r] = "rdwait"
             PROVE  \E u \in Thread : Ahead(u)
  BY Zenon DEF ReaderNotStranded, Writers, WaitingWriters, CWaitingWriters, At
<1>1. CASE pc[r] = "rdwait"
  <2>1. PICK u \in Thread : pc[u] \in Before
    BY Zenon, <1>1 DEF ReaderNotStranded, Writers, WaitingWriters, CWaitingWriters, At
  <2>2. CASE RwlockInit \/ Destroy \/ UNCHANGED vars
    BY Zenon, <2>1, <2>2 DEF RwlockInit, Destroy, vars
  <2>3. ASSUME NEW t \in Thread, CRdLock(t) \/ TryRdLock(t) \/ CancelRdWait(t)
        PROVE  Ahead(u)
    <3>1. pc[t] \in {"idle", "rdwake", "rdcancel"} /\ \E label : Goto(t, label)
      BY Zenon, <2>3 DEF CRdLock, RdLock, RdResume, RdLoop, TryRdLock, CancelRdWait
    <3>2. u # t
      BY Zenon, <2>1, <3>1
    <3> QED
      BY Zenon, <2>1, <3>1, <3>2 DEF Goto, CTypeOK
  <2>4. ASSUME NEW t \in Thread,
               CWrLock(t) \/ TryWrLock(t) \/ CancelWrWait(t)
        PROVE  Ahead(t)
    <3>1. PICK label \in Before : Goto(t, label)
      BY Zenon, <2>4 DEF CWrLock, WrLock, WrResume, WrLoop, TryWrLock, CancelWrWait
    <3> QED
      BY Zenon, <3>1 DEF Goto, CTypeOK
  <2>5. ASSUME NEW t \in Thread, SpuriousWakeup(t) PROVE Ahead(u)
    BY Zenon, <2>1, <2>5 DEF SpuriousWakeup, Goto, CTypeOK
  <2>6. ASSUME NEW t \in Thread, Cancel(t) PROVE Ahead(u)
    <3>1. CASE pc[t] # "wrwake"
      <4>1. PICK label \in {"rdcancel", "wrcancel"} : Goto(t, label)
        BY Zenon, <2>6, <3>1 DEF Cancel
      <4>2. u = t => label = "wrcancel"
        BY Zenon, <2>1, <2>6, <3>1, <4>1 DEF Cancel, Goto, CTypeOK
      <4> QED
        BY Zenon, <2>1, <4>1, <4>2 DEF Goto, CTypeOK
    <3>2. CASE pc[t] = "wrwake"
      <4>1. pc' \in Signal([pc EXCEPT ![t] = "wrcancel"], "wrwait", "wrwake")
        BY Zenon, <2>6, <3>2 DEF Cancel
      <4>2. [pc EXCEPT ![t] = "wrcancel"] \in [Thread -> CPlace]
        BY Zenon DEF CTypeOK, CPlace
      <4>3. COnlyWakes([pc EXCEPT ![t] = "wrcancel"], pc')
        BY Zenon, <4>1, <4>2, CSignalOnlyWakes
      <4> QED
        BY Zenon, <2>1, <4>3 DEF COnlyWakes, CTypeOK
    <3> QED
      BY Zenon, <3>1, <3>2
  <2>7. ASSUME NEW t \in Thread, CUnlock(t)
        PROVE  \E v \in Thread : Ahead(v)
    <3> DEFINE f == [pc EXCEPT ![t] = "idle"]
    <3>1. f \in [Thread -> CPlace] /\ pc' \in CWakeups(f)
      BY Zenon, <2>7 DEF CUnlock, CTypeOK, CPlace
    <3>2. rw_nwaitreaders > 0
      BY Zenon, <1>1, CMembers, CTests
    <3>3. rw_nwaitwriters > 0
      <4>1. pc' # Broadcast(f, "rdwait", "rdwake")
        BY Zenon DEF Broadcast
      <4> QED
        BY Zenon, <3>1, <3>2, <4>1 DEF CWakeups
    <3>4. PICK v \in Thread : pc[v] \in {"wrwait", "wrwake", "wrcancel"}
      BY Zenon, <3>3, CTests, CMembers, CGroups
    <3>5. pc[t] \in {"reading", "writing"}
      BY Zenon, <2>7 DEF CUnlock
    <3>6. f[v] = pc[v]
      BY Zenon, <3>4, <3>5 DEF CTypeOK
    <3>7. COnlyWakes(f, pc')
      BY Zenon, <3>1, CWakeupsOnlyWake
    <3>8. Ahead(v)
      BY Zenon, <3>4, <3>6, <3>7 DEF COnlyWakes
    <3> QED
      BY Zenon, <3>8
  <2> QED
    BY Zenon, <2>2, <2>3, <2>4, <2>5, <2>6, <2>7 DEF CNext
<1>2. CASE pc[r] # "rdwait"
  <2>1. PICK t \in Thread : CRdLock(t) /\ Goto(t, "rdwait") /\ ReaderMustWait
    <3>1. ~(RwlockInit \/ Destroy \/ UNCHANGED vars)
      BY Zenon, <1>2 DEF RwlockInit, Destroy, vars
    <3>2. ASSUME NEW t \in Thread, CUnlock(t) \/ Cancel(t) PROVE FALSE
      <4>1. CASE CUnlock(t)
        BY Zenon, <1>2, <4>1 DEF CUnlock, CWakeups, Signal, Broadcast, CTypeOK
      <4>2. CASE Cancel(t)
        BY Zenon, <1>2, <4>2 DEF Cancel, Signal, Goto, CTypeOK
      <4> QED
        BY Zenon, <3>2, <4>1, <4>2
    <3>3. ASSUME NEW t \in Thread, CWrLock(t) \/ TryRdLock(t) \/ TryWrLock(t)
                     \/ SpuriousWakeup(t) \/ CancelRdWait(t) \/ CancelWrWait(t)
          PROVE  FALSE
      <4>1. PICK label : Goto(t, label) /\ label # "rdwait"
        BY <3>3 DEF CWrLock, WrLock, WrResume, WrLoop, TryRdLock, TryWrLock,
                    SpuriousWakeup, CancelRdWait, CancelWrWait
      <4> QED
        BY Zenon, <1>2, <4>1 DEF Goto, CTypeOK
    <3>4. PICK t \in Thread : CRdLock(t)
      BY Zenon, <3>1, <3>2, <3>3 DEF CNext
    <3>5. Goto(t, "reading") \/ (Goto(t, "rdwait") /\ ReaderMustWait)
      BY Zenon, <3>4 DEF CRdLock, RdLock, RdResume, RdLoop
    <3>6. ~Goto(t, "reading")
      BY Zenon, <1>2 DEF Goto, CTypeOK
    <3> QED
      BY Zenon, <3>4, <3>5, <3>6
  <2>2. PICK v \in Thread : pc[v] \in {"writing", "wrwait", "wrwake", "wrcancel"}
    BY Zenon, <2>1, CTests, CMembers, CGroups DEF ReaderMustWait
  <2>3. pc[t] \in {"idle", "rdwake"}
    BY Zenon, <2>1 DEF CRdLock, RdLock, RdResume
  <2>4. v # t
    BY Zenon, <2>2, <2>3
  <2>5. pc'[v] = pc[v]
    BY Zenon, <2>1, <2>4 DEF Goto, CTypeOK
  <2> QED
    BY Zenon, <2>2, <2>5
<1> QED
  BY Zenon, <1>1, <1>2

\* Until a thread is cancelled, a reader that waits has a writer before it, the
\* one whose unlock will wake it.
THEOREM ReaderNotStrandedHolds == CSpec => []ReaderNotStranded
<1>1. Init => ReaderNotStranded
  BY Zenon DEF Init, ReaderNotStranded, At
<1>2. CIInv /\ CIInv' /\ ReaderNotStranded /\ [CNext]_vars => ReaderNotStranded'
  BY Zenon, NextReaderNotStranded
<1> QED
  BY <1>1, <1>2, CInvariance, PTL DEF CSpec
=============================================================================
