------------------------------ MODULE DbProofs ------------------------------
(***************************************************************************)
(* Proofs about Db, last part: the theorems.                               *)
(***************************************************************************)
EXTENDS DbStepProofs, DbMapProofs

\* Almost every leaf is a matter of logic, not of arithmetic.
USE ZenonT(40)

-----------------------------------------------------------------------------
(* What follows from the invariant.                                        *)

\* The bound on updates is kept.
LEMMA UpdatesBounded ==
    Spec => [](updates \in 0 .. MaxUpdates)
<1>1. Init => updates \in 0 .. MaxUpdates
  BY SMTT(30), DbAssumption DEF Init
<1>2. ASSUME updates \in 0 .. MaxUpdates, [Next]_vars
      PROVE  updates' \in 0 .. MaxUpdates
  <2>1. ASSUME NEW p \in Proc, NEW op, NEW k, NEW d, Call(p, op, k, d)
        PROVE  updates' \in 0 .. MaxUpdates
    <3>1. /\ op \in Update => updates < MaxUpdates
          /\ updates' = IF op \in Update THEN updates + 1 ELSE updates
      BY <2>1 DEF Call
    <3> QED
      BY SMTT(30), <1>2, <3>1, DbAssumption
  <2>2. ASSUME NEW p \in Proc, Rewind(p) \/ Nextrec(p) \/ Step(p)
        PROVE  updates' = updates
    BY <2>2 DEF Rewind, Nextrec, Step, FindAndLock, Walk, NotFound, ReadDat, BlankDat,
       ReadFree, BlankIdx, ToFree, Unlink, Reread, FindFree, WalkFree, NoFree, WriteDat,
       WriteIdx, WritePtrChain, Overwrite, NextIdx, NextDat, Over
  <2>3. CASE UNCHANGED vars
    BY <1>2, <2>3 DEF vars
  <2> QED
    BY <1>2, <2>1, <2>2, <2>3 DEF Next
<1>3. updates \in 0 .. MaxUpdates /\ [Next]_vars => (updates \in 0 .. MaxUpdates)'
  BY <1>2
<1> QED
  BY <1>1, <1>3, PTL DEF Spec

\* No offset that a process is about to read or write is outside the files, in
\* any database with any number of processes.
THEOREM TypeCorrect == Spec => []TypeOK
<1>1. ASSUME IInv, updates \in 0 .. MaxUpdates PROVE TypeOK
  <2>1. \A i \in DOMAIN idx : idx[i].key \in Key \cup {Blank}
    <3>1. \A i \in DOMAIN idx : idx[i] \in Record
      BY SMTT(30), <1>1 DEF IInv, FilesOK
    <3> QED
      BY SMTT(30), <3>1 DEF Record
  <2>2. \A i \in DOMAIN dat : dat[i] \in Data \cup {Blank}
    BY SMTT(30), <1>1 DEF IInv, FilesOK
  <2>3. ASSUME NEW p \in Proc
        PROVE  /\ db[p].ptroff \in Anchor \cup DOMAIN idx
               /\ {db[p].offset, db[p].ptrval, db[p].freeptr, db[p].idxoff}
                     \subseteq 0 .. Len(idx)
               /\ db[p].datoff \in 0 .. Len(dat)
    BY <1>1 DEF IInv, FieldsOK
  <2> QED
    BY <1>1, <2>1, <2>2, <2>3 DEF IInv, FilesOK, LocksOK, TypeOK
<1>2. IInv /\ updates \in 0 .. MaxUpdates => TypeOK
  BY <1>1
<1> QED
  BY <1>2, Invariance, UpdatesBounded, PTL

\* What a sequential read has returned and owes, after every step.
LEMMA ScanInvariance ==
    Spec => []ScanInv
<1>1. ASSUME Init PROVE ScanInv
  <2>1. scan = [p \in Proc |-> [owes |-> {}, seen |-> {}]]
    BY <1>1 DEF Init
  <2>2. ScanType /\ \A p \in Proc : scan[p].owes = {}
    BY SMTT(30), <2>1 DEF ScanType
  <2> QED
    BY <2>2 DEF ScanInv, ScanOK
<1>2. ASSUME IInv, ScanInv, UNCHANGED idx, UNCHANGED db, UNCHANGED scan PROVE ScanInv'
  BY <1>2, SameKeys, KeysOwed, ScanKept DEF ScanInv, ScanType
<1>3. ASSUME IInv, ScanInv, [Next]_vars PROVE ScanInv'
  <2>1. CASE UNCHANGED vars
    BY <1>2, <1>3, <2>1 DEF vars, files
  <2>2. ASSUME NEW p \in Proc, Step(p) PROVE ScanInv'
    <3>1. CASE Over(p)
      BY <1>2, <1>3, <3>1 DEF Over, files
    <3> QED
      BY <1>3, <2>2, <3>1, PlainScan, BlankIdxScan, WriteIdxScan, NextIdxScan,
         NextDatScan DEF Step, Plain
  <2> QED
    BY <1>3, <2>1, <2>2, CallScan, RewindScan, NextrecScan DEF Next
<1>4. IInv /\ ScanInv /\ [Next]_vars => ScanInv'
  BY <1>3
<1>5. Init => ScanInv
  BY <1>1
<1> QED
  BY <1>4, <1>5, Invariance, PTL DEF Spec

\* A sequential read that reaches the end of the index file has returned every
\* key that was there all the time, whatever was stored and deleted meanwhile.
THEOREM ScanCompleteHolds == Spec => []ScanComplete
<1>1. ASSUME IInv, ScanInv PROVE ScanComplete
  <2> SUFFICES ASSUME NEW p \in Proc, db[p].pc = "idle", db[p].pos > Len(idx),
                      NEW k \in scan[p].owes
               PROVE  k \in scan[p].seen
    BY DEF ScanComplete
  <2>1. ScanOK(p)
    BY <1>1 DEF ScanInv
  <2>2. PICK i \in DOMAIN idx : idx[i].key = k
    BY <2>1 DEF ScanOK, Indexed
  <2>3. ~ (i >= db[p].pos)
    BY SMTT(30), <1>1 DEF IInv, FilesOK, FieldsOK
  <2> QED
    BY <2>1, <2>2, <2>3 DEF ScanOK
<1>2. IInv /\ ScanInv => ScanComplete
  BY <1>1
<1> QED
  BY <1>2, Invariance, ScanInvariance, PTL

\* ... and returned none of them twice.
THEOREM ScanOnceHolds == Spec => ScanOnce
<1>1. ASSUME ScanInv, NEW p \in Proc, NextDat(p)
      PROVE  db[p].key \notin scan[p].owes \cap scan[p].seen
  BY <1>1 DEF NextDat, ScanInv, ScanOK
<1>2. ScanInv => \A p \in Proc : NextDat(p) => db[p].key \notin scan[p].owes \cap scan[p].seen
  BY <1>1
<1>3. ScanInv =>
        [\A p \in Proc : NextDat(p) => db[p].key \notin scan[p].owes \cap scan[p].seen]_vars
  BY <1>2
<1> QED
  BY <1>3, ScanInvariance, PTL DEF ScanOnce

\* The library implements a map: the calls of several processes, whatever the
\* interleaving of their reads and writes of the files, take effect one at a time.
THEOREM ImplementsMapHolds == Spec => ImplementsMap
<1>1. Init => MapInv /\ Abstract!Init
  BY InitIInv, MapInit
<1>2. IInv /\ IInv' /\ MapInv /\ [Next]_vars => MapInv' /\ [Abstract!Next]_(Abstract!vars)
  BY MapNext DEF Refined
<1>3. Spec => []MapInv
  BY <1>1, <1>2, Invariance, PTL DEF Spec
<1> QED
  BY <1>1, <1>2, <1>3, Invariance, PTL DEF Spec, ImplementsMap, Abstract!Spec

-----------------------------------------------------------------------------
(* The lists that nobody is changing.                                      *)

INSTANCE WellFoundedInduction

\* The least-number principle, which stands in for induction along a list.
LEMMA Least ==
    ASSUME NEW T, T \subseteq Nat, T # {}
    PROVE  \E x \in T : \A y \in T : x <= y
<1> DEFINE R == OpToRel(<, Nat)
<1>1. IsWellFoundedOn(R, Nat)
  BY NatLessThanWellFounded
<1> HIDE DEF R
<1>2. PICK x \in T : \A y \in T : ~ (<<y, x>> \in R)
  BY <1>1, WFMin
<1>3. \A y \in T : <<y, x>> \in R <=> y < x
  BY DEF R, OpToRel
<1>4. ASSUME NEW y \in T PROVE x <= y
  <2>1. x \in Nat /\ y \in Nat /\ ~(y < x)
    BY <1>2, <1>3
  <2> QED
    BY SMTT(30), <2>1
<1> QED
  BY <1>4

\* Of the records in a set, one has the least rank.
LEMMA LastOf ==
    ASSUME NEW D, NEW own, NEW rank, Ranked(D, own, rank), NEW T, T \subseteq D, T # {}
    PROVE  \E j \in T : \A k \in T : ~ (rank[k] < rank[j])
<1>1. \A k \in T : rank[k] \in Nat
  BY DEF Ranked
<1>2. {rank[k] : k \in T} \subseteq Nat /\ {rank[k] : k \in T} # {}
  BY <1>1
<1>3. PICK x \in {rank[k] : k \in T} : \A y \in {rank[k] : k \in T} : x <= y
  BY <1>2, Least
<1>4. PICK j \in T : rank[j] = x
  BY <1>3
<1>5. ASSUME NEW k \in T PROVE ~ (rank[k] < rank[j])
  <2>1. rank[j] <= rank[k] /\ rank[j] \in Nat /\ rank[k] \in Nat
    BY <1>1, <1>3, <1>4
  <2> QED
    BY SMTT(30), <2>1
<1> QED
  BY <1>5

\* In a list that nobody has write locked every pointer leads to the next record.
LEMMA Unlocked ==
    ASSUME IInv, NEW own, NEW rank, NEW max, Numbered(own, rank, max),
           NEW h \in Anchor, wrlock[h] = {}
    PROVE  /\ Leads(own, rank, h, h, head[h])
           /\ \A i \in DOMAIN idx : own[i] = h => Leads(own, rank, h, i, idx[i].next)
<1>1. ASSUME NEW x, Cell(own, h, x), NEW q \in Proc, db[q].pc \in {"tofree", "unlink"},
             db[q].ptroff = x
      PROVE  FALSE
  <2>1. Cell(own, Hash[db[q].key], x)
    BY <1>1 DEF Numbered, ProcOK, DeleteOK
  <2>2. /\ Hash[db[q].key] \in Anchor /\ q \in wrlock[Hash[db[q].key]]
    BY <1>1, NoAnchor DEF IInv, CallOK, HasLocks, AtChain
  <2>3. Hash[db[q].key] = h
    BY <1>1, <2>1, <2>2, OneList DEF IInv, Numbered
  <2> QED
    BY <2>2, <2>3
<1>2. ASSUME NEW x \in Anchor \cup DOMAIN idx, Cell(own, h, x)
      PROVE  Leads(own, rank, h, x, ReadPtr(x))
  BY <1>1, <1>2 DEF Detour, Numbered, PointersOK
<1>3. ReadPtr(h) = head[h] /\ Cell(own, h, h)
  BY DEF ReadPtr, Cell
<1>4. ASSUME NEW i \in DOMAIN idx, own[i] = h PROVE ReadPtr(i) = idx[i].next /\ Cell(own, h, i)
  <2>1. i \notin Anchor /\ DOMAIN own = DOMAIN idx
    BY Numbers DEF IInv, Numbered, Numbering
  <2> QED
    BY <1>4, <2>1 DEF ReadPtr, Cell
<1> QED
  BY <1>2, <1>3, <1>4

\* It is the list of the records that are numbered as its own.
LEMMA ListIsOwn ==
    ASSUME IInv, NEW own, NEW rank, NEW max, Numbered(own, rank, max),
           NEW h \in Anchor, wrlock[h] = {}
    PROVE  /\ ListOf(h) = {i \in DOMAIN idx : own[i] = h}
           /\ ListOf(h) # {} => \E i \in ListOf(h) : idx[i].next = 0
<1> DEFINE Own == {i \in DOMAIN idx : own[i] = h}
           Closed(S) == /\ head[h] \in S \cup {0}
                        /\ \A i \in S : idx[i].next \in S \cup {0}
<1>1. /\ Leads(own, rank, h, h, head[h])
      /\ \A i \in DOMAIN idx : own[i] = h => Leads(own, rank, h, i, idx[i].next)
  BY Unlocked
<1> USE <1>1
<1>2. Ranked(DOMAIN idx, own, rank) /\ DOMAIN own = DOMAIN idx
  BY NumberingRanked DEF IInv, Numbered, Numbering
<1> USE <1>2
<1>3. \A i \in DOMAIN idx : i \notin Anchor /\ i # 0 /\ rank[i] \in Nat
  BY Numbers DEF IInv, Ranked
<1> USE <1>3
<1>4. Closed(Own)
  BY DEF Leads
<1>5. ASSUME NEW S \in SUBSET DOMAIN idx, Closed(S), NEW i \in Own PROVE i \in S
  <2> SUFFICES ASSUME i \notin S PROVE FALSE
    BY SMTT(30)
  <2> DEFINE T == {j \in Own : j \in S /\ rank[i] < rank[j]}
  <2>1. ASSUME NEW x, NEW j, j \in S \cup {0}, Leads(own, rank, h, x, j), Below(rank, i, x)
        PROVE  j \in T /\ Below(rank, j, x)
    <3>1. j # 0
      BY <2>1 DEF Leads
    <3>2. j \in Own /\ j \in S /\ Below(rank, j, x) /\ rank[i] <= rank[j]
      BY <2>1, <3>1 DEF Leads
    <3> USE <3>2
    <3>3. rank[i] # rank[j] /\ rank[i] \in Nat /\ rank[j] \in Nat
      BY DEF Ranked
    <3>4. rank[i] < rank[j]
      BY SMTT(30), <3>3
    <3> QED
      BY <3>4
  <2>2. T # {}
    BY <1>5, <2>1 DEF Below
  <2>3. PICK j \in T : \A k \in T : ~ (rank[k] < rank[j])
    BY <2>2, LastOf
  <2>4. Leads(own, rank, h, j, idx[j].next) /\ Below(rank, i, j) /\ idx[j].next \in S \cup {0}
    BY <1>5, <2>3 DEF Below
  <2>5. idx[j].next \in T /\ Below(rank, idx[j].next, j)
    BY <2>1, <2>4
  <2> QED
    BY <2>3, <2>5 DEF Below
<1>6. Own \in SUBSET DOMAIN idx
  OBVIOUS
<1>7. ASSUME NEW i PROVE i \in ListOf(h) <=> i \in Own
  BY <1>4, <1>5, <1>6 DEF ListOf
<1>8. ListOf(h) = Own
  BY <1>7
<1>9. ASSUME Own # {} PROVE \E i \in Own : idx[i].next = 0
  <2>1. PICK j \in Own : \A k \in Own : ~ (rank[k] < rank[j])
    BY <1>6, <1>9, LastOf
  <2>2. Leads(own, rank, h, j, idx[j].next)
    OBVIOUS
  <2> QED
    BY <2>1, <2>2 DEF Leads, Below
<1> QED
  BY <1>8, <1>9

\* Whoever locks a chain that no one is updating finds a list that ends, of
\* records of its own keys, one per key, on no other list, and without a lock no
\* record is lost: the lists are sound between updates, for every database and
\* every number of processes.
THEOREM WellFormedHolds == Spec => []WellFormed
<1>1. ASSUME IInv PROVE WellFormed
  <2>1. PICK own, rank, max : Numbered(own, rank, max)
    BY <1>1 DEF IInv
  <2> USE <2>1
  <2> DEFINE List == [h \in {a \in Anchor : wrlock[a] = {}} |-> ListOf(h)]
  <2>2. \A h \in DOMAIN List : h \in Anchor /\ wrlock[h] = {} /\ List[h] = ListOf(h)
    OBVIOUS
  <2> HIDE DEF List
  <2>3. ASSUME NEW h \in DOMAIN List
        PROVE  /\ h \in Anchor /\ wrlock[h] = {}
               /\ \A i : i \in List[h] <=> i \in DOMAIN idx /\ own[i] = h
               /\ List[h] # {} => \E i \in List[h] : idx[i].next = 0
    <3>1. h \in Anchor /\ wrlock[h] = {} /\ List[h] = ListOf(h)
      BY <2>2
    <3> USE <3>1
    <3>2. /\ ListOf(h) = {i \in DOMAIN idx : own[i] = h}
          /\ ListOf(h) # {} => \E i \in ListOf(h) : idx[i].next = 0
      BY <1>1, ListIsOwn
    <3> QED
      BY <3>2
  <2>4. \A i \in DOMAIN idx : idx[i].key \in Key \cup {Blank}
    <3>1. \A i \in DOMAIN idx : idx[i] \in Record
      BY SMTT(30), <1>1 DEF IInv, FilesOK
    <3> QED
      BY SMTT(30), <3>1 DEF Record
  <2>5. ASSUME NEW h \in DOMAIN List, NEW i \in List[h]
        PROVE  IF h = FREE THEN idx[i].key = Blank /\ dat[idx[i].datoff] = Blank
               ELSE idx[i].key \in {k \in Key : Hash[k] = h}
    <3>1. i \in DOMAIN idx /\ own[i] = h /\ h # 0
      <4>1. h \in Anchor /\ i \in DOMAIN idx /\ own[i] = h
        BY <2>3
      <4> QED
        BY <4>1, NoAnchor
    <3> USE <3>1
    <3>2. /\ own[i] # 0 => Home(idx[i]) = own[i]
          /\ own[i] = FREE => dat[idx[i].datoff] = Blank
      BY DEF Numbered, MembersOK
    <3> QED
      BY <2>4, <3>2, NoAnchor DEF Home
  <2>6. ASSUME NEW h \in DOMAIN List, NEW i \in List[h], NEW j \in List[h], h # FREE,
               idx[i].key = idx[j].key
        PROVE  i = j
    <3>1. idx[i].key \in Key /\ i \in DOMAIN idx /\ j \in DOMAIN idx
      BY <2>3, <2>5, <2>6
    <3> USE <3>1
    <3>2. idx[i].key # Blank
      BY DbAssumption DEF Blank
    <3> QED
      BY <1>1, <2>6, <3>2 DEF IInv, RecordsOK
  <2>7. ASSUME NEW g \in DOMAIN List, NEW h \in DOMAIN List, g # h
        PROVE  List[g] \cap List[h] = {}
    <3>1. ASSUME NEW i, i \in List[g], i \in List[h] PROVE FALSE
      <4>1. own[i] = g
        BY <2>3, <3>1
      <4>2. own[i] = h
        BY <2>3, <3>1
      <4> QED
        BY <2>7, <4>1, <4>2
    <3> QED
      BY <3>1
  <2>8. ASSUME DOMAIN List = Anchor
        PROVE  UNION {List[h] : h \in Anchor} = DOMAIN idx
    <3>1. ASSUME NEW i \in DOMAIN idx, own[i] = 0 PROVE FALSE
      <4>1. PICK p \in Proc : Holds(p) /\ db[p].idxoff = i
        BY <3>1 DEF Numbered, MembersOK
      <4>2. Hash[db[p].key] \in Anchor /\ p \in wrlock[Hash[db[p].key]]
        <5>1. /\ db[p].pc \in {"tofree", "writedat", "writeidx", "writeptr"}
              /\ db[p].pc \in AtChain /\ HasLocks(p) /\ CallOK(p)
          BY <1>1, <4>1 DEF Holds, AtChain, IInv
        <5> USE <5>1
        <5>2. db[p].key \in Key /\ db[p].op # "fetch"
          BY DEF CallOK
        <5> QED
          BY <5>2, NoAnchor DEF HasLocks
      <4> QED
        BY <2>3, <2>8, <4>2
    <3>2. ASSUME NEW i \in DOMAIN idx PROVE own[i] \in Anchor /\ i \in List[own[i]]
      <4>1. own[i] \in Anchor
        BY <3>1 DEF Numbered, Numbering
      <4> QED
        BY <2>3, <2>8, <4>1
    <3>3. ASSUME NEW h \in Anchor, NEW i \in List[h] PROVE i \in DOMAIN idx
      BY <2>3, <2>8
    <3>4. ASSUME NEW i PROVE i \in UNION {List[h] : h \in Anchor} <=> i \in DOMAIN idx
      BY <3>2, <3>3
    <3> QED
      BY <3>4
  <2>9. /\ \A h \in DOMAIN List :
              /\ List[h] # {} => \E i \in List[h] : idx[i].next = 0
              /\ \A i \in List[h] :
                    IF h = FREE THEN idx[i].key = Blank /\ dat[idx[i].datoff] = Blank
                    ELSE idx[i].key \in {k \in Key : Hash[k] = h}
              /\ \A i, j \in List[h] :
                    h # FREE /\ idx[i].key = idx[j].key => i = j
        /\ \A g, h \in DOMAIN List : g # h => List[g] \cap List[h] = {}
        /\ DOMAIN List = Anchor => UNION {List[h] : h \in Anchor} = DOMAIN idx
    <3>1. \A h \in DOMAIN List : List[h] # {} => \E i \in List[h] : idx[i].next = 0
      BY <2>3
    <3> QED
      BY <3>1, <2>5, <2>6, <2>7, <2>8
  <2> QED
    BY <2>9 DEF WellFormed, List
<1>2. IInv => WellFormed
  BY <1>1
<1> QED
  BY <1>2, Invariance, PTL

=============================================================================
