------------------------------ MODULE DbLemmas ------------------------------
(***************************************************************************)
(* Proofs about Db, first part: lists as numberings, what a step of one    *)
(* process leaves to the others, and the steps that leave the files alone. *)
(***************************************************************************)
EXTENDS DbInv, TLAPS

\* Almost every leaf is a matter of logic, not of arithmetic.
USE ZenonT(40)

-----------------------------------------------------------------------------
(* Lists as numberings.                                                    *)

\* The numbers of records are not anchors.
LEMMA NoAnchor ==
    /\ 0 \notin Anchor
    /\ \A i \in Nat : i \notin Anchor
    /\ FREE \in Anchor /\ Chain \subseteq Anchor
    /\ \A k \in Key : Hash[k] \in Chain /\ Hash[k] \in Anchor /\ Hash[k] # FREE
<1>1. 0 \in Nat
  BY SMTT(30)
<1> QED
  BY <1>1, DbAssumption DEF Anchor

Ranked(D, own, rank) ==
    /\ D \subseteq Nat \ {0}
    /\ own \in [D -> Anchor \cup {0}] /\ rank \in [D -> Nat]
    /\ \A i, j \in D : rank[i] = rank[j] => i = j

\* A pointer past record i to the next one is right when i has left the list,
\* and so are the pointers to other records.
LEMMA Skip ==
    ASSUME NEW D, NEW own, NEW rank, Ranked(D, own, rank),
           NEW h \in Anchor, NEW i \in D, own[i] = h,
           NEW x \in Anchor \cup D, NEW j,
           Leads(own, rank, h, x, i), Leads(own, rank, h, i, j)
    PROVE  Leads([own EXCEPT ![i] = 0], rank, h, x, j)
<1> DEFINE own2 == [own EXCEPT ![i] = 0]
           After == {k \in D : own[k] = h /\ Below(rank, k, x)}
           AfterI == {k \in D : own[k] = h /\ Below(rank, k, i)}
           After2 == {k \in D : own2[k] = h /\ Below(rank, k, x)}
<1>1. DOMAIN own = D /\ DOMAIN own2 = D /\ i # 0 /\ i \notin Anchor
  BY SMTT(30), NoAnchor DEF Ranked
<1> USE <1>1
<1>2. own2[i] = 0 /\ \A k \in D : k # i => own2[k] = own[k]
  OBVIOUS
<1>3. i \in After /\ \A k \in After : rank[k] <= rank[i]
  BY DEF Leads
<1> USE <1>3
<1>4. IF j = 0 THEN AfterI = {} ELSE j \in AfterI /\ \A k \in AfterI : rank[k] <= rank[j]
  BY DEF Leads
<1>5. ASSUME NEW k PROVE k \in After2 <=> k \in AfterI
  <2>1. CASE k \in D
    <3>1. rank[k] \in Nat /\ rank[i] \in Nat
      BY <2>1 DEF Ranked
    <3> USE <3>1
    <3>2. Below(rank, k, i) <=> rank[k] < rank[i]
      BY DEF Below
    <3> USE <3>2
    <3>3. k \in After2 <=> k \in After /\ k # i
      BY <1>2, <2>1, NoAnchor
    <3>4. k \in After /\ k # i => rank[k] < rank[i]
      <4>1. rank[k] = rank[i] => k = i
        BY <2>1 DEF Ranked
      <4>2. k \in After => rank[k] <= rank[i]
        OBVIOUS
      <4> QED
        BY SMTT(30), <4>1, <4>2
    <3>5. k \in AfterI => k \in After /\ k # i
      <4>1. x \in Anchor \/ (rank[i] < rank[x] /\ rank[x] \in Nat)
        BY DEF Below, Ranked
      <4>2. rank[k] < rank[i] => Below(rank, k, x)
        BY SMTT(30), <4>1 DEF Below
      <4>3. rank[k] < rank[i] => k # i
        BY SMTT(30)
      <4> QED
        BY <2>1, <4>2, <4>3
    <3> QED
      BY <2>1, <3>3, <3>4, <3>5
  <2> QED
    BY <2>1
<1>6. After2 = AfterI
  BY <1>5
<1> HIDE DEF own2, After, AfterI
<1>7. Leads(own2, rank, h, x, j)
  BY <1>4, <1>6 DEF Leads
<1> QED
  BY <1>7 DEF own2

\* ... and so are those of the other records.
LEMMA SkipOther ==
    ASSUME NEW D, NEW own, NEW rank, Ranked(D, own, rank),
           NEW g \in Anchor, NEW i \in D, NEW x, NEW j, j # i,
           Leads(own, rank, g, x, j)
    PROVE  Leads([own EXCEPT ![i] = 0], rank, g, x, j)
<1> DEFINE own2 == [own EXCEPT ![i] = 0]
<1>1. DOMAIN own = D /\ DOMAIN own2 = D
  BY DEF Ranked
<1>2. own2[i] = 0 /\ \A k \in D : k # i => own2[k] = own[k]
  BY <1>1
<1>3. g # 0
  BY NoAnchor
<1> HIDE DEF own2
<1>4. Leads(own2, rank, g, x, j)
  BY <1>1, <1>2, <1>3 DEF Leads
<1> QED
  BY <1>4 DEF own2

\* A record that was on no list and goes to the front of list h with a rank
\* above all.
LEMMA Push ==
    ASSUME NEW D, NEW own, NEW rank, Ranked(D, own, rank),
           NEW max \in Nat, \A k \in D : rank[k] <= max,
           NEW h \in Anchor, NEW i \in D, own[i] = 0, NEW j,
           Leads(own, rank, h, h, j)
    PROVE  /\ Leads([own EXCEPT ![i] = h], [rank EXCEPT ![i] = max + 1], h, h, i)
           /\ Leads([own EXCEPT ![i] = h], [rank EXCEPT ![i] = max + 1], h, i, j)
<1> DEFINE own2 == [own EXCEPT ![i] = h]
           rank2 == [rank EXCEPT ![i] = max + 1]
<1>1. DOMAIN own = D /\ DOMAIN own2 = D /\ i # 0 /\ i \notin Anchor
  BY SMTT(30), NoAnchor DEF Ranked
<1> USE <1>1
<1>2. own2[i] = h /\ rank2[i] = max + 1
      /\ \A k \in D : k # i => own2[k] = own[k] /\ rank2[k] = rank[k]
  BY DEF Ranked
<1> USE <1>2
<1>3. \A k \in D : rank[k] \in Nat
  BY DEF Ranked
<1>4. \A k \in D : k # i => rank2[k] < max + 1 /\ rank2[k] <= max + 1
  BY SMTT(30), <1>3
<1> USE <1>4
<1>5. max + 1 <= max + 1 /\ ~ (max + 1 < max + 1)
  BY SMTT(30)
<1> USE <1>5
<1> HIDE DEF own2, rank2
<1>6. Leads(own2, rank2, h, h, i)
  BY DEF Leads, Below
<1>7. Leads(own2, rank2, h, i, j)
  <2>1. own[i] # h
    BY NoAnchor
  <2> USE <2>1
  <2>2. ASSUME NEW k PROVE k \in D /\ own2[k] = h /\ Below(rank2, k, i) <=>
                           k \in D /\ own[k] = h /\ Below(rank, k, h)
    BY DEF Below
  <2>3. ASSUME NEW k \in D, own[k] = h PROVE rank2[k] = rank[k]
    BY <2>3
  <2> QED
    BY <2>2, <2>3 DEF Leads
<1> QED
  BY <1>6, <1>7 DEF own2, rank2

\* The other pointers stay right.
LEMMA PushOther ==
    ASSUME NEW D, NEW own, NEW rank, Ranked(D, own, rank),
           NEW max \in Nat, \A k \in D : rank[k] <= max,
           NEW h \in Anchor, NEW i \in D, own[i] = 0,
           NEW g \in Anchor, NEW x, NEW j, Leads(own, rank, g, x, j),
           (x \in D /\ x # i) \/ (x \in Anchor /\ g # h)
    PROVE  Leads([own EXCEPT ![i] = h], [rank EXCEPT ![i] = max + 1], g, x, j)
<1> DEFINE own2 == [own EXCEPT ![i] = h]
           rank2 == [rank EXCEPT ![i] = max + 1]
<1>1. DOMAIN own = D /\ DOMAIN own2 = D /\ i # 0 /\ i \notin Anchor
  BY SMTT(30), NoAnchor DEF Ranked
<1> USE <1>1
<1>2. own2[i] = h /\ rank2[i] = max + 1
      /\ \A k \in D : k # i => own2[k] = own[k] /\ rank2[k] = rank[k]
  BY DEF Ranked
<1>3. \A k \in D : ~ (max + 1 < rank[k])
  BY SMTT(30) DEF Ranked
<1> HIDE DEF own2, rank2
<1>4. own[i] # g /\ \A k \in D : k \notin Anchor
  BY SMTT(30), NoAnchor DEF Ranked
<1>5. ASSUME NEW k PROVE k \in D /\ own2[k] = g /\ Below(rank2, k, x) <=>
                         k \in D /\ own[k] = g /\ Below(rank, k, x)
  BY <1>2, <1>3, <1>4 DEF Below
<1>6. ASSUME NEW k \in D, own[k] = g PROVE rank2[k] = rank[k]
  BY <1>2, <1>4, <1>6
<1>7. Leads(own2, rank2, g, x, j)
  BY <1>5, <1>6 DEF Leads
<1> QED
  BY <1>7 DEF own2, rank2

\* Only one cell of a list points to a record.
LEMMA OnePointer ==
    ASSUME NEW D, NEW own, NEW rank, Ranked(D, own, rank), NEW h \in Anchor,
           NEW x, Cell(own, h, x), NEW y, Cell(own, h, y), NEW j, j # 0,
           Leads(own, rank, h, x, j), Leads(own, rank, h, y, j)
    PROVE  x = y
<1>1. DOMAIN own = D /\ \A i \in D : i \notin Anchor /\ rank[i] \in Nat
  BY SMTT(30), NoAnchor DEF Ranked
<1> USE <1>1
<1>2. /\ j \in D /\ Below(rank, j, x) /\ Below(rank, j, y)
      /\ \A i \in D : own[i] = h /\ Below(rank, i, x) => rank[i] <= rank[j]
      /\ \A i \in D : own[i] = h /\ Below(rank, i, y) => rank[i] <= rank[j]
  BY DEF Leads
<1> USE <1>2
<1>3. ASSUME NEW u, Cell(own, h, u), NEW v, Cell(own, h, v), u \in Anchor, v \notin Anchor,
             Below(rank, j, v), 
             \A i \in D : own[i] = h /\ Below(rank, i, u) => rank[i] <= rank[j]
      PROVE  FALSE
  <2>1. v \in D /\ own[v] = h
    BY <1>3 DEF Cell
  <2> USE <2>1
  <2>2. rank[v] <= rank[j] /\ rank[j] < rank[v]
    BY <1>3 DEF Below
  <2> QED
    BY SMTT(30), <2>2
<1>4. CASE x \in Anchor \/ y \in Anchor
  <2>1. x \in Anchor /\ y \in Anchor
    BY <1>3, <1>4
  <2> QED
    BY <2>1 DEF Cell
<1>5. CASE x \notin Anchor /\ y \notin Anchor
  <2>1. x \in D /\ own[x] = h /\ y \in D /\ own[y] = h
    BY <1>5 DEF Cell
  <2> USE <2>1
  <2>2. rank[j] < rank[x] /\ rank[j] < rank[y]
    BY <1>5 DEF Below
  <2>3. /\ rank[x] < rank[y] => rank[x] <= rank[j]
        /\ rank[y] < rank[x] => rank[y] <= rank[j]
    BY <1>5 DEF Below
  <2>4. rank[x] = rank[y]
    BY SMTT(30), <2>2, <2>3
  <2> QED
    BY <2>4 DEF Ranked
<1> QED
  BY <1>4, <1>5

\* A record number is neither 0 nor an anchor.
LEMMA Numbers ==
    ASSUME FilesOK
    PROVE  \A i \in DOMAIN idx : i \notin Anchor /\ i # 0 /\ i \in 0 .. Len(idx) /\ i \in Nat
BY SMTT(30), NoAnchor DEF FilesOK

-----------------------------------------------------------------------------
(* One process moves.                                                      *)

\* Set changes the fields it names.
LEMMA SetFields ==
    ASSUME IInv, NEW p \in Proc, NEW f, Set(p, f)
    PROVE  /\ DOMAIN db' = Proc /\ DOMAIN db'[p] = Field
           /\ \A q \in Proc : q # p => db'[q] = db[q]
           /\ db'[p].pc = IF "pc" \in DOMAIN f THEN f.pc ELSE db[p].pc
           /\ db'[p].op = IF "op" \in DOMAIN f THEN f.op ELSE db[p].op
           /\ db'[p].key = IF "key" \in DOMAIN f THEN f.key ELSE db[p].key
           /\ db'[p].data = IF "data" \in DOMAIN f THEN f.data ELSE db[p].data
           /\ db'[p].ptroff = IF "ptroff" \in DOMAIN f THEN f.ptroff ELSE db[p].ptroff
           /\ db'[p].offset = IF "offset" \in DOMAIN f THEN f.offset ELSE db[p].offset
           /\ db'[p].ptrval = IF "ptrval" \in DOMAIN f THEN f.ptrval ELSE db[p].ptrval
           /\ db'[p].freeptr = IF "freeptr" \in DOMAIN f THEN f.freeptr ELSE db[p].freeptr
           /\ db'[p].idxoff = IF "idxoff" \in DOMAIN f THEN f.idxoff ELSE db[p].idxoff
           /\ db'[p].datoff = IF "datoff" \in DOMAIN f THEN f.datoff ELSE db[p].datoff
           /\ db'[p].old = IF "old" \in DOMAIN f THEN f.old ELSE db[p].old
           /\ db'[p].pos = IF "pos" \in DOMAIN f THEN f.pos ELSE db[p].pos
<1>1. DOMAIN db = Proc /\ DOMAIN db[p] = Field
  BY DEF IInv, FieldsOK
<1>2. /\ DOMAIN db' = Proc /\ DOMAIN db'[p] = Field
      /\ \A q \in Proc : q # p => db'[q] = db[q]
      /\ \A x \in Field : db'[p][x] = IF x \in DOMAIN f THEN f[x] ELSE db[p][x]
  BY <1>1 DEF Set
<1> QED
  BY SMTT(30), <1>2 DEF Field

\* A process keeps the locks it has; the files do not shrink.
LocksKept(q) ==
    \A h \in Anchor : /\ q \in rdlock[h] => q \in rdlock'[h]
                      /\ q \in wrlock[h] => q \in wrlock'[h]

Grows ==
    /\ DOMAIN idx \subseteq DOMAIN idx'
    /\ 0 .. Len(idx) \subseteq 0 .. Len(idx') /\ 0 .. Len(dat) \subseteq 0 .. Len(dat')

\* The processes other than p do nothing.
Others(p) ==
    /\ DOMAIN db' = Proc
    /\ \A q \in Proc : q # p => db'[q] = db[q] /\ LocksKept(q)

\* A process that does nothing keeps its part of the invariant.
LEMMA OtherOK ==
    ASSUME NEW q \in Proc, FieldsOK(q), HasLocks(q), CallOK(q),
           db'[q] = db[q], LocksKept(q), Grows
    PROVE  FieldsOK(q)' /\ HasLocks(q)' /\ CallOK(q)'
<1>1. FieldsOK(q)'
  BY DEF FieldsOK, Grows
<1>2. CallOK(q)'
  BY DEF CallOK
<1>3. db[q].pc \in AtChain => Hash[db[q].key] \in Anchor
  BY NoAnchor DEF CallOK
<1>4. HasLocks(q)'
  BY <1>3, NoAnchor DEF HasLocks, LocksKept
<1> QED
  BY <1>1, <1>2, <1>4

\* A read lock is given to nobody else's harm,
LEMMA ReadLock ==
    ASSUME LocksOK, NEW p \in Proc, NEW h \in Anchor, readw_lock(p, h)
    PROVE  /\ LocksOK' /\ p \in rdlock'[h]
           /\ \A q \in Proc : LocksKept(q)
<1>1. /\ wrlock[h] \subseteq {p} /\ rdlock' = [rdlock EXCEPT ![h] = rdlock[h] \cup {p}]
      /\ wrlock' = wrlock
  BY DEF readw_lock, CanRead
<1> USE <1>1
<1>2. /\ rdlock'[h] = rdlock[h] \cup {p}
      /\ \A g \in Anchor : g # h => rdlock'[g] = rdlock[g]
      /\ rdlock' \in [Anchor -> SUBSET Proc]
  BY DEF LocksOK
<1> QED
  BY <1>2 DEF LocksOK, LocksKept

\* ... and so is a write lock.
LEMMA WriteLock ==
    ASSUME LocksOK, NEW p \in Proc, NEW h \in Anchor, writew_lock(p, h)
    PROVE  /\ LocksOK' /\ p \in wrlock'[h]
           /\ \A q \in Proc : LocksKept(q)
<1>1. /\ wrlock[h] \cup rdlock[h] \subseteq {p}
      /\ wrlock' = [wrlock EXCEPT ![h] = wrlock[h] \cup {p}]
      /\ rdlock' = rdlock
  BY DEF writew_lock, CanWrite
<1>2. /\ wrlock'[h] = wrlock[h] \cup {p}
      /\ \A g \in Anchor : g # h => wrlock'[g] = wrlock[g]
      /\ wrlock' \in [Anchor -> SUBSET Proc]
  BY <1>1 DEF LocksOK
<1> QED
  BY <1>1, <1>2 DEF LocksOK, LocksKept

\* Giving up a lock takes none from the others.
LEMMA UnLock ==
    ASSUME LocksOK, NEW p \in Proc, NEW h \in Anchor, un_lock(p, h)
    PROVE  /\ LocksOK'
           /\ \A q \in Proc : q # p => LocksKept(q)
           /\ \A g \in Anchor : g # h => /\ p \in rdlock[g] => p \in rdlock'[g]
                                         /\ p \in wrlock[g] => p \in wrlock'[g]
<1>1. /\ rdlock' = [rdlock EXCEPT ![h] = rdlock[h] \ {p}]
      /\ wrlock' = [wrlock EXCEPT ![h] = wrlock[h] \ {p}]
  BY DEF un_lock
<1>2. /\ rdlock'[h] = rdlock[h] \ {p} /\ wrlock'[h] = wrlock[h] \ {p}
      /\ \A g \in Anchor : g # h => rdlock'[g] = rdlock[g] /\ wrlock'[g] = wrlock[g]
      /\ rdlock' \in [Anchor -> SUBSET Proc] /\ wrlock' \in [Anchor -> SUBSET Proc]
  BY <1>1 DEF LocksOK
<1> QED
  BY <1>1, <1>2 DEF LocksOK, LocksKept

\* A step without locks.
LEMMA SameLocks ==
    ASSUME LocksOK, UNCHANGED locks
    PROVE  LocksOK' /\ \A q \in Proc : LocksKept(q)
BY DEF LocksOK, LocksKept, locks

\* List h looks the same in a new numbering.
SameList(own, rank, own2, rank2, h) ==
    /\ head'[h] = head[h]
    /\ \A i : i \in DOMAIN own /\ own[i] = h <=> i \in DOMAIN own2 /\ own2[i] = h
    /\ \A i \in DOMAIN own : own[i] = h =>
          i \in DOMAIN idx' /\ idx'[i] = idx[i] /\ rank2[i] = rank[i]

\* A step of another process leaves alone what q counts on.
Frame(own, rank, own2, rank2, q) ==
    /\ db'[q] = db[q]
    /\ \A h \in Anchor : q \in rdlock[h] \cup wrlock[h] => SameList(own, rank, own2, rank2, h)
    /\ Holds(q) => /\ db[q].idxoff \in DOMAIN idx' /\ own2[db[q].idxoff] = 0
                   /\ idx'[db[q].idxoff] = idx[db[q].idxoff]
    /\ db[q].pc \in AtAbsent => db[q].key \notin Indexed'
    /\ db[q].pc = "writeidx" /\ db[q].idxoff = 0 =>
          \A i \in DOMAIN idx' : idx'[i].datoff # db[q].datoff
    /\ db[q].pc \in {"readfree", "blankidx", "tofree", "writeidx", "writeptr"} =>
          db[q].datoff \in DOMAIN dat' /\ dat'[db[q].datoff] = dat[db[q].datoff]

\* A list that looks the same has the same cells and pointers.
LEMMA SameCell ==
    ASSUME NEW own, NEW rank, NEW max, Numbering(own, rank, max), FilesOK,
           NEW own2, NEW rank2, NEW h \in Anchor, SameList(own, rank, own2, rank2, h),
           NEW x, Cell(own, h, x)
    PROVE  /\ Cell(own2, h, x) /\ ReadPtr(x)' = ReadPtr(x)
           /\ \A j : Leads(own, rank, h, x, j) => Leads(own2, rank2, h, x, j)
<1>1. DOMAIN own = DOMAIN idx
  BY DEF Numbering
<1>2. \A i \in DOMAIN idx : i \notin Anchor
  BY SMTT(30), NoAnchor DEF FilesOK
<1>3. Cell(own2, h, x)
  BY DEF Cell, SameList
<1>4. ReadPtr(x)' = ReadPtr(x)
  BY <1>1, <1>2 DEF Cell, SameList, ReadPtr
<1>5. x \in Anchor \/ rank2[x] = rank[x]
  BY DEF Cell, SameList
<1>6. /\ \A i : i \in DOMAIN own /\ own[i] = h <=> i \in DOMAIN own2 /\ own2[i] = h
      /\ \A i \in DOMAIN own : own[i] = h => rank2[i] = rank[i]
  BY DEF SameList
<1>7. ASSUME NEW j, Leads(own, rank, h, x, j) PROVE Leads(own2, rank2, h, x, j)
  <2>1. ASSUME NEW i PROVE i \in DOMAIN own /\ own[i] = h /\ Below(rank, i, x) <=>
                           i \in DOMAIN own2 /\ own2[i] = h /\ Below(rank2, i, x)
    BY <1>5, <1>6 DEF Below
  <2> QED
    BY <1>6, <1>7, <2>1 DEF Leads
<1> QED
  BY <1>3, <1>4, <1>7

\* ... and what q knows stays true.
LEMMA Stable ==
    ASSUME NEW own, NEW rank, NEW max, Numbering(own, rank, max), FilesOK,
           NEW own2, NEW rank2, DOMAIN own2 = DOMAIN idx', NEW q \in Proc,
           FieldsOK(q), HasLocks(q), CallOK(q), ProcOK(own, rank, q),
           Frame(own, rank, own2, rank2, q)
    PROVE  ProcOK(own2, rank2, q)'
<1> DEFINE c == Hash[db[q].key]
<1>1. DOMAIN own = DOMAIN idx
  BY DEF Numbering
<1>2. db[q].pc \in AtChain => c \in Anchor /\ SameList(own, rank, own2, rank2, c)
  BY NoAnchor DEF CallOK, HasLocks, Frame
<1>3. db[q].pc \in AtFree => SameList(own, rank, own2, rank2, FREE)
  BY NoAnchor DEF HasLocks, Frame
<1>4. db'[q] = db[q]
  BY DEF Frame
<1> HIDE DEF c
<1>5. c = Hash[db[q].key]
  BY SMTT(30) DEF c
<1>6. WalkOK(own2, rank2, q)'
  <2>1. CASE db[q].pc = "walk"
    <3>1. db[q].pc \in AtChain
      BY <2>1 DEF AtChain
    <3>2. /\ Cell(own, c, db[q].ptroff) /\ db[q].offset = ReadPtr(db[q].ptroff)
          /\ \A i \in DOMAIN idx : own[i] = c /\ idx[i].key = db[q].key =>
                                      Below(rank, i, db[q].ptroff)
          /\ db[q].idxoff = 0 /\ db[q].datoff = 0
      BY <1>5, <2>1 DEF ProcOK, WalkOK
    <3>3. Cell(own2, c, db[q].ptroff) /\ ReadPtr(db[q].ptroff)' = db[q].offset
      BY <1>2, <1>4, <3>1, <3>2, SameCell
    <3>4. db[q].ptroff \in Anchor \/ rank2[db[q].ptroff] = rank[db[q].ptroff]
      BY <1>2, <3>1, <3>2 DEF Cell, SameList
    <3>5. ASSUME NEW i \in DOMAIN idx', own2[i] = c, idx'[i].key = db[q].key
          PROVE  Below(rank2, i, db[q].ptroff)
      <4>1. i \in DOMAIN idx /\ own[i] = c /\ idx'[i] = idx[i] /\ rank2[i] = rank[i]
        BY <1>1, <1>2, <3>1, <3>5 DEF SameList
      <4> QED
        BY <3>2, <3>4, <3>5, <4>1 DEF Below
    <3> QED
      BY <1>4, <1>5, <2>1, <3>2, <3>3, <3>5 DEF WalkOK
  <2>2. CASE db[q].pc = "walkfree"
    <3>1. db[q].pc \in AtFree
      BY <2>2 DEF AtFree
    <3> QED
      BY <1>3, <1>4, <2>2, <3>1, SameCell, NoAnchor DEF ProcOK, WalkOK
  <2>3. CASE db[q].pc \notin {"walk", "walkfree"}
    BY <1>4, <2>3 DEF ProcOK, WalkOK
  <2> QED
    BY <2>1, <2>2, <2>3
<1>7. FoundOK(own2, q)'
  <2>1. CASE db[q].pc \in AtFound
    <3>1. db[q].pc \in AtChain
      BY <2>1 DEF AtChain, AtFound
    <3>2. /\ db[q].idxoff \in DOMAIN idx /\ own[db[q].idxoff] = c
          /\ idx[db[q].idxoff].key = db[q].key
          /\ idx[db[q].idxoff].datoff = db[q].datoff
      BY <1>5, <2>1 DEF ProcOK, FoundOK
    <3>3. /\ db[q].idxoff \in DOMAIN idx' /\ own2[db[q].idxoff] = c
          /\ idx'[db[q].idxoff] = idx[db[q].idxoff]
      BY <1>1, <1>2, <3>1, <3>2 DEF SameList
    <3>4. ASSUME db[q].pc \in {"dodelete", "readfree", "blankidx"}
          PROVE  /\ Cell(own2, c, db[q].ptroff) /\ ReadPtr(db[q].ptroff)' = db[q].idxoff
                 /\ idx[db[q].idxoff].next = db[q].ptrval
      <4>1. /\ Cell(own, c, db[q].ptroff) /\ ReadPtr(db[q].ptroff) = db[q].idxoff
            /\ idx[db[q].idxoff].next = db[q].ptrval
        BY <1>5, <3>4 DEF ProcOK, FoundOK
      <4>2. Cell(own2, c, db[q].ptroff) /\ ReadPtr(db[q].ptroff)' = ReadPtr(db[q].ptroff)
        BY <1>2, <1>4, <3>1, <4>1, SameCell
      <4> QED
        BY <4>1, <4>2
    <3> QED
      BY <1>4, <1>5, <3>2, <3>3, <3>4 DEF FoundOK
  <2>2. CASE db[q].pc \notin AtFound
    BY <1>4, <2>2 DEF FoundOK, AtFound
  <2> QED
    BY <2>1, <2>2
<1>8. DeleteOK(own2, rank2, q)'
  <2>1. ASSUME db[q].pc \in {"tofree", "unlink"}
        PROVE  Cell(own2, c, db[q].ptroff) /\ Leads(own2, rank2, c, db[q].ptroff, db[q].ptrval)
    <3>1. db[q].pc \in AtChain
      BY <2>1 DEF AtChain
    <3>2. Cell(own, c, db[q].ptroff) /\ Leads(own, rank, c, db[q].ptroff, db[q].ptrval)
      BY <1>5, <2>1 DEF ProcOK, DeleteOK
    <3> QED
      BY <1>2, <3>1, <3>2, SameCell
  <2>2. db[q].pc \in {"blankidx", "tofree"} => head'[FREE] = head[FREE]
    BY <1>3 DEF AtFree, SameList
  <2>3. db[q].pc = "tofree" => idx'[db[q].idxoff] = idx[db[q].idxoff]
    BY DEF ProcOK, DeleteOK, Holds, Frame
  <2>4. db[q].pc \in {"readfree", "blankidx", "tofree"} =>
          dat'[db[q].datoff] = dat[db[q].datoff]
    BY DEF Frame
  <2> QED
    BY <1>4, <1>5, <2>1, <2>2, <2>3, <2>4 DEF ProcOK, DeleteOK
<1>9. StoreOK(own2, q)'
  <2>1. db[q].pc \in {"findfree", "walkfree", "writedat", "writeidx", "writeptr"} =>
          head'[c] = head[c]
    BY <1>2 DEF AtChain, SameList
  <2>2. Holds(q)' = Holds(q)
    BY <1>4 DEF Holds
  <2>3. Holds(q) => /\ db[q].idxoff \in DOMAIN idx' /\ own2[db[q].idxoff] = 0
                    /\ idx'[db[q].idxoff] = idx[db[q].idxoff]
    BY DEF Frame
  <2>4. db[q].pc = "writeptr" => Holds(q)
    BY DEF ProcOK, StoreOK, Holds
  <2>5. db[q].pc \in AtAbsent => db[q].key \notin Indexed'
    BY DEF Frame
  <2>6. db[q].pc = "writeidx" /\ db[q].idxoff = 0 =>
          \A i \in DOMAIN idx' : idx'[i].datoff # db[q].datoff
    BY DEF Frame
  <2>7. db[q].pc \in {"writeidx", "writeptr"} =>
          db[q].datoff \in DOMAIN dat' /\ dat'[db[q].datoff] = dat[db[q].datoff]
    BY DEF Frame
  <2> QED
    BY <1>4, <1>5, <2>1, <2>2, <2>3, <2>4, <2>5, <2>6, <2>7 DEF ProcOK, StoreOK
<1> QED
  BY <1>6, <1>7, <1>8, <1>9 DEF ProcOK

\* So a step is right when it is right for the process that takes it and for
\* the files.
LEMMA Conclude ==
    ASSUME IInv, NEW p \in Proc, Others(p), Grows,
           FilesOK', RecordsOK', LocksOK', HeldOnce',
           FieldsOK(p)', HasLocks(p)', CallOK(p)',
           NEW own, NEW rank, NEW max, Numbered(own, rank, max),
           NEW own2, NEW rank2, NEW max2, Numbering(own2, rank2, max2)',
           PointersOK(own2, rank2)', MembersOK(own2)', ProcOK(own2, rank2, p)',
           \A q \in Proc : q # p => Frame(own, rank, own2, rank2, q)
    PROVE  IInv'
<1>1. \A q \in Proc : FieldsOK(q)' /\ HasLocks(q)' /\ CallOK(q)'
  BY OtherOK DEF IInv, Others
<1>2. DOMAIN own2 = DOMAIN idx'
  BY DEF Numbering
<1>3. \A q \in Proc : ProcOK(own2, rank2, q)'
  BY <1>2, Stable DEF IInv, Numbered
<1>4. Numbered(own2, rank2, max2)'
  BY <1>3 DEF Numbered
<1>5. DOMAIN db' = Proc
  BY DEF Others
<1> QED
  BY <1>1, <1>4, <1>5 DEF IInv

-----------------------------------------------------------------------------
(* Steps that leave the files alone.                                       *)

\* A process that has a record has data.
LEMMA InHand ==
    ASSUME IInv, NEW own, NEW rank, NEW max, Numbered(own, rank, max), NEW q \in Proc,
           db[q].pc \in AtFound \cup {"tofree", "writeidx", "writeptr"}
    PROVE  db[q].datoff \in DOMAIN dat
<1>1. \A i \in DOMAIN idx : idx[i].datoff \in DOMAIN dat
  BY DEF IInv, FilesOK
<1> USE <1>1
<1>2. ProcOK(own, rank, q)
  BY DEF Numbered
<1> USE <1>2
<1>3. CASE db[q].pc \in AtFound
  BY <1>3 DEF ProcOK, FoundOK
<1>4. CASE db[q].pc = "tofree"
  <2>1. Holds(q)
    BY <1>4 DEF ProcOK, DeleteOK, Holds
  <2> QED
    BY <2>1 DEF ProcOK, StoreOK
<1>5. CASE db[q].pc \in {"writeidx", "writeptr"}
  BY <1>5 DEF ProcOK, StoreOK
<1> QED
  BY <1>3, <1>4, <1>5

\* A process that is not deleting does not end a detour.
LEMMA DetourStays ==
    ASSUME NEW p \in Proc, Others(p), db[p].pc \notin {"tofree", "unlink"},
           NEW x, Detour(x)
    PROVE  Detour(x)'
<1>1. PICK q \in Proc : db[q].pc \in {"tofree", "unlink"} /\ db[q].ptroff = x
  BY DEF Detour
<1> QED
  BY <1>1 DEF Detour, Others

\* A step that only reads keeps the invariant if what its process learns is true.
LEMMA Quiet ==
    ASSUME IInv, NEW p \in Proc, Others(p), UNCHANGED files, LocksOK',
           FieldsOK(p)', HasLocks(p)', CallOK(p)',
           db[p].pc \notin {"blankidx", "tofree", "unlink", "writedat", "writeidx",
                            "writeptr"},
           db[p].pc = "readfree" => db'[p].pc = "blankidx" /\ db'[p].idxoff = db[p].idxoff,
           db'[p].pc \notin {"tofree", "unlink", "writeidx", "writeptr"},
           db'[p].pc = "writedat" => db'[p].idxoff = 0,
           NEW own, NEW rank, NEW max, Numbered(own, rank, max), ProcOK(own, rank, p)'
    PROVE  IInv'
<1>1. head' = head /\ idx' = idx /\ dat' = dat
  BY DEF files
<1>2. \A q \in Proc : q # p => db'[q] = db[q]
  BY DEF Others
<1>3. Grows /\ FilesOK' /\ RecordsOK'
  BY <1>1 DEF IInv, Grows, FilesOK, RecordsOK
<1>4. ~ Holds(p) /\ ~ Holds(p)'
  BY DEF Holds
<1>5. HeldOnce'
  <2>1. \A q \in Proc : Holds(q)' => q # p /\ Holds(q)
    BY <1>2, <1>4 DEF Holds
  <2>2. \A q \in Proc : db'[q].pc = "writeidx" => q # p
    OBVIOUS
  <2> SUFFICES ASSUME NEW q \in Proc, NEW r \in Proc
               PROVE  /\ Holds(q)' /\ Holds(r)' /\ db'[q].idxoff = db'[r].idxoff => q = r
                      /\ /\ db'[q].pc = "writeidx" /\ db'[r].pc = "writeidx"
                         /\ db'[q].datoff = db'[r].datoff
                         => q = r
    BY DEF HeldOnce
  <2>3. /\ Holds(q) /\ Holds(r) /\ db[q].idxoff = db[r].idxoff => q = r
        /\ /\ db[q].pc = "writeidx" /\ db[r].pc = "writeidx"
           /\ db[q].datoff = db[r].datoff
           => q = r
    BY DEF IInv, HeldOnce
  <2> QED
    BY <1>2, <2>1, <2>2, <2>3
<1>6. Numbering(own, rank, max)'
  BY <1>1 DEF Numbered, Numbering
<1>7. PointersOK(own, rank)'
  <2>1. \A x : Detour(x) => Detour(x)'
    BY DetourStays
  <2>2. \A x : ReadPtr(x)' = ReadPtr(x)
    BY <1>1 DEF ReadPtr
  <2> QED
    BY <1>1, <2>1, <2>2 DEF Numbered, PointersOK
<1>8. MembersOK(own)'
  <2>1. ASSUME NEW i, NEW q \in Proc, db[q].pc \in {"readfree", "blankidx"}, db[q].idxoff = i
        PROVE  \E r \in Proc : db'[r].pc \in {"readfree", "blankidx"} /\ db'[r].idxoff = i
    BY <1>2, <2>1
  <2>2. ASSUME NEW i, NEW q \in Proc, Holds(q), db[q].idxoff = i
        PROVE  \E r \in Proc : Holds(r)' /\ db'[r].idxoff = i
    <3>1. q # p
      BY <1>4, <2>2
    <3> QED
      BY <1>2, <2>2, <3>1 DEF Holds
  <2> SUFFICES ASSUME NEW i \in DOMAIN idx
               PROVE  /\ own[i] # 0 => Home(idx[i]) = own[i]
                      /\ own[i] = FREE => dat[idx[i].datoff] = Blank
                      /\ own[i] \in Chain /\ dat[idx[i].datoff] = Blank =>
                            \E r \in Proc : db'[r].pc \in {"readfree", "blankidx"}
                                            /\ db'[r].idxoff = i
                      /\ own[i] = 0 => \E r \in Proc : Holds(r)' /\ db'[r].idxoff = i
    BY <1>1 DEF MembersOK, Home
  <2>3. /\ own[i] # 0 => Home(idx[i]) = own[i]
        /\ own[i] = FREE => dat[idx[i].datoff] = Blank
        /\ own[i] \in Chain /\ dat[idx[i].datoff] = Blank =>
              \E r \in Proc : db[r].pc \in {"readfree", "blankidx"} /\ db[r].idxoff = i
        /\ own[i] = 0 => \E r \in Proc : Holds(r) /\ db[r].idxoff = i
    BY DEF Numbered, MembersOK
  <2> QED
    BY <2>1, <2>2, <2>3
<1>9. ASSUME NEW q \in Proc, q # p PROVE Frame(own, rank, own, rank, q)
  <2>1. \A h \in Anchor : SameList(own, rank, own, rank, h)
    BY <1>1 DEF SameList, Numbered, Numbering
  <2>2. ProcOK(own, rank, q)
    BY DEF Numbered
  <2>3. Indexed' = Indexed
    BY <1>1 DEF Indexed
  <2>4. db[q].pc \in {"readfree", "blankidx", "tofree", "writeidx", "writeptr"} =>
          db[q].datoff \in DOMAIN dat
    BY InHand DEF AtFound
  <2> QED
    BY <1>1, <1>2, <1>9, <2>1, <2>2, <2>3, <2>4 DEF Frame, ProcOK, StoreOK
<1> QED
  BY <1>3, <1>5, <1>6, <1>7, <1>8, <1>9, Conclude

\* A process outside its calls knows and needs nothing.
LEMMA IdleOK ==
    ASSUME DOMAIN db = Proc, NEW p \in Proc, NEW n \in Nat, FilesOK',
           db' = [db EXCEPT ![p] = [Idle EXCEPT !.pos = n]]
    PROVE  /\ DOMAIN db' = Proc /\ \A q \in Proc : q # p => db'[q] = db[q]
           /\ db'[p].pc = "idle" /\ db'[p].pos = n
           /\ FieldsOK(p)' /\ HasLocks(p)' /\ CallOK(p)'
           /\ \A own, rank : ProcOK(own, rank, p)'
<1>1. /\ DOMAIN db' = Proc /\ \A q \in Proc : q # p => db'[q] = db[q]
      /\ db'[p] = [Idle EXCEPT !.pos = n]
  OBVIOUS
<1>2. /\ DOMAIN db'[p] = Field
      /\ db'[p].pc = "idle" /\ db'[p].op = "none" /\ db'[p].key = NoData
      /\ db'[p].data = NoData /\ db'[p].ptroff = FREE /\ db'[p].offset = 0
      /\ db'[p].ptrval = 0 /\ db'[p].freeptr = 0 /\ db'[p].idxoff = 0
      /\ db'[p].datoff = 0 /\ db'[p].old = NoData /\ db'[p].pos = n
  BY SMTT(30), <1>1 DEF Idle, Field
<1> USE <1>2
<1>3. 0 \in 0 .. Len(idx') /\ 0 \in 0 .. Len(dat')
  BY SMTT(30) DEF FilesOK
<1>4. FieldsOK(p)'
  BY <1>3, NoAnchor DEF FieldsOK, PC
<1>5. HasLocks(p)'
  BY DEF HasLocks, AtChain, AtFree
<1>6. CallOK(p)'
  BY DEF CallOK, AtChain
<1>7. ASSUME NEW own, NEW rank PROVE ProcOK(own, rank, p)'
  BY DEF ProcOK, WalkOK, FoundOK, DeleteOK, StoreOK, Holds, AtFound, AtAbsent
<1> QED
  BY <1>1, <1>4, <1>5, <1>6, <1>7

\* So does one that ends a call without writing.
LEMMA IdleStep ==
    ASSUME IInv, NEW p \in Proc, NEW n \in Nat, UNCHANGED files, LocksOK',
           db' = [db EXCEPT ![p] = [Idle EXCEPT !.pos = n]],
           \A q \in Proc : q # p => LocksKept(q),
           db[p].pc \notin {"readfree", "blankidx", "tofree", "unlink", "writedat",
                            "writeidx", "writeptr"}
    PROVE  IInv'
<1>1. PICK own, rank, max : Numbered(own, rank, max)
  BY DEF IInv
<1>2. FilesOK' /\ DOMAIN db = Proc
  BY DEF IInv, FilesOK, files
<1>3. /\ db'[p].pc = "idle" /\ FieldsOK(p)' /\ HasLocks(p)' /\ CallOK(p)'
      /\ ProcOK(own, rank, p)'
      /\ DOMAIN db' = Proc /\ \A q \in Proc : q # p => db'[q] = db[q]
  BY <1>2, IdleOK
<1> USE <1>3
<1>4. Others(p)
  BY DEF Others
<1>5. /\ db'[p].pc \notin {"tofree", "unlink", "writeidx", "writeptr"}
      /\ db'[p].pc # "writedat"
  OBVIOUS
<1> QED
  BY <1>1, <1>4, <1>5, Quiet

\* A cell is part of one list.
LEMMA OneList ==
    ASSUME FilesOK, NEW own, NEW rank, NEW max, Numbering(own, rank, max),
           NEW g \in Anchor, NEW h \in Anchor, NEW x, Cell(own, g, x), Cell(own, h, x)
    PROVE  g = h
<1>1. \A i \in DOMAIN idx : i \notin Anchor
  BY SMTT(30), NoAnchor DEF FilesOK
<1> QED
  BY <1>1 DEF Cell, Numbering

\* Nobody is deleting from a list that p has locked, or from the free list.
LEMMA NoDetour ==
    ASSUME IInv, NEW own, NEW rank, NEW max, Numbered(own, rank, max), NEW p \in Proc,
           NEW h \in Anchor,
           h = FREE \/ (p \in rdlock[h] \cup wrlock[h] /\ db[p].pc \notin {"tofree", "unlink"}),
           NEW x, Cell(own, h, x)
    PROVE  ~ Detour(x) /\ Leads(own, rank, h, x, ReadPtr(x))
<1>1. ASSUME NEW q \in Proc, db[q].pc \in {"tofree", "unlink"}, db[q].ptroff = x
      PROVE  FALSE
  <2>1. Cell(own, Hash[db[q].key], x)
    BY <1>1 DEF Numbered, ProcOK, DeleteOK
  <2>2. /\ Hash[db[q].key] \in Anchor /\ Hash[db[q].key] # FREE
        /\ q \in wrlock[Hash[db[q].key]]
    BY <1>1, NoAnchor DEF IInv, CallOK, HasLocks, AtChain
  <2>3. Hash[db[q].key] = h
    BY <2>1, <2>2, OneList DEF IInv, Numbered
  <2>4. p \in rdlock[h] \cup wrlock[h] => p = q
    BY <2>2, <2>3 DEF IInv, LocksOK
  <2> QED
    BY <1>1, <2>2, <2>3, <2>4
<1>2. ~ Detour(x)
  BY <1>1 DEF Detour
<1>3. x \in Anchor \cup DOMAIN idx
  BY DEF Cell, Numbered, Numbering
<1> QED
  BY <1>2, <1>3 DEF Numbered, PointersOK

\* The record of a key is on the chain that its process has locked, unless the
\* process has just written it.
LEMMA KeyOnChain ==
    ASSUME IInv, NEW own, NEW rank, NEW max, Numbered(own, rank, max), NEW p \in Proc,
           db[p].pc \in AtChain, db[p].pc # "writeptr",
           NEW i \in DOMAIN idx, idx[i].key = db[p].key
    PROVE  own[i] = Hash[db[p].key]
<1>1. /\ db[p].key \in Key /\ db[p].key # Blank /\ Hash[db[p].key] \in Anchor
      /\ p \in rdlock[Hash[db[p].key]] \cup wrlock[Hash[db[p].key]]
  BY NoAnchor, DbAssumption DEF IInv, CallOK, HasLocks, Blank
<1>2. ASSUME NEW q \in Proc, Holds(q), db[q].idxoff = i PROVE FALSE
  <2>1. idx[i].key = IF db[q].pc = "writeptr" THEN db[q].key ELSE Blank
    BY <1>2 DEF Numbered, ProcOK, StoreOK
  <2>2. db[q].pc = "writeptr" /\ db[q].key = db[p].key
    BY <1>1, <2>1
  <2>3. q \in wrlock[Hash[db[p].key]]
    BY <2>2 DEF IInv, CallOK, HasLocks, AtChain
  <2>4. p = q
    BY <1>1, <2>3 DEF IInv, LocksOK
  <2> QED
    BY <2>2, <2>4
<1>3. own[i] # 0
  BY <1>2 DEF Numbered, MembersOK
<1> QED
  BY <1>1, <1>3 DEF Numbered, MembersOK, Home

\* A key that is not indexed is in no record.
LEMMA NotIndexed ==
    ASSUME NEW k \in Key
    PROVE  k \notin Indexed <=> \A i \in DOMAIN idx : idx[i].key # k
BY DbAssumption DEF Indexed, Blank

\* A call begins.
LEMMA CallIInv ==
    ASSUME IInv, NEW p \in Proc, NEW op, NEW k \in Key, NEW d,
           Call(p, op, k, d),
           \/ op \in {"fetch", "delete"} /\ d = NoData
           \/ op \in {"insert", "replace", "store"} /\ d \in Data
    PROVE  IInv'
<1>1. PICK own, rank, max : Numbered(own, rank, max)
  BY DEF IInv
<1>2. /\ db[p].pc = "idle" /\ UNCHANGED files /\ UNCHANGED locks
      /\ db' = [db EXCEPT ![p] = [Idle EXCEPT !.pc = "find", !.op = op, !.key = k,
                                              !.data = d, !.pos = 0]]
  BY DEF Call, Ready
<1> USE <1>2
<1>3. /\ DOMAIN db' = Proc /\ \A q \in Proc : q # p => db'[q] = db[q]
      /\ db'[p] = [Idle EXCEPT !.pc = "find", !.op = op, !.key = k, !.data = d, !.pos = 0]
  BY DEF IInv
<1>4. /\ DOMAIN db'[p] = Field
      /\ db'[p].pc = "find" /\ db'[p].op = op /\ db'[p].key = k
      /\ db'[p].data = d /\ db'[p].ptroff = FREE /\ db'[p].offset = 0
      /\ db'[p].ptrval = 0 /\ db'[p].freeptr = 0 /\ db'[p].idxoff = 0
      /\ db'[p].datoff = 0 /\ db'[p].old = NoData /\ db'[p].pos = 0
  BY SMTT(30), <1>3 DEF Idle, Field
<1> USE <1>4
<1>5. 0 \in 0 .. Len(idx') /\ 0 \in 0 .. Len(dat') /\ 0 \in Nat
  BY SMTT(30) DEF IInv, FilesOK, files
<1>6. FieldsOK(p)'
  BY <1>5, NoAnchor DEF FieldsOK, PC, Update
<1>7. HasLocks(p)'
  BY DEF HasLocks, AtChain, AtFree
<1>8. CallOK(p)'
  BY DEF CallOK, AtChain, Update
<1>9. ProcOK(own, rank, p)'
  BY DEF ProcOK, WalkOK, FoundOK, DeleteOK, StoreOK, Holds, AtFound, AtAbsent
<1>10. LocksOK' /\ Others(p)
  BY <1>3, SameLocks DEF IInv, Others
<1>11. /\ db[p].pc \notin {"blankidx", "tofree", "unlink", "writedat", "writeidx",
                           "writeptr", "readfree"}
       /\ db'[p].pc \notin {"tofree", "unlink", "writeidx", "writeptr", "writedat"}
  OBVIOUS
<1> QED
  BY <1>1, <1>6, <1>7, <1>8, <1>9, <1>10, <1>11, Quiet

\* db_rewind.
LEMMA RewindIInv ==
    ASSUME IInv, NEW p \in Proc, Rewind(p)
    PROVE  IInv'
<1>1. PICK own, rank, max : Numbered(own, rank, max)
  BY DEF IInv
<1>2. /\ db[p].pc = "idle" /\ UNCHANGED files /\ UNCHANGED locks
      /\ Set(p, [pos |-> 1])
  BY DEF Rewind, Ready
<1> USE <1>2
<1>3. /\ db'[p].pc = db[p].pc /\ db'[p].op = db[p].op /\ db'[p].key = db[p].key
      /\ db'[p].data = db[p].data /\ db'[p].ptroff = db[p].ptroff
      /\ db'[p].offset = db[p].offset /\ db'[p].ptrval = db[p].ptrval
      /\ db'[p].freeptr = db[p].freeptr /\ db'[p].idxoff = db[p].idxoff
      /\ db'[p].datoff = db[p].datoff /\ db'[p].old = db[p].old /\ db'[p].pos = 1
      /\ DOMAIN db' = Proc /\ DOMAIN db'[p] = Field
      /\ \A q \in Proc : q # p => db'[q] = db[q]
  BY SMTT(30), SetFields
<1> USE <1>3
<1>4. idx' = idx /\ dat' = dat /\ 1 \in Nat
  BY SMTT(30) DEF files
<1>5. FieldsOK(p) /\ HasLocks(p) /\ CallOK(p)
  BY DEF IInv
<1> USE <1>5
<1>6. FieldsOK(p)'
  BY <1>4 DEF FieldsOK
<1>7. HasLocks(p)'
  BY DEF HasLocks, AtChain, AtFree
<1>8. CallOK(p)'
  BY DEF CallOK
<1>9. ProcOK(own, rank, p)'
  BY DEF ProcOK, WalkOK, FoundOK, DeleteOK, StoreOK, Holds, AtFound,
     AtAbsent
<1>10. LocksOK' /\ Others(p)
  BY SameLocks DEF IInv, Others
<1>11. /\ db[p].pc \notin {"blankidx", "tofree", "unlink", "writedat", "writeidx",
                           "writeptr", "readfree"}
       /\ db'[p].pc \notin {"tofree", "unlink", "writeidx", "writeptr", "writedat"}
  OBVIOUS
<1> QED
  BY <1>1, <1>6, <1>7, <1>8, <1>9, <1>10, <1>11, Quiet

\* _db_find_and_lock takes the lock and reads the head of the chain.
LEMMA FindAndLockIInv ==
    ASSUME IInv, NEW p \in Proc, FindAndLock(p)
    PROVE  IInv'
<1>1. PICK own, rank, max : Numbered(own, rank, max)
  BY DEF IInv
<1> USE <1>1
<1>2. PICK c : c = Hash[db[p].key]
  OBVIOUS
<1> USE <1>2
<1>3. /\ db[p].pc = "find" /\ UNCHANGED files
      /\ IF db[p].op = "fetch" THEN readw_lock(p, c) ELSE writew_lock(p, c)
      /\ Set(p, [pc |-> "walk", ptroff |-> c, offset |-> head[c]])
  BY DEF FindAndLock
<1> USE <1>3
<1>4. /\ db'[p].pc = "walk" /\ db'[p].op = db[p].op /\ db'[p].key = db[p].key
      /\ db'[p].data = db[p].data /\ db'[p].ptroff = c /\ db'[p].offset = head[c]
      /\ db'[p].ptrval = db[p].ptrval /\ db'[p].freeptr = db[p].freeptr
      /\ db'[p].idxoff = db[p].idxoff /\ db'[p].datoff = db[p].datoff
      /\ db'[p].old = db[p].old /\ db'[p].pos = db[p].pos
      /\ DOMAIN db' = Proc /\ DOMAIN db'[p] = Field
      /\ \A q \in Proc : q # p => db'[q] = db[q]
  BY SMTT(30), SetFields
<1> USE <1>4
<1>5. idx' = idx /\ dat' = dat /\ head' = head
  BY DEF files
<1> USE <1>5
<1>6. FieldsOK(p) /\ HasLocks(p) /\ CallOK(p) /\ ProcOK(own, rank, p)
  BY DEF IInv, Numbered
<1> USE <1>6
<1>7. c \in Anchor /\ head[c] \in 0 .. Len(idx) /\ Hash[db'[p].key] = c
  BY NoAnchor DEF CallOK, IInv, FilesOK
<1> USE <1>7
<1>8. FieldsOK(p)'
  BY DEF FieldsOK, PC, AtChain
<1>9. /\ LocksOK' /\ \A q \in Proc : LocksKept(q)
      /\ p \in IF db[p].op = "fetch" THEN rdlock'[c] ELSE wrlock'[c]
  BY ReadLock, WriteLock DEF IInv
<1> USE <1>9
<1>10. HasLocks(p)'
  BY DEF HasLocks, AtChain, AtFree
<1>11. CallOK(p)'
  BY DEF CallOK
<1>12. ProcOK(own, rank, p)'
  <2>1. WalkOK(own, rank, p)'
    BY DEF ProcOK, WalkOK, Cell, ReadPtr, Below
  <2> QED
    BY <2>1 DEF ProcOK, FoundOK, DeleteOK, StoreOK, Holds, AtFound, AtAbsent
<1>13. Others(p)
  BY DEF Others
<1>14. /\ db[p].pc \notin {"blankidx", "tofree", "unlink", "writedat", "writeidx",
                           "writeptr", "readfree"}
       /\ db'[p].pc \notin {"tofree", "unlink", "writeidx", "writeptr", "writedat"}
  OBVIOUS
<1> QED
  BY <1>8, <1>10, <1>11, <1>12, <1>13, <1>14, Quiet

\* The walk goes past another key: the rank falls, and the key is not behind.
LEMMA WalkNextIInv ==
    ASSUME IInv, NEW p \in Proc, db[p].pc = "walk", db[p].offset # 0,
           idx[db[p].offset].key # db[p].key,
           Set(p, [ptroff |-> db[p].offset, offset |-> idx[db[p].offset].next]),
           UNCHANGED files, UNCHANGED locks
    PROVE  IInv'
<1>1. PICK own, rank, max : Numbered(own, rank, max)
  BY DEF IInv
<1>2. PICK c : c = Hash[db[p].key]
  OBVIOUS
<1>3. /\ db[p].pc = "walk" /\ db[p].offset # 0 /\ idx[db[p].offset].key # db[p].key
      /\ UNCHANGED files /\ UNCHANGED locks
      /\ Set(p, [ptroff |-> db[p].offset, offset |-> idx[db[p].offset].next])
  BY <1>2 DEF files
<1>4. /\ db'[p].pc = db[p].pc /\ db'[p].op = db[p].op /\ db'[p].key = db[p].key
      /\ db'[p].data = db[p].data /\ db'[p].ptroff = db[p].offset
      /\ db'[p].offset = idx[db[p].offset].next /\ db'[p].ptrval = db[p].ptrval
      /\ db'[p].freeptr = db[p].freeptr /\ db'[p].idxoff = db[p].idxoff
      /\ db'[p].datoff = db[p].datoff /\ db'[p].old = db[p].old /\ db'[p].pos = db[p].pos
      /\ DOMAIN db' = Proc /\ DOMAIN db'[p] = Field
      /\ \A q \in Proc : q # p => db'[q] = db[q]
  BY SMTT(30), <1>3, SetFields
<1>5. idx' = idx /\ dat' = dat /\ head' = head
  BY <1>3 DEF files
<1>6. FieldsOK(p) /\ HasLocks(p) /\ CallOK(p) /\ ProcOK(own, rank, p)
  BY <1>1 DEF IInv, Numbered
<1>7. LocksOK' /\ \A q \in Proc : LocksKept(q)
  BY <1>3, SameLocks DEF IInv
<1>8. /\ c \in Anchor /\ c # FREE /\ Hash[db'[p].key] = c
      /\ db[p].offset \in DOMAIN idx /\ own[db[p].offset] = c
      /\ idx[db[p].offset].next \in 0 .. Len(idx)
      /\ db[p].offset \notin Anchor
      /\ \A i \in DOMAIN idx :
            own[i] = c /\ idx[i].key = db[p].key => rank[i] < rank[db[p].offset]
  <2>1. c \in Anchor /\ c # FREE /\ Hash[db'[p].key] = c
    BY <1>2, <1>3, <1>4, <1>6, NoAnchor DEF CallOK, AtChain
  <2>2. p \in rdlock[c] \cup wrlock[c]
    BY <1>2, <1>3, <1>6 DEF HasLocks, AtChain
  <2>3. Cell(own, c, db[p].ptroff) /\ db[p].offset = ReadPtr(db[p].ptroff)
    BY <1>2, <1>3, <1>6 DEF ProcOK, WalkOK
  <2>4. Leads(own, rank, c, db[p].ptroff, db[p].offset)
    BY <1>1, <1>3, <2>1, <2>2, <2>3, NoDetour
  <2>5. DOMAIN own = DOMAIN idx
    BY <1>1 DEF Numbered, Numbering
  <2>6. /\ db[p].offset \in DOMAIN idx /\ own[db[p].offset] = c
        /\ \A i \in DOMAIN idx : own[i] = c /\ Below(rank, i, db[p].ptroff) =>
              rank[i] <= rank[db[p].offset]
    BY <1>3, <2>4, <2>5 DEF Leads
  <2>7. ASSUME NEW i \in DOMAIN idx, own[i] = c, idx[i].key = db[p].key
        PROVE  rank[i] < rank[db[p].offset]
    <3>1. rank[i] <= rank[db[p].offset]
      BY <1>2, <1>3, <1>6, <2>6, <2>7 DEF ProcOK, WalkOK
    <3>2. i # db[p].offset
      BY <1>3, <2>7
    <3>3. rank[i] # rank[db[p].offset]
      BY <1>1, <2>6, <3>2 DEF Numbered, Numbering
    <3>4. rank[i] \in 0 .. max /\ rank[db[p].offset] \in 0 .. max
      BY <1>1, <2>6 DEF Numbered, Numbering
    <3> QED
      BY SMTT(30), <3>1, <3>3, <3>4
  <2>8. idx[db[p].offset].next \in 0 .. Len(idx) /\ db[p].offset \notin Anchor
    BY SMTT(30), <2>6, NoAnchor DEF IInv, FilesOK
  <2> QED
    BY <2>1, <2>6, <2>7, <2>8
<1>9. FieldsOK(p)'
  BY <1>4, <1>5, <1>6, <1>8 DEF FieldsOK
<1>10. HasLocks(p)'
  BY <1>3, <1>4, <1>6, <1>2, <1>7, <1>8 DEF HasLocks, LocksKept, AtChain, AtFree
<1>11. CallOK(p)'
  BY <1>4, <1>6 DEF CallOK
<1>12. ProcOK(own, rank, p)'
  <2>1. DOMAIN own = DOMAIN idx
    BY <1>1 DEF Numbered, Numbering
  <2>2. WalkOK(own, rank, p)'
    BY <1>3, <1>4, <1>5, <1>6, <1>8, <2>1 DEF ProcOK, WalkOK, Cell, ReadPtr, Below
  <2> QED
    BY <1>3, <1>4, <2>2 DEF ProcOK, FoundOK, DeleteOK, StoreOK, Holds, AtFound, AtAbsent
<1>13. Others(p)
  BY <1>4, <1>7 DEF Others
<1>14. /\ db[p].pc \notin {"blankidx", "tofree", "unlink", "writedat", "writeidx",
                           "writeptr"}
       /\ db[p].pc = "readfree" => db'[p].pc = "blankidx" /\ db'[p].idxoff = db[p].idxoff
       /\ db'[p].pc \notin {"tofree", "unlink", "writeidx", "writeptr"}
       /\ db'[p].pc = "writedat" => db'[p].idxoff = 0
  BY <1>3, <1>4, <1>6, <1>8 DEF ProcOK, WalkOK
<1> QED
  BY <1>1, <1>3, <1>7, <1>9, <1>10, <1>11, <1>12, <1>13, <1>14, Quiet

\* The walk finds its key.
LEMMA WalkFoundIInv ==
    ASSUME IInv, NEW p \in Proc, db[p].pc = "walk", db[p].offset # 0,
           idx[db[p].offset].key = db[p].key, db[p].op # "insert",
           Set(p, [pc |-> Found(p, db[p].offset), idxoff |-> db[p].offset,
                   datoff |-> idx[db[p].offset].datoff, ptrval |-> idx[db[p].offset].next]),
           UNCHANGED files, UNCHANGED locks
    PROVE  IInv'
<1>1. PICK own, rank, max : Numbered(own, rank, max)
  BY DEF IInv
<1> USE <1>1
<1>2. PICK c : c = Hash[db[p].key]
  OBVIOUS
<1> USE <1>2
<1>3. /\ db[p].pc = "walk" /\ db[p].offset # 0 /\ idx[db[p].offset].key = db[p].key
      /\ db[p].op # "insert"
      /\ UNCHANGED files /\ UNCHANGED locks
      /\ Set(p, [pc |-> Found(p, db[p].offset), idxoff |-> db[p].offset,
                 datoff |-> idx[db[p].offset].datoff, ptrval |-> idx[db[p].offset].next])
  BY DEF files
<1> USE <1>3
<1>4. /\ db'[p].pc = Found(p, db[p].offset) /\ db'[p].op = db[p].op
      /\ db'[p].key = db[p].key /\ db'[p].data = db[p].data /\ db'[p].ptroff = db[p].ptroff
      /\ db'[p].offset = db[p].offset /\ db'[p].ptrval = idx[db[p].offset].next
      /\ db'[p].freeptr = db[p].freeptr /\ db'[p].idxoff = db[p].offset
      /\ db'[p].datoff = idx[db[p].offset].datoff /\ db'[p].old = db[p].old
      /\ db'[p].pos = db[p].pos
      /\ DOMAIN db' = Proc /\ DOMAIN db'[p] = Field
      /\ \A q \in Proc : q # p => db'[q] = db[q]
  BY SMTT(30), SetFields
<1> USE <1>4
<1>5. idx' = idx /\ dat' = dat /\ head' = head
  BY DEF files
<1> USE <1>5
<1>6. FieldsOK(p) /\ HasLocks(p) /\ CallOK(p) /\ ProcOK(own, rank, p)
  BY DEF IInv, Numbered
<1> USE <1>6
<1>7. LocksOK' /\ \A q \in Proc : LocksKept(q)
  BY SameLocks DEF IInv
<1> USE <1>7
<1>8. /\ c \in Anchor /\ c # FREE /\ Hash[db'[p].key] = c
      /\ db[p].offset \in DOMAIN idx /\ own[db[p].offset] = c
      /\ idx[db[p].offset].next \in 0 .. Len(idx)
      /\ idx[db[p].offset].datoff \in 0 .. Len(dat)
      /\ \/ db'[p].pc = "readdat" /\ db[p].op = "fetch"
         \/ db'[p].pc = "dodelete" /\ db[p].op \in {"delete", "replace", "store"}
         \/ db'[p].pc = "overwrite" /\ db[p].op \in {"replace", "store"}
  <2>1. c \in Anchor /\ c # FREE /\ Hash[db'[p].key] = c
    BY NoAnchor DEF CallOK, AtChain
  <2> USE <2>1
  <2>2. p \in rdlock[c] \cup wrlock[c]
    BY DEF HasLocks, AtChain
  <2>3. Cell(own, c, db[p].ptroff) /\ db[p].offset = ReadPtr(db[p].ptroff)
    BY DEF ProcOK, WalkOK
  <2>4. Leads(own, rank, c, db[p].ptroff, db[p].offset)
    BY <2>2, <2>3, NoDetour
  <2>5. DOMAIN own = DOMAIN idx
    BY DEF Numbered, Numbering
  <2>6. db[p].offset \in DOMAIN idx /\ own[db[p].offset] = c
    BY <2>4, <2>5 DEF Leads
  <2> USE <2>6
  <2>7. idx[db[p].offset].next \in 0 .. Len(idx) /\ idx[db[p].offset].datoff \in 0 .. Len(dat)
    BY SMTT(30) DEF IInv, FilesOK
  <2>8. db[p].op \in {"fetch", "delete", "replace", "store"}
    BY DEF CallOK, AtChain, Update
  <2>9. /\ db[p].op = "fetch" => Found(p, db[p].offset) = "readdat"
        /\ db[p].op = "delete" => Found(p, db[p].offset) = "dodelete"
        /\ db[p].op \in {"replace", "store"} =>
              Found(p, db[p].offset) \in {"overwrite", "dodelete"}
    BY SMTT(30) DEF Found
  <2> QED
    BY <2>7, <2>8, <2>9
<1> USE <1>8
<1>9. FieldsOK(p)'
  BY DEF FieldsOK, PC, AtChain
<1>10. HasLocks(p)'
  BY DEF HasLocks, LocksKept, AtChain, AtFree
<1>11. CallOK(p)'
  BY DEF CallOK, AtChain
<1>12. ProcOK(own, rank, p)'
  <2>1. FoundOK(own, p)'
    <3>1. ReadPtr(db[p].ptroff)' = ReadPtr(db[p].ptroff)
      BY DEF ReadPtr
    <3>2. Cell(own, c, db[p].ptroff) /\ db[p].offset = ReadPtr(db[p].ptroff)
      BY DEF ProcOK, WalkOK
    <3> QED
      BY <3>1, <3>2 DEF FoundOK
  <2> QED
    BY <2>1 DEF ProcOK, WalkOK, DeleteOK, StoreOK, Holds, AtAbsent
<1>13. Others(p)
  BY DEF Others
<1>14. /\ db[p].pc \notin {"blankidx", "tofree", "unlink", "writedat", "writeidx",
                           "writeptr"}
       /\ db[p].pc = "readfree" => db'[p].pc = "blankidx" /\ db'[p].idxoff = db[p].idxoff
       /\ db'[p].pc \notin {"tofree", "unlink", "writeidx", "writeptr"}
       /\ db'[p].pc = "writedat" => db'[p].idxoff = 0
  BY DEF ProcOK, WalkOK
<1> QED
  BY <1>9, <1>10, <1>11, <1>12, <1>13, <1>14, Quiet

\* A process at the end of the chain has not found the key, so it is not there.
LEMMA NotOnChain ==
    ASSUME IInv, NEW p \in Proc, db[p].pc = "walk", db[p].offset = 0
    PROVE  db[p].key \in Key /\ db[p].key \notin Indexed
<1>1. PICK own, rank, max : Numbered(own, rank, max)
  BY DEF IInv
<1> USE <1>1
<1>2. PICK c : c = Hash[db[p].key]
  OBVIOUS
<1> USE <1>2
<1>3. HasLocks(p) /\ CallOK(p) /\ ProcOK(own, rank, p)
  BY DEF IInv, Numbered
<1> USE <1>3
<1>4. c \in Anchor /\ p \in rdlock[c] \cup wrlock[c]
  BY NoAnchor DEF CallOK, HasLocks, AtChain
<1>5. Cell(own, c, db[p].ptroff) /\ db[p].offset = ReadPtr(db[p].ptroff)
  BY DEF ProcOK, WalkOK
<1>6. Leads(own, rank, c, db[p].ptroff, db[p].offset)
  BY <1>4, <1>5, NoDetour
<1>7. DOMAIN own = DOMAIN idx
  BY DEF Numbered, Numbering
<1>8. db[p].key \in Key
  BY DEF CallOK, AtChain
<1>9. \A i \in DOMAIN idx : own[i] = c => ~ Below(rank, i, db[p].ptroff)
  BY <1>6, <1>7 DEF Leads
<1>10. ASSUME NEW i \in DOMAIN idx, idx[i].key = db[p].key PROVE FALSE
  <2>1. own[i] = c
    BY <1>10, KeyOnChain DEF AtChain
  <2> QED
    BY <1>9, <1>10, <2>1 DEF ProcOK, WalkOK
<1> QED
  BY <1>8, <1>10, NotIndexed

\* The end of a chain, for a store: the key is not there.
LEMMA NotFoundStoreIInv ==
    ASSUME IInv, NEW p \in Proc, db[p].pc = "walk", db[p].offset = 0,
           db[p].op \in {"insert", "store"},
           Set(p, [pc |-> "findfree", ptrval |-> head[Hash[db[p].key]]]),
           UNCHANGED files, UNCHANGED locks
    PROVE  IInv'
<1>1. PICK own, rank, max : Numbered(own, rank, max)
  BY DEF IInv
<1> USE <1>1
<1>2. PICK c : c = Hash[db[p].key]
  OBVIOUS
<1> USE <1>2
<1>3. /\ db[p].pc = "walk" /\ db[p].offset = 0 /\ db[p].op \in {"insert", "store"}
      /\ UNCHANGED files /\ UNCHANGED locks
      /\ Set(p, [pc |-> "findfree", ptrval |-> head[c]])
  BY DEF files
<1> USE <1>3
<1>4. /\ db'[p].pc = "findfree" /\ db'[p].op = db[p].op /\ db'[p].key = db[p].key
      /\ db'[p].data = db[p].data /\ db'[p].ptroff = db[p].ptroff
      /\ db'[p].offset = db[p].offset /\ db'[p].ptrval = head[c]
      /\ db'[p].freeptr = db[p].freeptr /\ db'[p].idxoff = db[p].idxoff
      /\ db'[p].datoff = db[p].datoff /\ db'[p].old = db[p].old /\ db'[p].pos = db[p].pos
      /\ DOMAIN db' = Proc /\ DOMAIN db'[p] = Field
      /\ \A q \in Proc : q # p => db'[q] = db[q]
  BY SMTT(30), SetFields
<1> USE <1>4
<1>5. idx' = idx /\ dat' = dat /\ head' = head
  BY DEF files
<1> USE <1>5
<1>6. FieldsOK(p) /\ HasLocks(p) /\ CallOK(p) /\ ProcOK(own, rank, p)
  BY DEF IInv, Numbered
<1> USE <1>6
<1>7. LocksOK' /\ \A q \in Proc : LocksKept(q)
  BY SameLocks DEF IInv
<1> USE <1>7
<1>8. /\ c \in Anchor /\ c # FREE /\ Hash[db'[p].key] = c
      /\ head[c] \in 0 .. Len(idx) /\ db[p].key \in Key
      /\ db[p].key \notin Indexed
  <2>1. c \in Anchor /\ c # FREE /\ Hash[db'[p].key] = c
    BY NoAnchor DEF CallOK, AtChain
  <2> QED
    BY <2>1, NotOnChain DEF IInv, FilesOK
<1> USE <1>8
<1>9. FieldsOK(p)'
  BY DEF FieldsOK, PC, AtChain
<1>10. HasLocks(p)'
  BY DEF HasLocks, LocksKept, AtChain, AtFree
<1>11. CallOK(p)'
  BY DEF CallOK, AtChain
<1>12. ProcOK(own, rank, p)'
  <2>1. Indexed' = Indexed
    BY DEF Indexed
  <2>2. db[p].idxoff = 0 /\ db[p].datoff = 0
    BY DEF ProcOK, WalkOK
  <2>3. StoreOK(own, p)'
    BY <2>1 DEF StoreOK, Holds
  <2> QED
    BY <2>2, <2>3 DEF ProcOK, WalkOK, FoundOK, DeleteOK, AtFound
<1>13. Others(p)
  BY DEF Others
<1>14. /\ db[p].pc \notin {"blankidx", "tofree", "unlink", "writedat", "writeidx",
                           "writeptr"}
       /\ db[p].pc = "readfree" => db'[p].pc = "blankidx" /\ db'[p].idxoff = db[p].idxoff
       /\ db'[p].pc \notin {"tofree", "unlink", "writeidx", "writeptr"}
       /\ db'[p].pc = "writedat" => db'[p].idxoff = 0
  BY DEF ProcOK, WalkOK
<1> QED
  BY <1>9, <1>10, <1>11, <1>12, <1>13, <1>14, Quiet

\* _db_dodelete has locked the free list and reads its head.
LEMMA ReadFreeIInv ==
    ASSUME IInv, NEW p \in Proc, ReadFree(p)
    PROVE  IInv'
<1>1. PICK own, rank, max : Numbered(own, rank, max)
  BY DEF IInv
<1>2. PICK c : c = Hash[db[p].key]
  OBVIOUS
<1> USE <1>2
<1>3. /\ db[p].pc = "readfree"
      /\ UNCHANGED files /\ UNCHANGED locks
      /\ Set(p, [pc |-> "blankidx", freeptr |-> head[FREE]])
  BY DEF ReadFree
<1> USE <1>3
<1>4. /\ db'[p].pc = "blankidx" /\ db'[p].op = db[p].op /\ db'[p].key = db[p].key
      /\ db'[p].data = db[p].data /\ db'[p].ptroff = db[p].ptroff
      /\ db'[p].offset = db[p].offset /\ db'[p].ptrval = db[p].ptrval
      /\ db'[p].freeptr = head[FREE] /\ db'[p].idxoff = db[p].idxoff
      /\ db'[p].datoff = db[p].datoff /\ db'[p].old = db[p].old /\ db'[p].pos = db[p].pos
      /\ DOMAIN db' = Proc /\ DOMAIN db'[p] = Field
      /\ \A q \in Proc : q # p => db'[q] = db[q]
  BY SMTT(30), SetFields
<1> USE <1>4
<1>5. idx' = idx /\ dat' = dat /\ head' = head
  BY DEF files
<1> USE <1>5
<1>6. FieldsOK(p) /\ HasLocks(p) /\ CallOK(p) /\ ProcOK(own, rank, p)
  BY <1>1 DEF IInv, Numbered
<1> USE <1>6
<1>7. LocksOK' /\ \A q \in Proc : LocksKept(q)
  BY SameLocks DEF IInv
<1> USE <1>7
<1>8. /\ c \in Anchor /\ Hash[db'[p].key] = c
      /\ head[FREE] \in 0 .. Len(idx)
  BY NoAnchor DEF CallOK, AtChain, IInv, FilesOK
<1> USE <1>8
<1>9. FieldsOK(p)'
  BY DEF FieldsOK, PC, AtChain
<1>10. HasLocks(p)'
  BY NoAnchor DEF HasLocks, LocksKept, AtChain, AtFree
<1>11. CallOK(p)'
  BY DEF CallOK, AtChain
<1>12. ProcOK(own, rank, p)'
  <2>1. FoundOK(own, p)'
    BY DEF ProcOK, FoundOK, AtFound, ReadPtr
  <2>2. DeleteOK(own, rank, p)'
    BY DEF ProcOK, DeleteOK
  <2> QED
    BY <2>1, <2>2 DEF ProcOK, WalkOK, StoreOK, Holds, AtAbsent
<1>13. Others(p)
  BY DEF Others
<1>14. /\ db[p].pc \notin {"blankidx", "tofree", "unlink", "writedat", "writeidx",
                           "writeptr"}
       /\ db[p].pc = "readfree" => db'[p].pc = "blankidx" /\ db'[p].idxoff = db[p].idxoff
       /\ db'[p].pc \notin {"tofree", "unlink", "writeidx", "writeptr"}
       /\ db'[p].pc = "writedat" => db'[p].idxoff = 0
  BY DEF ProcOK, WalkOK
<1> QED
  BY <1>1, <1>9, <1>10, <1>11, <1>12, <1>13, <1>14, Quiet

\* db_store reads the head of the chain again after it has deleted the record.
LEMMA RereadIInv ==
    ASSUME IInv, NEW p \in Proc, Reread(p)
    PROVE  IInv'
<1>1. PICK own, rank, max : Numbered(own, rank, max)
  BY DEF IInv
<1>2. PICK c : c = Hash[db[p].key]
  OBVIOUS
<1> USE <1>2
<1>3. /\ db[p].pc = "reread"
      /\ UNCHANGED files /\ UNCHANGED locks
      /\ Set(p, [pc |-> "writedat", ptrval |-> head[c]])
  BY DEF Reread
<1> USE <1>3
<1>4. /\ db'[p].pc = "writedat" /\ db'[p].op = db[p].op /\ db'[p].key = db[p].key
      /\ db'[p].data = db[p].data /\ db'[p].ptroff = db[p].ptroff
      /\ db'[p].offset = db[p].offset /\ db'[p].ptrval = head[c]
      /\ db'[p].freeptr = db[p].freeptr /\ db'[p].idxoff = db[p].idxoff
      /\ db'[p].datoff = db[p].datoff /\ db'[p].old = db[p].old /\ db'[p].pos = db[p].pos
      /\ DOMAIN db' = Proc /\ DOMAIN db'[p] = Field
      /\ \A q \in Proc : q # p => db'[q] = db[q]
  BY SMTT(30), SetFields
<1> USE <1>4
<1>5. idx' = idx /\ dat' = dat /\ head' = head
  BY DEF files
<1> USE <1>5
<1>6. FieldsOK(p) /\ HasLocks(p) /\ CallOK(p) /\ ProcOK(own, rank, p)
  BY <1>1 DEF IInv, Numbered
<1> USE <1>6
<1>7. LocksOK' /\ \A q \in Proc : LocksKept(q)
  BY SameLocks DEF IInv
<1> USE <1>7
<1>8. /\ c \in Anchor /\ Hash[db'[p].key] = c
      /\ head[c] \in 0 .. Len(idx)
  BY NoAnchor DEF CallOK, AtChain, IInv, FilesOK
<1> USE <1>8
<1>9. FieldsOK(p)'
  BY DEF FieldsOK, PC, AtChain
<1>10. HasLocks(p)'
  BY DEF HasLocks, LocksKept, AtChain, AtFree
<1>11. CallOK(p)'
  BY DEF CallOK, AtChain
<1>12. ProcOK(own, rank, p)'
  <2>1. db[p].idxoff = 0 /\ db[p].datoff = 0 /\ db[p].key \notin Indexed
    BY DEF ProcOK, WalkOK, StoreOK, AtAbsent
  <2>2. Indexed' = Indexed
    BY DEF Indexed
  <2>3. StoreOK(own, p)'
    BY <2>1, <2>2 DEF StoreOK, Holds
  <2> QED
    BY <2>1, <2>3 DEF ProcOK, WalkOK, FoundOK, DeleteOK, AtFound
<1>13. Others(p)
  BY DEF Others
<1>14. /\ db[p].pc \notin {"blankidx", "tofree", "unlink", "writedat", "writeidx",
                           "writeptr"}
       /\ db[p].pc = "readfree" => db'[p].pc = "blankidx" /\ db'[p].idxoff = db[p].idxoff
       /\ db'[p].pc \notin {"tofree", "unlink", "writeidx", "writeptr"}
       /\ db'[p].pc = "writedat" => db'[p].idxoff = 0
  BY DEF ProcOK, WalkOK
<1> QED
  BY <1>1, <1>9, <1>10, <1>11, <1>12, <1>13, <1>14, Quiet

\* _db_findfree locks the free list.
LEMMA FindFreeIInv ==
    ASSUME IInv, NEW p \in Proc, FindFree(p)
    PROVE  IInv'
<1>1. PICK own, rank, max : Numbered(own, rank, max)
  BY DEF IInv
<1> USE <1>1
<1>2. PICK c : c = Hash[db[p].key]
  OBVIOUS
<1> USE <1>2
<1>3. /\ db[p].pc = "findfree"
      /\ UNCHANGED files /\ writew_lock(p, FREE)
      /\ Set(p, [pc |-> "walkfree", ptroff |-> FREE, offset |-> head[FREE]])
  BY DEF FindFree
<1> USE <1>3
<1>4. /\ db'[p].pc = "walkfree" /\ db'[p].op = db[p].op /\ db'[p].key = db[p].key
      /\ db'[p].data = db[p].data /\ db'[p].ptroff = FREE /\ db'[p].offset = head[FREE]
      /\ db'[p].ptrval = db[p].ptrval /\ db'[p].freeptr = db[p].freeptr
      /\ db'[p].idxoff = db[p].idxoff /\ db'[p].datoff = db[p].datoff
      /\ db'[p].old = db[p].old /\ db'[p].pos = db[p].pos
      /\ DOMAIN db' = Proc /\ DOMAIN db'[p] = Field
      /\ \A q \in Proc : q # p => db'[q] = db[q]
  BY SMTT(30), SetFields
<1> USE <1>4
<1>5. idx' = idx /\ dat' = dat /\ head' = head
  BY DEF files
<1> USE <1>5
<1>6. FieldsOK(p) /\ HasLocks(p) /\ CallOK(p) /\ ProcOK(own, rank, p)
  BY DEF IInv, Numbered
<1> USE <1>6
<1>7. LocksOK' /\ p \in wrlock'[FREE] /\ \A q \in Proc : LocksKept(q)
  BY NoAnchor, WriteLock DEF IInv
<1> USE <1>7
<1>8. /\ c \in Anchor /\ Hash[db'[p].key] = c
      /\ head[FREE] \in 0 .. Len(idx)
  BY NoAnchor DEF CallOK, AtChain, IInv, FilesOK
<1> USE <1>8
<1>9. FieldsOK(p)'
  BY NoAnchor DEF FieldsOK, PC, AtChain
<1>10. HasLocks(p)'
  BY DEF HasLocks, LocksKept, AtChain, AtFree
<1>11. CallOK(p)'
  BY DEF CallOK, AtChain
<1>12. ProcOK(own, rank, p)'
  <2>1. Indexed' = Indexed
    BY DEF Indexed
  <2>2. StoreOK(own, p)'
    BY <2>1 DEF ProcOK, StoreOK, Holds, AtAbsent
  <2>3. WalkOK(own, rank, p)'
    BY NoAnchor DEF ProcOK, WalkOK, Cell, ReadPtr
  <2> QED
    BY <2>2, <2>3 DEF ProcOK, FoundOK, DeleteOK, AtFound
<1>13. Others(p)
  BY DEF Others
<1>14. /\ db[p].pc \notin {"blankidx", "tofree", "unlink", "writedat", "writeidx",
                           "writeptr"}
       /\ db[p].pc = "readfree" => db'[p].pc = "blankidx" /\ db'[p].idxoff = db[p].idxoff
       /\ db'[p].pc \notin {"tofree", "unlink", "writeidx", "writeptr"}
       /\ db'[p].pc = "writedat" => db'[p].idxoff = 0
  BY DEF ProcOK, WalkOK
<1> QED
  BY <1>9, <1>10, <1>11, <1>12, <1>13, <1>14, Quiet

\* _db_findfree goes past a record that does not fit.
LEMMA WalkFreeNextIInv ==
    ASSUME IInv, NEW p \in Proc, db[p].pc = "walkfree", db[p].offset # 0,
           Set(p, [ptroff |-> db[p].offset, offset |-> idx[db[p].offset].next]),
           UNCHANGED files, UNCHANGED locks
    PROVE  IInv'
<1>1. PICK own, rank, max : Numbered(own, rank, max)
  BY DEF IInv
<1>2. PICK c : c = Hash[db[p].key]
  OBVIOUS
<1>3. /\ db[p].pc = "walkfree" /\ db[p].offset # 0
      /\ UNCHANGED files /\ UNCHANGED locks
      /\ Set(p, [ptroff |-> db[p].offset, offset |-> idx[db[p].offset].next])
  BY <1>2 DEF files
<1>4. /\ db'[p].pc = db[p].pc /\ db'[p].op = db[p].op /\ db'[p].key = db[p].key
      /\ db'[p].data = db[p].data /\ db'[p].ptroff = db[p].offset
      /\ db'[p].offset = idx[db[p].offset].next /\ db'[p].ptrval = db[p].ptrval
      /\ db'[p].freeptr = db[p].freeptr /\ db'[p].idxoff = db[p].idxoff
      /\ db'[p].datoff = db[p].datoff /\ db'[p].old = db[p].old /\ db'[p].pos = db[p].pos
      /\ DOMAIN db' = Proc /\ DOMAIN db'[p] = Field
      /\ \A q \in Proc : q # p => db'[q] = db[q]
  BY SMTT(30), <1>3, SetFields
<1>5. idx' = idx /\ dat' = dat /\ head' = head
  BY <1>3 DEF files
<1>6. FieldsOK(p) /\ HasLocks(p) /\ CallOK(p) /\ ProcOK(own, rank, p)
  BY <1>1 DEF IInv, Numbered
<1>7. LocksOK' /\ \A q \in Proc : LocksKept(q)
  BY <1>3, SameLocks DEF IInv
<1>8. /\ c \in Anchor /\ c # FREE /\ Hash[db'[p].key] = c
      /\ db[p].offset \in DOMAIN idx /\ own[db[p].offset] = FREE
      /\ idx[db[p].offset].next \in 0 .. Len(idx)
      /\ db[p].offset \notin Anchor
  <2>1. c \in Anchor /\ c # FREE /\ Hash[db'[p].key] = c
    BY <1>2, <1>3, <1>4, <1>6, NoAnchor DEF CallOK, AtChain
  <2>2. Cell(own, FREE, db[p].ptroff) /\ db[p].offset = ReadPtr(db[p].ptroff)
    BY <1>3, <1>6 DEF ProcOK, WalkOK
  <2>3. Leads(own, rank, FREE, db[p].ptroff, db[p].offset)
    BY <1>1, <1>3, <2>2, NoAnchor, NoDetour
  <2>4. DOMAIN own = DOMAIN idx
    BY <1>1 DEF Numbered, Numbering
  <2>5. db[p].offset \in DOMAIN idx /\ own[db[p].offset] = FREE
    BY <1>3, <2>3, <2>4 DEF Leads
  <2>6. idx[db[p].offset].next \in 0 .. Len(idx) /\ db[p].offset \notin Anchor
    BY SMTT(30), <2>5, NoAnchor DEF IInv, FilesOK
  <2> QED
    BY <2>1, <2>5, <2>6
<1>9. FieldsOK(p)'
  BY <1>4, <1>5, <1>6, <1>8 DEF FieldsOK
<1>10. HasLocks(p)'
  BY <1>2, <1>3, <1>4, <1>6, <1>7, <1>8, NoAnchor DEF HasLocks, LocksKept, AtChain, AtFree
<1>11. CallOK(p)'
  BY <1>4, <1>6 DEF CallOK
<1>12. ProcOK(own, rank, p)'
  <2>1. Indexed' = Indexed
    BY <1>5 DEF Indexed
  <2>2. StoreOK(own, p)'
    BY <1>3, <1>4, <1>5, <1>6, <2>1 DEF ProcOK, StoreOK, Holds, AtAbsent
  <2>3. DOMAIN own = DOMAIN idx
    BY <1>1 DEF Numbered, Numbering
  <2>4. WalkOK(own, rank, p)'
    BY <1>3, <1>4, <1>5, <1>6, <1>8, <2>3 DEF ProcOK, WalkOK, Cell, ReadPtr
  <2> QED
    BY <1>3, <1>4, <2>2, <2>4 DEF ProcOK, FoundOK, DeleteOK, AtFound
<1>13. Others(p)
  BY <1>4, <1>7 DEF Others
<1>14. /\ db[p].pc \notin {"blankidx", "tofree", "unlink", "writedat", "writeidx",
                           "writeptr"}
       /\ db[p].pc = "readfree" => db'[p].pc = "blankidx" /\ db'[p].idxoff = db[p].idxoff
       /\ db'[p].pc \notin {"tofree", "unlink", "writeidx", "writeptr"}
       /\ db'[p].pc = "writedat" => db'[p].idxoff = 0
  BY <1>3, <1>4, <1>6, <1>8 DEF ProcOK, WalkOK
<1> QED
  BY <1>1, <1>3, <1>7, <1>9, <1>10, <1>11, <1>12, <1>13, <1>14, Quiet

\* _db_findfree finds none.
LEMMA NoFreeIInv ==
    ASSUME IInv, NEW p \in Proc, NoFree(p)
    PROVE  IInv'
<1>1. PICK own, rank, max : Numbered(own, rank, max)
  BY DEF IInv
<1> USE <1>1
<1>2. PICK c : c = Hash[db[p].key]
  OBVIOUS
<1> USE <1>2
<1>3. /\ db[p].pc = "walkfree"
      /\ UNCHANGED files /\ un_lock(p, FREE)
      /\ Set(p, [pc |-> "writedat"])
  BY DEF NoFree
<1> USE <1>3
<1>4. /\ db'[p].pc = "writedat" /\ db'[p].op = db[p].op /\ db'[p].key = db[p].key
      /\ db'[p].data = db[p].data /\ db'[p].ptroff = db[p].ptroff
      /\ db'[p].offset = db[p].offset /\ db'[p].ptrval = db[p].ptrval
      /\ db'[p].freeptr = db[p].freeptr /\ db'[p].idxoff = db[p].idxoff
      /\ db'[p].datoff = db[p].datoff /\ db'[p].old = db[p].old /\ db'[p].pos = db[p].pos
      /\ DOMAIN db' = Proc /\ DOMAIN db'[p] = Field
      /\ \A q \in Proc : q # p => db'[q] = db[q]
  BY SMTT(30), SetFields
<1> USE <1>4
<1>5. idx' = idx /\ dat' = dat /\ head' = head
  BY DEF files
<1> USE <1>5
<1>6. FieldsOK(p) /\ HasLocks(p) /\ CallOK(p) /\ ProcOK(own, rank, p)
  BY DEF IInv, Numbered
<1> USE <1>6
<1>7. /\ LocksOK' /\ \A q \in Proc : q # p => LocksKept(q)
      /\ \A g \in Anchor : g # FREE /\ p \in wrlock[g] => p \in wrlock'[g]
  BY NoAnchor, UnLock DEF IInv
<1> USE <1>7
<1>8. /\ c \in Anchor /\ c # FREE /\ Hash[db'[p].key] = c /\ db[p].op # "fetch"
  BY NoAnchor DEF CallOK, AtChain
<1> USE <1>8
<1>9. FieldsOK(p)'
  BY DEF FieldsOK, PC, AtChain
<1>10. HasLocks(p)'
  BY DEF HasLocks, AtChain, AtFree
<1>11. CallOK(p)'
  BY DEF CallOK, AtChain
<1>12. ProcOK(own, rank, p)'
  <2>1. Indexed' = Indexed
    BY DEF Indexed
  <2>2. db[p].idxoff = 0 /\ db[p].datoff = 0
    BY DEF ProcOK, WalkOK
  <2>3. StoreOK(own, p)'
    BY <2>1, <2>2 DEF ProcOK, StoreOK, Holds, AtAbsent
  <2> QED
    BY <2>3 DEF ProcOK, WalkOK, FoundOK, DeleteOK, AtFound
<1>13. Others(p)
  BY DEF Others
<1>14. /\ db[p].pc \notin {"blankidx", "tofree", "unlink", "writedat", "writeidx",
                           "writeptr"}
       /\ db[p].pc = "readfree" => db'[p].pc = "blankidx" /\ db'[p].idxoff = db[p].idxoff
       /\ db'[p].pc \notin {"tofree", "unlink", "writeidx", "writeptr"}
       /\ db'[p].pc = "writedat" => db'[p].idxoff = 0
  BY DEF ProcOK, WalkOK
<1> QED
  BY <1>9, <1>10, <1>11, <1>12, <1>13, <1>14, Quiet

\* db_nextrec locks the free list.
LEMMA NextrecIInv ==
    ASSUME IInv, NEW p \in Proc, Nextrec(p)
    PROVE  IInv'
<1>1. PICK own, rank, max : Numbered(own, rank, max)
  BY DEF IInv
<1> USE <1>1
<1>2. PICK c : c = Hash[db[p].key]
  OBVIOUS
<1>3. /\ db[p].pc = "idle" /\ db[p].pos # 0
      /\ UNCHANGED files /\ readw_lock(p, FREE)
      /\ Set(p, [pc |-> "nextidx", op |-> "nextrec"])
  BY <1>2 DEF Nextrec, Ready
<1> USE <1>3
<1>4. /\ db'[p].pc = "nextidx" /\ db'[p].op = "nextrec" /\ db'[p].key = db[p].key
      /\ db'[p].data = db[p].data /\ db'[p].ptroff = db[p].ptroff
      /\ db'[p].offset = db[p].offset /\ db'[p].ptrval = db[p].ptrval
      /\ db'[p].freeptr = db[p].freeptr /\ db'[p].idxoff = db[p].idxoff
      /\ db'[p].datoff = db[p].datoff /\ db'[p].old = db[p].old /\ db'[p].pos = db[p].pos
      /\ DOMAIN db' = Proc /\ DOMAIN db'[p] = Field
      /\ \A q \in Proc : q # p => db'[q] = db[q]
  BY SMTT(30), SetFields
<1> USE <1>4
<1>5. idx' = idx /\ dat' = dat /\ head' = head
  BY DEF files
<1>6. FieldsOK(p) /\ HasLocks(p) /\ CallOK(p) /\ ProcOK(own, rank, p)
  BY DEF IInv, Numbered
<1> USE <1>6
<1>7. LocksOK' /\ p \in rdlock'[FREE] /\ \A q \in Proc : LocksKept(q)
  BY NoAnchor, ReadLock DEF IInv
<1> USE <1>7
<1>8. db[p].data = NoData /\ db[p].key = NoData /\ db[p].old = NoData
  BY DEF CallOK
<1> USE <1>8
<1>9. FieldsOK(p)'
  BY <1>5 DEF FieldsOK, PC
<1>10. HasLocks(p)'
  BY DEF HasLocks, AtChain, AtFree
<1>11. CallOK(p)'
  BY DEF CallOK, AtChain
<1>12. ProcOK(own, rank, p)'
  BY DEF ProcOK, WalkOK, FoundOK, DeleteOK, StoreOK, Holds, AtFound, AtAbsent
<1>13. Others(p)
  BY DEF Others
<1>14. /\ db[p].pc \notin {"blankidx", "tofree", "unlink", "writedat", "writeidx",
                           "writeptr"}
       /\ db[p].pc = "readfree" => db'[p].pc = "blankidx" /\ db'[p].idxoff = db[p].idxoff
       /\ db'[p].pc \notin {"tofree", "unlink", "writeidx", "writeptr"}
       /\ db'[p].pc = "writedat" => db'[p].idxoff = 0
  BY DEF ProcOK, WalkOK
<1> QED
  BY <1>9, <1>10, <1>11, <1>12, <1>13, <1>14, Quiet

\* db_nextrec reads the next index record.
LEMMA NextIdxReadIInv ==
    ASSUME IInv, NEW p \in Proc, db[p].pc = "nextidx", db[p].pos \in DOMAIN idx,
           Set(p, [pos |-> db[p].pos + 1, key |-> idx[db[p].pos].key,
                   datoff |-> idx[db[p].pos].datoff,
                   pc |-> IF idx[db[p].pos].key = Blank THEN "nextidx" ELSE "nextdat"]),
           UNCHANGED files, UNCHANGED locks
    PROVE  IInv'
<1>1. PICK own, rank, max : Numbered(own, rank, max)
  BY DEF IInv
<1>2. PICK c : c = Hash[db[p].key]
  OBVIOUS
<1>3. /\ db[p].pc = "nextidx" /\ db[p].pos \in DOMAIN idx
      /\ UNCHANGED files /\ UNCHANGED locks
      /\ Set(p, [pos |-> db[p].pos + 1, key |-> idx[db[p].pos].key,
                 datoff |-> idx[db[p].pos].datoff,
                 pc |-> IF idx[db[p].pos].key = Blank THEN "nextidx" ELSE "nextdat"])
  BY <1>2 DEF files
<1>4. /\ db'[p].pc = IF idx[db[p].pos].key = Blank THEN "nextidx" ELSE "nextdat"
      /\ db'[p].op = db[p].op /\ db'[p].key = idx[db[p].pos].key /\ db'[p].data = db[p].data
      /\ db'[p].ptroff = db[p].ptroff /\ db'[p].offset = db[p].offset
      /\ db'[p].ptrval = db[p].ptrval /\ db'[p].freeptr = db[p].freeptr
      /\ db'[p].idxoff = db[p].idxoff /\ db'[p].datoff = idx[db[p].pos].datoff
      /\ db'[p].old = db[p].old /\ db'[p].pos = db[p].pos + 1
      /\ DOMAIN db' = Proc /\ DOMAIN db'[p] = Field
      /\ \A q \in Proc : q # p => db'[q] = db[q]
  BY SMTT(30), <1>3, SetFields
<1>5. idx' = idx /\ dat' = dat /\ head' = head
  BY <1>3 DEF files
<1>6. FieldsOK(p) /\ HasLocks(p) /\ CallOK(p) /\ ProcOK(own, rank, p)
  BY <1>1 DEF IInv, Numbered
<1>7. LocksOK' /\ \A q \in Proc : LocksKept(q)
  BY <1>3, SameLocks DEF IInv
<1>8. /\ idx[db[p].pos].key \in Key \cup {Blank}
      /\ idx[db[p].pos].datoff \in 0 .. Len(dat) /\ db[p].pos + 1 \in Nat
      /\ db[p].pos + 1 # 0 /\ db'[p].pc \in {"nextidx", "nextdat"}
      /\ db'[p].pc = "nextidx" <=> idx[db[p].pos].key = Blank
  <2>1. idx[db[p].pos] \in Record
    BY SMTT(30), <1>3 DEF IInv, FilesOK
  <2>2. idx[db[p].pos].key \in Key \cup {Blank}
    BY SMTT(30), <2>1 DEF Record
  <2>3. idx[db[p].pos].datoff \in 0 .. Len(dat)
    BY SMTT(30), <1>3 DEF IInv, FilesOK
  <2>4. db[p].pos + 1 \in Nat /\ db[p].pos + 1 # 0
    BY SMTT(30), <1>6 DEF FieldsOK
  <2> QED
    BY <1>4, <2>2, <2>3, <2>4
<1>9. FieldsOK(p)'
  BY <1>4, <1>5, <1>6, <1>8 DEF FieldsOK, PC, Blank
<1>10. HasLocks(p)'
  BY <1>3, <1>4, <1>6, <1>7, <1>8, NoAnchor DEF HasLocks, LocksKept, AtChain, AtFree
<1>11. CallOK(p)'
  BY <1>3, <1>4, <1>6, <1>8 DEF CallOK, AtChain, Blank
<1>12. ProcOK(own, rank, p)'
  BY <1>4, <1>8 DEF ProcOK, WalkOK, FoundOK, DeleteOK, StoreOK, Holds, AtFound,
     AtAbsent
<1>13. Others(p)
  BY <1>4, <1>7 DEF Others
<1>14. /\ db[p].pc \notin {"blankidx", "tofree", "unlink", "writedat", "writeidx",
                           "writeptr"}
       /\ db[p].pc = "readfree" => db'[p].pc = "blankidx" /\ db'[p].idxoff = db[p].idxoff
       /\ db'[p].pc \notin {"tofree", "unlink", "writeidx", "writeptr"}
       /\ db'[p].pc = "writedat" => db'[p].idxoff = 0
  BY <1>3, <1>4, <1>6, <1>8 DEF ProcOK, WalkOK
<1> QED
  BY <1>1, <1>3, <1>7, <1>9, <1>10, <1>11, <1>12, <1>13, <1>14, Quiet

\* The record of a new key.
NewRecord(p) == [key |-> db[p].key, keylen |-> KeyLen[db[p].key], datoff |-> db[p].datoff,
                 datlen |-> DatLen[db[p].data], next |-> db[p].ptrval]

\* What db_store writes is an index record that fits the files.
LEMMA NewRecordOK ==
    ASSUME IInv, NEW p \in Proc, db[p].pc = "writeidx", NEW r, r = NewRecord(p)
    PROVE  /\ r \in Record /\ r.key = db[p].key /\ r.datoff = db[p].datoff
           /\ r.next = db[p].ptrval /\ r.next \in 0 .. Len(idx)
<1>1. FieldsOK(p) /\ CallOK(p) /\ FilesOK
  BY DEF IInv
<1>2. db[p].key \in Key /\ db[p].data \in Data /\ db[p].ptrval \in 0 .. Len(idx)
      /\ db[p].datoff \in 0 .. Len(dat)
  BY <1>1 DEF CallOK, FieldsOK, AtChain
<1> USE <1>2
<1>3. db[p].ptrval \in Nat /\ db[p].datoff \in Nat
  BY SMTT(30), <1>1 DEF FilesOK
<1>4. KeyLen[db[p].key] \in Nat /\ DatLen[db[p].data] \in Nat
  BY DbAssumption
<1> QED
  BY SMTT(30), <1>3, <1>4 DEF NewRecord, Record

=============================================================================
