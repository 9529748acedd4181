---------------------------- MODULE DbStepProofs ----------------------------
(***************************************************************************)
(* Proofs about Db, second part: the steps that write the files keep the   *)
(* invariant IInv, so it holds in all reachable states.                    *)
(***************************************************************************)
EXTENDS DbLemmas

\* Almost every leaf is a matter of logic, not of arithmetic.
USE ZenonT(40)

-----------------------------------------------------------------------------
(* Steps that write the data file.                                         *)

\* A numbering in the terms of the lemmas above.
LEMMA NumberingRanked ==
    ASSUME FilesOK, NEW own, NEW rank, NEW max, Numbering(own, rank, max)
    PROVE  /\ Ranked(DOMAIN idx, own, rank) /\ max \in Nat
           /\ \A i \in DOMAIN idx : rank[i] <= max
<1>1. \A i \in 0 .. max : i \in Nat /\ i <= max
  BY SMTT(30) DEF Numbering
<1>2. DOMAIN idx \subseteq Nat \ {0}
  BY SMTT(30) DEF FilesOK
<1> QED
  BY <1>1, <1>2 DEF Numbering, Ranked

\* A process with a record: one it has found, or one of its own.
HasRecord(p) == db[p].pc \in AtFound \/ Holds(p)

\* Two processes of which one updates have different records and different data.
LEMMA RecordsApart ==
    ASSUME IInv, NEW own, NEW rank, NEW max, Numbered(own, rank, max),
           NEW p \in Proc, NEW q \in Proc, p # q, HasRecord(p), HasRecord(q),
           db[p].pc # "readdat"
    PROVE  /\ db[p].idxoff \in DOMAIN idx /\ db[q].idxoff \in DOMAIN idx
           /\ db[p].idxoff # db[q].idxoff
           /\ idx[db[p].idxoff].datoff = db[p].datoff
           /\ idx[db[q].idxoff].datoff = db[q].datoff
           /\ db[p].datoff # db[q].datoff
<1>1. ProcOK(own, rank, p) /\ ProcOK(own, rank, q)
  BY DEF Numbered
<1>2. ASSUME NEW r \in Proc, db[r].pc \in AtFound
      PROVE  /\ own[db[r].idxoff] = Hash[db[r].key] /\ Hash[db[r].key] \in Anchor
             /\ Hash[db[r].key] # 0
             /\ r \in rdlock[Hash[db[r].key]] \cup wrlock[Hash[db[r].key]]
             /\ db[r].pc # "readdat" => r \in wrlock[Hash[db[r].key]]
  <2>1. db[r].pc \in AtChain
    BY <1>2 DEF AtFound, AtChain
  <2>2. FieldsOK(r) /\ HasLocks(r) /\ CallOK(r) /\ ProcOK(own, rank, r)
    BY DEF IInv, Numbered
  <2>3. db[r].pc # "readdat" => db[r].op # "fetch"
    BY <1>2, <2>2 DEF CallOK, AtFound
  <2> QED
    BY <1>2, <2>1, <2>2, <2>3, NoAnchor DEF CallOK, HasLocks, ProcOK, FoundOK
<1>3. ASSUME NEW r \in Proc, Holds(r) PROVE own[db[r].idxoff] = 0
  BY <1>3 DEF Numbered, ProcOK, StoreOK
<1>4. /\ db[p].idxoff \in DOMAIN idx /\ db[q].idxoff \in DOMAIN idx
      /\ idx[db[p].idxoff].datoff = db[p].datoff
      /\ idx[db[q].idxoff].datoff = db[q].datoff
  BY <1>1 DEF HasRecord, ProcOK, FoundOK, StoreOK
<1>5. db[p].idxoff # db[q].idxoff
  <2> SUFFICES ASSUME db[p].idxoff = db[q].idxoff PROVE FALSE
    BY SMTT(30)
  <2>1. CASE db[p].pc \in AtFound /\ db[q].pc \in AtFound
    <3>1. Hash[db[p].key] = Hash[db[q].key]
      BY <1>2, <2>1
    <3> QED
      BY <1>2, <2>1, <3>1 DEF IInv, LocksOK
  <2>2. CASE Holds(p) /\ Holds(q)
    BY <2>2 DEF IInv, HeldOnce
  <2> QED
    BY <1>2, <1>3, <2>1, <2>2 DEF HasRecord
<1>6. db[p].datoff # db[q].datoff
  BY <1>4, <1>5 DEF IInv, RecordsOK
<1> QED
  BY <1>4, <1>5, <1>6

\* What one process writes in the data file is not what another one counts on.
LEMMA DataApart ==
    ASSUME IInv, NEW own, NEW rank, NEW max, Numbered(own, rank, max),
           NEW p \in Proc, NEW q \in Proc, p # q, HasRecord(p), db[p].pc # "readdat",
           db[q].pc \in {"readfree", "blankidx", "tofree", "writeidx", "writeptr"}
    PROVE  db[q].datoff \in DOMAIN dat /\ db[p].datoff # db[q].datoff
<1>1. ProcOK(own, rank, p) /\ ProcOK(own, rank, q)
  BY DEF Numbered
<1> USE <1>1
<1>2. db[q].datoff \in DOMAIN dat
  BY InHand DEF AtFound
<1>3. CASE db[q].pc = "writeidx" /\ db[q].idxoff = 0
  <2>1. db[p].idxoff \in DOMAIN idx /\ idx[db[p].idxoff].datoff = db[p].datoff
    BY DEF HasRecord, ProcOK, FoundOK, StoreOK
  <2> QED
    BY <1>2, <1>3, <2>1 DEF ProcOK, StoreOK
<1>4. CASE HasRecord(q)
  BY <1>2, <1>4, RecordsApart
<1>5. HasRecord(q) \/ (db[q].pc = "writeidx" /\ db[q].idxoff = 0)
  BY DEF HasRecord, AtFound, Holds, ProcOK, DeleteOK, StoreOK
<1> QED
  BY <1>3, <1>4, <1>5

\* The index file stays as it is.
LEMMA DataFrame ==
    ASSUME NEW own, NEW rank, NEW max, Numbered(own, rank, max), NEW q \in Proc,
           head' = head, idx' = idx, db'[q] = db[q],
           db[q].pc \in {"readfree", "blankidx", "tofree", "writeidx", "writeptr"} =>
              db[q].datoff \in DOMAIN dat' /\ dat'[db[q].datoff] = dat[db[q].datoff]
    PROVE  Frame(own, rank, own, rank, q)
<1>1. \A h \in Anchor : SameList(own, rank, own, rank, h)
  BY DEF SameList, Numbered, Numbering
<1>2. ProcOK(own, rank, q)
  BY DEF Numbered
<1>3. Indexed' = Indexed
  BY DEF Indexed
<1> QED
  BY <1>1, <1>2, <1>3 DEF Frame, ProcOK, StoreOK

\* A step that changes only the data file.
LEMMA DataStep ==
    ASSUME IInv, NEW p \in Proc, Others(p), Grows, FilesOK', LocksOK', HeldOnce',
           head' = head, idx' = idx, db[p].pc \notin {"tofree", "unlink"},
           FieldsOK(p)', HasLocks(p)', CallOK(p)',
           NEW own, NEW rank, NEW max, Numbered(own, rank, max),
           MembersOK(own)', ProcOK(own, rank, p)',
           \A q \in Proc : q # p =>
              (db[q].pc \in {"readfree", "blankidx", "tofree", "writeidx", "writeptr"} =>
                 db[q].datoff \in DOMAIN dat' /\ dat'[db[q].datoff] = dat[db[q].datoff])
    PROVE  IInv'
<1>1. RecordsOK'
  BY DEF IInv, RecordsOK
<1>2. Numbering(own, rank, max)'
  BY DEF Numbered, Numbering
<1>3. PointersOK(own, rank)'
  <2>1. \A x : Detour(x) => Detour(x)'
    BY DetourStays
  <2>2. \A x : ReadPtr(x)' = ReadPtr(x)
    BY DEF ReadPtr
  <2> QED
    BY <2>1, <2>2 DEF Numbered, PointersOK
<1>4. ASSUME NEW q \in Proc, q # p PROVE Frame(own, rank, own, rank, q)
  <2>1. db'[q] = db[q]
    BY <1>4 DEF Others
  <2> QED
    BY <1>4, <2>1, DataFrame
<1> QED
  BY <1>1, <1>2, <1>3, <1>4, Conclude

\* The data of one record is written.
LEMMA DataWritten ==
    ASSUME FilesOK, NEW i \in DOMAIN dat, NEW d \in Data \cup {Blank},
           dat' = [dat EXCEPT ![i] = d], UNCHANGED <<head, idx>>
    PROVE  /\ FilesOK' /\ Grows /\ DOMAIN dat' = DOMAIN dat /\ dat'[i] = d
           /\ \A j \in DOMAIN dat : j # i => dat'[j] = dat[j]
<1>1. /\ dat' \in Seq(Data \cup {Blank}) /\ Len(dat') = Len(dat) /\ DOMAIN dat' = DOMAIN dat
      /\ dat'[i] = d /\ \A j \in DOMAIN dat : j # i => dat'[j] = dat[j]
  BY SMTT(30) DEF FilesOK
<1> QED
  BY <1>1 DEF FilesOK, Grows

\* _db_dodelete blanks the data.
LEMMA BlankDatIInv ==
    ASSUME IInv, NEW p \in Proc, BlankDat(p)
    PROVE  IInv'
<1>1. PICK own, rank, max : Numbered(own, rank, max)
  BY DEF IInv
<1> USE <1>1
<1>2. PICK c : c = Hash[db[p].key]
  OBVIOUS
<1>3. /\ db[p].pc = "dodelete" /\ head' = head /\ idx' = idx /\ writew_lock(p, FREE)
      /\ dat' = [dat EXCEPT ![db[p].datoff] = Blank]
      /\ Set(p, [pc |-> "readfree", old |-> dat[db[p].datoff]])
  BY DEF BlankDat
<1> USE <1>3
<1>4. /\ db'[p].pc = "readfree" /\ db'[p].op = db[p].op /\ db'[p].key = db[p].key
      /\ db'[p].data = db[p].data /\ db'[p].ptroff = db[p].ptroff
      /\ db'[p].offset = db[p].offset /\ db'[p].ptrval = db[p].ptrval
      /\ db'[p].freeptr = db[p].freeptr /\ db'[p].idxoff = db[p].idxoff
      /\ db'[p].datoff = db[p].datoff /\ db'[p].old = dat[db[p].datoff]
      /\ db'[p].pos = db[p].pos
      /\ DOMAIN db' = Proc /\ DOMAIN db'[p] = Field
      /\ \A q \in Proc : q # p => db'[q] = db[q]
  BY SMTT(30), SetFields
<1>5. FieldsOK(p) /\ HasLocks(p) /\ CallOK(p) /\ ProcOK(own, rank, p)
  BY DEF IInv, Numbered
<1>6. /\ c \in Anchor /\ c \in Chain /\ Hash[db'[p].key] = c /\ p \in wrlock[c]
      /\ db[p].idxoff \in DOMAIN idx /\ own[db[p].idxoff] = c
      /\ idx[db[p].idxoff].datoff = db[p].datoff
  BY <1>2, <1>4, <1>5, NoAnchor DEF CallOK, HasLocks, AtChain, ProcOK, FoundOK,
     AtFound
<1>7. db[p].datoff \in DOMAIN dat
  BY <1>6 DEF IInv, FilesOK
<1>8. /\ FilesOK' /\ Grows /\ DOMAIN dat' = DOMAIN dat /\ dat'[db[p].datoff] = Blank
      /\ \A j \in DOMAIN dat : j # db[p].datoff => dat'[j] = dat[j]
  BY <1>7, DataWritten DEF IInv
<1>9. dat[db[p].datoff] \in Data
  <2>1. dat[db[p].datoff] \in Data \cup {Blank}
    BY SMTT(30), <1>7 DEF IInv, FilesOK
  <2>2. ASSUME NEW q \in Proc, db[q].pc \in {"readfree", "blankidx"},
               db[q].idxoff = db[p].idxoff
        PROVE  FALSE
    <3>1. HasRecord(p) /\ HasRecord(q) /\ p # q
      BY <2>2 DEF HasRecord, AtFound
    <3> QED
      BY <2>2, <3>1, RecordsApart
  <2>3. dat[db[p].datoff] # Blank
    <3>1. MembersOK(own)
      BY DEF Numbered
    <3>2. own[db[p].idxoff] \in Chain
      BY <1>6
    <3>3. dat[idx[db[p].idxoff].datoff] = Blank =>
            \E q \in Proc : db[q].pc \in {"readfree", "blankidx"}
                            /\ db[q].idxoff = db[p].idxoff
      BY <1>6, <3>1, <3>2 DEF MembersOK
    <3> QED
      BY <1>6, <2>2, <3>3
  <2> QED
    BY <2>1, <2>3
<1>10. LocksOK' /\ p \in wrlock'[FREE] /\ \A q \in Proc : LocksKept(q)
  BY NoAnchor, WriteLock DEF IInv
<1>11. FieldsOK(p)'
  BY <1>4, <1>5, <1>8, <1>9 DEF FieldsOK, PC, AtChain, Grows
<1>12. HasLocks(p)'
  BY <1>4, <1>6, <1>5, <1>10 DEF HasLocks, LocksKept, AtChain, AtFree, CallOK
<1>13. CallOK(p)'
  <2>1. dat[db[p].datoff] # NoData
    BY <1>9, DbAssumption
  <2> QED
    BY <1>4, <1>5, <2>1 DEF CallOK, AtChain
<1>14. ProcOK(own, rank, p)'
  <2>1. FoundOK(own, p)'
    BY <1>4, <1>5 DEF ProcOK, FoundOK, AtFound, ReadPtr
  <2>2. DeleteOK(own, rank, p)'
    BY <1>4, <1>8 DEF DeleteOK
  <2> QED
    BY <1>4, <2>1, <2>2 DEF ProcOK, WalkOK, StoreOK, Holds, AtAbsent
<1>15. Others(p)
  BY <1>4, <1>10 DEF Others
<1>16. \A q \in Proc : (Holds(q)' <=> Holds(q)) /\ db'[q].idxoff = db[q].idxoff
  BY <1>4 DEF Holds
<1>17. HeldOnce'
  <2>1. \A q \in Proc : db'[q].pc = "writeidx" =>
          db[q].pc = "writeidx" /\ db'[q].datoff = db[q].datoff
    BY <1>4
  <2> SUFFICES ASSUME NEW q \in Proc, NEW r \in Proc
               PROVE  /\ Holds(q)' /\ Holds(r)' /\ db'[q].idxoff = db'[r].idxoff => q = r
                      /\ /\ db'[q].pc = "writeidx" /\ db'[r].pc = "writeidx"
                         /\ db'[q].datoff = db'[r].datoff
                         => q = r
    BY DEF HeldOnce
  <2>2. /\ Holds(q) /\ Holds(r) /\ db[q].idxoff = db[r].idxoff => q = r
        /\ /\ db[q].pc = "writeidx" /\ db[r].pc = "writeidx"
           /\ db[q].datoff = db[r].datoff
           => q = r
    BY DEF IInv, HeldOnce
  <2> QED
    BY <1>16, <2>1, <2>2
<1>18. MembersOK(own)'
  <2> SUFFICES ASSUME NEW i \in DOMAIN idx
               PROVE  /\ own[i] # 0 => Home(idx[i]) = own[i]
                      /\ own[i] = FREE => dat'[idx[i].datoff] = Blank
                      /\ own[i] \in Chain /\ dat'[idx[i].datoff] = Blank =>
                            \E r \in Proc : db'[r].pc \in {"readfree", "blankidx"}
                                            /\ db'[r].idxoff = i
                      /\ own[i] = 0 => \E r \in Proc : Holds(r)' /\ db'[r].idxoff = i
    BY DEF MembersOK, Home
  <2>1. /\ own[i] # 0 => Home(idx[i]) = own[i]
        /\ own[i] = FREE => dat[idx[i].datoff] = Blank
        /\ own[i] \in Chain /\ dat[idx[i].datoff] = Blank =>
              \E r \in Proc : db[r].pc \in {"readfree", "blankidx"} /\ db[r].idxoff = i
        /\ own[i] = 0 => \E r \in Proc : Holds(r) /\ db[r].idxoff = i
    BY DEF Numbered, MembersOK
  <2>2. idx[i].datoff \in DOMAIN dat
    BY DEF IInv, FilesOK
  <2>3. CASE i = db[p].idxoff
    BY <1>4, <1>6, <1>8, <1>16, <2>1, <2>3
  <2>4. CASE i # db[p].idxoff
    <3>1. idx[i].datoff # db[p].datoff
      BY <1>6, <2>4 DEF IInv, RecordsOK
    <3>2. dat'[idx[i].datoff] = dat[idx[i].datoff]
      BY <1>8, <2>2, <3>1
    <3> QED
      BY <1>4, <1>16, <2>1, <3>2
  <2> QED
    BY <2>3, <2>4
<1>19. ASSUME NEW q \in Proc, q # p,
              db[q].pc \in {"readfree", "blankidx", "tofree", "writeidx", "writeptr"}
       PROVE  db[q].datoff \in DOMAIN dat' /\ dat'[db[q].datoff] = dat[db[q].datoff]
  <2>1. HasRecord(p) /\ db[p].pc # "readdat"
    BY DEF HasRecord, AtFound
  <2> QED
    BY <1>8, <1>19, <2>1, DataApart
<1>20. db[p].pc \notin {"tofree", "unlink"}
  OBVIOUS
<1> QED
  BY <1>8, <1>10, <1>11, <1>12, <1>13, <1>14, <1>15, <1>17, <1>18, <1>19,
     <1>20, DataStep

\* Data that is not blank goes into a record that is not free.
LEMMA MembersData ==
    ASSUME IInv, NEW p \in Proc, Others(p), NEW own, MembersOK(own),
           NEW i0 \in DOMAIN idx, own[i0] # FREE, NEW d \in Data, NEW j, j = idx[i0].datoff,
           dat' = [dat EXCEPT ![j] = d], head' = head, idx' = idx,
           db[p].pc \notin {"readfree", "blankidx"},
           Holds(p) => Holds(p)' /\ db'[p].idxoff = db[p].idxoff
    PROVE  MembersOK(own)'
<1>1. d # Blank
  BY DbAssumption DEF Blank
<1>2. /\ j \in DOMAIN dat /\ dat'[j] = d
      /\ \A k \in DOMAIN dat : k # j => dat'[k] = dat[k]
  BY DEF IInv, FilesOK
<1>3. ASSUME NEW i, NEW q \in Proc, db[q].pc \in {"readfree", "blankidx"}, db[q].idxoff = i
      PROVE  \E r \in Proc : db'[r].pc \in {"readfree", "blankidx"} /\ db'[r].idxoff = i
  BY <1>3 DEF Others
<1>4. ASSUME NEW i, NEW q \in Proc, Holds(q), db[q].idxoff = i
      PROVE  \E r \in Proc : Holds(r)' /\ db'[r].idxoff = i
  <2>1. CASE q = p
    BY <1>4, <2>1
  <2>2. CASE q # p
    BY <1>4, <2>2 DEF Holds, Others
  <2> QED
    BY <2>1, <2>2
<1> SUFFICES ASSUME NEW i \in DOMAIN idx'
             PROVE  (/\ own[i] # 0 => Home(idx[i]) = own[i]
                     /\ own[i] = FREE => dat[idx[i].datoff] = Blank
                     /\ own[i] \in Chain /\ dat[idx[i].datoff] = Blank =>
                           \E r \in Proc : db[r].pc \in {"readfree", "blankidx"}
                                           /\ db[r].idxoff = i
                     /\ own[i] = 0 => \E r \in Proc : Holds(r) /\ db[r].idxoff = i)'
  BY DEF MembersOK
<1>0. i \in DOMAIN idx
  OBVIOUS
<1> USE <1>0
<1>5. /\ own[i] # 0 => Home(idx[i]) = own[i]
      /\ own[i] = FREE => dat[idx[i].datoff] = Blank
      /\ own[i] \in Chain /\ dat[idx[i].datoff] = Blank =>
            \E r \in Proc : db[r].pc \in {"readfree", "blankidx"} /\ db[r].idxoff = i
      /\ own[i] = 0 => \E r \in Proc : Holds(r) /\ db[r].idxoff = i
  BY DEF MembersOK
<1>6. idx[i].datoff \in DOMAIN dat /\ Home(idx'[i]) = Home(idx[i])
  BY DEF IInv, FilesOK
<1> USE <1>6
<1>7. CASE i = i0
  BY <1>1, <1>2, <1>4, <1>5, <1>7
<1>8. CASE i # i0
  <2>1. idx[i].datoff # j
    BY <1>8 DEF IInv, RecordsOK
  <2>2. dat'[idx[i].datoff] = dat[idx[i].datoff]
    BY <1>2, <2>1
  <2> QED
    BY <1>3, <1>4, <1>5, <2>2
<1> QED
  BY <1>7, <1>8

\* db_store writes over data of the same length.
LEMMA OverwriteIInv ==
    ASSUME IInv, NEW p \in Proc, Overwrite(p)
    PROVE  IInv'
<1>1. PICK own, rank, max : Numbered(own, rank, max)
  BY DEF IInv
<1>2. PICK c : c = Hash[db[p].key]
  OBVIOUS
<1>3. /\ db[p].pc = "overwrite" /\ head' = head /\ idx' = idx /\ un_lock(p, c)
      /\ dat' = [dat EXCEPT ![db[p].datoff] = db[p].data]
      /\ db' = [db EXCEPT ![p] = [Idle EXCEPT !.pos = 0]]
  BY <1>2 DEF Overwrite, Return
<1>4. FieldsOK(p) /\ HasLocks(p) /\ CallOK(p) /\ ProcOK(own, rank, p)
  BY <1>1 DEF IInv, Numbered
<1>5. /\ c \in Anchor /\ c \in Chain /\ c # FREE /\ db[p].data \in Data
      /\ db[p].idxoff \in DOMAIN idx /\ own[db[p].idxoff] = c
      /\ idx[db[p].idxoff].datoff = db[p].datoff
  BY <1>2, <1>3, <1>4, NoAnchor DEF CallOK, AtChain, ProcOK, FoundOK, AtFound
<1>6. db[p].datoff \in DOMAIN dat
  BY <1>5 DEF IInv, FilesOK
<1>7. /\ FilesOK' /\ Grows /\ DOMAIN dat' = DOMAIN dat
      /\ \A j \in DOMAIN dat : j # db[p].datoff => dat'[j] = dat[j]
  BY <1>3, <1>5, <1>6, DataWritten DEF IInv
<1>8. /\ db'[p].pc = "idle" /\ FieldsOK(p)' /\ HasLocks(p)' /\ CallOK(p)'
      /\ ProcOK(own, rank, p)'
      /\ DOMAIN db' = Proc /\ \A q \in Proc : q # p => db'[q] = db[q]
  <2>1. 0 \in Nat /\ DOMAIN db = Proc
    BY SMTT(30) DEF IInv
  <2> QED
    BY <1>3, <1>7, <2>1, IdleOK
<1>9. LocksOK' /\ \A q \in Proc : q # p => LocksKept(q)
  BY <1>3, <1>5, UnLock DEF IInv
<1>10. Others(p)
  BY <1>8, <1>9 DEF Others
<1>11. ~ Holds(p) /\ ~ Holds(p)' /\ db'[p].pc # "writeidx"
  BY <1>3, <1>8 DEF Holds
<1>12. HeldOnce'
  <2>1. \A q \in Proc : (Holds(q)' => q # p /\ Holds(q)) /\ (db'[q].pc = "writeidx" => q # p)
    BY <1>8, <1>11 DEF Holds
  <2> SUFFICES ASSUME NEW q \in Proc, NEW r \in Proc
               PROVE  /\ Holds(q)' /\ Holds(r)' /\ db'[q].idxoff = db'[r].idxoff => q = r
                      /\ /\ db'[q].pc = "writeidx" /\ db'[r].pc = "writeidx"
                         /\ db'[q].datoff = db'[r].datoff
                         => q = r
    BY DEF HeldOnce
  <2>2. /\ Holds(q) /\ Holds(r) /\ db[q].idxoff = db[r].idxoff => q = r
        /\ /\ db[q].pc = "writeidx" /\ db[r].pc = "writeidx"
           /\ db[q].datoff = db[r].datoff
           => q = r
    BY DEF IInv, HeldOnce
  <2> QED
    BY <1>8, <2>1, <2>2
<1>13. MembersOK(own)'
  <2>1. MembersOK(own) /\ own[db[p].idxoff] # FREE /\ db[p].pc \notin {"readfree", "blankidx"}
    BY <1>1, <1>3, <1>5 DEF Numbered
  <2> QED
    BY <1>3, <1>5, <1>10, <1>11, <2>1, MembersData
<1>14. ASSUME NEW q \in Proc, q # p,
              db[q].pc \in {"readfree", "blankidx", "tofree", "writeidx", "writeptr"}
       PROVE  db[q].datoff \in DOMAIN dat' /\ dat'[db[q].datoff] = dat[db[q].datoff]
  <2>1. HasRecord(p) /\ db[p].pc # "readdat"
    BY <1>3 DEF HasRecord, AtFound
  <2> QED
    BY <1>1, <1>7, <1>14, <2>1, DataApart
<1>15. db[p].pc \notin {"tofree", "unlink"}
  BY <1>3
<1> QED
  BY <1>1, <1>3, <1>7, <1>8, <1>9, <1>10, <1>12, <1>13, <1>14, <1>15, DataStep

\* db_store writes the data of a reused record,
LEMMA WriteDatOverIInv ==
    ASSUME IInv, NEW p \in Proc, WriteDat(p), db[p].datoff # 0
    PROVE  IInv'
<1>1. PICK own, rank, max : Numbered(own, rank, max)
  BY DEF IInv
<1>3. /\ db[p].pc = "writedat" /\ head' = head /\ idx' = idx /\ UNCHANGED locks
      /\ dat' = [dat EXCEPT ![db[p].datoff] = db[p].data]
      /\ Set(p, [pc |-> "writeidx"])
  BY DEF WriteDat
<1> USE <1>3
<1>4. /\ db'[p].pc = "writeidx" /\ db'[p].op = db[p].op /\ db'[p].key = db[p].key
      /\ db'[p].data = db[p].data /\ db'[p].ptroff = db[p].ptroff
      /\ db'[p].offset = db[p].offset /\ db'[p].ptrval = db[p].ptrval
      /\ db'[p].freeptr = db[p].freeptr /\ db'[p].idxoff = db[p].idxoff
      /\ db'[p].datoff = db[p].datoff /\ db'[p].old = db[p].old /\ db'[p].pos = db[p].pos
      /\ DOMAIN db' = Proc /\ DOMAIN db'[p] = Field
      /\ \A q \in Proc : q # p => db'[q] = db[q]
  BY SMTT(30), SetFields
<1>5. FieldsOK(p) /\ HasLocks(p) /\ CallOK(p) /\ ProcOK(own, rank, p)
  BY <1>1 DEF IInv, Numbered
<1> USE <1>5
<1>6. Holds(p) /\ Holds(p)' /\ HasRecord(p)
  BY <1>4 DEF ProcOK, StoreOK, Holds, HasRecord
<1>7. /\ db[p].data \in Data /\ db[p].idxoff \in DOMAIN idx /\ own[db[p].idxoff] = 0
      /\ idx[db[p].idxoff].datoff = db[p].datoff /\ own[db[p].idxoff] # FREE
  BY <1>6, NoAnchor DEF CallOK, ProcOK, StoreOK
<1>8. db[p].datoff \in DOMAIN dat
  BY <1>7 DEF IInv, FilesOK
<1>9. /\ FilesOK' /\ Grows /\ DOMAIN dat' = DOMAIN dat /\ dat'[db[p].datoff] = db[p].data
      /\ \A j \in DOMAIN dat : j # db[p].datoff => dat'[j] = dat[j]
  BY <1>7, <1>8, DataWritten DEF IInv
<1>10. LocksOK' /\ \A q \in Proc : LocksKept(q)
  BY SameLocks DEF IInv
<1>11. FieldsOK(p)'
  BY <1>4, <1>9 DEF FieldsOK, PC, AtChain, Grows
<1>12. HasLocks(p)'
  BY <1>4, <1>10, NoAnchor DEF HasLocks, LocksKept, AtChain, AtFree, CallOK
<1>13. CallOK(p)'
  BY <1>4 DEF CallOK, AtChain
<1>14. ProcOK(own, rank, p)'
  <2>1. Indexed' = Indexed
    BY DEF Indexed
  <2>2. StoreOK(own, p)'
    BY <1>4, <1>6, <1>7, <1>8, <1>9, <2>1 DEF ProcOK, StoreOK, AtAbsent, Holds
  <2> QED
    BY <1>4, <2>2 DEF ProcOK, WalkOK, FoundOK, DeleteOK, AtFound
<1>15. Others(p)
  BY <1>4, <1>10 DEF Others
<1>16. ASSUME NEW q \in Proc, q # p,
              db[q].pc \in {"readfree", "blankidx", "tofree", "writeidx", "writeptr"}
       PROVE  /\ db[q].datoff # db[p].datoff
              /\ db[q].datoff \in DOMAIN dat' /\ dat'[db[q].datoff] = dat[db[q].datoff]
  <2>1. db[p].pc # "readdat"
    OBVIOUS
  <2> QED
    BY <1>1, <1>6, <1>9, <1>16, <2>1, DataApart
<1>17. HeldOnce'
  <2>1. \A q \in Proc : /\ (Holds(q)' <=> Holds(q)) /\ db'[q].idxoff = db[q].idxoff
                        /\ db'[q].datoff = db[q].datoff
                        /\ db'[q].pc = "writeidx" => q = p \/ db[q].pc = "writeidx"
    BY <1>4, <1>6 DEF Holds
  <2> SUFFICES ASSUME NEW q \in Proc, NEW r \in Proc
               PROVE  /\ Holds(q)' /\ Holds(r)' /\ db'[q].idxoff = db'[r].idxoff => q = r
                      /\ /\ db'[q].pc = "writeidx" /\ db'[r].pc = "writeidx"
                         /\ db'[q].datoff = db'[r].datoff
                         => q = r
    BY DEF HeldOnce
  <2>2. /\ Holds(q) /\ Holds(r) /\ db[q].idxoff = db[r].idxoff => q = r
        /\ /\ db[q].pc = "writeidx" /\ db[r].pc = "writeidx"
           /\ db[q].datoff = db[r].datoff
           => q = r
    BY DEF IInv, HeldOnce
  <2>3. \A s \in Proc : s # p /\ db[s].pc = "writeidx" => db[s].datoff # db[p].datoff
    BY <1>16
  <2> QED
    BY <2>1, <2>2, <2>3
<1>18. MembersOK(own)'
  <2>1. MembersOK(own) /\ db[p].pc \notin {"readfree", "blankidx"}
    BY <1>1 DEF Numbered
  <2> QED
    BY <1>4, <1>6, <1>7, <1>15, <2>1, MembersData
<1>19. db[p].pc \notin {"tofree", "unlink"}
  OBVIOUS
<1> QED
  BY <1>1, <1>9, <1>10, <1>11, <1>12, <1>13, <1>14, <1>15, <1>16, <1>17, <1>18,
     <1>19, DataStep

\* ... or appends data.
LEMMA WriteDatNewIInv ==
    ASSUME IInv, NEW p \in Proc, WriteDat(p), db[p].datoff = 0
    PROVE  IInv'
<1>1. PICK own, rank, max : Numbered(own, rank, max)
  BY DEF IInv
<1>2. PICK n : n = Len(dat) + 1
  OBVIOUS
<1>3. /\ db[p].pc = "writedat" /\ head' = head /\ idx' = idx /\ UNCHANGED locks
      /\ dat' = Append(dat, db[p].data)
      /\ Set(p, [pc |-> "writeidx", datoff |-> n])
  BY <1>2 DEF WriteDat
<1> USE <1>3
<1>4. /\ db'[p].pc = "writeidx" /\ db'[p].op = db[p].op /\ db'[p].key = db[p].key
      /\ db'[p].data = db[p].data /\ db'[p].ptroff = db[p].ptroff
      /\ db'[p].offset = db[p].offset /\ db'[p].ptrval = db[p].ptrval
      /\ db'[p].freeptr = db[p].freeptr /\ db'[p].idxoff = db[p].idxoff /\ db'[p].datoff = n
      /\ db'[p].old = db[p].old /\ db'[p].pos = db[p].pos
      /\ DOMAIN db' = Proc /\ DOMAIN db'[p] = Field
      /\ \A q \in Proc : q # p => db'[q] = db[q]
  BY SMTT(30), SetFields
<1> USE <1>4
<1>5. FieldsOK(p) /\ HasLocks(p) /\ CallOK(p) /\ ProcOK(own, rank, p)
  BY <1>1 DEF IInv, Numbered
<1> USE <1>5
<1>6. db[p].data \in Data
  BY DEF CallOK
<1>7. /\ dat' \in Seq(Data \cup {Blank}) /\ n \in DOMAIN dat' /\ n \in 0 .. Len(dat')
      /\ dat'[n] = db[p].data /\ 0 \notin DOMAIN dat
      /\ 0 .. Len(dat) \subseteq 0 .. Len(dat') /\ DOMAIN dat \subseteq DOMAIN dat'
      /\ \A j \in DOMAIN dat : dat'[j] = dat[j] /\ j # n
      /\ \A j \in 0 .. Len(dat) : j # n
  <2>1. dat \in Seq(Data \cup {Blank})
    BY DEF IInv, FilesOK
  <2> QED
    BY SMTT(30), <1>2, <1>6, <2>1
<1>8. FilesOK' /\ Grows
  <2>1. FilesOK
    BY DEF IInv
  <2> QED
    BY <1>7, <2>1 DEF FilesOK, Grows
<1>9. db[p].idxoff = 0 /\ ~ Holds(p) /\ ~ Holds(p)'
  <2>1. \A i \in DOMAIN idx : idx[i].datoff # 0
    BY <1>7 DEF IInv, FilesOK
  <2>2. db[p].idxoff = 0
    BY <2>1 DEF Holds, ProcOK, StoreOK
  <2> QED
    BY <2>2 DEF Holds
<1>10. LocksOK' /\ \A q \in Proc : LocksKept(q)
  BY SameLocks DEF IInv
<1>11. FieldsOK(p)'
  BY <1>7, <1>8 DEF FieldsOK, PC, AtChain, Grows
<1>12. HasLocks(p)'
  BY <1>10, NoAnchor DEF HasLocks, LocksKept, AtChain, AtFree, CallOK
<1>13. CallOK(p)'
  BY DEF CallOK, AtChain
<1>14. ProcOK(own, rank, p)'
  <2>1. Indexed' = Indexed
    BY DEF Indexed
  <2>2. \A i \in DOMAIN idx : idx[i].datoff # n
    BY <1>7 DEF IInv, FilesOK
  <2>3. StoreOK(own, p)'
    BY <1>7, <1>9, <2>1, <2>2 DEF ProcOK, StoreOK, AtAbsent
  <2> QED
    BY <2>3 DEF ProcOK, WalkOK, FoundOK, DeleteOK, AtFound
<1>15. Others(p)
  BY <1>10 DEF Others
<1>16. ASSUME NEW q \in Proc, q # p,
              db[q].pc \in {"readfree", "blankidx", "tofree", "writeidx", "writeptr"}
       PROVE  db[q].datoff \in DOMAIN dat' /\ dat'[db[q].datoff] = dat[db[q].datoff]
  <2>1. db[q].datoff \in DOMAIN dat
    BY <1>1, <1>16, InHand DEF AtFound
  <2> QED
    BY <1>7, <2>1
<1>17. HeldOnce'
  <2>1. \A q \in Proc : /\ Holds(q)' => q # p /\ Holds(q)
                        /\ db'[q].pc = "writeidx" => q = p \/ db[q].pc = "writeidx"
    BY <1>9 DEF Holds
  <2> SUFFICES ASSUME NEW q \in Proc, NEW r \in Proc
               PROVE  /\ Holds(q)' /\ Holds(r)' /\ db'[q].idxoff = db'[r].idxoff => q = r
                      /\ /\ db'[q].pc = "writeidx" /\ db'[r].pc = "writeidx"
                         /\ db'[q].datoff = db'[r].datoff
                         => q = r
    BY DEF HeldOnce
  <2>2. /\ Holds(q) /\ Holds(r) /\ db[q].idxoff = db[r].idxoff => q = r
        /\ /\ db[q].pc = "writeidx" /\ db[r].pc = "writeidx"
           /\ db[q].datoff = db[r].datoff
           => q = r
    BY DEF IInv, HeldOnce
  <2>3. \A s \in Proc : db[s].datoff # n
    BY <1>7 DEF IInv, FieldsOK
  <2> QED
    BY <2>1, <2>2, <2>3
<1>18. MembersOK(own)'
  <2>1. ASSUME NEW i, NEW q \in Proc, db[q].pc \in {"readfree", "blankidx"}, db[q].idxoff = i
        PROVE  \E r \in Proc : db'[r].pc \in {"readfree", "blankidx"} /\ db'[r].idxoff = i
    BY <2>1
  <2>2. ASSUME NEW i, NEW q \in Proc, Holds(q), db[q].idxoff = i
        PROVE  \E r \in Proc : Holds(r)' /\ db'[r].idxoff = i
    <3>1. q # p
      BY <1>9, <2>2
    <3> QED
      BY <2>2, <3>1 DEF Holds
  <2> SUFFICES ASSUME NEW i \in DOMAIN idx
               PROVE  /\ own[i] # 0 => Home(idx[i]) = own[i]
                      /\ own[i] = FREE => dat'[idx[i].datoff] = Blank
                      /\ own[i] \in Chain /\ dat'[idx[i].datoff] = Blank =>
                            \E r \in Proc : db'[r].pc \in {"readfree", "blankidx"}
                                            /\ db'[r].idxoff = i
                      /\ own[i] = 0 => \E r \in Proc : Holds(r)' /\ db'[r].idxoff = i
    BY DEF MembersOK, Home
  <2>3. /\ own[i] # 0 => Home(idx[i]) = own[i]
        /\ own[i] = FREE => dat[idx[i].datoff] = Blank
        /\ own[i] \in Chain /\ dat[idx[i].datoff] = Blank =>
              \E r \in Proc : db[r].pc \in {"readfree", "blankidx"} /\ db[r].idxoff = i
        /\ own[i] = 0 => \E r \in Proc : Holds(r) /\ db[r].idxoff = i
    BY <1>1 DEF Numbered, MembersOK
  <2>4. dat'[idx[i].datoff] = dat[idx[i].datoff]
    BY <1>7 DEF IInv, FilesOK
  <2> QED
    BY <2>1, <2>2, <2>3, <2>4
<1>19. db[p].pc \notin {"tofree", "unlink"}
  OBVIOUS
<1> QED
  BY <1>1, <1>8, <1>10, <1>11, <1>12, <1>13, <1>14, <1>15, <1>16, <1>17, <1>18,
     <1>19, DataStep

-----------------------------------------------------------------------------
(* Steps that write the index file.                                        *)

\* A pointer changes and nothing else.
LEMMA PointerWritten ==
    ASSUME FilesOK, NEW x \in Anchor \cup DOMAIN idx, NEW v \in 0 .. Len(idx),
           WritePtr(x, v), dat' = dat
    PROVE  /\ FilesOK' /\ Grows /\ DOMAIN idx' = DOMAIN idx /\ ReadPtr(x)' = v
           /\ \A y \in Anchor \cup DOMAIN idx : y # x => ReadPtr(y)' = ReadPtr(y)
           /\ \A h \in Anchor : h # x => head'[h] = head[h]
           /\ \A i \in DOMAIN idx : i # x => idx'[i] = idx[i]
           /\ \A i \in DOMAIN idx : idx'[i].key = idx[i].key /\ idx'[i].datoff = idx[i].datoff
<1>1. \A i \in DOMAIN idx : i \notin Anchor
  BY SMTT(30), NoAnchor DEF FilesOK
<1> USE <1>1
<1>2. CASE x \in Anchor
  <2>1. /\ head' = [head EXCEPT ![x] = v] /\ idx' = idx
    BY <1>2 DEF WritePtr
  <2>2. /\ head' \in [Anchor -> 0 .. Len(idx)] /\ head'[x] = v
        /\ \A h \in Anchor : h # x => head'[h] = head[h]
    BY <1>2, <2>1 DEF FilesOK
  <2> QED
    BY <1>2, <2>1, <2>2 DEF FilesOK, Grows, ReadPtr
<1>3. CASE x \in DOMAIN idx
  <2>1. head' = head /\ idx' = [idx EXCEPT ![x].next = v]
    BY <1>3 DEF WritePtr
  <2> USE <2>1
  <2>2. idx \in Seq(Record) /\ v \in Nat
    BY SMTT(30) DEF FilesOK
  <2> USE <2>2
  <2>3. idx[x] \in Record
    BY SMTT(30), <1>3
  <2>4. /\ [idx[x] EXCEPT !.next = v] \in Record /\ [idx[x] EXCEPT !.next = v].next = v
        /\ [idx[x] EXCEPT !.next = v].key = idx[x].key
        /\ [idx[x] EXCEPT !.next = v].datoff = idx[x].datoff
    BY <2>3 DEF Record
  <2> DEFINE r == [idx[x] EXCEPT !.next = v]
  <2>5. idx' = [idx EXCEPT ![x] = r]
    OBVIOUS
  <2>6. r \in Record /\ r.next = v /\ r.key = idx[x].key /\ r.datoff = idx[x].datoff
    BY <2>4
  <2> HIDE DEF r
  <2>7. /\ idx' \in Seq(Record) /\ DOMAIN idx' = DOMAIN idx /\ Len(idx') = Len(idx)
        /\ idx'[x] = r /\ \A i \in DOMAIN idx : i # x => idx'[i] = idx[i]
    BY SMTT(30), <1>3, <2>5, <2>6
  <2> USE <2>7
  <2>8. /\ idx'[x].next = v /\ idx'[x].key = idx[x].key /\ idx'[x].datoff = idx[x].datoff
    BY <2>6
  <2> USE <2>8
  <2>9. \A i \in DOMAIN idx : idx'[i].key = idx[i].key /\ idx'[i].datoff = idx[i].datoff
    OBVIOUS
  <2>10. \A i \in DOMAIN idx' : idx'[i].next \in 0 .. Len(idx') /\ idx'[i].datoff \in DOMAIN dat
    BY <2>9 DEF FilesOK
  <2>11. FilesOK' /\ Grows
    BY <2>10 DEF FilesOK, Grows
  <2>12. ReadPtr(x)' = v /\ \A y \in Anchor \cup DOMAIN idx : y # x => ReadPtr(y)' = ReadPtr(y)
    BY <1>3 DEF ReadPtr
  <2> QED
    BY <1>3, <2>9, <2>11, <2>12
<1> QED
  BY <1>2, <1>3

\* A step that keeps keys and offsets keeps the records different.
LEMMA RecordsSame ==
    ASSUME RecordsOK, DOMAIN idx' = DOMAIN idx,
           \A i \in DOMAIN idx : idx'[i].key = idx[i].key /\ idx'[i].datoff = idx[i].datoff
    PROVE  RecordsOK' /\ Indexed' = Indexed
<1>1. RecordsOK'
  BY DEF RecordsOK
<1>2. \A k : k \in Indexed' <=> k \in Indexed
  BY DEF Indexed
<1> QED
  BY <1>1, <1>2

\* A record is written.
LEMMA RecordWritten ==
    ASSUME FilesOK, NEW i \in DOMAIN idx, NEW r \in Record, r.next \in 0 .. Len(idx),
           r.datoff \in DOMAIN dat, idx' = [idx EXCEPT ![i] = r], UNCHANGED <<head, dat>>
    PROVE  /\ FilesOK' /\ Grows /\ DOMAIN idx' = DOMAIN idx /\ idx'[i] = r
           /\ \A j \in DOMAIN idx : j # i => idx'[j] = idx[j]
           /\ \A y \in Anchor \cup DOMAIN idx : y # i => ReadPtr(y)' = ReadPtr(y)
<1>1. idx \in Seq(Record) /\ \A j \in DOMAIN idx : j \notin Anchor
  BY Numbers DEF FilesOK
<1>2. /\ idx' \in Seq(Record) /\ DOMAIN idx' = DOMAIN idx /\ Len(idx') = Len(idx)
      /\ idx'[i] = r /\ \A j \in DOMAIN idx : j # i => idx'[j] = idx[j]
  BY SMTT(30), <1>1
<1> USE <1>2
<1>3. FilesOK' /\ Grows
  BY DEF FilesOK, Grows
<1>4. \A y \in Anchor \cup DOMAIN idx : y # i => ReadPtr(y)' = ReadPtr(y)
  BY <1>1 DEF ReadPtr
<1> QED
  BY <1>3, <1>4

\* Record i, to which cell x0 points and which points to j, leaves list h.
Leaves(own, rank, h, i, x0, j) ==
    /\ h \in Anchor /\ i \in DOMAIN idx /\ own[i] = h /\ Cell(own, h, x0)
    /\ Leads(own, rank, h, x0, i) /\ Leads(own, rank, h, i, j)
    /\ DOMAIN idx' = DOMAIN idx
    /\ \A x \in Anchor \cup DOMAIN idx : x # i /\ x # x0 => ReadPtr(x)' = ReadPtr(x)
    /\ \A x : Detour(x) => Detour(x)'
    /\ Detour(x0)' \/ ReadPtr(x0)' = j

\* After a record has left, the others are numbered as before.
LEMMA SkipPointers ==
    ASSUME IInv, NEW own, NEW rank, NEW max, Numbered(own, rank, max),
           NEW h, NEW i, NEW x0, NEW j, Leaves(own, rank, h, i, x0, j),
           NEW own2, own2 = [own EXCEPT ![i] = 0]
    PROVE  /\ Numbering(own2, rank, max)' /\ PointersOK(own2, rank)'
           /\ Cell(own2, h, x0) /\ Leads(own2, rank, h, x0, j) /\ x0 # i
<1> USE DEF Leaves
<1>1. Numbering(own, rank, max) /\ FilesOK
  BY DEF IInv, Numbered
<1> USE <1>1
<1>2. Ranked(DOMAIN idx, own, rank) /\ DOMAIN own = DOMAIN idx
  BY NumberingRanked DEF Numbering
<1> USE <1>2
<1>3. i # 0 /\ i \notin Anchor
  BY SMTT(30), NoAnchor DEF FilesOK
<1> USE <1>3
<1>4. own2[i] = 0 /\ DOMAIN own2 = DOMAIN idx /\ \A k \in DOMAIN idx : k # i => own2[k] = own[k]
  OBVIOUS
<1>5. own2 \in [DOMAIN idx -> Anchor \cup {0}]
  BY DEF Numbering
<1>6. Numbering(own2, rank, max)'
  BY <1>5 DEF Numbering
<1>7. x0 \in Anchor \cup DOMAIN idx
  BY DEF Cell
<1>8. Leads(own2, rank, h, x0, j)
  BY <1>7, Skip
<1>9. x0 # i
  <2>1. x0 = i => rank[i] < rank[i]
    BY DEF Leads, Below
  <2>2. rank[i] \in Nat
    BY DEF Ranked
  <2> QED
    BY SMTT(30), <2>1, <2>2
<1>10. Cell(own2, h, x0)
  BY <1>4, <1>9 DEF Cell
<1>11. ASSUME NEW g \in Anchor, NEW x \in Anchor \cup DOMAIN idx', Cell(own2, g, x)
       PROVE  Detour(x)' \/ Leads(own2, rank, g, x, ReadPtr(x)')
  <2>1. x # i /\ Cell(own, g, x) /\ x \in Anchor \cup DOMAIN idx
    BY <1>4, <1>11, NoAnchor DEF Cell
  <2> USE <2>1
  <2>2. CASE x = x0
    <3>1. g = h
      BY <2>2, OneList
    <3> QED
      BY <1>8, <2>2, <3>1
  <2>3. CASE x # x0
    <3>1. ReadPtr(x)' = ReadPtr(x)
      BY <2>3
    <3>2. Detour(x) \/ Leads(own, rank, g, x, ReadPtr(x))
      BY DEF Numbered, PointersOK
    <3>3. ASSUME Leads(own, rank, g, x, ReadPtr(x)) PROVE ReadPtr(x) # i
      <4> SUFFICES ASSUME ReadPtr(x) = i PROVE FALSE
        BY SMTT(30)
      <4>1. g = h
        BY <3>3 DEF Leads
      <4> QED
        BY <2>3, <3>3, <4>1, OnePointer
    <3>4. ASSUME Leads(own, rank, g, x, ReadPtr(x)) PROVE Leads(own2, rank, g, x, ReadPtr(x))
      BY <3>3, <3>4, SkipOther
    <3> QED
      BY <3>1, <3>2, <3>4
  <2> QED
    BY <2>2, <2>3
<1>12. PointersOK(own2, rank)'
  BY <1>11 DEF PointersOK
<1> QED
  BY <1>6, <1>8, <1>9, <1>10, <1>12

\* Record i goes to the front of list h.
Joins(own, rank, max, h, i, own2, rank2) ==
    /\ h \in Anchor /\ i \in DOMAIN idx /\ own[i] = 0
    /\ head' = [head EXCEPT ![h] = i] /\ idx' = idx
    /\ idx[i].next = head[h] /\ Leads(own, rank, h, h, head[h])
    /\ \A x : Detour(x) => Detour(x)'
    /\ own2 = [own EXCEPT ![i] = h] /\ rank2 = [rank EXCEPT ![i] = max + 1]

\* A record that joins gets the highest rank; the other lists stay.
LEMMA PushPointers ==
    ASSUME IInv, NEW own, NEW rank, NEW max, Numbered(own, rank, max),
           NEW h, NEW i, NEW own2, NEW rank2, Joins(own, rank, max, h, i, own2, rank2)
    PROVE  /\ Numbering(own2, rank2, max + 1)' /\ PointersOK(own2, rank2)'
           /\ \A g \in Anchor : g # h => SameList(own, rank, own2, rank2, g)
<1> USE DEF Joins
<1>1. Numbering(own, rank, max) /\ FilesOK
  BY DEF IInv, Numbered
<1>2. /\ Ranked(DOMAIN idx, own, rank) /\ DOMAIN own = DOMAIN idx /\ DOMAIN rank = DOMAIN idx
      /\ max \in Nat /\ \A k \in DOMAIN idx : rank[k] <= max
  BY <1>1, NumberingRanked DEF Numbering
<1> USE <1>2
<1>3. i # 0 /\ i \notin Anchor /\ \A k \in DOMAIN idx : k \notin Anchor
  BY SMTT(30), <1>1, NoAnchor DEF FilesOK
<1>4. /\ own2[i] = h /\ rank2[i] = max + 1
      /\ DOMAIN own2 = DOMAIN idx /\ DOMAIN rank2 = DOMAIN idx
      /\ \A k \in DOMAIN idx : k # i => own2[k] = own[k] /\ rank2[k] = rank[k]
  OBVIOUS
<1>5. Numbering(own2, rank2, max + 1)'
  <2>1. own2 \in [DOMAIN idx -> Anchor \cup {0}]
    BY <1>1 DEF Numbering
  <2>2. max + 1 \in Nat /\ \A n \in 0 .. max : n \in 0 .. max + 1 /\ n # max + 1
    BY SMTT(30)
  <2>3. max + 1 \in 0 .. max + 1
    BY SMTT(30)
  <2>4. \A k \in DOMAIN idx : rank[k] \in 0 .. max
    BY <1>1 DEF Numbering
  <2>5. rank2 \in [DOMAIN idx -> 0 .. max + 1]
    <3>1. \A k \in DOMAIN idx : rank2[k] \in 0 .. max + 1
      BY <1>4, <2>2, <2>3, <2>4
    <3>2. rank2 = [k \in DOMAIN idx |-> rank2[k]]
      OBVIOUS
    <3> QED
      BY <3>1, <3>2
  <2>6. \A k, l \in DOMAIN idx : rank2[k] = rank2[l] => k = l
    BY <1>1, <1>4, <2>2, <2>4 DEF Numbering
  <2> QED
    BY <2>1, <2>2, <2>5, <2>6 DEF Numbering
<1>6. Leads(own2, rank2, h, h, i) /\ Leads(own2, rank2, h, i, head[h])
  BY Push
<1>7. head'[h] = i /\ \A g \in Anchor : g # h => head'[g] = head[g]
  BY <1>1 DEF FilesOK
<1>8. ASSUME NEW g \in Anchor, NEW x, NEW j, Cell(own, g, x), x # h,
             Leads(own, rank, g, x, j)
      PROVE  Leads(own2, rank2, g, x, j)
  <2>1. (x \in DOMAIN idx /\ x # i) \/ (x \in Anchor /\ g # h)
    BY <1>8, NoAnchor DEF Cell
  <2> QED
    BY <1>8, <2>1, PushOther
<1>9. ASSUME NEW g \in Anchor, NEW x \in Anchor \cup DOMAIN idx', Cell(own2, g, x)
      PROVE  Detour(x)' \/ Leads(own2, rank2, g, x, ReadPtr(x)')
  <2>1. CASE x = i
    <3>1. g = h /\ ReadPtr(x)' = head[h]
      BY <1>3, <1>4, <1>9, <2>1 DEF Cell, ReadPtr
    <3> QED
      BY <1>6, <2>1, <3>1
  <2>2. CASE x = h
    <3>1. g = h /\ ReadPtr(x)' = i
      BY <1>3, <1>4, <1>7, <1>9, <2>2 DEF Cell, ReadPtr
    <3> QED
      BY <1>6, <2>2, <3>1
  <2>3. CASE x # i /\ x # h
    <3>1. Cell(own, g, x) /\ ReadPtr(x)' = ReadPtr(x) /\ x \in Anchor \cup DOMAIN idx
      BY <1>3, <1>4, <1>7, <1>9, <2>3 DEF Cell, ReadPtr
    <3>2. Detour(x) \/ Leads(own, rank, g, x, ReadPtr(x))
      BY <3>1 DEF Numbered, PointersOK
    <3> QED
      BY <1>8, <2>3, <3>1, <3>2
  <2> QED
    BY <2>1, <2>2, <2>3
<1>10. PointersOK(own2, rank2)'
  BY <1>9 DEF PointersOK
<1>11. ASSUME NEW g \in Anchor, g # h PROVE SameList(own, rank, own2, rank2, g)
  BY <1>4, <1>7, <1>11, NoAnchor DEF SameList
<1> QED
  BY <1>5, <1>10, <1>11

\* Record i moves from list to list or to process p, or (i = 0) none does.
Moves(own, own2, p, i) ==
    /\ \A k \in DOMAIN idx' : k # i =>
          /\ k \in DOMAIN idx /\ own2[k] = own[k]
          /\ idx'[k].key = idx[k].key /\ idx'[k].datoff = idx[k].datoff
    /\ db[p].pc \in {"readfree", "blankidx"} \/ Holds(p) => db[p].idxoff = i
    /\ i \in DOMAIN idx' =>
          /\ own2[i] # 0 => Home(idx'[i]) = own2[i]
          /\ own2[i] = FREE => dat[idx'[i].datoff] = Blank
          /\ own2[i] \in Chain => dat[idx'[i].datoff] # Blank
          /\ own2[i] = 0 => Holds(p)' /\ db'[p].idxoff = i

\* The records of every list still belong there.
LEMMA MembersMove ==
    ASSUME NEW p \in Proc, Others(p), NEW own, MembersOK(own), NEW own2, NEW i, dat' = dat,
           Moves(own, own2, p, i)
    PROVE  MembersOK(own2)'
<1> SUFFICES ASSUME NEW k \in DOMAIN idx'
             PROVE  (/\ own2[k] # 0 => Home(idx[k]) = own2[k]
                     /\ own2[k] = FREE => dat[idx[k].datoff] = Blank
                     /\ own2[k] \in Chain /\ dat[idx[k].datoff] = Blank =>
                           \E r \in Proc : db[r].pc \in {"readfree", "blankidx"}
                                           /\ db[r].idxoff = k
                     /\ own2[k] = 0 => \E r \in Proc : Holds(r) /\ db[r].idxoff = k)'
  BY DEF MembersOK
<1> USE DEF Moves
<1>1. CASE k = i
  BY <1>1
<1>2. CASE k # i
  <2>1. /\ own[k] # 0 => Home(idx[k]) = own[k]
        /\ own[k] = FREE => dat[idx[k].datoff] = Blank
        /\ own[k] \in Chain /\ dat[idx[k].datoff] = Blank =>
              \E r \in Proc : db[r].pc \in {"readfree", "blankidx"} /\ db[r].idxoff = k
        /\ own[k] = 0 => \E r \in Proc : Holds(r) /\ db[r].idxoff = k
    BY <1>2 DEF MembersOK
  <2>2. /\ own2[k] = own[k] /\ Home(idx'[k]) = Home(idx[k])
        /\ dat'[idx'[k].datoff] = dat[idx[k].datoff]
    BY <1>2 DEF Home
  <2>3. ASSUME NEW q \in Proc, db[q].pc \in {"readfree", "blankidx"}, db[q].idxoff = k
        PROVE  \E r \in Proc : db'[r].pc \in {"readfree", "blankidx"} /\ db'[r].idxoff = k
    BY <1>2, <2>3 DEF Others
  <2>4. ASSUME NEW q \in Proc, Holds(q), db[q].idxoff = k
        PROVE  \E r \in Proc : Holds(r)' /\ db'[r].idxoff = k
    <3>1. q # p
      BY <1>2, <2>4
    <3>2. db'[q] = db[q]
      BY <3>1 DEF Others
    <3>3. Holds(q)' /\ db'[q].idxoff = k
      BY <2>4, <3>2 DEF Holds
    <3> QED
      BY <3>3
  <2> QED
    BY <2>1, <2>2, <2>3, <2>4
<1> QED
  BY <1>1, <1>2

\* No two processes have the same record, still.
LEMMA HeldMove ==
    ASSUME IInv, NEW p \in Proc, Others(p), db'[p].pc # "writeidx",
           \A q \in Proc : q # p /\ Holds(q) /\ Holds(p)' => db[q].idxoff # db'[p].idxoff
    PROVE  HeldOnce'
<1> SUFFICES ASSUME NEW q \in Proc, NEW r \in Proc
             PROVE  (/\ Holds(q) /\ Holds(r) /\ db[q].idxoff = db[r].idxoff => q = r
                     /\ /\ db[q].pc = "writeidx" /\ db[r].pc = "writeidx"
                        /\ db[q].datoff = db[r].datoff
                        => q = r)'
  BY DEF HeldOnce
<1>1. /\ Holds(q) /\ Holds(r) /\ db[q].idxoff = db[r].idxoff => q = r
      /\ /\ db[q].pc = "writeidx" /\ db[r].pc = "writeidx"
         /\ db[q].datoff = db[r].datoff
         => q = r
  BY DEF IInv, HeldOnce
<1>2. \A s \in Proc : s # p => db'[s] = db[s] /\ (Holds(s)' <=> Holds(s))
  BY DEF Others, Holds
<1> QED
  BY <1>1, <1>2

\* What other processes count on is not on the lists p has write locked, nor is
\* it record i.
LEMMA MoveFrame ==
    ASSUME IInv, NEW own, NEW rank, NEW max, Numbered(own, rank, max), NEW p \in Proc,
           NEW q \in Proc, q # p, Others(p), NEW own2, NEW rank2, NEW i, dat' = dat,
           \A h \in Anchor : p \notin wrlock[h] => SameList(own, rank, own2, rank2, h),
           \A k \in DOMAIN idx : own[k] = 0 /\ k # i =>
              k \in DOMAIN idx' /\ own2[k] = 0 /\ idx'[k] = idx[k],
           (i \in DOMAIN idx /\ own[i] # 0) \/ (Holds(p) /\ db[p].idxoff = i) \/ i = 0,
           Indexed' \subseteq Indexed,
           \A k \in DOMAIN idx' : k \in DOMAIN idx /\ idx'[k].datoff = idx[k].datoff
    PROVE  Frame(own, rank, own2, rank2, q)
<1>1. ProcOK(own, rank, q) /\ db'[q] = db[q]
  BY DEF Numbered, Others
<1> USE <1>1
<1>2. ASSUME NEW h \in Anchor, q \in rdlock[h] \cup wrlock[h]
      PROVE  SameList(own, rank, own2, rank2, h)
  BY <1>2 DEF IInv, LocksOK
<1>3. ASSUME Holds(q)
      PROVE  /\ db[q].idxoff \in DOMAIN idx' /\ own2[db[q].idxoff] = 0
             /\ idx'[db[q].idxoff] = idx[db[q].idxoff]
  <2>1. db[q].idxoff \in DOMAIN idx /\ own[db[q].idxoff] = 0 /\ db[q].idxoff # 0
    BY <1>3 DEF ProcOK, StoreOK, Holds
  <2>2. db[q].idxoff # i
    BY <1>3, <2>1 DEF IInv, HeldOnce
  <2> QED
    BY <2>1, <2>2
<1>4. db[q].pc \in {"readfree", "blankidx", "tofree", "writeidx", "writeptr"} =>
        db[q].datoff \in DOMAIN dat
  BY InHand DEF AtFound
<1>5. /\ db[q].pc \in AtAbsent => db[q].key \notin Indexed
      /\ db[q].pc = "writeidx" /\ db[q].idxoff = 0 =>
            \A k \in DOMAIN idx : idx[k].datoff # db[q].datoff
  BY DEF ProcOK, StoreOK
<1> QED
  BY <1>2, <1>3, <1>4, <1>5 DEF Frame

\* An update has its chain write locked.
LEMMA Updating ==
    ASSUME IInv, NEW p \in Proc, db[p].pc \in AtChain, db[p].op # "fetch",
           NEW c, c = Hash[db[p].key]
    PROVE  /\ c \in Anchor /\ c \in Chain /\ c # FREE /\ c # 0 /\ p \in wrlock[c]
           /\ db[p].key \in Key /\ db[p].key # Blank
<1>1. HasLocks(p) /\ CallOK(p)
  BY DEF IInv
<1>2. db[p].key \in Key
  BY <1>1 DEF CallOK
<1>3. p \in wrlock[c]
  BY <1>1 DEF HasLocks
<1>4. c \in Anchor /\ c \in Chain /\ c # FREE /\ c # 0
  BY <1>2, NoAnchor
<1>5. db[p].key # Blank
  BY <1>2, DbAssumption DEF Blank
<1> QED
  BY <1>2, <1>3, <1>4, <1>5

\* _db_dodelete blanks the index record, which leaves the chain; the pointer still
\* leads to it.
LEMMA BlankIdxIInv ==
    ASSUME IInv, NEW p \in Proc, BlankIdx(p)
    PROVE  IInv'
<1>1. PICK own, rank, max : Numbered(own, rank, max)
  BY DEF IInv
<1> USE <1>1
<1>2. PICK c, i, x0, j, f, k :
         /\ c = Hash[db[p].key] /\ i = db[p].idxoff /\ x0 = db[p].ptroff
         /\ j = db[p].ptrval /\ f = db[p].freeptr /\ k = db[p].key
  OBVIOUS
<1>3. /\ db[p].pc = "blankidx" /\ head' = head /\ dat' = dat /\ UNCHANGED locks
      /\ idx' = [idx EXCEPT ![i].key = Blank, ![i].next = f]
      /\ Set(p, [pc |-> "tofree"])
  BY <1>2 DEF BlankIdx
<1>4. /\ db'[p].pc = "tofree" /\ db'[p].op = db[p].op /\ db'[p].key = db[p].key
      /\ db'[p].data = db[p].data /\ db'[p].ptroff = db[p].ptroff
      /\ db'[p].offset = db[p].offset /\ db'[p].ptrval = db[p].ptrval
      /\ db'[p].freeptr = db[p].freeptr /\ db'[p].idxoff = db[p].idxoff
      /\ db'[p].datoff = db[p].datoff /\ db'[p].old = db[p].old /\ db'[p].pos = db[p].pos
      /\ DOMAIN db' = Proc /\ DOMAIN db'[p] = Field
      /\ \A q \in Proc : q # p => db'[q] = db[q]
  BY SMTT(30), <1>3, SetFields
<1>5. /\ FieldsOK(p) /\ HasLocks(p) /\ CallOK(p) /\ ProcOK(own, rank, p)
      /\ FilesOK /\ Numbering(own, rank, max)
  BY DEF IInv, Numbered
<1> USE <1>5
<1>6. /\ c \in Anchor /\ c \in Chain /\ c # FREE /\ c # 0 /\ p \in wrlock[c]
      /\ k \in Key /\ k # Blank /\ p \in wrlock[FREE]
  <2>1. db[p].op # "fetch" /\ db[p].pc \in AtChain
    BY <1>3 DEF CallOK, AtChain
  <2> QED
    BY <1>2, <1>3, <2>1, Updating DEF HasLocks, AtFree
<1>7. /\ i \in DOMAIN idx /\ own[i] = c /\ idx[i].key = k /\ idx[i].datoff = db[p].datoff
      /\ Cell(own, c, x0) /\ ReadPtr(x0) = i /\ idx[i].next = j
      /\ f = head[FREE] /\ dat[db[p].datoff] = Blank /\ f \in 0 .. Len(idx)
  BY <1>2, <1>3 DEF FieldsOK, ProcOK, FoundOK, DeleteOK, AtFound
<1>8. DOMAIN own = DOMAIN idx /\ i # 0 /\ i \notin Anchor /\ i \in Nat /\ i \in 0 .. Len(idx)
  BY <1>7, Numbers DEF Numbering
<1>9. PICK r \in Record : /\ idx' = [idx EXCEPT ![i] = r] /\ r.key = Blank /\ r.next = f
                          /\ r.datoff = idx[i].datoff
  <2>1. idx \in Seq(Record) /\ i \in DOMAIN idx /\ f \in Nat
    BY SMTT(30), <1>7 DEF FilesOK
  <2> USE <2>1
  <2>2. idx[i] \in Record
    BY SMTT(30)
  <2> DEFINE r == [idx[i] EXCEPT !.key = Blank, !.next = f]
  <2>3. r \in Record /\ r.key = Blank /\ r.next = f /\ r.datoff = idx[i].datoff
    BY <2>2 DEF Record
  <2>4. idx' = [idx EXCEPT ![i] = r]
    BY <1>3, <2>2
  <2> QED
    BY <2>3, <2>4
<1> USE <1>9
<1>10. /\ FilesOK' /\ Grows /\ DOMAIN idx' = DOMAIN idx /\ idx'[i] = r
       /\ \A l \in DOMAIN idx : l # i => idx'[l] = idx[l]
       /\ \A y \in Anchor \cup DOMAIN idx : y # i => ReadPtr(y)' = ReadPtr(y)
  <2>1. r.datoff \in DOMAIN dat
    BY <1>7 DEF FilesOK
  <2> QED
    BY <1>3, <1>7, <2>1, RecordWritten
<1> USE <1>10
<1>11. LocksOK' /\ \A q \in Proc : LocksKept(q)
  BY <1>3, SameLocks DEF IInv
<1>12. Others(p)
  BY <1>4, <1>11 DEF Others
<1>13. /\ \A x : Detour(x) => Detour(x)'
       /\ Detour(x0)'
  <2>1. db[p].pc \notin {"tofree", "unlink"}
    BY <1>3
  <2>2. \A x : Detour(x) => Detour(x)'
    BY <1>12, <2>1, DetourStays
  <2>3. Detour(x0)'
    BY <1>2, <1>4 DEF Detour
  <2> QED
    BY <2>2, <2>3
<1>14. Leads(own, rank, c, x0, i) /\ Leads(own, rank, c, i, j)
  <2>1. db[p].pc \notin {"tofree", "unlink"} /\ p \in rdlock[c] \cup wrlock[c]
    BY <1>3, <1>6
  <2>2. Cell(own, c, i)
    BY <1>7, <1>8 DEF Cell
  <2>3. ReadPtr(i) = j
    BY <1>7, <1>8 DEF ReadPtr
  <2>4. Leads(own, rank, c, x0, ReadPtr(x0)) /\ Leads(own, rank, c, i, ReadPtr(i))
    BY <1>6, <1>7, <2>1, <2>2, NoDetour
  <2> QED
    BY <1>7, <2>3, <2>4
<1>15. PICK own2 : own2 = [own EXCEPT ![i] = 0]
  OBVIOUS
<1>16. own2[i] = 0 /\ DOMAIN own2 = DOMAIN idx /\ \A l \in DOMAIN idx : l # i => own2[l] = own[l]
  BY <1>7, <1>8, <1>15
<1> USE <1>16
<1>17. /\ Numbering(own2, rank, max)' /\ PointersOK(own2, rank)'
       /\ Cell(own2, c, x0) /\ Leads(own2, rank, c, x0, j) /\ x0 # i
  <2>1. /\ \A x \in Anchor \cup DOMAIN idx : x # i /\ x # x0 => ReadPtr(x)' = ReadPtr(x)
        /\ Detour(x0)' \/ ReadPtr(x0)' = j
    BY <1>13
  <2>2. Leaves(own, rank, c, i, x0, j)
    BY <1>6, <1>7, <1>13, <1>14, <2>1 DEF Leaves
  <2> QED
    BY <1>15, <2>2, SkipPointers
<1>18. RecordsOK'
  <2> SUFFICES ASSUME NEW m \in DOMAIN idx', NEW l \in DOMAIN idx', m # l
               PROVE  (/\ idx[m].datoff # idx[l].datoff
                       /\ idx[m].key = idx[l].key => idx[m].key = Blank)'
    BY DEF RecordsOK
  <2>1. /\ idx[m].datoff # idx[l].datoff
        /\ idx[m].key = idx[l].key => idx[m].key = Blank
    BY DEF IInv, RecordsOK
  <2>2. \A s \in DOMAIN idx : /\ idx'[s].datoff = idx[s].datoff
                              /\ idx'[s].key = idx[s].key \/ idx'[s].key = Blank
    OBVIOUS
  <2> QED
    BY <2>1, <2>2
<1>19. ~ Holds(p) /\ Holds(p)'
  BY <1>2, <1>3, <1>4, <1>8 DEF Holds
<1>20. HeldOnce'
  <2>1. \A q \in Proc : Holds(q) => own[db[q].idxoff] = 0
    BY DEF Numbered, ProcOK, StoreOK
  <2>2. db'[p].pc # "writeidx" /\ db'[p].idxoff = i
    BY <1>2, <1>4
  <2>3. \A q \in Proc : q # p /\ Holds(q) /\ Holds(p)' => db[q].idxoff # db'[p].idxoff
    BY <1>6, <1>7, <2>1, <2>2
  <2> QED
    BY <1>12, <2>2, <2>3, HeldMove
<1>21. MembersOK(own2)'
  <2>1. MembersOK(own)
    BY DEF Numbered
  <2>3. /\ own2[i] # FREE /\ own2[i] \notin Chain
    BY NoAnchor
  <2>4. Moves(own, own2, p, i)
    <3>1. \A l \in DOMAIN idx' : l # i =>
            /\ l \in DOMAIN idx /\ own2[l] = own[l]
            /\ idx'[l].key = idx[l].key /\ idx'[l].datoff = idx[l].datoff
      OBVIOUS
    <3>2. db[p].pc \in {"readfree", "blankidx"} \/ Holds(p) => db[p].idxoff = i
      BY <1>2
    <3>3. i \in DOMAIN idx' =>
            /\ own2[i] # 0 => Home(idx'[i]) = own2[i]
            /\ own2[i] = FREE => dat[idx'[i].datoff] = Blank
            /\ own2[i] \in Chain => dat[idx'[i].datoff] # Blank
            /\ own2[i] = 0 => Holds(p)' /\ db'[p].idxoff = i
      BY <1>2, <1>4, <1>19, <2>3
    <3> QED
      BY <3>1, <3>2, <3>3 DEF Moves
  <2> QED
    BY <1>3, <1>12, <2>1, <2>4, MembersMove
<1>22. FieldsOK(p)'
  BY <1>3, <1>4 DEF FieldsOK, PC, AtChain, Grows
<1>23. HasLocks(p)'
  BY <1>2, <1>3, <1>4, <1>6, <1>11, NoAnchor DEF HasLocks, LocksKept, AtChain, AtFree,
     CallOK
<1>24. CallOK(p)'
  BY <1>3, <1>4 DEF CallOK, AtChain
<1>25. Indexed' \subseteq Indexed /\ k \notin Indexed'
  <2>1. \A s \in DOMAIN idx : idx'[s].key = idx[s].key \/ idx'[s].key = Blank
    OBVIOUS
  <2>2. Indexed' \subseteq Indexed
    BY <2>1 DEF Indexed
  <2>3. \A s \in DOMAIN idx : s # i => idx[s].key # k
    BY <1>6, <1>7 DEF IInv, RecordsOK
  <2>4. \A s \in DOMAIN idx : idx'[s].key # k
    BY <1>6, <2>3
  <2> QED
    BY <2>2, <2>4 DEF Indexed
<1>26. ProcOK(own2, rank, p)'
  <2>0. /\ Hash[db'[p].key] = c /\ db'[p].key = k /\ db'[p].idxoff = i /\ db'[p].ptroff = x0
        /\ db'[p].ptrval = j /\ db'[p].freeptr = f /\ db'[p].pc = "tofree"
        /\ db'[p].datoff = idx[i].datoff
    BY <1>2, <1>4, <1>7
  <2>1. DeleteOK(own2, rank, p)'
    <3>1. Cell(own2, c, x0) /\ Leads(own2, rank, c, x0, j) /\ i # 0
      BY <1>8, <1>17
    <3>2. idx'[i].next = f /\ f = head'[FREE] /\ dat'[idx[i].datoff] = Blank
      BY <1>3, <1>7
    <3> QED
      BY <2>0, <3>1, <3>2 DEF DeleteOK
  <2>2. StoreOK(own2, p)'
    <3>1. i \in DOMAIN idx' /\ own2[i] = 0 /\ idx'[i].datoff = idx[i].datoff /\ idx'[i].key = Blank
      BY <1>7
    <3> QED
      BY <1>25, <2>0, <3>1 DEF StoreOK, AtAbsent
  <2> QED
    BY <1>4, <2>1, <2>2 DEF ProcOK, WalkOK, FoundOK, AtFound
<1>27. ASSUME NEW q \in Proc, q # p PROVE Frame(own, rank, own2, rank, q)
  <2>1. ASSUME NEW h \in Anchor, p \notin wrlock[h] PROVE SameList(own, rank, own2, rank, h)
    <3>1. h # c /\ h # 0
      BY <1>6, <2>1, NoAnchor
    <3> QED
      BY <1>3, <1>7, <1>8, <3>1 DEF SameList
  <2>2. \A l \in DOMAIN idx : own[l] = 0 /\ l # i =>
          l \in DOMAIN idx' /\ own2[l] = 0 /\ idx'[l] = idx[l]
    OBVIOUS
  <2>3. \A l \in DOMAIN idx' : l \in DOMAIN idx /\ idx'[l].datoff = idx[l].datoff
    OBVIOUS
  <2>4. i \in DOMAIN idx /\ own[i] # 0
    BY <1>6, <1>7
  <2> QED
    BY <1>3, <1>12, <1>25, <1>27, <2>1, <2>2, <2>3, <2>4, MoveFrame
<1> QED
  BY <1>11, <1>12, <1>17, <1>18, <1>20, <1>21, <1>22, <1>23, <1>24, <1>26,
     <1>27, Conclude

\* The record goes to the front of the free list.
LEMMA ToFreeIInv ==
    ASSUME IInv, NEW p \in Proc, ToFree(p)
    PROVE  IInv'
<1>1. PICK own, rank, max : Numbered(own, rank, max)
  BY DEF IInv
<1> USE <1>1
<1>2. PICK c, i, x0, j, k :
         /\ c = Hash[db[p].key] /\ i = db[p].idxoff /\ x0 = db[p].ptroff
         /\ j = db[p].ptrval /\ k = db[p].key
  OBVIOUS
<1>3. /\ db[p].pc = "tofree" /\ dat' = dat /\ UNCHANGED locks
      /\ WritePtr(FREE, i) /\ Set(p, [pc |-> "unlink"])
  BY <1>2 DEF ToFree
<1>4. /\ db'[p].pc = "unlink" /\ db'[p].op = db[p].op /\ db'[p].key = db[p].key
      /\ db'[p].data = db[p].data /\ db'[p].ptroff = db[p].ptroff
      /\ db'[p].offset = db[p].offset /\ db'[p].ptrval = db[p].ptrval
      /\ db'[p].freeptr = db[p].freeptr /\ db'[p].idxoff = db[p].idxoff
      /\ db'[p].datoff = db[p].datoff /\ db'[p].old = db[p].old /\ db'[p].pos = db[p].pos
      /\ DOMAIN db' = Proc /\ DOMAIN db'[p] = Field
      /\ \A q \in Proc : q # p => db'[q] = db[q]
  BY SMTT(30), <1>3, SetFields
<1>5. /\ FieldsOK(p) /\ HasLocks(p) /\ CallOK(p) /\ ProcOK(own, rank, p)
      /\ FilesOK /\ Numbering(own, rank, max)
  BY DEF IInv, Numbered
<1> USE <1>5
<1>6. /\ c \in Anchor /\ c \in Chain /\ c # FREE /\ c # 0 /\ p \in wrlock[c]
      /\ k \in Key /\ k # Blank /\ p \in wrlock[FREE]
  <2>1. db[p].op # "fetch" /\ db[p].pc \in AtChain
    BY <1>3 DEF CallOK, AtChain
  <2> QED
    BY <1>2, <1>3, <2>1, Updating DEF HasLocks, AtFree
<1>7. Holds(p) /\ ~ Holds(p)'
  BY <1>3, <1>4 DEF Holds, ProcOK, DeleteOK
<1>8. /\ i \in DOMAIN idx /\ own[i] = 0 /\ idx[i].key = Blank /\ idx[i].datoff = db[p].datoff
      /\ Cell(own, c, x0) /\ Leads(own, rank, c, x0, j) /\ idx[i].next = head[FREE]
      /\ dat[db[p].datoff] = Blank /\ k \notin Indexed
  BY <1>2, <1>3, <1>7 DEF ProcOK, DeleteOK, StoreOK, AtAbsent
<1>9. /\ DOMAIN own = DOMAIN idx /\ i # 0 /\ i \notin Anchor /\ i \in 0 .. Len(idx)
  BY <1>8, Numbers DEF Numbering
<1>10. head' = [head EXCEPT ![FREE] = i] /\ idx' = idx
  BY <1>3, NoAnchor DEF WritePtr
<1>11. FilesOK' /\ Grows
  BY <1>3, <1>9, NoAnchor, PointerWritten
<1>12. LocksOK' /\ \A q \in Proc : LocksKept(q)
  BY <1>3, SameLocks DEF IInv
<1>13. Others(p)
  BY <1>4, <1>12 DEF Others
<1>14. \A x : Detour(x) => Detour(x)'
  <2>1. \A q \in Proc : db[q].pc \in {"tofree", "unlink"} =>
          db'[q].pc \in {"tofree", "unlink"} /\ db'[q].ptroff = db[q].ptroff
    BY <1>4
  <2> QED
    BY <2>1 DEF Detour
<1>15. Leads(own, rank, FREE, FREE, head[FREE])
  <2>1. Cell(own, FREE, FREE) /\ ReadPtr(FREE) = head[FREE]
    BY NoAnchor DEF Cell, ReadPtr
  <2> QED
    BY <2>1, NoAnchor, NoDetour
<1>16. PICK own2, rank2 : /\ own2 = [own EXCEPT ![i] = FREE]
                          /\ rank2 = [rank EXCEPT ![i] = max + 1]
  OBVIOUS
<1>17. /\ own2[i] = FREE /\ DOMAIN own2 = DOMAIN idx
       /\ \A l \in DOMAIN idx : l # i => own2[l] = own[l]
  BY <1>8, <1>9, <1>16
<1>18. /\ Numbering(own2, rank2, max + 1)' /\ PointersOK(own2, rank2)'
       /\ \A g \in Anchor : g # FREE => SameList(own, rank, own2, rank2, g)
       /\ Cell(own2, c, x0) /\ Leads(own2, rank2, c, x0, j)
  <2>1. FREE \in Anchor
    BY NoAnchor
  <2>2. Joins(own, rank, max, FREE, i, own2, rank2)
    BY <1>8, <1>10, <1>14, <1>15, <1>16, <2>1 DEF Joins
  <2>3. /\ Numbering(own2, rank2, max + 1)' /\ PointersOK(own2, rank2)'
        /\ \A g \in Anchor : g # FREE => SameList(own, rank, own2, rank2, g)
    BY <2>2, PushPointers
  <2>4. SameList(own, rank, own2, rank2, c)
    BY <1>6, <2>3
  <2>5. Cell(own2, c, x0) /\ Leads(own2, rank2, c, x0, j)
    BY <1>6, <1>8, <2>4, SameCell
  <2> QED
    BY <2>3, <2>5
<1>19. RecordsOK' /\ Indexed' = Indexed
  BY <1>10 DEF IInv, RecordsOK, Indexed
<1> USE <1>19
<1>20. HeldOnce'
  <2>1. db'[p].pc # "writeidx"
    BY <1>4
  <2> QED
    BY <1>7, <1>13, <2>1, HeldMove
<1>21. MembersOK(own2)'
  <2>1. MembersOK(own)
    BY DEF Numbered
  <2>3. /\ own2[i] # 0 /\ own2[i] \notin Chain /\ Home(idx'[i]) = own2[i]
        /\ dat[idx'[i].datoff] = Blank
    BY <1>8, <1>10, <1>17, NoAnchor, DbAssumption DEF Home
  <2>4. Moves(own, own2, p, i)
    <3>1. \A l \in DOMAIN idx' : l # i =>
            /\ l \in DOMAIN idx /\ own2[l] = own[l]
            /\ idx'[l].key = idx[l].key /\ idx'[l].datoff = idx[l].datoff
      BY <1>10, <1>17
    <3>2. db[p].pc \in {"readfree", "blankidx"} \/ Holds(p) => db[p].idxoff = i
      BY <1>2
    <3>3. i \in DOMAIN idx' =>
            /\ own2[i] # 0 => Home(idx'[i]) = own2[i]
            /\ own2[i] = FREE => dat[idx'[i].datoff] = Blank
            /\ own2[i] \in Chain => dat[idx'[i].datoff] # Blank
            /\ own2[i] = 0 => Holds(p)' /\ db'[p].idxoff = i
      BY <1>2, <2>3
    <3> QED
      BY <3>1, <3>2, <3>3 DEF Moves
  <2> QED
    BY <1>3, <1>13, <2>1, <2>4, MembersMove
<1>22. FieldsOK(p)'
  BY <1>3, <1>4, <1>11 DEF FieldsOK, PC, AtChain, Grows
<1>23. HasLocks(p)'
  BY <1>2, <1>3, <1>4, <1>6, <1>12, NoAnchor DEF HasLocks, LocksKept, AtChain, AtFree,
     CallOK
<1>24. CallOK(p)'
  BY <1>3, <1>4 DEF CallOK, AtChain
<1>25. ProcOK(own2, rank2, p)'
  <2>1. DeleteOK(own2, rank2, p)'
    BY <1>2, <1>4, <1>18 DEF DeleteOK
  <2>2. StoreOK(own2, p)'
    BY <1>2, <1>4, <1>7, <1>8 DEF StoreOK, AtAbsent
  <2> QED
    BY <1>4, <2>1, <2>2 DEF ProcOK, WalkOK, FoundOK, AtFound
<1>26. ASSUME NEW q \in Proc, q # p PROVE Frame(own, rank, own2, rank2, q)
  <2>1. \A h \in Anchor : p \notin wrlock[h] => SameList(own, rank, own2, rank2, h)
    BY <1>6, <1>18
  <2>2. \A l \in DOMAIN idx : own[l] = 0 /\ l # i =>
          l \in DOMAIN idx' /\ own2[l] = 0 /\ idx'[l] = idx[l]
    BY <1>10, <1>17
  <2>3. \A l \in DOMAIN idx' : l \in DOMAIN idx /\ idx'[l].datoff = idx[l].datoff
    BY <1>10
  <2>4. Holds(p) /\ db[p].idxoff = i /\ Indexed' \subseteq Indexed
    BY <1>2, <1>7
  <2> QED
    BY <1>3, <1>13, <1>26, <2>1, <2>2, <2>3, <2>4, MoveFrame
<1> QED
  BY <1>11, <1>12, <1>13, <1>18, <1>20, <1>21, <1>22, <1>23, <1>24, <1>25,
     <1>26, Conclude

\* The pointer past the deleted record is right again.
LEMMA UnlinkFiles ==
    ASSUME IInv, NEW own, NEW rank, NEW max, Numbered(own, rank, max), NEW p \in Proc,
           db[p].pc = "unlink", WritePtr(db[p].ptroff, db[p].ptrval), dat' = dat,
           Others(p), LocksOK', db'[p].pc \notin {"writeidx"}, ~ Holds(p)',
           FieldsOK(p)', HasLocks(p)', CallOK(p)', ProcOK(own, rank, p)'
    PROVE  IInv'
<1>1. PICK c, x0, j : c = Hash[db[p].key] /\ x0 = db[p].ptroff /\ j = db[p].ptrval
  OBVIOUS
<1> USE <1>1
<1>2. /\ FieldsOK(p) /\ CallOK(p) /\ ProcOK(own, rank, p) /\ FilesOK
      /\ Numbering(own, rank, max)
  BY DEF IInv, Numbered
<1> USE <1>2
<1>3. /\ c \in Anchor /\ c # 0 /\ p \in wrlock[c]
  <2>1. db[p].op # "fetch" /\ db[p].pc \in AtChain
    BY DEF CallOK, AtChain
  <2> QED
    BY <2>1, Updating
<1>4. Cell(own, c, x0) /\ Leads(own, rank, c, x0, j)
  BY DEF ProcOK, DeleteOK
<1> USE <1>4
<1>5. x0 \in Anchor \cup DOMAIN idx /\ j \in 0 .. Len(idx) /\ WritePtr(x0, j)
  BY DEF FieldsOK
<1>6. /\ FilesOK' /\ Grows /\ DOMAIN idx' = DOMAIN idx /\ ReadPtr(x0)' = j
      /\ \A y \in Anchor \cup DOMAIN idx : y # x0 => ReadPtr(y)' = ReadPtr(y)
      /\ \A h \in Anchor : h # x0 => head'[h] = head[h]
      /\ \A i \in DOMAIN idx : i # x0 => idx'[i] = idx[i]
      /\ \A i \in DOMAIN idx : idx'[i].key = idx[i].key /\ idx'[i].datoff = idx[i].datoff
  BY <1>5, PointerWritten
<1>7. RecordsOK' /\ Indexed' = Indexed
  BY <1>6, RecordsSame DEF IInv
<1>8. Numbering(own, rank, max)' /\ DOMAIN own = DOMAIN idx
  BY <1>6 DEF Numbering
<1>9. PointersOK(own, rank)'
  <2>1. ASSUME NEW h \in Anchor, NEW x \in Anchor \cup DOMAIN idx', Cell(own, h, x)
        PROVE  Detour(x)' \/ Leads(own, rank, h, x, ReadPtr(x)')
    <3>1. CASE x = x0
      <4>1. h = c
        BY <1>3, <2>1, <3>1, OneList
      <4> QED
        BY <1>6, <3>1, <4>1
    <3>2. CASE x # x0
      <4>1. ReadPtr(x)' = ReadPtr(x)
        BY <1>6, <3>2
      <4>2. Detour(x) \/ Leads(own, rank, h, x, ReadPtr(x))
        BY <1>6, <2>1 DEF Numbered, PointersOK
      <4>3. ASSUME NEW q \in Proc, db[q].pc \in {"tofree", "unlink"}, db[q].ptroff = x
            PROVE  Detour(x)'
        <5>1. q # p
          BY <3>2, <4>3
        <5>2. db'[q] = db[q]
          BY <5>1 DEF Others
        <5> QED
          BY <4>3, <5>2 DEF Detour
      <4> QED
        BY <4>1, <4>2, <4>3 DEF Detour
    <3> QED
      BY <3>1, <3>2
  <2> QED
    BY <2>1 DEF PointersOK
<1>10. HeldOnce'
  <2>1. db'[p].pc # "writeidx"
    OBVIOUS
  <2> QED
    BY <2>1, HeldMove
<1>11. MembersOK(own)'
  <2>1. MembersOK(own)
    BY DEF Numbered
  <2>2. Moves(own, own, p, 0)
    <3>1. 0 \notin DOMAIN idx
      BY Numbers
    <3>2. ~ Holds(p) /\ db[p].pc \notin {"readfree", "blankidx"}
      BY DEF Holds
    <3> QED
      BY <1>6, <3>1, <3>2 DEF Moves
  <2> QED
    BY <2>1, <2>2, MembersMove
<1>12. ASSUME NEW q \in Proc, q # p PROVE Frame(own, rank, own, rank, q)
  <2>1. ASSUME NEW h \in Anchor, p \notin wrlock[h] PROVE SameList(own, rank, own, rank, h)
    <3>1. h # c
      BY <1>3, <2>1
    <3>2. ~ Cell(own, h, x0)
      BY <1>3, <3>1, OneList
    <3> QED
      BY <1>6, <1>8, <3>2 DEF SameList, Cell
  <2>2. \A l \in DOMAIN idx : own[l] = 0 /\ l # 0 =>
          l \in DOMAIN idx' /\ own[l] = 0 /\ idx'[l] = idx[l]
    <3>1. \A l \in DOMAIN idx : own[l] = 0 => l # x0
      BY <1>3, Numbers DEF Cell
    <3> QED
      BY <1>6, <3>1
  <2>3. \A l \in DOMAIN idx' : l \in DOMAIN idx /\ idx'[l].datoff = idx[l].datoff
    BY <1>6
  <2>4. Indexed' \subseteq Indexed
    BY <1>7
  <2>5. ProcOK(own, rank, q) /\ db'[q] = db[q]
    BY <1>12 DEF Numbered, Others
  <2> QED
    BY <1>12, <2>1, <2>2, <2>3, <2>4, MoveFrame
<1> QED
  BY <1>6, <1>7, <1>8, <1>9, <1>10, <1>11, <1>12, Conclude

\* The pointer is put past it.
LEMMA UnlinkIInv ==
    ASSUME IInv, NEW p \in Proc, Unlink(p)
    PROVE  IInv'
<1>1. PICK own, rank, max : Numbered(own, rank, max)
  BY DEF IInv
<1> USE <1>1
<1>2. PICK c : c = Hash[db[p].key]
  OBVIOUS
<1> USE <1>2
<1>3. db[p].pc = "unlink" /\ dat' = dat /\ WritePtr(db[p].ptroff, db[p].ptrval)
  BY DEF Unlink
<1> USE <1>3
<1>4. /\ FieldsOK(p) /\ HasLocks(p) /\ CallOK(p) /\ ProcOK(own, rank, p) /\ FilesOK
      /\ LocksOK
  BY DEF IInv, Numbered
<1> USE <1>4
<1>5. /\ c \in Anchor /\ c # FREE /\ p \in wrlock[c] /\ db[p].op # "fetch"
  <2>1. db[p].op # "fetch" /\ db[p].pc \in AtChain
    BY DEF CallOK, AtChain
  <2> QED
    BY <2>1, Updating
<1> USE <1>5
<1>6. /\ db[p].ptroff \in Anchor \cup DOMAIN idx /\ db[p].ptrval \in 0 .. Len(idx)
  BY DEF FieldsOK
<1>7. /\ FilesOK' /\ Grows /\ DOMAIN idx' = DOMAIN idx
      /\ \A i \in DOMAIN idx : idx'[i].key = idx[i].key /\ idx'[i].datoff = idx[i].datoff
  BY <1>6, PointerWritten
<1> USE <1>7
<1>8. CASE db[p].op = "delete"
  <2>1. /\ rdlock' = rdlock
        /\ wrlock' = [wrlock EXCEPT ![FREE] = @ \ {p}, ![c] = @ \ {p}]
        /\ db' = [db EXCEPT ![p] = [Idle EXCEPT !.pos = 0]]
    BY <1>8 DEF Unlink, Return
  <2> USE <2>1
  <2>2. LocksOK' /\ \A q \in Proc : q # p => LocksKept(q)
    <3>1. DOMAIN wrlock = Anchor /\ FREE \in Anchor
      BY NoAnchor DEF LocksOK
    <3> USE <3>1
    <3>2. /\ wrlock'[FREE] = wrlock[FREE] \ {p} /\ wrlock'[c] = wrlock[c] \ {p}
          /\ \A h \in Anchor : h # FREE /\ h # c => wrlock'[h] = wrlock[h]
          /\ DOMAIN wrlock' = Anchor
      BY SMTT(30)
    <3>3. \A h \in Anchor : wrlock'[h] \subseteq wrlock[h]
                            /\ \A q \in Proc : q # p /\ q \in wrlock[h] => q \in wrlock'[h]
      BY <3>2
    <3>4. wrlock' \in [Anchor -> SUBSET Proc]
      <4>1. \A h \in Anchor : wrlock'[h] \in SUBSET Proc
        BY <3>3 DEF LocksOK
      <4>2. wrlock' = [h \in Anchor |-> wrlock'[h]]
        <5>1. wrlock' = [h \in DOMAIN wrlock |-> wrlock'[h]]
          OBVIOUS
        <5> QED
          BY <5>1
      <4> QED
        BY <4>1, <4>2
    <3> QED
      BY <3>3, <3>4 DEF LocksOK, LocksKept
  <2>3. /\ db'[p].pc = "idle" /\ FieldsOK(p)' /\ HasLocks(p)' /\ CallOK(p)'
        /\ ProcOK(own, rank, p)'
        /\ DOMAIN db' = Proc /\ \A q \in Proc : q # p => db'[q] = db[q]
    <3>1. 0 \in Nat /\ DOMAIN db = Proc
      BY SMTT(30) DEF IInv
    <3> QED
      BY <3>1, IdleOK
  <2> USE <2>3
  <2>4. Others(p)
    BY <2>2 DEF Others
  <2>5. ~ Holds(p)' /\ db'[p].pc \notin {"writeidx"}
    BY DEF Holds
  <2> QED
    BY <2>2, <2>4, <2>5, UnlinkFiles
<1>9. CASE db[p].op # "delete"
  <2>1. un_lock(p, FREE) /\ Set(p, [pc |-> "reread", idxoff |-> 0, datoff |-> 0])
    BY <1>9 DEF Unlink
  <2>2. /\ db'[p].pc = "reread" /\ db'[p].op = db[p].op /\ db'[p].key = db[p].key
        /\ db'[p].data = db[p].data /\ db'[p].ptroff = db[p].ptroff
        /\ db'[p].offset = db[p].offset /\ db'[p].ptrval = db[p].ptrval
        /\ db'[p].freeptr = db[p].freeptr /\ db'[p].idxoff = 0 /\ db'[p].datoff = 0
        /\ db'[p].old = db[p].old /\ db'[p].pos = db[p].pos
        /\ DOMAIN db' = Proc /\ DOMAIN db'[p] = Field
        /\ \A q \in Proc : q # p => db'[q] = db[q]
    BY SMTT(30), <2>1, SetFields
  <2> USE <2>2
  <2>3. /\ LocksOK' /\ \A q \in Proc : q # p => LocksKept(q)
        /\ p \in wrlock'[c]
    BY <2>1, NoAnchor, UnLock
  <2> USE <2>3
  <2>4. Others(p)
    BY DEF Others
  <2>5. FieldsOK(p)'
    <3>1. 0 \in 0 .. Len(idx') /\ 0 \in 0 .. Len(dat')
      BY SMTT(30) DEF FilesOK
    <3> QED
      BY <3>1 DEF FieldsOK, PC, AtChain, Grows
  <2>6. HasLocks(p)'
    BY DEF HasLocks, AtChain, AtFree
  <2>7. CallOK(p)'
    BY <1>9 DEF CallOK, AtChain
  <2>8. ProcOK(own, rank, p)'
    <3>1. Indexed' = Indexed
      BY RecordsSame DEF IInv
    <3>2. StoreOK(own, p)'
      BY <3>1 DEF ProcOK, StoreOK, AtAbsent, Holds
    <3> QED
      BY <3>2 DEF ProcOK, WalkOK, FoundOK, DeleteOK, AtFound
  <2>9. ~ Holds(p)' /\ db'[p].pc \notin {"writeidx"}
    BY DEF Holds
  <2> QED
    BY <2>4, <2>5, <2>6, <2>7, <2>8, <2>9, UnlinkFiles
<1> QED
  BY <1>8, <1>9

\* _db_findfree takes a record from the free list.
LEMMA WalkFreeTakeIInv ==
    ASSUME IInv, NEW p \in Proc, WalkFree(p), Fits(p, db[p].offset)
    PROVE  IInv'
<1>1. PICK own, rank, max : Numbered(own, rank, max)
  BY DEF IInv
<1>2. PICK c, i, x0, j, k, d :
         /\ c = Hash[db[p].key] /\ i = db[p].offset /\ x0 = db[p].ptroff
         /\ j = idx[i].next /\ k = db[p].key /\ d = idx[i].datoff
  OBVIOUS
<1>3. /\ db[p].pc = "walkfree" /\ i # 0 /\ dat' = dat /\ WritePtr(x0, j) /\ un_lock(p, FREE)
      /\ Set(p, [pc |-> "writedat", idxoff |-> i, datoff |-> d])
  BY <1>2 DEF WalkFree
<1> USE <1>3
<1>4. /\ db'[p].pc = "writedat" /\ db'[p].op = db[p].op /\ db'[p].key = db[p].key
      /\ db'[p].data = db[p].data /\ db'[p].ptroff = db[p].ptroff
      /\ db'[p].offset = db[p].offset /\ db'[p].ptrval = db[p].ptrval
      /\ db'[p].freeptr = db[p].freeptr /\ db'[p].idxoff = i /\ db'[p].datoff = d
      /\ db'[p].old = db[p].old /\ db'[p].pos = db[p].pos
      /\ DOMAIN db' = Proc /\ DOMAIN db'[p] = Field
      /\ \A q \in Proc : q # p => db'[q] = db[q]
  BY SMTT(30), SetFields
<1>5. /\ FieldsOK(p) /\ HasLocks(p) /\ CallOK(p) /\ ProcOK(own, rank, p)
      /\ FilesOK /\ Numbering(own, rank, max) /\ LocksOK
  BY <1>1 DEF IInv, Numbered
<1>6. /\ c \in Anchor /\ c \in Chain /\ c # FREE /\ c # 0 /\ p \in wrlock[c]
      /\ k \in Key /\ k # Blank /\ p \in wrlock[FREE] /\ db[p].op # "fetch"
  <2>1. db[p].op # "fetch" /\ db[p].pc \in AtChain
    BY <1>5 DEF CallOK, AtChain
  <2> QED
    BY <1>2, <1>5, <2>1, Updating DEF HasLocks, AtFree
<1>7. /\ Cell(own, FREE, x0) /\ i = ReadPtr(x0) /\ x0 \in Anchor \cup DOMAIN idx
      /\ db[p].ptrval = head[c] /\ k \notin Indexed
  BY <1>2, <1>5 DEF ProcOK, WalkOK, StoreOK, AtAbsent, FieldsOK
<1>8. Leads(own, rank, FREE, x0, i)
  BY <1>1, <1>7, NoAnchor, NoDetour
<1>9. DOMAIN own = DOMAIN idx /\ i \in DOMAIN idx /\ own[i] = FREE
  BY <1>5, <1>8 DEF Numbering, Leads
<1>10. i # 0 /\ i \notin Anchor /\ i \in 0 .. Len(idx) /\ j \in 0 .. Len(idx) /\ d \in DOMAIN dat
  BY <1>2, <1>5, <1>9, Numbers DEF FilesOK
<1>11. Leads(own, rank, FREE, i, j)
  <2>1. Cell(own, FREE, i) /\ ReadPtr(i) = j
    BY <1>2, <1>9, <1>10 DEF Cell, ReadPtr
  <2> QED
    BY <1>1, <2>1, NoAnchor, NoDetour
<1>12. /\ FilesOK' /\ Grows /\ DOMAIN idx' = DOMAIN idx /\ ReadPtr(x0)' = j
       /\ \A y \in Anchor \cup DOMAIN idx : y # x0 => ReadPtr(y)' = ReadPtr(y)
       /\ \A h \in Anchor : h # x0 => head'[h] = head[h]
       /\ \A l \in DOMAIN idx : l # x0 => idx'[l] = idx[l]
       /\ \A l \in DOMAIN idx : idx'[l].key = idx[l].key /\ idx'[l].datoff = idx[l].datoff
  BY <1>5, <1>7, <1>10, PointerWritten
<1>13. RecordsOK' /\ Indexed' = Indexed
  BY <1>12, RecordsSame DEF IInv
<1>14. LocksOK' /\ (\A q \in Proc : q # p => LocksKept(q)) /\ p \in wrlock'[c]
  BY <1>5, <1>6, NoAnchor, UnLock
<1>15. Others(p)
  BY <1>4, <1>14 DEF Others
<1>16. \A x : Detour(x) => Detour(x)'
  <2>1. db[p].pc \notin {"tofree", "unlink"}
    OBVIOUS
  <2> QED
    BY <1>15, <2>1, DetourStays
<1>17. PICK own2 : own2 = [own EXCEPT ![i] = 0]
  OBVIOUS
<1>18. own2[i] = 0 /\ DOMAIN own2 = DOMAIN idx /\ \A l \in DOMAIN idx : l # i => own2[l] = own[l]
  BY <1>9, <1>17
<1>19. Numbering(own2, rank, max)' /\ PointersOK(own2, rank)' /\ x0 # i
  <2>1. /\ \A x \in Anchor \cup DOMAIN idx : x # i /\ x # x0 => ReadPtr(x)' = ReadPtr(x)
        /\ Detour(x0)' \/ ReadPtr(x0)' = j
    BY <1>12
  <2>2. Leaves(own, rank, FREE, i, x0, j)
    BY <1>7, <1>8, <1>9, <1>11, <1>12, <1>16, <2>1, NoAnchor DEF Leaves
  <2> QED
    BY <1>1, <1>17, <2>2, SkipPointers
<1>20. ~ Holds(p) /\ Holds(p)' /\ db'[p].pc # "writeidx"
  BY <1>4 DEF Holds
<1>21. HeldOnce'
  <2>1. \A q \in Proc : Holds(q) => own[db[q].idxoff] = 0
    BY <1>1 DEF Numbered, ProcOK, StoreOK
  <2>0. own[i] # 0 /\ db'[p].idxoff = i
    BY <1>4, <1>9, NoAnchor
  <2>2. \A q \in Proc : q # p /\ Holds(q) /\ Holds(p)' => db[q].idxoff # db'[p].idxoff
    BY <2>0, <2>1
  <2> QED
    BY <1>15, <1>20, <2>2, HeldMove
<1>22. MembersOK(own2)'
  <2>1. MembersOK(own)
    BY <1>1 DEF Numbered
  <2>2. Moves(own, own2, p, i)
    <3>1. \A l \in DOMAIN idx' : l # i =>
            /\ l \in DOMAIN idx /\ own2[l] = own[l]
            /\ idx'[l].key = idx[l].key /\ idx'[l].datoff = idx[l].datoff
      BY <1>12, <1>18
    <3>2. db[p].pc \notin {"readfree", "blankidx"} /\ own2[i] # FREE /\ own2[i] \notin Chain
      BY <1>18, NoAnchor
    <3> QED
      BY <1>4, <1>18, <1>20, <3>1, <3>2 DEF Moves
  <2> QED
    BY <1>15, <2>1, <2>2, MembersMove
<1>23. FieldsOK(p)'
  <2>1. i \in 0 .. Len(idx') /\ d \in 0 .. Len(dat')
    <3>1. d \in 0 .. Len(dat)
      BY SMTT(30), <1>5, <1>10 DEF FilesOK
    <3> QED
      BY <1>10, <1>12, <3>1 DEF Grows
  <2> QED
    BY <1>4, <1>5, <1>12, <2>1 DEF FieldsOK, PC, AtChain, Grows
<1>24. HasLocks(p)'
  BY <1>2, <1>4, <1>6, <1>14 DEF HasLocks, AtChain, AtFree
<1>25. CallOK(p)'
  <2>1. db[p].op \in {"insert", "store"} /\ db[p].old = NoData /\ db[p].op # "replace"
    BY <1>5 DEF CallOK
  <2> QED
    BY <1>4, <1>5, <2>1 DEF CallOK, AtChain
<1>26. ProcOK(own2, rank, p)'
  <2>1. /\ Hash[db'[p].key] = c /\ db'[p].key = k /\ db'[p].pc = "writedat"
        /\ db'[p].ptrval = head[c] /\ db'[p].idxoff = i /\ db'[p].datoff = d
    BY <1>2, <1>4, <1>7
  <2>2. head'[c] = head[c]
    <3>1. c # x0
      BY <1>5, <1>6, <1>7, NoAnchor, Numbers DEF Cell, Numbering
    <3> QED
      BY <1>6, <1>12, <3>1
  <2>3. idx[i].key = Blank
    <3>1. Home(idx[i]) = FREE
      BY <1>1, <1>9, NoAnchor DEF Numbered, MembersOK
    <3>2. idx[i].key \in Key \cup {Blank}
      <4>1. idx[i] \in Record
        BY SMTT(30), <1>5, <1>9 DEF FilesOK
      <4> QED
        BY SMTT(30), <4>1 DEF Record
    <3> QED
      BY <3>1, <3>2, NoAnchor DEF Home
  <2>4. /\ i \in DOMAIN idx' /\ own2[i] = 0 /\ idx'[i].datoff = d /\ idx'[i].key = Blank
    BY <1>2, <1>9, <1>12, <1>18, <2>3
  <2>5. StoreOK(own2, p)'
    BY <1>7, <1>13, <2>1, <2>2, <2>4 DEF StoreOK, AtAbsent
  <2> QED
    BY <1>4, <2>5 DEF ProcOK, WalkOK, FoundOK, DeleteOK, AtFound
<1>27. ASSUME NEW q \in Proc, q # p PROVE Frame(own, rank, own2, rank, q)
  <2>1. ASSUME NEW h \in Anchor, p \notin wrlock[h] PROVE SameList(own, rank, own2, rank, h)
    <3>1. h # FREE /\ h # 0
      BY <1>6, <2>1, NoAnchor
    <3>2. ~ Cell(own, h, x0)
      BY <1>5, <1>7, <3>1, NoAnchor, OneList
    <3> QED
      BY <1>9, <1>12, <1>18, <3>1, <3>2 DEF SameList, Cell
  <2>2. \A l \in DOMAIN idx : own[l] = 0 /\ l # i =>
          l \in DOMAIN idx' /\ own2[l] = 0 /\ idx'[l] = idx[l]
    <3>1. \A l \in DOMAIN idx : own[l] = 0 => l # x0
      BY <1>5, <1>7, NoAnchor, Numbers DEF Cell
    <3> QED
      BY <1>12, <1>18, <3>1
  <2>3. \A l \in DOMAIN idx' : l \in DOMAIN idx /\ idx'[l].datoff = idx[l].datoff
    BY <1>12
  <2>4. i \in DOMAIN idx /\ own[i] # 0 /\ Indexed' \subseteq Indexed
    BY <1>9, <1>13, NoAnchor
  <2> QED
    BY <1>1, <1>15, <1>27, <2>1, <2>2, <2>3, <2>4, MoveFrame
<1> QED
  BY <1>1, <1>12, <1>13, <1>14, <1>15, <1>19, <1>21, <1>22, <1>23, <1>24, <1>25, <1>26,
     <1>27, Conclude

\* Two processes whose keys are not in the index file have different keys.
LEMMA KeysApart ==
    ASSUME IInv, NEW p \in Proc, NEW q \in Proc, p # q,
           db[p].pc \in AtAbsent, db[q].pc \in AtAbsent
    PROVE  db[p].key # db[q].key
<1>1. ASSUME NEW s \in Proc, db[s].pc \in AtAbsent
      PROVE  Hash[db[s].key] \in Anchor /\ s \in wrlock[Hash[db[s].key]]
  <2>1. db[s].pc \in AtChain
    BY <1>1 DEF AtAbsent, AtChain
  <2>2. CallOK(s)
    BY DEF IInv
  <2>3. db[s].op # "fetch"
    BY <1>1, <2>2 DEF AtAbsent, CallOK
  <2> QED
    BY <2>1, <2>3, Updating
<1> QED
  BY <1>1 DEF IInv, LocksOK

\* db_store writes the index record over a free one,
LEMMA WriteIdxOverIInv ==
    ASSUME IInv, NEW p \in Proc, WriteIdx(p), db[p].idxoff # 0
    PROVE  IInv'
<1>1. PICK own, rank, max : Numbered(own, rank, max)
  BY DEF IInv
<1>2. PICK c, i, k, d, r :
         /\ c = Hash[db[p].key] /\ i = db[p].idxoff /\ k = db[p].key /\ d = db[p].datoff
         /\ r = NewRecord(p)
  OBVIOUS
<1>3. /\ db[p].pc = "writeidx" /\ head' = head /\ dat' = dat /\ UNCHANGED locks
      /\ idx' = [idx EXCEPT ![i] = r] /\ Set(p, [pc |-> "writeptr"])
  BY <1>2 DEF WriteIdx, NewRecord
<1>4. /\ db'[p].pc = "writeptr" /\ db'[p].op = db[p].op /\ db'[p].key = db[p].key
      /\ db'[p].data = db[p].data /\ db'[p].ptroff = db[p].ptroff
      /\ db'[p].offset = db[p].offset /\ db'[p].ptrval = db[p].ptrval
      /\ db'[p].freeptr = db[p].freeptr /\ db'[p].idxoff = db[p].idxoff
      /\ db'[p].datoff = db[p].datoff /\ db'[p].old = db[p].old /\ db'[p].pos = db[p].pos
      /\ DOMAIN db' = Proc /\ DOMAIN db'[p] = Field
      /\ \A q \in Proc : q # p => db'[q] = db[q]
  BY SMTT(30), <1>3, SetFields
<1>5. /\ FieldsOK(p) /\ HasLocks(p) /\ CallOK(p) /\ ProcOK(own, rank, p)
      /\ FilesOK /\ Numbering(own, rank, max) /\ RecordsOK
  BY <1>1 DEF IInv, Numbered
<1>6. Holds(p) /\ Holds(p)'
  BY <1>3, <1>4 DEF Holds
<1>7. /\ i \in DOMAIN idx /\ own[i] = 0 /\ idx[i].datoff = d /\ k \notin Indexed
      /\ d \in DOMAIN dat /\ dat[d] = db[p].data /\ db[p].ptrval = head[c]
  BY <1>2, <1>3, <1>5, <1>6 DEF ProcOK, StoreOK, AtAbsent
<1>8. /\ r \in Record /\ r.key = k /\ r.datoff = d /\ r.next = db[p].ptrval
      /\ r.next \in 0 .. Len(idx)
  BY <1>2, <1>3, NewRecordOK
<1>9. /\ FilesOK' /\ Grows /\ DOMAIN idx' = DOMAIN idx /\ idx'[i] = r
      /\ \A l \in DOMAIN idx : l # i => idx'[l] = idx[l]
      /\ \A y \in Anchor \cup DOMAIN idx : y # i => ReadPtr(y)' = ReadPtr(y)
  BY <1>3, <1>5, <1>7, <1>8, RecordWritten
<1> USE <1>9
<1>10. /\ DOMAIN own = DOMAIN idx /\ i \notin Anchor
       /\ k \in Key /\ k # Blank /\ \A l \in DOMAIN idx : idx[l].key # k
  <2>1. k \in Key /\ k # Blank
    BY <1>2, <1>3, <1>5, DbAssumption DEF CallOK, AtChain, Blank
  <2> QED
    BY <1>5, <1>7, <2>1, Numbers, NotIndexed DEF Numbering
<1>11. LocksOK' /\ \A q \in Proc : LocksKept(q)
  BY <1>3, SameLocks DEF IInv
<1>12. Others(p)
  BY <1>4, <1>11 DEF Others
<1> USE <1>12
<1>13. \A l \in DOMAIN idx : idx'[l].datoff = idx[l].datoff
  BY <1>7, <1>8
<1>14. RecordsOK'
  <2> SUFFICES ASSUME NEW m \in DOMAIN idx', NEW l \in DOMAIN idx', m # l
               PROVE  (/\ idx[m].datoff # idx[l].datoff
                       /\ idx[m].key = idx[l].key => idx[m].key = Blank)'
    BY DEF RecordsOK
  <2>1. /\ idx[m].datoff # idx[l].datoff
        /\ idx[m].key = idx[l].key => idx[m].key = Blank
    BY <1>5 DEF RecordsOK
  <2>2. CASE m = i
    BY <1>8, <1>10, <1>13, <2>1, <2>2
  <2>3. CASE l = i
    BY <1>8, <1>10, <1>13, <2>1, <2>3
  <2>4. CASE m # i /\ l # i
    BY <2>1, <2>4
  <2> QED
    BY <2>2, <2>3, <2>4
<1>15. Numbering(own, rank, max)'
  BY <1>5 DEF Numbering
<1>16. PointersOK(own, rank)'
  <2>1. ASSUME NEW h \in Anchor, NEW x \in Anchor \cup DOMAIN idx', Cell(own, h, x)
        PROVE  Detour(x)' \/ Leads(own, rank, h, x, ReadPtr(x)')
    <3>1. x # i /\ x \in Anchor \cup DOMAIN idx
      BY <1>7, <1>10, <2>1, NoAnchor DEF Cell
    <3>2. Detour(x) \/ Leads(own, rank, h, x, ReadPtr(x))
      BY <1>1, <2>1, <3>1 DEF Numbered, PointersOK
    <3>3. db[p].pc \notin {"tofree", "unlink"}
      BY <1>3
    <3> QED
      BY <3>1, <3>2, <3>3, DetourStays
  <2> QED
    BY <2>1 DEF PointersOK
<1>17. HeldOnce'
  <2>1. db'[p].pc # "writeidx" /\ db'[p].idxoff = db[p].idxoff
    BY <1>4
  <2>2. \A q \in Proc : q # p /\ Holds(q) /\ Holds(p)' => db[q].idxoff # db'[p].idxoff
    BY <1>6, <2>1 DEF IInv, HeldOnce
  <2> QED
    BY <2>1, <2>2, HeldMove
<1>18. MembersOK(own)'
  <2>1. MembersOK(own)
    BY <1>1 DEF Numbered
  <2>2. Moves(own, own, p, i)
    <3>1. \A l \in DOMAIN idx' : l # i =>
            /\ l \in DOMAIN idx /\ own[l] = own[l]
            /\ idx'[l].key = idx[l].key /\ idx'[l].datoff = idx[l].datoff
      OBVIOUS
    <3>2. own[i] # FREE /\ own[i] \notin Chain /\ db'[p].idxoff = i /\ db[p].idxoff = i
      BY <1>2, <1>4, <1>7, NoAnchor
    <3> QED
      BY <1>6, <1>7, <3>1, <3>2 DEF Moves
  <2> QED
    BY <1>3, <2>1, <2>2, MembersMove
<1>19. FieldsOK(p)'
  BY <1>3, <1>4, <1>5 DEF FieldsOK, PC, AtChain, Grows
<1>20. HasLocks(p)'
  BY <1>3, <1>4, <1>5, <1>11, NoAnchor DEF HasLocks, LocksKept, AtChain, AtFree, CallOK
<1>21. CallOK(p)'
  BY <1>3, <1>4, <1>5 DEF CallOK, AtChain
<1>22. ProcOK(own, rank, p)'
  <2>1. /\ Hash[db'[p].key] = c /\ db'[p].key = k /\ db'[p].pc = "writeptr"
        /\ db'[p].ptrval = head'[c] /\ db'[p].idxoff = i /\ db'[p].datoff = d
        /\ db'[p].data = db[p].data /\ i # 0 /\ db'[p].ptrval = db[p].ptrval
    BY <1>2, <1>3, <1>4, <1>7
  <2>2. /\ i \in DOMAIN idx' /\ own[i] = 0 /\ idx'[i].datoff = d /\ idx'[i].key = k
        /\ idx'[i].next = db[p].ptrval /\ d \in DOMAIN dat' /\ dat'[d] = db[p].data
    BY <1>3, <1>7, <1>8
  <2>3. StoreOK(own, p)'
    BY <2>1, <2>2 DEF StoreOK, AtAbsent
  <2> QED
    BY <1>4, <2>3 DEF ProcOK, WalkOK, FoundOK, DeleteOK, AtFound
<1>23. ASSUME NEW q \in Proc, q # p PROVE Frame(own, rank, own, rank, q)
  <2>1. ProcOK(own, rank, q) /\ db'[q] = db[q]
    BY <1>1, <1>4, <1>23 DEF Numbered
  <2>2. ASSUME NEW h \in Anchor PROVE SameList(own, rank, own, rank, h)
    BY <1>3, <1>7, <1>10, NoAnchor DEF SameList
  <2>3. ASSUME Holds(q)
        PROVE  /\ db[q].idxoff \in DOMAIN idx' /\ own[db[q].idxoff] = 0
               /\ idx'[db[q].idxoff] = idx[db[q].idxoff]
    <3>1. db[q].idxoff # i
      BY <1>2, <1>6, <1>23, <2>3 DEF IInv, HeldOnce
    <3> QED
      BY <2>1, <2>3, <3>1 DEF ProcOK, StoreOK
  <2>4. ASSUME db[q].pc \in AtAbsent PROVE db[q].key \notin Indexed'
    <3>1. db[q].key # k /\ db[q].key \notin Indexed
      <4>1. db[p].pc \in AtAbsent
        BY <1>3 DEF AtAbsent
      <4> QED
        BY <1>2, <1>23, <2>1, <2>4, <4>1, KeysApart DEF ProcOK, StoreOK
    <3>2. \A l \in DOMAIN idx : idx'[l].key = idx[l].key \/ idx'[l].key = k
      BY <1>8
    <3> QED
      BY <3>1, <3>2 DEF Indexed
  <2>5. db[q].pc = "writeidx" /\ db[q].idxoff = 0 =>
          \A l \in DOMAIN idx' : idx'[l].datoff # db[q].datoff
    BY <1>13, <2>1 DEF ProcOK, StoreOK
  <2>6. db[q].pc \in {"readfree", "blankidx", "tofree", "writeidx", "writeptr"} =>
          db[q].datoff \in DOMAIN dat
    BY <1>1, InHand DEF AtFound
  <2> QED
    BY <1>3, <2>1, <2>2, <2>3, <2>4, <2>5, <2>6 DEF Frame
<1> QED
  BY <1>1, <1>11, <1>14, <1>15, <1>16, <1>17, <1>18, <1>19, <1>20, <1>21,
     <1>22, <1>23, Conclude

\* The new record goes to the front of the chain.
LEMMA WritePtrChainIInv ==
    ASSUME IInv, NEW p \in Proc, WritePtrChain(p)
    PROVE  IInv'
<1>1. PICK own, rank, max : Numbered(own, rank, max)
  BY DEF IInv
<1> USE <1>1
<1>2. PICK c, i : c = Hash[db[p].key] /\ i = db[p].idxoff
  OBVIOUS
<1>3. /\ db[p].pc = "writeptr" /\ dat' = dat /\ WritePtr(c, i) /\ un_lock(p, c)
      /\ db' = [db EXCEPT ![p] = [Idle EXCEPT !.pos = 0]]
  BY <1>2 DEF WritePtrChain, Return
<1> USE <1>3
<1>4. /\ FieldsOK(p) /\ HasLocks(p) /\ CallOK(p) /\ ProcOK(own, rank, p)
      /\ FilesOK /\ Numbering(own, rank, max)
  BY DEF IInv, Numbered
<1>5. /\ c \in Anchor /\ c \in Chain /\ c # FREE /\ c # 0 /\ p \in wrlock[c]
      /\ db[p].key \in Key /\ db[p].key # Blank /\ db[p].data \in Data
  <2>1. db[p].op # "fetch" /\ db[p].pc \in AtChain /\ db[p].data \in Data
    BY <1>4 DEF CallOK, AtChain
  <2> QED
    BY <1>2, <2>1, Updating
<1> USE <1>5
<1>6. Holds(p) /\ db[p].idxoff = i
  BY <1>2, <1>4 DEF Holds, ProcOK, StoreOK
<1>7. /\ i \in DOMAIN idx /\ own[i] = 0 /\ idx[i].key = db[p].key
      /\ idx[i].datoff = db[p].datoff /\ idx[i].next = db[p].ptrval
      /\ db[p].ptrval = head[c] /\ dat[db[p].datoff] = db[p].data
  BY <1>2, <1>4, <1>6 DEF ProcOK, StoreOK
<1>8. DOMAIN own = DOMAIN idx /\ i \notin Anchor /\ i \in 0 .. Len(idx)
  BY <1>4, <1>7, Numbers DEF Numbering
<1>9. head' = [head EXCEPT ![c] = i] /\ idx' = idx
  BY DEF WritePtr
<1> USE <1>9
<1>10. FilesOK' /\ Grows
  BY <1>4, <1>8, PointerWritten
<1>11. /\ db'[p].pc = "idle" /\ FieldsOK(p)' /\ HasLocks(p)' /\ CallOK(p)'
       /\ \A own2, rank2 : ProcOK(own2, rank2, p)'
       /\ DOMAIN db' = Proc /\ \A q \in Proc : q # p => db'[q] = db[q]
  <2>1. 0 \in Nat /\ DOMAIN db = Proc
    BY SMTT(30) DEF IInv
  <2> QED
    BY <1>10, <2>1, IdleOK
<1>12. LocksOK' /\ \A q \in Proc : q # p => LocksKept(q)
  BY UnLock DEF IInv
<1>13. Others(p)
  BY <1>11, <1>12 DEF Others
<1>14. \A x : Detour(x) => Detour(x)'
  <2>1. db[p].pc \notin {"tofree", "unlink"}
    OBVIOUS
  <2> QED
    BY <1>13, <2>1, DetourStays
<1>15. Leads(own, rank, c, c, head[c])
  <2>1. /\ Cell(own, c, c) /\ ReadPtr(c) = head[c] /\ db[p].pc \notin {"tofree", "unlink"}
        /\ p \in rdlock[c] \cup wrlock[c]
    BY DEF Cell, ReadPtr
  <2> QED
    BY <2>1, NoDetour
<1>16. PICK own2, rank2 : /\ own2 = [own EXCEPT ![i] = c]
                          /\ rank2 = [rank EXCEPT ![i] = max + 1]
  OBVIOUS
<1>17. /\ own2[i] = c /\ DOMAIN own2 = DOMAIN idx
       /\ \A l \in DOMAIN idx : l # i => own2[l] = own[l]
  BY <1>7, <1>8, <1>16
<1>18. /\ Numbering(own2, rank2, max + 1)' /\ PointersOK(own2, rank2)'
       /\ \A g \in Anchor : g # c => SameList(own, rank, own2, rank2, g)
  <2>1. Joins(own, rank, max, c, i, own2, rank2)
    <3>1. idx[i].next = head[c]
      BY <1>7
    <3> QED
      BY <1>7, <1>14, <1>15, <1>16, <3>1 DEF Joins
  <2> QED
    BY <2>1, PushPointers
<1>19. RecordsOK' /\ Indexed' = Indexed
  BY DEF IInv, RecordsOK, Indexed
<1>20. HeldOnce'
  <2>1. db'[p].pc # "writeidx" /\ ~ Holds(p)'
    BY <1>11 DEF Holds
  <2> QED
    BY <1>13, <2>1, HeldMove
<1>21. MembersOK(own2)'
  <2>1. MembersOK(own)
    BY DEF Numbered
  <2>2. Moves(own, own2, p, i)
    <3>1. \A l \in DOMAIN idx' : l # i =>
            /\ l \in DOMAIN idx /\ own2[l] = own[l]
            /\ idx'[l].key = idx[l].key /\ idx'[l].datoff = idx[l].datoff
      BY <1>17
    <3>2. Home(idx'[i]) = own2[i] /\ own2[i] # FREE /\ own2[i] # 0
      BY <1>2, <1>7, <1>17 DEF Home
    <3>3. dat[idx'[i].datoff] # Blank
      BY <1>7, DbAssumption DEF Blank
    <3> QED
      BY <1>6, <3>1, <3>2, <3>3 DEF Moves
  <2> QED
    BY <1>13, <2>1, <2>2, MembersMove
<1>22. ASSUME NEW q \in Proc, q # p PROVE Frame(own, rank, own2, rank2, q)
  <2>1. \A h \in Anchor : p \notin wrlock[h] => SameList(own, rank, own2, rank2, h)
    BY <1>18
  <2>2. \A l \in DOMAIN idx : own[l] = 0 /\ l # i =>
          l \in DOMAIN idx' /\ own2[l] = 0 /\ idx'[l] = idx[l]
    BY <1>17
  <2>3. \A l \in DOMAIN idx' : l \in DOMAIN idx /\ idx'[l].datoff = idx[l].datoff
    OBVIOUS
  <2>4. Indexed' \subseteq Indexed
    BY <1>19
  <2> QED
    BY <1>6, <1>13, <1>22, <2>1, <2>2, <2>3, <2>4, MoveFrame
<1> QED
  BY <1>10, <1>11, <1>12, <1>13, <1>18, <1>19, <1>20, <1>21, <1>22, Conclude

\* ... or appends it.
LEMMA WriteIdxNewIInv ==
    ASSUME IInv, NEW p \in Proc, WriteIdx(p), db[p].idxoff = 0
    PROVE  IInv'
<1>1. PICK own, rank, max : Numbered(own, rank, max)
  BY DEF IInv
<1> USE <1>1
<1>2. PICK c, n, k, d, r :
         /\ c = Hash[db[p].key] /\ n = Len(idx) + 1 /\ k = db[p].key /\ d = db[p].datoff
         /\ r = NewRecord(p)
  OBVIOUS
<1>3. /\ db[p].pc = "writeidx" /\ head' = head /\ dat' = dat /\ UNCHANGED locks
      /\ idx' = Append(idx, r) /\ Set(p, [pc |-> "writeptr", idxoff |-> n])
  BY <1>2 DEF WriteIdx, NewRecord
<1>4. /\ db'[p].pc = "writeptr" /\ db'[p].op = db[p].op /\ db'[p].key = db[p].key
      /\ db'[p].data = db[p].data /\ db'[p].ptroff = db[p].ptroff
      /\ db'[p].offset = db[p].offset /\ db'[p].ptrval = db[p].ptrval
      /\ db'[p].freeptr = db[p].freeptr /\ db'[p].idxoff = n /\ db'[p].datoff = db[p].datoff
      /\ db'[p].old = db[p].old /\ db'[p].pos = db[p].pos
      /\ DOMAIN db' = Proc /\ DOMAIN db'[p] = Field
      /\ \A q \in Proc : q # p => db'[q] = db[q]
  BY SMTT(30), <1>3, SetFields
<1>5. /\ FieldsOK(p) /\ HasLocks(p) /\ CallOK(p) /\ ProcOK(own, rank, p)
      /\ FilesOK /\ Numbering(own, rank, max) /\ RecordsOK
  BY DEF IInv, Numbered
<1>6. /\ k \notin Indexed /\ \A l \in DOMAIN idx : idx[l].datoff # d
      /\ d \in DOMAIN dat /\ dat[d] = db[p].data /\ db[p].ptrval = head[c]
  BY <1>2, <1>3, <1>5 DEF ProcOK, StoreOK, AtAbsent
<1>7. /\ r \in Record /\ r.key = k /\ r.datoff = d /\ r.next = db[p].ptrval
      /\ r.next \in 0 .. Len(idx)
  BY <1>2, <1>3, NewRecordOK
<1> USE <1>7
<1>8. /\ DOMAIN own = DOMAIN idx /\ DOMAIN rank = DOMAIN idx
      /\ k \in Key /\ k # Blank /\ \A l \in DOMAIN idx : idx[l].key # k
  <2>1. k \in Key /\ k # Blank
    BY <1>2, <1>3, <1>5, DbAssumption DEF CallOK, AtChain, Blank
  <2> QED
    BY <1>5, <1>6, <2>1, NotIndexed DEF Numbering
<1>9. /\ idx' \in Seq(Record) /\ n \in 0 .. Len(idx') /\ idx'[n] = r /\ n # 0
      /\ 0 .. Len(idx) \subseteq 0 .. Len(idx')
      /\ \A l \in DOMAIN idx : l \in DOMAIN idx' /\ idx'[l] = idx[l] /\ l # n
      /\ \A l \in DOMAIN idx' : l \in DOMAIN idx \/ l = n
      /\ \A l \in 0 .. Len(idx) : l # n /\ l \in 0 .. Len(idx')
      /\ n \in DOMAIN idx' /\ n \notin DOMAIN idx
  <2>1. idx \in Seq(Record)
    BY <1>5 DEF FilesOK
  <2> QED
    BY SMTT(30), <1>2, <1>3, <2>1
<1>10. FilesOK' /\ Grows
  <2>1. \A l \in DOMAIN idx' : idx'[l].next \in 0 .. Len(idx') /\ idx'[l].datoff \in DOMAIN dat'
    BY <1>3, <1>5, <1>6, <1>9 DEF FilesOK
  <2>2. head' \in [Anchor -> 0 .. Len(idx')]
    BY <1>3, <1>5, <1>9 DEF FilesOK
  <2>3. dat' \in Seq(Data \cup {Blank})
    BY <1>3, <1>5 DEF FilesOK
  <2> QED
    BY <1>3, <1>9, <2>1, <2>2, <2>3 DEF FilesOK, Grows
<1>11. LocksOK' /\ \A q \in Proc : LocksKept(q)
  BY <1>3, SameLocks DEF IInv
<1>12. Others(p)
  BY <1>4, <1>11 DEF Others
<1>13. RecordsOK'
  <2> SUFFICES ASSUME NEW m \in DOMAIN idx', NEW l \in DOMAIN idx', m # l
               PROVE  (/\ idx[m].datoff # idx[l].datoff
                       /\ idx[m].key = idx[l].key => idx[m].key = Blank)'
    BY DEF RecordsOK
  <2>1. CASE m = n
    BY <1>6, <1>8, <1>9, <2>1
  <2>2. CASE l = n
    BY <1>6, <1>8, <1>9, <2>2
  <2>3. CASE m # n /\ l # n
    <3>1. m \in DOMAIN idx /\ l \in DOMAIN idx
      BY <1>9, <2>3
    <3> QED
      BY <1>5, <1>9, <3>1 DEF RecordsOK
  <2> QED
    BY <2>1, <2>2, <2>3
<1>14. PICK own2, rank2 : /\ own2 = [l \in DOMAIN idx' |-> IF l = n THEN 0 ELSE own[l]]
                          /\ rank2 = [l \in DOMAIN idx' |-> IF l = n THEN max + 1 ELSE rank[l]]
  OBVIOUS
<1>15. /\ own2[n] = 0 /\ rank2[n] = max + 1 /\ DOMAIN own2 = DOMAIN idx'
       /\ \A l \in DOMAIN idx : own2[l] = own[l] /\ rank2[l] = rank[l]
  BY <1>9, <1>14
<1>16. Numbering(own2, rank2, max + 1)'
  <2>1. \A l \in DOMAIN idx : own[l] \in Anchor \cup {0} /\ rank[l] \in 0 .. max
    BY <1>5 DEF Numbering
  <2>2. max \in Nat
    BY <1>5 DEF Numbering
  <2>3. /\ max + 1 \in Nat /\ max + 1 \in 0 .. max + 1
        /\ \A m \in 0 .. max : m \in 0 .. max + 1 /\ m # max + 1
    BY SMTT(30), <2>2
  <2>4. own2 \in [DOMAIN idx' -> Anchor \cup {0}]
    BY <1>9, <1>14, <2>1
  <2>5. rank2 \in [DOMAIN idx' -> 0 .. max + 1]
    BY <1>9, <1>14, <2>1, <2>3
  <2>6. ASSUME NEW m \in DOMAIN idx', NEW l \in DOMAIN idx', rank2[m] = rank2[l] PROVE m = l
    <3>1. ASSUME NEW s \in DOMAIN idx PROVE rank2[s] # max + 1
      BY <1>15, <2>1, <2>3, <3>1
    <3>2. \A s, t \in DOMAIN idx : rank[s] = rank[t] => s = t
      BY <1>5 DEF Numbering
    <3> QED
      BY <1>9, <1>15, <2>6, <3>1, <3>2
  <2> QED
    BY <2>3, <2>4, <2>5, <2>6 DEF Numbering
<1>17. ASSUME NEW h \in Anchor PROVE SameList(own, rank, own2, rank2, h)
  <2>1. h # 0
    BY <1>17, NoAnchor
  <2>2. ASSUME NEW l PROVE l \in DOMAIN own /\ own[l] = h <=> l \in DOMAIN own2 /\ own2[l] = h
    BY <1>8, <1>9, <1>15, <2>1
  <2> QED
    BY <1>3, <1>8, <1>9, <1>15, <2>2 DEF SameList
<1>18. PointersOK(own2, rank2)'
  <2>1. ASSUME NEW h \in Anchor, NEW x \in Anchor \cup DOMAIN idx', Cell(own2, h, x)
        PROVE  Detour(x)' \/ Leads(own2, rank2, h, x, ReadPtr(x)')
    <3>1. Cell(own, h, x) /\ x \in Anchor \cup DOMAIN idx
      BY <1>8, <1>17, <2>1 DEF Cell, SameList
    <3>2. /\ ReadPtr(x)' = ReadPtr(x)
          /\ \A j : Leads(own, rank, h, x, j) => Leads(own2, rank2, h, x, j)
      BY <1>5, <1>17, <3>1, SameCell
    <3>3. Detour(x) \/ Leads(own, rank, h, x, ReadPtr(x))
      BY <3>1 DEF Numbered, PointersOK
    <3>4. db[p].pc \notin {"tofree", "unlink"}
      BY <1>3
    <3> QED
      BY <1>12, <3>2, <3>3, <3>4, DetourStays
  <2> QED
    BY <2>1 DEF PointersOK
<1>19. ~ Holds(p) /\ Holds(p)' /\ db'[p].pc # "writeidx" /\ db'[p].idxoff = n
  BY <1>4, <1>9 DEF Holds
<1>20. HeldOnce'
  <2>1. \A q \in Proc : db[q].idxoff # n
    BY <1>9 DEF IInv, FieldsOK
  <2> QED
    BY <1>12, <1>19, <2>1, HeldMove
<1>21. MembersOK(own2)'
  <2>1. MembersOK(own)
    BY DEF Numbered
  <2>2. Moves(own, own2, p, n)
    <3>1. \A l \in DOMAIN idx' : l # n =>
            /\ l \in DOMAIN idx /\ own2[l] = own[l]
            /\ idx'[l].key = idx[l].key /\ idx'[l].datoff = idx[l].datoff
      BY <1>9, <1>15
    <3>2. own2[n] # FREE /\ own2[n] \notin Chain /\ db[p].pc \notin {"readfree", "blankidx"}
      BY <1>3, <1>15, NoAnchor
    <3> QED
      BY <1>15, <1>19, <3>1, <3>2 DEF Moves
  <2> QED
    BY <1>3, <1>12, <2>1, <2>2, MembersMove
<1>22. FieldsOK(p)'
  BY <1>3, <1>4, <1>5, <1>9, <1>10 DEF FieldsOK, PC, AtChain, Grows
<1>23. HasLocks(p)'
  BY <1>3, <1>4, <1>5, <1>11, NoAnchor DEF HasLocks, LocksKept, AtChain, AtFree, CallOK
<1>24. CallOK(p)'
  BY <1>3, <1>4, <1>5 DEF CallOK, AtChain
<1>25. ProcOK(own2, rank2, p)'
  <2>1. /\ Hash[db'[p].key] = c /\ db'[p].key = k /\ db'[p].pc = "writeptr"
        /\ db'[p].ptrval = head'[c] /\ db'[p].idxoff = n /\ db'[p].datoff = d
        /\ db'[p].data = db[p].data /\ n # 0 /\ db'[p].ptrval = db[p].ptrval
    BY <1>2, <1>3, <1>4, <1>6, <1>9
  <2>2. /\ n \in DOMAIN idx' /\ own2[n] = 0 /\ idx'[n].datoff = d /\ idx'[n].key = k
        /\ idx'[n].next = db[p].ptrval /\ d \in DOMAIN dat' /\ dat'[d] = db[p].data
    BY <1>3, <1>6, <1>9, <1>15
  <2>3. StoreOK(own2, p)'
    BY <2>1, <2>2 DEF StoreOK, AtAbsent
  <2> QED
    BY <1>4, <2>3 DEF ProcOK, WalkOK, FoundOK, DeleteOK, AtFound
<1>26. ASSUME NEW q \in Proc, q # p PROVE Frame(own, rank, own2, rank2, q)
  <2>1. ProcOK(own, rank, q) /\ db'[q] = db[q]
    BY <1>4, <1>26 DEF Numbered
  <2>3. ASSUME Holds(q)
        PROVE  /\ db[q].idxoff \in DOMAIN idx' /\ own2[db[q].idxoff] = 0
               /\ idx'[db[q].idxoff] = idx[db[q].idxoff]
    BY <1>9, <1>15, <2>1, <2>3 DEF ProcOK, StoreOK
  <2>4. ASSUME db[q].pc \in AtAbsent PROVE db[q].key \notin Indexed'
    <3>1. db[q].key # k /\ db[q].key \notin Indexed
      <4>1. db[p].pc \in AtAbsent
        BY <1>3 DEF AtAbsent
      <4> QED
        BY <1>2, <1>26, <2>1, <2>4, <4>1, KeysApart DEF ProcOK, StoreOK
    <3>2. \A l \in DOMAIN idx' : (l \in DOMAIN idx /\ idx'[l].key = idx[l].key) \/ idx'[l].key = k
      BY <1>9
    <3> QED
      BY <3>1, <3>2 DEF Indexed
  <2>5. ASSUME db[q].pc = "writeidx", db[q].idxoff = 0
        PROVE  \A l \in DOMAIN idx' : idx'[l].datoff # db[q].datoff
    <3>1. db[q].datoff # d
      BY <1>2, <1>3, <1>26, <2>5 DEF IInv, HeldOnce
    <3>2. \A l \in DOMAIN idx : idx[l].datoff # db[q].datoff
      BY <2>1, <2>5 DEF ProcOK, StoreOK
    <3> QED
      BY <1>9, <3>1, <3>2
  <2>6. db[q].pc \in {"readfree", "blankidx", "tofree", "writeidx", "writeptr"} =>
          db[q].datoff \in DOMAIN dat
    BY InHand DEF AtFound
  <2> QED
    BY <1>3, <1>17, <2>1, <2>3, <2>4, <2>5, <2>6 DEF Frame
<1> QED
  BY <1>10, <1>11, <1>12, <1>13, <1>16, <1>18, <1>20, <1>21, <1>22, <1>23, <1>24,
     <1>25, <1>26, Conclude

-----------------------------------------------------------------------------
(* The invariant.                                                          *)

\* A database at rest satisfies the invariant: it has a numbering
\* (FilesAssumption).
LEMMA InitIInv ==
    ASSUME Init
    PROVE  IInv
<1>1. PICK f \in Files : head = f.head /\ idx = f.idx /\ dat = f.dat
  BY DEF Init
<1>2. Database(f)
  BY FilesAssumption
<1> USE <1>2
<1>3. /\ rdlock = [h \in Anchor |-> {}] /\ wrlock = [h \in Anchor |-> {}]
      /\ db = [p \in Proc |-> Idle]
  BY DEF Init
<1>4. DOMAIN db = Proc /\ \A p \in Proc : db[p] = Idle
  BY <1>3
<1>5. /\ DOMAIN Idle = Field /\ Idle.pc = "idle" /\ Idle.op = "none" /\ Idle.key = NoData
      /\ Idle.data = NoData /\ Idle.ptroff = FREE /\ Idle.offset = 0 /\ Idle.ptrval = 0
      /\ Idle.freeptr = 0 /\ Idle.idxoff = 0 /\ Idle.datoff = 0 /\ Idle.old = NoData
      /\ Idle.pos = 1
  BY SMTT(30) DEF Idle, Field
<1>6. PICK own : own = [i \in DOMAIN idx |-> Home(idx[i])]
  OBVIOUS
<1>7. PICK rank \in [DOMAIN idx -> DOMAIN idx] :
         /\ \A i, j \in DOMAIN idx : rank[i] = rank[j] => i = j
         /\ \A h \in Anchor : Leads(own, rank, h, h, head[h])
         /\ \A i \in DOMAIN idx : Leads(own, rank, own[i], i, idx[i].next)
  <2>1. own = [i \in DOMAIN f.idx |-> Home(f.idx[i])]
    BY <1>1, <1>6
  <2>2. PICK rank \in [DOMAIN f.idx -> DOMAIN f.idx] :
           /\ \A i, j \in DOMAIN f.idx : rank[i] = rank[j] => i = j
           /\ \A h \in Anchor : Leads(own, rank, h, h, f.head[h])
           /\ \A i \in DOMAIN f.idx : Leads(own, rank, own[i], i, f.idx[i].next)
    BY <2>1 DEF Database
  <2> QED
    BY <1>1, <2>2
<1>8. DOMAIN own = DOMAIN idx /\ \A i \in DOMAIN idx : own[i] = Home(idx[i])
  BY <1>6
<1>9. idx \in Seq(Record) /\ dat \in Seq(Data \cup {Blank}) /\ head \in [Anchor -> Nat]
  BY <1>1 DEF Database
<1>10. /\ \A i \in DOMAIN idx : i \in 0 .. Len(idx) /\ i \in Nat /\ i # 0
       /\ 0 \in 0 .. Len(idx) /\ 0 \in 0 .. Len(dat) /\ Len(idx) \in Nat
  BY SMTT(30), <1>9
<1> USE <1>10
<1>11. FilesOK
  <2>1. \A h \in Anchor : head[h] \in 0 .. Len(idx)
    BY <1>7, <1>8 DEF Leads
  <2>2. \A i \in DOMAIN idx : idx[i].next \in 0 .. Len(idx)
    BY <1>7, <1>8 DEF Leads
  <2>3. head \in [Anchor -> 0 .. Len(idx)]
    BY <1>9, <2>1
  <2>4. \A i \in DOMAIN idx : idx[i].datoff \in DOMAIN dat
    BY <1>1 DEF Database
  <2> QED
    BY <1>9, <2>2, <2>3, <2>4 DEF FilesOK
<1>12. RecordsOK
  BY <1>1 DEF Database, RecordsOK
<1>13. LocksOK
  <2>1. /\ rdlock \in [Anchor -> SUBSET Proc] /\ wrlock \in [Anchor -> SUBSET Proc]
        /\ \A h \in Anchor : wrlock[h] = {}
    BY <1>3
  <2> QED
    BY <2>1 DEF LocksOK
<1>14. \A p \in Proc : ~ Holds(p) /\ db[p].pc # "writeidx"
  BY <1>4, <1>5 DEF Holds
<1>15. HeldOnce
  BY <1>14 DEF HeldOnce
<1>16. ASSUME NEW p \in Proc PROVE FieldsOK(p) /\ HasLocks(p) /\ CallOK(p)
  <2>1. db[p] = Idle /\ 1 \in Nat
    BY SMTT(30), <1>4
  <2> USE <2>1
  <2>2. FieldsOK(p)
    BY <1>5, NoAnchor DEF FieldsOK, PC
  <2>3. HasLocks(p)
    BY <1>5 DEF HasLocks, AtChain, AtFree
  <2>4. CallOK(p)
    BY <1>5 DEF CallOK, AtChain
  <2> QED
    BY <2>2, <2>3, <2>4
<1>17. ASSUME NEW i \in DOMAIN idx
       PROVE  /\ own[i] \in Anchor /\ own[i] # 0
              /\ own[i] = FREE => dat[idx[i].datoff] = Blank
              /\ own[i] \in Chain => dat[idx[i].datoff] # Blank
  <2>1. idx[i].key \in Key \cup {Blank}
    <3>1. idx[i] \in Record
      BY SMTT(30), <1>9
    <3> QED
      BY SMTT(30), <3>1 DEF Record
  <2>2. dat[idx[i].datoff] = Blank <=> idx[i].key = Blank
    BY <1>1 DEF Database
  <2>3. own[i] = IF idx[i].key = Blank THEN FREE ELSE Hash[idx[i].key]
    BY <1>8 DEF Home
  <2> QED
    BY <2>1, <2>2, <2>3, NoAnchor, DbAssumption
<1>18. Numbering(own, rank, Len(idx))
  <2>1. own \in [DOMAIN idx -> Anchor \cup {0}]
    BY <1>6, <1>8, <1>17
  <2>2. rank \in [DOMAIN idx -> 0 .. Len(idx)]
    OBVIOUS
  <2> QED
    BY <1>7, <2>1, <2>2 DEF Numbering
<1>19. PointersOK(own, rank)
  <2> SUFFICES ASSUME NEW h \in Anchor, NEW x \in Anchor \cup DOMAIN idx, Cell(own, h, x)
               PROVE  Leads(own, rank, h, x, ReadPtr(x))
    BY DEF PointersOK
  <2>1. CASE x = h
    BY <1>7, <2>1 DEF ReadPtr
  <2>2. CASE x \in DOMAIN idx /\ own[x] = h
    <3>1. x \notin Anchor
      BY <1>11, <2>2, Numbers
    <3> QED
      BY <1>7, <2>2, <3>1 DEF ReadPtr
  <2> QED
    BY <1>8, <2>1, <2>2 DEF Cell
<1>20. MembersOK(own)
  BY <1>8, <1>17 DEF MembersOK
<1>21. \A p \in Proc : ProcOK(own, rank, p)
  BY <1>4, <1>5 DEF ProcOK, WalkOK, FoundOK, DeleteOK, StoreOK, Holds, AtFound, AtAbsent
<1>22. Numbered(own, rank, Len(idx))
  BY <1>18, <1>19, <1>20, <1>21 DEF Numbered
<1> QED
  BY <1>4, <1>11, <1>12, <1>13, <1>15, <1>16, <1>22 DEF IInv

\* _db_find_and_lock, one record.
LEMMA WalkIInv ==
    ASSUME IInv, NEW p \in Proc, Walk(p)
    PROVE  IInv'
<1>1. PICK i : i = db[p].offset
  OBVIOUS
<1> USE <1>1
<1>2. UNCHANGED files /\ db[p].pc = "walk" /\ i # 0
  BY DEF Walk, files
<1> USE <1>2
<1>3. CASE /\ idx[i].key # db[p].key /\ Set(p, [ptroff |-> i, offset |-> idx[i].next])
           /\ UNCHANGED locks
  BY <1>3, WalkNextIInv
<1>4. CASE /\ idx[i].key = db[p].key /\ db[p].op # "insert" /\ UNCHANGED locks
           /\ Set(p, [pc |-> Found(p, i), idxoff |-> i, datoff |-> idx[i].datoff,
                      ptrval |-> idx[i].next])
  BY <1>4, WalkFoundIInv
<1>5. CASE Return(p, db[p].data, 1) /\ un_lock(p, Hash[db[p].key])
  <2>1. Hash[db[p].key] \in Anchor
    BY NoAnchor DEF IInv, CallOK, AtChain
  <2>2. LocksOK' /\ \A q \in Proc : q # p => LocksKept(q)
    BY <1>5, <2>1, UnLock DEF IInv
  <2>3. 0 \in Nat
    BY SMTT(30)
  <2>4. db[p].pc \notin {"readfree", "blankidx", "tofree", "unlink", "writedat",
                         "writeidx", "writeptr"}
    OBVIOUS
  <2>5. db' = [db EXCEPT ![p] = [Idle EXCEPT !.pos = 0]]
    BY <1>5 DEF Return
  <2> QED
    BY <2>2, <2>3, <2>4, <2>5, IdleStep
<1> QED
  BY <1>3, <1>4, <1>5 DEF Walk, locks

\* ... its end.
LEMMA NotFoundIInv ==
    ASSUME IInv, NEW p \in Proc, NotFound(p)
    PROVE  IInv'
<1>1. UNCHANGED files /\ db[p].pc = "walk" /\ db[p].offset = 0
  BY DEF NotFound, files
<1> USE <1>1
<1>2. CASE /\ db[p].op \in {"insert", "store"} /\ UNCHANGED locks
           /\ Set(p, [pc |-> "findfree", ptrval |-> head[Hash[db[p].key]]])
  BY <1>2, NotFoundStoreIInv
<1>3. CASE Return(p, db[p].data, -1) /\ un_lock(p, Hash[db[p].key])
  <2>1. Hash[db[p].key] \in Anchor
    BY NoAnchor DEF IInv, CallOK, AtChain
  <2>2. LocksOK' /\ \A q \in Proc : q # p => LocksKept(q)
    BY <1>3, <2>1, UnLock DEF IInv
  <2>3. 0 \in Nat
    BY SMTT(30)
  <2>4. db[p].pc \notin {"readfree", "blankidx", "tofree", "unlink", "writedat",
                         "writeidx", "writeptr"}
    OBVIOUS
  <2>5. db' = [db EXCEPT ![p] = [Idle EXCEPT !.pos = 0]]
    BY <1>3 DEF Return
  <2> QED
    BY <2>2, <2>3, <2>4, <2>5, IdleStep
<1> QED
  BY <1>2, <1>3 DEF NotFound, locks

\* db_fetch reads the data and returns.
LEMMA ReadDatIInv ==
    ASSUME IInv, NEW p \in Proc, ReadDat(p)
    PROVE  IInv'
<1>1. /\ UNCHANGED files /\ db[p].pc = "readdat" /\ un_lock(p, Hash[db[p].key])
      /\ db' = [db EXCEPT ![p] = [Idle EXCEPT !.pos = 0]]
  BY DEF ReadDat, Return, files
<1> USE <1>1
<1>2. Hash[db[p].key] \in Anchor
  BY NoAnchor DEF IInv, CallOK, AtChain
<1>3. LocksOK' /\ \A q \in Proc : q # p => LocksKept(q)
  BY <1>2, UnLock DEF IInv
<1>4. 0 \in Nat
  BY SMTT(30)
<1>5. db[p].pc \notin {"readfree", "blankidx", "tofree", "unlink", "writedat",
                       "writeidx", "writeptr"}
  OBVIOUS
<1> QED
  BY <1>3, <1>4, <1>5, IdleStep

\* db_nextrec, one index record.
LEMMA NextIdxIInv ==
    ASSUME IInv, NEW p \in Proc, NextIdx(p)
    PROVE  IInv'
<1>1. PICK i : i = db[p].pos
  OBVIOUS
<1> USE <1>1
<1>2. UNCHANGED files /\ db[p].pc = "nextidx"
  BY DEF NextIdx, files
<1> USE <1>2
<1>3. i \in Nat
  BY DEF IInv, FieldsOK
<1>4. CASE /\ i <= Len(idx) /\ UNCHANGED locks
           /\ Set(p, [pos |-> i + 1, key |-> idx[i].key, datoff |-> idx[i].datoff,
                      pc |-> IF idx[i].key = Blank THEN "nextidx" ELSE "nextdat"])
  <2>1. i \in DOMAIN idx
    <3>1. i # 0
      BY DEF IInv, CallOK
    <3> QED
      BY SMTT(30), <1>3, <1>4, <3>1 DEF IInv, FilesOK
  <2> QED
    BY <1>4, <2>1, NextIdxReadIInv
<1>5. CASE db' = [db EXCEPT ![p] = [Idle EXCEPT !.pos = i]] /\ un_lock(p, FREE)
  <2>1. LocksOK' /\ \A q \in Proc : q # p => LocksKept(q)
    BY <1>5, NoAnchor, UnLock DEF IInv
  <2>2. db[p].pc \notin {"readfree", "blankidx", "tofree", "unlink", "writedat",
                         "writeidx", "writeptr"}
    OBVIOUS
  <2> QED
    BY <1>3, <1>5, <2>1, <2>2, IdleStep
<1> QED
  BY <1>4, <1>5 DEF NextIdx, locks

\* ... its data.
LEMMA NextDatIInv ==
    ASSUME IInv, NEW p \in Proc, NextDat(p)
    PROVE  IInv'
<1>1. PICK i : i = db[p].pos
  OBVIOUS
<1>2. /\ UNCHANGED files /\ db[p].pc = "nextdat" /\ un_lock(p, FREE)
      /\ db' = [db EXCEPT ![p] = [Idle EXCEPT !.pos = i]]
  BY <1>1 DEF NextDat, files
<1> USE <1>2
<1>3. i \in Nat
  BY <1>1 DEF IInv, FieldsOK
<1>4. LocksOK' /\ \A q \in Proc : q # p => LocksKept(q)
  BY NoAnchor, UnLock DEF IInv
<1>5. db[p].pc \notin {"readfree", "blankidx", "tofree", "unlink", "writedat",
                       "writeidx", "writeptr"}
  OBVIOUS
<1> QED
  BY <1>3, <1>4, <1>5, IdleStep

\* _db_findfree, one record.
LEMMA WalkFreeIInv ==
    ASSUME IInv, NEW p \in Proc, WalkFree(p)
    PROVE  IInv'
<1>1. CASE Fits(p, db[p].offset)
  BY <1>1, WalkFreeTakeIInv
<1>2. CASE ~ Fits(p, db[p].offset)
  <2>1. /\ db[p].pc = "walkfree" /\ db[p].offset # 0 /\ UNCHANGED files /\ UNCHANGED locks
        /\ Set(p, [ptroff |-> db[p].offset, offset |-> idx[db[p].offset].next])
    BY <1>2 DEF WalkFree, files, locks
  <2> QED
    BY <2>1, WalkFreeNextIInv
<1> QED
  BY <1>1, <1>2

\* What the invariant speaks of does not change.
LEMMA StutterIInv ==
    ASSUME IInv, UNCHANGED files, UNCHANGED locks, UNCHANGED db
    PROVE  IInv'
<1>1. /\ head' = head /\ idx' = idx /\ dat' = dat /\ rdlock' = rdlock /\ wrlock' = wrlock
      /\ db' = db
  BY DEF files, locks
<1> USE <1>1
<1>2. PICK own, rank, max : Numbered(own, rank, max)
  BY DEF IInv
<1> USE <1>2
<1>3. FilesOK' /\ RecordsOK' /\ LocksOK'
  BY DEF IInv, FilesOK, RecordsOK, LocksOK
<1>4. /\ \A q \in Proc : Holds(q)' <=> Holds(q)
      /\ \A x : Detour(x)' <=> Detour(x)
      /\ \A x : ReadPtr(x)' = ReadPtr(x)
  BY DEF Holds, Detour, ReadPtr
<1> USE <1>4
<1>5. HeldOnce'
  BY DEF IInv, HeldOnce
<1>6. ASSUME NEW p \in Proc
      PROVE  FieldsOK(p)' /\ HasLocks(p)' /\ CallOK(p)' /\ ProcOK(own, rank, p)'
  <2>1. /\ FieldsOK(p) /\ HasLocks(p) /\ CallOK(p) /\ ProcOK(own, rank, p)
        /\ Numbering(own, rank, max) /\ FilesOK
    BY DEF IInv, Numbered
  <2> USE <2>1
  <2>2. db[p].pc \in {"readfree", "blankidx", "tofree", "writeidx", "writeptr"} =>
          db[p].datoff \in DOMAIN dat' /\ dat'[db[p].datoff] = dat[db[p].datoff]
    BY InHand DEF AtFound
  <2>3. Frame(own, rank, own, rank, p)
    BY <2>2, DataFrame
  <2>4. DOMAIN own = DOMAIN idx'
    BY DEF Numbering
  <2>5. FieldsOK(p)'
    BY DEF FieldsOK
  <2>6. HasLocks(p)'
    BY DEF HasLocks
  <2>7. CallOK(p)'
    BY DEF CallOK
  <2> QED
    BY <2>3, <2>4, <2>5, <2>6, <2>7, Stable
<1>7. Numbering(own, rank, max)' /\ PointersOK(own, rank)'
  <2>1. Numbering(own, rank, max) /\ PointersOK(own, rank)
    BY DEF Numbered
  <2> QED
    BY <2>1 DEF Numbering, PointersOK
<1>9. MembersOK(own)'
  <2>1. MembersOK(own)
    BY DEF Numbered
  <2> SUFFICES ASSUME NEW i \in DOMAIN idx'
               PROVE  (/\ own[i] # 0 => Home(idx[i]) = own[i]
                       /\ own[i] = FREE => dat[idx[i].datoff] = Blank
                       /\ own[i] \in Chain /\ dat[idx[i].datoff] = Blank =>
                             \E p \in Proc : /\ db[p].pc \in {"readfree", "blankidx"}
                                            /\ db[p].idxoff = i
                       /\ own[i] = 0 => \E p \in Proc : Holds(p) /\ db[p].idxoff = i)'
    BY DEF MembersOK
  <2>2. /\ i \in DOMAIN idx
        /\ own[i] # 0 => Home(idx[i]) = own[i]
        /\ own[i] = FREE => dat[idx[i].datoff] = Blank
        /\ own[i] \in Chain /\ dat[idx[i].datoff] = Blank =>
              \E p \in Proc : db[p].pc \in {"readfree", "blankidx"} /\ db[p].idxoff = i
        /\ own[i] = 0 => \E p \in Proc : Holds(p) /\ db[p].idxoff = i
    BY <2>1 DEF MembersOK
  <2> QED
    BY <2>2
<1>10. Numbered(own, rank, max)' /\ DOMAIN db' = Proc
  BY <1>6, <1>7, <1>9 DEF Numbered, IInv
<1> QED
  BY <1>3, <1>5, <1>6, <1>10 DEF IInv

\* One step of a call.
LEMMA StepIInv ==
    ASSUME IInv, NEW p \in Proc, Step(p)
    PROVE  IInv'
<1>1. CASE WriteDat(p)
  BY <1>1, WriteDatOverIInv, WriteDatNewIInv DEF WriteDat
<1>2. CASE WriteIdx(p)
  BY <1>2, WriteIdxOverIInv, WriteIdxNewIInv DEF WriteIdx
<1>3. CASE Over(p)
  <2>1. UNCHANGED files /\ UNCHANGED locks /\ UNCHANGED db
    BY <1>3 DEF Over, files, locks
  <2> QED
    BY <2>1, StutterIInv
<1> QED
  BY <1>1, <1>2, <1>3, FindAndLockIInv, WalkIInv, NotFoundIInv, ReadDatIInv,
     BlankDatIInv, ReadFreeIInv, BlankIdxIInv, ToFreeIInv, UnlinkIInv, RereadIInv,
     FindFreeIInv, WalkFreeIInv, NoFreeIInv, WritePtrChainIInv, OverwriteIInv,
     NextIdxIInv, NextDatIInv DEF Step

\* Every step.
LEMMA NextIInv ==
    ASSUME IInv, [Next]_vars
    PROVE  IInv'
<1>1. CASE UNCHANGED vars
  <2>1. UNCHANGED files /\ UNCHANGED locks /\ UNCHANGED db
    BY <1>1 DEF vars
  <2> QED
    BY <2>1, StutterIInv
<1>2. ASSUME NEW p \in Proc, NEW k \in Key,
             Call(p, "fetch", k, NoData) \/ Call(p, "delete", k, NoData)
      PROVE  IInv'
  BY <1>2, CallIInv
<1>3. ASSUME NEW p \in Proc, NEW k \in Key, NEW d \in Data,
             NEW flag \in {"insert", "replace", "store"}, Call(p, flag, k, d)
      PROVE  IInv'
  BY <1>3, CallIInv
<1> QED
  BY <1>1, <1>2, <1>3, RewindIInv, NextrecIInv, StepIInv DEF Next

\* The files and what every process knows of them, for every database and every
\* number of processes: chains and the free list are numberings in which each
\* pointer leads to the next record, except past a record that _db_dodelete is
\* taking out.
THEOREM Invariance == Spec => []IInv
<1>1. Init => IInv
  BY InitIInv
<1>2. IInv /\ [Next]_vars => IInv'
  BY NextIInv
<1> QED
  BY <1>1, <1>2, PTL DEF Spec

=============================================================================
