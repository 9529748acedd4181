------------------------------- MODULE DbInv --------------------------------
(***************************************************************************)
(* The inductive invariant of Db.                                          *)
(*                                                                         *)
(* A record is on at most one list at a time. own says on which one (0     *)
(* while a process has it to itself), and rank numbers the records so      *)
(* that the pointers of a list lead to smaller and smaller numbers; so no  *)
(* list has a cycle, two lists never meet, and both survive the moment in  *)
(* which a record has left the chain and the pointer before it does not    *)
(* know yet (Detour). For every process the invariant says what it may     *)
(* count on at the step it has reached, by the locks it holds.             *)
(***************************************************************************)
EXTENDS Db

\* Where a process is in its call, by what it may count on there.
AtChain == {"walk", "readdat", "dodelete", "overwrite", "readfree", "blankidx",
            "tofree", "unlink", "reread", "findfree", "walkfree", "writedat",
            "writeidx", "writeptr"}
AtFree == {"readfree", "blankidx", "tofree", "unlink", "walkfree"}
AtFound == {"readdat", "dodelete", "overwrite", "readfree", "blankidx"}
AtAbsent == {"tofree", "unlink", "reread", "findfree", "walkfree", "writedat", "writeidx"}

PC == AtChain \cup {"idle", "find", "nextidx", "nextdat"}

Field == {"pc", "op", "key", "data", "ptroff", "offset", "ptrval", "freeptr", "idxoff",
          "datoff", "old", "pos"}

\* The files, record by record.
FilesOK ==
    /\ head \in [Anchor -> 0 .. Len(idx)]
    /\ idx \in Seq(Record) /\ dat \in Seq(Data \cup {Blank})
    /\ \A i \in DOMAIN idx : idx[i].next \in 0 .. Len(idx) /\ idx[i].datoff \in DOMAIN dat

\* Every index record has its own data, and every key one index record.
RecordsOK ==
    \A i, j \in DOMAIN idx : i # j =>
       /\ idx[i].datoff # idx[j].datoff
       /\ idx[i].key = idx[j].key => idx[i].key = Blank

\* Whoever has write locked a list is the only one who has locked it.
LocksOK ==
    /\ rdlock \in [Anchor -> SUBSET Proc] /\ wrlock \in [Anchor -> SUBSET Proc]
    /\ \A h \in Anchor, p, q \in Proc :
          p \in wrlock[h] /\ q \in wrlock[h] \cup rdlock[h] => p = q

\* The structure of process p: its fields,
FieldsOK(p) ==
    /\ DOMAIN db[p] = Field
    /\ db[p].pc \in PC
    /\ db[p].op \in Update \cup {"none", "fetch", "nextrec"}
    /\ db[p].key \in Key \cup {NoData}
    /\ db[p].data \in Data \cup {NoData} /\ db[p].old \in Data \cup {NoData}
    /\ db[p].ptroff \in Anchor \cup DOMAIN idx
    /\ db[p].offset \in 0 .. Len(idx) /\ db[p].ptrval \in 0 .. Len(idx)
    /\ db[p].freeptr \in 0 .. Len(idx) /\ db[p].idxoff \in 0 .. Len(idx)
    /\ db[p].datoff \in 0 .. Len(dat)
    /\ db[p].pos \in Nat

\* ... the locks it has where it is,
HasLocks(p) ==
    /\ db[p].pc \in AtChain =>
          p \in IF db[p].op = "fetch" THEN rdlock[Hash[db[p].key]]
                                      ELSE wrlock[Hash[db[p].key]]
    /\ db[p].pc \in AtFree => p \in wrlock[FREE]
    /\ db[p].pc \in {"nextidx", "nextdat"} => p \in rdlock[FREE]

\* ... and the calls that lead there.
CallOK(p) ==
    /\ db[p].pc \in AtChain \cup {"find"} =>
          db[p].key \in Key /\ db[p].op \in Update \cup {"fetch"}
    /\ db[p].op \in {"insert", "replace", "store"} => db[p].data \in Data
    /\ db[p].op \in {"delete", "fetch", "nextrec", "none"} => db[p].data = NoData
    /\ db[p].pc = "readdat" => db[p].op = "fetch"
    /\ db[p].pc \in {"dodelete", "readfree", "blankidx", "tofree", "unlink"} =>
          db[p].op \in {"delete", "replace", "store"}
    /\ db[p].pc \in {"overwrite", "reread"} => db[p].op \in {"replace", "store"}
    /\ db[p].pc \in {"findfree", "walkfree"} => db[p].op \in {"insert", "store"}
    /\ db[p].pc \in {"writedat", "writeidx", "writeptr"} =>
          /\ db[p].op \in {"insert", "replace", "store"}
          /\ db[p].op = "insert" => db[p].old = NoData
          /\ db[p].op = "replace" => db[p].old # NoData
    /\ db[p].pc \in {"readfree", "blankidx", "tofree", "unlink", "reread"} =>
          db[p].old # NoData
    /\ db[p].pc \in {"idle", "find", "walk", "readdat", "dodelete", "overwrite",
                     "findfree", "walkfree", "nextidx", "nextdat"} => db[p].old = NoData
    /\ db[p].pc = "idle" => db[p].op = "none" /\ db[p].key = NoData
    /\ db[p].pc \in {"nextidx", "nextdat"} => db[p].op = "nextrec" /\ db[p].pos # 0
    /\ db[p].pc = "nextidx" => db[p].key = NoData
    /\ db[p].pc = "nextdat" => db[p].key \in Key

\* A process that has an index record of its own, on no list.
Holds(p) ==
    /\ db[p].pc \in {"tofree", "writedat", "writeidx", "writeptr"}
    /\ db[p].idxoff # 0

\* No two processes have the same record.
HeldOnce ==
    \A p, q \in Proc :
       /\ Holds(p) /\ Holds(q) /\ db[p].idxoff = db[q].idxoff => p = q
       /\ /\ db[p].pc = "writeidx" /\ db[q].pc = "writeidx"
          /\ db[p].datoff = db[q].datoff
          => p = q

Cell(own, h, x) == x = h \/ (x \in DOMAIN own /\ own[x] = h)

\* A cell that still points to the record that is being deleted.
Detour(x) == \E p \in Proc : db[p].pc \in {"tofree", "unlink"} /\ db[p].ptroff = x

\* A numbering of the records: own[i] is the list that record i is on, or 0 if a
\* process has it, and a list is in the order of falling rank.
Numbering(own, rank, max) ==
    /\ own \in [DOMAIN idx -> Anchor \cup {0}]
    /\ max \in Nat /\ rank \in [DOMAIN idx -> 0 .. max]
    /\ \A i, j \in DOMAIN idx : rank[i] = rank[j] => i = j

\* Every pointer leads to the next record of its list, except one past a record
\* that is being deleted.
PointersOK(own, rank) ==
    \A h \in Anchor, x \in Anchor \cup DOMAIN idx :
       Cell(own, h, x) => Detour(x) \/ Leads(own, rank, h, x, ReadPtr(x))

\* The records of a list are the ones that belong there.
MembersOK(own) ==
    \A i \in DOMAIN idx :
       /\ own[i] # 0 => Home(idx[i]) = own[i]
       /\ own[i] = FREE => dat[idx[i].datoff] = Blank
       /\ own[i] \in Chain /\ dat[idx[i].datoff] = Blank =>
             \E p \in Proc : db[p].pc \in {"readfree", "blankidx"} /\ db[p].idxoff = i
       /\ own[i] = 0 => \E p \in Proc : Holds(p) /\ db[p].idxoff = i

\* What process p knows of the lists it has locked and of its record: it is at a
\* cell of the chain (or of the free list) and has not passed the key;
WalkOK(own, rank, p) ==
    /\ db[p].pc = "walk" =>
          /\ Cell(own, Hash[db[p].key], db[p].ptroff)
          /\ db[p].offset = ReadPtr(db[p].ptroff)
          /\ \A i \in DOMAIN idx :
                own[i] = Hash[db[p].key] /\ idx[i].key = db[p].key =>
                   Below(rank, i, db[p].ptroff)
    /\ db[p].pc = "walkfree" =>
          Cell(own, FREE, db[p].ptroff) /\ db[p].offset = ReadPtr(db[p].ptroff)
    /\ db[p].pc \in {"find", "walk", "reread", "findfree", "walkfree"} =>
          db[p].idxoff = 0 /\ db[p].datoff = 0

\* ... it has found its key in record idxoff,
FoundOK(own, p) ==
    /\ db[p].pc \in AtFound =>
          /\ db[p].idxoff \in DOMAIN idx /\ own[db[p].idxoff] = Hash[db[p].key]
          /\ idx[db[p].idxoff].key = db[p].key
          /\ idx[db[p].idxoff].datoff = db[p].datoff
    /\ db[p].pc \in {"dodelete", "readfree", "blankidx"} =>
          /\ Cell(own, Hash[db[p].key], db[p].ptroff)
          /\ ReadPtr(db[p].ptroff) = db[p].idxoff
          /\ idx[db[p].idxoff].next = db[p].ptrval

\* ... which it is deleting,
DeleteOK(own, rank, p) ==
    /\ db[p].pc \in {"tofree", "unlink"} =>
          /\ Cell(own, Hash[db[p].key], db[p].ptroff)
          /\ Leads(own, rank, Hash[db[p].key], db[p].ptroff, db[p].ptrval)
    /\ db[p].pc \in {"blankidx", "tofree"} => db[p].freeptr = head[FREE]
    /\ db[p].pc = "tofree" =>
          db[p].idxoff # 0 /\ idx[db[p].idxoff].next = db[p].freeptr
    /\ db[p].pc \in {"readfree", "blankidx", "tofree"} => dat[db[p].datoff] = Blank

\* ... or the key is not there, and it has, or goes without, a free record to
\* put in front of the chain.
StoreOK(own, p) ==
    /\ db[p].pc \in AtAbsent => db[p].key \notin Indexed
    /\ db[p].pc \in {"findfree", "walkfree", "writedat", "writeidx", "writeptr"} =>
          db[p].ptrval = head[Hash[db[p].key]]
    /\ Holds(p) =>
          /\ db[p].idxoff \in DOMAIN idx /\ own[db[p].idxoff] = 0
          /\ idx[db[p].idxoff].datoff = db[p].datoff
          /\ idx[db[p].idxoff].key = IF db[p].pc = "writeptr" THEN db[p].key ELSE Blank
    /\ db[p].pc = "writedat" /\ db[p].idxoff = 0 => db[p].datoff = 0
    /\ db[p].pc = "writeidx" /\ db[p].idxoff = 0 =>
          \A i \in DOMAIN idx : idx[i].datoff # db[p].datoff
    /\ db[p].pc = "writeptr" =>
          db[p].idxoff # 0 /\ idx[db[p].idxoff].next = db[p].ptrval
    /\ db[p].pc \in {"writeidx", "writeptr"} =>
          db[p].datoff \in DOMAIN dat /\ dat[db[p].datoff] = db[p].data

ProcOK(own, rank, p) ==
    /\ WalkOK(own, rank, p) /\ FoundOK(own, p)
    /\ DeleteOK(own, rank, p) /\ StoreOK(own, p)

Numbered(own, rank, max) ==
    /\ Numbering(own, rank, max) /\ PointersOK(own, rank) /\ MembersOK(own)
    /\ \A p \in Proc : ProcOK(own, rank, p)

IInv ==
    /\ FilesOK /\ RecordsOK /\ LocksOK /\ HeldOnce
    /\ DOMAIN db = Proc
    /\ \A p \in Proc : FieldsOK(p) /\ HasLocks(p) /\ CallOK(p)
    /\ \E own, rank, max : Numbered(own, rank, max)
=============================================================================
