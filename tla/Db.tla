--------------------------------- MODULE Db ---------------------------------
(***************************************************************************)
(* The database library apue.3e/db/db.c: an index file with a hash table   *)
(* of record chains and a list of free records, a data file, and the       *)
(* record locks under which several processes fetch, store, delete and     *)
(* read sequentially.                                                      *)
(*                                                                         *)
(* The records of the index file are numbered 1, 2, ... instead of by      *)
(* offset, those of the data file too; 0 is the pointer that leads         *)
(* nowhere.  A chain pointer is a cell: the head of a chain, FREE (the     *)
(* head of the free list), or the number of the record it is part of.      *)
(* A step is one read or write of a file.  Getting a lock belongs to the   *)
(* step after it and releasing it to the step before, since no other       *)
(* process can tell.                                                       *)
(***************************************************************************)
EXTENDS Integers, Sequences, FiniteSets

CONSTANTS
    Proc,
    Key, Data,
    NoData,
    Chain, FREE,    \* the heads of chains, and FREE_OFF
    Hash,           \* _db_hash: the chain of each key
    KeyLen, DatLen, \* the lengths of keys and of data
    Files,          \* the databases to start from
    MaxUpdates      \* bound: calls of db_store and db_delete

ASSUME DbAssumption ==
    /\ Hash \in [Key -> Chain] /\ FREE \notin Chain
    /\ (Chain \cup {FREE}) \cap Nat = {}
    /\ KeyLen \in [Key -> Nat] /\ DatLen \in [Data -> Nat]
    /\ NoData \notin Key \cup Data
    /\ MaxUpdates \in Nat

VARIABLES
    head,       \* the hash table and the free list pointer
    idx,        \* the index records
    dat,        \* the data records
    rdlock, wrlock, \* the processes that hold each lock
    db,         \* the DB structure of each process, with its locals
    last,       \* the outcome of a call that returned and is not over
    scan,       \* of each sequential read: keys it owes, and keys it returned
    updates

files == <<head, idx, dat>>
locks == <<rdlock, wrlock>>
vars == <<files, locks, db, last, scan, updates>>

\* A key or data of blanks.
Blank == NoData

Anchor == Chain \cup {FREE}

\* An index record.  One on the free list has a key of blanks.
Record == [key : Key \cup {Blank}, keylen : Nat, datoff : Nat, datlen : Nat, next : Nat]

Home(r) == IF r.key = Blank THEN FREE ELSE Hash[r.key]

\* Cell x of list h points to record j (0: to none), if list h is the records i
\* with own[i] = h in the order of falling rank.
Below(rank, i, x) == x \in Anchor \/ rank[i] < rank[x]

Leads(own, rank, h, x, j) ==
    LET After == {i \in DOMAIN own : own[i] = h /\ Below(rank, i, x)}
    IN  IF j = 0 THEN After = {} ELSE j \in After /\ \A i \in After : rank[i] <= rank[j]

\* The files of a database that nobody has open: every index record is on the
\* chain of its key or, if blank, on the free list, and has its own data.
Database(f) ==
    /\ f.head \in [Anchor -> Nat] /\ f.idx \in Seq(Record)
    /\ f.dat \in Seq(Data \cup {Blank})
    /\ \A i \in DOMAIN f.idx :
          /\ f.idx[i].datoff \in DOMAIN f.dat
          /\ f.dat[f.idx[i].datoff] = Blank <=> f.idx[i].key = Blank
    /\ \A i, j \in DOMAIN f.idx : i # j =>
          /\ f.idx[i].datoff # f.idx[j].datoff
          /\ f.idx[i].key = f.idx[j].key => f.idx[i].key = Blank
    /\ LET own == [i \in DOMAIN f.idx |-> Home(f.idx[i])]
       IN  \E rank \in [DOMAIN f.idx -> DOMAIN f.idx] :
              /\ \A i, j \in DOMAIN f.idx : rank[i] = rank[j] => i = j
              /\ \A h \in Anchor : Leads(own, rank, h, h, f.head[h])
              /\ \A i \in DOMAIN f.idx : Leads(own, rank, own[i], i, f.idx[i].next)

ASSUME FilesAssumption == \A f \in Files : Database(f)

Idle == [pc |-> "idle", op |-> "none", key |-> NoData, data |-> NoData,
         ptroff |-> FREE, offset |-> 0, ptrval |-> 0, freeptr |-> 0,
         idxoff |-> 0, datoff |-> 0, old |-> NoData, pos |-> 1]

NoOutcome == [op |-> "none", key |-> NoData, data |-> NoData, rc |-> 0]

\* What db_open leaves: an index file with nothing but a hash table of zeroes and
\* an empty data file, or the files of a database that was there.
Init ==
    /\ \E f \in Files : head = f.head /\ idx = f.idx /\ dat = f.dat
    /\ rdlock = [h \in Anchor |-> {}]
    /\ wrlock = [h \in Anchor |-> {}]
    /\ db = [p \in Proc |-> Idle]
    /\ last = [p \in Proc |-> NoOutcome]
    /\ scan = [p \in Proc |-> [owes |-> {}, seen |-> {}]]
    /\ updates = 0

-----------------------------------------------------------------------------
(* Locks, pointers and returns.                                            *)

CanRead(p, h) == wrlock[h] \subseteq {p}

CanWrite(p, h) == wrlock[h] \cup rdlock[h] \subseteq {p}

readw_lock(p, h) ==
    /\ CanRead(p, h)
    /\ rdlock' = [rdlock EXCEPT ![h] = @ \cup {p}]
    /\ UNCHANGED wrlock

writew_lock(p, h) ==
    /\ CanWrite(p, h)
    /\ wrlock' = [wrlock EXCEPT ![h] = @ \cup {p}]
    /\ UNCHANGED rdlock

un_lock(p, h) ==
    /\ rdlock' = [rdlock EXCEPT ![h] = @ \ {p}]
    /\ wrlock' = [wrlock EXCEPT ![h] = @ \ {p}]

\* _db_readptr and _db_writeptr.
ReadPtr(cell) == IF cell \in Anchor THEN head[cell] ELSE idx[cell].next

WritePtr(cell, val) ==
    \/ /\ cell \in Anchor
       /\ head' = [head EXCEPT ![cell] = val]
       /\ UNCHANGED idx
    \/ /\ cell \notin Anchor
       /\ idx' = [idx EXCEPT ![cell].next = val]
       /\ UNCHANGED head

\* The fields of process p's structure that f has change.
Set(p, f) ==
    db' = [db EXCEPT ![p] = [x \in DOMAIN @ |-> IF x \in DOMAIN f THEN f[x] ELSE @[x]]]

Outcome(p, d, rc) == [op |-> db[p].op, key |-> db[p].key, data |-> d, rc |-> rc]

\* Return; the file offset that db_nextrec would use is lost to other calls.
Return(p, d, rc) ==
    /\ last' = [last EXCEPT ![p] = Outcome(p, d, rc)]
    /\ db' = [db EXCEPT ![p] = [Idle EXCEPT !.pos = 0]]

\* The keys with an index record.
Indexed == {idx[i].key : i \in DOMAIN idx} \ {Blank}

-----------------------------------------------------------------------------
(* The calls begin.                                                        *)

Update == {"insert", "replace", "store", "delete"}

Ready(p) == db[p].pc = "idle" /\ last[p] = NoOutcome

\* The caller has its result.
Over(p) ==
    /\ last[p] # NoOutcome
    /\ last' = [last EXCEPT ![p] = NoOutcome]
    /\ UNCHANGED <<files, locks, db, scan, updates>>

\* db_store with one of its flags, db_delete or db_fetch.
Call(p, op, k, d) ==
    /\ Ready(p)
    /\ op \in Update => updates < MaxUpdates
    /\ updates' = IF op \in Update THEN updates + 1 ELSE updates
    /\ db' = [db EXCEPT ![p] = [Idle EXCEPT !.pc = "find", !.op = op, !.key = k,
                                            !.data = d, !.pos = 0]]
    /\ scan' = [scan EXCEPT ![p] = [owes |-> {}, seen |-> {}]]
    /\ UNCHANGED <<files, locks, last>>

\* Mutant: the offset is that of the second record.
RewindPast(p) ==
    /\ Ready(p)
    /\ Set(p, [pos |-> 2])
    /\ scan' = [scan EXCEPT ![p] = [owes |-> Indexed, seen |-> {}]]
    /\ UNCHANGED <<files, locks, last, updates>>

\* db_rewind.
Rewind(p) ==
    /\ Ready(p)
    /\ Set(p, [pos |-> 1])
    /\ scan' = [scan EXCEPT ![p] = [owes |-> Indexed, seen |-> {}]]
    /\ UNCHANGED <<files, locks, last, updates>>

-----------------------------------------------------------------------------
(* _db_find_and_lock.                                                      *)

\* Lock the chain, for reading only if the call is db_fetch, and read its head.
FindAndLock(p) ==
    LET c == Hash[db[p].key]
    IN  /\ db[p].pc = "find"
        /\ IF db[p].op = "fetch" THEN readw_lock(p, c) ELSE writew_lock(p, c)
        /\ Set(p, [pc |-> "walk", ptroff |-> c, offset |-> head[c]])
        /\ UNCHANGED <<files, last, scan, updates>>

\* Where a call goes on when its key is found in record i, or (0) in none.
Found(p, i) ==
    CASE db[p].op = "fetch" -> "readdat"
      [] db[p].op = "delete" -> "dodelete"
      [] OTHER -> IF idx[i].datlen = DatLen[db[p].data] THEN "overwrite" ELSE "dodelete"

\* _db_readidx of the next record of the chain.
Walk(p) ==
    LET i == db[p].offset
    IN  /\ db[p].pc = "walk" /\ i # 0
        /\ \/ /\ idx[i].key # db[p].key
              /\ Set(p, [ptroff |-> i, offset |-> idx[i].next])
              /\ UNCHANGED <<locks, last>>
           \/ /\ idx[i].key = db[p].key /\ db[p].op # "insert"
              /\ Set(p, [pc |-> Found(p, i), idxoff |-> i, datoff |-> idx[i].datoff,
                         ptrval |-> idx[i].next])
              /\ UNCHANGED <<locks, last>>
           \/ /\ idx[i].key = db[p].key /\ db[p].op = "insert"
              /\ Return(p, db[p].data, 1)
              /\ un_lock(p, Hash[db[p].key])
        /\ UNCHANGED <<files, scan, updates>>

\* The end of the chain: db_store goes on with a new record.
NotFound(p) ==
    /\ db[p].pc = "walk" /\ db[p].offset = 0
    /\ \/ /\ db[p].op \in {"insert", "store"}
          /\ Set(p, [pc |-> "findfree", ptrval |-> head[Hash[db[p].key]]])
          /\ UNCHANGED <<locks, last>>
       \/ /\ db[p].op \in {"fetch", "delete", "replace"}
          /\ Return(p, db[p].data, -1)
          /\ un_lock(p, Hash[db[p].key])
    /\ UNCHANGED <<files, scan, updates>>

\* db_fetch: _db_readdat, and the chain is unlocked.
ReadDat(p) ==
    /\ db[p].pc = "readdat"
    /\ Return(p, dat[db[p].datoff], 0)
    /\ un_lock(p, Hash[db[p].key])
    /\ UNCHANGED <<files, scan, updates>>

-----------------------------------------------------------------------------
(* _db_dodelete.                                                           *)

\* Mutant: the free list is locked only when it is changed.
BlankDatUnlocked(p) ==
    /\ db[p].pc = "dodelete"
    /\ dat' = [dat EXCEPT ![db[p].datoff] = Blank]
    /\ Set(p, [pc |-> "readfree", old |-> dat[db[p].datoff]])
    /\ UNCHANGED <<head, idx, locks, last, scan, updates>>

\* Lock the free list and fill the data record with blanks.
BlankDat(p) ==
    /\ db[p].pc = "dodelete"
    /\ writew_lock(p, FREE)
    /\ dat' = [dat EXCEPT ![db[p].datoff] = Blank]
    /\ Set(p, [pc |-> "readfree", old |-> dat[db[p].datoff]])
    /\ UNCHANGED <<head, idx, last, scan, updates>>

ReadFree(p) ==
    /\ db[p].pc = "readfree"
    /\ Set(p, [pc |-> "blankidx", freeptr |-> head[FREE]])
    /\ UNCHANGED <<files, locks, last, scan, updates>>

\* The index record gets a key of blanks and the free list behind it.  (A
\* sequential read no longer owes the key.)
BlankIdx(p) ==
    /\ db[p].pc = "blankidx"
    /\ idx' = [idx EXCEPT ![db[p].idxoff].key = Blank,
                          ![db[p].idxoff].next = db[p].freeptr]
    /\ Set(p, [pc |-> "tofree"])
    /\ scan' = [q \in Proc |-> [scan[q] EXCEPT !.owes = @ \ {db[p].key}]]
    /\ UNCHANGED <<head, dat, locks, last, updates>>

ToFree(p) ==
    /\ db[p].pc = "tofree"
    /\ WritePtr(FREE, db[p].idxoff)
    /\ Set(p, [pc |-> "unlink"])
    /\ UNCHANGED <<dat, locks, last, scan, updates>>

\* Mutant: the pointer of the record is used as _db_writeidx left it.
UnlinkUnsaved(p) ==
    /\ db[p].pc = "unlink"
    /\ WritePtr(db[p].ptroff, db[p].freeptr)
    /\ \/ /\ db[p].op = "delete"
          /\ rdlock' = rdlock
          /\ wrlock' = [wrlock EXCEPT ![FREE] = @ \ {p},
                                      ![Hash[db[p].key]] = @ \ {p}]
          /\ Return(p, NoData, 0)
       \/ /\ db[p].op # "delete"
          /\ un_lock(p, FREE)
          /\ Set(p, [pc |-> "reread", idxoff |-> 0, datoff |-> 0])
          /\ UNCHANGED last
    /\ UNCHANGED <<dat, scan, updates>>

\* The record leaves the chain; db_store appends its successor, db_delete
\* returns.
Unlink(p) ==
    /\ db[p].pc = "unlink"
    /\ WritePtr(db[p].ptroff, db[p].ptrval)
    /\ \/ /\ db[p].op = "delete"
          /\ rdlock' = rdlock
          /\ wrlock' = [wrlock EXCEPT ![FREE] = @ \ {p},
                                      ![Hash[db[p].key]] = @ \ {p}]
          /\ Return(p, NoData, 0)
       \/ /\ db[p].op # "delete"
          /\ un_lock(p, FREE)
          /\ Set(p, [pc |-> "reread", idxoff |-> 0, datoff |-> 0])
          /\ UNCHANGED last
    /\ UNCHANGED <<dat, scan, updates>>

\* Reread the chain pointer in the hash table.
Reread(p) ==
    /\ db[p].pc = "reread"
    /\ Set(p, [pc |-> "writedat", ptrval |-> head[Hash[db[p].key]]])
    /\ UNCHANGED <<files, locks, last, scan, updates>>

-----------------------------------------------------------------------------
(* _db_findfree.                                                           *)

\* Lock the free list and read its head.
FindFree(p) ==
    /\ db[p].pc = "findfree"
    /\ writew_lock(p, FREE)
    /\ Set(p, [pc |-> "walkfree", ptroff |-> FREE, offset |-> head[FREE]])
    /\ UNCHANGED <<files, last, scan, updates>>

\* The lengths of record i are those of the key and data to be stored.
Fits(p, i) ==
    /\ idx[i].keylen = KeyLen[db[p].key]
    /\ idx[i].datlen = DatLen[db[p].data]

\* Look at a free record; the first that fits is taken off the list.
WalkFree(p) ==
    LET i == db[p].offset
    IN  /\ db[p].pc = "walkfree" /\ i # 0
        /\ \/ /\ ~ Fits(p, i)
              /\ Set(p, [ptroff |-> i, offset |-> idx[i].next])
              /\ UNCHANGED <<files, locks>>
           \/ /\ Fits(p, i)
              /\ WritePtr(db[p].ptroff, idx[i].next)
              /\ un_lock(p, FREE)
              /\ Set(p, [pc |-> "writedat", idxoff |-> i, datoff |-> idx[i].datoff])
              /\ UNCHANGED dat
        /\ UNCHANGED <<last, scan, updates>>

NoFree(p) ==
    /\ db[p].pc = "walkfree" /\ db[p].offset = 0
    /\ un_lock(p, FREE)
    /\ Set(p, [pc |-> "writedat"])
    /\ UNCHANGED <<files, last, scan, updates>>

-----------------------------------------------------------------------------
(* The end of db_store.                                                    *)

\* _db_writedat, at the end of the file (0) or over a free record.
WriteDat(p) ==
    /\ db[p].pc = "writedat"
    /\ \/ /\ db[p].datoff = 0
          /\ dat' = Append(dat, db[p].data)
          /\ Set(p, [pc |-> "writeidx", datoff |-> Len(dat) + 1])
       \/ /\ db[p].datoff # 0
          /\ dat' = [dat EXCEPT ![db[p].datoff] = db[p].data]
          /\ Set(p, [pc |-> "writeidx"])
    /\ UNCHANGED <<head, idx, locks, last, scan, updates>>

\* Mutant: the offset is taken after the write.
WriteIdxThenSeek(p) ==
    LET r == [key |-> db[p].key, keylen |-> KeyLen[db[p].key],
              datoff |-> db[p].datoff, datlen |-> DatLen[db[p].data],
              next |-> db[p].ptrval]
    IN  /\ db[p].pc = "writeidx"
        /\ \/ /\ db[p].idxoff = 0
              /\ idx' = Append(idx, r)
              /\ Set(p, [pc |-> "writeptr", idxoff |-> Len(idx) + 2])
           \/ /\ db[p].idxoff # 0
              /\ idx' = [idx EXCEPT ![db[p].idxoff] = r]
              /\ Set(p, [pc |-> "writeptr"])
        /\ UNCHANGED <<head, dat, locks, last, scan, updates>>

\* _db_writeidx.
WriteIdx(p) ==
    LET r == [key |-> db[p].key, keylen |-> KeyLen[db[p].key],
              datoff |-> db[p].datoff, datlen |-> DatLen[db[p].data],
              next |-> db[p].ptrval]
    IN  /\ db[p].pc = "writeidx"
        /\ \/ /\ db[p].idxoff = 0
              /\ idx' = Append(idx, r)
              /\ Set(p, [pc |-> "writeptr", idxoff |-> Len(idx) + 1])
           \/ /\ db[p].idxoff # 0
              /\ idx' = [idx EXCEPT ![db[p].idxoff] = r]
              /\ Set(p, [pc |-> "writeptr"])
        /\ UNCHANGED <<head, dat, locks, last, scan, updates>>

\* The new record goes to the front of the chain, which is unlocked.
WritePtrChain(p) ==
    /\ db[p].pc = "writeptr"
    /\ WritePtr(Hash[db[p].key], db[p].idxoff)
    /\ un_lock(p, Hash[db[p].key])
    /\ Return(p, db[p].data, 0)
    /\ UNCHANGED <<dat, scan, updates>>

\* Same size data: just replace the data record.
Overwrite(p) ==
    /\ db[p].pc = "overwrite"
    /\ dat' = [dat EXCEPT ![db[p].datoff] = db[p].data]
    /\ un_lock(p, Hash[db[p].key])
    /\ Return(p, db[p].data, 0)
    /\ UNCHANGED <<head, idx, scan, updates>>

-----------------------------------------------------------------------------
(* db_nextrec, by a caller that has called db_rewind since its last other  *)
(* call.                                                                   *)

\* Read lock the free list.
Nextrec(p) ==
    /\ Ready(p) /\ db[p].pos # 0
    /\ readw_lock(p, FREE)
    /\ Set(p, [pc |-> "nextidx", op |-> "nextrec"])
    /\ UNCHANGED <<files, last, scan, updates>>

\* Mutant: the file offset stays at the record that is returned.
NextIdxStays(p) ==
    LET i == db[p].pos
    IN  /\ db[p].pc = "nextidx"
        /\ \/ /\ i <= Len(idx)
              /\ Set(p, [pos |-> IF idx[i].key = Blank THEN i + 1 ELSE i,
                         key |-> idx[i].key, datoff |-> idx[i].datoff,
                         pc |-> IF idx[i].key = Blank THEN "nextidx" ELSE "nextdat"])
              /\ UNCHANGED <<locks, last>>
           \/ /\ i > Len(idx)
              /\ last' = [last EXCEPT ![p] = Outcome(p, NoData, -1)]
              /\ db' = [db EXCEPT ![p] = [Idle EXCEPT !.pos = i]]
              /\ un_lock(p, FREE)
        /\ UNCHANGED <<files, scan, updates>>

\* Read the next index record, and skip it if its key is blank; at the end of
\* the file return.
NextIdx(p) ==
    LET i == db[p].pos
    IN  /\ db[p].pc = "nextidx"
        /\ \/ /\ i <= Len(idx)
              /\ Set(p, [pos |-> i + 1, key |-> idx[i].key, datoff |-> idx[i].datoff,
                         pc |-> IF idx[i].key = Blank THEN "nextidx" ELSE "nextdat"])
              /\ UNCHANGED <<locks, last>>
           \/ /\ i > Len(idx)
              /\ last' = [last EXCEPT ![p] = Outcome(p, NoData, -1)]
              /\ db' = [db EXCEPT ![p] = [Idle EXCEPT !.pos = i]]
              /\ un_lock(p, FREE)
        /\ UNCHANGED <<files, scan, updates>>

\* Read its data and return.
NextDat(p) ==
    /\ db[p].pc = "nextdat"
    /\ last' = [last EXCEPT ![p] = Outcome(p, dat[db[p].datoff], 0)]
    /\ db' = [db EXCEPT ![p] = [Idle EXCEPT !.pos = db[p].pos]]
    /\ un_lock(p, FREE)
    /\ scan' = [scan EXCEPT ![p].seen = @ \cup {db[p].key}]
    /\ UNCHANGED <<files, updates>>

Step(p) ==
    \/ FindAndLock(p) \/ Walk(p) \/ NotFound(p) \/ ReadDat(p)
    \/ BlankDat(p) \/ ReadFree(p) \/ BlankIdx(p) \/ ToFree(p) \/ Unlink(p)
    \/ Reread(p) \/ FindFree(p) \/ WalkFree(p) \/ NoFree(p)
    \/ WriteDat(p) \/ WriteIdx(p) \/ WritePtrChain(p) \/ Overwrite(p)
    \/ NextIdx(p) \/ NextDat(p) \/ Over(p)

Next ==
    \E p \in Proc :
       \/ \E k \in Key : Call(p, "fetch", k, NoData) \/ Call(p, "delete", k, NoData)
       \/ \E k \in Key, d \in Data, flag \in {"insert", "replace", "store"} :
             Call(p, flag, k, d)
       \/ Rewind(p) \/ Nextrec(p)
       \/ Step(p)

Spec == Init /\ [][Next]_vars

-----------------------------------------------------------------------------

\* Type correctness; every offset a process is about to read is that of a
\* record, so that none of the checks of _db_readidx ends in err_dump.
TypeOK ==
    /\ head \in [Anchor -> 0 .. Len(idx)]
    /\ \A i \in DOMAIN idx :
          /\ idx[i].key \in Key \cup {Blank}
          /\ idx[i].next \in 0 .. Len(idx)
          /\ idx[i].datoff \in DOMAIN dat
    /\ \A i \in DOMAIN dat : dat[i] \in Data \cup {Blank}
    /\ rdlock \in [Anchor -> SUBSET Proc] /\ wrlock \in [Anchor -> SUBSET Proc]
    /\ \A p \in Proc :
          /\ db[p].ptroff \in Anchor \cup DOMAIN idx
          /\ {db[p].offset, db[p].ptrval, db[p].freeptr, db[p].idxoff} \subseteq 0 .. Len(idx)
          /\ db[p].datoff \in 0 .. Len(dat)
    /\ updates \in 0 .. MaxUpdates

\* The records on the list that starts at anchor h: those in every set that has
\* its first record and with each record the next.
ListOf(h) ==
    LET Closed(S) == /\ head[h] \in S \cup {0}
                     /\ \A i \in S : idx[i].next \in S \cup {0}
    IN  {i \in DOMAIN idx : \A S \in SUBSET DOMAIN idx : Closed(S) => i \in S}

\* Between updates the lists are what readers take them for.  A chain nobody
\* has write locked holds records of its own keys, one per key; a free list
\* nobody has write locked holds blank records; every list ends; no record is on
\* two of them; and when nothing is locked every record is on one.
WellFormed ==
    LET List == [h \in {a \in Anchor : wrlock[a] = {}} |-> ListOf(h)]
    IN  /\ \A h \in DOMAIN List :
              /\ List[h] # {} => \E i \in List[h] : idx[i].next = 0
              /\ \A i \in List[h] :
                    IF h = FREE THEN idx[i].key = Blank /\ dat[idx[i].datoff] = Blank
                    ELSE idx[i].key \in {k \in Key : Hash[k] = h}
              /\ \A i, j \in List[h] :
                    h # FREE /\ idx[i].key = idx[j].key => i = j
        /\ \A g, h \in DOMAIN List : g # h => List[g] \cap List[h] = {}
        /\ DOMAIN List = Anchor => UNION {List[h] : h \in Anchor} = DOMAIN idx

\* A sequential read that has reached the end of the index file has returned
\* every key that was there when it began and whose record was not deleted or
\* moved by a replacement meanwhile,
ScanComplete ==
    \A p \in Proc : db[p].pc = "idle" /\ db[p].pos > Len(idx) => scan[p].owes \subseteq scan[p].seen

\* ... and returns none of them twice.
ScanOnce ==
    [][\A p \in Proc : NextDat(p) => db[p].key \notin scan[p].owes \cap scan[p].seen]_vars

=============================================================================
