---------------------------- MODULE DbMapProofs -----------------------------
(***************************************************************************)
(* Proofs about Db, third part: what a step does to the index records, to the*)
(* sequential reads under way, and to the map that the files stand for.    *)
(***************************************************************************)
EXTENDS DbLemmas, DbMap

\* Almost every leaf is a matter of logic, not of arithmetic.
USE ZenonT(40)

-----------------------------------------------------------------------------
(* What the steps do to the index records.                                 *)

KeysKept ==
    /\ DOMAIN idx' = DOMAIN idx
    /\ \A i \in DOMAIN idx : idx'[i].key = idx[i].key /\ idx'[i].datoff = idx[i].datoff

Alone(p) == \A q \in Proc : q # p => db'[q] = db[q]

\* A call other than db_nextrec.
Calling(p) == db[p].pc \in AtChain \cup {"find"}

\* The steps of a call that neither blank nor write an index record.
Plain(p) ==
    \/ FindAndLock(p) \/ Walk(p) \/ NotFound(p) \/ ReadDat(p)
    \/ BlankDat(p) \/ ReadFree(p) \/ ToFree(p) \/ Unlink(p) \/ Reread(p)
    \/ FindFree(p) \/ WalkFree(p) \/ NoFree(p)
    \/ WriteDat(p) \/ WritePtrChain(p) \/ Overwrite(p)

\* Set changes one process.
LEMMA SetAlone ==
    ASSUME IInv, NEW p, NEW f, Set(p, f)
    PROVE  Alone(p)
BY DEF IInv, Set, Alone

\* So does the return from a call.
LEMMA ReturnAlone ==
    ASSUME IInv, NEW p, NEW d, NEW rc, Return(p, d, rc)
    PROVE  Alone(p)
BY DEF IInv, Return, Alone

\* An index file that does not change keeps its keys.
LEMMA SameKeys ==
    ASSUME idx' = idx
    PROVE  KeysKept
BY DEF KeysKept

\* _db_writeptr changes no key and no data offset.
LEMMA WritePtrKeys ==
    ASSUME IInv, NEW x \in Anchor \cup DOMAIN idx, NEW v, WritePtr(x, v)
    PROVE  KeysKept
<1>1. CASE x \in Anchor
  BY <1>1, SameKeys DEF WritePtr
<1>2. CASE x \in DOMAIN idx
  <2>1. idx' = [idx EXCEPT ![x].next = v] /\ idx \in Seq(Record)
    BY <1>2, Numbers DEF WritePtr, IInv, FilesOK
  <2>2. idx[x] \in Record
    BY SMTT(30), <1>2, <2>1
  <2> DEFINE r == [idx[x] EXCEPT !.next = v]
  <2>3. r.key = idx[x].key /\ r.datoff = idx[x].datoff
    BY SMTT(30), <2>2 DEF Record
  <2>4. idx' = [idx EXCEPT ![x] = r]
    BY <2>1
  <2> HIDE DEF r
  <2>5. DOMAIN idx' = DOMAIN idx /\ idx'[x] = r /\ \A i \in DOMAIN idx : i # x => idx'[i] = idx[i]
    BY SMTT(30), <1>2, <2>1, <2>4
  <2> QED
    BY <2>3, <2>5 DEF KeysKept
<1> QED
  BY <1>1, <1>2

\* The plain steps keep every key and every data offset, and let the others be.
LEMMA PlainEffect ==
    ASSUME IInv, NEW p \in Proc, Plain(p)
    PROVE  KeysKept /\ Alone(p) /\ Calling(p) /\ scan' = scan
<1>1. CASE FindAndLock(p)
  BY <1>1, SameKeys, SetAlone DEF FindAndLock, files, Calling
<1>2. CASE Walk(p)
  BY <1>2, SameKeys, SetAlone, ReturnAlone DEF Walk, files, Calling, AtChain
<1>3. CASE NotFound(p)
  BY <1>3, SameKeys, SetAlone, ReturnAlone DEF NotFound, files, Calling, AtChain
<1>4. CASE ReadDat(p)
  BY <1>4, SameKeys, ReturnAlone DEF ReadDat, files, Calling, AtChain
<1>5. CASE BlankDat(p)
  BY <1>5, SameKeys, SetAlone DEF BlankDat, Calling, AtChain
<1>6. CASE ReadFree(p) \/ Reread(p)
  BY <1>6, SameKeys, SetAlone DEF ReadFree, Reread, files, Calling, AtChain
<1>7. CASE ToFree(p)
  <2>1. FREE \in Anchor \cup DOMAIN idx
    BY NoAnchor
  <2> QED
    BY <1>7, <2>1, WritePtrKeys, SetAlone DEF ToFree, Calling, AtChain
<1>8. CASE Unlink(p)
  <2>1. db[p].ptroff \in Anchor \cup DOMAIN idx
    BY DEF IInv, FieldsOK
  <2> QED
    BY <1>8, <2>1, WritePtrKeys, SetAlone, ReturnAlone DEF Unlink, Calling, AtChain
<1>9. CASE FindFree(p) \/ NoFree(p)
  BY <1>9, SameKeys, SetAlone DEF FindFree, NoFree, files, Calling, AtChain
<1>10. CASE WalkFree(p)
  <2>1. db[p].ptroff \in Anchor \cup DOMAIN idx
    BY DEF IInv, FieldsOK
  <2> QED
    BY <1>10, <2>1, WritePtrKeys, SameKeys, SetAlone
       DEF WalkFree, files, Calling, AtChain
<1>11. CASE WriteDat(p)
  BY <1>11, SameKeys, SetAlone DEF WriteDat, Calling, AtChain
<1>12. CASE WritePtrChain(p)
  <2>1. Hash[db[p].key] \in Anchor \cup DOMAIN idx
    BY <1>12, NoAnchor DEF WritePtrChain, IInv, CallOK, AtChain
  <2> QED
    BY <1>12, <2>1, WritePtrKeys, ReturnAlone DEF WritePtrChain, Calling, AtChain
<1>13. CASE Overwrite(p)
  BY <1>13, SameKeys, ReturnAlone DEF Overwrite, Calling, AtChain
<1> QED
  BY <1>1, <1>2, <1>3, <1>4, <1>5, <1>6, <1>7, <1>8, <1>9, <1>10, <1>11, <1>12, <1>13
     DEF Plain

\* The record of the key turns blank.
LEMMA BlankIdxEffect ==
    ASSUME IInv, NEW p \in Proc, BlankIdx(p)
    PROVE  /\ Alone(p) /\ Calling(p) /\ db[p].key \in Key /\ dat' = dat
           /\ db[p].idxoff \in DOMAIN idx /\ idx[db[p].idxoff].key = db[p].key
           /\ idx[db[p].idxoff].datoff = db[p].datoff
           /\ DOMAIN idx' = DOMAIN idx /\ idx'[db[p].idxoff].key = Blank
           /\ \A i \in DOMAIN idx : i # db[p].idxoff => idx'[i] = idx[i]
<1>1. PICK own, rank, max : Numbered(own, rank, max)
  BY DEF IInv
<1>2. PICK i, f : i = db[p].idxoff /\ f = db[p].freeptr
  OBVIOUS
<1>3. /\ db[p].pc = "blankidx" /\ Set(p, [pc |-> "tofree"]) /\ dat' = dat
      /\ idx' = [idx EXCEPT ![i].key = Blank, ![i].next = f]
  BY <1>2 DEF BlankIdx
<1>4. /\ i \in DOMAIN idx /\ idx[i].key = db[p].key /\ idx[i].datoff = db[p].datoff
  BY <1>1, <1>2, <1>3 DEF Numbered, ProcOK, FoundOK, AtFound
<1>5. Calling(p) /\ db[p].key \in Key
  BY <1>3 DEF IInv, CallOK, Calling, AtChain
<1>6. /\ DOMAIN idx' = DOMAIN idx /\ idx'[i].key = Blank
      /\ \A j \in DOMAIN idx : j # i => idx'[j] = idx[j]
  <2>1. idx \in Seq(Record)
    BY DEF IInv, FilesOK
  <2>2. idx[i] \in Record
    BY SMTT(30), <1>4, <2>1
  <2> DEFINE r == [idx[i] EXCEPT !.key = Blank, !.next = f]
  <2>3. r.key = Blank
    BY SMTT(30), <2>2 DEF Record
  <2>4. idx' = [idx EXCEPT ![i] = r]
    BY <1>3, <1>4, <2>1, <2>2
  <2> HIDE DEF r
  <2> QED
    BY SMTT(30), <1>4, <2>1, <2>3, <2>4
<1> QED
  BY <1>2, <1>3, <1>4, <1>5, <1>6, SetAlone

\* A record is written over a blank one or at the end; the key was in none.
LEMMA WriteIdxEffect ==
    ASSUME IInv, NEW p \in Proc, WriteIdx(p)
    PROVE  /\ Alone(p) /\ Calling(p) /\ db[p].key \in Key /\ db[p].key \notin Indexed
           /\ dat' = dat /\ db[p].pc = "writeidx"
           /\ \E n : /\ n \in DOMAIN idx => idx[n].key = Blank
                     /\ \A i : i \in DOMAIN idx' <=> i \in DOMAIN idx \/ i = n
                     /\ idx'[n].key = db[p].key /\ idx'[n].datoff = db[p].datoff
                     /\ \A i \in DOMAIN idx : i # n => idx'[i] = idx[i]
<1>1. PICK own, rank, max : Numbered(own, rank, max)
  BY DEF IInv
<1>2. PICK r : r = NewRecord(p)
  OBVIOUS
<1>3. db[p].pc = "writeidx" /\ dat' = dat
  BY DEF WriteIdx
<1> USE <1>3
<1>4. /\ r \in Record /\ r.key = db[p].key /\ r.datoff = db[p].datoff
  BY <1>2, NewRecordOK
<1>5. Calling(p) /\ db[p].key \in Key /\ db[p].key \notin Indexed
  BY <1>1 DEF IInv, CallOK, Calling, AtChain, Numbered, ProcOK, StoreOK, AtAbsent
<1>6. idx \in Seq(Record)
  BY DEF IInv, FilesOK
<1>7. CASE db[p].idxoff = 0
  <2>1. idx' = Append(idx, r) /\ Alone(p)
    BY <1>2, <1>7, SetAlone DEF WriteIdx, NewRecord
  <2>2. PICK n : n = Len(idx) + 1
    OBVIOUS
  <2>3. /\ n \notin DOMAIN idx /\ DOMAIN idx' = DOMAIN idx \cup {n} /\ idx'[n] = r
        /\ \A i \in DOMAIN idx : idx'[i] = idx[i]
    BY SMTT(30), <1>4, <1>6, <2>1, <2>2
  <2> QED
    BY <1>4, <1>5, <2>1, <2>3
<1>8. CASE db[p].idxoff # 0
  <2>1. PICK n : n = db[p].idxoff
    OBVIOUS
  <2>2. idx' = [idx EXCEPT ![n] = r] /\ Alone(p)
    BY <1>2, <1>8, <2>1, SetAlone DEF WriteIdx, NewRecord
  <2>3. n \in DOMAIN idx /\ idx[n].key = Blank
    BY <1>1, <1>8, <2>1 DEF Numbered, ProcOK, StoreOK, Holds
  <2>4. /\ DOMAIN idx' = DOMAIN idx /\ idx'[n] = r
        /\ \A i \in DOMAIN idx : i # n => idx'[i] = idx[i]
    BY SMTT(30), <1>6, <2>2, <2>3
  <2> QED
    BY <1>4, <1>5, <2>2, <2>3, <2>4
<1> QED
  BY <1>7, <1>8

-----------------------------------------------------------------------------
(* Sequential reads.                                                       *)

\* The keys that the read of process p owes are in the index; it has returned
\* those in front of its offset and none behind, but for one it has just read.
ScanOK(p) ==
    /\ scan[p].owes \subseteq Indexed
    /\ Calling(p) => scan[p].owes = {}
    /\ \A i \in DOMAIN idx : idx[i].key \in scan[p].owes =>
          \/ idx[i].key \in scan[p].seen /\ i < db[p].pos
          \/ /\ idx[i].key \notin scan[p].seen
             /\ i >= db[p].pos \/ (db[p].pc = "nextdat" /\ db[p].key = idx[i].key)
    /\ db[p].pc = "nextdat" /\ db[p].key \in scan[p].owes =>
          /\ db[p].key \notin scan[p].seen
          /\ \A i \in DOMAIN idx : idx[i].key = db[p].key => i < db[p].pos

ScanType == scan \in [Proc -> [owes : SUBSET Key, seen : SUBSET Key]]

ScanInv == ScanType /\ \A p \in Proc : ScanOK(p)

\* The keys that process q owes stay where they are.
OwedKept(q) ==
    /\ scan'[q].owes \subseteq scan[q].owes /\ scan'[q].seen = scan[q].seen
    /\ scan'[q].owes \subseteq Indexed'
    /\ \A i \in DOMAIN idx' : idx'[i].key \in scan'[q].owes =>
          i \in DOMAIN idx /\ idx'[i].key = idx[i].key

\* A read that is not moving stays right when its keys stay.
LEMMA ScanKept ==
    ASSUME NEW q \in Proc, ScanOK(q), OwedKept(q), db'[q] = db[q]
    PROVE  ScanOK(q)'
<1>1. (Calling(q) => scan[q].owes = {})'
  BY DEF ScanOK, Calling, OwedKept
<1>2. ASSUME NEW i \in DOMAIN idx', idx'[i].key \in scan'[q].owes
      PROVE  (\/ idx[i].key \in scan[q].seen /\ i < db[q].pos
              \/ /\ idx[i].key \notin scan[q].seen
                 /\ i >= db[q].pos \/ (db[q].pc = "nextdat" /\ db[q].key = idx[i].key))'
  <2>1. i \in DOMAIN idx /\ idx'[i].key = idx[i].key /\ idx[i].key \in scan[q].owes
    BY <1>2 DEF OwedKept
  <2>2. \/ idx[i].key \in scan[q].seen /\ i < db[q].pos
        \/ /\ idx[i].key \notin scan[q].seen
           /\ i >= db[q].pos \/ (db[q].pc = "nextdat" /\ db[q].key = idx[i].key)
    BY <2>1 DEF ScanOK
  <2> QED
    BY <2>1, <2>2 DEF OwedKept
<1>3. ASSUME db[q].pc = "nextdat", db[q].key \in scan'[q].owes
      PROVE  /\ db[q].key \notin scan[q].seen
             /\ \A i \in DOMAIN idx' : idx'[i].key = db[q].key => i < db[q].pos
  BY <1>3 DEF OwedKept, ScanOK
<1>4. (db[q].pc = "nextdat" /\ db[q].key \in scan[q].owes =>
          /\ db[q].key \notin scan[q].seen
          /\ \A i \in DOMAIN idx : idx[i].key = db[q].key => i < db[q].pos)'
  BY <1>3 DEF OwedKept
<1>5. (scan[q].owes \subseteq Indexed)'
  BY DEF OwedKept
<1> QED
  BY <1>1, <1>2, <1>4, <1>5 DEF ScanOK

\* A read that owes nothing is right.
LEMMA ScanNone ==
    ASSUME NEW q \in Proc, scan'[q].owes = {}
    PROVE  ScanOK(q)'
BY DEF ScanOK

\* A step that keeps the keys keeps those that are owed.
LEMMA KeysOwed ==
    ASSUME KeysKept, NEW q \in Proc, scan'[q] = scan[q], ScanOK(q)
    PROVE  OwedKept(q) /\ Indexed' = Indexed
<1>1. \A k : k \in Indexed' <=> k \in Indexed
  BY DEF KeysKept, Indexed
<1>2. Indexed' = Indexed
  BY <1>1
<1> QED
  BY <1>2 DEF OwedKept, KeysKept, ScanOK

\* The plain steps,
LEMMA PlainScan ==
    ASSUME IInv, ScanInv, NEW p \in Proc, Plain(p)
    PROVE  ScanInv'
<1>1. KeysKept /\ Alone(p) /\ Calling(p) /\ scan' = scan
  BY PlainEffect
<1>2. ASSUME NEW q \in Proc, q # p PROVE ScanOK(q)'
  BY <1>1, <1>2, KeysOwed, ScanKept DEF ScanInv, Alone
<1>3. ScanOK(p)'
  <2>1. scan'[p].owes = {}
    BY <1>1 DEF ScanInv, ScanOK
  <2> QED
    BY <2>1, ScanNone
<1> QED
  BY <1>1, <1>2, <1>3 DEF ScanInv, ScanType

\* ... a delete: its key is owed no longer,
LEMMA BlankIdxScan ==
    ASSUME IInv, ScanInv, NEW p \in Proc, BlankIdx(p)
    PROVE  ScanInv'
<1>1. PICK k, i : k = db[p].key /\ i = db[p].idxoff
  OBVIOUS
<1> USE <1>1
<1>2. /\ Alone(p) /\ Calling(p) /\ i \in DOMAIN idx /\ idx[i].key = k
      /\ DOMAIN idx' = DOMAIN idx /\ idx'[i].key = Blank
      /\ \A j \in DOMAIN idx : j # i => idx'[j] = idx[j]
  BY BlankIdxEffect
<1> USE <1>2
<1>3. scan' = [q \in Proc |-> [scan[q] EXCEPT !.owes = scan[q].owes \ {k}]]
  BY DEF BlankIdx
<1> USE <1>3
<1>4. ASSUME NEW q \in Proc
      PROVE  /\ scan'[q].owes = scan[q].owes \ {k} /\ scan'[q].seen = scan[q].seen
             /\ scan'[q] \in [owes : SUBSET Key, seen : SUBSET Key]
  <2>1. scan[q] \in [owes : SUBSET Key, seen : SUBSET Key]
    BY DEF ScanInv, ScanType
  <2>2. scan'[q] = [scan[q] EXCEPT !.owes = scan[q].owes \ {k}]
    OBVIOUS
  <2> QED
    BY SMTT(30), <2>1, <2>2
<1>5. ScanType'
  BY <1>4 DEF ScanType
<1>6. ASSUME NEW q \in Proc PROVE OwedKept(q)
  <2>1. scan[q].owes \subseteq Indexed
    BY DEF ScanInv, ScanOK
  <2> USE <2>1
  <2>2. ASSUME NEW z \in Indexed, z # k PROVE z \in Indexed'
    <3>1. PICK j \in DOMAIN idx : idx[j].key = z
      BY DEF Indexed
    <3> USE <3>1
    <3>2. j # i /\ z # Blank
      BY <2>2 DEF Indexed
    <3> QED
      BY <3>2 DEF Indexed
  <2>3. Blank \notin scan[q].owes
    BY DEF Indexed
  <2> QED
    BY <1>4, <2>2, <2>3 DEF OwedKept
<1>7. ASSUME NEW q \in Proc, q # p PROVE ScanOK(q)'
  BY <1>6, <1>7, ScanKept DEF ScanInv, Alone
<1>8. scan'[p].owes = {}
  BY <1>4 DEF ScanInv, ScanOK
<1> QED
  BY <1>5, <1>7, <1>8, ScanNone DEF ScanInv

\* ... a store: its key is in front or behind, and not owed,
LEMMA WriteIdxScan ==
    ASSUME IInv, ScanInv, NEW p \in Proc, WriteIdx(p)
    PROVE  ScanInv'
<1>1. /\ db[p].key \notin Indexed /\ Alone(p) /\ Calling(p)
      /\ \E n : /\ n \in DOMAIN idx => idx[n].key = Blank
                /\ \A i : i \in DOMAIN idx' <=> i \in DOMAIN idx \/ i = n
                /\ idx'[n].key = db[p].key /\ idx'[n].datoff = db[p].datoff
                /\ \A i \in DOMAIN idx : i # n => idx'[i] = idx[i]
  BY WriteIdxEffect
<1> USE <1>1
<1>6. PICK n : /\ n \in DOMAIN idx => idx[n].key = Blank
               /\ \A i : i \in DOMAIN idx' <=> i \in DOMAIN idx \/ i = n
               /\ idx'[n].key = db[p].key
               /\ \A i \in DOMAIN idx : i # n => idx'[i] = idx[i]
  OBVIOUS
<1>2. scan' = scan
  BY DEF WriteIdx
<1> USE <1>2
<1>3. ASSUME NEW q \in Proc PROVE OwedKept(q)
  <2>1. scan[q].owes \subseteq Indexed
    BY DEF ScanInv, ScanOK
  <2>2. ASSUME NEW z \in Indexed PROVE z \in Indexed'
    BY <1>6 DEF Indexed
  <2> QED
    BY <1>6, <2>1, <2>2 DEF OwedKept
<1>4. ASSUME NEW q \in Proc, q # p PROVE ScanOK(q)'
  BY <1>3, <1>4, ScanKept DEF ScanInv, Alone
<1>5. scan'[p].owes = {}
  BY DEF ScanInv, ScanOK
<1> QED
  BY <1>4, <1>5, ScanNone DEF ScanInv, ScanType

\* ... a call: it gives up the read of its own process,
LEMMA CallScan ==
    ASSUME IInv, ScanInv, NEW p \in Proc, NEW op, NEW k, NEW d, Call(p, op, k, d)
    PROVE  ScanInv'
<1>1. /\ idx' = idx /\ Alone(p)
      /\ scan' = [scan EXCEPT ![p] = [owes |-> {}, seen |-> {}]]
  BY DEF Call, files, Alone, IInv
<1>2. ScanType' /\ scan'[p].owes = {} /\ \A q \in Proc : q # p => scan'[q] = scan[q]
  BY SMTT(30), <1>1 DEF ScanInv, ScanType
<1>3. ASSUME NEW q \in Proc, q # p PROVE ScanOK(q)'
  BY <1>1, <1>2, <1>3, SameKeys, KeysOwed, ScanKept DEF ScanInv, Alone
<1> QED
  BY <1>2, <1>3, ScanNone DEF ScanInv

\* ... db_rewind: every key is owed, and the offset is the first,
LEMMA RewindScan ==
    ASSUME IInv, ScanInv, NEW p \in Proc, Rewind(p)
    PROVE  ScanInv'
<1>1. /\ idx' = idx /\ Alone(p) /\ db[p].pc = "idle" /\ Set(p, [pos |-> 1])
      /\ scan' = [scan EXCEPT ![p] = [owes |-> Indexed, seen |-> {}]]
  BY SetAlone DEF Rewind, Ready, files
<1> USE <1>1
<1>2. db'[p].pc = "idle" /\ db'[p].pos = 1
  BY SMTT(30), SetFields
<1>3. Indexed \subseteq Key /\ \A i \in DOMAIN idx : i >= 1
  <2>1. idx \in Seq(Record)
    BY DEF IInv, FilesOK
  <2>2. \A i \in DOMAIN idx : i >= 1 /\ idx[i] \in Record
    BY SMTT(30), <2>1
  <2> USE <2>2
  <2>3. \A i \in DOMAIN idx : idx[i].key \in Key \cup {Blank}
    BY SMTT(30) DEF Record
  <2> QED
    BY <2>3 DEF Indexed
<1> USE <1>3
<1>4. /\ ScanType' /\ scan'[p].owes = Indexed /\ scan'[p].seen = {}
      /\ \A q \in Proc : q # p => scan'[q] = scan[q]
  BY SMTT(30) DEF ScanInv, ScanType
<1> USE <1>4
<1>5. ASSUME NEW q \in Proc, q # p PROVE ScanOK(q)'
  BY <1>5, SameKeys, KeysOwed, ScanKept DEF ScanInv, Alone
<1>6. ScanOK(p)'
  <2>1. Indexed' = Indexed
    BY DEF Indexed
  <2> QED
    BY <1>2, <2>1 DEF ScanOK, Calling, AtChain
<1> QED
  BY <1>5, <1>6 DEF ScanInv

\* The read of process p goes on, without another key, at the same offset.
LEMMA ScanWaits ==
    ASSUME IInv, ScanInv, NEW p \in Proc, idx' = idx, Alone(p), scan' = scan,
           db[p].pc \in {"idle", "nextidx"}, db'[p].pc \in {"idle", "nextidx"},
           db'[p].pos = db[p].pos
    PROVE  ScanInv'
<1>1. Indexed' = Indexed
  BY DEF Indexed
<1>2. ASSUME NEW q \in Proc, q # p PROVE ScanOK(q)'
  BY <1>2, SameKeys, KeysOwed, ScanKept DEF ScanInv, Alone
<1>3. ScanOK(p)'
  <2>1. /\ db[p].pc # "nextdat" /\ db'[p].pc # "nextdat"
        /\ db'[p].pc \notin AtChain \cup {"find"}
    BY DEF AtChain
  <2>2. ScanOK(p)
    BY DEF ScanInv
  <2> QED
    BY <1>1, <2>1, <2>2 DEF ScanOK, Calling
<1> QED
  BY <1>2, <1>3 DEF ScanInv, ScanType

\* ... and the steps of db_nextrec.
LEMMA NextrecScan ==
    ASSUME IInv, ScanInv, NEW p \in Proc, Nextrec(p)
    PROVE  ScanInv'
<1>1. /\ idx' = idx /\ Alone(p) /\ scan' = scan /\ db[p].pc = "idle"
      /\ Set(p, [pc |-> "nextidx", op |-> "nextrec"])
  BY SetAlone DEF Nextrec, Ready, files
<1>2. db'[p].pc = "nextidx" /\ db'[p].pos = db[p].pos
  BY SMTT(30), <1>1, SetFields
<1> QED
  BY <1>1, <1>2, ScanWaits

\* It reads an index record.
LEMMA NextIdxScan ==
    ASSUME IInv, ScanInv, NEW p \in Proc, NextIdx(p)
    PROVE  ScanInv'
<1>1. PICK i, k : i = db[p].pos /\ k = idx[i].key
  OBVIOUS
<1> USE <1>1
<1>2. idx' = idx /\ scan' = scan /\ db[p].pc = "nextidx" /\ ScanOK(p)
  BY DEF NextIdx, files, ScanInv
<1> USE <1>2
<1>3. CASE i > Len(idx)
  <2>1. db' = [db EXCEPT ![p] = [Idle EXCEPT !.pos = i]]
    <3>1. ~ (i <= Len(idx))
      BY SMTT(30), <1>3 DEF IInv, FieldsOK, FilesOK
    <3> QED
      BY <3>1 DEF NextIdx
  <2> USE <2>1
  <2>2. Alone(p)
    BY DEF Alone, IInv
  <2>3. db'[p].pc = "idle" /\ db'[p].pos = db[p].pos
    BY SMTT(30) DEF IInv, Idle
  <2> QED
    BY <2>2, <2>3, ScanWaits
<1>4. CASE i <= Len(idx)
  <2>1. i \in DOMAIN idx /\ i \in Nat /\ ~ (i > Len(idx)) /\ \A j \in DOMAIN idx : j \in Nat
    <3>1. i \in Nat /\ i # 0 /\ idx \in Seq(Record)
      BY DEF IInv, FieldsOK, FilesOK, CallOK
    <3> QED
      BY SMTT(30), <1>4, <3>1
  <2> USE <2>1
  <2>2. Set(p, [pos |-> i + 1, key |-> k, datoff |-> idx[i].datoff,
                pc |-> IF k = Blank THEN "nextidx" ELSE "nextdat"])
    BY DEF NextIdx
  <2> USE <2>2
  <2>3. /\ db'[p].pos = i + 1 /\ db'[p].key = k
        /\ db'[p].pc = IF k = Blank THEN "nextidx" ELSE "nextdat"
    BY SMTT(30), SetFields
  <2> USE <2>3
  <2>4. Alone(p) /\ Indexed' = Indexed
    BY SetAlone DEF Indexed
  <2> USE <2>4
  <2>5. ASSUME NEW q \in Proc, q # p PROVE ScanOK(q)'
    BY <2>5, SameKeys, KeysOwed, ScanKept DEF ScanInv, Alone
  <2>6. ASSUME NEW j \in DOMAIN idx, idx[j].key \in scan[p].owes
        PROVE  \/ idx[j].key \in scan[p].seen /\ j < i + 1 /\ j < i
               \/ /\ idx[j].key \notin scan[p].seen
                  /\ j >= i + 1 \/ (j = i /\ k # Blank)
    <3>1. \/ idx[j].key \in scan[p].seen /\ j < i
          \/ idx[j].key \notin scan[p].seen /\ j >= i
      BY <2>6 DEF ScanOK
    <3>2. idx[j].key # Blank
      BY <2>6 DEF ScanOK, Indexed
    <3>3. j < i => j < i + 1
      BY SMTT(30)
    <3>4. j >= i => j >= i + 1 \/ j = i
      BY SMTT(30)
    <3> QED
      BY <3>1, <3>2, <3>3, <3>4
  <2>7. ASSUME k \in scan[p].owes
        PROVE  k \notin scan[p].seen /\ \A j \in DOMAIN idx : idx[j].key = k => j < i + 1
    <3>1. k # Blank
      BY <2>7 DEF ScanOK, Indexed
    <3>2. \A j \in DOMAIN idx : idx[j].key = k => j = i
      BY <3>1 DEF IInv, RecordsOK
    <3>3. ~ (i < i) /\ i < i + 1
      BY SMTT(30)
    <3> QED
      BY <2>6, <2>7, <3>2, <3>3
  <2>8. ScanOK(p)'
    <3>1. (scan[p].owes \subseteq Indexed)' /\ ~ Calling(p)'
      BY DEF ScanOK, Calling, AtChain
    <3>2. ASSUME NEW j \in DOMAIN idx', idx'[j].key \in scan'[p].owes
          PROVE  (\/ idx[j].key \in scan[p].seen /\ j < db[p].pos
                  \/ /\ idx[j].key \notin scan[p].seen
                     /\ j >= db[p].pos \/ (db[p].pc = "nextdat" /\ db[p].key = idx[j].key))'
      BY <2>6, <3>2
    <3>3. (db[p].pc = "nextdat" /\ db[p].key \in scan[p].owes =>
             /\ db[p].key \notin scan[p].seen
             /\ \A j \in DOMAIN idx : idx[j].key = db[p].key => j < db[p].pos)'
      BY <2>7
    <3> QED
      BY <3>1, <3>2, <3>3 DEF ScanOK
  <2> QED
    BY <2>5, <2>8 DEF ScanInv, ScanType
<1>5. i > Len(idx) \/ i <= Len(idx)
  BY SMTT(30) DEF IInv, FieldsOK, FilesOK
<1> QED
  BY <1>3, <1>4, <1>5

\* It returns one.
LEMMA NextDatScan ==
    ASSUME IInv, ScanInv, NEW p \in Proc, NextDat(p)
    PROVE  ScanInv'
<1>1. PICK k : k = db[p].key
  OBVIOUS
<1> USE <1>1
<1>2. /\ idx' = idx /\ db[p].pc = "nextdat" /\ ScanOK(p)
      /\ db' = [db EXCEPT ![p] = [Idle EXCEPT !.pos = db[p].pos]]
      /\ scan' = [scan EXCEPT ![p].seen = scan[p].seen \cup {k}]
  BY DEF NextDat, files, ScanInv
<1> USE <1>2
<1>3. Alone(p) /\ Indexed' = Indexed
  BY DEF Alone, IInv, Indexed
<1> USE <1>3
<1>4. db'[p].pc = "idle" /\ db'[p].pos = db[p].pos
  BY SMTT(30) DEF IInv, Idle
<1> USE <1>4
<1>5. k \in Key
  BY DEF IInv, CallOK
<1>6. /\ ScanType' /\ scan'[p].owes = scan[p].owes /\ scan'[p].seen = scan[p].seen \cup {k}
      /\ \A q \in Proc : q # p => scan'[q] = scan[q]
  BY SMTT(30), <1>5 DEF ScanInv, ScanType
<1> USE <1>6
<1>7. ASSUME NEW q \in Proc, q # p PROVE ScanOK(q)'
  BY <1>7, SameKeys, KeysOwed, ScanKept DEF ScanInv, Alone
<1>8. \A i \in DOMAIN idx : i \in Nat
  BY SMTT(30) DEF IInv, FilesOK
<1>9. ASSUME NEW i \in DOMAIN idx, idx[i].key \in scan[p].owes
      PROVE  \/ idx[i].key \in scan[p].seen \cup {k} /\ i < db[p].pos
             \/ idx[i].key \notin scan[p].seen \cup {k} /\ i >= db[p].pos
  <2>1. \/ idx[i].key \in scan[p].seen /\ i < db[p].pos
        \/ /\ idx[i].key \notin scan[p].seen
           /\ i >= db[p].pos \/ k = idx[i].key
    BY <1>9 DEF ScanOK
  <2>2. idx[i].key = k => i < db[p].pos
    BY <1>9 DEF ScanOK
  <2> QED
    BY <2>1, <2>2
<1>10. ScanOK(p)'
  <2>1. (scan[p].owes \subseteq Indexed)' /\ ~ Calling(p)' /\ db'[p].pc # "nextdat"
    BY DEF ScanOK, Calling, AtChain
  <2>2. ASSUME NEW j \in DOMAIN idx', idx'[j].key \in scan'[p].owes
        PROVE  (\/ idx[j].key \in scan[p].seen /\ j < db[p].pos
                \/ /\ idx[j].key \notin scan[p].seen
                   /\ j >= db[p].pos \/ (db[p].pc = "nextdat" /\ db[p].key = idx[j].key))'
    BY <1>9, <2>2
  <2> QED
    BY <2>1, <2>2 DEF ScanOK
<1> QED
  BY <1>7, <1>10 DEF ScanInv

-----------------------------------------------------------------------------
(* The library implements a map.                                           *)

\* A step of the map, key by key and process by process: only process p is told
\* the outcome of a call, and only the data of key k may change.
SameOutcomes(p) == \A q \in Proc : q # p => Effective(q)' = Effective(q)

Told(p, op, k, d, rc) ==
    SameOutcomes(p) /\ Effective(p)' = [op |-> op, key |-> k, data |-> d, rc |-> rc]

SameData(k) == \A j \in Key : j # k => Content(j)' = Content(j)

\* The outcome that is told is the one the map returns.
LEMMA ToldLast ==
    ASSUME NEW p \in Proc, NEW op, NEW k, NEW d, NEW rc, Told(p, op, k, d, rc)
    PROVE  /\ Abstract!Returns(p, op, k, d, rc)
           /\ Last'[p].op = op /\ Last'[p].key = k /\ Last'[p].data = d
<1>1. PICK o : o = [op |-> op, key |-> k, data |-> d, rc |-> rc]
  OBVIOUS
<1> USE <1>1
<1>2. o.op = op /\ o.key = k /\ o.data = d
  BY SMTT(30)
<1>3. Effective(p)' = o /\ SameOutcomes(p)
  BY DEF Told
<1>4. Last' = [Last EXCEPT ![p] = o] /\ Last'[p] = o
  BY <1>3 DEF SameOutcomes, Last
<1> QED
  BY <1>2, <1>4 DEF Abstract!Returns, Abstract!Outcome

\* If only key k changes, the map changes at k.
LEMMA MapWritten ==
    ASSUME NEW k \in Key, SameData(k), NEW d, Content(k)' = d
    PROVE  Map' = [Map EXCEPT ![k] = d]
BY DEF SameData, Map

\* If no key changes, the map does not.
LEMMA MapSame ==
    ASSUME SameData(NoData)
    PROVE  Map' = Map
BY DbAssumption DEF SameData, Map

\* The map at a key.
LEMMA MapAt ==
    ASSUME NEW k \in Key
    PROVE  Map[k] = Content(k)
BY DEF Map

\* If nothing is told and nothing changes, the map stutters.
LEMMA MapStutters ==
    ASSUME SameData(NoData), \A q \in Proc : Effective(q)' = Effective(q)
    PROVE  UNCHANGED Abstract!vars
<1>1. Last' = Last
  BY DEF Last
<1> QED
  BY <1>1, MapSame DEF Abstract!vars

\* The end of a call is the end of a call of the map.
LEMMA MapOver ==
    ASSUME NEW p \in Proc, Told(p, "none", NoData, NoData, 0), SameData(NoData)
    PROVE  Abstract!Next
<1>1. Abstract!Over(p)
  BY ToldLast, MapSame
     DEF Abstract!Over, Abstract!Returns, Abstract!NoOutcome
<1>2. Last'[p].op = "none"
  BY ToldLast
<1> QED
  BY <1>1, <1>2 DEF Abstract!Next

\* A fetch that returns the content of its key is a fetch of the map.
LEMMA MapFetch ==
    ASSUME NEW p \in Proc, NEW k \in Key, NEW d, d = Content(k),
           Told(p, "fetch", k, d, IF d = NoData THEN -1 ELSE 0), SameData(NoData)
    PROVE  Abstract!Next
<1>1. Abstract!Fetch(p, k)
  BY ToldLast, MapSame, MapAt DEF Abstract!Fetch
<1>2. Last'[p].op = "fetch" /\ Last'[p].key = k
  BY ToldLast
<1> QED
  BY <1>1, <1>2 DEF Abstract!Next

\* A delete that leaves its key without content is a delete of the map.
LEMMA MapDelete ==
    ASSUME NEW p \in Proc, NEW k \in Key, NEW d, d = Content(k),
           Told(p, "delete", k, NoData, IF d = NoData THEN -1 ELSE 0),
           SameData(k), Content(k)' = NoData
    PROVE  Abstract!Next
<1>1. Abstract!Delete(p, k)
  BY ToldLast, MapWritten, MapAt DEF Abstract!Delete
<1>2. Last'[p].op = "delete" /\ Last'[p].key = k
  BY ToldLast
<1> QED
  BY <1>1, <1>2 DEF Abstract!Next

\* A store that leaves its data under its key, where its flag allows it, is one of
\* the map.
LEMMA MapStore ==
    ASSUME NEW p \in Proc, NEW k \in Key, NEW flag \in {"insert", "replace", "store"}, NEW d,
           Told(p, flag, k, d, 0), SameData(k), Content(k)' = d,
           flag = "insert" => Content(k) = NoData,
           flag = "replace" => Content(k) # NoData
    PROVE  Abstract!Next
<1>1. Abstract!Store(p, flag, k, d)
  BY ToldLast, MapWritten, MapAt DEF Abstract!Store
<1>2. Last'[p].op = flag /\ Last'[p].key = k /\ Last'[p].data = d
  BY ToldLast
<1> QED
  BY <1>1, <1>2 DEF Abstract!Next

\* A store that its flag forbids, and that changes nothing, is refused by the map
\* too.
LEMMA MapRefuse ==
    ASSUME NEW p \in Proc, NEW k \in Key, NEW flag, NEW d, NEW rc,
           Told(p, flag, k, d, rc), SameData(NoData),
           \/ flag = "insert" /\ Content(k) # NoData /\ rc = 1
           \/ flag = "replace" /\ Content(k) = NoData /\ rc = -1
    PROVE  Abstract!Next
<1>1. Abstract!Store(p, flag, k, d)
  <2>1. Abstract!Returns(p, flag, k, d, rc)
    BY ToldLast
  <2>2. CASE flag = "insert" /\ Content(k) # NoData /\ rc = 1
    BY <2>1, <2>2, MapSame, MapAt DEF Abstract!Store
  <2>3. CASE flag = "replace" /\ Content(k) = NoData /\ rc = -1
    BY <2>1, <2>3, MapSame, MapAt DEF Abstract!Store
  <2> QED
    BY <2>2, <2>3
<1>2. Last'[p].op = flag /\ Last'[p].key = k /\ Last'[p].data = d
  BY ToldLast
<1> QED
  BY <1>1, <1>2 DEF Abstract!Next

\* A sequential read that returns a key with its content, or the end, is one of the
\* map.
LEMMA MapNextrec ==
    ASSUME NEW p \in Proc, NEW k, NEW d, NEW rc, Told(p, "nextrec", k, d, rc),
           SameData(NoData),
           \/ k \in Key /\ d = Content(k) /\ d # NoData /\ rc = 0
           \/ k = NoData /\ d = NoData /\ rc = -1
    PROVE  Abstract!Next
<1>1. Abstract!Nextrec(p)
  <2>1. CASE k = NoData /\ d = NoData /\ rc = -1
    BY <2>1, ToldLast, MapSame DEF Abstract!Nextrec
  <2>2. CASE k \in Key /\ d = Content(k) /\ d # NoData /\ rc = 0
    <3>1. Map[k] = d
      BY <2>2, MapAt
    <3>2. Abstract!Returns(p, "nextrec", k, Map[k], 0)
      BY <2>2, <3>1, ToldLast
    <3> QED
      BY <2>2, <3>1, <3>2, MapSame DEF Abstract!Nextrec
  <2> QED
    BY <2>1, <2>2
<1>2. Last'[p].op = "nextrec"
  BY ToldLast
<1> QED
  BY <1>1, <1>2 DEF Abstract!Next

\* A db_store that has taken away a record of key k and not yet written the new one.
Replaces(p, k) ==
    db[p].key = k /\ db[p].old # NoData /\ db[p].op # "delete" /\ db[p].pc # "writeptr"

Replacers(k) ==
    {p \in Proc : /\ db[p].key = k /\ db[p].old # NoData
                  /\ db[p].op # "delete" /\ db[p].pc # "writeptr"}

\* The data of a key: the old one while it is being replaced, or else what its
\* record says.
ContentIs ==
    /\ \A k \in Key, p \in Proc : Replaces(p, k) => Content(k) = db[p].old
    /\ \A k \in Key : \A i \in DOMAIN idx :
          idx[i].key = k /\ (\A p \in Proc : ~ Replaces(p, k)) => Content(k) = dat[idx[i].datoff]
    /\ \A k \in Key :
          k \notin Indexed /\ (\A p \in Proc : ~ Replaces(p, k)) => Content(k) = NoData

\* A process that keeps old data has the chain of its key locked.
LEMMA OldLocked ==
    ASSUME IInv, NEW q \in Proc, db[q].old # NoData
    PROVE  /\ db[q].pc \in {"readfree", "blankidx", "tofree", "unlink", "reread",
                            "writedat", "writeidx", "writeptr"}
           /\ db[q].key \in Key /\ Hash[db[q].key] \in Anchor /\ q \in wrlock[Hash[db[q].key]]
<1>1. FieldsOK(q) /\ HasLocks(q) /\ CallOK(q)
  BY DEF IInv
<1> USE <1>1
<1>2. db[q].pc \in {"readfree", "blankidx", "tofree", "unlink", "reread",
                    "writedat", "writeidx", "writeptr"}
  BY DEF FieldsOK, CallOK, PC, AtChain
<1> USE <1>2
<1>3. db[q].key \in Key /\ db[q].op # "fetch" /\ db[q].pc \in AtChain
  BY DEF CallOK, AtChain
<1> QED
  BY <1>3, NoAnchor DEF HasLocks

\* ... so that nobody else does anything with the key.
LEMMA OldAlone ==
    ASSUME IInv, NEW p \in Proc, NEW q \in Proc, db[q].old # NoData,
           db[p].pc \in AtChain, db[p].key = db[q].key
    PROVE  p = q
<1>1. /\ Hash[db[q].key] \in Anchor /\ q \in wrlock[Hash[db[q].key]]
  BY OldLocked
<1>2. p \in rdlock[Hash[db[q].key]] \cup wrlock[Hash[db[q].key]]
  BY DEF IInv, HasLocks
<1> QED
  BY <1>1, <1>2 DEF IInv, LocksOK

\* The invariant determines what the data of a key is,
LEMMA ContentFacts == IInv => ContentIs
<1> SUFFICES ASSUME IInv PROVE ContentIs
  BY SMTT(30)
<1>1. \A k, p : p \in Replacers(k) <=> p \in Proc /\ Replaces(p, k)
  BY DEF Replaces, Replacers
<1> USE <1>1
<1>2. \A k : Content(k) =
        IF Replacers(k) # {} THEN db[CHOOSE p \in Replacers(k) : TRUE].old
        ELSE IF k \in Indexed
             THEN dat[idx[CHOOSE i \in DOMAIN idx : idx[i].key = k].datoff]
             ELSE NoData
  BY DEF Content, Replacers
<1> USE <1>2
<1>3. ASSUME NEW k \in Key, NEW p \in Proc, Replaces(p, k) PROVE Content(k) = db[p].old
  <2>1. PICK q : q = CHOOSE r \in Replacers(k) : TRUE
    OBVIOUS
  <2> USE <2>1
  <2>2. Replacers(k) # {}
    BY <1>3
  <2> USE <2>2
  <2>3. q \in Replacers(k)
    OBVIOUS
  <2>4. q \in Proc /\ Replaces(q, k)
    BY <2>3
  <2> USE <2>4
  <2>5. db[q].old # NoData /\ db[p].old # NoData /\ db[p].key = db[q].key
    BY <1>3 DEF Replaces
  <2> USE <2>5
  <2>6. db[p].pc \in AtChain
    BY OldLocked DEF AtChain
  <2>7. p = q
    BY <2>6, OldAlone
  <2> QED
    BY <2>7
<1>4. ASSUME NEW k \in Key, NEW i \in DOMAIN idx, idx[i].key = k,
             \A p \in Proc : ~ Replaces(p, k)
      PROVE  Content(k) = dat[idx[i].datoff]
  <2>1. PICK j : j = CHOOSE r \in DOMAIN idx : idx[r].key = k
    OBVIOUS
  <2> USE <2>1
  <2>2. j \in DOMAIN idx /\ idx[j].key = k
    BY <1>4
  <2>3. Replacers(k) = {} /\ k \in Indexed /\ k # Blank
    BY <1>4, DbAssumption, NotIndexed DEF Blank
  <2> USE <2>3
  <2>4. j = i
    BY <1>4, <2>2 DEF IInv, RecordsOK
  <2> QED
    BY <2>4
<1>5. ASSUME NEW k \in Key, k \notin Indexed, \A p \in Proc : ~ Replaces(p, k)
      PROVE  Content(k) = NoData
  <2>1. Replacers(k) = {}
    BY <1>5
  <2> QED
    BY <1>5, <2>1
<1> QED
  BY <1>3, <1>4, <1>5 DEF ContentIs

\* ... also after a step.
LEMMA ContentNext == IInv' => ContentIs'
BY ContentFacts, PTL

\* The record of key j keeps its data.
RecordKept(j) ==
    /\ \A i \in DOMAIN idx : idx[i].key = j =>
          /\ i \in DOMAIN idx' /\ idx'[i].key = j
          /\ dat'[idx'[i].datoff] = dat[idx[i].datoff]
    /\ \A i \in DOMAIN idx' : idx'[i].key = j => i \in DOMAIN idx /\ idx[i].key = j

\* Process p neither begins nor ends a replacement of key j.
ReplaceKept(p, j) ==
    /\ Replaces(p, j)' <=> Replaces(p, j)
    /\ Replaces(p, j) => db'[p].old = db[p].old

DataKept(j) == Content(j)' = Content(j)

\* If a step keeps the record of a key and its replacement, the key keeps its data.
LEMMA ContentKept ==
    ASSUME IInv, IInv', NEW p \in Proc, Alone(p),
           NEW j \in Key, RecordKept(j), ReplaceKept(p, j)
    PROVE  DataKept(j)
<1> SUFFICES Content(j)' = Content(j)
  BY DEF DataKept
<1>1. ContentIs /\ ContentIs'
  BY ContentFacts, ContentNext
<1> USE <1>1
<1>2. ASSUME NEW q \in Proc
      PROVE  /\ Replaces(q, j)' <=> Replaces(q, j)
             /\ Replaces(q, j) => db'[q].old = db[q].old
  BY DEF ReplaceKept, Alone, Replaces
<1>3. CASE \E q \in Proc : Replaces(q, j)
  <2>1. PICK q \in Proc : Replaces(q, j)
    BY <1>3
  <2> USE <2>1
  <2>2. Content(j) = db[q].old
    BY DEF ContentIs
  <2>3. Replaces(q, j)' /\ db'[q].old = db[q].old
    BY <1>2
  <2> USE <2>3
  <2>4. Content(j)' = db'[q].old
    BY DEF ContentIs
  <2> QED
    BY <2>2, <2>4
<1>4. CASE \A q \in Proc : ~ Replaces(q, j)
  <2>1. \A q \in Proc : ~ Replaces(q, j)'
    BY <1>2, <1>4
  <2> USE <2>1
  <2>2. CASE j \in Indexed
    <3>1. PICK i \in DOMAIN idx : idx[i].key = j
      BY <2>2 DEF Indexed
    <3> USE <3>1
    <3>2. Content(j) = dat[idx[i].datoff]
      BY <1>4 DEF ContentIs
    <3>3. /\ i \in DOMAIN idx' /\ idx'[i].key = j
          /\ dat'[idx'[i].datoff] = dat[idx[i].datoff]
      BY DEF RecordKept
    <3> USE <3>3
    <3>4. Content(j)' = dat'[idx'[i].datoff]
      BY DEF ContentIs
    <3> QED
      BY <3>2, <3>4
  <2>3. CASE j \notin Indexed
    <3>1. Content(j) = NoData
      BY <1>4, <2>3 DEF ContentIs
    <3>2. ASSUME j \in Indexed' PROVE FALSE
      <4>1. PICK i \in DOMAIN idx' : idx'[i].key = j
        BY <3>2 DEF Indexed
      <4>2. i \in DOMAIN idx /\ idx[i].key = j
        BY <4>1 DEF RecordKept
      <4> QED
        BY <2>3, <4>2, NotIndexed
    <3>3. Content(j)' = NoData
      BY <3>2 DEF ContentIs
    <3> QED
      BY <3>1, <3>3
  <2> QED
    BY <2>2, <2>3
<1> QED
  BY <1>3, <1>4

\* A process in a call other than the replacement of its key sees what is in its record,
LEMMA NotReplaced ==
    ASSUME IInv, NEW p \in Proc, db[p].pc \in AtChain, db[p].old = NoData
    PROVE  \A q \in Proc : ~ Replaces(q, db[p].key)
BY OldAlone DEF Replaces

\* ... which is not missing.
LEMMA FoundData ==
    ASSUME IInv, NEW p \in Proc, db[p].pc \in {"walk", "readdat", "dodelete", "overwrite"},
           NEW i \in DOMAIN idx, idx[i].key = db[p].key
    PROVE  Content(db[p].key) = dat[idx[i].datoff] /\ dat[idx[i].datoff] # NoData
<1>1. PICK own, rank, max : Numbered(own, rank, max)
  BY DEF IInv
<1> USE <1>1
<1>2. db[p].key \in Key /\ db[p].old = NoData /\ db[p].pc \in AtChain /\ db[p].pc # "writeptr"
  BY DEF IInv, CallOK, AtChain
<1> USE <1>2
<1>3. Content(db[p].key) = dat[idx[i].datoff]
  BY NotReplaced, ContentFacts DEF ContentIs
<1>4. own[i] = Hash[db[p].key] /\ own[i] \in Chain
  <2>1. own[i] = Hash[db[p].key]
    BY KeyOnChain
  <2> QED
    BY <2>1, NoAnchor
<1>5. ASSUME dat[idx[i].datoff] = Blank PROVE FALSE
  <2>1. PICK q \in Proc : db[q].pc \in {"readfree", "blankidx"} /\ db[q].idxoff = i
    BY <1>4, <1>5 DEF Numbered, MembersOK
  <2> USE <2>1
  <2>2. db[q].old # NoData
    BY DEF IInv, CallOK
  <2>3. idx[i].key = db[q].key
    BY DEF Numbered, ProcOK, FoundOK, AtFound
  <2>4. p = q
    BY <2>2, <2>3, OldAlone
  <2> QED
    BY <2>4
<1> QED
  BY <1>3, <1>5 DEF Blank

\* ... or that there is none.
LEMMA AbsentData ==
    ASSUME IInv, NEW p \in Proc, db[p].pc = "walk", db[p].offset = 0
    PROVE  db[p].key \in Key /\ Content(db[p].key) = NoData
<1>1. db[p].key \in Key /\ db[p].key \notin Indexed
  BY NotOnChain
<1>2. db[p].old = NoData /\ db[p].pc \in AtChain
  BY DEF IInv, CallOK, AtChain
<1> QED
  BY <1>1, <1>2, NotReplaced, ContentFacts DEF ContentIs

\* Between two steps that are told: the call is the same, and not about to end.
SameCall(p) ==
    /\ db'[p].op = db[p].op /\ db'[p].key = db[p].key /\ db'[p].data = db[p].data
    /\ db'[p].old = db[p].old /\ db[p].pc # "writeptr" /\ db'[p].pc # "writeptr"

\* A step that keeps the call and every record is a stutter of the map.
LEMMA SameCallMap ==
    ASSUME IInv, IInv', NEW p \in Proc, Alone(p), \A j \in Key : RecordKept(j), SameCall(p),
           last' = last
    PROVE  UNCHANGED Abstract!vars
<1>1. ASSUME NEW j \in Key PROVE DataKept(j)
  <2>1. ReplaceKept(p, j)
    BY DEF SameCall, ReplaceKept, Replaces
  <2> QED
    BY <2>1, ContentKept
<1>2. SameData(NoData)
  BY <1>1 DEF SameData, DataKept
<1>3. ASSUME NEW q \in Proc PROVE Effective(q)' = Effective(q)
  BY DEF SameCall, Effective, Outcome, Alone
<1> QED
  BY <1>2, <1>3, MapStutters

\* Where keys, offsets and data stay, the records keep their data.
LEMMA SameDat ==
    ASSUME KeysKept, dat' = dat, NEW j \in Key
    PROVE  RecordKept(j)
BY DEF KeysKept, RecordKept

\* Nobody's data is where db_store writes new data.
LEMMA WriteDatKept ==
    ASSUME IInv, NEW p \in Proc, WriteDat(p)
    PROVE  \A j \in Key : RecordKept(j)
<1>1. PICK own, rank, max : Numbered(own, rank, max)
  BY DEF IInv
<1> USE <1>1
<1>2. PICK d : d = db[p].datoff
  OBVIOUS
<1> USE <1>2
<1>3. /\ db[p].pc = "writedat" /\ idx' = idx /\ FilesOK
  BY DEF WriteDat, IInv
<1> USE <1>3
<1>4. \A i \in DOMAIN idx : idx[i].datoff \in DOMAIN dat
  BY DEF FilesOK
<1> USE <1>4
<1>5. CASE d = 0
  <2>1. dat' = Append(dat, db[p].data) /\ dat \in Seq(Data \cup {Blank})
    BY <1>5 DEF WriteDat, FilesOK
  <2>2. \A n \in DOMAIN dat : dat'[n] = dat[n]
    BY SMTT(30), <2>1
  <2> QED
    BY <2>2 DEF RecordKept
<1>6. CASE d # 0
  <2>1. dat' = [dat EXCEPT ![d] = db[p].data]
    BY <1>6 DEF WriteDat
  <2>2. Holds(p)
    BY <1>6 DEF Numbered, ProcOK, StoreOK, Holds
  <2>3. PICK n \in DOMAIN idx : idx[n].datoff = d /\ idx[n].key = Blank
    BY <2>2 DEF Numbered, ProcOK, StoreOK
  <2> USE <2>3
  <2>4. ASSUME NEW i \in DOMAIN idx, idx[i].key \in Key PROVE idx[i].datoff # d
    <3>1. i # n
      BY <2>4, DbAssumption DEF Blank
    <3> QED
      BY <3>1 DEF IInv, RecordsOK
  <2>5. \A m \in DOMAIN dat : m # d => dat'[m] = dat[m]
    BY <2>1
  <2> QED
    BY <2>4, <2>5 DEF RecordKept
<1> QED
  BY <1>5, <1>6

\* The steps before a call takes effect, or after.
Silent(p) ==
    \/ FindAndLock(p) \/ ReadFree(p) \/ ToFree(p) \/ Reread(p) \/ FindFree(p)
    \/ WalkFree(p) \/ NoFree(p) \/ WriteDat(p)

\* The silent steps keep the call,
LEMMA SilentCall ==
    ASSUME IInv, NEW p \in Proc, Silent(p)
    PROVE  SameCall(p)
<1>1. CASE FindAndLock(p)
  <2>1. /\ db[p].pc = "find"
        /\ Set(p, [pc |-> "walk", ptroff |-> Hash[db[p].key], offset |-> head[Hash[db[p].key]]])
    BY <1>1 DEF FindAndLock
  <2> QED
    BY SMTT(30), <2>1, SetFields DEF SameCall
<1>2. CASE ReadFree(p)
  <2>1. db[p].pc = "readfree" /\ Set(p, [pc |-> "blankidx", freeptr |-> head[FREE]])
    BY <1>2 DEF ReadFree
  <2> QED
    BY SMTT(30), <2>1, SetFields DEF SameCall
<1>3. CASE ToFree(p)
  <2>1. db[p].pc = "tofree" /\ Set(p, [pc |-> "unlink"])
    BY <1>3 DEF ToFree
  <2> QED
    BY SMTT(30), <2>1, SetFields DEF SameCall
<1>4. CASE Reread(p)
  <2>1. db[p].pc = "reread" /\ Set(p, [pc |-> "writedat", ptrval |-> head[Hash[db[p].key]]])
    BY <1>4 DEF Reread
  <2> QED
    BY SMTT(30), <2>1, SetFields DEF SameCall
<1>5. CASE FindFree(p)
  <2>1. /\ db[p].pc = "findfree"
        /\ Set(p, [pc |-> "walkfree", ptroff |-> FREE, offset |-> head[FREE]])
    BY <1>5 DEF FindFree
  <2> QED
    BY SMTT(30), <2>1, SetFields DEF SameCall
<1>6. CASE WalkFree(p)
  <2>1. PICK i : i = db[p].offset
    OBVIOUS
  <2>2. db[p].pc = "walkfree"
    BY <1>6 DEF WalkFree
  <2> USE <2>2
  <2>3. CASE Set(p, [ptroff |-> i, offset |-> idx[i].next])
    BY SMTT(30), <2>3, SetFields DEF SameCall
  <2>4. CASE Set(p, [pc |-> "writedat", idxoff |-> i, datoff |-> idx[i].datoff])
    BY SMTT(30), <2>4, SetFields DEF SameCall
  <2> QED
    BY <1>6, <2>1, <2>3, <2>4 DEF WalkFree
<1>7. CASE NoFree(p)
  <2>1. db[p].pc = "walkfree" /\ Set(p, [pc |-> "writedat"])
    BY <1>7 DEF NoFree
  <2> QED
    BY SMTT(30), <2>1, SetFields DEF SameCall
<1>8. CASE WriteDat(p)
  <2>1. PICK n : n = Len(dat) + 1
    OBVIOUS
  <2>2. db[p].pc = "writedat"
    BY <1>8 DEF WriteDat
  <2> USE <2>2
  <2>3. CASE Set(p, [pc |-> "writeidx", datoff |-> n])
    BY SMTT(30), <2>3, SetFields DEF SameCall
  <2>4. CASE Set(p, [pc |-> "writeidx"])
    BY SMTT(30), <2>4, SetFields DEF SameCall
  <2> QED
    BY <1>8, <2>1, <2>3, <2>4 DEF WriteDat
<1> QED
  BY <1>1, <1>2, <1>3, <1>4, <1>5, <1>6, <1>7, <1>8 DEF Silent

\* ... and are stutters of the map.
LEMMA SilentMap ==
    ASSUME IInv, IInv', NEW p \in Proc, Silent(p)
    PROVE  UNCHANGED Abstract!vars
<1>1. KeysKept /\ Alone(p)
  BY PlainEffect DEF Plain, Silent
<1>2. last' = last
  BY DEF FindAndLock, ReadFree, ToFree, Reread, FindFree, WalkFree, NoFree, WriteDat, Silent
<1>3. \A j \in Key : RecordKept(j)
  <2>1. CASE WriteDat(p)
    BY <2>1, WriteDatKept
  <2>2. CASE ~ WriteDat(p)
    BY <1>1, <2>2, SameDat
       DEF FindAndLock, ReadFree, ToFree, Reread, FindFree, WalkFree, NoFree, files, Silent
  <2> QED
    BY <2>1, <2>2
<1>4. SameCall(p)
  BY SilentCall
<1> QED
  BY <1>1, <1>2, <1>3, <1>4, SameCallMap

-----------------------------------------------------------------------------
(* The steps at which an update takes effect or a call returns.            *)

Refined == Abstract!Next \/ UNCHANGED Abstract!vars

\* A call ends, and its outcome is told.
Ends(p, d, rc, x) ==
    /\ last' = [last EXCEPT ![p] = Outcome(p, d, rc)]
    /\ db' = [db EXCEPT ![p] = [Idle EXCEPT !.pos = x]]

\* A call that ends is told its outcome, and the others nothing.
LEMMA EndTold ==
    ASSUME IInv, DOMAIN last = Proc, NEW p \in Proc, NEW d, NEW rc, NEW x, Ends(p, d, rc, x)
    PROVE  /\ Told(p, db[p].op, db[p].key, d, rc) /\ Alone(p) /\ db'[p].old = NoData
           /\ Effective(p)' = Outcome(p, d, rc)
<1>1. PICK r : r = [Idle EXCEPT !.pos = x]
  OBVIOUS
<1> USE <1>1
<1>2. r.pc = "idle" /\ r.op = "none" /\ r.old = NoData
  BY SMTT(30) DEF Idle
<1> USE <1>2
<1>3. db'[p] = r /\ Alone(p)
  BY DEF Ends, IInv, Alone
<1> USE <1>3
<1>4. last'[p] = Outcome(p, d, rc) /\ \A q \in Proc : q # p => last'[q] = last[q]
  BY DEF Ends
<1> USE <1>4
<1>5. Effective(p)' = Outcome(p, d, rc)
  BY DEF Effective
<1>6. SameOutcomes(p)
  BY DEF SameOutcomes, Effective, Outcome, Alone
<1> QED
  BY <1>5, <1>6 DEF Told, Outcome

\* A return ends the call.
LEMMA ReturnEnds ==
    ASSUME NEW p, NEW d, NEW rc, Return(p, d, rc)
    PROVE  Ends(p, d, rc, 0)
BY DEF Return, Ends

\* Where no old data is kept, the data of a key is that of its record.
LEMMA NoOldKept ==
    ASSUME IInv, IInv', NEW p \in Proc, Alone(p), db[p].old = NoData, db'[p].old = NoData,
           NEW j \in Key, RecordKept(j)
    PROVE  DataKept(j)
<1>1. ReplaceKept(p, j)
  BY DEF ReplaceKept, Replaces
<1> QED
  BY <1>1, ContentKept

\* A step of a call that keeps no old data and writes nothing is a stutter of the
\* map.
LEMMA QuietMap ==
    ASSUME IInv, IInv', NEW p \in Proc, Alone(p), db[p].old = NoData, db'[p].old = NoData,
           db[p].pc # "writeptr", db'[p].pc # "writeptr", idx' = idx, dat' = dat, last' = last
    PROVE  UNCHANGED Abstract!vars
<1>1. SameData(NoData)
  BY SameKeys, SameDat, NoOldKept DEF SameData, DataKept
<1>2. ASSUME NEW q \in Proc PROVE Effective(q)' = Effective(q)
  BY DEF Effective, Outcome, Alone
<1> QED
  BY <1>1, <1>2, MapStutters

\* A call that ends and has changed nothing.
LEMMA ReadEnds ==
    ASSUME IInv, IInv', DOMAIN last = Proc, NEW p \in Proc, NEW d, NEW rc, NEW x,
           Ends(p, d, rc, x), db[p].old = NoData, idx' = idx, dat' = dat
    PROVE  Told(p, db[p].op, db[p].key, d, rc) /\ SameData(NoData)
<1>1. Told(p, db[p].op, db[p].key, d, rc) /\ Alone(p) /\ db'[p].old = NoData
  BY EndTold
<1> QED
  BY <1>1, SameKeys, SameDat, NoOldKept DEF SameData, DataKept

\* A walk goes on, or it finds the key of an insert, which is refused.
LEMMA WalkMap ==
    ASSUME IInv, IInv', DOMAIN last = Proc, NEW p \in Proc, Walk(p)
    PROVE  Refined
<1>1. PICK i : i = db[p].offset
  OBVIOUS
<1> USE <1>1
<1>2. /\ db[p].pc = "walk" /\ i # 0 /\ idx' = idx /\ dat' = dat
      /\ db[p].old = NoData
  BY DEF Walk, files, IInv, CallOK
<1> USE <1>2
<1>3. Alone(p)
  BY PlainEffect DEF Plain
<1> USE <1>3
<1>4. CASE Set(p, [ptroff |-> i, offset |-> idx[i].next]) /\ last' = last
  <2>1. db'[p].old = NoData /\ db'[p].pc # "writeptr"
    BY SMTT(30), <1>4, SetFields
  <2> QED
    BY <1>4, <2>1, QuietMap DEF Refined
<1>5. CASE /\ Set(p, [pc |-> Found(p, i), idxoff |-> i, datoff |-> idx[i].datoff,
                      ptrval |-> idx[i].next])
           /\ last' = last
  <2>1. PICK f : f = Found(p, i)
    OBVIOUS
  <2> USE <2>1
  <2>2. f # "writeptr"
    BY DEF Found
  <2>3. Set(p, [pc |-> f, idxoff |-> i, datoff |-> idx[i].datoff, ptrval |-> idx[i].next])
    BY <1>5
  <2>4. db'[p].old = NoData /\ db'[p].pc # "writeptr"
    BY SMTT(30), <2>2, <2>3, SetFields
  <2> QED
    BY <1>5, <2>4, QuietMap DEF Refined
<1>6. CASE idx[i].key = db[p].key /\ db[p].op = "insert" /\ Return(p, db[p].data, 1)
  <2>1. i \in DOMAIN idx
    <3>1. db[p].offset \in 0 .. Len(idx) /\ idx \in Seq(Record)
      BY DEF IInv, FieldsOK, FilesOK
    <3> QED
      BY SMTT(30), <3>1
  <2>2. Told(p, db[p].op, db[p].key, db[p].data, 1) /\ SameData(NoData)
    BY <1>6, ReturnEnds, ReadEnds
  <2> USE <2>2
  <2>3. PICK k, d : k = db[p].key /\ d = db[p].data
    OBVIOUS
  <2> USE <2>3
  <2>4. Content(k) # NoData
    BY <1>6, <2>1, FoundData
  <2>5. k \in Key
    BY DEF IInv, CallOK, AtChain
  <2>6. Told(p, "insert", k, d, 1)
    BY <1>6
  <2> QED
    BY <2>4, <2>5, <2>6, MapRefuse DEF Refined
<1> QED
  BY <1>4, <1>5, <1>6 DEF Walk

\* At the end of a chain a fetch, a delete and a replace return that there is no
\* such key.
LEMMA NotFoundMap ==
    ASSUME IInv, IInv', DOMAIN last = Proc, NEW p \in Proc, NotFound(p)
    PROVE  Refined
<1>1. /\ db[p].pc = "walk" /\ db[p].offset = 0 /\ idx' = idx /\ dat' = dat
      /\ db[p].old = NoData
  BY DEF NotFound, files, IInv, CallOK
<1> USE <1>1
<1>2. Alone(p)
  BY PlainEffect DEF Plain
<1>3. CASE /\ Set(p, [pc |-> "findfree", ptrval |-> head[Hash[db[p].key]]])
           /\ last' = last
  <2>1. db'[p].old = NoData /\ db'[p].pc # "writeptr"
    BY SMTT(30), <1>3, SetFields
  <2> QED
    BY <1>2, <1>3, <2>1, QuietMap DEF Refined
<1>4. CASE db[p].op \in {"fetch", "delete", "replace"} /\ Return(p, db[p].data, -1)
  <2>1. PICK k, d : k = db[p].key /\ d = db[p].data
    OBVIOUS
  <2> USE <2>1
  <2>2. Told(p, db[p].op, k, d, -1) /\ SameData(NoData)
    BY <1>4, ReturnEnds, ReadEnds
  <2> USE <2>2
  <2>3. k \in Key /\ Content(k) = NoData
    BY AbsentData
  <2> USE <2>3
  <2>4. Content(k)' = NoData /\ SameData(k)
    BY DbAssumption DEF SameData
  <2>5. db[p].op \in {"fetch", "delete"} => d = NoData
    BY DEF IInv, CallOK
  <2> USE <2>5
  <2>6. CASE db[p].op = "fetch"
    <3>1. Told(p, "fetch", k, d, IF d = NoData THEN -1 ELSE 0) /\ d = Content(k)
      BY <2>6
    <3> QED
      BY <3>1, MapFetch DEF Refined
  <2>7. CASE db[p].op = "delete"
    <3>1. Told(p, "delete", k, NoData, IF d = NoData THEN -1 ELSE 0) /\ d = Content(k)
      BY <2>7
    <3> QED
      BY <2>4, <3>1, MapDelete DEF Refined
  <2>8. CASE db[p].op = "replace"
    <3>1. PICK rc : rc = -1
      OBVIOUS
    <3> USE <3>1
    <3>2. Told(p, "replace", k, d, rc)
      BY <2>8
    <3> QED
      BY <3>2, MapRefuse DEF Refined
  <2> QED
    BY <1>4, <2>6, <2>7, <2>8
<1> QED
  BY <1>3, <1>4 DEF NotFound

\* db_fetch returns what the map has.
LEMMA ReadDatMap ==
    ASSUME IInv, IInv', DOMAIN last = Proc, NEW p \in Proc, ReadDat(p)
    PROVE  Refined
<1>1. PICK own, rank, max : Numbered(own, rank, max)
  BY DEF IInv
<1>2. PICK k, d, i : k = db[p].key /\ d = dat[db[p].datoff] /\ i = db[p].idxoff
  OBVIOUS
<1> USE <1>2
<1>3. /\ db[p].pc = "readdat" /\ Return(p, d, 0) /\ idx' = idx /\ dat' = dat
      /\ db[p].old = NoData /\ db[p].op = "fetch" /\ k \in Key
  BY DEF ReadDat, files, IInv, CallOK, AtChain
<1> USE <1>3
<1>4. i \in DOMAIN idx /\ idx[i].key = k /\ idx[i].datoff = db[p].datoff
  BY <1>1 DEF Numbered, ProcOK, FoundOK, AtFound
<1> USE <1>4
<1>5. d = Content(k) /\ d # NoData
  <2>1. Content(db[p].key) = dat[idx[i].datoff] /\ dat[idx[i].datoff] # NoData
    BY FoundData
  <2> QED
    BY <2>1
<1> USE <1>5
<1>6. Told(p, "fetch", k, d, 0) /\ SameData(NoData)
  BY ReturnEnds, ReadEnds
<1> USE <1>6
<1>7. Told(p, "fetch", k, d, IF d = NoData THEN -1 ELSE 0)
  OBVIOUS
<1> QED
  BY <1>7, MapFetch DEF Refined

\* The data of one record is written; the other keys keep theirs.
LEMMA DatWritten ==
    ASSUME IInv, NEW n \in DOMAIN idx, NEW v, idx' = idx,
           dat' = [dat EXCEPT ![idx[n].datoff] = v]
    PROVE  /\ dat'[idx[n].datoff] = v
           /\ \A j \in Key : j # idx[n].key => RecordKept(j)
<1>1. \A i \in DOMAIN idx : idx[i].datoff \in DOMAIN dat
  BY DEF IInv, FilesOK
<1>2. \A i \in DOMAIN idx : i # n => idx[i].datoff # idx[n].datoff
  BY DEF IInv, RecordsOK
<1>3. \A m \in DOMAIN dat : m # idx[n].datoff => dat'[m] = dat[m]
  OBVIOUS
<1> QED
  BY <1>1, <1>2, <1>3 DEF RecordKept

\* A process at another key neither begins nor ends a replacement of key j.
LEMMA OtherKept ==
    ASSUME IInv, IInv', NEW p \in Proc, Alone(p), NEW j \in Key, RecordKept(j),
           db[p].key # j, db'[p].key # j
    PROVE  DataKept(j)
<1>1. ReplaceKept(p, j)
  BY DEF ReplaceKept, Replaces
<1> QED
  BY <1>1, ContentKept

\* Nobody replaces the key after a step of the process that has its chain.
LEMMA NoneReplaces ==
    ASSUME IInv, NEW p \in Proc, Alone(p), db[p].pc \in AtChain,
           NEW k, k = db[p].key, ~ Replaces(p, k)'
    PROVE  \A q \in Proc : ~ Replaces(q, k)'
<1>1. ASSUME NEW q \in Proc, q # p, Replaces(q, k)' PROVE FALSE
  <2>1. db'[q] = db[q]
    BY <1>1 DEF Alone
  <2>2. db[q].key = db[p].key /\ db[q].old # NoData
    BY <1>1, <2>1 DEF Replaces
  <2> QED
    BY <1>1, <2>2, OldAlone
<1> QED
  BY <1>1

\* A delete takes effect when the data is blanked; a replacement does not yet.
LEMMA BlankDatMap ==
    ASSUME IInv, IInv', NEW p \in Proc, BlankDat(p)
    PROVE  Refined
<1>1. PICK own, rank, max : Numbered(own, rank, max)
  BY DEF IInv
<1>2. PICK k, d, i : k = db[p].key /\ d = dat[db[p].datoff] /\ i = db[p].idxoff
  OBVIOUS
<1>3. /\ db[p].pc = "dodelete" /\ Set(p, [pc |-> "readfree", old |-> d])
      /\ dat' = [dat EXCEPT ![db[p].datoff] = NoData] /\ idx' = idx /\ last' = last
  BY <1>2 DEF BlankDat, Blank
<1>4. /\ db[p].old = NoData /\ k \in Key /\ db[p].pc \in AtChain
      /\ db[p].op = "delete" => db[p].data = NoData
  BY <1>2, <1>3 DEF IInv, CallOK, AtChain
<1>5. Alone(p)
  BY PlainEffect DEF Plain
<1>6. /\ db'[p].pc = "readfree" /\ db'[p].old = d /\ db'[p].key = k
      /\ db'[p].op = db[p].op /\ db'[p].data = db[p].data
  BY SMTT(30), <1>2, <1>3, SetFields
<1>7. i \in DOMAIN idx /\ idx[i].key = k /\ idx[i].datoff = db[p].datoff
  BY <1>1, <1>2, <1>3 DEF Numbered, ProcOK, FoundOK, AtFound
<1>8. Content(k) = d /\ d # NoData
  <2>1. Content(db[p].key) = dat[idx[i].datoff] /\ dat[idx[i].datoff] # NoData
    BY <1>2, <1>3, <1>7, FoundData
  <2> QED
    BY <1>2, <1>7, <2>1
<1>9. dat'[idx[i].datoff] = NoData /\ \A j \in Key : j # k => RecordKept(j)
  <2>1. dat' = [dat EXCEPT ![idx[i].datoff] = NoData]
    BY <1>3, <1>7
  <2> QED
    BY <1>3, <1>7, <2>1, DatWritten
<1>10. SameData(k)
  BY <1>2, <1>5, <1>6, <1>9, OtherKept DEF SameData, DataKept
<1>11. ContentIs'
  BY ContentNext
<1>12. SameOutcomes(p)
  BY <1>3, <1>5 DEF SameOutcomes, Effective, Outcome, Alone
<1>13. CASE db[p].op = "delete"
  <2>1. Told(p, "delete", k, NoData, 0)
    BY <1>4, <1>6, <1>8, <1>12, <1>13 DEF Told, Effective, Outcome
  <2>2. Told(p, "delete", k, NoData, IF d = NoData THEN -1 ELSE 0)
    BY <1>8, <2>1
  <2>3. ~ Replaces(p, k)'
    BY <1>6, <1>13 DEF Replaces
  <2>4. \A q \in Proc : ~ Replaces(q, k)'
    BY <1>2, <1>4, <1>5, <2>3, NoneReplaces
  <2>5. i \in DOMAIN idx' /\ idx'[i].key = k /\ dat'[idx'[i].datoff] = NoData
    BY <1>3, <1>7, <1>9
  <2>6. Content(k)' = NoData
    BY <1>4, <1>11, <2>4, <2>5 DEF ContentIs
  <2> QED
    BY <1>4, <1>8, <1>10, <2>2, <2>6, MapDelete DEF Refined
<1>14. CASE db[p].op # "delete"
  <2>1. Replaces(p, k)'
    BY <1>6, <1>8, <1>14 DEF Replaces
  <2>2. Content(k)' = d
    BY <1>4, <1>6, <1>11, <2>1 DEF ContentIs
  <2>3. SameData(NoData)
    BY <1>8, <1>10, <2>2 DEF SameData
  <2>4. Effective(p)' = Effective(p)
    BY <1>3, <1>6, <1>14 DEF Effective
  <2> QED
    BY <1>12, <2>3, <2>4, MapStutters DEF SameOutcomes, Refined
<1> QED
  BY <1>13, <1>14

\* The data was blank already, or the old data counts.
LEMMA BlankIdxMap ==
    ASSUME IInv, IInv', NEW p \in Proc, BlankIdx(p)
    PROVE  Refined
<1>1. PICK own, rank, max : Numbered(own, rank, max)
  BY DEF IInv
<1>2. PICK k, i : k = db[p].key /\ i = db[p].idxoff
  OBVIOUS
<1>3. db[p].pc = "blankidx" /\ Set(p, [pc |-> "tofree"]) /\ last' = last
  BY DEF BlankIdx
<1>4. /\ Alone(p) /\ k \in Key /\ dat' = dat
      /\ i \in DOMAIN idx /\ idx[i].key = k /\ idx[i].datoff = db[p].datoff
      /\ DOMAIN idx' = DOMAIN idx /\ idx'[i].key = Blank
      /\ \A j \in DOMAIN idx : j # i => idx'[j] = idx[j]
  BY <1>2, BlankIdxEffect
<1>5. db[p].old # NoData /\ db[p].pc \in AtChain
  BY <1>3 DEF IInv, CallOK, AtChain
<1>6. /\ db'[p].pc = "tofree" /\ db'[p].old = db[p].old /\ db'[p].key = k
      /\ db'[p].op = db[p].op /\ db'[p].data = db[p].data
  BY SMTT(30), <1>2, <1>3, SetFields
<1>7. ASSUME NEW j \in Key, j # k PROVE RecordKept(j)
  BY <1>4, <1>7, DbAssumption DEF RecordKept, Blank
<1>8. SameData(k)
  BY <1>2, <1>4, <1>6, <1>7, OtherKept DEF SameData, DataKept
<1>9. ASSUME NEW q \in Proc PROVE Effective(q)' = Effective(q)
  BY <1>2, <1>3, <1>4, <1>6 DEF Effective, Outcome, Alone
<1>10. ContentIs /\ ContentIs'
  BY ContentFacts, ContentNext
<1>11. CASE db[p].op = "delete"
  <2>1. \A q \in Proc : ~ Replaces(q, k)
    BY <1>2, <1>5, <1>11, OldAlone DEF Replaces
  <2>2. dat[idx[i].datoff] = NoData
    BY <1>1, <1>3, <1>4 DEF Numbered, ProcOK, DeleteOK, Blank
  <2>3. Content(k) = NoData
    BY <1>4, <1>10, <2>1, <2>2 DEF ContentIs
  <2>4. ~ Replaces(p, k)'
    BY <1>6, <1>11 DEF Replaces
  <2>5. \A q \in Proc : ~ Replaces(q, k)'
    BY <1>2, <1>4, <1>5, <2>4, NoneReplaces
  <2>6. ASSUME k \in Indexed' PROVE FALSE
    <3>1. PICK j \in DOMAIN idx' : idx'[j].key = k
      BY <2>6 DEF Indexed
    <3>2. j # i /\ idx[j].key = k /\ k # Blank
      BY <1>4, <3>1, DbAssumption DEF Blank
    <3> QED
      BY <1>4, <3>1, <3>2 DEF IInv, RecordsOK
  <2>7. Content(k)' = NoData
    BY <1>4, <1>10, <2>5, <2>6 DEF ContentIs
  <2>8. SameData(NoData)
    BY <1>8, <2>3, <2>7 DEF SameData
  <2> QED
    BY <1>9, <2>8, MapStutters DEF Refined
<1>12. CASE db[p].op # "delete"
  <2>1. Replaces(p, k) /\ Replaces(p, k)'
    BY <1>2, <1>3, <1>5, <1>6, <1>12 DEF Replaces
  <2>2. Content(k) = db[p].old /\ Content(k)' = db'[p].old
    BY <1>4, <1>10, <2>1 DEF ContentIs
  <2>3. SameData(NoData)
    BY <1>6, <1>8, <2>2 DEF SameData
  <2> QED
    BY <1>9, <2>3, MapStutters DEF Refined
<1> QED
  BY <1>11, <1>12

\* A call that returns what it has been told: db_delete at the end of _db_dodelete,
\* db_store when the new record is on the chain.
LEMMA ToldEnds ==
    ASSUME IInv, IInv', DOMAIN last = Proc, NEW p \in Proc, NEW d, Return(p, d, 0),
           KeysKept, dat' = dat, d = db[p].data,
           db[p].pc = "writeptr" \/ (db[p].op = "delete" /\ db[p].old # NoData)
    PROVE  UNCHANGED Abstract!vars
<1>1. Ends(p, d, 0, 0)
  BY ReturnEnds
<1>2. /\ Told(p, db[p].op, db[p].key, d, 0) /\ Alone(p) /\ db'[p].old = NoData
      /\ Effective(p)' = Outcome(p, d, 0)
  BY <1>1, EndTold
<1>3. Effective(p)' = Effective(p)
  BY <1>2 DEF Effective
<1>4. ASSUME NEW j \in Key PROVE DataKept(j)
  <2>1. ReplaceKept(p, j)
    BY <1>2 DEF ReplaceKept, Replaces
  <2>2. RecordKept(j)
    BY SameDat
  <2> QED
    BY <1>2, <2>1, <2>2, ContentKept
<1>5. SameData(NoData)
  BY <1>4 DEF SameData, DataKept
<1> QED
  BY <1>2, <1>3, <1>5, MapStutters DEF Told, SameOutcomes

\* The end of _db_dodelete returns what took effect before, or goes on with the
\* replacement.
LEMMA UnlinkMap ==
    ASSUME IInv, IInv', DOMAIN last = Proc, NEW p \in Proc, Unlink(p)
    PROVE  Refined
<1>1. KeysKept /\ Alone(p)
  BY PlainEffect DEF Plain
<1> USE <1>1
<1>2. /\ db[p].pc = "unlink" /\ dat' = dat /\ db[p].old # NoData
      /\ db[p].op = "delete" => db[p].data = NoData
  BY DEF Unlink, IInv, CallOK
<1> USE <1>2
<1>3. CASE db[p].op = "delete" /\ Return(p, NoData, 0)
  <2>1. db[p].data = NoData
    BY <1>3
  <2> QED
    BY <1>3, <2>1, ToldEnds DEF Refined
<1>4. CASE Set(p, [pc |-> "reread", idxoff |-> 0, datoff |-> 0]) /\ last' = last
  <2>1. SameCall(p)
    BY SMTT(30), <1>4, SetFields DEF SameCall
  <2>2. \A j \in Key : RecordKept(j)
    BY SameDat
  <2> QED
    BY <1>4, <2>1, <2>2, SameCallMap DEF Refined
<1> QED
  BY <1>3, <1>4 DEF Unlink

\* So does the end of db_store.
LEMMA WritePtrMap ==
    ASSUME IInv, IInv', DOMAIN last = Proc, NEW p \in Proc, WritePtrChain(p)
    PROVE  Refined
<1>1. KeysKept
  BY PlainEffect DEF Plain
<1> QED
  BY <1>1, ToldEnds DEF WritePtrChain, Refined

\* db_store takes effect when it has written the index record,
LEMMA WriteIdxMap ==
    ASSUME IInv, IInv', NEW p \in Proc, WriteIdx(p)
    PROVE  Refined
<1>1. PICK own, rank, max : Numbered(own, rank, max)
  BY DEF IInv
<1>2. PICK k, d, flag, z : k = db[p].key /\ d = db[p].data /\ flag = db[p].op /\ z = db[p].datoff
  OBVIOUS
<1>3. /\ Alone(p) /\ k \in Key /\ k \notin Indexed /\ dat' = dat /\ db[p].pc = "writeidx"
  BY <1>2, WriteIdxEffect
<1>4. PICK n : /\ n \in DOMAIN idx => idx[n].key = Blank
               /\ \A i : i \in DOMAIN idx' <=> i \in DOMAIN idx \/ i = n
               /\ idx'[n].key = k /\ idx'[n].datoff = z
               /\ \A i \in DOMAIN idx : i # n => idx'[i] = idx[i]
  BY <1>2, WriteIdxEffect
<1>5. /\ db[p].pc \in AtChain /\ flag \in {"insert", "replace", "store"}
      /\ flag = "insert" => db[p].old = NoData
      /\ flag = "replace" => db[p].old # NoData
  BY <1>2, <1>3 DEF IInv, CallOK, AtChain
<1>6. dat[z] = d
  BY <1>1, <1>2, <1>3 DEF Numbered, ProcOK, StoreOK
<1>7. /\ db'[p].pc = "writeptr" /\ db'[p].key = k /\ db'[p].data = d /\ db'[p].op = flag
      /\ last' = last
  <2>1. last' = last
    BY DEF WriteIdx
  <2>2. PICK m : m = Len(idx) + 1
    OBVIOUS
  <2>3. CASE Set(p, [pc |-> "writeptr", idxoff |-> m])
    BY SMTT(30), <1>2, <2>1, <2>3, SetFields
  <2>4. CASE Set(p, [pc |-> "writeptr"])
    BY SMTT(30), <1>2, <2>1, <2>4, SetFields
  <2> QED
    BY <2>2, <2>3, <2>4 DEF WriteIdx
<1>8. ASSUME NEW j \in Key, j # k PROVE RecordKept(j)
  BY <1>3, <1>4, <1>8, DbAssumption DEF RecordKept, Blank
<1>9. SameData(k)
  BY <1>2, <1>3, <1>7, <1>8, OtherKept DEF SameData, DataKept
<1>10. Told(p, flag, k, d, 0)
  <2>1. SameOutcomes(p)
    BY <1>3, <1>7 DEF SameOutcomes, Effective, Outcome, Alone
  <2> QED
    BY <1>7, <2>1 DEF Told, Effective, Outcome
<1>11. ContentIs /\ ContentIs'
  BY ContentFacts, ContentNext
<1>12. Content(k)' = d
  <2>1. ~ Replaces(p, k)'
    BY <1>7 DEF Replaces
  <2>2. \A q \in Proc : ~ Replaces(q, k)'
    BY <1>2, <1>3, <1>5, <2>1, NoneReplaces
  <2>3. n \in DOMAIN idx' /\ dat'[idx'[n].datoff] = d
    BY <1>3, <1>4, <1>6
  <2> QED
    BY <1>3, <1>4, <1>11, <2>2, <2>3 DEF ContentIs
<1>13. flag = "insert" => Content(k) = NoData
  <2>1. flag = "insert" => \A q \in Proc : ~ Replaces(q, k)
    BY <1>2, <1>5, NotReplaced
  <2> QED
    BY <1>3, <1>11, <2>1 DEF ContentIs
<1>14. flag = "replace" => Content(k) # NoData
  <2>1. flag = "replace" => Replaces(p, k)
    BY <1>2, <1>3, <1>5 DEF Replaces
  <2> QED
    BY <1>3, <1>5, <1>11, <2>1 DEF ContentIs
<1> QED
  BY <1>3, <1>5, <1>9, <1>10, <1>12, <1>13, <1>14, MapStore DEF Refined

\* ... or the data over data of the same size.
LEMMA OverwriteMap ==
    ASSUME IInv, IInv', DOMAIN last = Proc, NEW p \in Proc, Overwrite(p)
    PROVE  Refined
<1>1. PICK own, rank, max : Numbered(own, rank, max)
  BY DEF IInv
<1>2. PICK k, d, flag, i : k = db[p].key /\ d = db[p].data /\ flag = db[p].op /\ i = db[p].idxoff
  OBVIOUS
<1> USE <1>2
<1>3. /\ db[p].pc = "overwrite" /\ Return(p, d, 0) /\ idx' = idx
      /\ dat' = [dat EXCEPT ![db[p].datoff] = d]
  BY DEF Overwrite
<1> USE <1>3
<1>4. /\ db[p].old = NoData /\ k \in Key /\ db[p].pc \in AtChain
      /\ flag \in {"insert", "replace", "store"} /\ flag # "insert"
  BY DEF IInv, CallOK, AtChain
<1> USE <1>4
<1>5. i \in DOMAIN idx /\ idx[i].key = k /\ idx[i].datoff = db[p].datoff
  BY <1>1 DEF Numbered, ProcOK, FoundOK, AtFound
<1> USE <1>5
<1>6. Content(k) # NoData
  <2>1. db[p].pc \in {"walk", "readdat", "dodelete", "overwrite"} /\ idx[i].key = db[p].key
    OBVIOUS
  <2>2. Content(db[p].key) = dat[idx[i].datoff] /\ dat[idx[i].datoff] # NoData
    BY <2>1, FoundData
  <2> QED
    BY <2>2
<1>7. dat'[idx[i].datoff] = d /\ \A j \in Key : j # k => RecordKept(j)
  <2>1. dat' = [dat EXCEPT ![idx[i].datoff] = d]
    OBVIOUS
  <2> QED
    BY <2>1, DatWritten
<1>8. Told(p, flag, k, d, 0) /\ Alone(p) /\ db'[p].old = NoData
  BY ReturnEnds, EndTold
<1> USE <1>8
<1>9. SameData(k)
  BY <1>7, NoOldKept DEF SameData, DataKept
<1>10. Content(k)' = d
  <2>1. ~ Replaces(p, k)'
    BY DEF Replaces
  <2>2. \A q \in Proc : ~ Replaces(q, k)'
    BY <2>1, NoneReplaces
  <2>3. i \in DOMAIN idx' /\ idx'[i].key = k /\ dat'[idx'[i].datoff] = d
    BY <1>7
  <2> QED
    BY <2>2, <2>3, ContentNext DEF ContentIs
<1> QED
  BY <1>6, <1>9, <1>10, MapStore DEF Refined

-----------------------------------------------------------------------------
(* Sequential reads return what is in the map.                             *)

\* The key and data offset a sequential read has read are those of a record.
NextOK(p) ==
    db[p].pc = "nextdat" =>
       \E i \in DOMAIN idx : idx[i].key = db[p].key /\ idx[i].datoff = db[p].datoff

MapInv == DOMAIN last = Proc /\ \A p \in Proc : NextOK(p)

\* A sequential read holds up whoever deletes.
LEMMA ReadAlone ==
    ASSUME IInv, NEW p \in Proc, db[p].pc \in {"nextidx", "nextdat"},
           NEW q \in Proc, db[q].pc \in AtFree
    PROVE  FALSE
<1>1. p \in rdlock[FREE] /\ q \in wrlock[FREE]
  BY DEF IInv, HasLocks
<1>2. p = q
  BY <1>1, NoAnchor DEF IInv, LocksOK
<1> QED
  BY <1>2 DEF AtFree

\* What a sequential read is about to read is the data of its key.
LEMMA LiveData ==
    ASSUME IInv, NEW p \in Proc, db[p].pc = "nextdat",
           NEW i \in DOMAIN idx, idx[i].key = db[p].key
    PROVE  /\ Content(db[p].key) = dat[idx[i].datoff] /\ dat[idx[i].datoff] # NoData
           /\ db[p].key \in Key
<1>1. PICK own, rank, max : Numbered(own, rank, max)
  BY DEF IInv
<1> USE <1>1
<1>2. db[p].key \in Key /\ db[p].key # Blank /\ db[p].key \in Indexed
  <2>1. db[p].key \in Key /\ db[p].key # Blank
    BY DbAssumption DEF IInv, CallOK, Blank
  <2> QED
    BY <2>1, NotIndexed
<1> USE <1>2
<1>3. ASSUME dat[idx[i].datoff] = NoData PROVE FALSE
  <2>1. own[i] \in Anchor \cup {0} /\ MembersOK(own)
    BY DEF Numbered, Numbering
  <2> USE <2>1
  <2>2. CASE own[i] = 0
    <3>1. PICK q \in Proc : Holds(q) /\ db[q].idxoff = i
      BY <2>2 DEF MembersOK
    <3>2. /\ idx[i].datoff = db[q].datoff
          /\ idx[i].key = IF db[q].pc = "writeptr" THEN db[q].key ELSE Blank
      BY <3>1 DEF Numbered, ProcOK, StoreOK
    <3> USE <3>2
    <3>3. db[q].pc = "writeptr"
      OBVIOUS
    <3> USE <3>3
    <3>4. dat[db[q].datoff] = db[q].data
      BY DEF Numbered, ProcOK, StoreOK
    <3>5. db[q].data \in Data
      BY DEF IInv, CallOK
    <3> QED
      BY <1>3, <3>4, <3>5, DbAssumption
  <2>3. CASE own[i] \in Anchor
    <3>1. Home(idx[i]) = own[i]
      BY <2>3, NoAnchor DEF MembersOK
    <3>2. own[i] \in Chain
      BY <3>1, NoAnchor DEF Home
    <3>3. PICK q \in Proc : db[q].pc \in {"readfree", "blankidx"}
      BY <1>3, <3>2 DEF MembersOK, Blank
    <3> QED
      BY <3>3, ReadAlone DEF AtFree
  <2> QED
    BY <2>2, <2>3
<1>4. ASSUME NEW q \in Proc, Replaces(q, db[p].key) PROVE FALSE
  <2>1. /\ db[q].pc \in {"readfree", "blankidx", "tofree", "unlink", "reread",
                         "writedat", "writeidx", "writeptr"}
        /\ db[q].key = db[p].key /\ db[q].pc # "writeptr"
    BY <1>4, OldLocked DEF Replaces
  <2> USE <2>1
  <2>2. CASE db[q].pc \in AtFree
    BY <2>2, ReadAlone
  <2>3. CASE db[q].pc \in AtAbsent
    BY <2>3 DEF Numbered, ProcOK, StoreOK
  <2> QED
    BY <2>2, <2>3 DEF AtFree, AtAbsent
<1> QED
  BY <1>3, <1>4, ContentFacts DEF ContentIs

\* _db_readidx in a sequential read is a stutter of the map, or returns the end.
LEMMA NextIdxMap ==
    ASSUME IInv, IInv', DOMAIN last = Proc, NEW p \in Proc, NextIdx(p)
    PROVE  Refined /\ NextOK(p)' /\ Alone(p)
<1>1. PICK i : i = db[p].pos
  OBVIOUS
<1> USE <1>1
<1>2. /\ idx' = idx /\ dat' = dat /\ db[p].pc = "nextidx" /\ db[p].old = NoData
      /\ db[p].op = "nextrec" /\ db[p].key = NoData
  BY DEF NextIdx, files, IInv, CallOK
<1> USE <1>2
<1>3. CASE /\ last' = [last EXCEPT ![p] = Outcome(p, NoData, -1)]
           /\ db' = [db EXCEPT ![p] = [Idle EXCEPT !.pos = i]]
  <2>1. PICK rc : rc = -1
    OBVIOUS
  <2> USE <2>1
  <2>2. Ends(p, NoData, rc, i)
    BY <1>3 DEF Ends
  <2>3. Told(p, db[p].op, db[p].key, NoData, rc) /\ SameData(NoData) /\ Alone(p)
    BY <2>2, ReadEnds, EndTold
  <2> USE <2>3
  <2>4. Told(p, "nextrec", NoData, NoData, rc)
    OBVIOUS
  <2>5. Refined
    BY <2>4, MapNextrec DEF Refined
  <2>6. db'[p].pc = "idle"
    BY SMTT(30), <1>3 DEF IInv, Idle
  <2> QED
    BY <2>5, <2>6 DEF NextOK
<1>4. CASE /\ i <= Len(idx) /\ last' = last
           /\ Set(p, [pos |-> i + 1, key |-> idx[i].key, datoff |-> idx[i].datoff,
                      pc |-> IF idx[i].key = Blank THEN "nextidx" ELSE "nextdat"])
  <2>1. i \in DOMAIN idx
    <3>1. i \in Nat /\ i # 0 /\ idx \in Seq(Record)
      BY DEF IInv, FieldsOK, FilesOK, CallOK
    <3> QED
      BY SMTT(30), <1>4, <3>1
  <2>2. PICK f : f = IF idx[i].key = Blank THEN "nextidx" ELSE "nextdat"
    OBVIOUS
  <2> USE <2>2
  <2>3. Set(p, [pos |-> i + 1, key |-> idx[i].key, datoff |-> idx[i].datoff, pc |-> f])
    BY <1>4
  <2> USE <2>3
  <2>4. /\ db'[p].key = idx[i].key /\ db'[p].datoff = idx[i].datoff /\ db'[p].pc = f
        /\ db'[p].old = db[p].old
    BY SMTT(30), SetFields
  <2> USE <2>4
  <2>5. f # "writeptr"
    OBVIOUS
  <2>6. Alone(p)
    BY SetAlone
  <2> USE <2>6
  <2>7. UNCHANGED Abstract!vars
    BY <1>4, <2>5, QuietMap
  <2> QED
    BY <2>1, <2>7 DEF NextOK, Refined
<1> QED
  BY <1>3, <1>4 DEF NextIdx

\* A sequential read returns a key with its content.
LEMMA NextDatMap ==
    ASSUME IInv, IInv', DOMAIN last = Proc, NEW p \in Proc, NextOK(p), NextDat(p)
    PROVE  Refined /\ NextOK(p)' /\ Alone(p)
<1>1. PICK k, d : k = db[p].key /\ d = dat[db[p].datoff]
  OBVIOUS
<1> USE <1>1
<1>2. /\ idx' = idx /\ dat' = dat /\ db[p].pc = "nextdat" /\ db[p].old = NoData
      /\ db[p].op = "nextrec"
  BY DEF NextDat, files, IInv, CallOK
<1> USE <1>2
<1>3. PICK x : x = db[p].pos
  OBVIOUS
<1>4. Ends(p, d, 0, x)
  BY <1>3 DEF NextDat, Ends
<1>5. Told(p, db[p].op, db[p].key, d, 0) /\ SameData(NoData) /\ Alone(p)
  BY <1>4, ReadEnds, EndTold
<1>6. k \in Key /\ d = Content(k) /\ d # NoData
  <2>1. PICK i \in DOMAIN idx : idx[i].key = db[p].key /\ idx[i].datoff = db[p].datoff
    BY DEF NextOK
  <2> QED
    BY <2>1, LiveData
<1>7. Told(p, "nextrec", k, d, 0)
  BY <1>5
<1>8. db'[p].pc = "idle"
  BY SMTT(30), <1>4 DEF IInv, Idle, Ends
<1> QED
  BY <1>5, <1>6, <1>7, <1>8, MapNextrec DEF Refined, NextOK

\* The steps outside of a call.
LEMMA BeginMap ==
    ASSUME IInv, IInv', NEW p \in Proc,
           \/ \E op, k, d : Call(p, op, k, d)
           \/ Rewind(p) \/ Nextrec(p)
    PROVE  UNCHANGED Abstract!vars /\ NextOK(p)' /\ Alone(p) /\ idx' = idx /\ last' = last
<1>1. /\ db[p].pc = "idle" /\ db[p].old = NoData
      /\ idx' = idx /\ dat' = dat /\ last' = last
  BY DEF Call, Rewind, Nextrec, Ready, files, IInv, CallOK
<1> USE <1>1
<1>2. Alone(p) /\ db'[p].old = NoData /\ db'[p].pc \in {"idle", "find", "nextidx"}
  <2>1. CASE \E op, k, d : Call(p, op, k, d)
    <3>1. PICK op, k, d : Call(p, op, k, d)
      BY <2>1
    <3>2. PICK r : r = [Idle EXCEPT !.pc = "find", !.op = op, !.key = k, !.data = d, !.pos = 0]
      OBVIOUS
    <3>3. r.old = NoData /\ r.pc = "find"
      BY SMTT(30), <3>2 DEF Idle
    <3>4. db' = [db EXCEPT ![p] = r]
      BY <3>1, <3>2 DEF Call
    <3> QED
      BY <3>3, <3>4 DEF Alone, IInv
  <2>2. CASE Rewind(p)
    <3>1. Set(p, [pos |-> 1])
      BY <2>2 DEF Rewind
    <3>2. db'[p].old = db[p].old /\ db'[p].pc = db[p].pc
      BY SMTT(30), <3>1, SetFields
    <3> QED
      BY <3>1, <3>2, SetAlone
  <2>3. CASE Nextrec(p)
    <3>1. Set(p, [pc |-> "nextidx", op |-> "nextrec"])
      BY <2>3 DEF Nextrec
    <3>2. db'[p].old = db[p].old /\ db'[p].pc = "nextidx"
      BY SMTT(30), <3>1, SetFields
    <3> QED
      BY <3>1, <3>2, SetAlone
  <2> QED
    BY <2>1, <2>2, <2>3
<1>3. db[p].pc # "writeptr" /\ db'[p].pc # "writeptr" /\ db'[p].pc # "nextdat"
  BY <1>2
<1>4. UNCHANGED Abstract!vars
  BY <1>2, <1>3, QuietMap
<1> QED
  BY <1>2, <1>3, <1>4 DEF NextOK

\* The end of a call in the map.
LEMMA OverMap ==
    ASSUME IInv, IInv', DOMAIN last = Proc, NEW p \in Proc, Over(p)
    PROVE  Refined
<1>1. /\ last' = [last EXCEPT ![p] = NoOutcome] /\ idx' = idx /\ dat' = dat /\ db' = db
  BY DEF Over, files
<1> USE <1>1
<1>2. SameData(NoData)
  <2>1. \A j \in Key : ReplaceKept(p, j)
    BY DEF ReplaceKept, Replaces
  <2>2. Alone(p) /\ \A j \in Key : RecordKept(j)
    BY SameKeys, SameDat DEF Alone
  <2>3. \A j \in Key : DataKept(j)
    BY <2>1, <2>2, ContentKept
  <2> QED
    BY <2>3 DEF SameData, DataKept
<1> USE <1>2
<1>3. SameOutcomes(p)
  BY DEF SameOutcomes, Effective, Outcome
<1> USE <1>3
<1>4. CASE db[p].pc = "writeptr" \/ (db[p].op = "delete" /\ db[p].old # NoData)
  <2>1. Effective(p)' = Effective(p)
    BY <1>4 DEF Effective, Outcome
  <2> QED
    BY <2>1, MapStutters DEF SameOutcomes, Refined
<1>5. CASE ~ (db[p].pc = "writeptr" \/ (db[p].op = "delete" /\ db[p].old # NoData))
  <2>1. Effective(p)' = NoOutcome
    BY <1>5 DEF Effective
  <2>2. Told(p, "none", NoData, NoData, 0)
    BY <2>1 DEF Told, NoOutcome
  <2> QED
    BY <2>2, MapOver DEF Refined
<1> QED
  BY <1>4, <1>5

\* A call that goes on stays the same call.
LEMMA PlainOp ==
    ASSUME IInv, NEW p \in Proc, Plain(p)
    PROVE  db'[p].op \in {db[p].op, "none"}
<1>1. ASSUME NEW d, NEW rc, Return(p, d, rc) PROVE db'[p].op = "none"
  <2>1. db'[p] = [Idle EXCEPT !.pos = 0]
    BY <1>1 DEF Return, IInv
  <2> QED
    BY SMTT(30), <2>1 DEF Idle
<1>2. CASE Silent(p)
  BY <1>2, SilentCall DEF SameCall
<1>3. CASE Walk(p)
  <2>1. PICK i : i = db[p].offset
    OBVIOUS
  <2>2. CASE Set(p, [ptroff |-> i, offset |-> idx[i].next])
    BY SMTT(30), <2>2, SetFields
  <2>3. CASE Set(p, [pc |-> Found(p, i), idxoff |-> i, datoff |-> idx[i].datoff,
                     ptrval |-> idx[i].next])
    BY SMTT(30), <2>3, SetFields
  <2> QED
    BY <1>1, <1>3, <2>1, <2>2, <2>3 DEF Walk
<1>4. CASE NotFound(p)
  <2>1. CASE Set(p, [pc |-> "findfree", ptrval |-> head[Hash[db[p].key]]])
    BY SMTT(30), <2>1, SetFields
  <2> QED
    BY <1>1, <1>4, <2>1 DEF NotFound
<1>5. CASE BlankDat(p)
  <2>1. Set(p, [pc |-> "readfree", old |-> dat[db[p].datoff]])
    BY <1>5 DEF BlankDat
  <2> QED
    BY SMTT(30), <2>1, SetFields
<1>6. CASE Unlink(p)
  <2>1. CASE Set(p, [pc |-> "reread", idxoff |-> 0, datoff |-> 0])
    BY SMTT(30), <2>1, SetFields
  <2> QED
    BY <1>1, <1>6, <2>1 DEF Unlink
<1>7. CASE ReadDat(p) \/ WritePtrChain(p) \/ Overwrite(p)
  BY <1>1, <1>7 DEF ReadDat, WritePtrChain, Overwrite
<1> QED
  BY <1>2, <1>3, <1>4, <1>5, <1>6, <1>7 DEF Plain, Silent

\* A process in a call other than db_nextrec is not in one after its step.
LEMMA CallingNextOK ==
    ASSUME IInv, IInv', NEW p \in Proc, Plain(p) \/ BlankIdx(p) \/ WriteIdx(p)
    PROVE  NextOK(p)'
<1>1. CASE Plain(p)
  <2>1. Calling(p) /\ db'[p].op \in {db[p].op, "none"}
    BY <1>1, PlainEffect, PlainOp
  <2>2. db[p].op \in Update \cup {"fetch"}
    BY <2>1 DEF IInv, CallOK, Calling
  <2>3. db'[p].op # "nextrec"
    BY <2>1, <2>2 DEF Update
  <2>4. db'[p].pc # "nextdat"
    BY <2>3 DEF IInv, CallOK
  <2> QED
    BY <2>4 DEF NextOK
<1>2. CASE BlankIdx(p)
  <2>1. Set(p, [pc |-> "tofree"])
    BY <1>2 DEF BlankIdx
  <2>2. db'[p].pc = "tofree"
    BY SMTT(30), <2>1, SetFields
  <2> QED
    BY <2>2 DEF NextOK
<1>3. CASE WriteIdx(p)
  <2>1. PICK m : m = Len(idx) + 1
    OBVIOUS
  <2>2. CASE Set(p, [pc |-> "writeptr", idxoff |-> m])
    <3>1. db'[p].pc = "writeptr"
      BY SMTT(30), <2>2, SetFields
    <3> QED
      BY <3>1 DEF NextOK
  <2>3. CASE Set(p, [pc |-> "writeptr"])
    <3>1. db'[p].pc = "writeptr"
      BY SMTT(30), <2>3, SetFields
    <3> QED
      BY <3>1 DEF NextOK
  <2> QED
    BY <1>3, <2>1, <2>2, <2>3 DEF WriteIdx
<1> QED
  BY <1>1, <1>2, <1>3

\* The record of another process's sequential read stays.
LEMMA NextOKKept ==
    ASSUME IInv, NEW p \in Proc, Alone(p), KeysKept \/ BlankIdx(p) \/ WriteIdx(p),
           NEW q \in Proc, q # p, NextOK(q)
    PROVE  NextOK(q)'
<1> SUFFICES ASSUME db[q].pc = "nextdat"
             PROVE  \E i \in DOMAIN idx' :
                       idx'[i].key = db[q].key /\ idx'[i].datoff = db[q].datoff
  BY DEF NextOK, Alone
<1>1. PICK i \in DOMAIN idx : idx[i].key = db[q].key /\ idx[i].datoff = db[q].datoff
  BY DEF NextOK
<1> USE <1>1
<1>2. CASE KeysKept
  BY <1>2 DEF KeysKept
<1>3. CASE BlankIdx(p)
  BY <1>3, ReadAlone DEF BlankIdx, AtFree
<1>4. CASE WriteIdx(p)
  <2>1. PICK n : /\ n \in DOMAIN idx => idx[n].key = Blank
                 /\ \A j : j \in DOMAIN idx' <=> j \in DOMAIN idx \/ j = n
                 /\ \A j \in DOMAIN idx : j # n => idx'[j] = idx[j]
    BY <1>4, WriteIdxEffect
  <2>2. idx[i].key \in Key
    BY DEF IInv, CallOK
  <2>3. idx[i].key # Blank
    BY <2>2, DbAssumption DEF Blank
  <2> QED
    BY <2>1, <2>3
<1> QED
  BY <1>2, <1>3, <1>4

\* Every process has an outcome.
LEMMA LastDomain ==
    ASSUME DOMAIN last = Proc, [Next]_vars
    PROVE  DOMAIN last' = Proc
<1>1. \A p, d, rc : Return(p, d, rc) => DOMAIN last' = Proc
  BY DEF Return
<1>2. CASE UNCHANGED vars
  BY <1>2 DEF vars
<1>3. ASSUME NEW p \in Proc, Step(p) PROVE DOMAIN last' = Proc
  BY <1>1, <1>3
     DEF Step, FindAndLock, Walk, NotFound, ReadDat, BlankDat, ReadFree, BlankIdx, ToFree,
         Unlink, Reread, FindFree, WalkFree, NoFree, WriteDat, WriteIdx, WritePtrChain,
         Overwrite, NextIdx, NextDat, Over
<1>4. ASSUME NEW p \in Proc,
             (\E op, k, d : Call(p, op, k, d)) \/ Rewind(p) \/ Nextrec(p)
      PROVE  DOMAIN last' = Proc
  BY <1>4 DEF Call, Rewind, Nextrec
<1> QED
  BY <1>2, <1>3, <1>4 DEF Next

\* A step of process p: its part of the invariant, and what others see of it.
LEMMA MapStep ==
    ASSUME IInv, IInv', MapInv, NEW p \in Proc,
           \/ Step(p) \/ (\E op, k, d : Call(p, op, k, d)) \/ Rewind(p) \/ Nextrec(p)
    PROVE  /\ Refined /\ NextOK(p)' /\ Alone(p)
           /\ KeysKept \/ BlankIdx(p) \/ WriteIdx(p)
<1>1. DOMAIN last = Proc /\ NextOK(p)
  BY DEF MapInv
<1> USE <1>1
<1>2. CASE (\E op, k, d : Call(p, op, k, d)) \/ Rewind(p) \/ Nextrec(p)
  BY <1>2, BeginMap, SameKeys DEF Refined
<1>3. CASE Plain(p)
  <2>1. Refined
    <3>1. CASE Silent(p)
      BY <3>1, SilentMap DEF Refined
    <3>2. CASE ~ Silent(p)
      BY <1>3, <3>2, WalkMap, NotFoundMap, ReadDatMap, BlankDatMap, UnlinkMap,
         WritePtrMap, OverwriteMap DEF Plain, Silent
    <3> QED
      BY <3>1, <3>2
  <2> QED
    BY <1>3, <2>1, CallingNextOK, PlainEffect
<1>4. CASE BlankIdx(p)
  BY <1>4, BlankIdxMap, CallingNextOK, BlankIdxEffect
<1>5. CASE WriteIdx(p)
  BY <1>5, WriteIdxMap, CallingNextOK, WriteIdxEffect
<1>6. CASE NextIdx(p) \/ NextDat(p)
  <2>1. KeysKept
    BY <1>6, SameKeys DEF NextIdx, NextDat, files
  <2> QED
    BY <1>6, <2>1, NextIdxMap, NextDatMap
<1>7. CASE Over(p)
  <2>1. idx' = idx /\ db' = db
    BY <1>7 DEF Over, files
  <2> USE <2>1
  <2>2. NextOK(p)' /\ Alone(p)
    BY DEF NextOK, Alone
  <2> QED
    BY <1>7, <2>2, SameKeys, OverMap
<1> QED
  BY <1>2, <1>3, <1>4, <1>5, <1>6, <1>7 DEF Step, Plain

\* Every step is one of the map or a stutter, and keeps what that rests on.
LEMMA MapNext ==
    ASSUME IInv, IInv', MapInv, [Next]_vars
    PROVE  MapInv' /\ Refined
<1>1. DOMAIN last' = Proc
  BY LastDomain DEF MapInv
<1> USE <1>1
<1>2. CASE UNCHANGED vars
  <2>1. MapInv'
    BY <1>2 DEF MapInv, NextOK, vars, files
  <2>2. Map' = Map
    BY SMTT(30), <1>2 DEF Map, Content, Indexed, vars, files
  <2>3. Last' = Last
    BY <1>2 DEF Last, Effective, Outcome, vars
  <2> QED
    BY <2>1, <2>2, <2>3 DEF Refined, Abstract!vars
<1>3. CASE Next
  <2>1. PICK p \in Proc :
          \/ Step(p) \/ (\E op, k, d : Call(p, op, k, d)) \/ Rewind(p) \/ Nextrec(p)
    BY <1>3 DEF Next
  <2>2. /\ Refined /\ NextOK(p)' /\ Alone(p)
        /\ KeysKept \/ BlankIdx(p) \/ WriteIdx(p)
    BY <2>1, MapStep
  <2> USE <2>2
  <2>3. ASSUME NEW q \in Proc, q # p PROVE NextOK(q)'
    BY <2>3, NextOKKept DEF MapInv
  <2> QED
    BY <2>3 DEF MapInv
<1> QED
  BY <1>2, <1>3

\* A database at rest is a map.
LEMMA MapInit ==
    ASSUME Init, IInv
    PROVE  MapInv /\ Abstract!Init
<1>1. /\ last = [p \in Proc |-> NoOutcome] /\ db = [p \in Proc |-> Idle]
  BY DEF Init
<1> USE <1>1
<1>2. Idle.pc = "idle" /\ Idle.op = "none" /\ Idle.old = NoData
  BY SMTT(30) DEF Idle
<1> USE <1>2
<1>3. MapInv
  BY DEF MapInv, NextOK
<1>4. Last = [p \in Proc |-> Abstract!NoOutcome]
  <2>1. Abstract!NoOutcome = NoOutcome
    BY DEF Abstract!NoOutcome, Abstract!Outcome, NoOutcome
  <2>2. \A p \in Proc : Effective(p) = NoOutcome
    BY DEF Effective
  <2> QED
    BY <2>1, <2>2 DEF Last
<1>5. ASSUME NEW k \in Key PROVE Content(k) \in Data \cup {NoData}
  <2>1. \A p \in Proc : ~ Replaces(p, k)
    BY DEF Replaces
  <2> USE <2>1
  <2>2. CASE k \in Indexed
    <3>1. PICK i \in DOMAIN idx : idx[i].key = k
      BY <2>2 DEF Indexed
    <3>2. Content(k) = dat[idx[i].datoff]
      BY <3>1, ContentFacts DEF ContentIs
    <3>3. PICK n : n = idx[i].datoff /\ n \in DOMAIN dat /\ dat \in Seq(Data \cup {NoData})
      BY DEF IInv, FilesOK, Blank
    <3> USE <3>3
    <3>4. dat[n] \in Data \cup {NoData}
      BY SMTT(30)
    <3> QED
      BY <3>2, <3>4
  <2>3. CASE k \notin Indexed
    BY <2>3, ContentFacts DEF ContentIs
  <2> QED
    BY <2>2, <2>3
<1>6. Map \in [Key -> Data \cup {NoData}]
  BY <1>5 DEF Map
<1> QED
  BY <1>3, <1>4, <1>6 DEF Abstract!Init

=============================================================================
