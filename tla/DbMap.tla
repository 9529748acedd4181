------------------------------- MODULE DbMap --------------------------------
(***************************************************************************)
(* Db as an implementation of the map KvStore: what the files and the calls*)
(* under way stand for.                                                    *)
(***************************************************************************)
EXTENDS Db

\* The data of key k.  A db_store that replaces data of another size has taken
\* the old record away before the new one is there; the new data counts from
\* the moment the index record is written.
Content(k) ==
    LET Replacing == {p \in Proc : /\ db[p].key = k /\ db[p].old # NoData
                                   /\ db[p].op # "delete" /\ db[p].pc # "writeptr"}
    IN  IF Replacing # {} THEN db[CHOOSE p \in Replacing : TRUE].old
        ELSE IF k \in Indexed
             THEN dat[idx[CHOOSE i \in DOMAIN idx : idx[i].key = k].datoff]
             ELSE NoData

\* A call has taken effect before it returns: db_store when it has written the
\* index record, db_delete when it has blanked the data.
Effective(p) ==
    IF db[p].pc = "writeptr" \/ (db[p].op = "delete" /\ db[p].old # NoData)
    THEN Outcome(p, db[p].data, 0) ELSE last[p]

Map == [k \in Key |-> Content(k)]

Last == [p \in Proc |-> Effective(p)]

Abstract == INSTANCE KvStore WITH map <- Map, last <- Last

\* The library implements a map: whatever the interleaving of the steps of
\* several processes, their calls return what they would if each took effect at
\* one instant between its start and its end.
ImplementsMap == Abstract!Spec
=============================================================================
