-------------------------------- MODULE MCDb --------------------------------
(***************************************************************************)
(* Db for TLC: keys k1 and k2 share a chain, k1 and k3 a length, and d1    *)
(* and e1 a length.                                                        *)
(***************************************************************************)
EXTENDS DbMap, TLC

CONSTANTS k1, k2, k3, d1, e1, d2, c1, c2

MCHash == [k \in Key |-> IF k = k3 THEN c2 ELSE c1]
MCKeyLen == [k \in Key |-> IF k = k2 THEN 2 ELSE 1]
MCDatLen == [d \in Data |-> IF d = d2 THEN 2 ELSE 1]

Symmetry == Permutations(Proc)

Rec(k, d, at, next) ==
    [key |-> k, keylen |-> KeyLen[k], datoff |-> at, datlen |-> DatLen[d], next |-> next]

\* A new database; and one where k1, k2 and k3 were stored and k3 was deleted.
MCFiles ==
    { [head |-> [h \in Anchor |-> 0], idx |-> <<>>, dat |-> <<>>],
      [head |-> [h \in Anchor |-> IF h = FREE THEN 3 ELSE IF h = c1 THEN 2 ELSE 0],
       idx |-> <<Rec(k1, d1, 1, 0), Rec(k2, d2, 2, 1),
                 [Rec(k3, d1, 3, 0) EXCEPT !.key = Blank]>>,
       dat |-> <<d1, d2, Blank>>] }
=============================================================================
