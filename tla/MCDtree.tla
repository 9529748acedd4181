------------------------------ MODULE MCDtree -------------------------------
(***************************************************************************)
(* Two roots; the first has a directory with a subdirectory, or two.       *)
(***************************************************************************)
EXTENDS Dtree

CONSTANTS r1, r2, n1, n2

MCRoot == {r1, r2}
MCName == {n1, n2}

MCTrees ==
    {<<<<r1>>, <<r2>>, <<r1, n1>>, <<r1, n2>>>>,
     <<<<r1>>, <<r2>>, <<r1, n1>>, <<r1, n1, n2>>>>}

=============================================================================
