------------------------------- MODULE MCMyMq -------------------------------
(***************************************************************************)
(* MyMq for TLC.  The processes are interchangeable.                       *)
(***************************************************************************)
EXTENDS MyMq, TLC

ProcSymmetry == Permutations(Proc)
=============================================================================
