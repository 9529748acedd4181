------------------------------ MODULE MCRwLock ------------------------------
(***************************************************************************)
(* RwLock for TLC.  The threads are interchangeable: nothing in RwLock     *)
(* tells them apart.                                                       *)
(***************************************************************************)
EXTENDS RwLock, TLC

ThreadSymmetry == Permutations(Thread)
=============================================================================
