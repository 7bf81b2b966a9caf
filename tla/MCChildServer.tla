--------------------------- MODULE MCChildServer ---------------------------
(***************************************************************************)
(* Small instances of ChildServer for TLC.                                 *)
(***************************************************************************)
EXTENDS ChildServer, TLC

WorkerSymmetry == Permutations(Workers) \cup Permutations(Conns)
=============================================================================
