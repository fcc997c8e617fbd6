----------------------------- MODULE MCFsccFcr ------------------------------
(***************************************************************************)
(* Instances of FsccFcr for TLC.                                           *)
(***************************************************************************)
EXTENDS FsccFcr, TLC

Symmetric == Permutations(Threads) \cup Permutations(Ports)
=============================================================================
