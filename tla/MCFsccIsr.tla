----------------------------- MODULE MCFsccIsr ------------------------------
(***************************************************************************)
(* Instances of FsccIsr for TLC.                                           *)
(***************************************************************************)
EXTENDS FsccIsr

TwoMasks == {{"RFE"}, {"RFE", "ALLS"}}
=============================================================================
