------------------------------ MODULE MCFsccTx ------------------------------
(***************************************************************************)
(* Instances of FsccTx for TLC.                                            *)
(***************************************************************************)
EXTENDS FsccTx, TLC

Setting(blocking, wait) == [blocking_write |-> blocking, wait_on_write |-> wait]

PlainSetting    == {Setting(FALSE, FALSE)}
BlockingSetting == {Setting(TRUE, FALSE)}
WaitSettings    == {Setting(FALSE, FALSE), Setting(FALSE, TRUE)}

OframeSymmetry == Permutations(Oframes)
=============================================================================
