------------------------------ MODULE MCFsccRx ------------------------------
(***************************************************************************)
(* Instances of FsccRx for TLC.                                            *)
(***************************************************************************)
EXTENDS FsccRx, TLC

\* Frame sizes (with the two status bytes) for descriptors of 4 bytes: within
\* one descriptor, over two, over three, ending with a descriptor, longer than a ring.
TrafficWrap    == <<8, 9, 3>>
TrafficPair    == <<3, 6>>
TrafficTriple  == <<3, 6, 3>>
TrafficOne     == <<8>>
TrafficLong    == <<12>>
TrafficStream  == <<14>>

Setting(status, timestamp, multiple) ==
  [append_status |-> status, append_timestamp |-> timestamp, rx_multiple |-> multiple]

BareSettings  == {Setting(FALSE, FALSE, FALSE), Setting(TRUE, FALSE, TRUE)}
PlainSetting  == {Setting(FALSE, FALSE, FALSE)}
StampSettings == {Setting(FALSE, TRUE, FALSE), Setting(TRUE, TRUE, TRUE)}

ReaderSymmetry == Permutations(Readers)
=============================================================================
