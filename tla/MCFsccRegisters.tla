-------------------------- MODULE MCFsccRegisters ---------------------------
(***************************************************************************)
(* Instances of FsccRegisters for TLC.                                     *)
(***************************************************************************)
EXTENDS FsccRegisters

Columns == <<"CMDR", "STAR", "CCR0", "BGR">>

Factory == [r \in Regs |-> IF r = "CCR0" THEN 28 ELSE 0]

\* A command, a read-only register, a mode with or without RECD, FCR values with
\* and without the bits that are masked off, DMACCR with and without its special
\* bits; every register may be left out or asked for.
Some(cmdr, ccr0, bgr, fcr, dmaccr) ==
  [r \in Regs |-> CASE r = "CMDR" -> cmdr [] r = "STAR" -> 3 [] r = "CCR0" -> ccr0
                    [] r = "BGR" -> bgr [] r = "FCR" -> fcr [] r = "DMACCR" -> dmaccr]

MixedRequests ==
  {Some(special[1], ccr0, IF ccr0 = 5 THEN 0 ELSE FSCC_UPDATE_VALUE, fcr, special[2]) :
     special \in {<<FSCC_REGISTERS_INIT, FSCC_REGISTERS_INIT>>, <<ResetCommand, 1>>,
                  <<FSCC_UPDATE_VALUE, DmaBits + MasterBit>>},
     ccr0 \in {FSCC_UPDATE_VALUE, 5, 5 + Recd}, fcr \in {FSCC_UPDATE_VALUE, FcrMask + 9}}
  \cup {Some(FSCC_REGISTERS_INIT, ccr0, FSCC_UPDATE_VALUE, 0, 0) : ccr0 \in {FSCC_UPDATE_VALUE, 5}}

ZeroRequests ==
  {Some(FSCC_REGISTERS_INIT, FSCC_UPDATE_VALUE, FSCC_UPDATE_VALUE, fcr, 1) :
     fcr \in {0, 7, FSCC_UPDATE_VALUE}}

SparseRequests ==
  {Some(FSCC_REGISTERS_INIT, 5, FSCC_UPDATE_VALUE, FSCC_REGISTERS_INIT, FSCC_REGISTERS_INIT)}
=============================================================================
