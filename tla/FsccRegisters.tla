--------------------------- MODULE FsccRegisters ----------------------------
(***************************************************************************)
(* The register ioctls of one port: FSCC_SET_REGISTERS and                 *)
(* FSCC_GET_REGISTERS with their markers for registers that are not meant, *)
(* register_storage, which remembers what was written, and the other       *)
(* writers of the same registers: FSCC_PURGE_RX, the FORCE_FIFO ioctls and *)
(* the transmit command of oframe_worker.  Ioctls come one at a time.      *)
(***************************************************************************)
EXTENDS Integers, Sequences

CONSTANTS
  Bar0,         \* the registers of BAR 0, in the order of struct fscc_registers
  Requests,     \* the structures applications pass in
  Defaults,     \* the values of the registers after FsccEvtDevicePrepareHardware
  HasDma,       \* port->has_dma
  MaxCalls,     \* bound on the number of ioctls
  MaxOutages    \* bound on how often the clock stops

FSCC_REGISTERS_INIT == -1      \* the value that marks a register as not meant
FSCC_UPDATE_VALUE   == -2

Bar2      == {"FCR", "DMACCR"}
Regs      == {Bar0[i] : i \in 1..Len(Bar0)} \cup Bar2
Recd      == 33554432          \* 0x02000000
MasterBit == 65536             \* 0x00010000
DmaBits   == 50331648          \* 0x03000000
FcrMask   == 1073741824        \* 0x3fffffff + 1
TransmitCommand == 16777216    \* 0x01000000
ResetCommand    == 131072      \* 0x00020000

ASSUME RegistersAssumption ==
  /\ Bar0 \in Seq(STRING) /\ Bar2 \cap {Bar0[i] : i \in 1..Len(Bar0)} = {}
  /\ \A i, j \in 1..Len(Bar0) : i # j => Bar0[i] # Bar0[j]
  /\ {"CMDR", "CCR0"} \subseteq {Bar0[i] : i \in 1..Len(Bar0)}
  /\ Requests \subseteq [Regs -> Int] /\ Defaults \in [Regs -> Nat]
  /\ HasDma \in BOOLEAN /\ MaxCalls \in Nat /\ MaxOutages \in Nat

VARIABLES
  channel,            \* port->channel: the card's first or second port
  hw,                 \* the registers of this port
  other_dmaccr,       \* DMACCR of the card's other port, as written here
  register_storage,   \* port->register_storage
  force_fifo,         \* port->force_fifo
  clock,              \* [on, outages]: a clock is present
  op,                 \* the ioctl in progress
  calls,              \* ioctls so far
  wanted,             \* history: what applications set each register to last
  last                \* history: what the last ioctl did

others == <<channel, other_dmaccr>>
card   == <<others, hw>>
vars == <<channel, hw, other_dmaccr, register_storage, force_fifo, clock, op, calls, wanted, last>>

-----------------------------------------------------------------------------
(* Bits of a 64-bit two's complement value, the negative markers included. *)
Bit(v, b)       == (v \div b) % 2 = 1
SetBit(v, b)    == IF Bit(v, b) THEN v ELSE v + b
ClearBit(v, b)  == IF Bit(v, b) THEN v - b ELSE v

uses_dma == HasDma /\ ~force_fifo

\* Mutant: the DMA enable bits are the caller's.
DmaccrValue_AsGiven(v, dma) == v

\* DMACCR's two enable bits always follow the mode.
DmaccrValue(v, dma) ==
  IF dma THEN SetBit(SetBit(v, DmaBits \div 3), 2 * (DmaBits \div 3))
         ELSE ClearBit(ClearBit(v, DmaBits \div 3), 2 * (DmaBits \div 3))

\* fscc_port_set_register: a command needs a clock; BAR 0 and FCR are remembered.
TimesOut(r) == r = "CMDR" /\ ~clock.on

fscc_port_set_register(r, v) ==
  IF TimesOut(r) THEN UNCHANGED <<hw, register_storage>>
  ELSE /\ hw' = [hw EXCEPT ![r] = IF r = "DMACCR" THEN DmaccrValue(v, uses_dma) ELSE v]
       /\ register_storage' = IF r = "DMACCR" THEN register_storage
                              ELSE [register_storage EXCEPT ![r] = v]

-----------------------------------------------------------------------------
(* FSCC_SET_REGISTERS.                                                     *)

Idle == [pc |-> "idle"]

Call == op.pc = "idle" /\ calls < MaxCalls /\ calls' = calls + 1

SetBegin(req) ==
  /\ Call
  /\ op' = [pc |-> "set", req |-> req, i |-> 1, stalled |-> FALSE, touched |-> {}]
  /\ UNCHANGED <<card, register_storage, force_fifo, clock, wanted, last>>

is_read_only_register(r) == r \in {"STAR", "VSTR"}

\* A register that the structure does not mean to set.
Skipped(r) == is_read_only_register(r) \/ op.req[r] < 0

\* Mutant: a register after a command that timed out is not set.
SetStep_StopsWhenStalled ==
  /\ op.pc = "set" /\ op.i <= Len(Bar0)
  /\ LET r == Bar0[op.i]
     IN IF Skipped(r) \/ op.stalled
          THEN /\ op' = [op EXCEPT !.i = @ + 1]
               /\ UNCHANGED <<hw, register_storage>>
          ELSE /\ fscc_port_set_register(r, op.req[r])
               /\ op' = [op EXCEPT !.i = @ + 1, !.stalled = @ \/ TimesOut(r),
                                   !.touched = IF TimesOut(r) THEN @ ELSE @ \cup {r}]
  /\ UNCHANGED <<others, force_fifo, clock, calls, wanted, last>>

\* One iteration of the loop over BAR 0; a command that times out is noted.
SetStep ==
  /\ op.pc = "set" /\ op.i <= Len(Bar0)
  /\ LET r == Bar0[op.i]
     IN IF Skipped(r)
          THEN /\ op' = [op EXCEPT !.i = @ + 1]
               /\ UNCHANGED <<hw, register_storage>>
          ELSE /\ fscc_port_set_register(r, op.req[r])
               /\ op' = [op EXCEPT !.i = @ + 1, !.stalled = @ \/ TimesOut(r),
                                   !.touched = IF TimesOut(r) THEN @ ELSE @ \cup {r}]
  /\ UNCHANGED <<others, force_fifo, clock, calls, wanted, last>>

\* After the loop FCR, for a value greater than 0 only and without its two highest
\* bits.
SetFcr ==
  /\ op.pc = "set" /\ op.i > Len(Bar0)
  /\ IF op.req["FCR"] > 0
       THEN /\ fscc_port_set_register("FCR", op.req["FCR"] % FcrMask)
            /\ op' = [op EXCEPT !.pc = "master_reset", !.touched = @ \cup {"FCR"}]
       ELSE /\ op' = [op EXCEPT !.pc = "master_reset"]
            /\ UNCHANGED <<hw, register_storage>>
  /\ UNCHANGED <<others, force_fifo, clock, calls, wanted, last>>

\* The master reset bit, which the negative markers have as well, is written by
\* itself with fscc_card_set_register: to DMACCR of the card's first port, and past
\* fscc_port_set_register, so that nothing gives the enable bits their values.
MasterReset ==
  /\ op.pc = "master_reset"
  /\ LET reset == Bit(op.req["DMACCR"], MasterBit)
     IN /\ hw' = IF reset /\ channel = 0 THEN [hw EXCEPT !["DMACCR"] = MasterBit] ELSE hw
        /\ other_dmaccr' = IF reset /\ channel = 1 THEN MasterBit ELSE other_dmaccr
        /\ op' = [op EXCEPT !.pc = "dmaccr",
                            !.touched = IF reset /\ channel = 0 THEN @ \cup {"DMACCR"} ELSE @]
  /\ UNCHANGED <<channel, register_storage, force_fifo, clock, calls, wanted, last>>

\* What applications have asked for: all that is not negative, but for FCR only what
\* is greater than 0.
Wanted(req) ==
  [r \in Regs |-> IF is_read_only_register(r) \/ req[r] < 0 \/ (r = "FCR" /\ req[r] = 0)
                    THEN wanted[r]
                  ELSE IF r = "FCR" THEN req[r] % FcrMask ELSE req[r]]

\* DMACCR, for a value greater than 0 only, and the ioctl is completed.
SetDmaccr ==
  /\ op.pc = "dmaccr"
  /\ LET req == op.req
         set == req["DMACCR"] > 0
     IN /\ IF set THEN fscc_port_set_register("DMACCR", ClearBit(req["DMACCR"], MasterBit))
                  ELSE UNCHANGED <<hw, register_storage>>
        /\ last' = [req |-> req, status |-> IF op.stalled THEN "timeout" ELSE "success",
                    touched |-> IF set THEN op.touched \cup {"DMACCR"} ELSE op.touched,
                    reset |-> Bit(req["DMACCR"], MasterBit)]
        /\ wanted' = Wanted(req)
  /\ op' = Idle
  /\ UNCHANGED <<others, force_fifo, clock, calls>>

-----------------------------------------------------------------------------
(* FSCC_GET_REGISTERS.                                                     *)

\* Every register marked FSCC_UPDATE_VALUE is read; the other fields come back.
fscc_port_get_registers(req) ==
  [r \in Regs |-> IF req[r] = FSCC_UPDATE_VALUE THEN hw[r] ELSE req[r]]

\* FSCC_GET_REGISTERS.
GetRegisters(req) ==
  /\ Call
  /\ last' = [req |-> req, status |-> "got", regs |-> fscc_port_get_registers(req)]
  /\ UNCHANGED <<card, register_storage, force_fifo, clock, op, wanted>>

-----------------------------------------------------------------------------
(* FSCC_PURGE_RX: RECD is set in CCR0 and CCR0 put back afterwards.        *)

PurgeBegin ==
  /\ Call
  /\ fscc_port_set_register("CCR0", SetBit(register_storage["CCR0"], Recd))
  /\ op' = [pc |-> "purge_reset", orig_CCR0 |-> register_storage["CCR0"]]
  /\ UNCHANGED <<others, force_fifo, clock, wanted, last>>

\* RRES; its result is not looked at.
PurgeReset ==
  /\ op.pc = "purge_reset"
  /\ fscc_port_set_register("CMDR", ResetCommand)
  /\ op' = [op EXCEPT !.pc = "purge_end"]
  /\ UNCHANGED <<others, force_fifo, clock, calls, wanted, last>>

\* Mutant: puts back what is remembered by now.
PurgeEnd_Reread ==
  /\ op.pc = "purge_end"
  /\ fscc_port_set_register("CCR0", register_storage["CCR0"])
  /\ op' = Idle
  /\ UNCHANGED <<others, force_fifo, clock, calls, wanted, last>>

PurgeEnd ==
  /\ op.pc = "purge_end"
  /\ fscc_port_set_register("CCR0", op.orig_CCR0)
  /\ op' = Idle
  /\ UNCHANGED <<others, force_fifo, clock, calls, wanted, last>>

-----------------------------------------------------------------------------
(* FSCC_ENABLE_/DISABLE_FORCE_FIFO, the transmit command and the clock.    *)

\* fscc_port_set_force_fifo: only a change on a card with DMA does anything.
SetForceFifo(value) ==
  /\ Call
  /\ IF force_fifo # value /\ HasDma
       THEN /\ force_fifo' = value
            /\ hw' = [hw EXCEPT !["DMACCR"] = DmaccrValue(IF value THEN 0 ELSE DmaBits, ~value)]
       ELSE UNCHANGED <<force_fifo, hw>>
  /\ UNCHANGED <<others, register_storage, clock, op, wanted, last>>

\* fscc_io_execute_transmit, called by oframe_worker at any time.
ExecuteTransmit ==
  /\ IF uses_dma THEN fscc_port_set_register("DMACCR", 2)
                 ELSE fscc_port_set_register("CMDR", TransmitCommand)
  /\ UNCHANGED <<others, force_fifo, clock, op, calls, wanted, last>>

ClockChange ==
  /\ clock.on => clock.outages < MaxOutages
  /\ clock' = [on |-> ~clock.on,
               outages |-> IF clock.on THEN clock.outages + 1 ELSE clock.outages]
  /\ UNCHANGED <<card, register_storage, force_fifo, op, calls, wanted, last>>

-----------------------------------------------------------------------------
\* After FsccEvtDevicePrepareHardware, which ends with both purges.
Init ==
  /\ channel \in {0, 1} /\ other_dmaccr = IF HasDma THEN DmaBits ELSE 0
  /\ hw = [Defaults EXCEPT !["DMACCR"] = IF HasDma THEN DmaBits ELSE 0]
  /\ register_storage = Defaults
  /\ force_fifo = FALSE /\ clock = [on |-> TRUE, outages |-> 0]
  /\ op = Idle /\ calls = 0
  /\ wanted = Defaults /\ last = [status |-> "none"]

Next ==
  \/ \E req \in Requests : SetBegin(req) \/ GetRegisters(req)
  \/ SetStep
  \/ SetFcr
  \/ MasterReset
  \/ SetDmaccr
  \/ PurgeBegin
  \/ PurgeReset
  \/ PurgeEnd
  \/ \E value \in BOOLEAN : SetForceFifo(value)
  \/ ExecuteTransmit
  \/ ClockChange

Spec == Init /\ [][Next]_vars

-----------------------------------------------------------------------------
(* Properties.                                                             *)

\* Type invariant: the markers never reach the card or register_storage.
TypeOK ==
  /\ hw \in [Regs -> Nat] /\ register_storage \in [Regs -> Nat]
  /\ channel \in {0, 1} /\ other_dmaccr \in Nat
  /\ force_fifo \in BOOLEAN /\ clock \in [on : BOOLEAN, outages : 0..MaxOutages]
  /\ op.pc \in {"idle", "set", "master_reset", "dmaccr", "purge_reset", "purge_end"}
  /\ calls \in 0..MaxCalls

Named(req) == {r \in Regs : ~is_read_only_register(r) /\ req[r] >= 0}

\* FSCC_SET_REGISTERS writes exactly the registers of BAR 0 that the structure names:
\* all of them on success, all but a command on a timeout, which is otherwise
\* reported; and FCR only if the structure names it (docs/registers.md: "only
\* set/receive the registers you need").  It need not write an FCR named with 0, and
\* DMACCR of the first port it may write unasked.
SetExact ==
  last.status \in {"success", "timeout"} =>
    LET named == Named(last.req) \ (IF last.status = "timeout" THEN {"CMDR"} ELSE {})
    IN /\ last.touched \ Bar2 = named \ Bar2
       /\ "FCR" \in last.touched => "FCR" \in named

\* A configuration register reads back as applications set it last (FCR: to other
\* than 0), whatever purges, transmissions, timeouts and other ioctls came between.
ReadBack ==
  last.status = "got" =>
    \A r \in Regs \ {"CMDR", "STAR", "VSTR", "DMACCR"} :
      last.req[r] = FSCC_UPDATE_VALUE => last.regs[r] = wanted[r]

\* The card's DMA enable bits agree with the mode the driver works in, so that the
\* driver never empties a FIFO that the DMA engine is emptying too; only after the
\* raw write of the master reset do they not, until DMACCR is written again.
DmaModeAgrees ==
  hw["DMACCR"] # MasterBit =>
    /\ Bit(hw["DMACCR"], DmaBits \div 3) = uses_dma
    /\ Bit(hw["DMACCR"], 2 * (DmaBits \div 3)) = uses_dma

\* The DMA master, which serves both ports of the card, is reset only if the
\* structure says so: a register that is not meant is left alone.
NoStrayReset ==
  last.status \in {"success", "timeout"} /\ last.reset => last.req["DMACCR"] >= 0

\* A 0 for FCR is a value like any other: a register that is meant is written.
ZeroIsSet ==
  last.status = "success" /\ last.req["FCR"] = 0 => "FCR" \in last.touched
=============================================================================
