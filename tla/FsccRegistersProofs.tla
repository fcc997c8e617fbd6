------------------------ MODULE FsccRegistersProofs -------------------------
(***************************************************************************)
(* Proofs about FsccRegisters, for every list of registers, every set of   *)
(* structures passed in and every initial contents.                        *)
(***************************************************************************)
EXTENDS FsccRegisters, TLAPS

\* The registers whose contents the driver and the card never change by themselves.
Config == Regs \ {"CMDR", "STAR", "VSTR", "DMACCR"}

SetPcs   == {"set", "master_reset", "dmaccr"}
SetOps   == [pc : SetPcs, req : Requests, i : 1..(Len(Bar0) + 1), stalled : BOOLEAN,
             touched : SUBSET Regs]
PurgeOps == [pc : {"purge_reset", "purge_end"}, orig_CCR0 : Nat]

\* The registers that the loop over BAR 0 meant to write before iteration i.
Reached(i)       == {Bar0[j] : j \in 1..(i - 1)}
Meant(i, req)    == {r \in Reached(i) : ~is_read_only_register(r) /\ req[r] >= 0}

OpInv ==
  /\ op \in {Idle} \cup SetOps \cup PurgeOps
  /\ op.pc \in {"master_reset", "dmaccr"} => op.i = Len(Bar0) + 1

\* What was written so far: a command that timed out is the only exception in BAR 0.
TouchedInv ==
  op.pc \in SetPcs =>
    /\ op.touched \ Bar2 = Meant(op.i, op.req) \ (IF op.stalled THEN {"CMDR"} ELSE {})
    /\ op.stalled => "CMDR" \in Reached(op.i)
    /\ "FCR" \in op.touched => op.req["FCR"] > 0

\* What a configuration register holds: what was asked for last, by the structure
\* under way if the loop has come past it; CCR0 is away during a purge.
Expected(r) ==
  IF r = "FCR"
    THEN IF op.pc \in {"master_reset", "dmaccr"} /\ op.req["FCR"] > 0
           THEN op.req["FCR"] % FcrMask ELSE wanted["FCR"]
    ELSE IF op.pc \in SetPcs /\ r \in Meant(op.i, op.req) THEN op.req[r] ELSE wanted[r]
StoreInv ==
  /\ \A r \in Config : hw[r] = register_storage[r]
  /\ \A r \in Config : (r = "CCR0" => op.pc \notin {"purge_reset", "purge_end"}) =>
                          register_storage[r] = Expected(r)
  /\ op.pc \in {"purge_reset", "purge_end"} => op.orig_CCR0 = wanted["CCR0"]

-----------------------------------------------------------------------------
(* Bits.                                                                   *)

LEMMA OneBit ==
  ASSUME NEW w \in Nat
  PROVE  /\ SetBit(w, 16777216) \in Nat /\ Bit(SetBit(w, 16777216), 16777216)
         /\ ClearBit(w, 16777216) \in Nat /\ ~Bit(ClearBit(w, 16777216), 16777216)
         /\ SetBit(w, 33554432) \in Nat /\ Bit(SetBit(w, 33554432), 33554432)
         /\ ClearBit(w, 33554432) \in Nat /\ ~Bit(ClearBit(w, 33554432), 33554432)
         /\ Bit(SetBit(w, 33554432), 16777216) <=> Bit(w, 16777216)
         /\ Bit(ClearBit(w, 33554432), 16777216) <=> Bit(w, 16777216)
BY SMT DEF SetBit, ClearBit, Bit

\* The two enable bits of a value for DMACCR follow the mode, whatever the value.
LEMMA DmaccrBits ==
  ASSUME NEW v \in Nat, NEW dma \in BOOLEAN
  PROVE  /\ DmaccrValue(v, dma) \in Nat
         /\ Bit(DmaccrValue(v, dma), DmaBits \div 3) <=> dma
         /\ Bit(DmaccrValue(v, dma), 2 * (DmaBits \div 3)) <=> dma
<1>1. DmaBits \div 3 = 16777216 /\ 2 * (DmaBits \div 3) = 33554432
  BY SMT DEF DmaBits
<1>2. CASE dma
  <2>1. DmaccrValue(v, dma) = SetBit(SetBit(v, 16777216), 33554432)
    BY <1>1, <1>2, SMT DEF DmaccrValue
  <2>2. SetBit(v, 16777216) \in Nat /\ Bit(SetBit(v, 16777216), 16777216)
    BY OneBit, SMT
  <2>3. /\ DmaccrValue(v, dma) \in Nat /\ Bit(DmaccrValue(v, dma), DmaBits \div 3)
        /\ Bit(DmaccrValue(v, dma), 2 * (DmaBits \div 3))
    BY <1>1, <2>1, <2>2, OneBit, SMT
  <2> QED BY <1>2, <2>3
<1>3. CASE ~dma
  <2>1. DmaccrValue(v, dma) = ClearBit(ClearBit(v, 16777216), 33554432)
    BY <1>1, <1>3, SMT DEF DmaccrValue
  <2>2. ClearBit(v, 16777216) \in Nat /\ ~Bit(ClearBit(v, 16777216), 16777216)
    BY OneBit, SMT
  <2>3. /\ DmaccrValue(v, dma) \in Nat /\ ~Bit(DmaccrValue(v, dma), DmaBits \div 3)
        /\ ~Bit(DmaccrValue(v, dma), 2 * (DmaBits \div 3))
    BY <1>1, <2>1, <2>2, OneBit, SMT
  <2> QED BY <1>3, <2>3
<1> QED BY <1>2, <1>3

\* Numbers stay numbers.
LEMMA BitNat ==
  /\ \A v \in Nat : SetBit(v, Recd) \in Nat
  /\ \A v \in Nat : ClearBit(v, MasterBit) \in Nat
  /\ \A v \in Int : v % FcrMask \in Nat
BY SMT DEF SetBit, ClearBit, Bit, Recd, MasterBit, FcrMask

LEMMA Numbers ==
  /\ DmaBits \in Nat /\ ResetCommand \in Nat /\ TransmitCommand \in Nat /\ MasterBit \in Nat
  /\ {"CMDR", "CCR0", "FCR", "DMACCR"} \subseteq Regs /\ Bar2 = {"FCR", "DMACCR"}
<1>1. DmaBits \in Nat /\ ResetCommand \in Nat /\ TransmitCommand \in Nat /\ MasterBit \in Nat
  BY SMT DEF DmaBits, ResetCommand, TransmitCommand, MasterBit
<1> QED BY <1>1, RegistersAssumption DEF Regs, Bar2

-----------------------------------------------------------------------------
(* Types and the mode.                                                     *)

\* TypeOK with the types of what an ioctl in progress keeps.
TypeInv == TypeOK /\ OpInv

\* Every write of a register leaves the card in the right mode.
Written(r, v) ==
  /\ hw' \in [Regs -> Nat] /\ register_storage' \in [Regs -> Nat]
  /\ DmaModeAgrees => DmaModeAgrees'
  /\ TimesOut(r) => UNCHANGED <<hw, register_storage>>
  /\ \A q \in Regs : ~TimesOut(r) /\ q # "DMACCR" =>
       /\ hw'[q] = IF q = r THEN v ELSE hw[q]
       /\ register_storage'[q] = IF q = r THEN v ELSE register_storage[q]

LEMMA SetRegister ==
  ASSUME TypeOK, NEW r \in Regs, NEW v \in Nat, fscc_port_set_register(r, v),
         UNCHANGED force_fifo
  PROVE  Written(r, v)
<1>1. hw \in [Regs -> Nat] /\ register_storage \in [Regs -> Nat] /\ uses_dma \in BOOLEAN
  BY RegistersAssumption DEF TypeOK, uses_dma
<1>2. uses_dma' = uses_dma /\ "DMACCR" \in Regs
  BY Numbers DEF uses_dma
<1>3. CASE TimesOut(r)
  BY <1>1, <1>2, <1>3 DEF fscc_port_set_register, Written, DmaModeAgrees
<1>4. CASE ~TimesOut(r) /\ r = "DMACCR"
  <2>1. hw' = [hw EXCEPT !["DMACCR"] = DmaccrValue(v, uses_dma)] /\ UNCHANGED register_storage
    BY <1>4 DEF fscc_port_set_register
  <2>2. /\ DmaccrValue(v, uses_dma) \in Nat
        /\ Bit(DmaccrValue(v, uses_dma), DmaBits \div 3) <=> uses_dma
        /\ Bit(DmaccrValue(v, uses_dma), 2 * (DmaBits \div 3)) <=> uses_dma
    BY <1>1, DmaccrBits
  <2>3. hw'["DMACCR"] = DmaccrValue(v, uses_dma)
    BY <1>1, <1>2, <2>1
  <2>4. DmaModeAgrees'
    BY <1>1, <1>2, <2>2, <2>3 DEF DmaModeAgrees, Bit
  <2> QED BY <1>1, <1>4, <2>1, <2>2, <2>4 DEF Written
<1>5. CASE ~TimesOut(r) /\ r # "DMACCR"
  <2>1. /\ hw' = [hw EXCEPT ![r] = v] /\ register_storage' = [register_storage EXCEPT ![r] = v]
    BY <1>5 DEF fscc_port_set_register
  <2>2. hw'["DMACCR"] = hw["DMACCR"]
    BY <1>1, <1>2, <1>5, <2>1
  <2>3. DmaModeAgrees => DmaModeAgrees'
    BY <1>2, <2>2 DEF DmaModeAgrees
  <2> QED BY <1>1, <1>5, <2>1, <2>3 DEF Written
<1> QED BY <1>3, <1>4, <1>5

\* What the case distinctions on the ioctl in progress mean.
LEMMA OpCases ==
  ASSUME OpInv
  PROVE  /\ op.pc = "idle" => op = Idle
         /\ op.pc \in SetPcs => op \in SetOps
         /\ op.pc \in {"purge_reset", "purge_end"} => op \in PurgeOps
BY DEF OpInv, Idle, SetOps, SetPcs, PurgeOps

LEMMA TypeInit == Init => TypeInv /\ DmaModeAgrees
<1> SUFFICES ASSUME Init PROVE TypeInv /\ DmaModeAgrees
  OBVIOUS
<1> DEFINE v == IF HasDma THEN DmaBits ELSE 0
<1>1. /\ 0 \in Nat /\ v \in Nat /\ (Bit(v, DmaBits \div 3) <=> HasDma)
      /\ (Bit(v, 2 * (DmaBits \div 3)) <=> HasDma)
  <2>1. DmaBits \in Nat /\ Bit(DmaBits, DmaBits \div 3) /\ Bit(DmaBits, 2 * (DmaBits \div 3))
        /\ ~Bit(0, DmaBits \div 3) /\ ~Bit(0, 2 * (DmaBits \div 3)) /\ 0 \in Nat
    BY SMT DEF Bit, DmaBits
  <2>2. CASE HasDma
    BY <2>1, <2>2
  <2>3. CASE ~HasDma
    BY <2>1, <2>3
  <2> QED BY <2>2, <2>3
<1>2. hw = [Defaults EXCEPT !["DMACCR"] = v] /\ Defaults \in [Regs -> Nat] /\ "DMACCR" \in Regs
  BY RegistersAssumption, Numbers DEF Init
<1> HIDE DEF v
<1>3. hw \in [Regs -> Nat] /\ hw["DMACCR"] = v
  BY <1>1, <1>2
<1>4. uses_dma <=> HasDma
  BY DEF Init, uses_dma
<1>5. DmaModeAgrees
  <2>1. /\ Bit(hw["DMACCR"], DmaBits \div 3) <=> uses_dma
        /\ Bit(hw["DMACCR"], 2 * (DmaBits \div 3)) <=> uses_dma
    BY <1>1, <1>3, <1>4, Zenon
  <2>2. uses_dma \in BOOLEAN
    BY DEF uses_dma
  <2> QED BY <2>1, <2>2 DEF DmaModeAgrees, Bit
<1>6. TypeOK /\ OpInv
  <2>1. clock \in [on : BOOLEAN, outages : 0..MaxOutages] /\ calls \in 0..MaxCalls
    BY RegistersAssumption DEF Init
  <2>2. op.pc = "idle" /\ OpInv
    BY DEF Init, Idle, OpInv
  <2>3. channel \in {0, 1} /\ other_dmaccr \in Nat
    BY <1>1, Numbers DEF Init
  <2> QED BY <1>3, <2>1, <2>2, <2>3, RegistersAssumption DEF Init, TypeOK
<1> QED BY <1>5, <1>6 DEF TypeInv

LEMMA CallType == ASSUME TypeOK, Call PROVE calls' \in 0..MaxCalls /\ op.pc = "idle"
BY RegistersAssumption DEF TypeOK, Call

LEMMA SetBeginType ==
  ASSUME TypeInv, DmaModeAgrees, NEW req \in Requests, SetBegin(req)
  PROVE  /\ TypeInv' /\ DmaModeAgrees' /\ op' \in SetOps
<1>1. Len(Bar0) \in Nat
  BY RegistersAssumption
<1>2. op' \in SetOps
  BY <1>1 DEF SetBegin, SetOps, SetPcs
<1>3. /\ op'.pc = "set" /\ calls' \in 0..MaxCalls
      /\ UNCHANGED <<channel, other_dmaccr, hw, register_storage, force_fifo, clock>>
  BY CallType DEF SetBegin, TypeInv, card, others
<1> QED BY <1>2, <1>3 DEF TypeInv, TypeOK, OpInv, DmaModeAgrees, uses_dma

\* The register of the iteration at hand, and what the iteration does.
LEMMA SetStepType ==
  ASSUME TypeInv, DmaModeAgrees, SetStep
  PROVE  /\ TypeInv' /\ DmaModeAgrees'
         /\ op \in SetOps /\ op.pc = "set" /\ op.i \in 1..Len(Bar0) /\ Bar0[op.i] \in Regs
         /\ op' \in SetOps /\ op'.req = op.req /\ op'.i = op.i + 1
         /\ LET r == Bar0[op.i]
            IN \/ /\ Skipped(r) /\ UNCHANGED <<hw, register_storage>>
                  /\ op'.stalled = op.stalled /\ op'.touched = op.touched
               \/ /\ ~Skipped(r) /\ Written(r, op.req[r])
                  /\ op'.stalled <=> op.stalled \/ TimesOut(r)
                  /\ op'.touched = IF TimesOut(r) THEN op.touched ELSE op.touched \cup {r}
<1> DEFINE r == Bar0[op.i]
<1>1. /\ op.pc = "set" /\ op.i <= Len(Bar0) /\ Len(Bar0) \in Nat /\ op \in SetOps
      /\ UNCHANGED <<channel, other_dmaccr, force_fifo, clock, calls>>
  BY OpCases, RegistersAssumption DEF SetStep, TypeInv, others, SetPcs
<1>2. op.i \in 1..Len(Bar0) /\ op.req \in Requests /\ op.touched \subseteq Regs /\ op.stalled \in BOOLEAN
  BY <1>1 DEF SetOps
<1>3. r \in Regs /\ op.req[r] \in Int
  BY <1>2, RegistersAssumption DEF Regs
<1>4. CASE Skipped(r)
  <2>1. op' = [op EXCEPT !.i = @ + 1] /\ UNCHANGED <<hw, register_storage>>
    BY <1>4 DEF SetStep
  <2>2. /\ op' \in SetOps /\ op'.req = op.req /\ op'.i = op.i + 1
        /\ op'.stalled = op.stalled /\ op'.touched = op.touched /\ op'.pc = "set"
    BY <1>1, <1>2, <2>1 DEF SetOps
  <2>4. TypeInv' /\ DmaModeAgrees'
    BY <1>1, <2>1, <2>2 DEF TypeInv, TypeOK, OpInv, DmaModeAgrees, uses_dma
  <2> QED BY <1>1, <1>2, <1>3, <1>4, <2>1, <2>2, <2>4
<1>5. CASE ~Skipped(r)
  <2>1. /\ fscc_port_set_register(r, op.req[r])
        /\ op' = [op EXCEPT !.i = @ + 1, !.stalled = @ \/ TimesOut(r),
                            !.touched = IF TimesOut(r) THEN @ ELSE @ \cup {r}]
    BY <1>5 DEF SetStep
  <2>2. op.req[r] \in Nat
    BY <1>3, <1>5 DEF Skipped
  <2>3. Written(r, op.req[r])
    BY <1>1, <1>3, <2>1, <2>2, SetRegister DEF TypeInv
  <2>4. /\ op' \in SetOps /\ op'.req = op.req /\ op'.i = op.i + 1
        /\ (op'.stalled <=> op.stalled \/ TimesOut(r)) /\ op'.pc = "set"
        /\ op'.touched = IF TimesOut(r) THEN op.touched ELSE op.touched \cup {r}
    <3> DEFINE stalled == op.stalled \/ TimesOut(r)
               touched == IF TimesOut(r) THEN op.touched ELSE op.touched \cup {r}
    <3>1. stalled \in BOOLEAN /\ touched \subseteq Regs
      BY <1>2, <1>3
    <3>2. op' = [op EXCEPT !.i = @ + 1, !.stalled = stalled, !.touched = touched]
      BY <2>1
    <3> HIDE DEF stalled, touched
    <3>3. op' = [pc |-> "set", req |-> op.req, i |-> op.i + 1,
                 stalled |-> stalled, touched |-> touched]
      BY <1>1, <1>2, <3>2 DEF SetOps
    <3>4. op' \in SetOps
      BY <1>1, <1>2, <3>1, <3>3 DEF SetOps
    <3> QED BY <3>3, <3>4 DEF stalled, touched
  <2>5. TypeInv' /\ DmaModeAgrees'
    BY <1>1, <2>3, <2>4 DEF TypeInv, TypeOK, OpInv, Written
  <2> QED BY <1>1, <1>2, <1>3, <1>5, <2>3, <2>4, <2>5
<1> QED BY <1>4, <1>5

\* FCR after the loop.
LEMMA SetFcrType ==
  ASSUME TypeInv, DmaModeAgrees, SetFcr
  PROVE  /\ TypeInv' /\ DmaModeAgrees'
         /\ op \in SetOps /\ op.pc = "set" /\ op.i = Len(Bar0) + 1
         /\ op' \in SetOps /\ op'.pc = "master_reset" /\ op'.req = op.req /\ op'.i = op.i
         /\ op'.stalled = op.stalled
         /\ op'.touched = IF op.req["FCR"] > 0 THEN op.touched \cup {"FCR"} ELSE op.touched
         /\ IF op.req["FCR"] > 0 THEN Written("FCR", op.req["FCR"] % FcrMask)
                                 ELSE UNCHANGED <<hw, register_storage>>
<1> DEFINE fcr == op.req["FCR"] % FcrMask
           touched == IF op.req["FCR"] > 0 THEN op.touched \cup {"FCR"} ELSE op.touched
<1>1. /\ op.pc = "set" /\ op.i > Len(Bar0) /\ Len(Bar0) \in Nat /\ op \in SetOps
      /\ UNCHANGED <<channel, other_dmaccr, force_fifo, clock, calls>>
      /\ op' = [op EXCEPT !.pc = "master_reset", !.touched = touched]
      /\ IF op.req["FCR"] > 0 THEN fscc_port_set_register("FCR", fcr)
                              ELSE UNCHANGED <<hw, register_storage>>
  <2>1. op.pc = "set" /\ op.i > Len(Bar0) /\ Len(Bar0) \in Nat /\ op \in SetOps
    BY OpCases, RegistersAssumption DEF SetFcr, TypeInv, SetPcs
  <2>2. op' = [op EXCEPT !.pc = "master_reset", !.touched = touched]
    <3>1. CASE op.req["FCR"] > 0
      BY <3>1 DEF SetFcr
    <3>2. CASE ~(op.req["FCR"] > 0)
      BY <2>1, <3>2 DEF SetFcr, SetOps
    <3> QED BY <3>1, <3>2
  <2> QED BY <2>1, <2>2 DEF SetFcr, others
<1>2. op.i = Len(Bar0) + 1 /\ op.req \in [Regs -> Int] /\ op.req \in Requests /\ op.touched \subseteq Regs
  BY <1>1, RegistersAssumption DEF SetOps
<1>3. fcr \in Nat /\ "FCR" \in Regs /\ touched \subseteq Regs
  BY <1>2, BitNat, Numbers
<1> HIDE DEF fcr, touched
<1>4. /\ op' \in SetOps /\ op'.pc = "master_reset" /\ op'.req = op.req /\ op'.i = op.i
      /\ op'.stalled = op.stalled /\ op'.touched = touched
  BY <1>1, <1>3 DEF SetOps, SetPcs
<1>5. IF op.req["FCR"] > 0 THEN Written("FCR", fcr) ELSE UNCHANGED <<hw, register_storage>>
  BY <1>1, <1>3, SetRegister DEF TypeInv
<1>6. TypeInv' /\ DmaModeAgrees'
  <2>1. CASE op.req["FCR"] > 0
    BY <1>1, <1>2, <1>4, <1>5, <2>1 DEF TypeInv, TypeOK, OpInv, Written
  <2>2. CASE ~(op.req["FCR"] > 0)
    BY <1>1, <1>2, <1>4, <2>2 DEF TypeInv, TypeOK, OpInv, DmaModeAgrees, uses_dma
  <2> QED BY <2>1, <2>2
<1> QED BY <1>1, <1>2, <1>4, <1>5, <1>6 DEF fcr, touched

\* The raw write of the master reset: of this port's DMACCR or of the other one's.
LEMMA MasterResetType ==
  ASSUME TypeInv, DmaModeAgrees, MasterReset
  PROVE  /\ TypeInv' /\ DmaModeAgrees' /\ op \in SetOps /\ op.pc = "master_reset"
         /\ op' \in SetOps /\ op'.pc = "dmaccr" /\ op'.req = op.req /\ op'.i = op.i
         /\ op'.stalled = op.stalled /\ op'.touched \ {"DMACCR"} = op.touched \ {"DMACCR"}
         /\ UNCHANGED register_storage /\ \A q \in Regs \ {"DMACCR"} : hw'[q] = hw[q]
<1> DEFINE mine == Bit(op.req["DMACCR"], MasterBit) /\ channel = 0
           touched == IF mine THEN op.touched \cup {"DMACCR"} ELSE op.touched
<1>1. /\ op.pc = "master_reset" /\ op \in SetOps /\ op.i = Len(Bar0) + 1
      /\ UNCHANGED <<channel, register_storage, force_fifo, clock, calls>>
      /\ hw' = IF mine THEN [hw EXCEPT !["DMACCR"] = MasterBit] ELSE hw
      /\ op' = [op EXCEPT !.pc = "dmaccr", !.touched = touched]
      /\ other_dmaccr' \in {MasterBit, other_dmaccr}
  BY OpCases DEF MasterReset, TypeInv, OpInv, SetPcs
<1>2. touched \subseteq Regs /\ touched \ {"DMACCR"} = op.touched \ {"DMACCR"}
  BY <1>1, Numbers DEF SetOps
<1> HIDE DEF mine, touched
<1>3. /\ op' \in SetOps /\ op'.pc = "dmaccr" /\ op'.req = op.req /\ op'.i = op.i
      /\ op'.stalled = op.stalled /\ op'.touched = touched
  BY <1>1, <1>2 DEF SetOps, SetPcs
<1>4. /\ hw \in [Regs -> Nat] /\ "DMACCR" \in Regs /\ MasterBit \in Nat /\ other_dmaccr \in Nat
  BY Numbers DEF TypeInv, TypeOK
<1>5. /\ hw' \in [Regs -> Nat] /\ \A q \in Regs \ {"DMACCR"} : hw'[q] = hw[q]
      /\ hw'["DMACCR"] \in {MasterBit, hw["DMACCR"]}
  BY <1>1, <1>4
<1>6. TypeInv'
  BY <1>1, <1>3, <1>4, <1>5 DEF TypeInv, TypeOK, OpInv
<1>7. DmaModeAgrees'
  BY <1>1, <1>5 DEF DmaModeAgrees, uses_dma
<1> QED BY <1>1, <1>2, <1>3, <1>5, <1>6, <1>7

\* DMACCR, and the end of the ioctl.
LEMMA SetDmaccrType ==
  ASSUME TypeInv, DmaModeAgrees, SetDmaccr
  PROVE  /\ TypeInv' /\ DmaModeAgrees' /\ op'.pc = "idle"
         /\ op \in SetOps /\ op.pc = "dmaccr" /\ op.i = Len(Bar0) + 1
         /\ \A q \in Regs \ {"DMACCR"} :
              hw'[q] = hw[q] /\ register_storage'[q] = register_storage[q]
<1> DEFINE v == ClearBit(op.req["DMACCR"], MasterBit)
<1>1. /\ op.pc = "dmaccr" /\ op \in SetOps /\ op.i = Len(Bar0) + 1 /\ op' = Idle
      /\ UNCHANGED <<channel, other_dmaccr, force_fifo, clock, calls>>
      /\ IF op.req["DMACCR"] > 0 THEN fscc_port_set_register("DMACCR", v)
                                 ELSE UNCHANGED <<hw, register_storage>>
  BY OpCases DEF SetDmaccr, TypeInv, OpInv, SetPcs, others
<1>2. op.req["DMACCR"] \in Int /\ "DMACCR" \in Regs
  BY <1>1, Numbers, RegistersAssumption DEF SetOps
<1>3. op'.pc = "idle" /\ OpInv'
  BY <1>1 DEF OpInv, Idle
<1>4. CASE op.req["DMACCR"] > 0
  <2>1. op.req["DMACCR"] \in Nat
    BY <1>2, <1>4
  <2>2. v \in Nat
    BY <2>1, BitNat
  <2> HIDE DEF v
  <2>3. Written("DMACCR", v)
    BY <1>1, <1>2, <1>4, <2>2, SetRegister DEF TypeInv
  <2>4. ~TimesOut("DMACCR")
    BY DEF TimesOut
  <2> QED BY <1>1, <1>3, <2>3, <2>4 DEF TypeInv, TypeOK, Written
<1>5. CASE ~(op.req["DMACCR"] > 0)
  BY <1>1, <1>3, <1>5 DEF TypeInv, TypeOK, DmaModeAgrees, uses_dma
<1> QED BY <1>1, <1>3, <1>4, <1>5

LEMMA PurgeBeginType ==
  ASSUME TypeInv, DmaModeAgrees, PurgeBegin
  PROVE  /\ TypeInv' /\ DmaModeAgrees' /\ op.pc = "idle" /\ op'.pc = "purge_reset"
         /\ op'.orig_CCR0 = register_storage["CCR0"]
         /\ Written("CCR0", SetBit(register_storage["CCR0"], Recd))
<1>1. /\ op.pc = "idle" /\ calls' \in 0..MaxCalls
      /\ UNCHANGED <<channel, other_dmaccr, force_fifo, clock>>
      /\ fscc_port_set_register("CCR0", SetBit(register_storage["CCR0"], Recd))
      /\ op' = [pc |-> "purge_reset", orig_CCR0 |-> register_storage["CCR0"]]
  BY CallType DEF PurgeBegin, TypeInv, others
<1>2. register_storage["CCR0"] \in Nat /\ "CCR0" \in Regs
  BY Numbers DEF TypeInv, TypeOK
<1>3. Written("CCR0", SetBit(register_storage["CCR0"], Recd))
  BY <1>1, <1>2, BitNat, SetRegister DEF TypeInv
<1>4. op' \in PurgeOps /\ op'.pc = "purge_reset" /\ op'.orig_CCR0 = register_storage["CCR0"]
  BY <1>1, <1>2 DEF PurgeOps
<1> QED BY <1>1, <1>3, <1>4 DEF TypeInv, TypeOK, OpInv, Written

LEMMA PurgeResetType ==
  ASSUME TypeInv, DmaModeAgrees, PurgeReset
  PROVE  /\ TypeInv' /\ DmaModeAgrees' /\ op.pc = "purge_reset" /\ op'.pc = "purge_end"
         /\ op'.orig_CCR0 = op.orig_CCR0 /\ Written("CMDR", ResetCommand)
<1>1. /\ op.pc = "purge_reset" /\ op \in PurgeOps
      /\ UNCHANGED <<channel, other_dmaccr, force_fifo, clock, calls>>
      /\ fscc_port_set_register("CMDR", ResetCommand) /\ op' = [op EXCEPT !.pc = "purge_end"]
  BY OpCases DEF PurgeReset, TypeInv, others
<1>2. Written("CMDR", ResetCommand)
  BY <1>1, Numbers, SetRegister DEF TypeInv
<1>3. op' \in PurgeOps /\ op'.pc = "purge_end" /\ op'.orig_CCR0 = op.orig_CCR0
  BY <1>1 DEF PurgeOps
<1> QED BY <1>1, <1>2, <1>3 DEF TypeInv, TypeOK, OpInv, Written

LEMMA PurgeEndType ==
  ASSUME TypeInv, DmaModeAgrees, PurgeEnd
  PROVE  /\ TypeInv' /\ DmaModeAgrees' /\ op.pc = "purge_end" /\ op'.pc = "idle"
         /\ Written("CCR0", op.orig_CCR0)
<1>1. /\ op.pc = "purge_end" /\ op \in PurgeOps
      /\ UNCHANGED <<channel, other_dmaccr, force_fifo, clock, calls>>
      /\ fscc_port_set_register("CCR0", op.orig_CCR0) /\ op' = Idle
  BY OpCases DEF PurgeEnd, TypeInv, others
<1>2. op.orig_CCR0 \in Nat
  BY <1>1 DEF PurgeOps
<1>3. Written("CCR0", op.orig_CCR0)
  BY <1>1, <1>2, Numbers, SetRegister DEF TypeInv
<1> QED BY <1>1, <1>3 DEF TypeInv, TypeOK, OpInv, Written, Idle

LEMMA SetForceFifoType ==
  ASSUME TypeInv, DmaModeAgrees, NEW value \in BOOLEAN, SetForceFifo(value)
  PROVE  /\ TypeInv' /\ DmaModeAgrees' /\ op.pc = "idle"
         /\ \A q \in Regs \ {"DMACCR"} : hw'[q] = hw[q]
<1>1. /\ op.pc = "idle" /\ calls' \in 0..MaxCalls
      /\ UNCHANGED <<channel, other_dmaccr, register_storage, clock, op>>
  BY CallType DEF SetForceFifo, TypeInv, others
<1>2. CASE force_fifo # value /\ HasDma
  <2> DEFINE v == IF value THEN 0 ELSE DmaBits
             dma == ~value
  <2>1. /\ force_fifo' = value
        /\ hw' = [hw EXCEPT !["DMACCR"] = DmaccrValue(v, dma)]
    BY <1>2 DEF SetForceFifo
  <2>2. v \in Nat /\ dma \in BOOLEAN /\ hw \in [Regs -> Nat] /\ "DMACCR" \in Regs
    BY Numbers DEF TypeInv, TypeOK
  <2>3. uses_dma' <=> dma
    BY <1>2, <2>1 DEF uses_dma
  <2> HIDE DEF v, dma
  <2>4. /\ DmaccrValue(v, dma) \in Nat
        /\ Bit(DmaccrValue(v, dma), DmaBits \div 3) <=> dma
        /\ Bit(DmaccrValue(v, dma), 2 * (DmaBits \div 3)) <=> dma
    BY <2>2, DmaccrBits
  <2>5. /\ hw' \in [Regs -> Nat] /\ hw'["DMACCR"] = DmaccrValue(v, dma)
        /\ \A q \in Regs \ {"DMACCR"} : hw'[q] = hw[q]
    BY <2>1, <2>2, <2>4
  <2>6. DmaModeAgrees'
    BY <2>3, <2>4, <2>5 DEF DmaModeAgrees, Bit, uses_dma
  <2> QED BY <1>1, <2>1, <2>5, <2>6 DEF TypeInv, TypeOK, OpInv
<1>3. CASE ~(force_fifo # value /\ HasDma)
  <2>1. UNCHANGED <<force_fifo, hw>>
    BY <1>3 DEF SetForceFifo
  <2> QED BY <1>1, <2>1 DEF TypeInv, TypeOK, OpInv, DmaModeAgrees, uses_dma
<1> QED BY <1>2, <1>3

LEMMA ExecuteTransmitType ==
  ASSUME TypeInv, DmaModeAgrees, ExecuteTransmit
  PROVE  /\ TypeInv' /\ DmaModeAgrees' /\ UNCHANGED op
         /\ \E r \in {"DMACCR", "CMDR"}, v \in Nat : Written(r, v)
<1>1. UNCHANGED <<channel, other_dmaccr, force_fifo, clock, op, calls>> /\ 2 \in Nat
  BY DEF ExecuteTransmit, others
<1>2. \E r \in {"DMACCR", "CMDR"}, v \in Nat : fscc_port_set_register(r, v)
  BY <1>1, Numbers, Zenon DEF ExecuteTransmit
<1>3. \E r \in {"DMACCR", "CMDR"}, v \in Nat : Written(r, v)
  BY <1>1, <1>2, Numbers, SetRegister DEF TypeInv
<1> QED BY <1>1, <1>3 DEF TypeInv, TypeOK, OpInv, Written

LEMMA TypeNext == TypeInv /\ DmaModeAgrees /\ [Next]_vars => TypeInv' /\ DmaModeAgrees'
<1> SUFFICES ASSUME TypeInv, DmaModeAgrees, [Next]_vars PROVE TypeInv' /\ DmaModeAgrees'
  OBVIOUS
<1>1. ASSUME NEW req \in Requests, GetRegisters(req) PROVE TypeInv' /\ DmaModeAgrees'
  BY <1>1, CallType
  DEF GetRegisters, TypeInv, TypeOK, OpInv, DmaModeAgrees, uses_dma, card, others
<1>2. CASE ClockChange
  <2>1. clock' \in [on : BOOLEAN, outages : 0..MaxOutages]
    BY <1>2, RegistersAssumption DEF ClockChange, TypeInv, TypeOK
  <2> QED BY <1>2, <2>1
          DEF ClockChange, TypeInv, TypeOK, OpInv, DmaModeAgrees, uses_dma, card, others
<1>3. CASE UNCHANGED vars
  BY <1>3 DEF vars, TypeInv, TypeOK, OpInv, DmaModeAgrees, uses_dma, card, others
<1> QED BY <1>1, <1>2, <1>3, SetBeginType, SetStepType, SetFcrType, MasterResetType,
           SetDmaccrType, PurgeBeginType, PurgeResetType, PurgeEndType, SetForceFifoType,
           ExecuteTransmitType DEF Next

\* The card's DMA enable bits agree with the driver's mode in every state but those
\* between the raw write of the master reset and the next write of DMACCR, whatever
\* values applications pass in for DMACCR, on either port; no marker reaches the card.
THEOREM ModeSafety == Spec => [](TypeOK /\ DmaModeAgrees)
<1>1. TypeInv => TypeOK
  BY DEF TypeInv
<1> QED BY <1>1, TypeInit, TypeNext, PTL DEF Spec

-----------------------------------------------------------------------------
(* The loop over BAR 0.                                                    *)

LEMMA Bars == {Bar0[i] : i \in 1..Len(Bar0)} = Regs \ Bar2
<1> DEFINE B == {Bar0[i] : i \in 1..Len(Bar0)}
<1>1. Regs = B \cup Bar2 /\ Bar2 \cap B = {}
  BY RegistersAssumption DEF Regs
<1> HIDE DEF B
<1>2. B = Regs \ Bar2
  BY <1>1
<1> QED BY <1>2 DEF B

LEMMA ReachedSteps ==
  /\ Reached(1) = {}
  /\ Reached(Len(Bar0) + 1) = Regs \ Bar2
  /\ \A i \in 1..Len(Bar0) : Reached(i + 1) = Reached(i) \cup {Bar0[i]} /\ Bar0[i] \notin Reached(i)
<1>1. Len(Bar0) \in Nat
  BY RegistersAssumption
<1>2. Reached(1) = {}
  BY DEF Reached
<1>3. Reached(Len(Bar0) + 1) = Regs \ Bar2
  <2>1. Len(Bar0) + 1 - 1 = Len(Bar0)
    BY <1>1
  <2> QED BY <2>1, Bars DEF Reached
<1>4. ASSUME NEW i \in 1..Len(Bar0)
      PROVE  Reached(i + 1) = Reached(i) \cup {Bar0[i]} /\ Bar0[i] \notin Reached(i)
  <2>1. 1..(i + 1 - 1) = 1..(i - 1) \cup {i}
    BY <1>1
  <2>2. \A j \in 1..(i - 1) : j \in 1..Len(Bar0) /\ j # i
    BY <1>1
  <2> QED BY <2>1, <2>2, RegistersAssumption DEF Reached
<1> QED BY <1>2, <1>3, <1>4

\* One iteration adds its register to those that were meant, unless it is skipped.
LEMMA MeantStep ==
  ASSUME OpInv, op.pc = "set", op.i \in 1..Len(Bar0), NEW r, r = Bar0[op.i]
  PROVE  /\ r \in Regs \ Bar2 /\ r \notin Meant(op.i, op.req)
         /\ Meant(op.i + 1, op.req) =
              IF Skipped(r) THEN Meant(op.i, op.req) ELSE Meant(op.i, op.req) \cup {r}
<1>1. op \in SetOps
  BY OpCases DEF SetPcs
<1>2. r \in Regs \ Bar2
  BY Bars
<1>3. op.req[r] \in Int
  BY <1>1, <1>2, RegistersAssumption DEF SetOps
<1> DEFINE Names(q) == ~is_read_only_register(q) /\ op.req[q] >= 0
<1>4. Skipped(r) <=> ~Names(r)
  BY <1>3 DEF Skipped
<1>5. Reached(op.i + 1) = Reached(op.i) \cup {r} /\ r \notin Reached(op.i)
  BY ReachedSteps
<1>6. /\ Meant(op.i, op.req) = {q \in Reached(op.i) : Names(q)}
      /\ Meant(op.i + 1, op.req) = {q \in Reached(op.i + 1) : Names(q)}
  BY DEF Meant
<1> HIDE DEF Names
<1>7. CASE Skipped(r)
  BY <1>2, <1>4, <1>5, <1>6, <1>7
<1>8. CASE ~Skipped(r)
  BY <1>2, <1>4, <1>5, <1>6, <1>8
<1> QED BY <1>7, <1>8

-----------------------------------------------------------------------------
(* Exactly the registers named are written.                                *)

LEMMA TouchedStep ==
  ASSUME TypeInv, DmaModeAgrees, TouchedInv, SetStep
  PROVE  TouchedInv'
<1> DEFINE r == Bar0[op.i]
<1>1. /\ op \in SetOps /\ op.pc = "set" /\ op.i \in 1..Len(Bar0) /\ r \in Regs
      /\ op' \in SetOps /\ op'.req = op.req /\ op'.i = op.i + 1
      /\ \/ Skipped(r) /\ op'.stalled = op.stalled /\ op'.touched = op.touched
         \/ /\ ~Skipped(r) /\ (op'.stalled <=> op.stalled \/ TimesOut(r))
            /\ op'.touched = IF TimesOut(r) THEN op.touched ELSE op.touched \cup {r}
  BY SetStepType
<1>2. /\ r \notin Meant(op.i, op.req) /\ r \notin Bar2
      /\ Meant(op.i + 1, op.req) =
           IF Skipped(r) THEN Meant(op.i, op.req) ELSE Meant(op.i, op.req) \cup {r}
  BY <1>1, MeantStep DEF TypeInv
<1>3. Reached(op.i + 1) = Reached(op.i) \cup {r} /\ r \notin Reached(op.i)
  BY <1>1, ReachedSteps
<1>4. (TimesOut(r) => r = "CMDR") /\ r # "FCR"
  BY <1>2, Numbers DEF TimesOut
<1>5. /\ op.touched \ Bar2 = Meant(op.i, op.req) \ (IF op.stalled THEN {"CMDR"} ELSE {})
      /\ op.stalled => "CMDR" \in Reached(op.i)
      /\ "FCR" \in op.touched => op.req["FCR"] > 0
  BY <1>1 DEF TouchedInv, SetPcs
<1>6. "FCR" \in op'.touched => op'.req["FCR"] > 0
  BY <1>1, <1>4, <1>5
<1> HIDE DEF r
<1>7. CASE Skipped(r)
  BY <1>1, <1>2, <1>3, <1>5, <1>6, <1>7 DEF TouchedInv
<1>8. CASE ~Skipped(r) /\ TimesOut(r)
  <2>1. ~op.stalled /\ op'.stalled /\ op'.touched = op.touched
    BY <1>1, <1>3, <1>4, <1>5, <1>8
  <2>2. Meant(op.i + 1, op.req) \ {"CMDR"} = Meant(op.i, op.req)
    BY <1>2, <1>4, <1>8
  <2> QED BY <1>1, <1>3, <1>4, <1>5, <1>6, <1>8, <2>1, <2>2 DEF TouchedInv
<1>9. CASE ~Skipped(r) /\ ~TimesOut(r)
  <2>1. (op'.stalled <=> op.stalled) /\ op'.touched = op.touched \cup {r}
    BY <1>1, <1>9
  <2>2. op.stalled => r # "CMDR"
    BY <1>3, <1>5
  <2>3. Meant(op.i + 1, op.req) = Meant(op.i, op.req) \cup {r}
    BY <1>2, <1>9
  <2>4. op'.touched \ Bar2 = (op.touched \ Bar2) \cup {r}
    BY <1>2, <2>1
  <2> QED BY <1>1, <1>3, <1>5, <1>6, <2>1, <2>2, <2>3, <2>4 DEF TouchedInv
<1> QED BY <1>7, <1>8, <1>9

LEMMA TouchedNext ==
  TypeInv /\ DmaModeAgrees /\ TouchedInv /\ [Next]_vars => TouchedInv'
<1> SUFFICES ASSUME TypeInv, DmaModeAgrees, TouchedInv, [Next]_vars PROVE TouchedInv'
  OBVIOUS
<1>1. ASSUME NEW req \in Requests, SetBegin(req) PROVE TouchedInv'
  <2>1. op'.i = 1 /\ op'.touched = {} /\ ~op'.stalled /\ op'.req = req
    BY <1>1 DEF SetBegin
  <2>2. Meant(1, req) = {}
    BY ReachedSteps DEF Meant
  <2> QED BY <2>1, <2>2 DEF TouchedInv
<1>2. CASE SetFcr
  <2>1. /\ op.pc = "set" /\ op'.req = op.req /\ op'.i = op.i /\ op'.stalled = op.stalled
        /\ op'.touched = IF op.req["FCR"] > 0 THEN op.touched \cup {"FCR"} ELSE op.touched
    BY <1>2, SetFcrType
  <2>2. op'.touched \ Bar2 = op.touched \ Bar2
    BY <2>1, Numbers
  <2> QED BY <2>1, <2>2 DEF TouchedInv, SetPcs
<1>3. CASE MasterReset
  <2>1. /\ op.pc = "master_reset" /\ op'.req = op.req /\ op'.i = op.i
        /\ op'.stalled = op.stalled /\ op'.touched \ {"DMACCR"} = op.touched \ {"DMACCR"}
    BY <1>3, MasterResetType
  <2>2. /\ op'.touched \ Bar2 = op.touched \ Bar2
        /\ "FCR" \in op'.touched => "FCR" \in op.touched
    BY <2>1, Numbers
  <2> QED BY <2>1, <2>2 DEF TouchedInv, SetPcs
<1>4. CASE UNCHANGED op
  BY <1>4 DEF TouchedInv
<1>5. CASE op'.pc \notin SetPcs
  BY <1>5 DEF TouchedInv
<1> QED BY <1>1, <1>2, <1>3, <1>4, <1>5, TouchedStep, SetDmaccrType, PurgeBeginType,
           PurgeResetType, PurgeEndType
        DEF Next, GetRegisters, SetForceFifo, ExecuteTransmit, ClockChange, vars, SetPcs

\* What the end of FSCC_SET_REGISTERS reports to have written.
LEMMA SetDmaccrExact ==
  ASSUME TypeInv, DmaModeAgrees, TouchedInv, SetDmaccr
  PROVE  SetExact'
<1>1. op \in SetOps /\ op.pc = "dmaccr" /\ op.i = Len(Bar0) + 1
  BY SetDmaccrType
<1>2. /\ last'.req = op.req /\ last'.status = IF op.stalled THEN "timeout" ELSE "success"
      /\ last'.touched \ {"DMACCR"} = op.touched \ {"DMACCR"}
  BY DEF SetDmaccr
<1>3. op.req \in [Regs -> Int] /\ Bar2 \subseteq Regs
  BY <1>1, Numbers, RegistersAssumption DEF SetOps
<1>4. /\ op.touched \ Bar2 = Meant(op.i, op.req) \ (IF op.stalled THEN {"CMDR"} ELSE {})
      /\ "FCR" \in op.touched => op.req["FCR"] > 0
  BY <1>1 DEF TouchedInv, SetPcs
<1>5. Meant(op.i, op.req) = {r \in Regs \ Bar2 : ~is_read_only_register(r) /\ op.req[r] >= 0}
  BY <1>1, ReachedSteps DEF Meant
<1>6. Named(op.req) \ Bar2 = Meant(op.i, op.req)
  BY <1>5 DEF Named
<1>7. op.req["FCR"] > 0 => "FCR" \in Named(op.req)
  BY <1>3, Numbers DEF Named, is_read_only_register
<1>8. /\ last'.touched \ Bar2 = op.touched \ Bar2 /\ "FCR" # "CMDR"
      /\ "FCR" \in last'.touched => "FCR" \in op.touched
  BY <1>2, Numbers
<1>9. CASE op.stalled
  BY <1>2, <1>4, <1>6, <1>7, <1>8, <1>9 DEF SetExact
<1>10. CASE ~op.stalled
  BY <1>2, <1>4, <1>6, <1>7, <1>8, <1>10 DEF SetExact
<1> QED BY <1>9, <1>10

\* FSCC_SET_REGISTERS writes exactly the registers of BAR 0 that the structure names,
\* and FCR only if it does, for every list of registers and every structure, on either
\* port, also with commands that time out.
THEOREM SetSafety == Spec => []SetExact
<1>1. Init => TouchedInv /\ SetExact
  BY DEF Init, Idle, TouchedInv, SetExact, SetPcs
<1>2. TypeInv /\ DmaModeAgrees /\ TouchedInv /\ SetExact /\ [Next]_vars => SetExact'
  <2> SUFFICES ASSUME TypeInv, DmaModeAgrees, TouchedInv, SetExact, [Next]_vars PROVE SetExact'
    OBVIOUS
  <2>1. CASE SetDmaccr
    BY <2>1, SetDmaccrExact
  <2>2. ASSUME NEW req \in Requests, GetRegisters(req) PROVE SetExact'
    BY <2>2 DEF GetRegisters, SetExact
  <2>3. CASE UNCHANGED last
    BY <2>3 DEF SetExact
  <2> QED BY <2>1, <2>2, <2>3 DEF Next, SetBegin, SetStep, SetFcr, MasterReset, PurgeBegin,
             PurgeReset, PurgeEnd, SetForceFifo, ExecuteTransmit, ClockChange, vars
<1> QED BY <1>1, <1>2, TypeInit, TypeNext, TouchedNext, PTL DEF Spec

-----------------------------------------------------------------------------
(* What was set reads back.                                                *)

\* Writing a register that is not one of the configuration changes none of it.
LEMMA WrittenOther ==
  ASSUME NEW r \in {"CMDR", "DMACCR"}, NEW v, Written(r, v)
  PROVE  \A q \in Config : hw'[q] = hw[q] /\ register_storage'[q] = register_storage[q]
<1>1. CASE TimesOut(r)
  BY <1>1 DEF Written
<1>2. CASE ~TimesOut(r)
  BY <1>2 DEF Written, Config
<1> QED BY <1>1, <1>2

\* Writing one of the configuration is remembered.
LEMMA WrittenConfig ==
  ASSUME NEW r \in Config, NEW v, Written(r, v)
  PROVE  \A q \in Config : /\ hw'[q] = IF q = r THEN v ELSE hw[q]
                           /\ register_storage'[q] = IF q = r THEN v ELSE register_storage[q]
BY DEF Written, Config, TimesOut

LEMMA StoreInit == Init => StoreInv
<1> SUFFICES ASSUME Init PROVE StoreInv
  OBVIOUS
<1>1. \A r \in Config : hw[r] = Defaults[r]
  BY RegistersAssumption DEF Init, Config
<1>2. register_storage = Defaults /\ wanted = Defaults /\ op.pc = "idle"
  BY DEF Init, Idle
<1> QED BY <1>1, <1>2 DEF StoreInv, Expected, SetPcs

LEMMA StoreSetStep ==
  ASSUME TypeInv, DmaModeAgrees, StoreInv, SetStep
  PROVE  StoreInv'
<1> DEFINE r == Bar0[op.i]
<1>1. /\ op \in SetOps /\ op.pc = "set" /\ op.i \in 1..Len(Bar0) /\ r \in Regs
      /\ op' \in SetOps /\ op'.req = op.req /\ op'.i = op.i + 1
      /\ \/ Skipped(r) /\ UNCHANGED <<hw, register_storage>>
         \/ ~Skipped(r) /\ Written(r, op.req[r])
  BY SetStepType
<1>2. /\ r \in Regs \ Bar2 /\ r # "FCR"
      /\ Meant(op.i + 1, op.req) =
           IF Skipped(r) THEN Meant(op.i, op.req) ELSE Meant(op.i, op.req) \cup {r}
  BY <1>1, MeantStep, Numbers DEF TypeInv
<1>3. op'.pc = "set" /\ UNCHANGED wanted
  BY <1>1 DEF SetStep, SetOps
<1> HIDE DEF r
<1>4. CASE Skipped(r)
  BY <1>1, <1>2, <1>3, <1>4 DEF StoreInv, Expected, SetPcs
<1>5. CASE ~Skipped(r) /\ r \in Config
  <2>1. \A q \in Config : /\ hw'[q] = IF q = r THEN op.req[r] ELSE hw[q]
                          /\ register_storage'[q] = IF q = r THEN op.req[r] ELSE register_storage[q]
    BY <1>1, <1>5, WrittenConfig
  <2> QED BY <1>1, <1>2, <1>3, <1>5, <2>1 DEF StoreInv, Expected, SetPcs
<1>6. CASE ~Skipped(r) /\ r \notin Config
  <2>1. r \in {"CMDR", "DMACCR"}
    BY <1>1, <1>6 DEF Config, Skipped, is_read_only_register
  <2>2. \A q \in Config : hw'[q] = hw[q] /\ register_storage'[q] = register_storage[q]
    BY <1>1, <1>6, <2>1, WrittenOther
  <2> QED BY <1>1, <1>2, <1>3, <1>6, <2>2 DEF StoreInv, Expected, SetPcs
<1> QED BY <1>4, <1>5, <1>6

LEMMA StoreSetFcr ==
  ASSUME TypeInv, DmaModeAgrees, StoreInv, SetFcr
  PROVE  StoreInv'
<1> DEFINE fcr == op.req["FCR"] % FcrMask
<1>1. /\ op.pc = "set" /\ op'.pc = "master_reset" /\ op'.req = op.req /\ op'.i = op.i
      /\ IF op.req["FCR"] > 0 THEN Written("FCR", fcr) ELSE UNCHANGED <<hw, register_storage>>
      /\ UNCHANGED wanted
  BY SetFcrType DEF SetFcr
<1>2. "FCR" \in Config
  BY Numbers DEF Config
<1> HIDE DEF fcr
<1>3. \A q \in Config :
        /\ hw'[q] = IF q = "FCR" /\ op.req["FCR"] > 0 THEN fcr ELSE hw[q]
        /\ register_storage'[q] = IF q = "FCR" /\ op.req["FCR"] > 0 THEN fcr
                                  ELSE register_storage[q]
  <2>1. CASE op.req["FCR"] > 0
    BY <1>1, <1>2, <2>1, WrittenConfig
  <2>2. CASE ~(op.req["FCR"] > 0)
    BY <1>1, <2>2
  <2> QED BY <2>1, <2>2
<1> QED BY <1>1, <1>3 DEF StoreInv, Expected, SetPcs, fcr

LEMMA StoreSetDmaccr ==
  ASSUME TypeInv, DmaModeAgrees, StoreInv, SetDmaccr
  PROVE  StoreInv'
<1>1. /\ op'.pc = "idle" /\ op \in SetOps /\ op.pc = "dmaccr" /\ op.i = Len(Bar0) + 1
      /\ \A q \in Config : hw'[q] = hw[q] /\ register_storage'[q] = register_storage[q]
  BY SetDmaccrType DEF Config
<1>2. wanted' = Wanted(op.req) /\ op.req \in [Regs -> Int]
  BY <1>1, RegistersAssumption DEF SetDmaccr, SetOps
<1>3. ASSUME NEW r \in Config PROVE wanted'[r] = Expected(r)
  <2>1. r \in Regs /\ ~is_read_only_register(r) /\ op.req[r] \in Int
    BY <1>2 DEF Config, is_read_only_register
  <2>2. CASE r = "FCR"
    BY <1>1, <1>2, <2>1, <2>2 DEF Expected, Wanted
  <2>3. CASE r # "FCR"
    <3>1. r \in Regs \ Bar2
      BY <2>1, <2>3, Numbers DEF Config
    <3>2. r \in Meant(op.i, op.req) <=> op.req[r] >= 0
      BY <1>1, <2>1, <3>1, ReachedSteps DEF Meant
    <3> QED BY <1>1, <1>2, <2>1, <2>3, <3>2 DEF Expected, Wanted, SetPcs
  <2> QED BY <2>2, <2>3
<1> QED BY <1>1, <1>3 DEF StoreInv, Expected, SetPcs

LEMMA StoreNext == TypeInv /\ DmaModeAgrees /\ StoreInv /\ [Next]_vars => StoreInv'
<1> SUFFICES ASSUME TypeInv, DmaModeAgrees, StoreInv, [Next]_vars PROVE StoreInv'
  OBVIOUS
<1>1. ASSUME NEW req \in Requests, SetBegin(req) PROVE StoreInv'
  <2>1. /\ op'.pc = "set" /\ op'.i = 1 /\ op'.req = req /\ op.pc = "idle"
        /\ UNCHANGED <<hw, register_storage, wanted>>
    BY <1>1 DEF SetBegin, Call, card
  <2>2. Meant(1, req) = {}
    BY ReachedSteps DEF Meant
  <2> QED BY <2>1, <2>2 DEF StoreInv, Expected, SetPcs
<1>2. CASE SetStep \/ SetFcr \/ SetDmaccr
  BY <1>2, StoreSetStep, StoreSetFcr, StoreSetDmaccr
<1>3. CASE MasterReset
  <2>1. /\ op.pc = "master_reset" /\ op'.pc = "dmaccr" /\ op'.req = op.req /\ op'.i = op.i
        /\ UNCHANGED <<register_storage, wanted>> /\ \A q \in Config : hw'[q] = hw[q]
    BY <1>3, MasterResetType DEF Config, MasterReset
  <2> QED BY <2>1 DEF StoreInv, Expected, SetPcs
<1>4. CASE PurgeBegin
  <2>1. /\ op.pc = "idle" /\ op'.pc = "purge_reset" /\ op'.orig_CCR0 = register_storage["CCR0"]
        /\ Written("CCR0", SetBit(register_storage["CCR0"], Recd)) /\ UNCHANGED wanted
    BY <1>4, PurgeBeginType DEF PurgeBegin
  <2>2. "CCR0" \in Config
    BY Numbers DEF Config
  <2>3. \A q \in Config :
           q # "CCR0" => hw'[q] = hw[q] /\ register_storage'[q] = register_storage[q]
    BY <2>1, <2>2, WrittenConfig
  <2>4. hw'["CCR0"] = register_storage'["CCR0"]
    BY <2>1, <2>2, WrittenConfig
  <2> QED BY <2>1, <2>2, <2>3, <2>4 DEF StoreInv, Expected, SetPcs
<1>5. CASE PurgeReset
  <2>1. /\ op.pc = "purge_reset" /\ op'.pc = "purge_end" /\ op'.orig_CCR0 = op.orig_CCR0
        /\ Written("CMDR", ResetCommand) /\ UNCHANGED wanted
    BY <1>5, PurgeResetType DEF PurgeReset
  <2>2. \A q \in Config : hw'[q] = hw[q] /\ register_storage'[q] = register_storage[q]
    BY <2>1, WrittenOther
  <2> QED BY <2>1, <2>2 DEF StoreInv, Expected, SetPcs
<1>6. CASE PurgeEnd
  <2>1. /\ op.pc = "purge_end" /\ op'.pc = "idle" /\ Written("CCR0", op.orig_CCR0)
        /\ UNCHANGED wanted
    BY <1>6, PurgeEndType DEF PurgeEnd
  <2>2. "CCR0" \in Config
    BY Numbers DEF Config
  <2>3. \A q \in Config :
          /\ hw'[q] = IF q = "CCR0" THEN op.orig_CCR0 ELSE hw[q]
          /\ register_storage'[q] = IF q = "CCR0" THEN op.orig_CCR0 ELSE register_storage[q]
    BY <2>1, <2>2, WrittenConfig
  <2> QED BY <2>1, <2>2, <2>3 DEF StoreInv, Expected, SetPcs
<1>7. ASSUME NEW value \in BOOLEAN, SetForceFifo(value) PROVE StoreInv'
  <2>1. /\ op.pc = "idle" /\ \A q \in Config : hw'[q] = hw[q]
        /\ UNCHANGED <<register_storage, op, wanted>>
    BY <1>7, SetForceFifoType DEF SetForceFifo, Config
  <2> QED BY <2>1 DEF StoreInv, Expected, SetPcs
<1>8. CASE ExecuteTransmit
  <2>1. \A q \in Config : hw'[q] = hw[q] /\ register_storage'[q] = register_storage[q]
    BY <1>8, ExecuteTransmitType, WrittenOther
  <2>2. UNCHANGED <<op, wanted>>
    BY <1>8 DEF ExecuteTransmit
  <2> QED BY <2>1, <2>2 DEF StoreInv, Expected, SetPcs
<1>9. CASE UNCHANGED <<hw, register_storage, op, wanted>>
  BY <1>9 DEF StoreInv, Expected, SetPcs
<1> QED BY <1>1, <1>2, <1>3, <1>4, <1>5, <1>6, <1>7, <1>8, <1>9
        DEF Next, GetRegisters, ClockChange, vars, card

\* A configuration register reads back as it was set last, whatever purges,
\* transmissions, changes of mode and commands without a clock come in between, for
\* every list of registers and every structure; an FCR of 0 does not count as set.
THEOREM ReadBackSafety == Spec => []ReadBack
<1>1. Init => StoreInv /\ ReadBack
  BY StoreInit DEF Init, ReadBack
<1>2. TypeInv /\ DmaModeAgrees /\ StoreInv /\ ReadBack /\ [Next]_vars => ReadBack'
  <2> SUFFICES ASSUME TypeInv, DmaModeAgrees, StoreInv, ReadBack, [Next]_vars PROVE ReadBack'
    OBVIOUS
  <2>1. ASSUME NEW req \in Requests, GetRegisters(req) PROVE ReadBack'
    <3>1. /\ op.pc = "idle" /\ UNCHANGED wanted
          /\ last' = [req |-> req, status |-> "got", regs |-> fscc_port_get_registers(req)]
      BY <2>1 DEF GetRegisters, Call
    <3>2. \A r \in Config : hw[r] = wanted[r]
      BY <3>1 DEF StoreInv, Expected, SetPcs
    <3>3. \A r \in Config : req[r] = FSCC_UPDATE_VALUE => fscc_port_get_registers(req)[r] = hw[r]
      BY DEF fscc_port_get_registers, Config
    <3> QED BY <3>1, <3>2, <3>3 DEF ReadBack, Config
  <2>2. CASE SetDmaccr
    BY <2>2 DEF SetDmaccr, ReadBack
  <2>3. CASE UNCHANGED <<last, wanted>>
    BY <2>3 DEF ReadBack
  <2> QED BY <2>1, <2>2, <2>3 DEF Next, SetBegin, SetStep, SetFcr, MasterReset, PurgeBegin,
             PurgeReset, PurgeEnd, SetForceFifo, ExecuteTransmit, ClockChange, vars
<1> QED BY <1>1, <1>2, TypeInit, TypeNext, StoreNext, PTL DEF Spec
=============================================================================
