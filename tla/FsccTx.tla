------------------------------- MODULE FsccTx -------------------------------
(***************************************************************************)
(* The transmit path of one FSCC port in FIFO (non-DMA) mode: FsccEvtIoWrite *)
(* or, for blocking writes, request_worker (a DPC) copies a frame into a    *)
(* ring of descriptors, oframe_worker (another DPC) moves descriptors into  *)
(* the card's transmit FIFO and starts the transmitter, alls_worker         *)
(* completes the writes that wait for the wire, and FSCC_PURGE_TX throws    *)
(* everything away.                                                         *)
(*                                                                          *)
(* A data byte is a pair <<w, k>>: byte k of the w-th write request.  The   *)
(* loops under board_tx_spinlock take one step per iteration because        *)
(* fscc_user_get_tx_space looks at the ring without the lock.               *)
(***************************************************************************)
EXTENDS Integers, Sequences, FiniteSets

CONSTANTS
  TxNum,            \* memory.tx_num: descriptors in the ring
  TxSize,           \* memory.tx_size: bytes per descriptor
  FifoSize,         \* TX_FIFO_SIZE
  TfLimit,          \* frames in the FIFO above which nothing is added (254)
  Oframes,          \* executions of oframe_worker that may overlap
  Requesters,       \* executions of request_worker that may overlap
  WriteLens,        \* lengths of the applications' write requests
  MaxWrites,        \* bound on the number of write requests
  InitialSettings,  \* the settings the port may start with
  Toggles,          \* the settings an ioctl may flip while the port runs
  MaxPurges,        \* bound on the number of FSCC_PURGE_TX ioctls
  MaxOutages        \* bound on how often the clock stops

SettingNames == {"blocking_write", "wait_on_write"}

\* fscc_io_create_tx makes the size a multiple of 4; it asks for at least 2
\* descriptors, but keeps the ring it has when an allocation fails.
ASSUME RingAssumption == TxNum \in Nat \ {0} /\ TxSize \in Nat \ {0} /\ TxSize % 4 = 0
ASSUME FifoAssumption == FifoSize \in Nat \ {0} /\ FifoSize % 4 = 0 /\ TfLimit \in Nat
ASSUME WriteAssumption ==
  /\ WriteLens \subseteq Nat /\ MaxWrites \in Nat
  /\ "free" \notin Requesters \cup Oframes /\ "write" \notin Requesters \cup Oframes
  /\ Requesters \cap Oframes = {}
ASSUME IoctlAssumption ==
  /\ MaxPurges \in Nat /\ MaxOutages \in Nat
  /\ InitialSettings \subseteq [SettingNames -> BOOLEAN] /\ Toggles \subseteq SettingNames

VARIABLES
  txfifo,           \* the card's transmit FIFO, bytes in whole words
  bcfifo,           \* BC_FIFO_L: sizes of the frames in it
  wire,             \* [xf, out]: transmitter running, bytes sent of its frame
  clock,            \* [on, outages]: a clock is present (STAR.CE clears)
  isr,              \* transmit interrupts latched in ISR (TFT stands for TFT, TDU)
  oframe_dpc, alls_dpc, request_dpc,      \* DPC queued?
  board_tx_spinlock,                      \* "free" or the holder
  tx_descriptors, user_tx_desc, fifo_tx_desc,
  oframe,           \* [Oframes -> locals of fscc_fifo_write_data]
  writer,           \* [Writers -> locals of fscc_user_write_frame and its caller]
  blocking_request_queue, write_queue2,   \* waiting requests
  issued,           \* history: lengths of the write requests so far
  settings,         \* port->blocking_write, wait_on_write
  purge,            \* [pc, purges]: the purge ioctl in progress
  purged,           \* history: requests whose data was thrown away
  completed,        \* history: the completed write requests
  sent              \* history: the frames that went out

device == <<txfifo, bcfifo, wire, clock, isr>>
ring   == <<tx_descriptors, user_tx_desc, fifo_tx_desc>>
dpcs   == <<oframe_dpc, alls_dpc, request_dpc>>
user   == <<writer, blocking_request_queue, write_queue2, issued, completed>>
ioctl  == <<settings, purge, purged>>
vars   == <<device, ring, dpcs, board_tx_spinlock, oframe, user, ioctl, sent>>

-----------------------------------------------------------------------------
Pad     == <<0, 0>>
Writers == {"write"} \cup Requesters      \* FsccEvtIoWrite and the request workers

MinOf(a, b) == IF a <= b THEN a ELSE b

\* Mutant: wraps one descriptor too late.
NextDesc_Late(i) == IF i = TxNum THEN 0 ELSE i + 1

NextDesc(i) == IF i + 1 = TxNum THEN 0 ELSE i + 1

\* The k-th descriptor from position u; k in 0..TxNum.
RingPos(u, k) == IF u + k < TxNum THEN u + k ELSE u + k - TxNum

\* An empty descriptor belongs to the user side; data_count is Len(data).
EmptyDesc == [cstop |-> TRUE, fe |-> FALSE, cnt |-> 0, data |-> <<>>]

\* The descriptors in a row, from the user's position, that are free.
fscc_user_get_tx_space ==
  LET from[k \in 0..TxNum] ==
        IF k = TxNum THEN 0
        ELSE IF ~tx_descriptors[RingPos(user_tx_desc, k)].cstop THEN 0
        ELSE TxSize + from[k + 1]
  IN from[0]

-----------------------------------------------------------------------------
(* The card and the line.                                                  *)

fscc_io_get_TFCNT == Len(bcfifo)
fscc_io_get_TXCNT == Len(txfifo)

\* Words pushed into a full FIFO are lost.
PushWords(bytes) ==
  LET pads == [j \in 1..((4 - (Len(bytes) % 4)) % 4) |-> Pad]
      all  == txfifo \o bytes \o pads
  IN SubSeq(all, 1, MinOf(Len(all), FifoSize))

\* One word goes out.  The end of the last frame raises ALLS; an empty FIFO in
\* mid frame raises TDU, and falling below the trigger level TFT.
SendWord ==
  /\ wire.xf /\ clock.on /\ bcfifo # <<>> /\ txfifo # <<>>
  /\ LET size == Head(bcfifo)
         out  == wire.out \o SubSeq(txfifo, 1, MinOf(4, size - Len(wire.out)))
         rest == SubSeq(txfifo, 5, Len(txfifo))
     IN /\ txfifo' = rest
        /\ \/ /\ Len(out) = size
              /\ bcfifo' = Tail(bcfifo)
              /\ wire' = [xf |-> Tail(bcfifo) # <<>>, out |-> <<>>]
              /\ sent' = Append(sent, [data |-> out, stale |-> out[1][1] \in purged])
              /\ isr' = isr \cup (IF Tail(bcfifo) = <<>> THEN {"ALLS"} ELSE {"TFT"})
           \/ /\ Len(out) < size
              /\ wire' = [wire EXCEPT !.out = out]
              /\ isr' \in {isr \cup {"TFT"}} \cup (IF rest = <<>> THEN {} ELSE {isr})
              /\ UNCHANGED <<bcfifo, sent>>
  /\ UNCHANGED <<clock, ring, dpcs, board_tx_spinlock, oframe, user, ioctl>>

\* The clock disappears or comes back.
ClockChange ==
  /\ clock.on => clock.outages < MaxOutages
  /\ clock' = [on |-> ~clock.on,
               outages |-> IF clock.on THEN clock.outages + 1 ELSE clock.outages]
  /\ UNCHANGED <<txfifo, bcfifo, wire, isr, ring, dpcs, board_tx_spinlock, oframe, user,
                 ioctl, sent>>

-----------------------------------------------------------------------------
(* Interrupt and timer.                                                    *)

\* Mutant: the transmitter's interrupts do not bring more data.
fscc_isr_NoOframe ==
  /\ isr # {}
  /\ isr' = {}
  /\ alls_dpc' = (alls_dpc \/ "ALLS" \in isr)
  /\ UNCHANGED <<txfifo, bcfifo, wire, clock, ring, oframe_dpc, request_dpc,
                 board_tx_spinlock, oframe, user, ioctl, sent>>

\* fscc_isr: TFT, TDU and ALLS queue oframe_dpc, ALLS queues alls_dpc too.
fscc_isr ==
  /\ isr # {}
  /\ isr' = {}
  /\ oframe_dpc' = TRUE
  /\ alls_dpc' = (alls_dpc \/ "ALLS" \in isr)
  /\ UNCHANGED <<txfifo, bcfifo, wire, clock, ring, request_dpc, board_tx_spinlock, oframe,
                 user, ioctl, sent>>

\* timer_handler: every 250 ms look at the blocking writes.
timer_handler ==
  /\ request_dpc' = TRUE
  /\ UNCHANGED <<device, ring, oframe_dpc, alls_dpc, board_tx_spinlock, oframe, user, ioctl,
                 sent>>

-----------------------------------------------------------------------------
(* oframe_worker: fscc_io_transmit_frame and fscc_fifo_write_data.         *)

IdleOframe == [pc |-> "idle", space |-> 0, i |-> 0, frame_size |-> 0, written |-> FALSE]

\* Room in the FIFO; for a full one the unsigned difference wraps and is refused.
fifo_space == LET s == FifoSize - fscc_io_get_TXCNT - 1 IN s - (s % 4)

\* The counts are read before the lock is taken.
OframeSample(o) ==
  /\ oframe_dpc /\ oframe[o].pc = "idle"
  /\ oframe_dpc' = FALSE
  /\ oframe' = [oframe EXCEPT ![o] =
       IF fscc_io_get_TFCNT > TfLimit \/ fscc_io_get_TXCNT >= FifoSize THEN IdleOframe
       ELSE [IdleOframe EXCEPT !.pc = "lock", !.space = fifo_space]]
  /\ UNCHANGED <<device, ring, alls_dpc, request_dpc, board_tx_spinlock, user, ioctl, sent>>

\* Mutant: the lock is not waited for.
OframeLock_NoWait(o) ==
  /\ oframe[o].pc = "lock"
  /\ board_tx_spinlock' = o
  /\ oframe' = [oframe EXCEPT ![o].pc = "copy"]
  /\ UNCHANGED <<device, ring, dpcs, user, ioctl, sent>>

OframeLock(o) ==
  /\ oframe[o].pc = "lock" /\ board_tx_spinlock = "free"
  /\ board_tx_spinlock' = o
  /\ oframe' = [oframe EXCEPT ![o].pc = "copy"]
  /\ UNCHANGED <<device, ring, dpcs, user, ioctl, sent>>

size_in_fifo(n) == n + (4 - (n % 4))

\* Mutant: the FIFO's room is not looked at.
OframeStops_NoRoom(o) ==
  LET d == tx_descriptors[fifo_tx_desc]
  IN oframe[o].i = TxNum \/ d.cstop \/ (d.fe /\ oframe[o].frame_size # 0)

\* The loop ends: ring done, nothing pending, no room, or a second frame begins.
OframeStops(o) ==
  LET d == tx_descriptors[fifo_tx_desc]
  IN \/ oframe[o].i = TxNum
     \/ d.cstop
     \/ oframe[o].space < size_in_fifo(Len(d.data))
     \/ d.fe /\ oframe[o].frame_size # 0

\* One iteration: a descriptor's data goes to the FIFO, the descriptor is free.
OframeDesc(o) ==
  /\ oframe[o].pc = "copy" /\ ~OframeStops(o)
  /\ LET d == tx_descriptors[fifo_tx_desc]
         f == oframe[o]
     IN /\ txfifo' = PushWords(d.data)
        /\ oframe' = [oframe EXCEPT ![o] =
             [f EXCEPT !.i = f.i + 1, !.written = TRUE,
                       !.space = f.space - size_in_fifo(Len(d.data)),
                       !.frame_size = IF d.fe THEN d.cnt ELSE f.frame_size]]
  /\ tx_descriptors' = [tx_descriptors EXCEPT ![fifo_tx_desc] = EmptyDesc]
  /\ fifo_tx_desc' = NextDesc(fifo_tx_desc)
  /\ UNCHANGED <<bcfifo, wire, clock, isr, user_tx_desc, dpcs, board_tx_spinlock, user, ioctl,
                 sent>>

\* After the loop: the size of a frame that was begun, and the unlock.
OframeUnlock(o) ==
  /\ oframe[o].pc = "copy" /\ OframeStops(o)
  /\ bcfifo' = IF oframe[o].frame_size # 0 THEN Append(bcfifo, oframe[o].frame_size) ELSE bcfifo
  /\ board_tx_spinlock' = "free"
  /\ oframe' = [oframe EXCEPT ![o] =
       IF oframe[o].written THEN [IdleOframe EXCEPT !.pc = "transmit"] ELSE IdleOframe]
  /\ UNCHANGED <<txfifo, wire, clock, isr, ring, dpcs, user, ioctl, sent>>

\* fscc_io_execute_transmit: without a clock the command is not given, and the
\* result of fscc_port_set_register is not looked at.
ExecuteTransmit(o) ==
  /\ oframe[o].pc = "transmit"
  /\ wire' = IF clock.on /\ bcfifo # <<>> THEN [wire EXCEPT !.xf = TRUE] ELSE wire
  /\ oframe' = [oframe EXCEPT ![o] = IdleOframe]
  /\ UNCHANGED <<txfifo, bcfifo, clock, isr, ring, dpcs, board_tx_spinlock, user, ioctl, sent>>

-----------------------------------------------------------------------------
(* Write requests.                                                         *)

IdleWriter == [pc |-> "idle", w |-> 0, i |-> 0, out_length |-> 0, status |-> "success"]

Completion(w, status, count) == [w |-> w, status |-> status, count |-> count]

\* FsccEvtIoWrite is called with the next request of write_queue.
WriteArrives(len) ==
  /\ Len(issued) < MaxWrites /\ purge.pc # "drain" /\ writer["write"].pc = "idle"
  /\ issued' = Append(issued, len)

OverCap(len) == len > TxSize * TxNum

\* The early returns of FsccEvtIoWrite.
WriteRefuse(len) ==
  /\ WriteArrives(len)
  /\ \/ /\ len = 0
        /\ completed' = Append(completed, Completion(Len(issued'), "success", 0))
     \/ /\ len > 0
        /\ OverCap(len) \/ (~settings.blocking_write /\ fscc_user_get_tx_space < len)
        /\ completed' = Append(completed, Completion(Len(issued'), "too_small", 0))
     \/ /\ len > 0 /\ ~OverCap(len) /\ ~settings.blocking_write
        /\ fscc_user_get_tx_space >= len /\ ~clock.on
        /\ completed' = Append(completed, Completion(Len(issued'), "timeout", 0))
  /\ UNCHANGED <<device, ring, dpcs, board_tx_spinlock, oframe, writer,
                 blocking_request_queue, write_queue2, ioctl, sent>>

\* A blocking write waits for request_worker.
WriteForward(len) ==
  /\ WriteArrives(len)
  /\ len > 0 /\ ~OverCap(len) /\ settings.blocking_write
  /\ blocking_request_queue' = Append(blocking_request_queue, Len(issued'))
  /\ request_dpc' = TRUE
  /\ UNCHANGED <<device, ring, oframe_dpc, alls_dpc, board_tx_spinlock, oframe, writer,
                 write_queue2, completed, ioctl, sent>>

\* Mutant: goes on whether there is room or not.
WriteAdmit_Always(len) ==
  /\ WriteArrives(len)
  /\ len > 0 /\ ~OverCap(len) /\ ~settings.blocking_write /\ clock.on
  /\ writer' = [writer EXCEPT !["write"] = [IdleWriter EXCEPT !.pc = "lock", !.w = Len(issued')]]
  /\ UNCHANGED <<device, ring, dpcs, board_tx_spinlock, oframe, blocking_request_queue,
                 write_queue2, completed, ioctl, sent>>

\* Another write goes on to fscc_user_write_frame; there was room a moment ago.
WriteAdmit(len) ==
  /\ WriteArrives(len)
  /\ len > 0 /\ ~OverCap(len) /\ ~settings.blocking_write
  /\ fscc_user_get_tx_space >= len /\ clock.on
  /\ writer' = [writer EXCEPT !["write"] = [IdleWriter EXCEPT !.pc = "lock", !.w = Len(issued')]]
  /\ UNCHANGED <<device, ring, dpcs, board_tx_spinlock, oframe, blocking_request_queue,
                 write_queue2, completed, ioctl, sent>>

WriteFrameLock(a) ==
  /\ writer[a].pc = "lock" /\ board_tx_spinlock = "free"
  /\ board_tx_spinlock' = a
  /\ writer' = [writer EXCEPT ![a].pc = "copy"]
  /\ UNCHANGED <<device, ring, dpcs, oframe, blocking_request_queue, write_queue2, issued,
                 completed, ioctl, sent>>

\* The ring is full although there was room when it was looked at: give up,
\* leaving what was copied.
WriteFrameFull(a) ==
  /\ writer[a].pc = "copy" /\ ~tx_descriptors[user_tx_desc].cstop
  /\ board_tx_spinlock' = "free"
  /\ writer' = [writer EXCEPT ![a].pc = "finish", ![a].status = "too_small"]
  /\ UNCHANGED <<device, ring, dpcs, oframe, blocking_request_queue, write_queue2, issued,
                 completed, ioctl, sent>>

\* The i-th descriptor of a write of len bytes; the first one has FE and the
\* frame's size.
FilledDesc(w, len, i, from, n) ==
  [cstop |-> FALSE, fe |-> i = 0, cnt |-> IF i = 0 THEN len ELSE n,
   data |-> [k \in 1..n |-> <<w, from + k>>]]

\* One iteration of fscc_user_write_frame's loop; the last one unlocks.
WriteFrameDesc(a) ==
  /\ writer[a].pc = "copy" /\ tx_descriptors[user_tx_desc].cstop
  /\ LET wr   == writer[a]
         len  == issued[wr.w]
         n    == MinOf(len - wr.out_length, TxSize)
         last == wr.out_length + n = len \/ wr.i + 1 = TxNum
     IN /\ tx_descriptors' = [tx_descriptors EXCEPT ![user_tx_desc] =
                                FilledDesc(wr.w, len, wr.i, wr.out_length, n)]
        /\ writer' = [writer EXCEPT ![a] =
             [wr EXCEPT !.i = wr.i + 1, !.out_length = wr.out_length + n,
                        !.pc = IF last THEN "finish" ELSE "copy"]]
        /\ board_tx_spinlock' = IF last THEN "free" ELSE board_tx_spinlock
  /\ user_tx_desc' = NextDesc(user_tx_desc)
  /\ UNCHANGED <<device, fifo_tx_desc, dpcs, oframe, blocking_request_queue, write_queue2,
                 issued, completed, ioctl, sent>>

\* The end of FsccEvtIoWrite, and of request_worker: with wait_on_write the
\* former leaves the completion to alls_worker, whatever the status was.
WriteFinish(a) ==
  /\ writer[a].pc = "finish"
  /\ IF a = "write" /\ settings.wait_on_write
       THEN /\ write_queue2' = Append(write_queue2, writer[a].w)
            /\ UNCHANGED completed
       ELSE /\ completed' = Append(completed, Completion(writer[a].w, writer[a].status,
                                                         writer[a].out_length))
            /\ UNCHANGED write_queue2
  /\ oframe_dpc' = TRUE
  /\ writer' = [writer EXCEPT ![a] = IdleWriter]
  /\ UNCHANGED <<device, ring, alls_dpc, request_dpc, board_tx_spinlock, oframe,
                 blocking_request_queue, issued, ioctl, sent>>

\* Mutant: the newest request first.
FindRequest_Newest(a) ==
  /\ request_dpc /\ writer[a].pc = "idle"
  /\ request_dpc' = FALSE
  /\ LET last == blocking_request_queue[Len(blocking_request_queue)]
         fits == blocking_request_queue # <<>> /\ fscc_user_get_tx_space >= issued[last]
     IN writer' = [writer EXCEPT ![a] =
          IF fits THEN [IdleWriter EXCEPT !.pc = "retrieve", !.w = last] ELSE IdleWriter]
  /\ UNCHANGED <<device, ring, oframe_dpc, alls_dpc, board_tx_spinlock, oframe,
                 blocking_request_queue, write_queue2, issued, completed, ioctl, sent>>

\* request_worker looks at the oldest blocking write and at the ring, unlocked.
FindRequest(a) ==
  /\ request_dpc /\ writer[a].pc = "idle"
  /\ request_dpc' = FALSE
  /\ LET fits == /\ blocking_request_queue # <<>>
                 /\ fscc_user_get_tx_space >= issued[Head(blocking_request_queue)]
     IN writer' = [writer EXCEPT ![a] =
          IF fits THEN [IdleWriter EXCEPT !.pc = "retrieve", !.w = Head(blocking_request_queue)]
                  ELSE IdleWriter]
  /\ UNCHANGED <<device, ring, oframe_dpc, alls_dpc, board_tx_spinlock, oframe,
                 blocking_request_queue, write_queue2, issued, completed, ioctl, sent>>

\* A sequence without its j-th element.
RemoveAt(s, j) == SubSeq(s, 1, j - 1) \o SubSeq(s, j + 1, Len(s))

\* Then it takes the request, unless another execution has.
RetrieveFoundRequest(a) ==
  /\ writer[a].pc = "retrieve"
  /\ \/ \E j \in 1..Len(blocking_request_queue) :
          /\ blocking_request_queue[j] = writer[a].w
          /\ blocking_request_queue' = RemoveAt(blocking_request_queue, j)
          /\ writer' = [writer EXCEPT ![a].pc = "lock"]
     \/ /\ \A j \in 1..Len(blocking_request_queue) : blocking_request_queue[j] # writer[a].w
        /\ writer' = [writer EXCEPT ![a] = IdleWriter]
        /\ UNCHANGED blocking_request_queue
  /\ UNCHANGED <<device, ring, dpcs, board_tx_spinlock, oframe, write_queue2, issued,
                 completed, ioctl, sent>>

\* alls_worker completes every waiting write, if waiting is still on.
alls_worker ==
  /\ alls_dpc
  /\ alls_dpc' = FALSE
  /\ IF settings.wait_on_write
       THEN /\ completed' = completed \o [j \in 1..Len(write_queue2) |->
                  Completion(write_queue2[j], "success", issued[write_queue2[j]])]
            /\ write_queue2' = <<>>
       ELSE UNCHANGED <<completed, write_queue2>>
  /\ UNCHANGED <<device, ring, oframe_dpc, request_dpc, board_tx_spinlock, oframe, writer,
                 blocking_request_queue, issued, ioctl, sent>>

-----------------------------------------------------------------------------
(* Ioctls.                                                                 *)

\* Requests no thread is working on at the moment.
Settled == {w \in 1..Len(issued) : \A a \in Writers : writer[a].w # w}

\* Mutant: the transmitter is not reset.
PurgeReset_NoTres ==
  /\ purge.pc = "idle" /\ purge.purges < MaxPurges /\ board_tx_spinlock = "free"
  /\ purge' = [pc |-> "queues", purges |-> purge.purges + 1]
  /\ tx_descriptors' = [i \in 0..(TxNum - 1) |-> EmptyDesc]
  /\ user_tx_desc' = 0 /\ fifo_tx_desc' = 0
  /\ purged' = IF clock.on THEN purged \cup Settled ELSE purged
  /\ UNCHANGED <<device, dpcs, board_tx_spinlock, oframe, user, settings, sent>>

\* Mutant: forgets the position of the FIFO's side.
PurgeReset_KeepsFifoPosition ==
  /\ purge.pc = "idle" /\ purge.purges < MaxPurges /\ board_tx_spinlock = "free"
  /\ purge' = [pc |-> "queues", purges |-> purge.purges + 1]
  /\ IF clock.on
       THEN txfifo' = <<>> /\ bcfifo' = <<>> /\ wire' = [xf |-> FALSE, out |-> <<>>]
       ELSE UNCHANGED <<txfifo, bcfifo, wire>>
  /\ tx_descriptors' = [i \in 0..(TxNum - 1) |-> EmptyDesc]
  /\ user_tx_desc' = 0
  /\ purged' = IF clock.on THEN purged \cup Settled ELSE purged
  /\ UNCHANGED <<fifo_tx_desc, clock, isr, dpcs, board_tx_spinlock, oframe, user, settings,
                 sent>>

\* fscc_io_purge_tx: fscc_io_reset_tx under the lock.  TRES is a command, which
\* is not sent without a clock.
PurgeReset ==
  /\ purge.pc = "idle" /\ purge.purges < MaxPurges /\ board_tx_spinlock = "free"
  /\ purge' = [pc |-> "queues", purges |-> purge.purges + 1]
  /\ IF clock.on
       THEN txfifo' = <<>> /\ bcfifo' = <<>> /\ wire' = [xf |-> FALSE, out |-> <<>>]
       ELSE UNCHANGED <<txfifo, bcfifo, wire>>
  /\ tx_descriptors' = [i \in 0..(TxNum - 1) |-> EmptyDesc]
  /\ user_tx_desc' = 0 /\ fifo_tx_desc' = 0
  /\ purged' = IF clock.on THEN purged \cup Settled ELSE purged
  /\ UNCHANGED <<clock, isr, dpcs, board_tx_spinlock, oframe, user, settings, sent>>

\* The purge of write_queue begins and turns new requests away.
PurgeQueues ==
  /\ purge.pc = "queues"
  /\ purge' = [purge EXCEPT !.pc = "drain"]
  /\ UNCHANGED <<device, ring, dpcs, board_tx_spinlock, oframe, user, settings, purged, sent>>

\* It returns when the call in progress has ended; then the waiting writes of
\* write_queue2 are cancelled.  blocking_request_queue is left alone.
PurgeFinish ==
  /\ purge.pc = "drain" /\ writer["write"].pc = "idle"
  /\ purge' = [purge EXCEPT !.pc = "idle"]
  /\ completed' = completed \o [j \in 1..Len(write_queue2) |->
                                  Completion(write_queue2[j], "cancelled", 0)]
  /\ write_queue2' = <<>>
  /\ UNCHANGED <<device, ring, dpcs, board_tx_spinlock, oframe, writer,
                 blocking_request_queue, issued, settings, purged, sent>>

\* FSCC_ENABLE_/DISABLE_ BLOCKING_WRITE, WAIT_ON_WRITE.
ToggleSetting(s) ==
  /\ purge.pc = "idle"
  /\ settings' = [settings EXCEPT ![s] = ~@]
  /\ UNCHANGED <<device, ring, dpcs, board_tx_spinlock, oframe, user, purge, purged, sent>>

-----------------------------------------------------------------------------
\* The port after fscc_io_create_tx and the purge that PrepareHardware ends with.
Init ==
  /\ txfifo = <<>> /\ bcfifo = <<>> /\ wire = [xf |-> FALSE, out |-> <<>>]
  /\ clock = [on |-> TRUE, outages |-> 0] /\ isr = {}
  /\ oframe_dpc = FALSE /\ alls_dpc = FALSE /\ request_dpc = FALSE
  /\ board_tx_spinlock = "free"
  /\ tx_descriptors = [i \in 0..(TxNum - 1) |-> EmptyDesc]
  /\ user_tx_desc = 0 /\ fifo_tx_desc = 0
  /\ oframe = [o \in Oframes |-> IdleOframe]
  /\ writer = [a \in Writers |-> IdleWriter]
  /\ blocking_request_queue = <<>> /\ write_queue2 = <<>>
  /\ issued = <<>> /\ completed = <<>> /\ sent = <<>>
  /\ settings \in InitialSettings
  /\ purge = [pc |-> "idle", purges |-> 0] /\ purged = {}

OframeStep(o) == OframeDesc(o) \/ OframeUnlock(o) \/ ExecuteTransmit(o)
CopyStep(a) == WriteFrameFull(a) \/ WriteFrameDesc(a) \/ WriteFinish(a)

Next ==
  \/ SendWord
  \/ ClockChange
  \/ fscc_isr
  \/ timer_handler
  \/ \E o \in Oframes : OframeSample(o) \/ OframeLock(o) \/ OframeStep(o)
  \/ \E len \in WriteLens : WriteRefuse(len) \/ WriteForward(len) \/ WriteAdmit(len)
  \/ \E a \in Writers : WriteFrameLock(a) \/ CopyStep(a)
  \/ \E a \in Requesters : FindRequest(a) \/ RetrieveFoundRequest(a)
  \/ alls_worker
  \/ PurgeReset
  \/ PurgeQueues
  \/ PurgeFinish
  \/ \E s \in Toggles : ToggleSetting(s)

Spec == Init /\ [][Next]_vars

\* The transmitter sends what it has, interrupts and the timer arrive, queued
\* DPCs run, code under a spin lock ends and whoever waits for it gets it.
Fairness ==
  /\ WF_vars(SendWord) /\ WF_vars(fscc_isr) /\ WF_vars(timer_handler)
  /\ WF_vars(alls_worker) /\ WF_vars(PurgeQueues) /\ WF_vars(PurgeFinish)
  /\ \A o \in Oframes :
       WF_vars(OframeSample(o)) /\ SF_vars(OframeLock(o)) /\ WF_vars(OframeStep(o))
  /\ \A a \in Writers : SF_vars(WriteFrameLock(a)) /\ WF_vars(CopyStep(a))
  /\ \A a \in Requesters : WF_vars(FindRequest(a)) /\ WF_vars(RetrieveFoundRequest(a))

FairSpec == Spec /\ Fairness

-----------------------------------------------------------------------------
(* Properties.                                                             *)

Byte == Nat \X Nat
Desc == [cstop : BOOLEAN, fe : BOOLEAN, cnt : Nat, data : Seq(Byte)]
WriterState == [pc : {"idle", "retrieve", "lock", "copy", "finish"}, w : Nat, i : 0..TxNum,
                out_length : Nat, status : {"success", "too_small"}]
OframeState == [pc : {"idle", "lock", "copy", "transmit"}, space : Nat, i : 0..TxNum,
                frame_size : Nat, written : BOOLEAN]

\* Type invariant of the transmit state in struct fscc_port, its DPCs and the
\* card: fifo_space, unsigned in the code, is never driven below zero.
TypeOK ==
  /\ txfifo \in Seq(Byte) /\ bcfifo \in Seq(Nat) /\ wire \in [xf : BOOLEAN, out : Seq(Byte)]
  /\ clock \in [on : BOOLEAN, outages : Nat] /\ isr \subseteq {"TFT", "ALLS"}
  /\ {oframe_dpc, alls_dpc, request_dpc} \subseteq BOOLEAN
  /\ board_tx_spinlock \in {"free"} \cup Writers \cup Oframes
  /\ tx_descriptors \in [0..(TxNum - 1) -> Desc]
  /\ user_tx_desc \in 0..(TxNum - 1) /\ fifo_tx_desc \in 0..(TxNum - 1)
  /\ oframe \in [Oframes -> OframeState] /\ writer \in [Writers -> WriterState]
  /\ blocking_request_queue \in Seq(Nat) /\ write_queue2 \in Seq(Nat) /\ issued \in Seq(Nat)
  /\ settings \in [SettingNames -> BOOLEAN]
  /\ purge \in [pc : {"idle", "queues", "drain"}, purges : Nat] /\ purged \subseteq Nat

\* The descriptors with data are exactly those from the FIFO's position up to the
\* user's: fscc_user_write_frame and fscc_fifo_write_data never overtake each other.
TxRingOwnership ==
  \E n \in 0..TxNum :
    /\ user_tx_desc = RingPos(fifo_tx_desc, n)
    /\ \A k \in 0..(TxNum - 1) : ~tx_descriptors[RingPos(fifo_tx_desc, k)].cstop <=> k < n

\* Every frame on the wire is one write request, whole and byte by byte
\* (tools/loop_test.c: "Verify that we read the same data we wrote").
SentIntact ==
  \A i \in 1..Len(sent) :
    LET f == sent[i].data
    IN /\ f[1][1] \in 1..Len(issued) /\ Len(f) = issued[f[1][1]]
       /\ \A k \in 1..Len(f) : f[k] = <<f[1][1], k>>

\* Frames go out in the order of the write requests.
SentInOrder ==
  \A i, j \in 1..Len(sent) : i < j => sent[i].data[1][1] < sent[j].data[1][1]

\* A write is reported as successful only if all of it went into the ring, and a
\* refused one left nothing behind.
WriteAllOrNothing ==
  \A i \in 1..Len(completed) :
    completed[i].count = IF completed[i].status = "success" THEN issued[completed[i].w] ELSE 0

\* A blocking write that could ever fit is not refused
\* (docs/blocking-write.md: "block when the output memory cap is full until the
\* outgoing data can fit").  Two executions of request_worker that look at the same
\* room break it: tx_blocking_race.cfg, README section 5.
BlockingNeverRefused ==
  (\A s \in InitialSettings : s.blocking_write) /\ "blocking_write" \notin Toggles =>
    \A i \in 1..Len(completed) :
      completed[i].status = "too_small" => OverCap(issued[completed[i].w])

\* What had been written when FSCC_PURGE_TX emptied the ring and, with a clock,
\* reset the transmitter never goes out.
TxPurgeDiscards == \A i \in 1..Len(sent) : ~sent[i].stale

\* Everything accepted is sent in the end and no blocking write waits for ever:
\* one frame per oframe_dpc, coalesced DPCs and a full FIFO are all recovered from.
AllSent ==
  []<>(/\ blocking_request_queue = <<>> /\ bcfifo = <<>>
       /\ \A i \in 0..(TxNum - 1) : tx_descriptors[i].cstop)
==============================================================================
