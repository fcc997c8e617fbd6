------------------------------- MODULE FsccRx -------------------------------
(***************************************************************************)
(* The receive path of one FSCC port in FIFO (non-DMA) mode: the serial    *)
(* line fills the card's receive FIFO, iframe_worker (a DPC) moves it into *)
(* a ring of descriptors, FsccProcessRead (another DPC, of which several   *)
(* executions may run on different processors) copies finished descriptors *)
(* into waiting read requests, and FSCC_PURGE_RX throws everything away.   *)
(*                                                                         *)
(* A data byte is a pair <<f, k>>: byte k of the f-th frame on the line.   *)
(* A timestamp is the number of the frame the line was at when the clock   *)
(* was read, carried in the output as the single item <<t, 0>> that counts *)
(* sizeof(fscc_timestamp) bytes.  Code that runs under board_rx_spinlock   *)
(* takes one step per loop iteration, so that the line, the settings and   *)
(* the other DPCs interleave with it.                                      *)
(***************************************************************************)
EXTENDS Integers, Sequences, FiniteSets

CONSTANTS
  RxNum,            \* memory.rx_num: descriptors in the ring
  RxSize,           \* memory.rx_size: bytes per descriptor
  Traffic,          \* sizes of the frames on the line, 2 status bytes included
  Arrivals,         \* how many bytes the line may deliver in one step
  LinePace,         \* line steps possible between two register reads
  Streaming,        \* fscc_io_is_streaming: transparent/xsync without framing
  Readers,          \* executions of the process_read DPC that may overlap
  ReadLens,         \* lengths of the applications' read requests
  MaxReads,         \* bound on the number of read requests
  InitialSettings,  \* the settings the port may start with
  Toggles,          \* the settings an ioctl may flip while the port runs
  MaxPurges,        \* bound on the number of FSCC_PURGE_RX ioctls
  MaxOutages        \* bound on how often the receive clock stops

ASSUME RingAssumption == RxNum \in Nat \ {0} /\ RxSize \in Nat \ {0}
ASSUME TrafficAssumption == Traffic \in Seq(Nat \ {0, 1})
ASSUME LineAssumption == Arrivals \subseteq Nat \ {0} /\ LinePace \in Nat
ASSUME ModeAssumption == Streaming \in BOOLEAN
ASSUME ReadAssumption ==
  /\ ReadLens \subseteq Nat /\ MaxReads \in Nat
  /\ "free" \notin Readers /\ "iframe" \notin Readers
ASSUME IoctlAssumption == MaxPurges \in Nat /\ MaxOutages \in Nat

SettingNames == {"append_status", "append_timestamp", "rx_multiple"}

ASSUME SettingsAssumption ==
  InitialSettings \subseteq [SettingNames -> BOOLEAN] /\ Toggles \subseteq SettingNames

VARIABLES
  line,             \* [f, k]: k bytes of frame f have arrived
  rxfifo,           \* the card's receive FIFO, a sequence of bytes in words
  bcfifo,           \* BC_FIFO_L: sizes of the complete frames in rxfifo
  recd,             \* CCR0.RECD: receiver disabled
  clock,            \* [on, outages]: a receive clock is present (STAR.CE clears)
  isr,              \* a receive interrupt is latched in ISR
  iframe_dpc, process_read_dpc,           \* DPC queued?
  board_rx_spinlock,                      \* "free" or the holder
  rx_descriptors, user_rx_desc, fifo_rx_desc,
  rx_bytes_in_frame, rx_frame_size,
  iframe,           \* [pc, i, pace]: the execution of iframe_worker
  reader,           \* [Readers -> locals of FsccProcessRead and its callees]
  read_queue2,      \* the manual queue of waiting reads, lengths
  issued,           \* read requests accepted so far
  settings,         \* port->append_status, append_timestamp, rx_multiple
  purge,            \* [pc, timed_out, purges]: the purge ioctl in progress
  purged,           \* history: the frame the line was at when the ring was last reset
  completed         \* history: the completed read requests

device == <<line, rxfifo, bcfifo, recd, clock, isr>>
ring   == <<rx_descriptors, user_rx_desc, fifo_rx_desc, rx_bytes_in_frame, rx_frame_size>>
dpcs   == <<iframe_dpc, process_read_dpc>>
user   == <<reader, read_queue2, issued, completed>>
ioctl  == <<settings, purge, purged>>
vars   == <<device, ring, dpcs, board_rx_spinlock, iframe, user, ioctl>>

-----------------------------------------------------------------------------
StatusBytes   == 2      \* the card appends two status bytes to every frame
TimestampSize == 8      \* sizeof(fscc_timestamp)
Empty         == 0      \* clear_timestamp
Pad           == <<0, 0>>

MinOf(a, b) == IF a <= b THEN a ELSE b
WordsOf(n)  == 4 * ((n + 3) \div 4)      \* bytes of the words that hold n bytes

\* set_timestamp: KeQuerySystemTime.
Now == line.f

-----------------------------------------------------------------------------
(* Descriptors and the ring.                                               *)


\* Mutant: wraps one descriptor too late.
NextDesc_Late(i) == IF i = RxNum THEN 0 ELSE i + 1

NextDesc(i) == IF i + 1 = RxNum THEN 0 ELSE i + 1

\* The k-th descriptor from position u, and from the user's; k in 0..RxNum.
RingPos(u, k) == IF u + k < RxNum THEN u + k ELSE u + k - RxNum
Ahead(k) == RingPos(user_rx_desc, k)

Finished(d) == "FE" \in d.flags \/ "CSTOP" \in d.flags
Complete(d) == "FE" \in d.flags /\ "CSTOP" \in d.flags

\* fscc_user_next_read_size finds a frame: its last descriptor is the k-th
\* ahead, and none before it is unfinished or the end of another frame.
FrameEndsAt(k) ==
  /\ Complete(rx_descriptors[Ahead(k)])
  /\ \A j \in 0..(k - 1) : /\ Finished(rx_descriptors[Ahead(j)])
                           /\ ~Complete(rx_descriptors[Ahead(j)])

frame_ready == \E k \in 0..(RxNum - 1) : FrameEndsAt(k)
frame_bytes == rx_descriptors[Ahead(CHOOSE k \in 0..(RxNum - 1) : FrameEndsAt(k))].cnt

\* ... and without a frame, the bytes of the finished descriptors.
stream_bytes ==
  LET from[k \in 0..RxNum] ==
        IF k = RxNum THEN 0
        ELSE IF ~Finished(rx_descriptors[Ahead(k)]) THEN 0
        ELSE rx_descriptors[Ahead(k)].data_count + from[k + 1]
  IN from[0]

fscc_user_next_read_size == IF frame_ready THEN frame_bytes ELSE stream_bytes

\* What the application gets of a frame of that many bytes, and the room it needs.
ValidData(bytes)         == bytes - (IF settings.append_status THEN 0 ELSE StatusBytes)
buffer_requirement(bytes) ==
  ValidData(bytes) + (IF settings.append_timestamp THEN TimestampSize ELSE 0)

CleanDesc(d) == [d EXCEPT !.flags = {}, !.cnt = 0]

-----------------------------------------------------------------------------
(* The card and the line.                                                  *)

fscc_io_get_RFCNT == Len(bcfifo)
fscc_io_get_RXCNT == Cardinality({j \in 1..Len(rxfifo) : rxfifo[j] # Pad})

\* n more bytes of the current frame arrive; its end is recorded in the byte
\* count FIFO and raises RFE, other data may or may not raise RFS or RFT.
LineArrive(n) ==
  /\ clock.on /\ ~recd
  /\ line.f <= Len(Traffic)
  /\ n <= Traffic[line.f] - line.k
  /\ iframe.pc = "store" => iframe.pace < LinePace
  /\ LET size == Traffic[line.f]
         data == [j \in 1..n |-> <<line.f, line.k + j>>]
         pads == [j \in 1..(WordsOf(size) - size) |-> Pad]
     IN \/ /\ ~Streaming /\ line.k + n = size
           /\ rxfifo' = rxfifo \o data \o pads
           /\ bcfifo' = Append(bcfifo, size)
           /\ line' = [f |-> line.f + 1, k |-> 0]
           /\ isr' = TRUE
        \/ /\ Streaming \/ line.k + n < size
           /\ rxfifo' = rxfifo \o data
           /\ line' = [line EXCEPT !.k = @ + n]
           /\ isr' \in {isr, TRUE}
           /\ UNCHANGED bcfifo
  /\ iframe' = [iframe EXCEPT !.pace = IF iframe.pc = "store" THEN @ + 1 ELSE @]
  /\ UNCHANGED <<recd, clock, ring, dpcs, board_rx_spinlock, user, ioctl>>

\* A frame passes while the receiver is disabled.
LineLost ==
  /\ clock.on /\ recd /\ ~Streaming
  /\ line.f <= Len(Traffic)
  /\ line' = [f |-> line.f + 1, k |-> 0]
  /\ UNCHANGED <<rxfifo, bcfifo, recd, clock, isr, ring, dpcs, board_rx_spinlock,
                 iframe, user, ioctl>>

\* The receive clock disappears or comes back.
ClockChange ==
  /\ clock.on => clock.outages < MaxOutages
  /\ clock' = [on |-> ~clock.on,
               outages |-> IF clock.on THEN clock.outages + 1 ELSE clock.outages]
  /\ UNCHANGED <<line, rxfifo, bcfifo, recd, isr, ring, dpcs, board_rx_spinlock,
                 iframe, user, ioctl>>

-----------------------------------------------------------------------------
(* Interrupt, timer and the DPC that empties the FIFO.                     *)

\* fscc_isr: reading ISR clears it; a receive bit queues iframe_dpc.
fscc_isr ==
  /\ isr
  /\ isr' = FALSE
  /\ iframe_dpc' = TRUE
  /\ UNCHANGED <<line, rxfifo, bcfifo, recd, clock, ring, process_read_dpc,
                 board_rx_spinlock, iframe, user, ioctl>>


\* Mutant: the timer does nothing.
timer_handler_Idle == UNCHANGED vars

\* timer_handler: every 250 ms, whatever happened.
timer_handler ==
  /\ iframe_dpc' = TRUE
  /\ UNCHANGED <<device, ring, process_read_dpc, board_rx_spinlock, iframe, user, ioctl>>

\* iframe_worker starts and fscc_fifo_read_data takes the lock.
IframeStart ==
  /\ iframe_dpc /\ iframe.pc = "idle" /\ board_rx_spinlock = "free"
  /\ iframe_dpc' = FALSE
  /\ board_rx_spinlock' = "iframe"
  /\ iframe' = [pc |-> "scan", i |-> 0, pace |-> 0]
  /\ UNCHANGED <<device, ring, process_read_dpc, user, ioctl>>

ScanEnds == iframe.i = RxNum \/ "CSTOP" \in rx_descriptors[fifo_rx_desc].flags


\* Mutant: takes the next size although the current frame is not finished.
FifoSample_Repop ==
  /\ iframe.pc = "scan" /\ ~ScanEnds
  /\ IF fscc_io_get_RFCNT > 0
       THEN /\ rx_frame_size' = Head(bcfifo)
            /\ bcfifo' = Tail(bcfifo)
       ELSE UNCHANGED <<rx_frame_size, bcfifo>>
  /\ iframe' = [iframe EXCEPT !.pc = "store", !.pace = 0]
  /\ UNCHANGED <<line, rxfifo, recd, clock, isr, rx_descriptors, user_rx_desc,
                 fifo_rx_desc, rx_bytes_in_frame, dpcs, board_rx_spinlock, user, ioctl>>

\* Top of the loop: learn the size of the current frame, if it has ended.
FifoSample ==
  /\ iframe.pc = "scan" /\ ~ScanEnds
  /\ IF rx_frame_size = 0 /\ fscc_io_get_RFCNT > 0
       THEN /\ rx_frame_size' = Head(bcfifo)
            /\ bcfifo' = Tail(bcfifo)
       ELSE UNCHANGED <<rx_frame_size, bcfifo>>
  /\ iframe' = [iframe EXCEPT !.pc = "store", !.pace = 0]
  /\ UNCHANGED <<line, rxfifo, recd, clock, isr, rx_descriptors, user_rx_desc,
                 fifo_rx_desc, rx_bytes_in_frame, dpcs, board_rx_spinlock, user, ioctl>>

receive_length ==
  MinOf(IF rx_frame_size # 0
          THEN IF rx_frame_size > rx_bytes_in_frame THEN rx_frame_size - rx_bytes_in_frame
                                                    ELSE 0
          ELSE fscc_io_get_RXCNT - (fscc_io_get_RXCNT % 4),
        RxSize - rx_descriptors[fifo_rx_desc].cnt)


\* fscc_card_get_register_rep: n bytes from the FIFO, which pops whole words.
FifoBytes(n)     == [j \in 1..n |-> IF j <= Len(rxfifo) THEN rxfifo[j] ELSE Pad]
FifoRemainder(n) == SubSeq(rxfifo, WordsOf(n) + 1, Len(rxfifo))

FrameDone(n) == rx_frame_size > 0 /\ rx_bytes_in_frame + n >= rx_frame_size

\* The descriptor after n more bytes: its buffer, CNT, CSTOP, FE and timestamp.
StoreInDesc(d, n) ==
  LET full  == d.cnt + n >= RxSize
      ended == FrameDone(n)
      flags == IF ended THEN {"FE", "CSTOP"} ELSE IF full THEN {"CSTOP"} ELSE d.flags
  IN [flags |-> flags,
      cnt |-> IF ended THEN rx_frame_size ELSE IF full THEN 0 ELSE d.cnt + n,
      data_count |-> IF "CSTOP" \in flags THEN RxSize ELSE d.data_count,
      buffer |-> [j \in 1..RxSize |-> IF j > d.cnt /\ j <= d.cnt + n
                                        THEN FifoBytes(n)[j - d.cnt] ELSE d.buffer[j]],
      timestamp |-> IF "CSTOP" \in flags /\ d.timestamp = Empty THEN Now ELSE d.timestamp]

\* Rest of the loop: move what there is and close the descriptor or the frame.
FifoStore ==
  /\ iframe.pc = "store"
  /\ LET n == receive_length
         d == StoreInDesc(rx_descriptors[fifo_rx_desc], n)
     IN /\ rxfifo' = FifoRemainder(n)
        /\ rx_descriptors' = [rx_descriptors EXCEPT ![fifo_rx_desc] = d]
        /\ rx_bytes_in_frame' = IF FrameDone(n) THEN 0 ELSE rx_bytes_in_frame + n
        /\ rx_frame_size' = IF FrameDone(n) THEN 0 ELSE rx_frame_size
        /\ IF "CSTOP" \in d.flags
             THEN /\ fifo_rx_desc' = NextDesc(fifo_rx_desc)
                  /\ iframe' = [pc |-> "scan", i |-> iframe.i + 1, pace |-> 0]
             ELSE /\ iframe' = [iframe EXCEPT !.pc = "exit"]
                  /\ UNCHANGED fifo_rx_desc
  /\ UNCHANGED <<line, bcfifo, recd, clock, isr, user_rx_desc, dpcs, board_rx_spinlock,
                 user, ioctl>>

\* The lock is released and iframe_worker queues process_read_dpc.
IframeDone ==
  /\ iframe.pc = "exit" \/ (iframe.pc = "scan" /\ ScanEnds)
  /\ board_rx_spinlock' = "free"
  /\ iframe' = [pc |-> "idle", i |-> 0, pace |-> 0]
  /\ process_read_dpc' = TRUE
  /\ UNCHANGED <<device, ring, iframe_dpc, user, ioctl>>

-----------------------------------------------------------------------------
(* Read requests: FsccEvtIoRead, FsccProcessRead and the copy to the user. *)

IdleReader == [pc |-> "idle", len |-> 0, i |-> 0, bytes |-> 0, valid |-> 0,
               filled |-> 0, out |-> <<>>, out_length |-> 0]

Completion(len, status, need, out, out_length) ==
  [len |-> len, status |-> status, need |-> need, out |-> out,
   out_length |-> out_length, purged |-> purged]

\* read_queue accepts requests except while a purge has it closed.
QueueOpen == purge.pc # "drain"

FsccEvtIoRead(len) ==
  /\ issued < MaxReads /\ QueueOpen
  /\ issued' = issued + 1
  /\ IF len = 0
       THEN /\ completed' = Append(completed, Completion(0, "success", 0, <<>>, 0))
            /\ UNCHANGED <<read_queue2, process_read_dpc>>
       ELSE /\ read_queue2' = Append(read_queue2, len)
            /\ process_read_dpc' = TRUE
            /\ UNCHANGED completed
  /\ UNCHANGED <<device, ring, iframe_dpc, board_rx_spinlock, iframe, reader, ioctl>>


\* FsccProcessRead's condition for looking for a request at all.
ReadWorthwhile == fscc_user_next_read_size # 0 /\ (Streaming \/ frame_ready)

\* FsccProcessRead up to the unlock: look at the ring under the lock.
ProcessReadPeek(r) ==
  /\ process_read_dpc /\ reader[r].pc = "idle" /\ board_rx_spinlock = "free"
  /\ process_read_dpc' = FALSE
  /\ reader' = [reader EXCEPT ![r].pc = IF ReadWorthwhile THEN "retrieve" ELSE "idle"]
  /\ UNCHANGED <<device, ring, iframe_dpc, board_rx_spinlock, iframe, read_queue2, issued,
                 completed, ioctl>>

\* Then, without the lock, take the oldest waiting request.
RetrieveNextRequest(r) ==
  /\ reader[r].pc = "retrieve"
  /\ IF read_queue2 = <<>>
       THEN /\ reader' = [reader EXCEPT ![r] = IdleReader]
            /\ UNCHANGED read_queue2
       ELSE /\ reader' = [reader EXCEPT ![r].pc = "enter", ![r].len = Head(read_queue2)]
            /\ read_queue2' = Tail(read_queue2)
  /\ UNCHANGED <<device, ring, dpcs, board_rx_spinlock, iframe, issued, completed, ioctl>>

\* fscc_user_read_frame takes the lock and looks again: no frame, or one that
\* does not fit, fails the request.
ReadFrameRefuse(r) ==
  /\ reader[r].pc = "enter" /\ ~Streaming /\ board_rx_spinlock = "free"
  /\ frame_ready => buffer_requirement(frame_bytes) > reader[r].len
  /\ completed' = Append(completed,
       Completion(reader[r].len, "too_small",
                  IF frame_ready THEN buffer_requirement(frame_bytes) ELSE 0, <<>>, 0))
  /\ reader' = [reader EXCEPT ![r] = IdleReader]
  /\ UNCHANGED <<device, ring, dpcs, board_rx_spinlock, iframe, read_queue2, issued, ioctl>>


\* Mutant: what was copied of the previous frame still counts.
StartFrame_KeepsFilled(rd) == [rd EXCEPT !.pc = "copy", !.bytes = frame_bytes,
                                         !.valid = ValidData(frame_bytes)]

StartFrame(rd) == [rd EXCEPT !.pc = "copy", !.bytes = frame_bytes,
                             !.valid = ValidData(frame_bytes), !.filled = 0]

ReadFrameEnter(r) ==
  /\ reader[r].pc = "enter" /\ ~Streaming /\ board_rx_spinlock = "free"
  /\ frame_ready /\ buffer_requirement(frame_bytes) <= reader[r].len
  /\ board_rx_spinlock' = r
  /\ reader' = [reader EXCEPT ![r] = StartFrame(@)]
  /\ UNCHANGED <<device, ring, dpcs, iframe, read_queue2, issued, completed, ioctl>>

\* RtlCopyMemory of n bytes from the start of a descriptor's buffer.
CopyOut(d, n) == [j \in 1..n |-> IF j <= RxSize THEN d.buffer[j] ELSE Pad]

\* planned_move_size: of a frame's last descriptor what CNT says is left.
planned_move_size(d, filled) == IF Complete(d) THEN d.cnt - filled ELSE d.data_count


\* Mutants: the descriptor keeps its flags, or its timestamp.
ReleaseDesc_KeepsFlags(d) == [d EXCEPT !.timestamp = Empty]
ReleaseDesc_KeepsTimestamp(d) == CleanDesc(d)

\* Reading frees the descriptor: control, timestamp and the user's position.
ReleaseDesc(d) == [CleanDesc(d) EXCEPT !.timestamp = Empty]

\* One iteration of fscc_user_read_frame's loop.
ReadFrameDesc(r) ==
  /\ reader[r].pc = "copy"
  /\ LET rd      == reader[r]
         d       == rx_descriptors[user_rx_desc]
         planned == planned_move_size(d, rd.filled)
         real    == MinOf(planned, rd.valid)
         left    == IF planned > rd.bytes THEN 0 ELSE rd.bytes - planned
         stamp   == left = 0 /\ settings.append_timestamp
         time    == IF d.timestamp = Empty THEN Now ELSE d.timestamp
         last    == rd.i + 1 = RxNum
     IN /\ rx_descriptors' = [rx_descriptors EXCEPT ![user_rx_desc] = ReleaseDesc(d)]
        /\ user_rx_desc' = NextDesc(user_rx_desc)
        /\ reader' = [reader EXCEPT ![r] =
             [rd EXCEPT !.pc = IF left = 0 THEN "next" ELSE IF last THEN "done" ELSE "copy",
                        !.i = rd.i + 1,
                        !.bytes = left,
                        !.valid = rd.valid - real,
                        !.filled = rd.filled + real,
                        !.out = rd.out \o CopyOut(d, real)
                                       \o (IF stamp THEN << <<time, 0>> >> ELSE <<>>),
                        !.out_length = rd.out_length + real
                                       + (IF stamp THEN TimestampSize ELSE 0)]]
  /\ UNCHANGED <<device, fifo_rx_desc, rx_bytes_in_frame, rx_frame_size, dpcs,
                 board_rx_spinlock, iframe, read_queue2, issued, completed, ioctl>>


\* Mutant: the room taken by the frames before is forgotten.
FitsRest_Whole(rd, need) == need <= rd.len

\* buf_length - *out_length is unsigned: once out_length exceeds it the
\* difference wraps and nothing is too large for it.
FitsRest(rd, need) == rd.out_length > rd.len \/ need <= rd.len - rd.out_length

\* After a whole frame: with rx_multiple go on with the next one if it fits.
ReadNextFrame(r) ==
  /\ reader[r].pc = "next"
  /\ LET rd == reader[r]
         more == /\ settings.rx_multiple /\ frame_ready
                 /\ FitsRest(rd, buffer_requirement(frame_bytes))
                 /\ rd.i < RxNum
     IN reader' = [reader EXCEPT ![r] = IF more THEN StartFrame(rd)
                                                ELSE [rd EXCEPT !.pc = "done"]]
  /\ UNCHANGED <<device, ring, dpcs, board_rx_spinlock, iframe, read_queue2, issued,
                 completed, ioctl>>

\* fscc_user_read_stream takes the lock.
ReadStreamEnter(r) ==
  /\ reader[r].pc = "enter" /\ Streaming /\ board_rx_spinlock = "free"
  /\ board_rx_spinlock' = r
  /\ reader' = [reader EXCEPT ![r].pc = "stream"]
  /\ UNCHANGED <<device, ring, dpcs, iframe, read_queue2, issued, completed, ioctl>>


\* Mutant: the rest of the data stays where it was.
ConsumeDesc_NoMove(d, n) == [d EXCEPT !.data_count = d.data_count - n]

\* A descriptor of which n bytes were read, but not all: the rest moves up.
ConsumeDesc(d, n) ==
  [d EXCEPT !.buffer = [j \in 1..RxSize |-> IF j <= d.data_count - n THEN d.buffer[j + n]
                                                                     ELSE d.buffer[j]],
            !.data_count = d.data_count - n]

\* One iteration of fscc_user_read_stream's loop.
ReadStreamDesc(r) ==
  /\ reader[r].pc = "stream"
  /\ LET rd   == reader[r]
         d    == rx_descriptors[user_rx_desc]
         n    == MinOf(d.data_count, rd.len - rd.out_length)
         all  == n = d.data_count
         read == [rd EXCEPT !.i = rd.i + 1,
                            !.out = rd.out \o CopyOut(d, n),
                            !.out_length = rd.out_length + n]
     IN IF rd.i = RxNum \/ ~Finished(d)
          THEN /\ reader' = [reader EXCEPT ![r].pc = "done"]
               /\ UNCHANGED <<rx_descriptors, user_rx_desc>>
          ELSE /\ rx_descriptors' = [rx_descriptors EXCEPT ![user_rx_desc] =
                    IF all THEN [ReleaseDesc(d) EXCEPT !.data_count = RxSize]
                           ELSE ConsumeDesc(d, n)]
               /\ user_rx_desc' = IF all THEN NextDesc(user_rx_desc) ELSE user_rx_desc
               /\ reader' = [reader EXCEPT ![r] =
                    IF all THEN read ELSE [read EXCEPT !.pc = "done"]]
  /\ UNCHANGED <<device, fifo_rx_desc, rx_bytes_in_frame, rx_frame_size, dpcs,
                 board_rx_spinlock, iframe, read_queue2, issued, completed, ioctl>>

\* The lock is released and the request completed.
ReadComplete(r) ==
  /\ reader[r].pc = "done"
  /\ board_rx_spinlock' = "free"
  /\ completed' = Append(completed, Completion(reader[r].len, "success", 0, reader[r].out,
                                               reader[r].out_length))
  /\ reader' = [reader EXCEPT ![r] = IdleReader]
  /\ UNCHANGED <<device, ring, dpcs, iframe, read_queue2, issued, ioctl>>

-----------------------------------------------------------------------------
(* Ioctls: FSCC_PURGE_RX and the settings.  They come through a sequential *)
(* queue, so that one ends before the next one starts.                     *)

\* fscc_io_purge_rx disables the receiver; a frame on its way in is cut off.
PurgeBegin ==
  /\ purge.pc = "idle" /\ Len(purge.results) < MaxPurges
  /\ purge' = [purge EXCEPT !.pc = "reset"]
  /\ recd' = TRUE
  /\ line' = IF line.k > 0 /\ ~Streaming THEN [f |-> line.f + 1, k |-> 0] ELSE line
  /\ UNCHANGED <<rxfifo, bcfifo, clock, isr, ring, dpcs, board_rx_spinlock, iframe, user,
                 settings, purged>>


\* Mutant: reset descriptors keep their flags.
ResetDesc_KeepsFlags(d) == [d EXCEPT !.data_count = RxSize, !.timestamp = Empty]

ResetDesc(d) == [CleanDesc(d) EXCEPT !.data_count = RxSize, !.timestamp = Empty]


\* Mutant: the FIFO's position in the ring is not reset.
PurgeReset_KeepsFifoPosition ==
  /\ purge.pc = "reset" /\ board_rx_spinlock = "free"
  /\ purge' = [purge EXCEPT !.pc = "queues", !.timed_out = ~clock.on]
  /\ IF clock.on THEN rxfifo' = <<>> /\ bcfifo' = <<>> ELSE UNCHANGED <<rxfifo, bcfifo>>
  /\ rx_descriptors' = [i \in 0..(RxNum - 1) |-> ResetDesc(rx_descriptors[i])]
  /\ user_rx_desc' = 0
  /\ rx_bytes_in_frame' = 0 /\ rx_frame_size' = 0
  /\ purged' = line.f - 1
  /\ UNCHANGED <<line, recd, clock, isr, fifo_rx_desc, dpcs, board_rx_spinlock, iframe,
                 user, settings>>

\* fscc_io_reset_rx under the lock.  RRES is a command: without a clock
\* fscc_port_set_register gives up with STATUS_IO_TIMEOUT and sends nothing.
PurgeReset ==
  /\ purge.pc = "reset" /\ board_rx_spinlock = "free"
  /\ purge' = [purge EXCEPT !.pc = "queues", !.timed_out = ~clock.on]
  /\ IF clock.on THEN rxfifo' = <<>> /\ bcfifo' = <<>> ELSE UNCHANGED <<rxfifo, bcfifo>>
  /\ rx_descriptors' = [i \in 0..(RxNum - 1) |-> ResetDesc(rx_descriptors[i])]
  /\ user_rx_desc' = 0 /\ fifo_rx_desc' = 0
  /\ rx_bytes_in_frame' = 0 /\ rx_frame_size' = 0
  /\ purged' = line.f - 1
  /\ UNCHANGED <<line, recd, clock, isr, dpcs, board_rx_spinlock, iframe, user, settings>>

\* The queues are purged: waiting reads are cancelled, new ones turned away.
PurgeQueues ==
  /\ purge.pc = "queues"
  /\ purge' = [purge EXCEPT !.pc = "drain"]
  /\ read_queue2' = <<>>
  /\ completed' = completed \o [j \in 1..Len(read_queue2) |->
                                  Completion(read_queue2[j], "cancelled", 0, <<>>, 0)]
  /\ UNCHANGED <<device, ring, dpcs, board_rx_spinlock, iframe, reader, issued, settings,
                 purged>>

\* WdfIoQueuePurgeSynchronously returns when the driver holds no request of the
\* queue; then the queues restart, RECD is cleared and the ioctl succeeds.
PurgeFinish ==
  /\ purge.pc = "drain"
  /\ \A r \in Readers : reader[r].pc \in {"idle", "retrieve"}
  /\ recd' = FALSE
  /\ purge' = [purge EXCEPT !.pc = "idle",
                 !.results = Append(@, [status |-> "success", timed_out |-> purge.timed_out])]
  /\ UNCHANGED <<line, rxfifo, bcfifo, clock, isr, ring, dpcs, board_rx_spinlock, iframe,
                 user, settings, purged>>

\* FSCC_ENABLE_/DISABLE_ APPEND_STATUS, APPEND_TIMESTAMP, RX_MULTIPLE.
ToggleSetting(s) ==
  /\ purge.pc = "idle"
  /\ settings' = [settings EXCEPT ![s] = ~@]
  /\ UNCHANGED <<device, ring, dpcs, board_rx_spinlock, iframe, user, purge, purged>>

-----------------------------------------------------------------------------
Init ==
  /\ line = [f |-> 1, k |-> 0] /\ rxfifo = <<>> /\ bcfifo = <<>>
  /\ recd = FALSE /\ clock = [on |-> TRUE, outages |-> 0] /\ isr = FALSE
  /\ iframe_dpc = FALSE /\ process_read_dpc = FALSE /\ board_rx_spinlock = "free"
  /\ rx_descriptors = [i \in 0..(RxNum - 1) |->
       [flags |-> {}, cnt |-> 0, data_count |-> RxSize, timestamp |-> Empty,
        buffer |-> [j \in 1..RxSize |-> Pad]]]
  /\ user_rx_desc = 0 /\ fifo_rx_desc = 0
  /\ rx_bytes_in_frame = 0 /\ rx_frame_size = 0
  /\ iframe = [pc |-> "idle", i |-> 0, pace |-> 0]
  /\ reader = [r \in Readers |-> IdleReader]
  /\ read_queue2 = <<>> /\ issued = 0 /\ completed = <<>>
  /\ settings \in InitialSettings
  /\ purge = [pc |-> "idle", timed_out |-> FALSE, results |-> <<>>] /\ purged = 0

IframeStep == FifoSample \/ FifoStore \/ IframeDone

Locking(r) == ReadFrameRefuse(r) \/ ReadFrameEnter(r) \/ ReadStreamEnter(r)
Copying(r) == ReadFrameDesc(r) \/ ReadNextFrame(r) \/ ReadStreamDesc(r) \/ ReadComplete(r)
ReaderStep(r) == ProcessReadPeek(r) \/ RetrieveNextRequest(r) \/ Locking(r) \/ Copying(r)

PurgeStep == PurgeBegin \/ PurgeReset \/ PurgeQueues \/ PurgeFinish

Next ==
  \/ \E n \in Arrivals : LineArrive(n)
  \/ LineLost
  \/ ClockChange
  \/ fscc_isr
  \/ timer_handler
  \/ IframeStart
  \/ IframeStep
  \/ \E len \in ReadLens : FsccEvtIoRead(len)
  \/ \E r \in Readers : ReaderStep(r)
  \/ PurgeStep
  \/ \E s \in Toggles : ToggleSetting(s)

Spec == Init /\ [][Next]_vars

\* The timer fires for ever, queued DPCs run, code under a spin lock ends, and
\* whoever waits for the lock gets it although others take it again and again.
Fairness ==
  /\ WF_vars(fscc_isr) /\ WF_vars(timer_handler)
  /\ SF_vars(IframeStart) /\ WF_vars(IframeStep)
  /\ SF_vars(PurgeReset) /\ WF_vars(PurgeQueues) /\ WF_vars(PurgeFinish)
  /\ \A r \in Readers : /\ SF_vars(ProcessReadPeek(r)) /\ WF_vars(RetrieveNextRequest(r))
                        /\ SF_vars(Locking(r)) /\ WF_vars(Copying(r))

FairSpec == Spec /\ Fairness

-----------------------------------------------------------------------------
(* Properties.                                                             *)

Byte == Nat \X Nat
Desc == [flags : SUBSET {"FE", "CSTOP"}, cnt : Nat, data_count : 0..RxSize,
         timestamp : Nat, buffer : [1..RxSize -> Byte]]
ReaderState ==
  [pc : {"idle", "retrieve", "enter", "copy", "next", "stream", "done"},
   len : Nat, i : 0..RxNum, bytes : Nat, valid : Nat, filled : Nat,
   out : Seq(Byte), out_length : Nat]

TypeDevice ==
  /\ line \in [f : Nat \ {0}, k : Nat] /\ rxfifo \in Seq(Byte) /\ bcfifo \in Seq(Nat)
  /\ clock \in [on : BOOLEAN, outages : Nat]
TypeFlags ==
  /\ recd \in BOOLEAN /\ isr \in BOOLEAN
  /\ iframe_dpc \in BOOLEAN /\ process_read_dpc \in BOOLEAN
TypeRing ==
  /\ rx_descriptors \in [0..(RxNum - 1) -> Desc]
  /\ user_rx_desc \in 0..(RxNum - 1) /\ fifo_rx_desc \in 0..(RxNum - 1)
  /\ rx_bytes_in_frame \in Nat /\ rx_frame_size \in Nat
TypeDpc ==
  /\ board_rx_spinlock \in {"free", "iframe"} \cup Readers
  /\ iframe \in [pc : {"idle", "scan", "store", "exit"}, i : 0..RxNum, pace : Nat]
TypeUser ==
  /\ reader \in [Readers -> ReaderState]
  /\ read_queue2 \in Seq(Nat) /\ issued \in Nat
TypeIoctl ==
  /\ settings \in [SettingNames -> BOOLEAN]
  /\ purge \in [pc : {"idle", "reset", "queues", "drain"}, timed_out : BOOLEAN,
                results : Seq([status : {"success"}, timed_out : BOOLEAN])]
  /\ purged \in Nat

\* Type invariant of the state kept in struct fscc_port and by its DPCs: in
\* particular the ring positions are always indices of rx_descriptors, and the
\* unsigned counters of fscc_user_read_frame never go below zero.
TypeOK == TypeDevice /\ TypeFlags /\ TypeRing /\ TypeDpc /\ TypeUser /\ TypeIoctl

\* The finished descriptors are exactly those from the user's position up to the
\* FIFO's: neither fscc_fifo_read_data nor the readers ever leave a hole, lap
\* each other or touch a descriptor that the other side owns.
RingOwnership ==
  \E n \in 0..RxNum :
    /\ fifo_rx_desc = Ahead(n)
    /\ \A k \in 0..(RxNum - 1) : Finished(rx_descriptors[Ahead(k)]) <=> k < n

\* The holder of board_rx_spinlock is the one execution inside its critical section.
LockOwnership ==
  /\ board_rx_spinlock = "iframe" <=> iframe.pc # "idle"
  /\ \A r \in Readers :
       board_rx_spinlock = r <=> reader[r].pc \in {"copy", "next", "stream", "done"}

\* FE is never set alone; an open descriptor has room; frame sizes are those the
\* card reports, which count at least the status bytes.
DescInv ==
  /\ \A i \in 0..(RxNum - 1) :
       LET d == rx_descriptors[i]
       IN /\ "FE" \in d.flags => "CSTOP" \in d.flags /\ d.cnt >= StatusBytes
          /\ "CSTOP" \notin d.flags => d.cnt <= RxSize
  /\ \A j \in 1..Len(bcfifo) : bcfifo[j] >= StatusBytes
  /\ rx_frame_size = 0 \/ rx_frame_size >= StatusBytes
  /\ iframe.pc = "store" => /\ iframe.i < RxNum
                            /\ "CSTOP" \notin rx_descriptors[fifo_rx_desc].flags

\* While a frame is copied, its last descriptor is ahead in the ring and holds at
\* least as much as is still wanted, so the copy ends there at the latest.
CopyInv ==
  \A r \in Readers :
    /\ reader[r].pc = "copy" =>
         /\ reader[r].i < RxNum
         /\ \E k \in 0..(RxNum - 1) :
              /\ FrameEndsAt(k)
              /\ rx_descriptors[Ahead(k)].cnt - reader[r].filled >= reader[r].bytes
    /\ reader[r].pc = "stream" => reader[r].out_length <= reader[r].len
    /\ reader[r].pc \in {"idle", "retrieve", "enter"} =>
         reader[r].i = 0 /\ reader[r].out_length = 0

Successes == {i \in 1..Len(completed) : completed[i].status = "success"}

\* Everything handed to applications, in the order of the copies.
Delivered ==
  LET upto[i \in 0..Len(completed)] ==
        IF i = 0 THEN <<>> ELSE upto[i - 1] \o completed[i].out
  IN upto[Len(completed)]

\* Item x may be the last data byte of what a read returns of a frame.
EndsFrame(x) ==
  \/ x[2] = Traffic[x[1]] /\ (settings.append_status \/ "append_status" \in Toggles)
  \/ x[2] = Traffic[x[1]] - StatusBytes
       /\ (~settings.append_status \/ "append_status" \in Toggles)

\* x ends the copy of frame f, as its last byte or as its timestamp.
ClosesFrame(out, j) ==
  \/ out[j][2] > 0 /\ EndsFrame(out[j])
       /\ (~settings.append_timestamp \/ "append_timestamp" \in Toggles)
  \/ out[j][2] = 0 /\ j > 1 /\ out[j - 1][2] > 0 /\ EndsFrame(out[j - 1])
       /\ (settings.append_timestamp \/ "append_timestamp" \in Toggles)

\* Every successful read in a framed mode returns whole frames as they were on
\* the line: each starts at its first byte, goes on byte by byte to its last one
\* (with or without the status bytes, as set) and is followed by its timestamp
\* when that is on.  This is what the CSTOP/FE bookkeeping across descriptors,
\* fifo words and reads is for.
FramesIntact ==
  ~Streaming =>
    \A i \in Successes :
      LET out == completed[i].out
      IN \A j \in 1..Len(out) :
           /\ j = 1 => out[j][2] = 1
           /\ j = Len(out) => ClosesFrame(out, j)
           /\ j < Len(out) =>
                \/ out[j][2] > 0 /\ out[j + 1] = <<out[j][1], out[j][2] + 1>>
                \/ out[j][2] > 0 /\ EndsFrame(out[j]) /\ out[j + 1][2] = 0
                \/ ClosesFrame(out, j) /\ out[j + 1][2] = 1

\* Frames reach the applications in the order of the line, each at most once, and
\* without a gap as long as nothing was purged.
FramesInOrder ==
  ~Streaming =>
    /\ \A i, k \in 1..Len(completed) :
         \A j \in 1..Len(completed[i].out), l \in 1..Len(completed[k].out) :
           LET x == completed[i].out[j]
               y == completed[k].out[l]
           IN (i < k \/ (i = k /\ j < l)) /\ x[2] = 1 /\ y[2] = 1 => x[1] < y[1]
    /\ purge.results = <<>> /\ purge.pc = "idle" =>
         \A i \in 1..Len(completed) : \A j \in 1..Len(completed[i].out) :
           LET x == completed[i].out[j]
           IN x[2] = 1 /\ x[1] > 1 =>
                \E k \in 1..Len(completed) : \E l \in 1..Len(completed[k].out) :
                  completed[k].out[l] = <<x[1] - 1, 1>>

\* In a streaming mode the reads return the bytes of the line one after another.
StreamInOrder ==
  Streaming => \A j \in 1..Len(Delivered) : Delivered[j] = <<1, j>>

\* A timestamp is taken when its frame has been received completely
\* (docs/append-timestamp.md: "upon complete reception of a frame").
TimestampAfterReception ==
  \A i \in Successes : \A j \in 2..Len(completed[i].out) :
    LET out == completed[i].out
    IN out[j][2] = 0 /\ out[j - 1][2] > 0 => out[j][1] > out[j - 1][1]

\* A read never returns more than the application has room for.
ReadFitsBuffer == \A i \in Successes : completed[i].out_length <= completed[i].len

\* A read fails with STATUS_BUFFER_TOO_SMALL only if there is a next frame and it
\* does not fit (docs/read.md: "The buffer size is smaller than the next frame").
\* What another execution takes between a reader's two looks breaks it:
\* rx_too_small.cfg, README section 5.
TooSmallOnlyWhenSmall ==
  \A i \in 1..Len(completed) :
    completed[i].status = "too_small" => completed[i].len < completed[i].need

\* What had been received when a purge reset the ring is never delivered later, as
\* long as the card executed every reset (without a clock RRES is dropped).
PurgeDiscards ==
  (~purge.timed_out /\ \A k \in 1..Len(purge.results) : ~purge.results[k].timed_out) =>
    \A i \in Successes : \A j \in 1..Len(completed[i].out) :
      completed[i].out[j][1] > completed[i].purged

\* A purge whose receiver reset was not carried out for want of a clock says so
\* (docs/purge.md: "Command timed out (missing clock)").
PurgeReportsTimeout ==
  \A i \in 1..Len(purge.results) :
    purge.results[i].timed_out => purge.results[i].status = "timeout"

DataWaiting ==
  IF Streaming THEN Finished(rx_descriptors[user_rx_desc]) \/ fscc_io_get_RXCNT >= RxSize
               ELSE frame_ready \/ rx_frame_size # 0 \/ bcfifo # <<>>

\* A read does not wait for ever while there is something for it to return: DPCs
\* that coalesce, a full ring and a FIFO nobody looks at are all recovered from.
NoStall == []<>~(read_queue2 # <<>> /\ DataWaiting)
==============================================================================
