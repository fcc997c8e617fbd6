------------------------------ MODULE FsccDma -------------------------------
(***************************************************************************)
(* The data paths with DMA.  The two engines of the card follow the        *)
(* descriptor rings in memory while the driver fills, empties and resets   *)
(* them; the spin locks keep the driver's own threads apart, never the     *)
(* engines.  The engines are external: modelled from the control bits the  *)
(* driver sets and expects.  An engine works on the descriptor it is at    *)
(* until it meets one whose CSTOP bit is set, then it stops and DSTAR      *)
(* shows it idle.                                                          *)
(***************************************************************************)
EXTENDS Integers, FiniteSets, Sequences

CONSTANTS
  TxNum, RxNum,   \* memory.tx_num, memory.rx_num
  Writes,         \* per writer, the sizes (in descriptors) of the frames it writes
  Arrivals,       \* sizes of the frames that arrive
  Reads,          \* read requests made
  Purges,         \* FSCC_PURGE_TX and FSCC_PURGE_RX calls made
  AtomicStop      \* DSTAR shows the engine idle as soon as it is at a CSTOP

ASSUME DmaAssumption ==
  /\ TxNum \in Nat \ {0, 1} /\ RxNum \in Nat \ {0, 1}
  /\ \A w \in DOMAIN Writes : Writes[w] \in Seq(1..TxNum)
  /\ Arrivals \in Seq(1..RxNum) /\ Reads \in Nat /\ Purges \in Nat
  /\ AtomicStop \in BOOLEAN

Writers == DOMAIN Writes
TxFree == [frame |-> 0, part |-> 0]                             \* CSTOP is set
RxFree == [frame |-> 0, part |-> 0, end |-> FALSE, at |-> 0]    \* CSTOP is not set
None == "none"

VARIABLES
  \* transmitter
  tx,             \* the ring: TxFree, or [frame, part] in HI state
  user_tx_desc,   \* next descriptor to fill
  writer,         \* per writer: pc, writes begun, its frame, parts left, start_desc
  txlock,         \* holder of board_tx_spinlock, or None
  engineT,        \* [run, at, seen]
  txbase,         \* DMA_TX_BASE
  sent,           \* parts on the line
  frameNum,       \* frames accepted so far: the name of the next
  discarded,      \* history: the last frame accepted before a purge of the transmitter
  \* receiver
  rx,             \* the ring: RxFree, or [frame, part, end, at] with CSTOP
  stamp,          \* per descriptor: 0 when empty, or when it was taken
  user_rx_desc,   \* next descriptor to read
  engineR,        \* [run, at, seen]
  arriving,       \* [frame, part]: what the line brings next
  clock,          \* parts received so far: the time
  dpcs,           \* DPCs queued
  reads,          \* requests in read_queue2
  got,            \* frames returned: [parts, stamp, at]: at is when the frame had arrived
  \* purges
  purge           \* [tx, rx: "idle" or "base"; left]

txvars == <<tx, user_tx_desc, writer, txlock, engineT, txbase, sent, frameNum, discarded>>
rxvars == <<rx, stamp, user_rx_desc, engineR, arriving, clock, dpcs, reads, got>>
vars == <<txvars, rxvars, purge>>

NextTx(i) == (i + 1) % TxNum

NextRx(i) == (i + 1) % RxNum

\* Where the engine goes on.  If AtomicStop, DSTAR shows it running only at a
\* descriptor without CSTOP.  Otherwise it fetches the control word, and DSTAR shows
\* it idle some time later (seen: it has fetched a CSTOP).
At(i, ring) == [run |-> (AtomicStop => ring[i] # TxFree), at |-> i, seen |-> FALSE]

\* After STOP and RST, and after the receiver's GO with the base at descriptor 0.
Stopped == [run |-> FALSE, at |-> 0, seen |-> FALSE]
Going   == [run |-> TRUE, at |-> 0, seen |-> FALSE]

-----------------------------------------------------------------------------
(* FsccEvtIoWrite and request_worker with fscc_user_write_frame.           *)

Space == Cardinality({k \in 1..TxNum : \A j \in 0..(k - 1) : tx[(user_tx_desc + j) % TxNum] = TxFree})
Size(w) == Writes[w][writer[w].done + 1]

\* fscc_user_get_tx_space: a write without room is refused, a blocking one waits.
WriteCheck(w) ==
  /\ writer[w].pc = "idle" /\ writer[w].done < Len(Writes[w])
  /\ \/ /\ Space >= Size(w)
        /\ writer' = [writer EXCEPT ![w].pc = "lock"]
     \/ /\ Space < Size(w) /\ w = "write"
        /\ writer' = [writer EXCEPT ![w].done = @ + 1]
  /\ UNCHANGED <<tx, user_tx_desc, txlock, engineT, txbase, sent, frameNum, discarded, rxvars, purge>>

WriteLock(w) ==
  /\ writer[w].pc = "lock" /\ txlock = None
  /\ txlock' = w /\ frameNum' = frameNum + 1
  /\ writer' = [writer EXCEPT ![w] = [@ EXCEPT !.pc = "fill", !.frame = frameNum,
                                               !.left = Size(w), !.start = user_tx_desc]]
  /\ UNCHANGED <<tx, user_tx_desc, engineT, txbase, sent, discarded, rxvars, purge>>

\* One descriptor, or the end of the loop when it is not free.
WriteFill(w) ==
  /\ writer[w].pc = "fill"
  /\ LET last == tx[user_tx_desc] # TxFree \/ writer[w].left = 1
     IN /\ \/ /\ tx[user_tx_desc] = TxFree
              /\ tx' = [tx EXCEPT ![user_tx_desc] =
                          [frame |-> writer[w].frame, part |-> Size(w) - writer[w].left + 1]]
              /\ user_tx_desc' = NextTx(user_tx_desc)
           \/ /\ tx[user_tx_desc] # TxFree
              /\ UNCHANGED <<tx, user_tx_desc>>
        /\ writer' = [writer EXCEPT ![w].left = @ - 1, ![w].pc = IF last THEN "test" ELSE "fill"]
        /\ txlock' = IF last THEN None ELSE txlock
  /\ UNCHANGED <<engineT, txbase, sent, frameNum, discarded, rxvars, purge>>

Finished(w) == [writer[w] EXCEPT !.pc = "idle", !.done = @ + 1]

\* fscc_dma_is_tx_running; then the base register; then GO_T.
WriteTest(w) ==
  /\ writer[w].pc = "test"
  /\ writer' = [writer EXCEPT ![w] = IF engineT.run THEN Finished(w) ELSE [@ EXCEPT !.pc = "base"]]
  /\ UNCHANGED <<tx, user_tx_desc, txlock, engineT, txbase, sent, frameNum, discarded, rxvars, purge>>

WriteBase(w) ==
  /\ writer[w].pc = "base"
  /\ txbase' = writer[w].start
  /\ writer' = [writer EXCEPT ![w].pc = "go"]
  /\ UNCHANGED <<tx, user_tx_desc, txlock, engineT, sent, frameNum, discarded, rxvars, purge>>

fscc_io_execute_transmit(w) ==
  /\ writer[w].pc = "go"
  /\ engineT' = At(txbase, tx)
  /\ writer' = [writer EXCEPT ![w] = Finished(w)]
  /\ UNCHANGED <<tx, user_tx_desc, txlock, txbase, sent, frameNum, discarded, rxvars, purge>>

-----------------------------------------------------------------------------
(* The transmit engine (external).                                         *)

EngineTransmit ==
  /\ engineT.run
  /\ LET i      == engineT.at
         filled == tx[i] # TxFree /\ ~engineT.seen
     IN /\ tx'      = IF filled THEN [tx EXCEPT ![i] = TxFree] ELSE tx
        /\ sent'    = IF filled THEN Append(sent, tx[i]) ELSE sent
        /\ engineT' = IF filled THEN At(NextTx(i), tx')
                                ELSE [engineT EXCEPT !.run = ~engineT.seen, !.seen = TRUE]
  /\ UNCHANGED <<user_tx_desc, writer, txlock, txbase, frameNum, discarded, rxvars, purge>>

-----------------------------------------------------------------------------
(* The receive engine (external), the interrupt and the workers.           *)

\* One descriptor of a frame is complete.  The last one raises RFE, for which
\* fscc_isr queues timestamp_worker and FsccProcessRead.
EngineReceive ==
  /\ engineR.run /\ arriving.frame <= Len(Arrivals) /\ rx[engineR.at] = RxFree
  /\ LET end == arriving.part = Arrivals[arriving.frame]
     IN /\ rx' = [rx EXCEPT ![engineR.at] =
                    [frame |-> arriving.frame, part |-> arriving.part, end |-> end,
                     at |-> clock + 1]]
        /\ arriving' = IF end THEN [frame |-> arriving.frame + 1, part |-> 1]
                              ELSE [arriving EXCEPT !.part = @ + 1]
        /\ dpcs' = IF end THEN dpcs \cup {"timestamp", "read"} ELSE dpcs
  /\ engineR' = [engineR EXCEPT !.at = NextRx(@)]
  /\ clock' = clock + 1
  /\ UNCHANGED <<stamp, user_rx_desc, reads, got, txvars, purge>>

\* The next descriptor still belongs to the user: the engine stops.
EngineFull ==
  /\ engineR.run /\ rx[engineR.at] # RxFree
  /\ engineR' = [engineR EXCEPT !.run = FALSE]
  /\ UNCHANGED <<rx, stamp, user_rx_desc, arriving, clock, dpcs, reads, got, txvars, purge>>

\* Mutant: the timer leaves the reads to the interrupts.
timer_handler_Idle == FALSE /\ UNCHANGED vars

\* timer_handler: FsccProcessRead once per period.  (request_dpc finds the blocking
\* writer ready whenever it can go on.)
timer_handler ==
  /\ "read" \notin dpcs /\ reads > 0
  /\ dpcs' = dpcs \cup {"read"}
  /\ UNCHANGED <<rx, stamp, user_rx_desc, engineR, arriving, clock, reads, got, txvars, purge>>

\* The k-th descriptor from user_rx_desc, and how many are finished without a gap.
User(k) == (user_rx_desc + k) % RxNum
FinishedRun == {k \in 0..(RxNum - 1) : \A j \in 0..k : rx[User(j)] # RxFree}

\* Mutant: stamps a descriptor whatever its control bits.
fscc_dma_apply_timestamps_All ==
  stamp' = [i \in 0..(RxNum - 1) |-> IF stamp[i] = 0 THEN clock ELSE stamp[i]]

fscc_dma_apply_timestamps ==
  stamp' = [i \in 0..(RxNum - 1) |->
              IF stamp[i] = 0 /\ \E k \in FinishedRun : i = User(k) THEN clock ELSE stamp[i]]

timestamp_worker ==
  /\ "timestamp" \in dpcs
  /\ dpcs' = dpcs \ {"timestamp"}
  /\ fscc_dma_apply_timestamps
  /\ UNCHANGED <<rx, user_rx_desc, engineR, arriving, clock, reads, got, txvars, purge>>

\* fscc_user_next_read_size: the descriptors up to the end of a finished frame.
Ends == {k \in FinishedRun : rx[User(k)].end}

\* Mutant: a descriptor with CSTOP alone counts as the end of a frame.
FrameLength_AnyStop == 1

FrameLength == 1 + (CHOOSE k \in Ends : \A j \in Ends : k <= j)

FsccEvtIoRead ==
  /\ Len(got) + reads < Reads
  /\ reads' = reads + 1 /\ dpcs' = dpcs \cup {"read"}
  /\ UNCHANGED <<rx, stamp, user_rx_desc, engineR, arriving, clock, got, txvars, purge>>

\* FsccProcessRead with fscc_user_read_frame, under board_rx_spinlock: one request
\* gets one frame, or waits on.  A stamp still empty is taken now.
FsccProcessRead ==
  /\ "read" \in dpcs
  /\ dpcs' = dpcs \ {"read"}
  /\ \/ /\ reads > 0 /\ Ends # {}
        /\ LET n     == FrameLength
               last  == User(n - 1)
               taken == {User(k) : k \in 0..(n - 1)}
           IN /\ got' = Append(got,
                   [parts |-> [k \in 1..n |-> [frame |-> rx[User(k - 1)].frame,
                                               part |-> rx[User(k - 1)].part]],
                    stamp |-> IF stamp[last] = 0 THEN clock ELSE stamp[last],
                    at    |-> rx[last].at])
              /\ rx' = [i \in 0..(RxNum - 1) |-> IF i \in taken THEN RxFree ELSE rx[i]]
              /\ stamp' = [i \in 0..(RxNum - 1) |-> IF i \in taken THEN 0 ELSE stamp[i]]
              /\ user_rx_desc' = User(n)
        /\ reads' = reads - 1
     \/ /\ reads = 0 \/ Ends = {}
        /\ UNCHANGED <<rx, stamp, user_rx_desc, reads, got>>
  /\ UNCHANGED <<engineR, arriving, clock, txvars, purge>>

-----------------------------------------------------------------------------
(* The purges.                                                             *)

\* Mutant: the engine is stopped, its descriptors keep what they hold.
fscc_io_purge_tx_KeepsRing ==
  /\ purge.tx = "idle" /\ purge.left > 0 /\ txlock = None
  /\ purge' = [purge EXCEPT !.tx = "base", !.left = @ - 1]
  /\ user_tx_desc' = 0
  /\ engineT' = Stopped
  /\ discarded' = frameNum - 1
  /\ UNCHANGED <<tx, writer, txlock, txbase, sent, frameNum, rxvars>>

\* fscc_io_reset_tx: STOP_T, TRES and RST_T, every descriptor free.  What is in
\* the transmitter is cut off.
fscc_io_purge_tx ==
  /\ purge.tx = "idle" /\ purge.left > 0 /\ txlock = None
  /\ purge' = [purge EXCEPT !.tx = "base", !.left = @ - 1]
  /\ tx' = [i \in 0..(TxNum - 1) |-> TxFree]
  /\ user_tx_desc' = 0
  /\ engineT' = Stopped
  /\ discarded' = frameNum - 1
  /\ UNCHANGED <<writer, txlock, txbase, sent, frameNum, rxvars>>

\* After the lock is released: the base register.
PurgeTxBase ==
  /\ purge.tx = "base"
  /\ txbase' = 0
  /\ purge' = [purge EXCEPT !.tx = "idle"]
  /\ UNCHANGED <<tx, user_tx_desc, writer, txlock, engineT, sent, frameNum, discarded, rxvars>>

\* fscc_io_reset_rx: STOP_R, RRES and RST_R; a frame that is coming in is lost.
fscc_io_purge_rx ==
  /\ purge.rx = "idle" /\ purge.left > 0
  /\ purge' = [purge EXCEPT !.rx = "base", !.left = @ - 1]
  /\ rx' = [i \in 0..(RxNum - 1) |-> RxFree] /\ stamp' = [i \in 0..(RxNum - 1) |-> 0]
  /\ user_rx_desc' = 0
  /\ engineR' = Stopped
  /\ arriving' = IF arriving.part = 1 THEN arriving
                                      ELSE [frame |-> arriving.frame + 1, part |-> 1]
  /\ UNCHANGED <<clock, dpcs, reads, got, txvars>>

\* After the lock is released: the base register and GO_R, and the waiting reads
\* are cancelled.  With RECD set until then, the line brings nothing.
PurgeRxStart ==
  /\ purge.rx = "base"
  /\ purge' = [purge EXCEPT !.rx = "idle"]
  /\ engineR' = Going
  /\ reads' = 0
  /\ UNCHANGED <<rx, stamp, user_rx_desc, arriving, clock, dpcs, got, txvars>>

-----------------------------------------------------------------------------
(* The specification.  PrepareHardware has purged both directions.         *)

Init ==
  /\ tx = [i \in 0..(TxNum - 1) |-> TxFree] /\ user_tx_desc = 0
  /\ writer = [w \in Writers |-> [pc |-> "idle", done |-> 0, frame |-> 0, left |-> 0, start |-> 0]]
  /\ txlock = None /\ engineT = Stopped
  /\ txbase = 0 /\ sent = << >> /\ frameNum = 1 /\ discarded = 0
  /\ rx = [i \in 0..(RxNum - 1) |-> RxFree] /\ stamp = [i \in 0..(RxNum - 1) |-> 0]
  /\ user_rx_desc = 0 /\ engineR = Going
  /\ arriving = [frame |-> 1, part |-> 1] /\ clock = 0
  /\ dpcs = {} /\ reads = 0 /\ got = << >>
  /\ purge = [tx |-> "idle", rx |-> "idle", left |-> Purges]

Write(w) ==
  \/ WriteCheck(w) \/ WriteLock(w) \/ WriteFill(w)
  \/ WriteTest(w) \/ WriteBase(w) \/ fscc_io_execute_transmit(w)

Engines == EngineTransmit \/ EngineReceive \/ EngineFull

Next ==
  \/ \E w \in Writers : Write(w)
  \/ Engines
  \/ timer_handler \/ timestamp_worker \/ FsccEvtIoRead \/ FsccProcessRead
  \/ fscc_io_purge_tx \/ PurgeTxBase \/ fscc_io_purge_rx \/ PurgeRxStart

\* The card runs by itself, the timer fires, the system runs DPCs and lets a
\* handler that has started go on.  Nothing makes the line or the user act.
Fairness ==
  /\ WF_vars(EngineTransmit)
  /\ WF_vars(timer_handler) /\ WF_vars(FsccProcessRead) /\ WF_vars(timestamp_worker)
  /\ \A w \in Writers : WF_vars(writer[w].pc # "idle" /\ Write(w))
  /\ WF_vars(PurgeTxBase) /\ WF_vars(PurgeRxStart)

Spec == Init /\ [][Next]_vars /\ Fairness

-----------------------------------------------------------------------------
(* Correctness.                                                            *)

TypeOK ==
  /\ user_tx_desc \in 0..(TxNum - 1) /\ user_rx_desc \in 0..(RxNum - 1)
  /\ txbase \in 0..(TxNum - 1) /\ engineT.at \in 0..(TxNum - 1) /\ engineR.at \in 0..(RxNum - 1)
  /\ dpcs \subseteq {"timestamp", "read"} /\ reads \in 0..Reads /\ stamp \in [0..(RxNum - 1) -> 0..clock]
  /\ txlock \in Writers \cup {None} /\ purge.left \in 0..Purges /\ discarded < frameNum
  /\ \A w \in Writers : writer[w].pc \in {"idle", "lock", "fill", "test", "base", "go"}

\* When no write is under way and the engine is idle, no frame is left in the ring:
\* the test of DSTAR after the frame is in place misses no engine that has stopped.
\* It does not hold of the code: two writers, a frame of two descriptors, a slow DSTAR
\* or a purge that overlaps a write each refute it (dma_two_writers).
NothingLeftBehind ==
  (\A w \in Writers : writer[w].pc = "idle") /\ ~engineT.run =>
    \A i \in 0..(TxNum - 1) : tx[i] = TxFree

\* A read returns all the descriptors of one frame, and nothing else, whatever the
\* engine writes meanwhile.
ReadsWhole ==
  \A i \in 1..Len(got) :
    LET f == got[i].parts[1].frame
    IN got[i].parts = [k \in 1..Arrivals[f] |-> [frame |-> f, part |-> k]]

\* A frame's timestamp was taken after the frame had arrived and is not one of an
\* earlier user of the descriptor.
StampedAfterArrival == \A i \in 1..Len(got) : got[i].stamp >= got[i].at

\* Nothing of a frame that a purge of the transmitter threw away is sent afterwards,
\* although writes that are under way start the engine behind the purge's back and the
\* base register is set outside the lock.  (A write that has no lock yet
\* when the purge comes is a new frame.)
PurgedStaysUnsent ==
  [][Len(sent') > Len(sent) => sent'[Len(sent')].frame > discarded]_vars

\* The frames of a set of descriptors' contents, in the order they were accepted.
InOrder(frames) ==
  CHOOSE s \in [1..Cardinality(frames) -> frames] :
    \A i, j \in 1..Cardinality(frames) : i < j => s[i] < s[j]

\* The receiver is a queue of frames, from the last descriptor of a frame on.
EndFrames(ring) == {ring[i].frame : i \in {j \in 0..(RxNum - 1) : ring[j] # RxFree /\ ring[j].end}}
rxqueue == InOrder(EndFrames(rx))
rxout   == [i \in 1..Len(got) |-> got[i].parts[1].frame]
RxQueue == INSTANCE FsccFrameQueue WITH
  Frame <- 1..Len(Arrivals), queue <- rxqueue, out <- rxout
RxIsQueue == RxQueue!Ordered

\* A request does not wait for ever while a frame is ready, although one interrupt
\* may stand for several frames and FsccProcessRead serves one request.
ReadsServed == (reads > 0 /\ Ends # {}) ~> (reads = 0 \/ Ends = {})

\* The receiver goes on after the user has read: the engine is not idle for ever.
ReceiverResumes == []<>engineR.run
=============================================================================
