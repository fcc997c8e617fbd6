---------------------------- MODULE FsccTxProofs ----------------------------
(***************************************************************************)
(* Proofs about FsccTx, for every ring size, descriptor size, FIFO size,   *)
(* set of write lengths, and any number of overlapping oframe_workers and  *)
(* request_workers: the state is consistent, every request is answered     *)
(* once, and what goes out is intact and in order.                         *)
(***************************************************************************)
EXTENDS FsccTx, SequenceTheorems, WellFoundedInduction, TLAPS

\* A request that was let in: it has data and fits into an empty ring.
Accepted(lens, w) == w \in 1..Len(lens) /\ lens[w] > 0 /\ ~OverCap(lens[w])

\* The card: the FIFO holds whole words.
DeviceInv ==
  /\ txfifo \in Seq(Byte) /\ Len(txfifo) % 4 = 0
  /\ bcfifo \in Seq(Nat) /\ wire \in [xf : BOOLEAN, out : Seq(Byte)]
  /\ clock \in [on : BOOLEAN, outages : Nat] /\ isr \subseteq {"TFT", "ALLS"}

DpcInv == {oframe_dpc, alls_dpc, request_dpc} \subseteq BOOLEAN

LockInv == board_tx_spinlock \in {"free"} \cup Writers \cup Oframes

RingInv ==
  /\ tx_descriptors \in [0..(TxNum - 1) -> Desc]
  /\ user_tx_desc \in 0..(TxNum - 1) /\ fifo_tx_desc \in 0..(TxNum - 1)
  /\ TxRingOwnership

OframeInv == oframe \in [Oframes -> OframeState]

\* Whatever waits was asked for, and what waits for room was let in.
QueueInv ==
  /\ blocking_request_queue \in Seq(Nat) /\ write_queue2 \in Seq(Nat) /\ issued \in Seq(Nat)
  /\ \A j \in 1..Len(blocking_request_queue) : Accepted(issued, blocking_request_queue[j])
  /\ \A j \in 1..Len(write_queue2) : write_queue2[j] \in 1..Len(issued)

\* A busy thread works on a request that was let in: it starts with its first byte
\* in its first descriptor, and while it copies something is left to copy and fewer
\* descriptors were used than the ring has.
WriterInv ==
  /\ writer \in [Writers -> WriterState]
  /\ \A a \in Writers :
       /\ writer[a].pc # "idle" => Accepted(issued, writer[a].w)
       /\ writer[a].pc \in {"retrieve", "lock"} => writer[a].i = 0 /\ writer[a].out_length = 0
       /\ writer[a].pc = "copy" => /\ writer[a].i < TxNum
                                   /\ writer[a].out_length < issued[writer[a].w]

IoctlInv ==
  /\ settings \in [SettingNames -> BOOLEAN]
  /\ purge \in [pc : {"idle", "queues", "drain"}, purges : Nat] /\ purged \subseteq Nat

\* The inductive invariant.
IndInv ==
  /\ DeviceInv /\ DpcInv /\ LockInv /\ RingInv /\ OframeInv /\ QueueInv /\ WriterInv
  /\ IoctlInv

-----------------------------------------------------------------------------
(* Geometry of the ring.                                                   *)

Ring == 0..(TxNum - 1)

\* Arithmetic on distances.
LEMMA RingFacts ==
  /\ TxNum \in Nat /\ 0 \in Ring /\ 0 \in 0..TxNum /\ TxNum \in 0..TxNum
  /\ \A k \in Ring : /\ k \in Nat /\ k < TxNum /\ k \in 0..TxNum
                      /\ k + 1 \in 0..TxNum /\ (k # TxNum - 1 => k + 1 \in Ring)
  /\ \A k \in 0..TxNum : k \in Nat /\ (k # TxNum => k \in Ring) /\ (k # 0 => k - 1 \in Ring)
BY RingAssumption DEF Ring

\* Positions ahead of a position of the ring are positions of the ring.
LEMMA PosType ==
  \A u \in Ring, k \in 0..TxNum : RingPos(u, k) \in Ring
BY RingAssumption DEF RingPos, Ring

\* Different distances below TxNum are different descriptors.
LEMMA PosInjective ==
  \A u \in Ring, j \in Ring, k \in Ring : RingPos(u, j) = RingPos(u, k) => j = k
BY RingAssumption DEF RingPos, Ring

\* The position after the k-th one ahead is the (k+1)-th.
LEMMA NextOfPos ==
  \A u \in Ring, k \in Ring : NextDesc(RingPos(u, k)) = RingPos(u, k + 1)
BY RingAssumption DEF RingPos, NextDesc, Ring

\* From the next position everything is one step less ahead.
LEMMA PosOfNext ==
  \A u \in Ring, k \in Ring :
    NextDesc(u) \in Ring /\ RingPos(NextDesc(u), k) = RingPos(u, k + 1)
BY RingAssumption DEF RingPos, NextDesc, Ring

\* Distance zero, and a whole turn, is the position itself.
LEMMA PosZero ==
  \A u \in Ring : RingPos(u, 0) = u /\ RingPos(u, TxNum) = u
BY RingAssumption DEF RingPos, Ring

-----------------------------------------------------------------------------
(* The window of filled descriptors: n of them from position u, in front *)
(* of position f.                                                          *)

Filled(d) == ~d.cstop

Window(ds, u, f, n) ==
  /\ f = RingPos(u, n)
  /\ \A k \in Ring : Filled(ds[RingPos(u, k)]) <=> k < n

\* The descriptor the FIFO is at becomes filled: the window grows by it.
LEMMA WindowGrows ==
  ASSUME NEW S, NEW ds \in [Ring -> S], NEW u \in Ring, NEW f \in Ring, NEW n \in 0..TxNum, NEW d,
         Window(ds, u, f, n), ~Filled(ds[f]), Filled(d)
  PROVE  n + 1 \in 0..TxNum /\ Window([ds EXCEPT ![f] = d], u, NextDesc(f), n + 1)
<1>1. n \in Ring
  BY PosZero, RingFacts DEF Window
<1>2. NextDesc(f) = RingPos(u, n + 1)
  BY <1>1, NextOfPos DEF Window
<1>3. ASSUME NEW k \in Ring
      PROVE  Filled([ds EXCEPT ![f] = d][RingPos(u, k)]) <=> k < n + 1
  <2>1. RingPos(u, k) \in Ring
    BY PosType, RingFacts
  <2>2. Filled(ds[RingPos(u, k)]) <=> k < n
    BY DEF Window
  <2>3. CASE k = n
    BY <2>1, <2>3, RingFacts DEF Window
  <2>4. CASE k # n
    <3>1. RingPos(u, k) # f
      BY <1>1, <2>4, PosInjective DEF Window
    <3>2. [ds EXCEPT ![f] = d][RingPos(u, k)] = ds[RingPos(u, k)]
      BY <2>1, <3>1
    <3>3. k < n <=> k < n + 1
      BY <2>4, <1>1, RingFacts
    <3> QED BY <2>2, <3>2, <3>3
  <2> QED BY <2>3, <2>4
<1> QED BY <1>1, <1>2, <1>3, RingFacts DEF Window

\* The descriptor the user is at is released: the window shrinks by it.
LEMMA WindowShrinks ==
  ASSUME NEW S, NEW ds \in [Ring -> S], NEW u \in Ring, NEW f \in Ring, NEW n \in 0..TxNum,
         NEW d, Window(ds, u, f, n), Filled(ds[u]), ~Filled(d)
  PROVE  n - 1 \in 0..TxNum /\ Window([ds EXCEPT ![u] = d], NextDesc(u), f, n - 1)
<1>1. n # 0 /\ n - 1 \in Ring
  BY PosZero, RingFacts DEF Window
<1>2. f = RingPos(NextDesc(u), n - 1)
  <2>1. (n - 1) + 1 = n
    BY RingFacts
  <2> QED BY <1>1, <2>1, PosOfNext DEF Window
<1>3. ASSUME NEW k \in Ring
      PROVE  Filled([ds EXCEPT ![u] = d][RingPos(NextDesc(u), k)]) <=> k < n - 1
  <2>1. RingPos(NextDesc(u), k) = RingPos(u, k + 1) /\ RingPos(u, k + 1) \in Ring
    BY PosOfNext, PosType, RingFacts
  <2>2. CASE k = TxNum - 1
    <3>1. RingPos(u, k + 1) = u
      BY <2>2, PosZero, RingFacts
    <3>2. ~(k < n - 1)
      BY <2>2, <1>1, RingFacts
    <3> QED BY <2>1, <3>1, <3>2
  <2>3. CASE k # TxNum - 1
    <3>1. k + 1 \in Ring /\ k + 1 # 0
      BY <2>3, RingFacts
    <3>2. RingPos(u, k + 1) # u
      BY <3>1, PosInjective, PosZero, RingFacts
    <3>3. [ds EXCEPT ![u] = d][RingPos(u, k + 1)] = ds[RingPos(u, k + 1)]
      BY <2>1, <3>2
    <3>4. Filled(ds[RingPos(u, k + 1)]) <=> k + 1 < n
      BY <3>1 DEF Window
    <3>5. k + 1 < n <=> k < n - 1
      BY RingFacts
    <3> QED BY <2>1, <3>3, <3>4, <3>5
  <2> QED BY <2>2, <2>3
<1> QED BY <1>1, <1>2, <1>3, RingFacts DEF Window

\* A change that fills and releases nothing keeps the window.
LEMMA WindowStays ==
  ASSUME NEW S, NEW ds \in [Ring -> S], NEW u \in Ring, NEW f \in Ring, NEW n \in 0..TxNum,
         NEW d, NEW i \in Ring, Window(ds, u, f, n), Filled(d) <=> Filled(ds[i])
  PROVE  Window([ds EXCEPT ![i] = d], u, f, n)
<1>1. ASSUME NEW k \in Ring
      PROVE  Filled([ds EXCEPT ![i] = d][RingPos(u, k)]) <=> k < n
  <2>1. RingPos(u, k) \in Ring
    BY PosType, RingFacts
  <2>2. Filled(ds[RingPos(u, k)]) <=> k < n
    BY DEF Window
  <2> QED BY <2>1, <2>2
<1> QED BY <1>1 DEF Window

\* TxRingOwnership is the existence of such a window.
LEMMA OwnershipIsWindow ==
  TxRingOwnership <=> \E n \in 0..TxNum : Window(tx_descriptors, fifo_tx_desc, user_tx_desc, n)
BY DEF TxRingOwnership, Window, Filled, Ring

\* An empty ring is an empty window.
LEMMA EmptyWindow ==
  ASSUME NEW ds, ds = [i \in 0..(TxNum - 1) |-> EmptyDesc]
  PROVE  Window(ds, 0, 0, 0)
<1>1. \A i \in Ring : ~Filled(ds[i])
  BY DEF Filled, Ring, EmptyDesc
<1>2. \A k \in Ring : RingPos(0, k) \in Ring
  BY PosType, RingFacts
<1>3. ASSUME NEW k \in Ring
      PROVE  Filled(ds[RingPos(0, k)]) <=> k < 0
  <2>1. ~(k < 0)
    BY DEF Ring
  <2>2. ~Filled(ds[RingPos(0, k)])
    BY <1>1, <1>2
  <2> QED BY <2>1, <2>2
<1>4. 0 = RingPos(0, 0)
  BY PosZero, RingFacts
<1> QED BY <1>3, <1>4 DEF Window

-----------------------------------------------------------------------------
(* Sequences.                                                              *)

\* A function on 1..n is a sequence.
LEMMA FunctionIsSeq ==
  ASSUME NEW S, NEW n \in Nat, NEW g \in [1..n -> S]
  PROVE  g \in Seq(S) /\ Len(g) = n
OBVIOUS

\* The front of a sequence, as much of it as there is.
LEMMA FrontProperties ==
  ASSUME NEW S, NEW s \in Seq(S), NEW m \in Int, m <= Len(s)
  PROVE  /\ SubSeq(s, 1, m) \in Seq(S)
         /\ m \in Nat => Len(SubSeq(s, 1, m)) = m
<1>1. CASE m \in Nat
  BY <1>1, LenProperties, SubSeqProperties
<1>2. CASE m \notin Nat
  <2>1. SubSeq(s, 1, m) = << >>
    BY <1>2
  <2> QED BY <1>2, <2>1
<1> QED BY <1>1, <1>2

\* A sequence without its j-th element.
LEMMA RemoveProperties ==
  ASSUME NEW S, NEW q \in Seq(S), NEW j \in 1..Len(q)
  PROVE  /\ RemoveAt(q, j) \in Seq(S)
         /\ \A i \in 1..Len(RemoveAt(q, j)) : \E k \in 1..Len(q) : RemoveAt(q, j)[i] = q[k]
<1> DEFINE r == RemoveAt(q, j)
           a == SubSeq(q, 1, j - 1)
           b == SubSeq(q, j + 1, Len(q))
<1>0. Len(q) \in Nat /\ j \in Nat
  BY LenProperties
<1>1. /\ a \in Seq(S) /\ Len(a) = j - 1
      /\ \A i \in 1..(j - 1) : a[i] = q[i]
  BY <1>0, SubSeqProperties
<1>2. /\ b \in Seq(S) /\ Len(b) = Len(q) - j
      /\ \A i \in 1..(Len(q) - j) : b[i] = q[j + i]
  BY <1>0, SubSeqProperties
<1> HIDE DEF a, b, r
<1>3. /\ r \in Seq(S) /\ Len(r) = Len(a) + Len(b)
      /\ \A i \in 1..(Len(a) + Len(b)) : r[i] = IF i <= Len(a) THEN a[i] ELSE b[i - Len(a)]
  BY <1>1, <1>2, ConcatProperties DEF a, b, r, RemoveAt
<1>4. ASSUME NEW i \in 1..Len(r)
      PROVE  \E k \in 1..Len(q) : r[i] = q[k]
  <2>1. CASE i <= Len(a)
    <3>1. i \in 1..(j - 1) /\ i \in 1..Len(q) /\ i \in 1..(Len(a) + Len(b))
      BY <1>0, <1>1, <1>2, <1>3, <2>1
    <3> QED BY <1>1, <1>3, <2>1, <3>1
  <2>2. CASE ~(i <= Len(a))
    <3>1. /\ i - Len(a) \in 1..(Len(q) - j) /\ j + (i - Len(a)) \in 1..Len(q)
          /\ i \in 1..(Len(a) + Len(b))
      BY <1>0, <1>1, <1>2, <1>3, <2>2
    <3> QED BY <1>2, <1>3, <2>2, <3>1
  <2> QED BY <2>1, <2>2
<1> QED BY <1>3, <1>4 DEF r

\* Appending keeps what was there.
LEMMA AppendKeeps ==
  ASSUME NEW S, NEW s \in Seq(S), NEW x \in S
  PROVE  /\ Append(s, x) \in Seq(S) /\ Len(Append(s, x)) = Len(s) + 1
         /\ \A i \in 1..Len(s) : i \in 1..(Len(s) + 1) /\ Append(s, x)[i] = s[i]
         /\ Append(s, x)[Len(s) + 1] = x /\ Len(s) + 1 \in 1..(Len(s) + 1)
         /\ \A i \in 1..(Len(s) + 1) : i \in 1..Len(s) \/ i = Len(s) + 1
<1>1. Len(s) \in Nat
  BY LenProperties
<1> QED BY <1>1, AppendProperties

-----------------------------------------------------------------------------
(* What each action leaves alone.                                          *)

\* Only the line, the clock, the interrupt, oframe_worker and a purge touch the card.
LEMMA DeviceFrame ==
  Next => \/ SendWord \/ ClockChange \/ fscc_isr \/ PurgeReset
          \/ \E o \in Oframes : OframeDesc(o) \/ OframeUnlock(o) \/ ExecuteTransmit(o)
          \/ UNCHANGED device
BY DEF Next, OframeStep, CopyStep, timer_handler, OframeSample, OframeLock, WriteRefuse,
       WriteForward, WriteAdmit, WriteFrameLock, WriteFrameFull, WriteFrameDesc, WriteFinish,
       FindRequest, RetrieveFoundRequest, alls_worker, PurgeQueues, PurgeFinish, ToggleSetting

\* Only the interrupt, the timer and the workers themselves touch the DPCs.
LEMMA DpcFrame ==
  Next => \/ fscc_isr \/ timer_handler \/ alls_worker
          \/ \E o \in Oframes : OframeSample(o)
          \/ \E len \in WriteLens : WriteForward(len)
          \/ \E a \in Writers : WriteFinish(a)
          \/ \E a \in Requesters : FindRequest(a)
          \/ UNCHANGED dpcs
BY DEF Next, OframeStep, CopyStep, SendWord, ClockChange, OframeLock, OframeDesc, OframeUnlock,
       ExecuteTransmit, WriteRefuse, WriteAdmit, WriteFrameLock, WriteFrameFull,
       WriteFrameDesc, RetrieveFoundRequest, PurgeReset, PurgeQueues, PurgeFinish,
       ToggleSetting

\* Only the two copy loops take and release the lock.
LEMMA LockFrame ==
  Next => \/ \E o \in Oframes : OframeLock(o) \/ OframeUnlock(o)
          \/ \E a \in Writers : WriteFrameLock(a) \/ WriteFrameFull(a) \/ WriteFrameDesc(a)
          \/ UNCHANGED board_tx_spinlock
BY DEF Next, OframeStep, CopyStep, SendWord, ClockChange, fscc_isr, timer_handler,
       OframeSample, OframeDesc, ExecuteTransmit, WriteRefuse, WriteForward, WriteAdmit,
       WriteFinish, FindRequest, RetrieveFoundRequest, alls_worker, PurgeReset, PurgeQueues,
       PurgeFinish, ToggleSetting

\* Only the two copy loops and a purge change the ring.
LEMMA RingFrame ==
  Next => \/ \E o \in Oframes : OframeDesc(o)
          \/ \E a \in Writers : WriteFrameDesc(a)
          \/ PurgeReset
          \/ UNCHANGED ring
BY DEF Next, OframeStep, CopyStep, SendWord, ClockChange, fscc_isr, timer_handler,
       OframeSample, OframeLock, OframeUnlock, ExecuteTransmit, WriteRefuse, WriteForward,
       WriteAdmit, WriteFrameLock, WriteFrameFull, WriteFinish, FindRequest,
       RetrieveFoundRequest, alls_worker, PurgeQueues, PurgeFinish, ToggleSetting

\* oframe_worker's locals are its own.
LEMMA OframeFrame ==
  Next => \/ \E o \in Oframes : OframeSample(o) \/ OframeLock(o) \/ OframeStep(o)
          \/ UNCHANGED oframe
BY DEF Next, CopyStep, SendWord, ClockChange, fscc_isr, timer_handler, WriteRefuse,
       WriteForward, WriteAdmit, WriteFrameLock, WriteFrameFull, WriteFrameDesc, WriteFinish,
       FindRequest, RetrieveFoundRequest, alls_worker, PurgeReset, PurgeQueues, PurgeFinish,
       ToggleSetting

\* Requests are touched by their own handlers, alls_worker and a purge.
LEMMA UserFrame ==
  Next => \/ \E len \in WriteLens : WriteRefuse(len) \/ WriteForward(len) \/ WriteAdmit(len)
          \/ \E a \in Writers : WriteFrameLock(a) \/ CopyStep(a)
          \/ \E a \in Requesters : FindRequest(a) \/ RetrieveFoundRequest(a)
          \/ alls_worker \/ PurgeFinish
          \/ UNCHANGED user
BY DEF Next, OframeStep, SendWord, ClockChange, fscc_isr, timer_handler, OframeSample,
       OframeLock, OframeDesc, OframeUnlock, ExecuteTransmit, PurgeReset, PurgeQueues,
       ToggleSetting

\* The settings, the purge and what it threw away change in ioctls only.
LEMMA IoctlFrame ==
  Next => \/ PurgeReset \/ PurgeQueues \/ PurgeFinish \/ \E s \in Toggles : ToggleSetting(s)
          \/ UNCHANGED ioctl
BY DEF Next, OframeStep, CopyStep, SendWord, ClockChange, fscc_isr, timer_handler,
       OframeSample, OframeLock, OframeDesc, OframeUnlock, ExecuteTransmit, WriteRefuse,
       WriteForward, WriteAdmit, WriteFrameLock, WriteFrameFull, WriteFrameDesc, WriteFinish,
       FindRequest, RetrieveFoundRequest, alls_worker

-----------------------------------------------------------------------------
(* The initial states.                                                     *)

\* A freshly created port satisfies the invariant.
LEMMA InitIndInv == Init => IndInv
<1> SUFFICES ASSUME Init PROVE IndInv
  OBVIOUS
<1> USE RingAssumption
<1>1. DeviceInv
  BY DEF Init, DeviceInv
<1>2. DpcInv
  BY Zenon DEF Init, DpcInv
<1>3. LockInv
  BY DEF Init, LockInv
<1>4. RingInv
  <2>1. tx_descriptors \in [0..(TxNum - 1) -> Desc]
    BY DEF Init, Desc, EmptyDesc
  <2>2. Window(tx_descriptors, fifo_tx_desc, user_tx_desc, 0)
    BY EmptyWindow DEF Init
  <2>3. user_tx_desc \in 0..(TxNum - 1) /\ fifo_tx_desc \in 0..(TxNum - 1)
    BY DEF Init
  <2> QED BY <2>1, <2>2, <2>3, OwnershipIsWindow, RingFacts DEF RingInv
<1>5. OframeInv
  BY DEF Init, OframeInv, OframeState, IdleOframe
<1>6. QueueInv
  BY DEF Init, QueueInv
<1>7. WriterInv
  BY DEF Init, WriterInv, WriterState, IdleWriter
<1>8. IoctlInv
  BY IoctlAssumption DEF Init, IoctlInv
<1> QED BY <1>1, <1>2, <1>3, <1>4, <1>5, <1>6, <1>7, <1>8 DEF IndInv

-----------------------------------------------------------------------------
(* The card, the DPCs and the lock.                                        *)

\* Pushing bytes leaves whole words in the FIFO.
LEMMA PushProperties ==
  ASSUME DeviceInv, NEW bytes \in Seq(Byte)
  PROVE  PushWords(bytes) \in Seq(Byte) /\ Len(PushWords(bytes)) % 4 = 0
<1> DEFINE p    == (4 - (Len(bytes) % 4)) % 4
           pads == [j \in 1..p |-> Pad]
           both == txfifo \o bytes
           all  == both \o pads
           m    == MinOf(Len(all), FifoSize)
<1>1. Len(bytes) \in Nat /\ Len(txfifo) \in Nat /\ txfifo \in Seq(Byte)
  BY LenProperties DEF DeviceInv
<1>2. p \in Nat /\ (Len(txfifo) + Len(bytes) + p) % 4 = 0
  BY <1>1 DEF DeviceInv
<1>3. pads \in Seq(Byte) /\ Len(pads) = p
  <2>1. pads \in [1..p -> Byte]
    BY DEF Pad, Byte
  <2> HIDE DEF p, pads
  <2> QED BY <1>2, <2>1, FunctionIsSeq
<1>0. PushWords(bytes) = SubSeq(all, 1, m)
  BY DEF PushWords
<1> HIDE DEF p, pads
<1>4. all \in Seq(Byte) /\ Len(all) = Len(txfifo) + Len(bytes) + p
  <2>1. both \in Seq(Byte) /\ Len(both) = Len(txfifo) + Len(bytes)
    BY <1>1, ConcatProperties
  <2> HIDE DEF both
  <2>2. all \in Seq(Byte) /\ Len(all) = Len(both) + Len(pads)
    BY <1>3, <2>1, ConcatProperties
  <2> QED BY <1>1, <1>2, <1>3, <2>1, <2>2
<1> HIDE DEF all
<1>5. m \in Nat /\ m <= Len(all) /\ m % 4 = 0
  <2>1. Len(all) \in Nat /\ Len(all) % 4 = 0
    BY <1>1, <1>2, <1>4
  <2>2. FifoSize \in Nat /\ FifoSize % 4 = 0
    BY FifoAssumption
  <2>3. m = Len(all) \/ m = FifoSize
    BY DEF MinOf
  <2>4. m <= Len(all)
    BY <2>1, <2>2 DEF MinOf
  <2> HIDE DEF m
  <2> QED BY <2>1, <2>2, <2>3, <2>4
<1> HIDE DEF m
<1>6. SubSeq(all, 1, m) \in Seq(Byte) /\ Len(SubSeq(all, 1, m)) = m
  BY <1>4, <1>5, FrontProperties
<1> QED BY <1>0, <1>5, <1>6

\* A word leaves the FIFO whole.
LEMMA SendWordInv ==
  ASSUME DeviceInv, SendWord
  PROVE  DeviceInv'
<1> DEFINE size == Head(bcfifo)
           m    == MinOf(4, size - Len(wire.out))
           front == SubSeq(txfifo, 1, m)
           out  == wire.out \o front
           rest == SubSeq(txfifo, 5, Len(txfifo))
<1>1. /\ txfifo \in Seq(Byte) /\ Len(txfifo) \in Nat /\ Len(txfifo) >= 4
      /\ Len(txfifo) % 4 = 0
  <2>1. txfifo \in Seq(Byte) /\ Len(txfifo) \in Nat /\ Len(txfifo) # 0
    BY EmptySeq, LenProperties DEF DeviceInv, SendWord
  <2> QED BY <2>1 DEF DeviceInv
<1>2. bcfifo \in Seq(Nat) /\ bcfifo # << >> /\ size \in Nat /\ Tail(bcfifo) \in Seq(Nat)
  <2>1. bcfifo \in Seq(Nat) /\ bcfifo # << >>
    BY DEF DeviceInv, SendWord
  <2> QED BY <2>1, HeadTailProperties
<1>3. wire \in [xf : BOOLEAN, out : Seq(Byte)] /\ wire.out \in Seq(Byte) /\ Len(wire.out) \in Nat
  BY LenProperties DEF DeviceInv
<1>4. /\ txfifo' = rest /\ clock' = clock
      /\ \/ /\ bcfifo' = Tail(bcfifo)
            /\ wire' = [xf |-> Tail(bcfifo) # << >>, out |-> << >>]
            /\ isr' = isr \cup (IF Tail(bcfifo) = << >> THEN {"ALLS"} ELSE {"TFT"})
         \/ /\ bcfifo' = bcfifo
            /\ wire' = [wire EXCEPT !.out = out]
            /\ isr' \in {isr \cup {"TFT"}} \cup (IF rest = << >> THEN {} ELSE {isr})
  BY DEF SendWord
<1> HIDE DEF size
<1>5. m \in Int /\ m <= 4
  BY <1>2, <1>3 DEF MinOf
<1> HIDE DEF m
<1>6. front \in Seq(Byte)
  BY <1>1, <1>5, FrontProperties
<1> HIDE DEF front
<1>7. out \in Seq(Byte)
  BY <1>3, <1>6, ConcatProperties
<1>8. rest \in Seq(Byte) /\ Len(rest) = Len(txfifo) - 4
  <2>1. \A i \in 5..Len(txfifo) : txfifo[i] \in Byte
    BY <1>1, ElementOfSeq
  <2>2. /\ rest \in Seq(Byte)
        /\ Len(rest) = IF 5 <= Len(txfifo) THEN Len(txfifo) - 5 + 1 ELSE 0
    BY <1>1, <2>1, SubSeqProperties
  <2> HIDE DEF rest
  <2>3. CASE Len(txfifo) = 4
    BY <2>2, <2>3
  <2>4. CASE Len(txfifo) # 4
    <3>0. \A len \in Nat : len >= 4 /\ len # 4 => 5 <= len
      OBVIOUS
    <3>1. 5 <= Len(txfifo)
      BY <1>1, <2>4, <3>0
    <3>2. Len(rest) = Len(txfifo) - 5 + 1
      BY <2>2, <3>1
    <3> QED BY <1>1, <2>2, <3>2
  <2> QED BY <2>3, <2>4
<1> HIDE DEF out, rest
<1>9. txfifo' \in Seq(Byte) /\ Len(txfifo') % 4 = 0
  BY <1>1, <1>4, <1>8
<1>10. bcfifo' \in Seq(Nat)
  BY <1>2, <1>4
<1>11. wire' \in [xf : BOOLEAN, out : Seq(Byte)]
  <2>1. << >> \in Seq(Byte)
    OBVIOUS
  <2>2. CASE wire' = [xf |-> Tail(bcfifo) # << >>, out |-> << >>]
    BY <2>1, <2>2
  <2>3. CASE wire' = [wire EXCEPT !.out = out]
    BY <1>3, <1>7, <2>3
  <2> QED BY <1>4, <2>2, <2>3
<1>12. clock' \in [on : BOOLEAN, outages : Nat] /\ isr' \subseteq {"TFT", "ALLS"}
  BY <1>4 DEF DeviceInv
<1> QED BY <1>9, <1>10, <1>11, <1>12 DEF DeviceInv

\* The card's state is preserved by every step.
LEMMA DeviceNext == IndInv /\ [Next]_vars => DeviceInv'
<1> SUFFICES ASSUME IndInv, [Next]_vars PROVE DeviceInv'
  OBVIOUS
<1>0. DeviceInv
  BY DEF IndInv
<1>1. CASE SendWord
  BY <1>0, <1>1, SendWordInv
<1>2. CASE ClockChange
  BY <1>0, <1>2 DEF DeviceInv, ClockChange
<1>3. CASE fscc_isr
  BY <1>0, <1>3 DEF DeviceInv, fscc_isr
<1>4. CASE PurgeReset
  <2>1. UNCHANGED <<clock, isr>>
    BY <1>4 DEF PurgeReset
  <2>2. CASE clock.on
    <3>1. txfifo' = << >> /\ bcfifo' = << >> /\ wire' = [xf |-> FALSE, out |-> << >>]
      BY <1>4, <2>2 DEF PurgeReset
    <3>2. << >> \in Seq(Byte) /\ << >> \in Seq(Nat) /\ Len(<< >>) % 4 = 0
      OBVIOUS
    <3>3. wire' \in [xf : BOOLEAN, out : Seq(Byte)]
      BY <3>1, <3>2
    <3> QED BY <1>0, <2>1, <3>1, <3>2, <3>3 DEF DeviceInv
  <2>3. CASE ~clock.on
    BY <1>0, <1>4, <2>1, <2>3 DEF DeviceInv, PurgeReset
  <2> QED BY <2>2, <2>3
<1>5. ASSUME NEW o \in Oframes, OframeDesc(o) PROVE DeviceInv'
  <2>1. tx_descriptors[fifo_tx_desc].data \in Seq(Byte)
    BY DEF IndInv, RingInv, Desc
  <2>2. /\ txfifo' = PushWords(tx_descriptors[fifo_tx_desc].data)
        /\ UNCHANGED <<bcfifo, wire, clock, isr>>
    BY <1>5 DEF OframeDesc
  <2>3. txfifo' \in Seq(Byte) /\ Len(txfifo') % 4 = 0
    BY <1>0, <2>1, <2>2, PushProperties
  <2> QED BY <1>0, <2>2, <2>3 DEF DeviceInv
<1>6. ASSUME NEW o \in Oframes, OframeUnlock(o) PROVE DeviceInv'
  <2>1. oframe[o].frame_size \in Nat
    BY DEF IndInv, OframeInv, OframeState
  <2> QED BY <1>0, <1>6, <2>1, AppendProperties DEF DeviceInv, OframeUnlock
<1>7. ASSUME NEW o \in Oframes, ExecuteTransmit(o) PROVE DeviceInv'
  BY <1>0, <1>7 DEF DeviceInv, ExecuteTransmit
<1>8. CASE UNCHANGED device
  BY <1>0, <1>8 DEF DeviceInv, device
<1> QED BY <1>1, <1>2, <1>3, <1>4, <1>5, <1>6, <1>7, <1>8, DeviceFrame DEF vars

\* DPCs are queued or not.
LEMMA DpcNext == IndInv /\ [Next]_vars => DpcInv'
<1> SUFFICES ASSUME IndInv, [Next]_vars PROVE DpcInv'
  OBVIOUS
<1>0. DpcInv
  BY DEF IndInv
<1>1. CASE fscc_isr
  <2>1. alls_dpc' \in BOOLEAN
    BY <1>1, Zenon DEF fscc_isr
  <2> QED BY <1>0, <1>1, <2>1, Zenon DEF DpcInv, fscc_isr
<1>2. CASE timer_handler
  BY <1>0, <1>2, Zenon DEF DpcInv, timer_handler
<1>3. CASE alls_worker
  BY <1>0, <1>3, Zenon DEF DpcInv, alls_worker
<1>4. ASSUME NEW o \in Oframes, OframeSample(o) PROVE DpcInv'
  BY <1>0, <1>4, Zenon DEF DpcInv, OframeSample
<1>5. ASSUME NEW len \in WriteLens, WriteForward(len) PROVE DpcInv'
  BY <1>0, <1>5, Zenon DEF DpcInv, WriteForward
<1>6. ASSUME NEW a \in Writers, WriteFinish(a) PROVE DpcInv'
  BY <1>0, <1>6, Zenon DEF DpcInv, WriteFinish
<1>7. ASSUME NEW a \in Requesters, FindRequest(a) PROVE DpcInv'
  BY <1>0, <1>7, Zenon DEF DpcInv, FindRequest
<1>8. CASE UNCHANGED dpcs
  BY <1>0, <1>8, Zenon DEF DpcInv, dpcs
<1> QED BY <1>1, <1>2, <1>3, <1>4, <1>5, <1>6, <1>7, <1>8, DpcFrame DEF vars

\* The lock is free or somebody's.
LEMMA LockNext == IndInv /\ [Next]_vars => LockInv'
<1> SUFFICES ASSUME IndInv, [Next]_vars PROVE LockInv'
  OBVIOUS
<1>0. LockInv
  BY DEF IndInv
<1>1. ASSUME NEW o \in Oframes, OframeLock(o) \/ OframeUnlock(o) PROVE LockInv'
  BY <1>1 DEF LockInv, OframeLock, OframeUnlock
<1>2. ASSUME NEW a \in Writers, WriteFrameLock(a) \/ WriteFrameFull(a) \/ WriteFrameDesc(a)
      PROVE LockInv'
  BY <1>0, <1>2 DEF LockInv, WriteFrameLock, WriteFrameFull, WriteFrameDesc
<1>3. CASE UNCHANGED board_tx_spinlock
  BY <1>0, <1>3 DEF LockInv
<1> QED BY <1>1, <1>2, <1>3, LockFrame DEF vars

-----------------------------------------------------------------------------
(* The ring.                                                               *)

\* What is left of an accepted write and a descriptor's share of it.
LEMMA ShareProperties ==
  ASSUME NEW len \in Nat, NEW done \in Nat, done < len, NEW n, n = MinOf(len - done, TxSize)
  PROVE  n \in Nat /\ n > 0 /\ n <= TxSize /\ n <= len - done /\ done + n \in Nat
BY RingAssumption DEF MinOf

\* A filled descriptor has the type of a descriptor.
LEMMA FilledDescType ==
  ASSUME NEW w \in Nat, NEW len \in Nat, NEW i \in Nat, NEW from \in Nat, NEW n \in Nat
  PROVE  FilledDesc(w, len, i, from, n) \in Desc
<1> DEFINE bytes == [k \in 1..n |-> <<w, from + k>>]
<1>1. bytes \in Seq(Byte)
  <2>1. bytes \in [1..n -> Byte]
    BY DEF Byte
  <2> HIDE DEF bytes
  <2> QED BY <2>1, FunctionIsSeq
<1>2. FilledDesc(w, len, i, from, n)
        = [cstop |-> FALSE, fe |-> i = 0, cnt |-> IF i = 0 THEN len ELSE n, data |-> bytes]
  BY DEF FilledDesc
<1> HIDE DEF bytes
<1>3. (IF i = 0 THEN len ELSE n) \in Nat
  OBVIOUS
<1> QED BY <1>1, <1>2, <1>3 DEF Desc

\* What a thread in its copy loop knows of its request.
LEMMA CopyFacts ==
  ASSUME WriterInv, QueueInv, NEW a \in Writers, writer[a].pc = "copy"
  PROVE  /\ writer[a] \in WriterState /\ writer[a].w \in Nat /\ writer[a].w \in 1..Len(issued)
         /\ writer[a].i \in Nat /\ writer[a].i < TxNum /\ writer[a].out_length \in Nat
         /\ issued[writer[a].w] \in Nat /\ writer[a].out_length < issued[writer[a].w]
<1>1. writer[a] \in WriterState
  BY DEF WriterInv
<1>2. writer[a].w \in Nat /\ writer[a].i \in Nat /\ writer[a].out_length \in Nat
  BY <1>1, RingAssumption DEF WriterState
<1>3. writer[a].w \in 1..Len(issued) /\ issued \in Seq(Nat)
  BY DEF WriterInv, QueueInv, Accepted
<1>4. issued[writer[a].w] \in Nat
  BY <1>3, ElementOfSeq
<1> QED BY <1>1, <1>2, <1>3, <1>4 DEF WriterInv

\* fscc_user_write_frame fills the descriptor after the last one with data.
LEMMA WriteFrameDescRing ==
  ASSUME IndInv, NEW a \in Writers, WriteFrameDesc(a)
  PROVE  RingInv'
<1> DEFINE wr == writer[a]
           n  == MinOf(issued[wr.w] - wr.out_length, TxSize)
           d  == FilledDesc(wr.w, issued[wr.w], wr.i, wr.out_length, n)
<1>1. /\ wr.w \in Nat /\ wr.i \in Nat /\ wr.out_length \in Nat /\ issued[wr.w] \in Nat
      /\ wr.out_length < issued[wr.w]
  BY CopyFacts DEF WriteFrameDesc, IndInv
<1>2. n \in Nat
  BY <1>1, ShareProperties
<1>3. /\ tx_descriptors' = [tx_descriptors EXCEPT ![user_tx_desc] = d]
      /\ user_tx_desc' = NextDesc(user_tx_desc) /\ fifo_tx_desc' = fifo_tx_desc
      /\ tx_descriptors[user_tx_desc].cstop
  BY DEF WriteFrameDesc
<1>4. Filled(d)
  BY DEF Filled, FilledDesc
<1> HIDE DEF wr, n
<1>5. d \in Desc
  BY <1>1, <1>2, FilledDescType
<1> HIDE DEF d
<1>6. /\ tx_descriptors \in [Ring -> Desc]
      /\ user_tx_desc \in Ring /\ fifo_tx_desc \in Ring
  BY DEF IndInv, RingInv, Ring
<1>7. PICK k \in 0..TxNum : Window(tx_descriptors, fifo_tx_desc, user_tx_desc, k)
  BY OwnershipIsWindow DEF IndInv, RingInv
<1>8. k + 1 \in 0..TxNum /\ Window(tx_descriptors', fifo_tx_desc', user_tx_desc', k + 1)
  BY <1>3, <1>4, <1>6, <1>7, WindowGrows DEF Filled
<1>9. user_tx_desc' \in Ring /\ fifo_tx_desc' \in Ring
  BY <1>3, <1>6, PosOfNext, RingFacts
<1>10. tx_descriptors' \in [Ring -> Desc]
  BY <1>3, <1>5, <1>6
<1>11. TxRingOwnership'
  BY <1>8 DEF TxRingOwnership, Window, Filled, Ring
<1> QED BY <1>9, <1>10, <1>11 DEF RingInv, Ring

\* fscc_fifo_write_data frees the first descriptor with data.
LEMMA OframeDescRing ==
  ASSUME IndInv, NEW o \in Oframes, OframeDesc(o)
  PROVE  RingInv'
<1>1. /\ tx_descriptors' = [tx_descriptors EXCEPT ![fifo_tx_desc] = EmptyDesc]
      /\ fifo_tx_desc' = NextDesc(fifo_tx_desc) /\ user_tx_desc' = user_tx_desc
      /\ ~tx_descriptors[fifo_tx_desc].cstop
  BY DEF OframeDesc, OframeStops
<1>2. EmptyDesc \in Desc /\ ~Filled(EmptyDesc)
  BY DEF EmptyDesc, Desc, Filled
<1>3. /\ tx_descriptors \in [Ring -> Desc]
      /\ user_tx_desc \in Ring /\ fifo_tx_desc \in Ring
  BY DEF IndInv, RingInv, Ring
<1>4. PICK k \in 0..TxNum : Window(tx_descriptors, fifo_tx_desc, user_tx_desc, k)
  BY OwnershipIsWindow DEF IndInv, RingInv
<1>5. k - 1 \in 0..TxNum /\ Window(tx_descriptors', fifo_tx_desc', user_tx_desc', k - 1)
  BY <1>1, <1>2, <1>3, <1>4, WindowShrinks DEF Filled
<1>6. user_tx_desc' \in Ring /\ fifo_tx_desc' \in Ring
  BY <1>1, <1>3, PosOfNext, RingFacts
<1>7. tx_descriptors' \in [Ring -> Desc]
  BY <1>1, <1>2, <1>3
<1>8. TxRingOwnership'
  BY <1>5 DEF TxRingOwnership, Window, Filled, Ring
<1> QED BY <1>6, <1>7, <1>8 DEF RingInv, Ring

\* The ring is preserved by every step.
LEMMA RingNext == IndInv /\ [Next]_vars => RingInv'
<1> SUFFICES ASSUME IndInv, [Next]_vars PROVE RingInv'
  OBVIOUS
<1>1. ASSUME NEW a \in Writers, WriteFrameDesc(a) PROVE RingInv'
  BY <1>1, WriteFrameDescRing
<1>2. ASSUME NEW o \in Oframes, OframeDesc(o) PROVE RingInv'
  BY <1>2, OframeDescRing
<1>3. CASE PurgeReset
  <2>1. /\ tx_descriptors' = [i \in 0..(TxNum - 1) |-> EmptyDesc]
        /\ user_tx_desc' = 0 /\ fifo_tx_desc' = 0
    BY <1>3 DEF PurgeReset
  <2>2. Window(tx_descriptors', 0, 0, 0)
    BY <2>1, EmptyWindow
  <2>3. TxRingOwnership'
    BY <2>1, <2>2, RingFacts DEF TxRingOwnership, Window, Filled, Ring
  <2>4. tx_descriptors' \in [0..(TxNum - 1) -> Desc]
    BY <2>1 DEF EmptyDesc, Desc
  <2> QED BY <2>1, <2>3, <2>4, RingFacts DEF RingInv, Ring
<1>4. CASE UNCHANGED ring
  BY <1>4 DEF ring, IndInv, RingInv, TxRingOwnership
<1> QED BY <1>1, <1>2, <1>3, <1>4, RingFrame DEF vars

-----------------------------------------------------------------------------
(* oframe_worker and the ioctls.                                           *)

\* oframe_worker's count of the room it has left never goes below zero.
LEMMA OframeNext == IndInv /\ [Next]_vars => OframeInv'
<1> SUFFICES ASSUME IndInv, [Next]_vars PROVE OframeInv'
  OBVIOUS
<1>0. oframe \in [Oframes -> OframeState] /\ IdleOframe \in OframeState
  BY RingAssumption DEF IndInv, OframeInv, IdleOframe, OframeState
<1>1. ASSUME NEW o \in Oframes, OframeSample(o) PROVE OframeInv'
  <2> DEFINE ready == [IdleOframe EXCEPT !.pc = "lock", !.space = fifo_space]
  <2>1. \/ oframe' = [oframe EXCEPT ![o] = IdleOframe]
        \/ /\ oframe' = [oframe EXCEPT ![o] = ready]
           /\ ~(fscc_io_get_TXCNT >= FifoSize)
    BY <1>1 DEF OframeSample
  <2>2. CASE ~(fscc_io_get_TXCNT >= FifoSize)
    <3>1. fifo_space \in Nat
      <4>1. Len(txfifo) \in Nat
        BY LenProperties DEF IndInv, DeviceInv
      <4> QED BY <2>2, <4>1, FifoAssumption DEF fifo_space, fscc_io_get_TXCNT
    <3>2. [IdleOframe EXCEPT !.pc = "lock"] \in OframeState
      BY <1>0 DEF OframeState
    <3>3. ready \in OframeState
      BY <3>1, <3>2 DEF OframeState
    <3> HIDE DEF ready
    <3> QED BY <1>0, <2>1, <3>3 DEF OframeInv
  <2>3. CASE oframe' = [oframe EXCEPT ![o] = IdleOframe]
    BY <1>0, <2>3 DEF OframeInv
  <2> QED BY <2>1, <2>2, <2>3
<1>2. ASSUME NEW o \in Oframes, OframeLock(o) PROVE OframeInv'
  BY <1>0, <1>2 DEF OframeLock, OframeInv, OframeState
<1>3. ASSUME NEW o \in Oframes, OframeDesc(o) PROVE OframeInv'
  <2> DEFINE d  == tx_descriptors[fifo_tx_desc]
             f  == oframe[o]
             s  == size_in_fifo(Len(d.data))
             fs == IF d.fe THEN d.cnt ELSE f.frame_size
             h  == [f EXCEPT !.i = f.i + 1, !.written = TRUE, !.space = f.space - s,
                             !.frame_size = fs]
  <2>1. f \in OframeState /\ f.i # TxNum /\ ~(f.space < s)
    BY <1>0, <1>3 DEF OframeDesc, OframeStops
  <2>2. d.data \in Seq(Byte) /\ d.cnt \in Nat /\ Len(d.data) \in Nat
    BY LenProperties DEF IndInv, RingInv, Desc
  <2>3. s \in Nat
    <3>1. \A len \in Nat : size_in_fifo(len) \in Nat
      BY DEF size_in_fifo
    <3> QED BY <2>2, <3>1
  <2>4. oframe' = [oframe EXCEPT ![o] = h]
    BY <1>3 DEF OframeDesc
  <2>5. fs \in Nat
    BY <2>1, <2>2 DEF OframeState
  <2> HIDE DEF s, fs, d
  <2>6. f.space - s \in Nat
    BY <2>1, <2>3 DEF OframeState
  <2>7. f.i + 1 \in 0..TxNum
    BY <2>1, RingAssumption DEF OframeState
  <2>8. [f EXCEPT !.i = f.i + 1, !.written = TRUE] \in OframeState
    BY <2>1, <2>7 DEF OframeState
  <2>9. [f EXCEPT !.i = f.i + 1, !.written = TRUE, !.space = f.space - s] \in OframeState
    BY <2>1, <2>6, <2>8 DEF OframeState
  <2>10. h \in OframeState
    BY <2>1, <2>5, <2>9 DEF OframeState
  <2> HIDE DEF h
  <2> QED BY <1>0, <2>4, <2>10 DEF OframeInv
<1>4. ASSUME NEW o \in Oframes, OframeUnlock(o) PROVE OframeInv'
  <2>1. [IdleOframe EXCEPT !.pc = "transmit"] \in OframeState
    BY RingFacts DEF IdleOframe, OframeState
  <2> QED BY <1>0, <1>4, <2>1 DEF OframeUnlock, OframeInv
<1>5. ASSUME NEW o \in Oframes, ExecuteTransmit(o) PROVE OframeInv'
  BY <1>0, <1>5 DEF ExecuteTransmit, OframeInv
<1>6. CASE UNCHANGED oframe
  BY <1>0, <1>6 DEF OframeInv
<1> QED BY <1>1, <1>2, <1>3, <1>4, <1>5, <1>6, OframeFrame DEF OframeStep, vars

\* The settings and the purge.
LEMMA IoctlNext == IndInv /\ [Next]_vars => IoctlInv'
<1> SUFFICES ASSUME IndInv, [Next]_vars PROVE IoctlInv'
  OBVIOUS
<1>0. IoctlInv
  BY DEF IndInv
<1>1. CASE PurgeReset
  <2>1. Settled \subseteq Nat
    BY DEF Settled
  <2> QED BY <1>0, <1>1, <2>1 DEF IoctlInv, PurgeReset
<1>2. CASE PurgeQueues
  BY <1>0, <1>2 DEF IoctlInv, PurgeQueues
<1>3. CASE PurgeFinish
  BY <1>0, <1>3 DEF IoctlInv, PurgeFinish
<1>4. ASSUME NEW s \in Toggles, ToggleSetting(s) PROVE IoctlInv'
  BY <1>0, <1>4, IoctlAssumption DEF IoctlInv, ToggleSetting
<1>5. CASE UNCHANGED ioctl
  BY <1>0, <1>5 DEF IoctlInv, ioctl
<1> QED BY <1>1, <1>2, <1>3, <1>4, <1>5, IoctlFrame DEF vars

-----------------------------------------------------------------------------
(* Requests and the threads that work on them.                             *)

\* Locals of a thread that fit what the others may rely on.
GoodWriter(x) ==
  /\ x \in WriterState
  /\ x.pc # "idle" => Accepted(issued, x.w)
  /\ x.pc \in {"retrieve", "lock"} => x.i = 0 /\ x.out_length = 0
  /\ x.pc = "copy" => x.i < TxNum /\ x.out_length < issued[x.w]

\* WriterInv says so of every thread.
LEMMA WriterInvIsGood ==
  WriterInv <=> /\ writer \in [Writers -> WriterState]
                /\ \A a \in Writers : GoodWriter(writer[a])
BY DEF WriterInv, GoodWriter

\* One thread's new locals keep WriterInv when they are good.
LEMMA WriterSet ==
  ASSUME WriterInv, NEW a \in Writers, NEW x, GoodWriter(x),
         writer' = [writer EXCEPT ![a] = x], UNCHANGED issued
  PROVE  WriterInv'
<1>1. writer' \in [Writers -> WriterState] /\ \A b \in Writers : GoodWriter(writer'[b])
  BY WriterInvIsGood DEF GoodWriter
<1> QED BY <1>1 DEF WriterInv, GoodWriter, Accepted

\* An idle thread is good.
LEMMA IdleGood == GoodWriter(IdleWriter)
BY RingAssumption DEF GoodWriter, IdleWriter, WriterState

\* A new request leaves the earlier ones as they are.
LEMMA AcceptedKept ==
  ASSUME QueueInv, WriteLens \subseteq Nat, NEW len \in WriteLens, issued' = Append(issued, len)
  PROVE  /\ issued' \in Seq(Nat) /\ Len(issued') = Len(issued) + 1 /\ Len(issued') \in Nat
         /\ Len(issued') \in 1..Len(issued') /\ issued'[Len(issued')] = len
         /\ \A w \in 1..Len(issued) : w \in 1..Len(issued') /\ issued'[w] = issued[w]
         /\ \A w : Accepted(issued, w) => Accepted(issued', w)
<1>1. issued \in Seq(Nat) /\ Len(issued) \in Nat /\ len \in Nat
  BY LenProperties DEF QueueInv
<1>2. /\ issued' \in Seq(Nat) /\ Len(issued') = Len(issued) + 1
      /\ \A w \in 1..Len(issued) : w \in 1..(Len(issued) + 1) /\ issued'[w] = issued[w]
      /\ issued'[Len(issued) + 1] = len /\ Len(issued) + 1 \in 1..(Len(issued) + 1)
  BY <1>1, AppendKeeps
<1>3. ASSUME NEW w, Accepted(issued, w) PROVE Accepted(issued', w)
  BY <1>2, <1>3 DEF Accepted
<1> QED BY <1>1, <1>2, <1>3

\* A request that arrives keeps what is known of the others.
LEMMA ArrivalKeeps ==
  ASSUME QueueInv, WriterInv, NEW len \in WriteLens, issued' = Append(issued, len)
  PROVE  /\ UNCHANGED writer => WriterInv'
         /\ UNCHANGED <<blocking_request_queue, write_queue2>> => QueueInv'
<1>0. WriteLens \subseteq Nat
  BY WriteAssumption
<1>1. /\ \A w : Accepted(issued, w) => Accepted(issued', w)
      /\ issued' \in Seq(Nat)
      /\ \A w \in 1..Len(issued) : w \in 1..Len(issued') /\ issued'[w] = issued[w]
  BY <1>0, AcceptedKept
<1>2. ASSUME UNCHANGED writer PROVE WriterInv'
  <2>1. ASSUME NEW a \in Writers
        PROVE  /\ writer[a].pc # "idle" => Accepted(issued', writer[a].w)
               /\ writer[a].pc = "copy" => /\ writer[a].i < TxNum
                                           /\ writer[a].out_length < issued'[writer[a].w]
    <3>1. writer[a].pc # "idle" => Accepted(issued, writer[a].w) /\ writer[a].w \in 1..Len(issued)
      BY DEF WriterInv, Accepted
    <3> QED BY <1>1, <3>1 DEF WriterInv
  <2> QED BY <1>2, <2>1 DEF WriterInv, Accepted
<1>3. ASSUME UNCHANGED <<blocking_request_queue, write_queue2>> PROVE QueueInv'
  BY <1>1, <1>3 DEF QueueInv, Accepted
<1> QED BY <1>2, <1>3

\* A new request is turned away, made to wait, or let in at once.
LEMMA ArrivalInv ==
  ASSUME IndInv, NEW len \in WriteLens, WriteRefuse(len) \/ WriteForward(len) \/ WriteAdmit(len)
  PROVE  QueueInv' /\ WriterInv'
<1>0. QueueInv /\ WriterInv /\ WriteLens \subseteq Nat /\ len \in Nat
  BY WriteAssumption DEF IndInv
<1>1. issued' = Append(issued, len)
  BY DEF WriteRefuse, WriteForward, WriteAdmit, WriteArrives
<1>2. /\ issued' \in Seq(Nat) /\ Len(issued') \in Nat /\ Len(issued') \in 1..Len(issued')
      /\ issued'[Len(issued')] = len
      /\ \A w : Accepted(issued, w) => Accepted(issued', w)
      /\ \A w \in 1..Len(issued) : w \in 1..Len(issued') /\ issued'[w] = issued[w]
  BY <1>0, <1>1, AcceptedKept
<1>3. CASE WriteRefuse(len)
  <2>1. UNCHANGED <<writer, blocking_request_queue, write_queue2>>
    BY <1>3 DEF WriteRefuse
  <2> QED BY <1>0, <1>1, <2>1, ArrivalKeeps
<1>4. CASE WriteForward(len)
  <2>1. /\ UNCHANGED <<writer, write_queue2>>
        /\ blocking_request_queue' = Append(blocking_request_queue, Len(issued'))
        /\ len > 0 /\ ~OverCap(len)
    BY <1>4 DEF WriteForward
  <2>2. Accepted(issued', Len(issued'))
    BY <1>2, <2>1 DEF Accepted, OverCap
  <2> DEFINE x == Len(issued')
  <2>3. blocking_request_queue \in Seq(Nat) /\ Len(blocking_request_queue) \in Nat
    BY <1>0, LenProperties DEF QueueInv
  <2>4. /\ blocking_request_queue' \in Seq(Nat)
        /\ Len(blocking_request_queue') = Len(blocking_request_queue) + 1
        /\ \A j \in 1..Len(blocking_request_queue) :
              blocking_request_queue'[j] = blocking_request_queue[j]
        /\ blocking_request_queue'[Len(blocking_request_queue) + 1] = Len(issued')
    <3>1. x \in Nat /\ blocking_request_queue' = Append(blocking_request_queue, x)
      BY <1>2, <2>1
    <3> HIDE DEF x
    <3>2. /\ blocking_request_queue' \in Seq(Nat)
          /\ Len(blocking_request_queue') = Len(blocking_request_queue) + 1
          /\ \A j \in 1..Len(blocking_request_queue) :
                blocking_request_queue'[j] = blocking_request_queue[j]
          /\ blocking_request_queue'[Len(blocking_request_queue) + 1] = x
      BY <2>3, <3>1, AppendKeeps
    <3> QED BY <3>2 DEF x
  <2>5. ASSUME NEW j \in 1..Len(blocking_request_queue')
        PROVE  Accepted(issued', blocking_request_queue'[j])
    <3>1. CASE j \in 1..Len(blocking_request_queue)
      <4>1. Accepted(issued, blocking_request_queue[j])
        BY <1>0, <3>1 DEF QueueInv
      <4>2. blocking_request_queue'[j] = blocking_request_queue[j]
        BY <2>4, <3>1
      <4>3. Accepted(issued', blocking_request_queue[j])
        BY <1>2, <4>1 DEF Accepted
      <4> QED BY <4>2, <4>3 DEF Accepted
    <3>2. CASE j = Len(blocking_request_queue) + 1
      BY <2>2, <2>4, <3>2 DEF Accepted
    <3> QED BY <2>3, <2>4, <3>1, <3>2
  <2>6. \A j \in 1..Len(write_queue2') : write_queue2'[j] \in 1..Len(issued')
    BY <1>0, <1>2, <2>1 DEF QueueInv
  <2>7. write_queue2' \in Seq(Nat)
    BY <1>0, <2>1 DEF QueueInv
  <2>8. QueueInv'
    BY <1>2, <2>4, <2>5, <2>6, <2>7 DEF QueueInv, Accepted
  <2> QED BY <1>0, <1>1, <2>1, <2>8, ArrivalKeeps
<1>5. CASE WriteAdmit(len)
  <2> DEFINE v == [IdleWriter EXCEPT !.pc = "lock", !.w = Len(issued')]
  <2>1. /\ writer' = [writer EXCEPT !["write"] = v]
        /\ UNCHANGED <<blocking_request_queue, write_queue2>>
        /\ len > 0 /\ ~OverCap(len) /\ writer["write"].pc = "idle"
    BY <1>5 DEF WriteAdmit, WriteArrives
  <2>2. Accepted(issued', Len(issued'))
    BY <1>2, <2>1 DEF Accepted, OverCap
  <2>3. v \in WriterState /\ v.pc = "lock" /\ v.w = Len(issued') /\ v.i = 0 /\ v.out_length = 0
    <3>1. IdleWriter \in WriterState
      BY IdleGood DEF GoodWriter
    <3>2. [IdleWriter EXCEPT !.pc = "lock"] \in WriterState
      BY <3>1 DEF WriterState
    <3>3. v \in WriterState
      BY <1>2, <3>2 DEF WriterState
    <3> QED BY <3>1, <3>3 DEF IdleWriter
  <2> HIDE DEF v
  <2>4. writer \in [Writers -> WriterState] /\ "write" \in Writers
    BY <1>0 DEF WriterInv, Writers
  <2>5. ASSUME NEW a \in Writers
        PROVE  /\ writer'[a].pc # "idle" => Accepted(issued', writer'[a].w)
               /\ writer'[a].pc \in {"retrieve", "lock"} =>
                    writer'[a].i = 0 /\ writer'[a].out_length = 0
               /\ writer'[a].pc = "copy" => /\ writer'[a].i < TxNum
                                            /\ writer'[a].out_length < issued'[writer'[a].w]
    <3>1. CASE a = "write"
      <4>1. writer'[a] = v
        BY <2>1, <2>4, <3>1
      <4> QED BY <2>2, <2>3, <4>1 DEF Accepted
    <3>2. CASE a # "write"
      <4>1. writer'[a] = writer[a]
        BY <2>1, <2>4, <3>2
      <4>2. writer[a].pc # "idle" => Accepted(issued, writer[a].w) /\ writer[a].w \in 1..Len(issued)
        BY <1>0 DEF WriterInv, Accepted
      <4>3. writer[a].pc # "idle" => Accepted(issued', writer[a].w)
        BY <1>2, <4>2
      <4>4. writer[a].pc = "copy" => /\ writer[a].i < TxNum
                                     /\ writer[a].out_length < issued'[writer[a].w]
        BY <1>0, <1>2, <4>2 DEF WriterInv
      <4>5. writer[a].pc \in {"retrieve", "lock"} => writer[a].i = 0 /\ writer[a].out_length = 0
        BY <1>0 DEF WriterInv
      <4> QED BY <4>1, <4>3, <4>4, <4>5 DEF Accepted
    <3> QED BY <3>1, <3>2
  <2>6. writer' \in [Writers -> WriterState]
    BY <2>1, <2>3, <2>4
  <2>7. WriterInv'
    BY <2>5, <2>6 DEF WriterInv, Accepted
  <2> QED BY <1>0, <1>1, <2>1, <2>7, ArrivalKeeps
<1> QED BY <1>3, <1>4, <1>5

\* One iteration of the copy loop keeps the count of what is left, and ends the loop
\* when nothing is left or every descriptor was used.
LEMMA WriteFrameDescWriter ==
  ASSUME IndInv, NEW a \in Writers, WriteFrameDesc(a)
  PROVE  QueueInv' /\ WriterInv'
<1> DEFINE wr   == writer[a]
           len  == issued[wr.w]
           n    == MinOf(len - wr.out_length, TxSize)
           last == wr.out_length + n = len \/ wr.i + 1 = TxNum
           pc   == IF last THEN "finish" ELSE "copy"
           x    == [wr EXCEPT !.i = wr.i + 1, !.out_length = wr.out_length + n, !.pc = pc]
<1>0. QueueInv /\ WriterInv
  BY DEF IndInv
<1>1. /\ wr \in WriterState /\ wr.w \in Nat /\ wr.i \in Nat /\ wr.out_length \in Nat
      /\ len \in Nat /\ wr.out_length < len /\ wr.i < TxNum
  BY CopyFacts DEF WriteFrameDesc, IndInv
<1>2. /\ writer' = [writer EXCEPT ![a] = x] /\ issued' = issued
      /\ UNCHANGED <<blocking_request_queue, write_queue2>>
      /\ wr.pc = "copy"
  BY DEF WriteFrameDesc
<1>3. n \in Nat /\ n > 0 /\ n <= len - wr.out_length /\ wr.out_length + n \in Nat
  BY <1>1, ShareProperties
<1>4. Accepted(issued, wr.w)
  BY <1>0, <1>2 DEF WriterInv
<1>5. wr.i + 1 \in 0..TxNum
  BY <1>1, RingAssumption
<1>6. pc \in {"finish", "copy"} /\ (pc = "copy" => ~last)
  OBVIOUS
<1>7. ~last => wr.out_length + n < len /\ wr.i + 1 < TxNum
  BY <1>1, <1>3, RingAssumption
<1> HIDE DEF len, n, last, pc, wr
<1>8. x \in WriterState /\ x.i = wr.i + 1 /\ x.out_length = wr.out_length + n /\ x.pc = pc
      /\ x.w = wr.w
  <2>1. [wr EXCEPT !.i = wr.i + 1] \in WriterState
    BY <1>1, <1>5 DEF WriterState
  <2>2. [wr EXCEPT !.i = wr.i + 1, !.out_length = wr.out_length + n] \in WriterState
    BY <1>3, <2>1 DEF WriterState
  <2>3. x \in WriterState
    BY <1>6, <2>2 DEF WriterState
  <2> QED BY <1>1, <2>3 DEF WriterState
<1> HIDE DEF x
<1>9. GoodWriter(x)
  BY <1>4, <1>6, <1>7, <1>8 DEF GoodWriter, len
<1>10. WriterInv'
  BY <1>0, <1>2, <1>9, WriterSet
<1> QED BY <1>0, <1>2, <1>10 DEF QueueInv

\* A thread takes the lock, gives up, or ends; a waiting request is found or taken.
LEMMA WriterStepInv ==
  ASSUME IndInv, NEW a \in Writers,
         \/ WriteFrameLock(a) \/ WriteFrameFull(a) \/ WriteFinish(a)
         \/ FindRequest(a) \/ RetrieveFoundRequest(a)
  PROVE  QueueInv' /\ WriterInv'
<1>0. /\ QueueInv /\ WriterInv
      /\ writer \in [Writers -> WriterState] /\ GoodWriter(writer[a])
      /\ writer[a] \in WriterState /\ GoodWriter(IdleWriter)
  BY WriterInvIsGood, IdleGood DEF IndInv, WriterInv
<1>1. CASE WriteFrameLock(a)
  <2> DEFINE x == [writer[a] EXCEPT !.pc = "copy"]
  <2>1. writer' = [writer EXCEPT ![a] = x]
    BY <1>0, <1>1 DEF WriteFrameLock
  <2>2. /\ Accepted(issued, writer[a].w) /\ writer[a].i = 0 /\ writer[a].out_length = 0
    BY <1>0, <1>1 DEF WriteFrameLock, GoodWriter
  <2>3. issued[writer[a].w] > 0 /\ 0 < issued[writer[a].w]
    <3>1. issued[writer[a].w] \in Nat
      BY <1>0, <2>2, ElementOfSeq DEF QueueInv, Accepted
    <3> QED BY <2>2, <3>1 DEF Accepted
  <2>4. x \in WriterState /\ x.pc = "copy" /\ x.w = writer[a].w /\ x.i = 0 /\ x.out_length = 0
    BY <1>0, <2>2 DEF WriterState
  <2> HIDE DEF x
  <2>5. GoodWriter(x)
    BY <2>2, <2>3, <2>4, RingAssumption DEF GoodWriter
  <2>6. issued' = issued /\ UNCHANGED <<blocking_request_queue, write_queue2>>
    BY <1>1 DEF WriteFrameLock
  <2>7. WriterInv'
    BY <1>0, <2>1, <2>5, <2>6, WriterSet
  <2> QED BY <1>0, <2>6, <2>7 DEF QueueInv
<1>2. CASE WriteFrameFull(a)
  <2> DEFINE x == [writer[a] EXCEPT !.pc = "finish", !.status = "too_small"]
  <2>1. writer' = [writer EXCEPT ![a] = x]
    BY <1>0, <1>2 DEF WriteFrameFull
  <2>2. [writer[a] EXCEPT !.pc = "finish"] \in WriterState
    BY <1>0 DEF WriterState
  <2>3. x \in WriterState /\ x.pc = "finish" /\ x.w = writer[a].w
    BY <1>0, <2>2 DEF WriterState
  <2>4. Accepted(issued, writer[a].w)
    BY <1>0, <1>2 DEF WriteFrameFull, GoodWriter
  <2> HIDE DEF x
  <2>5. GoodWriter(x)
    BY <2>3, <2>4 DEF GoodWriter
  <2>6. issued' = issued /\ UNCHANGED <<blocking_request_queue, write_queue2>>
    BY <1>2 DEF WriteFrameFull
  <2>7. WriterInv'
    BY <1>0, <2>1, <2>5, <2>6, WriterSet
  <2> QED BY <1>0, <2>6, <2>7 DEF QueueInv
<1>3. CASE WriteFinish(a)
  <2>1. /\ writer' = [writer EXCEPT ![a] = IdleWriter] /\ issued' = issued
        /\ blocking_request_queue' = blocking_request_queue
        /\ write_queue2' = write_queue2 \/ write_queue2' = Append(write_queue2, writer[a].w)
    BY <1>3 DEF WriteFinish
  <2>2. WriterInv'
    BY <1>0, <2>1, WriterSet
  <2>3. CASE write_queue2' = Append(write_queue2, writer[a].w)
    <3>1. writer[a].w \in 1..Len(issued) /\ writer[a].w \in Nat
      BY <1>0, <1>3 DEF WriteFinish, GoodWriter, Accepted, WriterState
    <3>2. write_queue2 \in Seq(Nat) /\ Len(write_queue2) \in Nat
      BY <1>0, LenProperties DEF QueueInv
    <3>3. /\ write_queue2' \in Seq(Nat) /\ Len(write_queue2') = Len(write_queue2) + 1
          /\ \A i \in 1..Len(write_queue2) : write_queue2'[i] = write_queue2[i]
          /\ write_queue2'[Len(write_queue2) + 1] = writer[a].w
          /\ \A i \in 1..(Len(write_queue2) + 1) :
                i \in 1..Len(write_queue2) \/ i = Len(write_queue2) + 1
      BY <2>3, <3>1, <3>2, AppendKeeps
    <3>4. \A j \in 1..Len(write_queue2') : write_queue2'[j] \in 1..Len(issued)
      BY <1>0, <3>1, <3>3 DEF QueueInv
    <3> QED BY <1>0, <2>1, <2>2, <3>3, <3>4 DEF QueueInv
  <2>4. CASE write_queue2' = write_queue2
    BY <1>0, <2>1, <2>2, <2>4 DEF QueueInv
  <2> QED BY <2>1, <2>3, <2>4
<1>4. CASE FindRequest(a)
  <2> DEFINE h == Head(blocking_request_queue)
             x == [IdleWriter EXCEPT !.pc = "retrieve", !.w = h]
  <2>1. \/ writer' = [writer EXCEPT ![a] = IdleWriter]
        \/ writer' = [writer EXCEPT ![a] = x] /\ blocking_request_queue # << >>
    BY <1>4 DEF FindRequest
  <2>2. issued' = issued /\ UNCHANGED <<blocking_request_queue, write_queue2>>
    BY <1>4 DEF FindRequest
  <2>3. CASE writer' = [writer EXCEPT ![a] = x] /\ blocking_request_queue # << >>
    <3>1. h \in Nat /\ Accepted(issued, h)
      <4>1. blocking_request_queue \in Seq(Nat) /\ 1 \in 1..Len(blocking_request_queue)
        BY <1>0, <2>3, EmptySeq, LenProperties DEF QueueInv
      <4>2. h = blocking_request_queue[1]
        BY <4>1
      <4> QED BY <1>0, <4>1, <4>2, ElementOfSeq DEF QueueInv
    <3> HIDE DEF h
    <3>2. IdleWriter \in WriterState
      BY <1>0 DEF GoodWriter
    <3>3. [IdleWriter EXCEPT !.pc = "retrieve"] \in WriterState
      BY <3>2 DEF WriterState
    <3>4. x \in WriterState /\ x.w = h /\ x.pc = "retrieve" /\ x.i = 0 /\ x.out_length = 0
      <4>1. x \in WriterState
        BY <3>1, <3>3 DEF WriterState
      <4> QED BY <3>2, <4>1 DEF IdleWriter
    <3> HIDE DEF x
    <3>5. GoodWriter(x)
      BY <3>1, <3>4 DEF GoodWriter
    <3>6. WriterInv'
      BY <1>0, <2>2, <2>3, <3>5, WriterSet
    <3> QED BY <1>0, <2>2, <3>6 DEF QueueInv
  <2>4. CASE writer' = [writer EXCEPT ![a] = IdleWriter]
    <3>1. WriterInv'
      BY <1>0, <2>2, <2>4, WriterSet
    <3> QED BY <1>0, <2>2, <3>1 DEF QueueInv
  <2> QED BY <2>1, <2>3, <2>4
<1>5. CASE RetrieveFoundRequest(a)
  <2> DEFINE x == [writer[a] EXCEPT !.pc = "lock"]
  <2>1. issued' = issued /\ write_queue2' = write_queue2 /\ writer[a].pc = "retrieve"
    BY <1>5 DEF RetrieveFoundRequest
  <2>2. x \in WriterState /\ x.pc = "lock" /\ x.w = writer[a].w /\ x.i = writer[a].i
        /\ x.out_length = writer[a].out_length
    BY <1>0 DEF WriterState
  <2>3. GoodWriter(x)
    <3>1. Accepted(issued, writer[a].w) /\ writer[a].i = 0 /\ writer[a].out_length = 0
      BY <1>0, <2>1 DEF GoodWriter
    <3> HIDE DEF x
    <3> QED BY <2>2, <3>1 DEF GoodWriter
  <2>4. ASSUME NEW j \in 1..Len(blocking_request_queue),
               blocking_request_queue' = RemoveAt(blocking_request_queue, j),
               writer' = [writer EXCEPT ![a].pc = "lock"]
        PROVE  QueueInv' /\ WriterInv'
    <3>1. writer' = [writer EXCEPT ![a] = x]
      BY <1>0, <2>4
    <3> HIDE DEF x
    <3>2. WriterInv'
      BY <1>0, <2>1, <2>3, <3>1, WriterSet
    <3>3. blocking_request_queue \in Seq(Nat)
      BY <1>0 DEF QueueInv
    <3>4. /\ blocking_request_queue' \in Seq(Nat)
          /\ \A i \in 1..Len(blocking_request_queue') : \E k \in 1..Len(blocking_request_queue) :
                blocking_request_queue'[i] = blocking_request_queue[k]
      <4> DEFINE q == blocking_request_queue
                 r == RemoveAt(q, j)
      <4>1. r \in Seq(Nat) /\ \A i \in 1..Len(r) : \E k \in 1..Len(q) : r[i] = q[k]
        BY <3>3, RemoveProperties
      <4>2. blocking_request_queue' = r
        BY <2>4
      <4> HIDE DEF r
      <4> QED BY <4>1, <4>2
    <3> QED BY <1>0, <2>1, <3>2, <3>4 DEF QueueInv
  <2>5. CASE writer' = [writer EXCEPT ![a] = IdleWriter] /\ UNCHANGED blocking_request_queue
    <3>1. WriterInv'
      BY <1>0, <2>1, <2>5, WriterSet
    <3> QED BY <1>0, <2>1, <2>5, <3>1 DEF QueueInv
  <2> QED BY <1>5, <2>4, <2>5 DEF RetrieveFoundRequest
<1> QED BY <1>1, <1>2, <1>3, <1>4, <1>5

\* Requests and threads are preserved by every step.
LEMMA UserNext == IndInv /\ [Next]_vars => QueueInv' /\ WriterInv'
<1> SUFFICES ASSUME IndInv, [Next]_vars PROVE QueueInv' /\ WriterInv'
  OBVIOUS
<1>0. QueueInv /\ WriterInv
  BY DEF IndInv
<1>1. ASSUME NEW len \in WriteLens, WriteRefuse(len) \/ WriteForward(len) \/ WriteAdmit(len)
      PROVE QueueInv' /\ WriterInv'
  BY <1>1, ArrivalInv
<1>2. ASSUME NEW a \in Writers, WriteFrameLock(a) \/ CopyStep(a)
      PROVE QueueInv' /\ WriterInv'
  BY <1>2, WriterStepInv, WriteFrameDescWriter DEF CopyStep
<1>3. ASSUME NEW a \in Requesters, FindRequest(a) \/ RetrieveFoundRequest(a)
      PROVE QueueInv' /\ WriterInv'
  <2>1. a \in Writers
    BY DEF Writers
  <2> QED BY <1>3, <2>1, WriterStepInv
<1>4. CASE alls_worker \/ PurgeFinish
  <2>1. /\ UNCHANGED <<writer, blocking_request_queue, issued>>
        /\ write_queue2' = write_queue2 \/ write_queue2' = << >>
    BY <1>4 DEF alls_worker, PurgeFinish
  <2>2. WriterInv'
    BY <1>0, <2>1 DEF WriterInv
  <2>3. /\ write_queue2' \in Seq(Nat)
        /\ \A j \in 1..Len(write_queue2') : write_queue2'[j] \in 1..Len(issued)
    <3>1. CASE write_queue2' = write_queue2
      BY <1>0, <3>1 DEF QueueInv
    <3>2. CASE write_queue2' = << >>
      BY <3>2
    <3> QED BY <2>1, <3>1, <3>2
  <2> QED BY <1>0, <2>1, <2>2, <2>3 DEF QueueInv
<1>5. CASE UNCHANGED user
  BY <1>0, <1>5 DEF user, QueueInv, WriterInv
<1> QED BY <1>1, <1>2, <1>3, <1>4, <1>5, UserFrame DEF vars

-----------------------------------------------------------------------------
\* The invariant holds in every reachable state, for every ring, FIFO and traffic
\* and any number of overlapping DPCs.
THEOREM TxInvariance == Spec => []IndInv
<1>1. IndInv /\ [Next]_vars => IndInv'
  BY DeviceNext, DpcNext, LockNext, RingNext, OframeNext, UserNext, IoctlNext DEF IndInv
<1> QED BY <1>1, InitIndInv, PTL DEF Spec

\* Type correctness: descriptors, positions, counters and queues keep their types,
\* and oframe_worker's unsigned count of the room in the FIFO never wraps.
THEOREM TxTypeSafety == Spec => []TypeOK
<1>1. IndInv => TypeOK
  BY DEF IndInv, DeviceInv, DpcInv, LockInv, RingInv, OframeInv, QueueInv, WriterInv, IoctlInv,
         TypeOK
<1> QED BY <1>1, TxInvariance, PTL

\* fscc_user_write_frame and fscc_fifo_write_data never overtake each other: the
\* descriptors with data are exactly those from the FIFO's position to the user's.
THEOREM TxRingSafety == Spec => []TxRingOwnership
<1>1. IndInv => TxRingOwnership
  BY DEF IndInv, RingInv
<1> QED BY <1>1, TxInvariance, PTL

-----------------------------------------------------------------------------
(* The room a write was promised.                                          *)

\* A set of natural numbers has a least element.
LEMMA LeastNat ==
  ASSUME NEW T, T \subseteq Nat, T # {}
  PROVE  \E x \in T : \A y \in T : x <= y
<1> DEFINE R == {ss \in Nat \X Nat : ss[1] < ss[2]}
<1>1. IsWellFoundedOn(R, Nat)
  BY NatLessThanWellFounded, Zenon DEF OpToRel
<1> HIDE DEF R
<1>2. PICK x \in T : \A y \in T : ~(<<y, x>> \in R)
  BY <1>1, WFMin
<1>3. \A y \in T : ~(y < x)
  BY <1>2 DEF R
<1> QED BY <1>3

\* Multiples of the descriptor size.
LEMMA Multiples ==
  /\ TxSize \in Nat /\ TxSize > 0
  /\ \A k \in Nat : k * TxSize \in Nat /\ (k + 1) * TxSize = k * TxSize + TxSize
  /\ \A k \in Nat : TxSize * k \in Nat /\ TxSize * (k + 1) = TxSize + TxSize * k
  /\ 0 * TxSize = 0 /\ TxSize * 0 = 0 /\ TxSize * TxNum = TxNum * TxSize
BY RingAssumption

\* The k-th descriptor from the user's position is free.
Free(k) == tx_descriptors[RingPos(user_tx_desc, k)].cstop

\* fscc_user_get_tx_space counts the free descriptors in a row: it satisfies its
\* recursive equation.
LEMMA SpaceEquation ==
  \E f : /\ fscc_user_get_tx_space = f[0]
         /\ \A k \in 0..TxNum :
              f[k] = IF k = TxNum THEN 0 ELSE IF ~Free(k) THEN 0 ELSE TxSize + f[k + 1]
<1> DEFINE Stop(k) == k = TxNum \/ ~Free(k)
           Run(k, e) == e \in k..TxNum /\ Stop(e) /\ \A j \in k..(e - 1) : ~Stop(j)
           E(k) == CHOOSE e : Run(k, e)
           g == [k \in 0..TxNum |-> TxSize * (E(k) - k)]
           Eqn(f) == f = [k \in 0..TxNum |->
                            IF k = TxNum THEN 0
                            ELSE IF ~Free(k) THEN 0 ELSE TxSize + f[k + 1]]
           from == CHOOSE f : Eqn(f)
<1>1. fscc_user_get_tx_space = from[0]
  BY DEF fscc_user_get_tx_space, Free
<1>0. TxNum \in Nat
  BY RingFacts
<1>2. ASSUME NEW k \in 0..TxNum PROVE Run(k, E(k))
  <2> DEFINE T == {e \in k..TxNum : Stop(e)}
  <2>1. T \subseteq Nat /\ T # {}
    <3>1. TxNum \in T
      BY <1>0
    <3> QED BY <3>1, <1>0
  <2>2. PICK x \in T : \A y \in T : x <= y
    <3> HIDE DEF T
    <3> QED BY <2>1, LeastNat
  <2>3. Run(k, x)
    <3>1. ASSUME NEW j \in k..(x - 1) PROVE ~Stop(j)
      <4>1. j \in k..TxNum /\ ~(x <= j)
        BY <1>0, <2>2
      <4> QED BY <2>2, <4>1
    <3> QED BY <2>2, <3>1
  <2> HIDE DEF Run
  <2> QED BY <2>3
<1>3. ASSUME NEW k \in 0..TxNum, Stop(k) PROVE E(k) = k
  <2>1. Run(k, E(k))
    BY <1>2
  <2> HIDE DEF E
  <2>2. E(k) \in Nat /\ E(k) >= k /\ (E(k) # k => k \in k..(E(k) - 1))
    BY <1>0, <2>1
  <2> QED BY <1>3, <2>1, <2>2
<1>4. ASSUME NEW k \in 0..TxNum, ~Stop(k) PROVE k + 1 \in 0..TxNum /\ E(k) = E(k + 1)
  <2>1. k + 1 \in 0..TxNum
    BY <1>0, <1>4
  <2>2. Run(k, E(k)) /\ Run(k + 1, E(k + 1))
    BY <1>2, <2>1
  <2> HIDE DEF E
  <2>3. E(k) # k
    BY <1>4, <2>2
  <2>4. /\ E(k) \in (k + 1)..TxNum /\ E(k + 1) \in (k + 1)..TxNum
        /\ Stop(E(k)) /\ Stop(E(k + 1))
    BY <1>0, <2>2, <2>3
  <2>5. ~(E(k) < E(k + 1))
    <3>1. SUFFICES ASSUME E(k) < E(k + 1) PROVE FALSE
      OBVIOUS
    <3>2. E(k) \in (k + 1)..(E(k + 1) - 1)
      BY <1>0, <2>4, <3>1
    <3> QED BY <2>2, <2>4, <3>2
  <2>6. ~(E(k + 1) < E(k))
    <3>1. SUFFICES ASSUME E(k + 1) < E(k) PROVE FALSE
      OBVIOUS
    <3>2. E(k + 1) \in k..(E(k) - 1)
      BY <1>0, <2>4, <3>1
    <3> QED BY <2>2, <2>4, <3>2
  <2> QED BY <1>0, <2>1, <2>4, <2>5, <2>6
<1>5. ASSUME NEW k \in 0..TxNum PROVE E(k) - k \in Nat /\ E(k) \in Nat
  <2>1. Run(k, E(k))
    BY <1>2
  <2> HIDE DEF E
  <2> QED BY <1>0, <2>1
<1> HIDE DEF E
<1>6. Eqn(g)
  <2>1. ASSUME NEW k \in 0..TxNum
        PROVE  g[k] = IF k = TxNum THEN 0 ELSE IF ~Free(k) THEN 0 ELSE TxSize + g[k + 1]
    <3>1. CASE Stop(k)
      <4>1. g[k] = TxSize * 0
        BY <1>0, <1>3, <3>1
      <4> QED BY <3>1, <4>1, Multiples
    <3>2. CASE ~Stop(k)
      <4>1. k + 1 \in 0..TxNum /\ E(k) = E(k + 1)
        BY <1>4, <3>2
      <4>2. E(k + 1) - (k + 1) \in Nat /\ E(k) - k = E(k + 1) - (k + 1) + 1
        BY <1>0, <1>5, <4>1
      <4>3. g[k] = TxSize * (E(k + 1) - (k + 1) + 1) /\ g[k + 1] = TxSize * (E(k + 1) - (k + 1))
        BY <4>1, <4>2
      <4>4. g[k] = TxSize + g[k + 1]
        BY <4>2, <4>3, Multiples
      <4> HIDE DEF g
      <4> QED BY <3>2, <4>4
    <3> QED BY <3>1, <3>2
  <2> QED BY <2>1
<1>7. Eqn(from)
  <2> HIDE DEF g
  <2> QED BY <1>6
<1> HIDE DEF from
<1> QED BY <1>1, <1>7

\* When fscc_user_get_tx_space reports len bytes, the descriptors that len bytes need
\* are free.
LEMMA SpaceFits ==
  ASSUME NEW len \in Nat, fscc_user_get_tx_space >= len,
         NEW k \in Ring, k * TxSize < len
  PROVE  Free(k)
<1>1. PICK f : /\ fscc_user_get_tx_space = f[0]
               /\ \A j \in 0..TxNum :
                    f[j] = IF j = TxNum THEN 0 ELSE IF ~Free(j) THEN 0 ELSE TxSize + f[j + 1]
  BY SpaceEquation
<1>2. SUFFICES ASSUME ~Free(k) PROVE FALSE
  OBVIOUS
<1>3. k \in Nat /\ TxNum \in Nat /\ k < TxNum
  BY RingFacts
<1> DEFINE Low(m) == f[k - m] \in Nat /\ f[k - m] <= m * TxSize
           T == {m \in 0..k : ~Low(m)}
<1>4. Low(0)
  <2>1. k - 0 = k /\ k \in 0..TxNum
    BY <1>3
  <2>2. f[k - 0] = 0
    BY <1>1, <1>2, <2>1
  <2> QED BY <2>2, Multiples
<1>5. CASE T = {}
  <2>1. Low(k)
    BY <1>3, <1>5
  <2>2. k - k = 0
    BY <1>3
  <2>3. f[0] \in Nat /\ f[0] <= k * TxSize
    BY <2>1, <2>2
  <2>4. k * TxSize \in Nat
    BY <1>3, Multiples
  <2> QED BY <1>1, <2>3, <2>4
<1>6. CASE T # {}
  <2>1. T \subseteq Nat
    OBVIOUS
  <2>2. PICK x \in T : \A y \in T : x <= y
    <3> HIDE DEF T
    <3> QED BY <1>6, <2>1, LeastNat
  <2> HIDE DEF Low
  <2>3. x # 0 /\ x \in Nat /\ x - 1 \in 0..k /\ x - 1 \in Nat /\ x - 1 \notin T
    BY <1>3, <1>4, <2>2
  <2>4. Low(x - 1)
    BY <2>3
  <2>5. f[k - x + 1] \in Nat /\ f[k - x + 1] <= (x - 1) * TxSize
    <3>1. k - (x - 1) = k - x + 1
      BY <1>3, <2>3
    <3> QED BY <2>4, <3>1 DEF Low
  <2>6. k - x \in 0..TxNum /\ k - x # TxNum
    BY <1>3, <2>2, <2>3
  <2>7. f[k - x] = 0 \/ f[k - x] = TxSize + f[k - x + 1]
    BY <1>1, <2>6
  <2>8. x * TxSize = (x - 1) * TxSize + TxSize /\ (x - 1) * TxSize \in Nat
    <3>1. (x - 1) + 1 = x
      BY <2>3
    <3> QED BY <2>3, <3>1, Multiples
  <2>9. Low(x)
    BY <2>5, <2>7, <2>8, Multiples DEF Low
  <2> QED BY <2>2, <2>9
<1> QED BY <1>5, <1>6

-----------------------------------------------------------------------------
(* One writer at a time.                                                   *)

\* The settings under which only one thread writes: FsccEvtIoWrite when no write
\* blocks, the one request_worker when every write does.
OneWriter(sole) ==
  \/ /\ sole = "write"
     /\ "blocking_write" \notin Toggles /\ \A s \in InitialSettings : ~s.blocking_write
  \/ /\ Requesters = {sole}
     /\ "blocking_write" \notin Toggles /\ \A s \in InitialSettings : s.blocking_write

\* Every other thread is idle.
SoleInv(sole) ==
  /\ \A a \in Writers : a # sole => writer[a].pc = "idle"
  /\ settings.blocking_write <=> sole # "write"
  /\ sole = "write" => blocking_request_queue = << >>

\* The descriptors that the next m bytes need are free.
Room(ds, u, m) == \A k \in Ring : k * TxSize < m => ds[RingPos(u, k)].cstop

\* What the writer saw free is still free: the rest of its request fits.
Fits(ds, u, lens, x) ==
  /\ x.pc \in {"retrieve", "lock", "copy"} => Room(ds, u, lens[x.w] - x.out_length)
  /\ x.pc = "copy" => x.out_length = x.i * TxSize
  /\ x.status = "success"
  /\ x.pc = "finish" => x.out_length = lens[x.w]

RoomInv(sole) == Fits(tx_descriptors, user_tx_desc, issued, writer[sole])

Completions == [w : Nat, status : {"success", "too_small", "timeout", "cancelled"}, count : Nat]

\* What a completion says of its request.
Told(lens, c) ==
  /\ c \in Completions /\ c.w \in 1..Len(lens)
  /\ c.count = IF c.status = "success" THEN lens[c.w] ELSE 0

\* Every completed request was told the truth.
DoneInv ==
  /\ completed \in Seq(Completions)
  /\ \A i \in 1..Len(completed) : Told(issued, completed[i])

WriteInv(sole) == SoleInv(sole) /\ RoomInv(sole) /\ DoneInv

\* Only one thread leaves "idle".
LEMMA SoleNext ==
  ASSUME NEW sole \in Writers, OneWriter(sole), IndInv, SoleInv(sole), [Next]_vars
  PROVE  SoleInv(sole)'
<1>0. /\ writer \in [Writers -> WriterState] /\ settings \in [SettingNames -> BOOLEAN]
      /\ sole # "write" <=> Requesters = {sole} /\ sole \in Requesters
      /\ "write" \in Writers /\ Requesters \subseteq Writers
  BY WriteAssumption DEF IndInv, WriterInv, IoctlInv, OneWriter, Writers
<1>1. (settings.blocking_write)' <=> sole # "write"
  <2>1. ASSUME NEW s \in Toggles, ToggleSetting(s)
        PROVE  (settings.blocking_write)' <=> settings.blocking_write
    <3>1. s # "blocking_write" /\ settings' = [settings EXCEPT ![s] = ~settings[s]]
      BY <2>1 DEF OneWriter, ToggleSetting
    <3>2. settings'["blocking_write"] = settings["blocking_write"]
      BY <1>0, <3>1 DEF SettingNames
    <3> QED BY <3>2
  <2>2. ASSUME UNCHANGED settings
        PROVE  (settings.blocking_write)' <=> settings.blocking_write
    BY <2>2
  <2> QED BY <2>1, <2>2, IoctlFrame DEF SoleInv, PurgeReset, PurgeQueues, PurgeFinish, ioctl,
             vars
<1>2. sole = "write" => blocking_request_queue' = << >>
  <2>1. SUFFICES ASSUME sole = "write" PROVE blocking_request_queue' = << >>
    OBVIOUS
  <2>2. blocking_request_queue = << >> /\ ~settings.blocking_write
    BY <2>1 DEF SoleInv
  <2>3. ASSUME NEW a \in Requesters, FindRequest(a) \/ RetrieveFoundRequest(a)
        PROVE  blocking_request_queue' = << >>
    BY <2>2, <2>3 DEF FindRequest, RetrieveFoundRequest
  <2>4. ASSUME NEW len \in WriteLens, WriteRefuse(len) \/ WriteForward(len) \/ WriteAdmit(len)
        PROVE  blocking_request_queue' = << >>
    BY <2>2, <2>4 DEF WriteRefuse, WriteForward, WriteAdmit
  <2>5. ASSUME NEW a \in Writers, WriteFrameLock(a) \/ CopyStep(a)
        PROVE  blocking_request_queue' = << >>
    BY <2>2, <2>5 DEF WriteFrameLock, CopyStep, WriteFrameFull, WriteFrameDesc, WriteFinish
  <2> QED BY <2>2, <2>3, <2>4, <2>5, UserFrame DEF alls_worker, PurgeFinish, user, vars
<1>3. ASSUME NEW b \in Writers, b # sole PROVE writer'[b].pc = "idle"
  <2>0. writer[b].pc = "idle"
    BY <1>3 DEF SoleInv
  <2>1. ASSUME NEW len \in WriteLens, WriteAdmit(len) PROVE writer'[b].pc = "idle"
    <3>1. sole = "write"
      BY <2>1 DEF WriteAdmit, SoleInv
    <3>2. writer'[b] = writer[b]
      BY <1>0, <1>3, <2>1, <3>1 DEF WriteAdmit
    <3> QED BY <2>0, <3>2
  <2>2. ASSUME NEW a \in Writers, WriteFrameLock(a) \/ CopyStep(a)
        PROVE  writer'[b].pc = "idle"
    <3>1. writer[a].pc # "idle"
      BY <2>2 DEF WriteFrameLock, CopyStep, WriteFrameFull, WriteFrameDesc, WriteFinish
    <3>2. a # b
      BY <2>0, <3>1
    <3>3. \E x : writer' = [writer EXCEPT ![a] = x]
      BY <2>2 DEF WriteFrameLock, CopyStep, WriteFrameFull, WriteFrameDesc, WriteFinish
    <3> QED BY <1>0, <2>0, <3>2, <3>3
  <2>3. ASSUME NEW a \in Requesters, RetrieveFoundRequest(a) PROVE writer'[b].pc = "idle"
    <3>1. writer[a].pc # "idle"
      BY <2>3 DEF RetrieveFoundRequest
    <3>2. a # b
      BY <2>0, <3>1
    <3>3. \E x : writer' = [writer EXCEPT ![a] = x]
      BY <2>3 DEF RetrieveFoundRequest
    <3> QED BY <1>0, <2>0, <3>2, <3>3
  <2>4. ASSUME NEW a \in Requesters, FindRequest(a) PROVE writer'[b].pc = "idle"
    <3>1. CASE a = b
      <4>1. sole = "write"
        BY <1>0, <1>3, <3>1
      <4>2. writer' = [writer EXCEPT ![a] = IdleWriter]
        BY <2>4, <4>1 DEF SoleInv, FindRequest
      <4> QED BY <1>0, <3>1, <4>2 DEF IdleWriter
    <3>2. CASE a # b
      <4>1. \E x : writer' = [writer EXCEPT ![a] = x]
        BY <2>4 DEF FindRequest
      <4> QED BY <1>0, <2>0, <3>2, <4>1
    <3> QED BY <3>1, <3>2
  <2>5. CASE UNCHANGED writer
    BY <2>0, <2>5
  <2> QED BY <2>1, <2>2, <2>3, <2>4, <2>5, UserFrame
          DEF WriteRefuse, WriteForward, alls_worker, PurgeFinish, user, vars
<1> QED BY <1>1, <1>2, <1>3 DEF SoleInv

\* Descriptors that are freed leave at least the same room.
LEMMA RoomKept ==
  ASSUME NEW ds, NEW es, NEW u \in Ring, NEW lens, NEW x, Fits(ds, u, lens, x),
         \A i \in Ring : ds[i].cstop => es[i].cstop
  PROVE  Fits(es, u, lens, x)
<1>1. \A k \in Ring : RingPos(u, k) \in Ring
  BY PosType, RingFacts
<1>2. \A m : Room(ds, u, m) => Room(es, u, m)
  BY <1>1 DEF Room
<1> QED BY <1>2 DEF Fits

\* The copy loop always finds its next descriptor free.
LEMMA NeverFull ==
  ASSUME NEW sole \in Writers, IndInv, RoomInv(sole), writer[sole].pc = "copy"
  PROVE  tx_descriptors[user_tx_desc].cstop
<1>1. /\ issued[writer[sole].w] \in Nat /\ writer[sole].out_length \in Nat
      /\ writer[sole].out_length < issued[writer[sole].w]
  BY CopyFacts DEF IndInv
<1>2. 0 * TxSize < issued[writer[sole].w] - writer[sole].out_length
  BY <1>1, Multiples
<1>3. user_tx_desc \in Ring
  BY DEF IndInv, RingInv, Ring
<1>4. RingPos(user_tx_desc, 0) = user_tx_desc /\ 0 \in Ring
  BY <1>3, PosZero, RingFacts
<1> QED BY <1>2, <1>4 DEF RoomInv, Fits, Room

\* After one iteration of the copy loop the rest still fits, and all of the request
\* was copied when the loop ends.
LEMMA WriteFrameDescRoom ==
  ASSUME NEW sole \in Writers, IndInv, RoomInv(sole), WriteFrameDesc(sole)
  PROVE  RoomInv(sole)'
<1> DEFINE wr   == writer[sole]
           len  == issued[wr.w]
           out  == wr.out_length
           n    == MinOf(len - out, TxSize)
           last == out + n = len \/ wr.i + 1 = TxNum
           pc   == IF last THEN "finish" ELSE "copy"
           x    == [wr EXCEPT !.i = wr.i + 1, !.out_length = out + n, !.pc = pc]
           u    == user_tx_desc
           v    == NextDesc(u)
           ds   == tx_descriptors
           es   == tx_descriptors'
<1>1. /\ wr \in WriterState /\ wr.w \in Nat /\ wr.i \in Nat /\ out \in Nat
      /\ len \in Nat /\ out < len /\ wr.i < TxNum
  BY CopyFacts DEF WriteFrameDesc, IndInv
<1>2. /\ writer' = [writer EXCEPT ![sole] = x] /\ issued' = issued /\ user_tx_desc' = v
      /\ \E d : tx_descriptors' = [tx_descriptors EXCEPT ![u] = d]
      /\ wr.pc = "copy"
  BY DEF WriteFrameDesc
<1>3. /\ Room(ds, u, len - out) /\ out = wr.i * TxSize /\ wr.status = "success"
  BY <1>2 DEF RoomInv, Fits
<1>4. len <= TxNum * TxSize /\ TxNum * TxSize \in Nat
  <2>1. ~OverCap(len)
    BY <1>2 DEF IndInv, WriterInv, Accepted
  <2>2. TxNum * TxSize \in Nat /\ TxSize * TxNum = TxNum * TxSize
    BY RingFacts, Multiples
  <2> HIDE DEF len
  <2> QED BY <1>1, <2>1, <2>2 DEF OverCap
<1>5. u \in Ring /\ v \in Ring /\ ds \in [Ring -> Desc]
  BY PosOfNext, RingFacts DEF IndInv, RingInv, Ring
<1>6. writer \in [Writers -> WriterState]
  BY DEF IndInv, WriterInv
<1>7. writer'[sole] = x /\ x.pc = pc /\ x.w = wr.w /\ x.i = wr.i + 1 /\ x.out_length = out + n
      /\ x.status = wr.status
  BY <1>1, <1>2, <1>6 DEF WriterState
<1>8. n \in Nat /\ n > 0 /\ n <= len - out /\ n <= TxSize /\ (n = TxSize \/ n = len - out)
  BY <1>1, ShareProperties DEF MinOf
<1> HIDE DEF wr, len, out, n, x, ds, u, v, es
<1>9. out + n < len => n = TxSize /\ out + n = (wr.i + 1) * TxSize /\ wr.i + 1 < TxNum
  <2>1. SUFFICES ASSUME out + n < len
                 PROVE n = TxSize /\ out + n = (wr.i + 1) * TxSize /\ wr.i + 1 < TxNum
    OBVIOUS
  <2>2. n = TxSize
    BY <1>1, <1>8, <2>1
  <2>3. (wr.i + 1) * TxSize = wr.i * TxSize + TxSize
    BY <1>1, Multiples
  <2>4. out + n = (wr.i + 1) * TxSize
    BY <1>3, <2>2, <2>3
  <2>5. wr.i + 1 # TxNum
    <3>1. SUFFICES ASSUME wr.i + 1 = TxNum PROVE FALSE
      OBVIOUS
    <3>2. out + n = TxNum * TxSize
      BY <2>4, <3>1
    <3> QED BY <1>1, <1>4, <1>8, <2>1, <3>2
  <2> QED BY <1>1, <2>2, <2>4, <2>5, RingFacts
<1>10. pc = "finish" => out + n = len
  <2>1. out + n = len \/ out + n < len
    BY <1>1, <1>8
  <2> QED BY <1>1, <1>9, <2>1
<1>11. pc = "copy" => out + n < len
  BY <1>1, <1>8
<1>12. ASSUME pc = "copy", NEW k \in Ring, k * TxSize < len - (out + n)
       PROVE  es[RingPos(v, k)].cstop
  <2>1. k \in Nat /\ (k + 1) * TxSize = k * TxSize + TxSize /\ k * TxSize \in Nat
    BY RingFacts, Multiples
  <2>2. (k + 1) * TxSize < len - out
    BY <1>1, <1>8, <1>9, <1>11, <1>12, <2>1, Multiples
  <2>3. k + 1 # TxNum
    <3>1. SUFFICES ASSUME k + 1 = TxNum PROVE FALSE
      OBVIOUS
    <3> QED BY <1>1, <1>4, <2>2, <3>1
  <2>4. k + 1 \in Ring /\ k + 1 # 0
    BY <2>1, <2>3, RingFacts
  <2>5. ds[RingPos(u, k + 1)].cstop
    BY <1>3, <2>2, <2>4 DEF Room
  <2>6. RingPos(v, k) = RingPos(u, k + 1) /\ RingPos(u, k + 1) \in Ring
    BY <1>5, <2>4, PosOfNext, PosType, RingFacts DEF v
  <2>7. RingPos(u, k + 1) # u
    BY <1>5, <2>4, PosInjective, PosZero, RingFacts
  <2>8. es[RingPos(u, k + 1)] = ds[RingPos(u, k + 1)]
    BY <1>2, <1>5, <2>6, <2>7 DEF es, ds
  <2> QED BY <2>5, <2>6, <2>8
<1>13. pc = "copy" => Room(es, v, len - (out + n))
  BY <1>12 DEF Room
<1>14. Fits(es, v, issued', x)
  <2>1. issued'[x.w] = len
    BY <1>2, <1>7 DEF len
  <2>2. pc \in {"finish", "copy"}
    OBVIOUS
  <2> HIDE DEF pc
  <2> QED BY <1>3, <1>7, <1>9, <1>10, <1>11, <1>13, <2>1, <2>2 DEF Fits
<1> QED BY <1>2, <1>7, <1>14 DEF RoomInv, es

\* The writer's room is kept by every step.
LEMMA RoomNext ==
  ASSUME NEW sole \in Writers, OneWriter(sole), IndInv, SoleInv(sole), RoomInv(sole),
         [Next]_vars
  PROVE  RoomInv(sole)'
<1> DEFINE wr == writer[sole]
<1>0. /\ writer \in [Writers -> WriterState] /\ user_tx_desc \in Ring
      /\ tx_descriptors \in [Ring -> Desc] /\ Requesters \subseteq Writers
      /\ QueueInv /\ WriterInv /\ IdleWriter.pc = "idle" /\ IdleWriter.status = "success"
      /\ IdleWriter.out_length = 0 /\ IdleWriter.i = 0
      /\ wr.status = "success" /\ wr \in WriterState
  BY DEF IndInv, WriterInv, RingInv, Ring, Writers, IdleWriter, RoomInv, Fits
<1>1. ASSUME UNCHANGED <<ring, writer>>, wr.pc # "idle" => issued'[wr.w] = issued[wr.w]
      PROVE  RoomInv(sole)'
  <2>1. Fits(tx_descriptors, user_tx_desc, issued', wr)
    BY <1>1 DEF RoomInv, Fits
  <2> QED BY <1>1, <2>1 DEF RoomInv, ring
<1>2. ASSUME NEW x, UNCHANGED ring, writer' = [writer EXCEPT ![sole] = x],
             Fits(tx_descriptors, user_tx_desc, issued', x)
      PROVE  RoomInv(sole)'
  BY <1>0, <1>2 DEF RoomInv, ring
<1>3. \A ds, u, lens : Fits(ds, u, lens, IdleWriter)
  BY <1>0 DEF Fits
<1>4. ASSUME NEW a \in Writers, a # sole PROVE writer[a].pc = "idle"
  BY <1>4 DEF SoleInv
<1>5. ASSUME NEW len \in WriteLens, WriteRefuse(len) \/ WriteForward(len) \/ WriteAdmit(len)
      PROVE  RoomInv(sole)'
  <2>1. issued' = Append(issued, len)
    BY <1>5 DEF WriteRefuse, WriteForward, WriteAdmit, WriteArrives
  <2>2. /\ Len(issued') \in Nat /\ issued'[Len(issued')] = len
        /\ \A w \in 1..Len(issued) : issued'[w] = issued[w]
    BY <1>0, <2>1, WriteAssumption, AcceptedKept
  <2>3. CASE UNCHANGED writer
    <3>1. wr.pc # "idle" => issued'[wr.w] = issued[wr.w]
      BY <1>0, <2>2 DEF WriterInv, Accepted
    <3> QED BY <1>1, <1>5, <2>3, <3>1 DEF WriteRefuse, WriteForward, WriteAdmit
  <2>4. CASE WriteAdmit(len)
    <3> DEFINE w == Len(issued')
               x == [IdleWriter EXCEPT !.pc = "lock", !.w = w]
    <3>1. sole = "write" /\ UNCHANGED ring /\ writer' = [writer EXCEPT !["write"] = x]
          /\ fscc_user_get_tx_space >= len
      BY <2>4 DEF WriteAdmit, SoleInv
    <3>2. x.pc = "lock" /\ x.w = w /\ x.out_length = 0 /\ x.status = "success"
      BY DEF IdleWriter
    <3>3. len \in Nat
      BY WriteAssumption
    <3>4. len - 0 = len
      BY <3>3
    <3>5. \A k \in Ring : k * TxSize < len => Free(k)
      BY <3>1, <3>3, SpaceFits
    <3>6. Room(tx_descriptors, user_tx_desc, len - 0)
      BY <3>4, <3>5 DEF Room, Free
    <3>8. issued'[w] = len
      BY <2>2
    <3> HIDE DEF x, w
    <3>7. Fits(tx_descriptors, user_tx_desc, issued', x)
      BY <3>2, <3>6, <3>8 DEF Fits
    <3> QED BY <1>2, <3>1, <3>7
  <2> QED BY <1>5, <2>3, <2>4 DEF WriteRefuse, WriteForward
<1>6. ASSUME NEW a \in Writers, WriteFrameLock(a) \/ CopyStep(a) PROVE RoomInv(sole)'
  <2>1. a = sole
    BY <1>4, <1>6 DEF WriteFrameLock, CopyStep, WriteFrameFull, WriteFrameDesc, WriteFinish
  <2>2. CASE WriteFrameLock(sole)
    <3> DEFINE x == [wr EXCEPT !.pc = "copy"]
    <3>1. /\ writer' = [writer EXCEPT ![sole] = x] /\ UNCHANGED ring /\ issued' = issued
          /\ wr.pc = "lock"
      BY <1>0, <2>2 DEF WriteFrameLock
    <3>2. x.pc = "copy" /\ x.w = wr.w /\ x.i = wr.i /\ x.out_length = wr.out_length
          /\ x.status = wr.status
      BY <1>0 DEF WriterState
    <3>3. wr.i = 0 /\ wr.out_length = 0
      BY <1>0, <3>1 DEF WriterInv
    <3>4. wr.i * TxSize = 0
      BY <3>3, Multiples
    <3>5. Room(tx_descriptors, user_tx_desc, issued[wr.w] - wr.out_length)
      BY <3>1 DEF RoomInv, Fits
    <3> HIDE DEF x, wr
    <3>6. Fits(tx_descriptors, user_tx_desc, issued', x)
      BY <1>0, <3>1, <3>2, <3>3, <3>4, <3>5 DEF Fits
    <3> QED BY <1>2, <3>1, <3>6
  <2>3. ~WriteFrameFull(sole)
    BY NeverFull DEF WriteFrameFull
  <2>4. CASE WriteFrameDesc(sole)
    BY <2>4, WriteFrameDescRoom
  <2>5. CASE WriteFinish(sole)
    BY <1>2, <1>3, <2>5 DEF WriteFinish
  <2> QED BY <1>6, <2>1, <2>2, <2>3, <2>4, <2>5 DEF CopyStep
<1>7. ASSUME NEW a \in Requesters, FindRequest(a) PROVE RoomInv(sole)'
  <2> DEFINE h == Head(blocking_request_queue)
             x == [IdleWriter EXCEPT !.pc = "retrieve", !.w = h]
  <2>1. /\ UNCHANGED ring /\ issued' = issued
        /\ \/ writer' = [writer EXCEPT ![a] = IdleWriter]
           \/ /\ writer' = [writer EXCEPT ![a] = x] /\ blocking_request_queue # << >>
              /\ fscc_user_get_tx_space >= issued[h]
    BY <1>7 DEF FindRequest
  <2>2. CASE a = sole
    <3>1. CASE writer' = [writer EXCEPT ![a] = IdleWriter]
      BY <1>2, <1>3, <2>1, <2>2, <3>1
    <3>2. CASE /\ writer' = [writer EXCEPT ![a] = x] /\ blocking_request_queue # << >>
               /\ fscc_user_get_tx_space >= issued[h]
      <4>1. issued[h] \in Nat
        <5>1. blocking_request_queue \in Seq(Nat) /\ 1 \in 1..Len(blocking_request_queue)
          BY <1>0, <3>2, EmptySeq, LenProperties DEF QueueInv
        <5>2. h = blocking_request_queue[1]
          BY <5>1
        <5>3. h \in 1..Len(issued) /\ issued \in Seq(Nat)
          BY <1>0, <5>1, <5>2 DEF QueueInv, Accepted
        <5> QED BY <5>3, ElementOfSeq
      <4>2. x.pc = "retrieve" /\ x.w = h /\ x.out_length = 0 /\ x.status = "success"
        BY DEF IdleWriter
      <4> HIDE DEF h
      <4>3. \A k \in Ring : k * TxSize < issued[h] => Free(k)
        BY <3>2, <4>1, SpaceFits
      <4>4. Room(tx_descriptors, user_tx_desc, issued[h] - 0)
        <5>1. issued[h] - 0 = issued[h]
          BY <4>1
        <5> QED BY <4>3, <5>1 DEF Room, Free
      <4> HIDE DEF x
      <4>5. Fits(tx_descriptors, user_tx_desc, issued', x)
        BY <2>1, <4>2, <4>4 DEF Fits
      <4> QED BY <1>2, <2>1, <2>2, <3>2, <4>5
    <3> QED BY <2>1, <3>1, <3>2
  <2>3. CASE a # sole
    <3>1. sole = "write"
      BY <2>3 DEF OneWriter
    <3>2. writer' = [writer EXCEPT ![a] = IdleWriter]
      BY <2>1, <3>1 DEF SoleInv
    <3>3. writer'[sole] = wr
      BY <1>0, <2>3, <3>2
    <3> QED BY <2>1, <3>3 DEF RoomInv, ring
  <2> QED BY <2>2, <2>3
<1>8. ASSUME NEW a \in Requesters, RetrieveFoundRequest(a) PROVE RoomInv(sole)'
  <2> DEFINE x == [wr EXCEPT !.pc = "lock"]
  <2>1. a = sole
    BY <1>0, <1>4, <1>8 DEF RetrieveFoundRequest
  <2>2. /\ UNCHANGED ring /\ issued' = issued /\ wr.pc = "retrieve"
        /\ \/ writer' = [writer EXCEPT ![sole] = IdleWriter]
           \/ writer' = [writer EXCEPT ![sole] = x]
    BY <1>0, <1>8, <2>1 DEF RetrieveFoundRequest
  <2>3. x.pc = "lock" /\ x.w = wr.w /\ x.i = wr.i /\ x.out_length = wr.out_length
        /\ x.status = wr.status
    BY <1>0 DEF WriterState
  <2>4. Room(tx_descriptors, user_tx_desc, issued[wr.w] - wr.out_length)
    BY <2>2 DEF RoomInv, Fits
  <2> HIDE DEF x, wr
  <2>5. Fits(tx_descriptors, user_tx_desc, issued', x)
    BY <1>0, <2>2, <2>3, <2>4 DEF Fits
  <2> QED BY <1>2, <1>3, <2>2, <2>5
<1>9. CASE alls_worker \/ PurgeFinish
  BY <1>1, <1>9 DEF alls_worker, PurgeFinish
<1>10. CASE UNCHANGED user
  <2>0. UNCHANGED <<writer, issued>>
    BY <1>10 DEF user
  <2>1. ASSUME NEW o \in Oframes, OframeDesc(o) PROVE RoomInv(sole)'
    <3>1. /\ tx_descriptors' = [tx_descriptors EXCEPT ![fifo_tx_desc] = EmptyDesc]
          /\ user_tx_desc' = user_tx_desc
      BY <2>1 DEF OframeDesc
    <3>2. \A i \in Ring : tx_descriptors[i].cstop => tx_descriptors'[i].cstop
      BY <1>0, <3>1 DEF EmptyDesc
    <3>3. Fits(tx_descriptors', user_tx_desc, issued, wr)
      BY <1>0, <3>2, RoomKept DEF RoomInv
    <3> QED BY <2>0, <3>1, <3>3 DEF RoomInv
  <2>2. ASSUME NEW a \in Writers, WriteFrameDesc(a) PROVE RoomInv(sole)'
    <3>1. a = sole
      BY <1>4, <2>2 DEF WriteFrameDesc
    <3> QED BY <2>2, <3>1, WriteFrameDescRoom
  <2>3. CASE PurgeReset
    <3>1. tx_descriptors' = [i \in 0..(TxNum - 1) |-> EmptyDesc] /\ user_tx_desc' = 0
      BY <2>3 DEF PurgeReset
    <3>2. \A k \in Ring : tx_descriptors'[RingPos(0, k)].cstop
      <4>1. \A k \in Ring : RingPos(0, k) \in Ring
        BY PosType, RingFacts
      <4> QED BY <3>1, <4>1 DEF Ring, EmptyDesc
    <3>3. \A m : Room(tx_descriptors', 0, m)
      BY <3>2 DEF Room
    <3>4. Fits(tx_descriptors', 0, issued, wr)
      BY <3>3 DEF RoomInv, Fits
    <3> QED BY <2>0, <3>1, <3>4 DEF RoomInv
  <2>4. CASE UNCHANGED ring
    BY <1>1, <2>0, <2>4
  <2> QED BY <2>1, <2>2, <2>3, <2>4, RingFrame DEF vars
<1> QED BY <1>5, <1>6, <1>7, <1>8, <1>9, <1>10, UserFrame DEF vars

-----------------------------------------------------------------------------
(* Completions.                                                            *)

\* The request lengths known before are known after a step.
LEMMA IssuedKept ==
  ASSUME IndInv, [Next]_vars
  PROVE  \A w \in 1..Len(issued) : w \in 1..Len(issued') /\ issued'[w] = issued[w]
<1>0. QueueInv
  BY DEF IndInv
<1>1. ASSUME NEW len \in WriteLens, issued' = Append(issued, len)
      PROVE  \A w \in 1..Len(issued) : w \in 1..Len(issued') /\ issued'[w] = issued[w]
  BY <1>0, <1>1, WriteAssumption, AcceptedKept
<1>2. \/ \E len \in WriteLens : issued' = Append(issued, len)
      \/ issued' = issued
  BY UserFrame DEF WriteRefuse, WriteForward, WriteAdmit, WriteArrives, WriteFrameLock,
     CopyStep, WriteFrameFull, WriteFrameDesc, WriteFinish, FindRequest, RetrieveFoundRequest,
     alls_worker, PurgeFinish, user, vars
<1> QED BY <1>1, <1>2

\* What was told stays told.
LEMMA ToldKept ==
  ASSUME NEW lens, NEW more,
         \A w \in 1..Len(lens) : w \in 1..Len(more) /\ more[w] = lens[w],
         NEW c, Told(lens, c)
  PROVE  Told(more, c)
BY DEF Told

\* Completions that tell the truth keep DoneInv.
LEMMA DoneMore ==
  ASSUME NEW lens, NEW more \in Seq(Completions), NEW done \in Seq(Completions),
         \A i \in 1..Len(done) : Told(lens, done[i]),
         \A i \in 1..Len(more) : Told(lens, more[i])
  PROVE  /\ done \o more \in Seq(Completions)
         /\ \A i \in 1..Len(done \o more) : Told(lens, (done \o more)[i])
<1> DEFINE all == done \o more
<1>1. Len(done) \in Nat /\ Len(more) \in Nat
  BY LenProperties
<1>2. /\ all \in Seq(Completions) /\ Len(all) = Len(done) + Len(more)
      /\ \A i \in 1..(Len(done) + Len(more)) :
            all[i] = IF i <= Len(done) THEN done[i] ELSE more[i - Len(done)]
  BY ConcatProperties
<1> HIDE DEF all
<1>3. ASSUME NEW i \in 1..Len(all) PROVE Told(lens, all[i])
  <2>1. CASE i <= Len(done)
    <3>1. i \in 1..Len(done) /\ all[i] = done[i]
      BY <1>1, <1>2, <2>1
    <3> QED BY <3>1
  <2>2. CASE ~(i <= Len(done))
    <3>1. i - Len(done) \in 1..Len(more) /\ all[i] = more[i - Len(done)]
      BY <1>1, <1>2, <2>2
    <3> QED BY <3>1
  <2> QED BY <2>1, <2>2
<1> QED BY <1>2, <1>3 DEF all

\* One more completion that tells the truth.
LEMMA DoneOne ==
  ASSUME NEW lens, NEW c \in Completions, NEW done \in Seq(Completions),
         \A i \in 1..Len(done) : Told(lens, done[i]), Told(lens, c)
  PROVE  /\ Append(done, c) \in Seq(Completions)
         /\ \A i \in 1..Len(Append(done, c)) : Told(lens, Append(done, c)[i])
<1> DEFINE all == Append(done, c)
<1>1. /\ all \in Seq(Completions) /\ Len(all) = Len(done) + 1
      /\ \A i \in 1..Len(done) : all[i] = done[i]
      /\ all[Len(done) + 1] = c
      /\ \A i \in 1..(Len(done) + 1) : i \in 1..Len(done) \/ i = Len(done) + 1
  BY AppendKeeps
<1> HIDE DEF all
<1>2. \A i \in 1..Len(all) : Told(lens, all[i])
  BY <1>1
<1> QED BY <1>1, <1>2 DEF all

\* Every completion tells the truth.
LEMMA DoneNext ==
  ASSUME NEW sole \in Writers, OneWriter(sole), IndInv, SoleInv(sole), RoomInv(sole),
         DoneInv, [Next]_vars
  PROVE  DoneInv'
<1> DEFINE lens == issued'
<1>0. QueueInv /\ WriterInv /\ completed \in Seq(Completions) /\ issued \in Seq(Nat)
  BY DEF IndInv, DoneInv, QueueInv
<1>1. \A w \in 1..Len(issued) : w \in 1..Len(lens) /\ lens[w] = issued[w]
  BY IssuedKept
<1>2. \A i \in 1..Len(completed) : Told(lens, completed[i])
  BY <1>1, ToldKept DEF DoneInv
<1> HIDE DEF lens
<1>3. ASSUME NEW c \in Completions, Told(lens, c), completed' = Append(completed, c)
      PROVE  DoneInv'
  BY <1>0, <1>2, <1>3, DoneOne DEF DoneInv, lens
<1>4. ASSUME NEW status \in {"success", "cancelled"}, NEW more,
             more = [j \in 1..Len(write_queue2) |->
                       Completion(write_queue2[j], status,
                                  IF status = "success" THEN issued[write_queue2[j]] ELSE 0)],
             completed' = completed \o more
      PROVE  DoneInv'
  <2>1. write_queue2 \in Seq(Nat) /\ Len(write_queue2) \in Nat
    BY <1>0, LenProperties DEF QueueInv
  <2>2. ASSUME NEW j \in 1..Len(write_queue2)
        PROVE  more[j] \in Completions /\ Told(lens, more[j])
    <3> DEFINE w == write_queue2[j]
               n == IF status = "success" THEN issued[w] ELSE 0
    <3>1. w \in Nat /\ w \in 1..Len(issued)
      BY <1>0, <2>1, ElementOfSeq DEF QueueInv
    <3>2. more[j] = [w |-> w, status |-> status, count |-> n]
      BY <1>4 DEF Completion
    <3>3. n \in Nat
      BY <1>0, <3>1, ElementOfSeq
    <3>4. w \in 1..Len(lens) /\ lens[w] = issued[w]
      BY <1>1, <3>1
    <3>5. n = IF status = "success" THEN lens[w] ELSE 0
      BY <3>4
    <3> HIDE DEF w, n
    <3> QED BY <1>4, <3>1, <3>2, <3>3, <3>4, <3>5 DEF Told, Completions
  <2>3. more \in Seq(Completions) /\ Len(more) = Len(write_queue2)
    <3>1. more \in [1..Len(write_queue2) -> Completions]
      BY <1>4, <2>2
    <3> QED BY <2>1, <3>1, FunctionIsSeq
  <2>4. \A i \in 1..Len(more) : Told(lens, more[i])
    BY <2>2, <2>3
  <2>5. /\ completed \o more \in Seq(Completions)
        /\ \A i \in 1..Len(completed \o more) : Told(lens, (completed \o more)[i])
    BY <1>0, <1>2, <2>3, <2>4, DoneMore
  <2> QED BY <1>4, <2>5 DEF DoneInv, lens
<1>5. CASE UNCHANGED completed
  BY <1>0, <1>2, <1>5 DEF DoneInv, lens
<1>6. ASSUME NEW len \in WriteLens, WriteRefuse(len) PROVE DoneInv'
  <2>1. lens = Append(issued, len) /\ len \in Nat
    BY <1>6, WriteAssumption DEF WriteRefuse, WriteArrives, lens
  <2> DEFINE w == Len(lens)
  <2>2. w \in Nat /\ w \in 1..Len(lens) /\ lens[w] = len
    BY <1>0, <2>1, WriteAssumption, AcceptedKept DEF lens
  <2>3. PICK status \in {"success", "too_small", "timeout"} :
          /\ completed' = Append(completed, Completion(w, status, 0))
          /\ status = "success" => len = 0
    BY <1>6 DEF WriteRefuse, lens
  <2> HIDE DEF w
  <2>4. Completion(w, status, 0) \in Completions
    BY <2>2 DEF Completion, Completions
  <2>5. Told(lens, Completion(w, status, 0))
    <3>1. /\ Completion(w, status, 0).w = w /\ Completion(w, status, 0).status = status
          /\ Completion(w, status, 0).count = 0
      BY DEF Completion
    <3> QED BY <2>2, <2>3, <2>4, <3>1 DEF Told
  <2> QED BY <1>3, <2>3, <2>4, <2>5
<1>7. ASSUME NEW a \in Writers, WriteFinish(a) PROVE DoneInv'
  <2> DEFINE wr == writer[a]
             c  == Completion(wr.w, wr.status, wr.out_length)
  <2>1. a = sole
    BY <1>7 DEF WriteFinish, SoleInv
  <2>2. wr \in WriterState /\ wr.w \in Nat /\ wr.out_length \in Nat
    BY <1>0 DEF WriterInv, WriterState
  <2>3. wr.w \in 1..Len(issued) /\ wr.out_length = issued[wr.w] /\ wr.status = "success"
    BY <1>0, <1>7, <2>1 DEF WriteFinish, WriterInv, Accepted, RoomInv, Fits
  <2>4. completed' = completed \/ completed' = Append(completed, c)
    BY <1>7 DEF WriteFinish
  <2>5. c = [w |-> wr.w, status |-> "success", count |-> wr.out_length]
    BY <2>3 DEF Completion
  <2>6. wr.w \in 1..Len(lens) /\ lens[wr.w] = issued[wr.w]
    BY <1>1, <2>3
  <2> HIDE DEF c, wr
  <2>7. c \in Completions /\ Told(lens, c)
    BY <2>2, <2>3, <2>5, <2>6 DEF Completions, Told
  <2> QED BY <1>3, <1>5, <2>4, <2>7
<1>8. CASE alls_worker
  <2> DEFINE more == [j \in 1..Len(write_queue2) |->
                        Completion(write_queue2[j], "success", issued[write_queue2[j]])]
  <2>1. completed' = completed \/ completed' = completed \o more
    BY <1>8 DEF alls_worker
  <2>2. more = [j \in 1..Len(write_queue2) |->
                  Completion(write_queue2[j], "success",
                             IF "success" = "success" THEN issued[write_queue2[j]] ELSE 0)]
    OBVIOUS
  <2> HIDE DEF more
  <2> QED BY <1>4, <1>5, <2>1, <2>2
<1>9. CASE PurgeFinish
  <2> DEFINE more == [j \in 1..Len(write_queue2) |-> Completion(write_queue2[j], "cancelled", 0)]
  <2>1. completed' = completed \o more
    BY <1>9 DEF PurgeFinish
  <2>2. more = [j \in 1..Len(write_queue2) |->
                  Completion(write_queue2[j], "cancelled",
                             IF "cancelled" = "success" THEN issued[write_queue2[j]] ELSE 0)]
    OBVIOUS
  <2> HIDE DEF more
  <2> QED BY <1>4, <2>1, <2>2
<1>10. \/ \E len \in WriteLens : WriteRefuse(len)
       \/ \E a \in Writers : WriteFinish(a)
       \/ alls_worker \/ PurgeFinish \/ UNCHANGED completed
  BY UserFrame DEF WriteForward, WriteAdmit, WriteFrameLock, CopyStep, WriteFrameFull,
     WriteFrameDesc, FindRequest, RetrieveFoundRequest, user, vars
<1> QED BY <1>5, <1>6, <1>7, <1>8, <1>9, <1>10

-----------------------------------------------------------------------------
\* Nothing was promised and nothing completed in a freshly created port.
LEMMA WriteInit ==
  ASSUME NEW sole \in Writers, OneWriter(sole)
  PROVE  Init => IndInv /\ WriteInv(sole)
<1> SUFFICES ASSUME Init PROVE WriteInv(sole)
  BY InitIndInv
<1>1. \A a \in Writers : writer[a] = IdleWriter
  BY DEF Init
<1>2. SoleInv(sole)
  <2>1. settings.blocking_write <=> sole # "write"
    <3>1. settings \in InitialSettings
      BY DEF Init
    <3>2. sole # "write" => settings.blocking_write
      BY <3>1 DEF OneWriter
    <3>3. sole = "write" => ~settings.blocking_write
      BY <3>1, WriteAssumption DEF OneWriter
    <3> QED BY <3>2, <3>3
  <2>2. \A a \in Writers : writer[a].pc = "idle"
    BY <1>1 DEF IdleWriter
  <2> QED BY <2>1, <2>2 DEF Init, SoleInv
<1>3. RoomInv(sole)
  BY <1>1 DEF RoomInv, Fits, IdleWriter
<1>4. DoneInv
  BY DEF Init, DoneInv
<1> QED BY <1>2, <1>3, <1>4 DEF WriteInv

\* With one writer at a time, what it was promised is kept, and what a completion
\* says is true.
LEMMA WriteNext ==
  ASSUME NEW sole \in Writers, OneWriter(sole)
  PROVE  IndInv /\ WriteInv(sole) /\ [Next]_vars => (IndInv /\ WriteInv(sole))'
<1> SUFFICES ASSUME IndInv, WriteInv(sole), [Next]_vars PROVE IndInv' /\ WriteInv(sole)'
  OBVIOUS
<1>1. IndInv'
  BY DeviceNext, DpcNext, LockNext, RingNext, OframeNext, UserNext, IoctlNext DEF IndInv
<1>2. SoleInv(sole)' /\ RoomInv(sole)' /\ DoneInv'
  BY SoleNext, RoomNext, DoneNext DEF WriteInv
<1> QED BY <1>1, <1>2 DEF WriteInv

\* A write is reported as successful only if all of it went into the ring, and a
\* refused one left nothing behind, when no two threads write at the same time: no
\* write blocks, or every write does and request_worker does not overlap itself.
THEOREM WriteSafety ==
  ASSUME NEW sole \in Writers, OneWriter(sole)
  PROVE  Spec => []WriteAllOrNothing
<1>1. WriteInv(sole) => WriteAllOrNothing
  BY DEF WriteInv, DoneInv, Told, WriteAllOrNothing
<1> QED BY <1>1, WriteInit, WriteNext, PTL DEF Spec

-----------------------------------------------------------------------------
(* What a purge threw away.                                                *)

\* Bytes of requests that no purge threw away; Pad is one.
FreshByte == {b \in Byte : b[1] \notin purged}

\* The ring and the card hold such bytes only, a thread works on a request that was not
\* thrown away, and a frame in the card has a first byte.
FreshInv ==
  /\ purged \subseteq 1..Len(issued)
  /\ \A a \in Writers : writer[a].pc # "idle" => writer[a].w \notin purged
  /\ \A i \in Ring : tx_descriptors[i].data \in Seq(FreshByte)
  /\ txfifo \in Seq(FreshByte) /\ wire.out \in Seq(FreshByte)
  /\ bcfifo \in Seq(Nat \ {0})

\* Nothing stale has been sent.
SentFresh == sent \in Seq([data : Seq(Byte), stale : {FALSE}])

\* Pushing fresh bytes leaves fresh bytes in the FIFO.
LEMMA PushFresh ==
  ASSUME FreshInv, NEW bytes \in Seq(FreshByte)
  PROVE  PushWords(bytes) \in Seq(FreshByte)
<1> DEFINE p    == (4 - (Len(bytes) % 4)) % 4
           pads == [j \in 1..p |-> Pad]
           all  == (txfifo \o bytes) \o pads
           m    == MinOf(Len(all), FifoSize)
<1>0. PushWords(bytes) = SubSeq(all, 1, m)
  BY DEF PushWords
<1>1. p \in Nat
  <2>1. Len(bytes) \in Nat
    BY LenProperties
  <2> QED BY <2>1
<1>2. pads \in Seq(FreshByte)
  <2>1. Pad \in FreshByte
    BY DEF Pad, FreshByte, FreshInv, Byte
  <2>2. pads \in [1..p -> FreshByte]
    BY <2>1
  <2> HIDE DEF p, pads
  <2> QED BY <1>1, <2>2, FunctionIsSeq
<1> HIDE DEF p, pads
<1>3. txfifo \o bytes \in Seq(FreshByte)
  BY ConcatProperties DEF FreshInv
<1>4. all \in Seq(FreshByte) /\ Len(all) \in Nat
  BY <1>2, <1>3, ConcatProperties, LenProperties
<1> HIDE DEF all
<1>5. m \in Int /\ m <= Len(all)
  BY <1>4, FifoAssumption DEF MinOf
<1> HIDE DEF m
<1> QED BY <1>0, <1>4, <1>5, FrontProperties

\* What is sent is fresh: a finished frame has a first byte, and it is fresh.
LEMMA SendWordFresh ==
  ASSUME IndInv, FreshInv, SentFresh, SendWord
  PROVE  FreshInv' /\ SentFresh'
<1> DEFINE size  == Head(bcfifo)
           m     == MinOf(4, size - Len(wire.out))
           front == SubSeq(txfifo, 1, m)
           out   == wire.out \o front
           rest  == SubSeq(txfifo, 5, Len(txfifo))
           frame == [data |-> out, stale |-> out[1][1] \in purged]
<1>1. txfifo \in Seq(FreshByte) /\ Len(txfifo) \in Nat /\ Len(txfifo) >= 4
  <2>1. txfifo \in Seq(FreshByte) /\ Len(txfifo) \in Nat /\ Len(txfifo) # 0
    BY EmptySeq, LenProperties DEF FreshInv, SendWord
  <2>2. Len(txfifo) % 4 = 0
    BY DEF IndInv, DeviceInv
  <2> QED BY <2>1, <2>2
<1>2. bcfifo \in Seq(Nat \ {0}) /\ size \in Nat \ {0} /\ Tail(bcfifo) \in Seq(Nat \ {0})
  <2>1. bcfifo \in Seq(Nat \ {0}) /\ bcfifo # << >>
    BY DEF FreshInv, SendWord
  <2> QED BY <2>1, HeadTailProperties
<1>3. wire.out \in Seq(FreshByte) /\ Len(wire.out) \in Nat
      /\ wire \in [xf : BOOLEAN, out : Seq(Byte)]
  BY LenProperties DEF FreshInv, IndInv, DeviceInv
<1>4. /\ txfifo' = rest
      /\ UNCHANGED <<purged, issued, writer, tx_descriptors>>
      /\ \/ /\ Len(out) = size
            /\ bcfifo' = Tail(bcfifo)
            /\ wire' = [xf |-> Tail(bcfifo) # << >>, out |-> << >>]
            /\ sent' = Append(sent, frame)
         \/ /\ wire' = [wire EXCEPT !.out = out]
            /\ UNCHANGED <<bcfifo, sent>>
  BY DEF SendWord, ring, user, ioctl
<1> HIDE DEF size
<1>5. m \in Int /\ m <= Len(txfifo)
  BY <1>1, <1>2, <1>3 DEF MinOf
<1> HIDE DEF m
<1>6. front \in Seq(FreshByte)
  BY <1>1, <1>5, FrontProperties
<1> HIDE DEF front
<1>7. out \in Seq(FreshByte)
  BY <1>3, <1>6, ConcatProperties
<1>8. rest \in Seq(FreshByte)
  <2>1. \A i \in 5..Len(txfifo) : txfifo[i] \in FreshByte
    BY <1>1, ElementOfSeq
  <2> QED BY <1>1, <2>1, SubSeqProperties
<1> HIDE DEF out, rest
<1>9. ASSUME Len(out) = size PROVE frame \in [data : Seq(Byte), stale : {FALSE}]
  <2>1. 1 \in 1..Len(out)
    BY <1>2, <1>9
  <2>2. out[1] \in FreshByte
    BY <1>7, <2>1, ElementOfSeq
  <2>3. out[1][1] \notin purged
    BY <2>2 DEF FreshByte
  <2>4. \A i \in 1..Len(out) : out[i] \in Byte
    BY <1>7, ElementOfSeq DEF FreshByte
  <2>5. out \in Seq(Byte)
    <3>1. out \in [1..Len(out) -> FreshByte] /\ Len(out) \in Nat
      BY <1>7, LenProperties
    <3>2. out \in [1..Len(out) -> Byte]
      BY <3>1, <2>4
    <3> QED BY <3>1, <3>2, FunctionIsSeq
  <2>6. (out[1][1] \in purged) = FALSE
    BY <2>3
  <2>7. frame = [data |-> out, stale |-> FALSE]
    BY <2>6
  <2> HIDE DEF frame
  <2> QED BY <2>5, <2>7
<1> HIDE DEF frame
<1>10. SentFresh'
  <2>1. CASE UNCHANGED sent
    BY <2>1 DEF SentFresh
  <2>2. CASE Len(out) = size /\ sent' = Append(sent, frame)
    BY <1>9, <2>2, AppendProperties DEF SentFresh
  <2> QED BY <1>4, <2>1, <2>2
<1>11. wire.out' \in Seq(FreshByte)
  <2>1. << >> \in Seq(FreshByte)
    OBVIOUS
  <2>2. CASE wire' = [xf |-> Tail(bcfifo) # << >>, out |-> << >>]
    BY <2>1, <2>2
  <2>3. CASE wire' = [wire EXCEPT !.out = out]
    BY <1>3, <1>7, <2>3
  <2> QED BY <1>4, <2>2, <2>3
<1>12. FreshByte' = FreshByte
  BY <1>4 DEF FreshByte
<1>13. bcfifo' \in Seq(Nat \ {0}) /\ txfifo' \in Seq(FreshByte)
  BY <1>2, <1>4, <1>8
<1>14. /\ purged' \subseteq 1..Len(issued')
       /\ \A a \in Writers : writer'[a].pc # "idle" => writer'[a].w \notin purged'
       /\ \A i \in Ring : tx_descriptors'[i].data \in Seq(FreshByte)
  BY <1>4 DEF FreshInv
<1> QED BY <1>10, <1>11, <1>12, <1>13, <1>14 DEF FreshInv

\* A thread's locals change, the purged requests and the bytes do not.
LEMMA FreshWriter ==
  ASSUME IndInv, FreshInv, UNCHANGED <<device, ring, ioctl>>,
         \A w \in 1..Len(issued) : w \in 1..Len(issued'),
         \A a \in Writers : writer'[a].pc # "idle" => writer'[a].w \notin purged
  PROVE  FreshInv'
<1>1. FreshByte' = FreshByte
  BY DEF FreshByte, ioctl
<1>2. purged' \subseteq 1..Len(issued')
  BY DEF FreshInv, ioctl
<1>3. UNCHANGED <<tx_descriptors, txfifo, wire, bcfifo, purged>>
  BY DEF device, ring, ioctl
<1> QED BY <1>1, <1>2, <1>3 DEF FreshInv

\* A frame copied into the ring belongs to a request that was not thrown away.
LEMMA WriteFrameDescFresh ==
  ASSUME IndInv, FreshInv, NEW a \in Writers, WriteFrameDesc(a)
  PROVE  FreshInv'
<1> DEFINE wr == writer[a]
           n  == MinOf(issued[wr.w] - wr.out_length, TxSize)
           d  == FilledDesc(wr.w, issued[wr.w], wr.i, wr.out_length, n)
           pc == IF wr.out_length + n = issued[wr.w] \/ wr.i + 1 = TxNum THEN "finish" ELSE "copy"
           x  == [wr EXCEPT !.i = wr.i + 1, !.out_length = wr.out_length + n, !.pc = pc]
<1>1. /\ wr \in WriterState /\ wr.w \in Nat /\ wr.i \in Nat /\ wr.out_length \in Nat
      /\ issued[wr.w] \in Nat /\ wr.out_length < issued[wr.w]
  BY CopyFacts DEF WriteFrameDesc, IndInv
<1>2. n \in Nat
  BY <1>1, ShareProperties
<1>3. /\ tx_descriptors' = [tx_descriptors EXCEPT ![user_tx_desc] = d]
      /\ UNCHANGED <<device, issued, ioctl>>
      /\ writer' = [writer EXCEPT ![a] = x]
      /\ wr.pc = "copy"
  BY DEF WriteFrameDesc
<1>10. x.w = wr.w
  BY <1>1 DEF WriterState
<1> HIDE DEF x
<1>4. wr.w \notin purged
  BY <1>3 DEF FreshInv
<1> HIDE DEF wr, n
<1>5. d.data \in Seq(FreshByte)
  <2> DEFINE bytes == [k \in 1..n |-> <<wr.w, wr.out_length + k>>]
  <2>1. bytes \in [1..n -> FreshByte]
    BY <1>1, <1>2, <1>4 DEF FreshByte, Byte
  <2>2. d.data = bytes
    BY DEF FilledDesc
  <2> HIDE DEF bytes, d
  <2> QED BY <1>2, <2>1, <2>2, FunctionIsSeq
<1> HIDE DEF d
<1>6. FreshByte' = FreshByte /\ purged' = purged
  BY <1>3 DEF FreshByte, ioctl
<1>7. \A i \in Ring : tx_descriptors'[i].data \in Seq(FreshByte)
  BY <1>3, <1>5 DEF FreshInv, IndInv, RingInv, Ring
<1>8. \A b \in Writers : writer'[b].pc # "idle" => writer'[b].w \notin purged
  <2>1. writer \in [Writers -> WriterState]
    BY DEF IndInv, WriterInv
  <2> QED BY <1>3, <1>4, <1>10, <2>1 DEF FreshInv
<1>9. txfifo' = txfifo /\ wire' = wire /\ bcfifo' = bcfifo /\ issued' = issued
  BY <1>3 DEF device
<1> QED BY <1>6, <1>7, <1>8, <1>9 DEF FreshInv

\* A purge with a clock leaves nothing in the ring and in the card; the request that
\* is being written is not among those it throws away.
LEMMA PurgeFresh ==
  ASSUME IndInv, FreshInv, PurgeReset
  PROVE  FreshInv'
<1>1. /\ tx_descriptors' = [i \in 0..(TxNum - 1) |-> EmptyDesc]
      /\ UNCHANGED <<writer, issued>>
  BY DEF PurgeReset, user
<1>2. \A i \in Ring : tx_descriptors'[i].data = << >>
  BY <1>1 DEF Ring, EmptyDesc
<1>3. \A S : << >> \in Seq(S)
  OBVIOUS
<1>4. CASE clock.on
  <2>1. /\ txfifo' = << >> /\ bcfifo' = << >> /\ wire' = [xf |-> FALSE, out |-> << >>]
        /\ purged' = purged \cup Settled
    BY <1>4 DEF PurgeReset
  <2>2. purged' \subseteq 1..Len(issued)
    BY <2>1 DEF FreshInv, Settled
  <2>3. \A a \in Writers : writer[a].pc # "idle" => writer[a].w \notin purged'
    BY <2>1 DEF FreshInv, Settled
  <2>4. wire'.out = << >>
    BY <2>1
  <2>5. \A i \in Ring : tx_descriptors'[i].data \in Seq(FreshByte')
    BY <1>2, <1>3
  <2>6. txfifo' \in Seq(FreshByte') /\ wire'.out \in Seq(FreshByte') /\ bcfifo' \in Seq(Nat \ {0})
    BY <2>1, <2>4, <1>3
  <2> QED BY <1>1, <2>2, <2>3, <2>5, <2>6 DEF FreshInv
<1>5. CASE ~clock.on
  <2>1. UNCHANGED <<txfifo, bcfifo, wire, purged>>
    BY <1>5 DEF PurgeReset
  <2>2. FreshByte' = FreshByte
    BY <2>1 DEF FreshByte
  <2> QED BY <1>1, <1>2, <1>3, <2>1, <2>2 DEF FreshInv
<1> QED BY <1>4, <1>5

\* While no write blocks, every step keeps the bytes fresh.
LEMMA FreshNext ==
  ASSUME OneWriter("write"), IndInv, SoleInv("write"), FreshInv, SentFresh, [Next]_vars
  PROVE  FreshInv' /\ SentFresh'
<1>0. /\ writer \in [Writers -> WriterState] /\ WriterInv /\ QueueInv
      /\ \A a \in Writers : writer[a].pc # "idle" => writer[a].w \notin purged
      /\ WriteLens \subseteq Nat
  BY WriteAssumption DEF IndInv, WriterInv, FreshInv
<1>1. \A w \in 1..Len(issued) : w \in 1..Len(issued')
  BY IssuedKept
<1>2. CASE SendWord
  BY <1>2, SendWordFresh
<1>3. SUFFICES ASSUME ~SendWord PROVE FreshInv' /\ SentFresh'
  BY <1>2
<1>4. SentFresh'
  <2>1. sent' = sent
    BY <1>3 DEF Next, OframeStep, CopyStep, ClockChange, fscc_isr, timer_handler,
       OframeSample, OframeLock, OframeDesc, OframeUnlock, ExecuteTransmit, WriteRefuse,
       WriteForward, WriteAdmit, WriteFrameLock, WriteFrameFull, WriteFrameDesc, WriteFinish,
       FindRequest, RetrieveFoundRequest, alls_worker, PurgeReset, PurgeQueues, PurgeFinish,
       ToggleSetting, vars
  <2> QED BY <2>1 DEF SentFresh
<1>5. ASSUME NEW o \in Oframes, OframeDesc(o) PROVE FreshInv'
  <2> DEFINE d == tx_descriptors[fifo_tx_desc].data
  <2>1. /\ txfifo' = PushWords(d)
        /\ UNCHANGED <<bcfifo, wire, writer, issued, purged>>
        /\ tx_descriptors' = [tx_descriptors EXCEPT ![fifo_tx_desc] = EmptyDesc]
    BY <1>5 DEF OframeDesc, user, ioctl
  <2>2. fifo_tx_desc \in Ring /\ tx_descriptors \in [Ring -> Desc]
    BY DEF IndInv, RingInv, Ring
  <2>3. d \in Seq(FreshByte)
    BY <2>2 DEF FreshInv
  <2> HIDE DEF d
  <2>4. txfifo' \in Seq(FreshByte)
    BY <2>1, <2>3, PushFresh
  <2>5. \A i \in Ring : tx_descriptors'[i].data \in Seq(FreshByte)
    <3>1. EmptyDesc.data \in Seq(FreshByte)
      BY DEF EmptyDesc
    <3> QED BY <2>1, <2>2, <3>1 DEF FreshInv
  <2>6. FreshByte' = FreshByte
    BY <2>1 DEF FreshByte
  <2> QED BY <2>1, <2>4, <2>5, <2>6 DEF FreshInv
<1>6. ASSUME NEW o \in Oframes, OframeUnlock(o) PROVE FreshInv'
  <2>1. UNCHANGED <<txfifo, wire, writer, issued, purged, tx_descriptors>>
    BY <1>6 DEF OframeUnlock, user, ioctl, ring
  <2>2. oframe[o].frame_size \in Nat
    BY DEF IndInv, OframeInv, OframeState
  <2>3. bcfifo' \in Seq(Nat \ {0})
    BY <1>6, <2>2, AppendProperties DEF OframeUnlock, FreshInv
  <2>4. FreshByte' = FreshByte
    BY <2>1 DEF FreshByte
  <2> QED BY <2>1, <2>3, <2>4 DEF FreshInv
<1>7. ASSUME NEW o \in Oframes, ExecuteTransmit(o) PROVE FreshInv'
  <2>1. UNCHANGED <<txfifo, bcfifo, writer, issued, purged, tx_descriptors>>
    BY <1>7 DEF ExecuteTransmit, user, ioctl, ring
  <2>2. wire'.out = wire.out
    BY <1>7 DEF ExecuteTransmit, IndInv, DeviceInv
  <2>3. FreshByte' = FreshByte
    BY <2>1 DEF FreshByte
  <2> QED BY <2>1, <2>2, <2>3 DEF FreshInv
<1>8. ASSUME ClockChange \/ fscc_isr PROVE FreshInv'
  <2>1. UNCHANGED <<txfifo, bcfifo, wire, writer, issued, purged, tx_descriptors>>
    BY <1>8 DEF ClockChange, fscc_isr, user, ioctl, ring
  <2>2. FreshByte' = FreshByte
    BY <2>1 DEF FreshByte
  <2> QED BY <2>1, <2>2 DEF FreshInv
<1>9. ASSUME PurgeReset PROVE FreshInv'
  BY <1>9, PurgeFresh
<1>10. ASSUME NEW a \in Writers, WriteFrameDesc(a) PROVE FreshInv'
  BY <1>10, WriteFrameDescFresh
<1>11. ASSUME UNCHANGED device, UNCHANGED ring, UNCHANGED ioctl,
              \A a \in Writers : writer'[a].pc # "idle" => writer'[a].w \notin purged
       PROVE  FreshInv'
  BY <1>1, <1>11, FreshWriter
<1>12. ASSUME NEW len \in WriteLens, WriteRefuse(len) \/ WriteForward(len) PROVE FreshInv'
  <2>1. UNCHANGED device /\ UNCHANGED ring /\ UNCHANGED ioctl /\ writer' = writer
    BY <1>12 DEF WriteRefuse, WriteForward
  <2> QED BY <1>0, <1>11, <2>1
<1>13. ASSUME NEW len \in WriteLens, WriteAdmit(len) PROVE FreshInv'
  <2> DEFINE v == [IdleWriter EXCEPT !.pc = "lock", !.w = Len(issued')]
  <2>1. /\ UNCHANGED device /\ UNCHANGED ring /\ UNCHANGED ioctl
        /\ issued' = Append(issued, len) /\ writer' = [writer EXCEPT !["write"] = v]
    BY <1>13 DEF WriteAdmit, WriteArrives
  <2>2. Len(issued') = Len(issued) + 1 /\ Len(issued) \in Nat
    BY <1>0, <2>1, AcceptedKept, LenProperties DEF QueueInv
  <2>3. Len(issued') \notin purged
    BY <2>2 DEF FreshInv
  <2>4. v.w = Len(issued')
    BY DEF IdleWriter
  <2> HIDE DEF v
  <2>5. \A a \in Writers : writer'[a].pc # "idle" => writer'[a].w \notin purged
    BY <1>0, <2>1, <2>3, <2>4
  <2> QED BY <1>11, <2>1, <2>5
<1>14. ASSUME NEW a \in Writers, WriteFrameLock(a) \/ WriteFrameFull(a) \/ WriteFinish(a)
       PROVE  FreshInv'
  <2>1. UNCHANGED device /\ UNCHANGED ring /\ UNCHANGED ioctl
    BY <1>14 DEF WriteFrameLock, WriteFrameFull, WriteFinish
  <2>2. \/ writer' = [writer EXCEPT ![a] = IdleWriter]
        \/ /\ writer[a].pc # "idle"
           /\ \E x : writer' = [writer EXCEPT ![a] = x] /\ x.w = writer[a].w
    BY <1>0, <1>14 DEF WriteFrameLock, WriteFrameFull, WriteFinish, WriterState
  <2>3. IdleWriter.pc = "idle"
    BY DEF IdleWriter
  <2>4. \A b \in Writers : writer'[b].pc # "idle" => writer'[b].w \notin purged
    BY <1>0, <2>2, <2>3
  <2> QED BY <1>11, <2>1, <2>4
<1>15. ASSUME NEW a \in Requesters, FindRequest(a) \/ RetrieveFoundRequest(a) PROVE FreshInv'
  <2>1. UNCHANGED device /\ UNCHANGED ring /\ UNCHANGED ioctl
    BY <1>15 DEF FindRequest, RetrieveFoundRequest
  <2>2. blocking_request_queue = << >> /\ a \in Writers /\ a # "write"
    BY WriteAssumption DEF SoleInv, Writers
  <2>3. writer[a].pc = "idle"
    BY <2>2 DEF SoleInv
  <2>4. writer' = [writer EXCEPT ![a] = IdleWriter]
    BY <1>15, <2>2, <2>3 DEF FindRequest, RetrieveFoundRequest
  <2>5. IdleWriter.pc = "idle"
    BY DEF IdleWriter
  <2>6. \A b \in Writers : writer'[b].pc # "idle" => writer'[b].w \notin purged
    BY <1>0, <2>4, <2>5
  <2> QED BY <1>11, <2>1, <2>6
<1>16. ASSUME \/ timer_handler \/ alls_worker \/ PurgeQueues \/ PurgeFinish
              \/ \E s \in Toggles : ToggleSetting(s)
              \/ \E o \in Oframes : OframeSample(o) \/ OframeLock(o)
              \/ UNCHANGED vars
       PROVE  FreshInv'
  <2>1. UNCHANGED <<txfifo, bcfifo, wire, writer, issued, purged, tx_descriptors>>
    BY <1>16 DEF timer_handler, alls_worker, PurgeQueues, PurgeFinish, ToggleSetting,
       OframeSample, OframeLock, device, ring, user, ioctl, vars
  <2>2. FreshByte' = FreshByte
    BY <2>1 DEF FreshByte
  <2> QED BY <2>1, <2>2 DEF FreshInv
<1>17. FreshInv'
  BY <1>3, <1>5, <1>6, <1>7, <1>8, <1>9, <1>10, <1>12, <1>13, <1>14, <1>15, <1>16
     DEF Next, OframeStep, CopyStep
<1> QED BY <1>4, <1>17

\* What had been written when FSCC_PURGE_TX emptied the ring and, with a clock, reset the
\* transmitter never goes out, when no write blocks: a purge leaves the blocking writes
\* that wait in blocking_request_queue alone.
THEOREM PurgeSafety ==
  ASSUME OneWriter("write")
  PROVE  Spec => []TxPurgeDiscards
<1>0. "write" \in Writers
  BY DEF Writers
<1>1. Init => IndInv /\ SoleInv("write") /\ FreshInv /\ SentFresh
  <2> SUFFICES ASSUME Init PROVE IndInv /\ SoleInv("write") /\ FreshInv /\ SentFresh
    OBVIOUS
  <2>1. IndInv /\ SoleInv("write")
    BY <1>0, WriteInit DEF WriteInv
  <2>2. \A a \in Writers : writer[a].pc = "idle"
    BY DEF Init, IdleWriter
  <2>3. \A i \in Ring : tx_descriptors[i].data = << >>
    BY DEF Init, Ring, EmptyDesc
  <2>4. wire.out = << >> /\ txfifo = << >> /\ bcfifo = << >> /\ purged = {} /\ sent = << >>
    BY DEF Init
  <2>5. \A S : << >> \in Seq(S)
    OBVIOUS
  <2>6. FreshInv
    BY <2>2, <2>3, <2>4, <2>5 DEF FreshInv
  <2> QED BY <2>1, <2>4, <2>5, <2>6 DEF SentFresh
<1>2. IndInv /\ SoleInv("write") /\ FreshInv /\ SentFresh /\ [Next]_vars
        => (IndInv /\ SoleInv("write") /\ FreshInv /\ SentFresh)'
  <2> SUFFICES ASSUME IndInv, SoleInv("write"), FreshInv, SentFresh, [Next]_vars
               PROVE  IndInv' /\ SoleInv("write")' /\ FreshInv' /\ SentFresh'
    OBVIOUS
  <2>1. IndInv'
    BY DeviceNext, DpcNext, LockNext, RingNext, OframeNext, UserNext, IoctlNext DEF IndInv
  <2> QED BY <1>0, <2>1, SoleNext, FreshNext
<1>3. SentFresh => TxPurgeDiscards
  <2> SUFFICES ASSUME SentFresh, NEW i \in 1..Len(sent) PROVE ~sent[i].stale
    BY DEF TxPurgeDiscards
  <2>1. sent[i] \in [data : Seq(Byte), stale : {FALSE}]
    BY ElementOfSeq DEF SentFresh
  <2> QED BY <2>1
<1> QED BY <1>1, <1>2, <1>3, PTL DEF Spec

-----------------------------------------------------------------------------
(* What goes out, and in which order.  The state is read as one row of     *)
(* requests in ascending order: those that went out, those in the card     *)
(* (F, with the offsets S at which their words end in the FIFO), those in  *)
(* the ring (p, the place in the data at which each descriptor begins, and *)
(* t, at which it ends), the one that is being copied and those that wait. *)

-----------------------------------------------------------------------------
(* Places in the data.                                                     *)

\* The bytes of the words that hold n bytes.
Whole(n) == n + ((4 - (n % 4)) % 4)

\* A place in the data: from bytes of request w have gone by.  With from = 0 all of
\* request w has.
Place == [w : Nat, from : Nat]

\* Requests in ascending order, each with data.
Frames(lens, F) ==
  /\ F \in Seq(Nat)
  /\ \A j \in 1..Len(F) : F[j] \in 1..Len(lens) /\ lens[F[j]] > 0
  /\ \A i, j \in 1..Len(F) : i < j => F[i] < F[j]

\* The j-th of them ends after S[j] bytes of the FIFO's words.
Offsets(lens, F, S) ==
  /\ S \in [0..Len(F) -> Nat] /\ S[0] = 0
  /\ \A j \in 1..Len(F) : S[j] = S[j - 1] + Whole(lens[F[j]])
  /\ \A i, j \in 0..Len(F) : i <= j => S[i] <= S[j]

\* Byte k of request w in the FIFO.
Image(lens, w, k) == IF k <= lens[w] THEN <<w, k>> ELSE Pad

\* The FIFO q holds the words of these requests after the first c bytes.
Content(lens, F, S, q, c) ==
  \A j \in 1..Len(F) : \A k \in 1..Whole(lens[F[j]]) :
    S[j - 1] + k - c \in 1..Len(q) => q[S[j - 1] + k - c] = Image(lens, F[j], k)

\* The T bytes that came into the FIFO end at place e.
Reached(lens, F, S, e, T) ==
  /\ e \in Place
  /\ \A j \in 1..Len(F) : F[j] <= e.w
  /\ e.from = 0 => T = S[Len(F)]
  /\ e.from > 0 => /\ Len(F) > 0 /\ e.w = F[Len(F)] /\ T = S[Len(F) - 1] + e.from
                   /\ e.from < lens[e.w] /\ e.from % 4 = 0

\* What went out of the first of them, and their sizes.
Begun(lens, F, out, sizes) ==
  /\ Len(out) % 4 = 0
  /\ Len(out) > 0 => /\ Len(F) > 0 /\ Len(out) < lens[F[1]]
                     /\ \A k \in 1..Len(out) : out[k] = <<F[1], k>>
  /\ Len(sizes) = Len(F) /\ \A j \in 1..Len(F) : sizes[j] = lens[F[j]]

\* Whole requests went out in ascending order, before those in the card.
Gone(lens, F, e, s) ==
  /\ s \in Seq([data : Seq(Byte), stale : BOOLEAN])
  /\ \A i \in 1..Len(s) :
       LET w == s[i].data[1][1]
       IN /\ w \in 1..Len(lens) /\ w <= e.w /\ Len(s[i].data) = lens[w]
          /\ \A k \in 1..Len(s[i].data) : s[i].data[k] = <<w, k>>
          /\ \A j \in 1..Len(F) : w < F[j]
  /\ \A i, j \in 1..Len(s) : i < j => s[i].data[1][1] < s[j].data[1][1]

\* The execution of oframe_worker that has the lock.
InHand == IF board_tx_spinlock \in Oframes THEN oframe[board_tx_spinlock] ELSE IdleOframe

\* The sizes of the frames in the card: the last one may not be in BC_FIFO_L yet.
Sizes(bc, f) == IF f.frame_size # 0 THEN Append(bc, f.frame_size) ELSE bc

Card(lens, F, S, e, q, out, sizes, s) ==
  /\ Frames(lens, F) /\ Offsets(lens, F, S) /\ Content(lens, F, S, q, Len(out))
  /\ Reached(lens, F, S, e, Len(out) + Len(q)) /\ Begun(lens, F, out, sizes)
  /\ Gone(lens, F, e, s)

\* A descriptor begins at place b, and ends at After(b).
IsPart(lens, b) ==
  /\ b \in Place /\ b.w \in 1..Len(lens) /\ b.from < lens[b.w] /\ b.from % 4 = 0

PartDesc(lens, b) ==
  FilledDesc(b.w, lens[b.w], b.from, b.from, MinOf(lens[b.w] - b.from, TxSize))

After(lens, b) ==
  [w |-> b.w, from |-> IF b.from + TxSize < lens[b.w] THEN b.from + TxSize ELSE 0]

\* Place e is followed by a descriptor that begins at b.
Accepts(e, b) == IF e.from > 0 THEN b = e ELSE b.from = 0 /\ b.w > e.w

\* The n descriptors with data: the k-th one begins at p[k] and ends at t[k].
Parts(lens, ds, u, n, t, p) ==
  /\ t \in [0..n -> Place] /\ p \in [1..n -> Place]
  /\ \A k \in 1..n : /\ IsPart(lens, p[k]) /\ ds[RingPos(u, k - 1)] = PartDesc(lens, p[k])
                     /\ Accepts(t[k - 1], p[k]) /\ t[k] = After(lens, p[k])
  /\ \A i, j \in 0..n : i <= j => t[i].w <= t[j].w

\* The thread that writes goes on at the end of the ring; what waits comes later.
GoesOn(lens, z, x, waiting) ==
  /\ z.w <= Len(lens)
  /\ IF x.pc = "copy" /\ x.out_length > 0 THEN z = [w |-> x.w, from |-> x.out_length]
                                          ELSE z.from = 0
  /\ x.pc \in {"lock", "copy"} =>
       /\ x.out_length = 0 => z.w < x.w
       /\ \A j \in 1..Len(waiting) : x.w < waiting[j]
  /\ x.pc = "retrieve" => Len(waiting) > 0 /\ waiting[1] = x.w
  /\ \A j \in 1..Len(waiting) : z.w < waiting[j]
  /\ \A i, j \in 1..Len(waiting) : i < j => waiting[i] < waiting[j]

Ordered(lens, ds, u, f, q, out, sizes, s, x, waiting) ==
  \E n \in 0..TxNum : \E F, S, t, p :
    /\ Window(ds, u, f, n) /\ Card(lens, F, S, t[0], q, out, sizes, s)
    /\ Parts(lens, ds, u, n, t, p) /\ GoesOn(lens, t[n], x, waiting)

\* Whoever copies holds the lock, and between its runs oframe_worker has no size left over.
HoldInv(sole) ==
  /\ writer[sole].pc = "copy" => board_tx_spinlock = sole
  /\ \A o \in Oframes : /\ oframe[o].pc = "copy" => board_tx_spinlock = o
                        /\ oframe[o].pc # "copy" => oframe[o].frame_size = 0

OrderInv(sole) ==
  Ordered(issued, tx_descriptors, fifo_tx_desc, user_tx_desc, txfifo, wire.out,
          Sizes(bcfifo, InHand), sent, writer[sole], blocking_request_queue)

-----------------------------------------------------------------------------
(* Words.                                                                  *)

\* What Whole does.
LEMMA WholeFacts ==
  /\ \A n \in Nat : Whole(n) \in Nat /\ n <= Whole(n) /\ Whole(n) < n + 4 /\ Whole(n) % 4 = 0
  /\ \A n, c \in Nat : c % 4 = 0 /\ c < n => /\ c + 4 <= Whole(n) /\ Whole(n - c) = Whole(n) - c
                                            /\ (n <= c + 4 => Whole(n) = c + 4)
<1>1. \A n \in Nat : Whole(n) \in Nat /\ n <= Whole(n) /\ Whole(n) < n + 4 /\ Whole(n) % 4 = 0
  BY DEF Whole
<1>2. ASSUME NEW n \in Nat, NEW c \in Nat, c % 4 = 0, c < n
      PROVE  c + 4 <= Whole(n) /\ (n <= c + 4 => Whole(n) = c + 4)
  <2>1. Whole(n) \in Nat /\ n <= Whole(n) /\ Whole(n) < n + 4 /\ Whole(n) % 4 = 0
    BY <1>1
  <2> HIDE DEF Whole
  <2> QED BY <1>2, <2>1
<1>3. ASSUME NEW n \in Nat, NEW c \in Nat, c % 4 = 0, c < n
      PROVE  Whole(n - c) = Whole(n) - c
  <2>1. (n - c) % 4 = n % 4
    BY <1>3
  <2> QED BY <2>1 DEF Whole
<1> QED BY <1>1, <1>2, <1>3

-----------------------------------------------------------------------------
(* A word goes out.                                                        *)

\* There is a word in the FIFO q.
HasWord(q) == Len(q) % 4 = 0 /\ Len(q) > 0

\* What went out of a frame of that size after the next word.
OutNext(out, q, size) == out \o SubSeq(q, 1, MinOf(4, size - Len(out)))

\* What is out after the word that went out next.
SendSays(lens, F, q, out, out2) ==
  /\ Len(q) \in Nat /\ Len(q) >= 4 /\ Len(out) \in Nat /\ Len(F) \in Nat
  /\ lens[F[1]] \in Nat /\ F[1] \in 1..Len(lens)
  /\ Len(out) < lens[F[1]] /\ Len(out) % 4 = 0
  /\ out2 \in Seq(Byte) /\ Len(out2) \in Nat
  /\ Len(out2) <= lens[F[1]] /\ Len(out2) <= Len(out) + 4
  /\ Len(out2) = Len(out) + 4 \/ Len(out2) = lens[F[1]]
  /\ \A k \in 1..Len(out2) : out2[k] = <<F[1], k>>

\* The word that goes out is the next one of the first frame.
LEMMA SendFacts ==
  ASSUME NEW lens \in Seq(Nat), NEW F, NEW S, NEW e, NEW q \in Seq(Byte), NEW out \in Seq(Byte),
         NEW sizes, NEW s, Card(lens, F, S, e, q, out, sizes, s), Len(F) > 0, HasWord(q),
         NEW out2, out2 = OutNext(out, q, lens[F[1]])
  PROVE  SendSays(lens, F, q, out, out2)
<1> DEFINE c == Len(out)
           L == lens[F[1]]
           m == MinOf(4, L - c)
           front == SubSeq(q, 1, m)
<1>1. F \in Seq(Nat) /\ Len(F) \in Nat /\ 1 \in 1..Len(F) /\ F[1] \in 1..Len(lens) /\ L > 0
  BY LenProperties DEF Card, Frames
<1>2. L \in Nat
  BY <1>1, ElementOfSeq
<1>3. Len(q) \in Nat /\ Len(q) >= 4 /\ c \in Nat
  <2>1. Len(q) \in Nat /\ c \in Nat
    BY LenProperties
  <2> QED BY <2>1 DEF HasWord
<1>4. c < L /\ c % 4 = 0
  <2>1. c % 4 = 0
    BY DEF Card, Begun
  <2>2. c > 0 => c < L
    BY DEF Card, Begun
  <2> HIDE DEF c, L
  <2> QED BY <1>1, <1>2, <1>3, <2>1, <2>2
<1>0. out2 = out \o front
  BY DEF OutNext
<1>5. m \in 1..4 /\ (m = 4 \/ c + m = L) /\ c + m <= L
  <2> HIDE DEF c, L
  <2> QED BY <1>2, <1>3, <1>4 DEF MinOf
<1> HIDE DEF m
<1>6. front \in Seq(Byte) /\ Len(front) = m /\ \A i \in 1..m : front[i] = q[i]
  BY <1>3, <1>5, SubSeqProperties
<1> HIDE DEF front
<1>7. /\ out2 \in Seq(Byte) /\ Len(out2) = c + m
      /\ \A k \in 1..(c + m) : out2[k] = IF k <= c THEN out[k] ELSE front[k - c]
  <2>1. /\ out \o front \in Seq(Byte) /\ Len(out \o front) = Len(out) + Len(front)
        /\ \A k \in 1..(Len(out) + Len(front)) :
             (out \o front)[k] = IF k <= Len(out) THEN out[k] ELSE front[k - Len(out)]
    BY <1>6, ConcatProperties
  <2> QED BY <1>0, <1>6, <2>1
<1>8. ASSUME NEW k \in 1..(c + m) PROVE out2[k] = <<F[1], k>>
  <2>1. CASE k <= c
    <3>1. k \in 1..c /\ c > 0
      BY <1>3, <2>1
    <3>2. out[k] = <<F[1], k>>
      BY <3>1 DEF Card, Begun
    <3> QED BY <1>7, <2>1, <3>2
  <2>2. CASE k > c
    <3> HIDE DEF c, L
    <3>1. k - c \in 1..m /\ k - c \in 1..Len(q) /\ k <= L /\ k \in 1..L /\ k \in Nat
      BY <1>2, <1>3, <1>5, <2>2
    <3>2. k \in 1..Whole(L)
      <4>1. Whole(L) \in Nat /\ L <= Whole(L)
        BY <1>2, WholeFacts
      <4> QED BY <1>2, <3>1, <4>1
    <3>3. S[1 - 1] + k - c = k - c
      <4>1. S[0] = 0
        BY DEF Card, Offsets
      <4> QED BY <1>3, <4>1
    <3>4. S[1 - 1] + k - c \in 1..Len(q)
      BY <3>1, <3>3
    <3>5. q[S[1 - 1] + k - c] = Image(lens, F[1], k)
      BY <1>1, <3>2, <3>4 DEF Card, Content, c, L
    <3>6. Image(lens, F[1], k) = <<F[1], k>>
      BY <3>1 DEF Image, L
    <3>7. ~(k <= c)
      BY <1>3, <2>2
    <3>8. out2[k] = front[k - c] /\ front[k - c] = q[k - c]
      BY <1>6, <1>7, <3>1, <3>7
    <3> QED BY <3>3, <3>5, <3>6, <3>8
  <2> QED BY <1>3, <2>1, <2>2
<1> HIDE DEF c, L
<1>9. /\ Len(out2) \in Nat /\ Len(out2) <= L /\ Len(out2) <= c + 4
      /\ Len(out2) = c + 4 \/ Len(out2) = L
  BY <1>3, <1>5, <1>7
<1> QED BY <1>1, <1>2, <1>3, <1>4, <1>7, <1>8, <1>9 DEF c, L, SendSays

\* The rest of the FIFO.
LEMMA SendRest ==
  ASSUME NEW q \in Seq(Byte), HasWord(q), NEW q2, q2 = SubSeq(q, 5, Len(q))
  PROVE  /\ q2 \in Seq(Byte) /\ Len(q2) \in Nat /\ Len(q) \in Nat /\ Len(q2) = Len(q) - 4
         /\ \A i \in 1..Len(q2) : i + 4 \in 1..Len(q) /\ q2[i] = q[i + 4]
<1>1. Len(q) \in Nat
  BY LenProperties
<1>2. Len(q) >= 4
  BY <1>1 DEF HasWord
<1>3. \A i \in 5..Len(q) : q[i] \in Byte
  <2>1. \A i \in 1..Len(q) : q[i] \in Byte
    BY ElementOfSeq
  <2> QED BY <1>1, <2>1
<1>4. /\ q2 \in Seq(Byte) /\ Len(q2) = Len(q) - 5 + 1
      /\ \A i \in 1..(Len(q) - 5 + 1) : q2[i] = q[5 + i - 1]
  <2>1. /\ SubSeq(q, 5, Len(q)) \in Seq(Byte)
        /\ Len(SubSeq(q, 5, Len(q))) = IF 5 <= Len(q) THEN Len(q) - 5 + 1 ELSE 0
        /\ \A i \in 1..(Len(q) - 5 + 1) : SubSeq(q, 5, Len(q))[i] = q[5 + i - 1]
    BY <1>1, <1>3, SubSeqProperties
  <2>2. \A n \in Nat : n >= 4 => (IF 5 <= n THEN n - 5 + 1 ELSE 0) = n - 5 + 1
    OBVIOUS
  <2> QED BY <1>1, <1>2, <2>1, <2>2
<1>5. \A i \in 1..(Len(q) - 4) : 5 + i - 1 = i + 4 /\ i + 4 \in 1..Len(q)
  BY <1>1, <1>2
<1> QED BY <1>1, <1>2, <1>4, <1>5

\* A word of the first frame goes out, and more of it is left.
LEMMA SendMore ==
  ASSUME NEW lens \in Seq(Nat), NEW F, NEW S, NEW e, NEW q \in Seq(Byte), NEW out \in Seq(Byte),
         NEW sizes, NEW s, Card(lens, F, S, e, q, out, sizes, s), Len(F) > 0, HasWord(q),
         NEW out2, out2 = OutNext(out, q, lens[F[1]]), Len(out2) < lens[F[1]],
         NEW q2, q2 = SubSeq(q, 5, Len(q))
  PROVE  Card(lens, F, S, e, q2, out2, sizes, s)
<1>1. /\ Len(q) \in Nat /\ Len(q) >= 4 /\ Len(out) \in Nat /\ lens[F[1]] \in Nat /\ Len(F) \in Nat
      /\ Len(out) % 4 = 0 /\ Len(out2) \in Nat
      /\ Len(out2) = Len(out) + 4 \/ Len(out2) = lens[F[1]]
      /\ \A k \in 1..Len(out2) : out2[k] = <<F[1], k>>
  <2>1. SendSays(lens, F, q, out, out2)
    BY SendFacts
  <2> QED BY <2>1 DEF SendSays
<1>2. Len(out2) = Len(out) + 4 /\ Len(out2) % 4 = 0
  <2>1. Len(out2) = Len(out) + 4
    BY <1>1
  <2> QED BY <1>1, <2>1
<1>3. Len(q2) = Len(q) - 4 /\ \A i \in 1..Len(q2) : i + 4 \in 1..Len(q) /\ q2[i] = q[i + 4]
  BY SendRest
<1>0. \A j \in 1..Len(F) : S[j - 1] \in Nat
  <2>1. \A j \in 1..Len(F) : j - 1 \in 0..Len(F)
    BY <1>1
  <2> QED BY <2>1 DEF Card, Offsets
<1>4. Content(lens, F, S, q2, Len(out2))
  <2> SUFFICES ASSUME NEW j \in 1..Len(F), NEW k \in 1..Whole(lens[F[j]]),
                      S[j - 1] + k - Len(out2) \in 1..Len(q2)
               PROVE  q2[S[j - 1] + k - Len(out2)] = Image(lens, F[j], k)
    BY DEF Content
  <2> DEFINE x == S[j - 1] + k - Len(out2)
             y == S[j - 1] + k - Len(out)
  <2>1. S[j - 1] \in Nat /\ k \in Int
    BY <1>0
  <2>2. y = x + 4
    BY <1>1, <1>2, <2>1
  <2>3. y \in 1..Len(q) /\ q2[x] = q[y]
    BY <1>3, <2>2
  <2>4. q[y] = Image(lens, F[j], k)
    BY <2>3 DEF Card, Content
  <2> QED BY <2>3, <2>4
<1>5. Begun(lens, F, out2, sizes)
  <2>1. Len(sizes) = Len(F) /\ \A j \in 1..Len(F) : sizes[j] = lens[F[j]]
    BY DEF Card, Begun
  <2> QED BY <1>1, <1>2, <2>1 DEF Begun
<1>6. Len(out2) + Len(q2) = Len(out) + Len(q)
  <2>1. Len(q) \in Nat /\ Len(out) \in Nat /\ Len(out2) = Len(out) + 4 /\ Len(q2) = Len(q) - 4
    BY <1>1, <1>2, <1>3
  <2>2. \A a, b \in Nat : (a + 4) + (b - 4) = a + b
    OBVIOUS
  <2> QED BY <2>1, <2>2
<1>7. Reached(lens, F, S, e, Len(out2) + Len(q2))
  BY <1>6 DEF Card
<1> QED BY <1>4, <1>5, <1>7 DEF Card

\* The last word of the first frame goes out.
LEMMA SendLast ==
  ASSUME NEW lens \in Seq(Nat), NEW F, NEW S, NEW e, NEW q \in Seq(Byte), NEW out \in Seq(Byte),
         NEW sizes \in Seq(Nat), NEW s, Card(lens, F, S, e, q, out, sizes, s), Len(F) > 0,
         HasWord(q),
         NEW out2, out2 = OutNext(out, q, lens[F[1]]), Len(out2) = lens[F[1]],
         NEW q2, q2 = SubSeq(q, 5, Len(q)), NEW b \in BOOLEAN,
         NEW s2, s2 = Append(s, [data |-> out2, stale |-> b])
  PROVE  Card(lens, Tail(F), [j \in 0..(Len(F) - 1) |-> S[j + 1] - S[1]], e, q2, << >>,
              Tail(sizes), s2)
<1> DEFINE G == Tail(F)
           D == [j \in 0..(Len(F) - 1) |-> S[j + 1] - S[1]]
           L == lens[F[1]]
           g == Len(G)
           c == Len(out)
           frame == [data |-> out2, stale |-> b]
<1>1. /\ Len(q) \in Nat /\ c \in Nat /\ L \in Nat /\ Len(F) \in Nat /\ F[1] \in 1..Len(lens)
      /\ c % 4 = 0 /\ c < L /\ L <= c + 4 /\ out2 \in Seq(Byte)
      /\ \A k \in 1..Len(out2) : out2[k] = <<F[1], k>>
  <2>1. SendSays(lens, F, q, out, out2)
    BY SendFacts
  <2> QED BY <2>1 DEF SendSays
<1>2. Len(q2) \in Nat /\ Len(q2) = Len(q) - 4
      /\ \A i \in 1..Len(q2) : i + 4 \in 1..Len(q) /\ q2[i] = q[i + 4]
  BY SendRest
<1>3. F \in Seq(Nat) /\ F # << >>
  BY EmptySeq DEF Card, Frames
<1>4. /\ G \in Seq(Nat) /\ g = Len(F) - 1 /\ g \in Nat
      /\ \A j \in 1..g : G[j] = F[j + 1] /\ j + 1 \in 1..Len(F) /\ j + 1 \in 0..Len(F)
                         /\ j \in 0..Len(F)
  <2>1. G \in Seq(Nat) /\ g = Len(F) - 1 /\ \A j \in 1..(Len(F) - 1) : G[j] = F[j + 1]
    BY <1>3, HeadTailProperties
  <2> HIDE DEF G, g
  <2> QED BY <1>1, <2>1
<1> HIDE DEF G, g
<1>5. /\ S \in [0..Len(F) -> Nat] /\ S[0] = 0
      /\ \A j \in 1..Len(F) : S[j] = S[j - 1] + Whole(lens[F[j]])
      /\ \A i, j \in 0..Len(F) : i <= j => S[i] <= S[j]
  BY DEF Card, Offsets
<1>6. S[1] = c + 4 /\ S[1] \in Nat
  <2>1. Whole(L) = c + 4
    BY <1>1, WholeFacts
  <2>2. 1 \in 1..Len(F) /\ 1 - 1 = 0
    BY <1>1
  <2> QED BY <1>1, <1>5, <2>1, <2>2
<1>7. /\ D \in [0..g -> Nat] /\ D[0] = 0
      /\ \A j \in 0..g : D[j] = S[j + 1] - S[1] /\ S[j + 1] \in Nat
  <2>1. \A j \in 0..g : j \in 0..(Len(F) - 1) /\ j + 1 \in 0..Len(F) /\ 1 \in 0..Len(F) /\ 1 <= j + 1
    BY <1>1, <1>4
  <2>2. \A j \in 0..g : S[j + 1] \in Nat /\ S[1] <= S[j + 1]
    BY <1>5, <2>1
  <2>3. \A j \in 0..g : S[j + 1] - S[1] \in Nat
    BY <1>6, <2>2
  <2>4. 0..g = 0..(Len(F) - 1) /\ 0 \in 0..g /\ 0 + 1 = 1
    BY <1>1, <1>4
  <2>5. D = [j \in 0..g |-> S[j + 1] - S[1]]
    BY <2>4
  <2> HIDE DEF D
  <2>6. \A j \in 0..g : D[j] = S[j + 1] - S[1]
    BY <2>5
  <2>7. D \in [0..g -> Nat]
    BY <2>3, <2>5
  <2>8. D[0] = 0
    <3>1. D[0] = S[1] - S[1]
      BY <2>4, <2>6
    <3> QED BY <1>6, <3>1
  <2> QED BY <2>2, <2>6, <2>7, <2>8
<1> HIDE DEF D, L, c
<1>8. Frames(lens, G)
  <2>1. /\ \A j \in 1..Len(F) : F[j] \in 1..Len(lens) /\ lens[F[j]] > 0
        /\ \A i, j \in 1..Len(F) : i < j => F[i] < F[j]
    BY DEF Card, Frames
  <2>2. \A j \in 1..g : G[j] \in 1..Len(lens) /\ lens[G[j]] > 0
    BY <1>4, <2>1
  <2>3. ASSUME NEW i \in 1..g, NEW j \in 1..g, i < j PROVE G[i] < G[j]
    <3>1. i \in Int /\ j \in Int
      BY <1>4
    <3>2. i + 1 < j + 1
      BY <2>3, <3>1
    <3>3. /\ i + 1 \in 1..Len(F) /\ j + 1 \in 1..Len(F)
          /\ G[i] = F[i + 1] /\ G[j] = F[j + 1]
      BY <1>4
    <3>4. F[i + 1] < F[j + 1]
      BY <2>1, <3>2, <3>3
    <3> QED BY <3>3, <3>4
  <2> QED BY <1>4, <2>2, <2>3 DEF Frames, g
<1>9. Offsets(lens, G, D)
  <2>1. ASSUME NEW j \in 1..g PROVE D[j] = D[j - 1] + Whole(lens[G[j]])
    <3>1. /\ j \in 0..g /\ j - 1 \in 0..g /\ (j - 1) + 1 = j /\ (j + 1) - 1 = j
      BY <1>4
    <3>2. /\ D[j] = S[j + 1] - S[1] /\ D[j - 1] = S[j] - S[1]
          /\ S[j + 1] \in Nat /\ S[j] \in Nat
      BY <1>7, <3>1
    <3>3. S[j + 1] = S[j] + Whole(lens[G[j]])
      BY <1>4, <1>5, <3>1
    <3>4. Whole(lens[G[j]]) = S[j + 1] - S[j]
      <4>1. lens[G[j]] \in Nat
        BY <1>8, ElementOfSeq DEF Frames, g
      <4>2. Whole(lens[G[j]]) \in Nat
        BY <4>1, WholeFacts
      <4> QED BY <3>2, <3>3, <4>2
    <3>5. \A x, y, z \in Nat : x - z = (y - z) + (x - y)
      OBVIOUS
    <3>6. S[j + 1] - S[1] = (S[j] - S[1]) + (S[j + 1] - S[j])
      BY <1>6, <3>2, <3>5
    <3> QED BY <3>2, <3>4, <3>6
  <2>2. ASSUME NEW i \in 0..g, NEW j \in 0..g, i <= j PROVE D[i] <= D[j]
    <3>1. i + 1 \in 0..Len(F) /\ j + 1 \in 0..Len(F) /\ i + 1 <= j + 1
      BY <1>1, <1>4, <2>2
    <3>2. S[i + 1] <= S[j + 1]
      BY <1>5, <3>1
    <3>3. \A x, y, z \in Nat : x <= y => x - z <= y - z
      OBVIOUS
    <3>4. S[i + 1] \in Nat /\ S[j + 1] \in Nat /\ D[i] = S[i + 1] - S[1] /\ D[j] = S[j + 1] - S[1]
      BY <1>7
    <3> QED BY <1>6, <3>2, <3>3, <3>4
  <2> QED BY <1>7, <2>1, <2>2 DEF Offsets, g
<1>10. Content(lens, G, D, q2, 0)
  <2> SUFFICES ASSUME NEW j \in 1..g, NEW k \in 1..Whole(lens[G[j]]),
                      D[j - 1] + k - 0 \in 1..Len(q2)
               PROVE  q2[D[j - 1] + k - 0] = Image(lens, G[j], k)
    BY DEF Content, g
  <2> DEFINE x == D[j - 1] + k - 0
             y == S[(j + 1) - 1] + k - c
  <2>1. j - 1 \in 0..g /\ (j - 1) + 1 = j /\ (j + 1) - 1 = j
    BY <1>4
  <2>2. D[j - 1] = S[j] - (c + 4) /\ S[j] \in Nat
    BY <1>6, <1>7, <2>1
  <2>3. y = x + 4
    <3>1. \A u, v \in Nat, n \in Int : u + n - v = ((u - (v + 4)) + n - 0) + 4
      OBVIOUS
    <3>2. c \in Nat /\ k \in Int
      BY <1>1
    <3> QED BY <2>1, <2>2, <3>1, <3>2
  <2>4. y \in 1..Len(q) /\ q2[x] = q[y]
    BY <1>2, <2>3
  <2>5. G[j] = F[j + 1] /\ j + 1 \in 1..Len(F)
    BY <1>4
  <2>6. q[y] = Image(lens, F[j + 1], k)
    BY <2>4, <2>5 DEF Card, Content, c
  <2> QED BY <2>4, <2>5, <2>6
<1>11. Reached(lens, G, D, e, 0 + Len(q2))
  <2>1. /\ e \in Place /\ \A j \in 1..g : G[j] <= e.w
    BY <1>4 DEF Card, Reached
  <2>2. 0 + Len(q2) = (c + Len(q)) - S[1]
    BY <1>1, <1>2, <1>6 DEF c
  <2>3. g \in 0..g /\ g + 1 = Len(F) /\ D[g] = S[Len(F)] - S[1]
    BY <1>1, <1>4, <1>7
  <2>4. e.from = 0 => 0 + Len(q2) = D[g]
    BY <2>2, <2>3 DEF Card, Reached, c
  <2>5. ASSUME e.from > 0
        PROVE  /\ g > 0 /\ e.w = G[g] /\ 0 + Len(q2) = D[g - 1] + e.from
    <3>1. e.w = F[Len(F)] /\ c + Len(q) = S[Len(F) - 1] + e.from /\ e.from < lens[e.w]
      BY <2>5 DEF Card, Reached, c
    <3>2. g > 0
      <4>1. SUFFICES ASSUME Len(F) = 1 PROVE FALSE
        BY <1>1, <1>4
      <4>2. c + Len(q) = e.from /\ e.from < L /\ e.from \in Nat
        <5>1. S[Len(F) - 1] = 0
          BY <1>5, <4>1
        <5> QED BY <2>1, <3>1, <4>1, <5>1 DEF L, Place
      <4>3. Len(q) = Len(q2) + 4
        BY <1>1, <1>2
      <4>4. c \in Nat /\ L \in Nat /\ L <= c + 4 /\ Len(q2) \in Nat
        BY <1>1, <1>2
      <4>5. \A a, h, l, n \in Nat : ~(a + (n + 4) = h /\ h < l /\ l <= a + 4)
        OBVIOUS
      <4> QED BY <4>2, <4>3, <4>4, <4>5
    <3>3. e.w = G[g] /\ g - 1 \in 0..g /\ (g - 1) + 1 = Len(F) - 1
      <4>1. \A n \in Nat : n > 0 => n \in 1..n /\ n - 1 \in 0..n /\ (n - 1) + 1 = n
        OBVIOUS
      <4>2. g \in 1..g /\ g - 1 \in 0..g /\ (g - 1) + 1 = g /\ g = Len(F) - 1
        BY <1>4, <3>2, <4>1
      <4>3. g + 1 = Len(F)
        BY <1>1, <1>4
      <4>4. G[g] = F[g + 1]
        BY <1>4, <4>2
      <4> QED BY <3>1, <4>2, <4>3, <4>4
    <3>4. D[g - 1] = S[Len(F) - 1] - S[1] /\ S[Len(F) - 1] \in Nat
      BY <1>7, <3>3
    <3>5. e.from \in Nat
      BY <2>1 DEF Place
    <3> QED BY <1>6, <2>2, <3>1, <3>2, <3>3, <3>4, <3>5
  <2>6. e.from > 0 => e.from < lens[e.w] /\ e.from % 4 = 0
    BY DEF Card, Reached
  <2> QED BY <2>1, <2>4, <2>5, <2>6 DEF Reached, g
<1>12. Begun(lens, G, << >>, Tail(sizes))
  <2>1. Len(sizes) = Len(F) /\ \A j \in 1..Len(F) : sizes[j] = lens[F[j]]
    BY DEF Card, Begun
  <2>2. sizes # << >>
    BY <1>1, <2>1, EmptySeq
  <2>3. Len(Tail(sizes)) = g /\ \A j \in 1..g : Tail(sizes)[j] = sizes[j + 1]
    BY <1>4, <2>1, <2>2, HeadTailProperties
  <2>4. Len(<< >>) = 0 /\ 0 % 4 = 0
    OBVIOUS
  <2>5. \A j \in 1..g : Tail(sizes)[j] = lens[G[j]]
    <3> DEFINE y == Tail(sizes)
    <3> HIDE DEF y, g, G
    <3> SUFFICES ASSUME NEW j \in 1..g PROVE y[j] = lens[G[j]]
      BY DEF y
    <3>1. y[j] = sizes[j + 1]
      BY <2>3 DEF y
    <3>2. j + 1 \in 1..Len(F) /\ G[j] = F[j + 1]
      BY <1>4
    <3>3. sizes[j + 1] = lens[F[j + 1]]
      BY <2>1, <3>2
    <3> QED BY <3>1, <3>2, <3>3
  <2>6. Len(Tail(sizes)) = Len(G)
    BY <2>3 DEF g
  <2> DEFINE y == Tail(sizes)
  <2>7. Len(y) = Len(G) /\ \A j \in 1..Len(G) : y[j] = lens[G[j]]
    BY <2>5, <2>6 DEF g
  <2> HIDE DEF y
  <2>8. Begun(lens, G, << >>, y)
    BY <2>4, <2>7 DEF Begun
  <2> QED BY <2>8 DEF y
<1>13. Gone(lens, G, e, s2)
  <2> DEFINE First(r) == r.data[1][1]
  <2>1. /\ s \in Seq([data : Seq(Byte), stale : BOOLEAN]) /\ Len(s) \in Nat
        /\ \A i \in 1..Len(s) :
             /\ First(s[i]) \in 1..Len(lens) /\ First(s[i]) <= e.w
             /\ Len(s[i].data) = lens[First(s[i])]
             /\ \A k \in 1..Len(s[i].data) : s[i].data[k] = <<First(s[i]), k>>
             /\ \A j \in 1..Len(F) : First(s[i]) < F[j]
        /\ \A i, j \in 1..Len(s) : i < j => First(s[i]) < First(s[j])
    BY LenProperties DEF Card, Gone
  <2>2. /\ frame \in [data : Seq(Byte), stale : BOOLEAN] /\ frame.data = out2
        /\ First(frame) = F[1]
    <3>1. 1 \in 1..Len(out2)
      <4>1. Len(out2) = L /\ L \in Nat /\ c \in Nat /\ c < L
        BY <1>1 DEF L
      <4> QED BY <4>1
    <3>2. out2[1] = <<F[1], 1>>
      BY <1>1, <3>1
    <3>3. out2[1][1] = F[1]
      BY <3>2
    <3> QED BY <1>1, <3>3
  <2> HIDE DEF frame
  <2>3. /\ s2 \in Seq([data : Seq(Byte), stale : BOOLEAN]) /\ Len(s2) = Len(s) + 1
        /\ \A i \in 1..Len(s) : s2[i] = s[i]
        /\ s2[Len(s) + 1] = frame
        /\ \A i \in 1..(Len(s) + 1) : i \in 1..Len(s) \/ i = Len(s) + 1
    <3> DEFINE R == [data : Seq(Byte), stale : BOOLEAN]
    <3>1. s \in Seq(R) /\ frame \in R
      BY <2>1, <2>2
    <3>2. s2 = Append(s, frame)
      BY DEF frame
    <3> HIDE DEF R
    <3>3. /\ Append(s, frame) \in Seq(R) /\ Len(Append(s, frame)) = Len(s) + 1
          /\ \A i \in 1..Len(s) : Append(s, frame)[i] = s[i]
          /\ Append(s, frame)[Len(s) + 1] = frame
          /\ \A i \in 1..(Len(s) + 1) : i \in 1..Len(s) \/ i = Len(s) + 1
      BY <3>1, AppendKeeps
    <3> QED BY <3>2, <3>3 DEF R
  <2>4. 1 \in 1..Len(F) /\ F[1] <= e.w /\ \A j \in 1..g : F[1] < G[j]
    <3>1. 1 \in 1..Len(F)
      BY <1>1
    <3>2. \A j \in 1..g : 1 < j + 1
      BY <1>4
    <3> QED BY <1>4, <3>1, <3>2 DEF Card, Frames, Reached
  <2>5. ASSUME NEW i \in 1..Len(s2)
        PROVE  /\ First(s2[i]) \in 1..Len(lens) /\ First(s2[i]) <= e.w
               /\ Len(s2[i].data) = lens[First(s2[i])]
               /\ \A k \in 1..Len(s2[i].data) : s2[i].data[k] = <<First(s2[i]), k>>
               /\ \A j \in 1..g : First(s2[i]) < G[j]
    <3> HIDE DEF First
    <3>1. CASE i \in 1..Len(s)
      BY <1>4, <2>1, <2>3, <3>1
    <3>2. CASE i = Len(s) + 1
      BY <1>1, <2>2, <2>3, <2>4, <3>2
    <3> QED BY <2>3, <3>1, <3>2
  <2>6. ASSUME NEW i \in 1..Len(s2), NEW j \in 1..Len(s2), i < j
        PROVE  First(s2[i]) < First(s2[j])
    <3> HIDE DEF First
    <3>1. CASE j \in 1..Len(s)
      <4>1. i \in 1..Len(s)
        BY <2>1, <2>3, <2>6, <3>1
      <4> QED BY <2>1, <2>3, <2>6, <3>1, <4>1
    <3>2. CASE j = Len(s) + 1
      <4>1. i \in 1..Len(s)
        BY <2>1, <2>3, <2>6, <3>2
      <4> QED BY <2>1, <2>2, <2>3, <2>4, <3>2, <4>1
    <3> QED BY <2>3, <3>1, <3>2
  <2> QED BY <2>3, <2>5, <2>6 DEF Gone, g
<1>14. Len(<< >>) = 0
  OBVIOUS
<1> QED BY <1>8, <1>9, <1>10, <1>11, <1>12, <1>13, <1>14 DEF Card, G, D

-----------------------------------------------------------------------------
(* A descriptor goes into the FIFO.                                        *)

\* The bytes of the descriptor that begins at place b.
Share(lens, b) == MinOf(lens[b.w] - b.from, TxSize)

\* The FIFO q2 is the FIFO q and the words of that descriptor.
PushSays(lens, b, q, q2) ==
  /\ Len(q) \in Nat /\ Len(q2) \in Nat /\ Len(q2) = Len(q) + Whole(Share(lens, b))
  /\ \A i \in 1..Len(q) : q2[i] = q[i]
  /\ \A k \in 1..Whole(Share(lens, b)) : q2[Len(q) + k] = Image(lens, b.w, b.from + k)

\* What is known of a part.
LEMMA PartFacts ==
  ASSUME NEW lens \in Seq(Nat), NEW b, IsPart(lens, b)
  PROVE  /\ b.w \in Nat /\ b.from \in Nat /\ b.w \in 1..Len(lens) /\ lens[b.w] \in Nat
         /\ b.from < lens[b.w] /\ b.from % 4 = 0
         /\ Share(lens, b) \in Nat /\ Share(lens, b) > 0 /\ Whole(Share(lens, b)) \in Nat
         /\ After(lens, b) \in Place /\ After(lens, b).w = b.w
         /\ \/ /\ After(lens, b).from = 0 /\ Share(lens, b) = lens[b.w] - b.from
               /\ b.from + Whole(Share(lens, b)) = Whole(lens[b.w])
            \/ /\ After(lens, b).from = b.from + TxSize /\ After(lens, b).from > 0
               /\ After(lens, b).from < lens[b.w] /\ After(lens, b).from % 4 = 0
               /\ Share(lens, b) = TxSize /\ Whole(TxSize) = TxSize
<1> DEFINE L == lens[b.w]
           m == Share(lens, b)
<1>1. b.w \in Nat /\ b.from \in Nat /\ b.w \in 1..Len(lens) /\ b.from < L /\ b.from % 4 = 0
  BY DEF IsPart, Place
<1>2. L \in Nat
  BY <1>1, ElementOfSeq
<1>0. TxSize \in Nat /\ TxSize > 0 /\ TxSize % 4 = 0
  BY RingAssumption
<1>3. m \in Nat /\ m > 0
  <2> HIDE DEF L
  <2>1. m = MinOf(L - b.from, TxSize)
    BY DEF Share, L
  <2> QED BY <1>0, <1>1, <1>2, <2>1 DEF MinOf
<1>4. Whole(m) \in Nat
  BY <1>3, WholeFacts
<1>5. CASE b.from + TxSize < L
  <2>1. After(lens, b) = [w |-> b.w, from |-> b.from + TxSize]
    BY <1>5 DEF After
  <2>2. b.from + TxSize \in Nat /\ b.from + TxSize > 0 /\ (b.from + TxSize) % 4 = 0
    <3>1. \A x, y \in Nat : x % 4 = 0 /\ y % 4 = 0 => (x + y) % 4 = 0
      OBVIOUS
    <3>2. (b.from + TxSize) % 4 = 0
      BY <1>0, <1>1, <3>1
    <3> QED BY <1>0, <1>1, <3>2
  <2>3. m = TxSize
    <3>1. TxSize <= L - b.from /\ ~(L - b.from < TxSize)
      <4> HIDE DEF L
      <4> QED BY <1>0, <1>1, <1>2, <1>5
    <3>2. MinOf(L - b.from, TxSize) = TxSize
      <4> HIDE DEF L
      <4> QED BY <1>0, <1>1, <1>2, <3>1 DEF MinOf
    <3> QED BY <3>2 DEF Share
  <2>4. Whole(TxSize) = TxSize
    BY <1>0 DEF Whole
  <2> QED BY <1>1, <1>2, <1>3, <1>4, <1>5, <2>1, <2>2, <2>3, <2>4 DEF Place
<1>6. CASE ~(b.from + TxSize < L)
  <2>1. After(lens, b) = [w |-> b.w, from |-> 0]
    BY <1>6 DEF After
  <2>2. m = L - b.from
    <3>1. MinOf(L - b.from, TxSize) = L - b.from
      <4> HIDE DEF L
      <4> QED BY <1>0, <1>1, <1>2, <1>6 DEF MinOf
    <3> QED BY <3>1 DEF Share
  <2>3. Whole(L - b.from) = Whole(L) - b.from /\ Whole(L) \in Nat
    <3> HIDE DEF L
    <3> QED BY <1>1, <1>2, WholeFacts
  <2>4. b.from + Whole(m) = Whole(L)
    <3>1. \A x, y \in Nat : x + (y - x) = y
      OBVIOUS
    <3> QED BY <1>1, <2>2, <2>3, <3>1
  <2> QED BY <1>1, <1>2, <1>3, <1>4, <2>1, <2>2, <2>4 DEF Place
<1> QED BY <1>5, <1>6

\* The first descriptor of a request begins a frame in the FIFO.
LEMMA PushStarts ==
  ASSUME NEW lens \in Seq(Nat), NEW F, NEW S, NEW e, NEW q, NEW out \in Seq(Byte),
         NEW sizes \in Seq(Nat), NEW s, Card(lens, F, S, e, q, out, sizes, s),
         NEW b, IsPart(lens, b), Accepts(e, b), b.from = 0,
         NEW q2, PushSays(lens, b, q, q2), NEW sizes2, sizes2 = Append(sizes, lens[b.w])
  PROVE  Card(lens, Append(F, b.w),
              [j \in 0..(Len(F) + 1) |-> IF j <= Len(F) THEN S[j]
                                                        ELSE S[Len(F)] + Whole(lens[b.w])],
              After(lens, b), q2, out, sizes2, s)
<1> DEFINE G == Append(F, b.w)
           D == [j \in 0..(Len(F) + 1) |-> IF j <= Len(F) THEN S[j]
                                                          ELSE S[Len(F)] + Whole(lens[b.w])]
           L == lens[b.w]
           n == Len(F)
           c == Len(out)
           m == Share(lens, b)
           a == After(lens, b)
<1>1. /\ b.w \in Nat /\ b.w \in 1..Len(lens) /\ L \in Nat /\ L > 0 /\ m \in Nat
      /\ Whole(m) \in Nat /\ a \in Place /\ a.w = b.w
      /\ \/ a.from = 0 /\ Whole(m) = Whole(L)
         \/ a.from > 0 /\ a.from < L /\ a.from % 4 = 0 /\ a.from = Whole(m)
  <2>1. /\ b.w \in Nat /\ b.w \in 1..Len(lens) /\ L \in Nat /\ 0 < L /\ m \in Nat
        /\ Whole(m) \in Nat /\ a \in Place /\ a.w = b.w
        /\ \/ a.from = 0 /\ 0 + Whole(m) = Whole(L)
           \/ /\ a.from = 0 + TxSize /\ a.from > 0 /\ a.from < L /\ a.from % 4 = 0
              /\ m = TxSize /\ Whole(TxSize) = TxSize
    BY PartFacts
  <2> HIDE DEF a, m, L
  <2>2. 0 + TxSize = TxSize /\ 0 + Whole(m) = Whole(m)
    BY <2>1, RingAssumption
  <2> QED BY <2>1, <2>2
<1>2. /\ F \in Seq(Nat) /\ n \in Nat
      /\ \A j \in 1..n : F[j] \in 1..Len(lens) /\ lens[F[j]] > 0
      /\ \A i, j \in 1..n : i < j => F[i] < F[j]
  BY LenProperties DEF Card, Frames
<1>3. /\ S \in [0..n -> Nat] /\ S[0] = 0
      /\ \A j \in 1..n : S[j] = S[j - 1] + Whole(lens[F[j]])
      /\ \A i, j \in 0..n : i <= j => S[i] <= S[j]
  BY DEF Card, Offsets
<1>4. e \in Place /\ e.from = 0 /\ e.w < b.w /\ \A j \in 1..n : F[j] <= e.w
  <2>1. e \in Place /\ \A j \in 1..n : F[j] <= e.w
    BY DEF Card, Reached
  <2>2. e.from \in Nat /\ e.w \in Nat
    BY <2>1 DEF Place
  <2>3. e.from = 0
    <3>1. SUFFICES ASSUME e.from > 0 PROVE FALSE
      BY <2>2
    <3>2. e.from = b.from
      BY <3>1 DEF Accepts
    <3> QED BY <3>1, <3>2
  <2>4. e.w < b.w
    BY <1>1, <2>2, <2>3 DEF Accepts
  <2> QED BY <2>1, <2>3, <2>4
<1>5. c \in Nat /\ Len(q) \in Nat /\ c + Len(q) = S[n] /\ S[n] \in Nat
      /\ Len(q2) = Len(q) + Whole(m)
  <2>1. c + Len(q) = S[n]
    BY <1>4 DEF Card, Reached
  <2>2. n \in 0..n
    BY <1>2
  <2> QED BY <1>3, <2>1, <2>2, LenProperties DEF PushSays
<1>6. /\ G \in Seq(Nat) /\ Len(G) = n + 1 /\ G[n + 1] = b.w
      /\ \A j \in 1..n : G[j] = F[j]
      /\ \A j \in 1..(n + 1) : j \in 1..n \/ j = n + 1
  <2>1. b.w \in Nat
    BY <1>1
  <2> QED BY <1>2, <2>1, AppendKeeps
<1>7. Whole(L) \in Nat
  BY <1>1, WholeFacts
<1>8. /\ D \in [0..(n + 1) -> Nat] /\ D[0] = 0 /\ D[n + 1] = S[n] + Whole(L)
      /\ \A j \in 0..n : D[j] = S[j] /\ S[j] \in Nat
      /\ \A j \in 0..(n + 1) : j \in 0..n \/ j = n + 1
  <2>1. \A j \in 0..n : j \in 0..(n + 1) /\ j <= n /\ S[j] \in Nat
    BY <1>2, <1>3
  <2>2. \A j \in 0..n : D[j] = S[j]
    BY <2>1
  <2>3. n + 1 \in 0..(n + 1) /\ ~(n + 1 <= n) /\ 0 \in 0..n
    BY <1>2
  <2>4. D[n + 1] = S[n] + Whole(L)
    BY <2>3
  <2>5. \A j \in 0..(n + 1) : j \in 0..n \/ j = n + 1
    BY <1>2
  <2>6. S[n] + Whole(L) \in Nat
    BY <1>5, <1>7
  <2>7. \A j \in 0..(n + 1) : (IF j <= n THEN S[j] ELSE S[n] + Whole(L)) \in Nat
    BY <1>2, <2>1, <2>3, <2>5, <2>6
  <2>8. D \in [0..(n + 1) -> Nat]
    BY <2>7
  <2> QED BY <1>3, <2>1, <2>2, <2>3, <2>4, <2>5, <2>8
<1> HIDE DEF G, D, L, c, m, a
<1>9. Frames(lens, G)
  <2>1. \A j \in 1..(n + 1) : G[j] \in 1..Len(lens) /\ lens[G[j]] > 0
    BY <1>1, <1>2, <1>6 DEF L
  <2>2. ASSUME NEW i \in 1..(n + 1), NEW j \in 1..(n + 1), i < j PROVE G[i] < G[j]
    <3>1. i \in 1..n
      BY <1>2, <2>2
    <3>2. CASE j \in 1..n
      BY <1>2, <1>6, <2>2, <3>1, <3>2
    <3>3. CASE j = n + 1
      <4>1. F[i] \in Nat /\ F[i] <= e.w /\ e.w < b.w /\ e.w \in Nat
        BY <1>2, <1>4, <3>1 DEF Place
      <4>2. F[i] < b.w
        BY <1>1, <4>1
      <4> QED BY <1>6, <3>1, <3>3, <4>2
    <3> QED BY <1>6, <3>2, <3>3
  <2> QED BY <1>6, <2>1, <2>2 DEF Frames
<1>10. Offsets(lens, G, D)
  <2>1. ASSUME NEW j \in 1..(n + 1) PROVE D[j] = D[j - 1] + Whole(lens[G[j]])
    <3>1. j - 1 \in 0..n
      BY <1>2
    <3>2. CASE j \in 1..n
      <4>1. j \in 0..n
        BY <3>2
      <4> QED BY <1>3, <1>6, <1>8, <3>1, <3>2, <4>1
    <3>3. CASE j = n + 1
      <4>1. j - 1 = n
        BY <1>2, <3>3
      <4> QED BY <1>6, <1>8, <3>1, <3>3, <4>1 DEF L
    <3> QED BY <1>6, <3>2, <3>3
  <2>2. ASSUME NEW i \in 0..(n + 1), NEW j \in 0..(n + 1), i <= j PROVE D[i] <= D[j]
    <3>1. CASE j \in 0..n
      <4>1. i \in 0..n
        BY <1>2, <2>2, <3>1
      <4> QED BY <1>3, <1>8, <2>2, <3>1, <4>1
    <3>2. CASE j = n + 1 /\ i \in 0..n
      <4>1. S[i] <= S[n] /\ S[i] \in Nat
        <5>1. n \in 0..n /\ i <= n
          BY <1>2, <3>2
        <5> QED BY <1>3, <1>8, <3>2, <5>1
      <4>2. \A x, y, z \in Nat : x <= y => x <= y + z
        OBVIOUS
      <4>3. S[i] <= S[n] + Whole(L)
        BY <1>5, <1>7, <4>1, <4>2
      <4> QED BY <1>8, <3>2, <4>3
    <3>3. CASE j = n + 1 /\ i = n + 1
      <4>1. D[i] \in Nat
        BY <1>8
      <4> QED BY <3>3, <4>1
    <3> QED BY <1>8, <3>1, <3>2, <3>3
  <2> QED BY <1>6, <1>8, <2>1, <2>2 DEF Offsets
<1>11. Content(lens, G, D, q2, c)
  <2> SUFFICES ASSUME NEW j \in 1..(n + 1), NEW k \in 1..Whole(lens[G[j]]),
                      D[j - 1] + k - c \in 1..Len(q2)
               PROVE  q2[D[j - 1] + k - c] = Image(lens, G[j], k)
    BY <1>6 DEF Content
  <2>0. j - 1 \in 0..n
    BY <1>2
  <2>1. CASE j \in 1..n
    <3> DEFINE x == S[j - 1] + k - c
    <3>1. D[j - 1] = S[j - 1] /\ S[j - 1] \in Nat /\ G[j] = F[j]
      BY <1>6, <1>8, <2>0, <2>1
    <3>2. S[j] <= S[n] /\ S[j] = S[j - 1] + Whole(lens[F[j]])
      <4>1. j \in 0..n /\ n \in 0..n /\ j <= n
        BY <1>2, <2>1
      <4> QED BY <1>3, <2>1, <4>1
    <3>3. Whole(lens[F[j]]) \in Nat
      <4>1. lens[F[j]] \in Nat
        BY <1>2, <2>1, ElementOfSeq
      <4> QED BY <4>1, WholeFacts
    <3>4. x \in 1..Len(q)
      <4>1. \A u, h, v, l, i \in Nat : i <= h /\ u + h <= v + l => u + i - v <= l
        OBVIOUS
      <4>2. S[j - 1] + Whole(lens[F[j]]) <= c + Len(q)
        BY <1>5, <3>2
      <4>0. k \in Nat /\ k <= Whole(lens[F[j]])
        BY <3>1, <3>3
      <4>3. x <= Len(q)
        BY <1>5, <3>1, <3>3, <4>0, <4>1, <4>2
      <4>4. x \in Int /\ x >= 1
        BY <1>5, <3>1
      <4> QED BY <1>5, <4>3, <4>4
    <3>5. q[x] = Image(lens, F[j], k)
      BY <2>1, <3>1, <3>4 DEF Card, Content, c
    <3>6. q2[x] = q[x]
      BY <3>4 DEF PushSays
    <3> QED BY <3>1, <3>5, <3>6
  <2>2. CASE j = n + 1
    <3>1. D[j - 1] = S[n] /\ G[j] = b.w
      <4>1. j - 1 = n
        BY <1>2, <2>2
      <4> QED BY <1>6, <1>8, <2>0, <2>2, <4>1
    <3>2. S[n] + k - c = Len(q) + k
      <4>1. \A u, v \in Nat, i \in Int : (u + v) + i - u = v + i
        OBVIOUS
      <4>2. S[n] = c + Len(q) /\ k \in Int
        BY <1>5
      <4> QED BY <1>5, <4>1, <4>2
    <3>3. k \in 1..Whole(m)
      <4>1. \A u, v \in Nat, i \in Nat : u + i <= u + v => i <= v
        OBVIOUS
      <4>2. Len(q) + k <= Len(q) + Whole(m) /\ k \in Nat /\ k >= 1
        BY <1>5, <3>1, <3>2
      <4>3. k <= Whole(m)
        BY <1>1, <1>5, <4>1, <4>2
      <4> QED BY <1>1, <4>2, <4>3
    <3>4. q2[Len(q) + k] = Image(lens, b.w, 0 + k)
      BY <3>3 DEF PushSays, m
    <3>5. 0 + k = k
      BY <3>3, <1>1
    <3> QED BY <3>1, <3>2, <3>4, <3>5
  <2> QED BY <1>6, <2>1, <2>2
<1>12. Reached(lens, G, D, a, c + Len(q2))
  <2>1. \A j \in 1..(n + 1) : G[j] <= a.w
    <3>1. \A j \in 1..n : G[j] <= a.w
      <4>1. ASSUME NEW j \in 1..n PROVE G[j] <= a.w
        <5>1. F[j] \in Nat /\ F[j] <= e.w /\ e.w < b.w /\ e.w \in Nat
          BY <1>2, <1>4 DEF Place
        <5> QED BY <1>1, <1>6, <5>1
      <4> QED BY <4>1
    <3>2. G[n + 1] <= a.w
      BY <1>1, <1>6
    <3> QED BY <1>6, <3>1, <3>2
  <2>2. c + Len(q2) = S[n] + Whole(m)
    <3>1. \A u, v, h \in Nat : u + (v + h) = (u + v) + h
      OBVIOUS
    <3> QED BY <1>1, <1>5, <3>1
  <2>3. CASE a.from = 0
    <3>1. Whole(m) = Whole(L)
      BY <1>1, <2>3
    <3> QED BY <1>1, <1>6, <1>8, <2>1, <2>2, <2>3, <3>1 DEF Reached
  <2>4. CASE a.from > 0
    <3>1. a.from < L /\ a.from % 4 = 0 /\ a.from = Whole(m)
      BY <1>1, <2>4
    <3>2. (n + 1) - 1 = n /\ n + 1 > 0 /\ n \in 0..n
      BY <1>2
    <3>3. D[(n + 1) - 1] = S[n]
      BY <1>8, <3>2
    <3>4. a.w = G[n + 1] /\ lens[a.w] = L
      BY <1>1, <1>6 DEF L
    <3> QED BY <1>1, <1>6, <2>1, <2>2, <2>4, <3>1, <3>2, <3>3, <3>4 DEF Reached
  <2>5. a.from \in Nat
    BY <1>1 DEF Place
  <2> QED BY <2>3, <2>4, <2>5
<1>13. Begun(lens, G, out, sizes2)
  <2>1. /\ c % 4 = 0
        /\ c > 0 => /\ n > 0 /\ c < lens[F[1]] /\ \A k \in 1..c : out[k] = <<F[1], k>>
        /\ Len(sizes) = n /\ \A j \in 1..n : sizes[j] = lens[F[j]]
    BY DEF Card, Begun, c
  <2>2. /\ Len(sizes2) = Len(sizes) + 1
        /\ \A i \in 1..Len(sizes) : sizes2[i] = sizes[i]
        /\ sizes2[Len(sizes) + 1] = L
    <3>1. L \in Nat
      BY <1>1
    <3> QED BY <3>1, AppendKeeps DEF L
  <2>3. \A j \in 1..(n + 1) : sizes2[j] = lens[G[j]]
    BY <1>6, <2>1, <2>2 DEF L
  <2>4. ASSUME c > 0
        PROVE  n + 1 > 0 /\ c < lens[G[1]] /\ \A k \in 1..c : out[k] = <<G[1], k>>
    <3>1. 1 \in 1..n /\ n + 1 > 0
      BY <1>2, <2>1, <2>4
    <3>2. G[1] = F[1]
      BY <1>6, <3>1
    <3> QED BY <2>1, <2>4, <3>1, <3>2
  <2> QED BY <1>6, <2>1, <2>2, <2>3, <2>4 DEF Begun, c
<1>14. Gone(lens, G, a, s)
  <2> DEFINE First(r) == r.data[1][1]
  <2>1. /\ s \in Seq([data : Seq(Byte), stale : BOOLEAN])
        /\ \A i \in 1..Len(s) :
             /\ First(s[i]) \in 1..Len(lens) /\ First(s[i]) <= e.w
             /\ Len(s[i].data) = lens[First(s[i])]
             /\ \A k \in 1..Len(s[i].data) : s[i].data[k] = <<First(s[i]), k>>
             /\ \A j \in 1..n : First(s[i]) < F[j]
        /\ \A i, j \in 1..Len(s) : i < j => First(s[i]) < First(s[j])
    BY DEF Card, Gone
  <2>2. ASSUME NEW i \in 1..Len(s)
        PROVE  First(s[i]) <= a.w /\ \A j \in 1..(n + 1) : First(s[i]) < G[j]
    <3> HIDE DEF First
    <3>1. First(s[i]) \in Nat /\ First(s[i]) <= e.w /\ e.w < b.w /\ e.w \in Nat
      <4>1. First(s[i]) \in 1..Len(lens) /\ Len(lens) \in Nat
        BY <2>1, LenProperties
      <4> QED BY <1>4, <2>1, <4>1 DEF Place
    <3>2. First(s[i]) < b.w /\ First(s[i]) <= b.w
      <4>1. \A x, y, z \in Nat : x <= y /\ y < z => x < z /\ x <= z
        OBVIOUS
      <4> QED BY <1>1, <3>1, <4>1
    <3> QED BY <1>1, <1>6, <2>1, <3>2
  <2> HIDE DEF First
  <2>3. \A i \in 1..Len(s) :
             /\ First(s[i]) \in 1..Len(lens) /\ First(s[i]) <= a.w
             /\ Len(s[i].data) = lens[First(s[i])]
             /\ \A k \in 1..Len(s[i].data) : s[i].data[k] = <<First(s[i]), k>>
             /\ \A j \in 1..Len(G) : First(s[i]) < G[j]
    BY <1>6, <2>1, <2>2
  <2> QED BY <2>1, <2>3 DEF Gone, First
<1> QED BY <1>9, <1>10, <1>11, <1>12, <1>13, <1>14 DEF Card, G, D, L, c, a

\* A later descriptor of a request continues the last frame in the FIFO.
LEMMA PushContinues ==
  ASSUME NEW lens \in Seq(Nat), NEW F, NEW S, NEW e, NEW q, NEW out \in Seq(Byte),
         NEW sizes, NEW s, Card(lens, F, S, e, q, out, sizes, s),
         NEW b, IsPart(lens, b), Accepts(e, b), b.from > 0,
         NEW q2, PushSays(lens, b, q, q2)
  PROVE  Card(lens, F, S, After(lens, b), q2, out, sizes, s)
<1> DEFINE L == lens[b.w]
           n == Len(F)
           c == Len(out)
           m == Share(lens, b)
           a == After(lens, b)
<1>1. /\ b.w \in Nat /\ b.from \in Nat /\ b.w \in 1..Len(lens) /\ L \in Nat /\ m \in Nat
      /\ Whole(m) \in Nat /\ a \in Place /\ a.w = b.w
      /\ \/ a.from = 0 /\ b.from + Whole(m) = Whole(L)
         \/ /\ a.from > 0 /\ a.from < L /\ a.from % 4 = 0 /\ b.from + Whole(m) = a.from
  <2>1. /\ b.w \in Nat /\ b.from \in Nat /\ b.w \in 1..Len(lens) /\ L \in Nat /\ m \in Nat
        /\ Whole(m) \in Nat /\ a \in Place /\ a.w = b.w
        /\ \/ a.from = 0 /\ b.from + Whole(m) = Whole(L)
           \/ /\ a.from = b.from + TxSize /\ a.from > 0 /\ a.from < L /\ a.from % 4 = 0
              /\ m = TxSize /\ Whole(TxSize) = TxSize
    BY PartFacts
  <2> HIDE DEF a, m, L
  <2> QED BY <2>1
<1>2. F \in Seq(Nat) /\ n \in Nat
  BY LenProperties DEF Card, Frames
<1>3. /\ S \in [0..n -> Nat] /\ S[0] = 0
      /\ \A j \in 1..n : S[j] = S[j - 1] + Whole(lens[F[j]])
      /\ \A i, j \in 0..n : i <= j => S[i] <= S[j]
  BY DEF Card, Offsets
<1>4. e \in Place /\ e = b /\ \A j \in 1..n : F[j] <= b.w
  <2>1. e \in Place /\ \A j \in 1..n : F[j] <= e.w
    BY DEF Card, Reached
  <2>2. b.from # 0
    BY <1>1
  <2>3. e = b
    BY <2>2 DEF Accepts
  <2> QED BY <2>1, <2>3
<1>5. n > 0 /\ b.w = F[n] /\ c + Len(q) = S[n - 1] + b.from
  BY <1>4 DEF Card, Reached
<1>6. /\ c \in Nat /\ Len(q) \in Nat /\ Len(q2) = Len(q) + Whole(m)
      /\ n \in 1..n /\ n - 1 \in 0..n /\ S[n - 1] \in Nat /\ S[n] = S[n - 1] + Whole(L)
  <2>1. n \in 1..n /\ n - 1 \in 0..n
    BY <1>2, <1>5
  <2>2. S[n - 1] \in Nat /\ S[n] = S[n - 1] + Whole(lens[F[n]])
    BY <1>3, <2>1
  <2> QED BY <1>5, <2>1, <2>2, LenProperties DEF PushSays
<1> HIDE DEF L, c, m, a, n
<1>7. Whole(L) \in Nat
  BY <1>1, WholeFacts
<1>0. \A k \in Int : S[n - 1] + k - c = Len(q) + (k - b.from) /\ b.from + (k - b.from) = k
  <2> DEFINE f == b.from
             l == Len(q)
             y == S[n - 1]
  <2>1. f \in Nat /\ c \in Nat /\ l \in Nat /\ y \in Nat /\ c + l = y + f
    BY <1>1, <1>5, <1>6
  <2> HIDE DEF f, l, y
  <2>2. \A k \in Int : y + k - c = l + (k - f) /\ f + (k - f) = k
    BY <2>1
  <2> QED BY <2>2 DEF f, l, y
<1>8. Content(lens, F, S, q2, c)
  <2> SUFFICES ASSUME NEW j \in 1..n, NEW k \in 1..Whole(lens[F[j]]),
                      S[j - 1] + k - c \in 1..Len(q2)
               PROVE  q2[S[j - 1] + k - c] = Image(lens, F[j], k)
    BY DEF Content, n
  <2> DEFINE x == S[j - 1] + k - c
  <2>0. j - 1 \in 0..n /\ j \in 0..n /\ j \in Nat /\ S[j - 1] \in Nat /\ k \in Int
    <3>1. j - 1 \in 0..n /\ j \in 0..n /\ j \in Nat
      BY <1>2 DEF n
    <3>2. S \in [0..n -> Nat]
      BY <1>3
    <3>3. S[j - 1] \in Nat
      BY <3>1, <3>2
    <3>4. k \in Int
      OBVIOUS
    <3> QED BY <3>1, <3>3, <3>4
  <2>1. x \in 1..(Len(q) + Whole(m)) /\ x \in Nat
    BY <1>1, <1>6
  <2>2. CASE x \in 1..Len(q)
    <3>1. q[x] = Image(lens, F[j], k)
      BY <2>2 DEF Card, Content, c, n
    <3>2. q2[x] = q[x]
      BY <2>2 DEF PushSays
    <3> QED BY <3>1, <3>2
  <2>3. CASE x \notin 1..Len(q)
    <3>1. x > Len(q)
      BY <1>1, <1>6, <2>1, <2>3
    <3>2. c + Len(q) < S[j - 1] + k
      <4>1. \A u, v, l \in Nat, i \in Int : u + i - v > l => v + l < u + i
        OBVIOUS
      <4> QED BY <1>6, <2>0, <3>1, <4>1
    <3>3. j = n
      <4> SUFFICES ASSUME j # n PROVE FALSE
        OBVIOUS
      <4>1. j \in 0..n /\ n - 1 \in 0..n /\ j <= n - 1
        BY <1>2, <1>6, <2>0 DEF n
      <4>2. S[j] <= S[n - 1] /\ S[j] = S[j - 1] + Whole(lens[F[j]])
        BY <1>3, <4>1
      <4>3. S[j] \in Nat
        BY <1>3, <4>1
      <4>4. Whole(lens[F[j]]) \in Nat
        <5>1. F[j] \in 1..Len(lens)
          BY DEF Card, Frames, n
        <5>2. lens[F[j]] \in Nat
          BY <5>1, ElementOfSeq
        <5> QED BY <5>2, WholeFacts
      <4>5. k <= Whole(lens[F[j]]) /\ k \in Nat
        BY <4>4
      <4>6. \A u, h, y, f, i \in Nat : ~(y + f < u + i /\ i <= h /\ u + h <= y)
        OBVIOUS
      <4>7. S[n - 1] + b.from < S[j - 1] + k /\ S[j - 1] + Whole(lens[F[j]]) <= S[n - 1]
        BY <1>5, <3>2, <4>2
      <4> QED BY <1>1, <1>6, <2>0, <4>4, <4>5, <4>6, <4>7
    <3>4. k - b.from \in 1..Whole(m) /\ x = Len(q) + (k - b.from) /\ b.from + (k - b.from) = k
      <4>2. x = Len(q) + (k - b.from) /\ b.from + (k - b.from) = k
        BY <1>0, <2>0, <3>3
      <4>3. \A l, h \in Nat, i \in Int : l + i \in 1..(l + h) /\ l + i > l => i \in 1..h
        OBVIOUS
      <4>4. k - b.from \in Int
        BY <1>1, <2>0
      <4> QED BY <1>1, <1>6, <2>1, <3>1, <4>2, <4>3, <4>4
    <3>5. q2[Len(q) + (k - b.from)] = Image(lens, b.w, b.from + (k - b.from))
      BY <3>4 DEF PushSays, m
    <3> QED BY <1>5, <3>3, <3>4, <3>5
  <2> QED BY <2>2, <2>3
<1>9. Reached(lens, F, S, a, c + Len(q2))
  <2>1. c + Len(q2) = S[n - 1] + (b.from + Whole(m))
    <3>2. /\ b.from \in Nat /\ c \in Nat /\ Len(q) \in Nat /\ S[n - 1] \in Nat /\ Whole(m) \in Nat
          /\ c + Len(q) = S[n - 1] + b.from
      BY <1>1, <1>5, <1>6
    <3>3. (c + Len(q)) + Whole(m) = (S[n - 1] + b.from) + Whole(m)
      BY <3>2
    <3>4. \A u, v, h \in Nat : (u + v) + h = u + (v + h)
      OBVIOUS
    <3>5. (c + Len(q)) + Whole(m) = c + (Len(q) + Whole(m))
      BY <3>2, <3>4
    <3>6. (S[n - 1] + b.from) + Whole(m) = S[n - 1] + (b.from + Whole(m))
      BY <3>2, <3>4
    <3> QED BY <1>6, <3>3, <3>5, <3>6
  <2>2. a \in Place /\ a.w = b.w /\ a.from \in Nat /\ \A j \in 1..n : F[j] <= a.w
    BY <1>1, <1>4 DEF Place
  <2>3. CASE a.from = 0
    <3>1. c + Len(q2) = S[n]
      BY <1>1, <1>6, <2>1, <2>3
    <3> QED BY <2>2, <2>3, <3>1 DEF Reached, n
  <2>4. CASE a.from > 0
    <3>1. c + Len(q2) = S[n - 1] + a.from /\ a.from < lens[a.w] /\ a.from % 4 = 0
      BY <1>1, <2>1, <2>4 DEF L
    <3> QED BY <1>5, <2>2, <2>4, <3>1 DEF Reached, n
  <2> QED BY <2>2, <2>3, <2>4
<1>10. Gone(lens, F, a, s)
  BY <1>1, <1>4 DEF Card, Gone
<1> QED BY <1>8, <1>9, <1>10 DEF Card, c, a

\* What PushWords does when there is room.
LEMMA PushRoom ==
  ASSUME NEW lens \in Seq(Nat), NEW b, IsPart(lens, b), txfifo \in Seq(Byte),
         Len(txfifo) + Whole(Share(lens, b)) <= FifoSize,
         NEW bytes, bytes = [k \in 1..Share(lens, b) |-> <<b.w, b.from + k>>]
  PROVE  PushSays(lens, b, txfifo, PushWords(bytes))
<1> DEFINE m    == Share(lens, b)
           p    == (4 - (m % 4)) % 4
           pads == [j \in 1..p |-> Pad]
           both == txfifo \o bytes
           all  == both \o pads
<1>1. /\ b.w \in Nat /\ b.from \in Nat /\ lens[b.w] \in Nat /\ b.from < lens[b.w] /\ m \in Nat
      /\ \/ m = lens[b.w] - b.from
         \/ m = TxSize /\ Whole(TxSize) = TxSize /\ b.from + TxSize < lens[b.w]
  <2>1. /\ b.w \in Nat /\ b.from \in Nat /\ lens[b.w] \in Nat /\ b.from < lens[b.w] /\ m \in Nat
        /\ \/ m = lens[b.w] - b.from
           \/ /\ After(lens, b).from = b.from + TxSize /\ After(lens, b).from < lens[b.w]
              /\ m = TxSize /\ Whole(TxSize) = TxSize
    BY PartFacts
  <2> QED BY <2>1
<1> HIDE DEF m
<1>2. Len(txfifo) \in Nat
  BY LenProperties
<1>3. bytes \in Seq(Byte) /\ Len(bytes) = m /\ \A k \in 1..m : bytes[k] = <<b.w, b.from + k>>
  <2>1. bytes \in [1..m -> Byte]
    BY <1>1 DEF Byte, m
  <2> QED BY <1>1, <2>1, FunctionIsSeq DEF m
<1>4. p \in Nat /\ Whole(m) = m + p /\ Whole(m) \in Nat
  <2>1. Whole(m) = m + p
    BY DEF Whole
  <2>2. p \in Nat
    BY <1>1
  <2> QED BY <1>1, <2>1, <2>2
<1>5. pads \in Seq(Byte) /\ Len(pads) = p /\ \A k \in 1..p : pads[k] = Pad
  <2>1. pads \in [1..p -> Byte] /\ \A k \in 1..p : pads[k] = Pad
    BY DEF Pad, Byte
  <2> HIDE DEF p, pads
  <2> QED BY <1>4, <2>1, FunctionIsSeq
<1>0. PushWords(bytes) = SubSeq(all, 1, MinOf(Len(all), FifoSize))
  BY <1>3 DEF PushWords
<1> HIDE DEF p, pads
<1>6. /\ both \in Seq(Byte) /\ Len(both) = Len(txfifo) + m
      /\ \A i \in 1..(Len(txfifo) + m) :
           both[i] = IF i <= Len(txfifo) THEN txfifo[i] ELSE bytes[i - Len(txfifo)]
  BY <1>3, ConcatProperties
<1> HIDE DEF both
<1>7. /\ all \in Seq(Byte) /\ Len(all) = (Len(txfifo) + m) + p
      /\ \A i \in 1..((Len(txfifo) + m) + p) :
           all[i] = IF i <= Len(txfifo) + m THEN both[i] ELSE pads[i - (Len(txfifo) + m)]
  <2>1. /\ both \o pads \in Seq(Byte) /\ Len(both \o pads) = Len(both) + Len(pads)
        /\ \A i \in 1..(Len(both) + Len(pads)) :
             (both \o pads)[i] = IF i <= Len(both) THEN both[i] ELSE pads[i - Len(both)]
    <3>1. both \in Seq(Byte) /\ pads \in Seq(Byte)
      BY <1>5, <1>6
    <3> QED BY <3>1, ConcatProperties
  <2>2. Len(both) = Len(txfifo) + m /\ Len(pads) = p
    BY <1>5, <1>6
  <2> QED BY <2>1, <2>2
<1> HIDE DEF all
<1>8. Len(all) = Len(txfifo) + Whole(m) /\ Len(all) \in Nat
  BY <1>1, <1>2, <1>4, <1>7
<1>9. PushWords(bytes) = all
  <2>1. MinOf(Len(all), FifoSize) = Len(all)
    <3>1. Len(all) <= FifoSize
      BY <1>8 DEF m
    <3> QED BY <3>1 DEF MinOf
  <2>2. SubSeq(all, 1, Len(all)) = all
    BY <1>7, <1>8
  <2> QED BY <1>0, <2>1, <2>2
<1>10. ASSUME NEW i \in 1..Len(txfifo) PROVE all[i] = txfifo[i]
  <2>1. /\ i \in 1..((Len(txfifo) + m) + p) /\ i <= Len(txfifo) + m
        /\ i \in 1..(Len(txfifo) + m) /\ i <= Len(txfifo)
    BY <1>1, <1>2, <1>4
  <2> QED BY <1>6, <1>7, <2>1
<1>11. ASSUME NEW k \in 1..Whole(m) PROVE all[Len(txfifo) + k] = Image(lens, b.w, b.from + k)
  <2>0. k \in Nat /\ k >= 1 /\ k <= m + p
    BY <1>4
  <2>1. CASE k <= m
    <3>1. \A u, v, i, h \in Nat : i >= 1 /\ i <= v =>
            /\ u + i \in 1..((u + v) + h) /\ u + i <= u + v /\ u + i \in 1..(u + v)
            /\ ~(u + i <= u) /\ u + i - u = i
      OBVIOUS
    <3>2. /\ Len(txfifo) + k \in 1..((Len(txfifo) + m) + p) /\ Len(txfifo) + k <= Len(txfifo) + m
          /\ Len(txfifo) + k \in 1..(Len(txfifo) + m)
          /\ ~(Len(txfifo) + k <= Len(txfifo)) /\ Len(txfifo) + k - Len(txfifo) = k
      BY <1>1, <1>2, <1>4, <2>0, <2>1, <3>1
    <3>3. all[Len(txfifo) + k] = bytes[k]
      <4> DEFINE x == Len(txfifo) + k
      <4>0. /\ x \in 1..((Len(txfifo) + m) + p) /\ x <= Len(txfifo) + m
            /\ x \in 1..(Len(txfifo) + m) /\ ~(x <= Len(txfifo)) /\ x - Len(txfifo) = k
        BY <3>2
      <4> HIDE DEF x
      <4>1. all[x] = both[x]
        BY <1>7, <4>0
      <4>2. both[x] = bytes[x - Len(txfifo)]
        BY <1>6, <4>0
      <4>3. all[x] = bytes[k]
        BY <4>0, <4>1, <4>2
      <4> QED BY <4>3 DEF x
    <3>4. bytes[k] = <<b.w, b.from + k>>
      <4>1. k \in 1..m
        BY <1>1, <2>0, <2>1
      <4> QED BY <1>3, <4>1
    <3>5. b.from + k <= lens[b.w]
      BY <1>1, <2>0, <2>1, RingAssumption
    <3> QED BY <3>3, <3>4, <3>5 DEF Image
  <2>2. CASE ~(k <= m)
    <3>1. \A u, v, i, h \in Nat : ~(i <= v) /\ i <= v + h =>
            /\ u + i \in 1..((u + v) + h) /\ ~(u + i <= u + v) /\ (u + i) - (u + v) \in 1..h
      OBVIOUS
    <3>2. /\ Len(txfifo) + k \in 1..((Len(txfifo) + m) + p) /\ ~(Len(txfifo) + k <= Len(txfifo) + m)
          /\ (Len(txfifo) + k) - (Len(txfifo) + m) \in 1..p
      BY <1>1, <1>2, <1>4, <2>0, <2>2, <3>1
    <3>3. all[Len(txfifo) + k] = Pad
      <4> DEFINE x == Len(txfifo) + k
      <4>0. /\ x \in 1..((Len(txfifo) + m) + p) /\ ~(x <= Len(txfifo) + m)
            /\ x - (Len(txfifo) + m) \in 1..p
        BY <3>2
      <4> HIDE DEF x
      <4>1. all[x] = IF x <= Len(txfifo) + m THEN both[x] ELSE pads[x - (Len(txfifo) + m)]
        BY <1>7, <4>0
      <4>2. pads[x - (Len(txfifo) + m)] = Pad
        BY <1>5, <4>0
      <4>3. all[x] = Pad
        BY <4>0, <4>1, <4>2
      <4> QED BY <4>3 DEF x
    <3>4. m = lens[b.w] - b.from
      <4>1. SUFFICES ASSUME m = TxSize, Whole(TxSize) = TxSize PROVE FALSE
        BY <1>1
      <4> QED BY <1>1, <1>4, <2>0, <2>2, <4>1
    <3>5. ~(b.from + k <= lens[b.w])
      <4>1. \A x, y, i \in Nat : x < y /\ ~(i <= y - x) => ~(x + i <= y)
        OBVIOUS
      <4> QED BY <1>1, <2>0, <2>2, <3>4, <4>1
    <3> QED BY <3>3, <3>5 DEF Image
  <2> QED BY <2>1, <2>2
<1> QED BY <1>2, <1>4, <1>8, <1>9, <1>10, <1>11 DEF PushSays, m

-----------------------------------------------------------------------------
(* The descriptors with data.                                              *)

\* The first descriptor with data is released.
LEMMA PartsShift ==
  ASSUME NEW lens, NEW ds \in [Ring -> Desc], NEW u \in Ring, NEW n \in 0..TxNum, NEW t, NEW p,
         Parts(lens, ds, u, n, t, p), n > 0, NEW es, \A i \in Ring : i # u => es[i] = ds[i],
         NEW t2, t2 = [k \in 0..(n - 1) |-> t[k + 1]],
         NEW p2, p2 = [k \in 1..(n - 1) |-> p[k + 1]]
  PROVE  Parts(lens, es, NextDesc(u), n - 1, t2, p2)
<1> DEFINE v  == NextDesc(u)
<1>0. n \in Nat /\ TxNum \in Nat /\ n <= TxNum
  BY RingFacts
<1>1. /\ t \in [0..n -> Place] /\ p \in [1..n -> Place]
      /\ \A k \in 1..n : /\ IsPart(lens, p[k]) /\ ds[RingPos(u, k - 1)] = PartDesc(lens, p[k])
                         /\ Accepts(t[k - 1], p[k]) /\ t[k] = After(lens, p[k])
      /\ \A i, j \in 0..n : i <= j => t[i].w <= t[j].w
  BY DEF Parts
<1>2. \A k \in 0..(n - 1) : k + 1 \in 0..n /\ t2[k] = t[k + 1]
  BY <1>0
<1>3. \A k \in 1..(n - 1) : /\ k + 1 \in 1..n /\ p2[k] = p[k + 1] /\ k \in Ring /\ k # 0
                            /\ k - 1 \in Ring /\ (k - 1) + 1 = k /\ (k + 1) - 1 = k
                            /\ k \in 0..(n - 1) /\ k - 1 \in 0..(n - 1)
  BY <1>0 DEF Ring
<1>4. t2 \in [0..(n - 1) -> Place]
  BY <1>1, <1>2
<1>5. p2 \in [1..(n - 1) -> Place]
  BY <1>1, <1>3
<1>6. ASSUME NEW k \in 1..(n - 1)
      PROVE  /\ IsPart(lens, p2[k]) /\ es[RingPos(v, k - 1)] = PartDesc(lens, p2[k])
             /\ Accepts(t2[k - 1], p2[k]) /\ t2[k] = After(lens, p2[k])
  <2>1. RingPos(v, k - 1) = RingPos(u, k) /\ RingPos(u, k) \in Ring /\ RingPos(u, k) # u
    <3>1. RingPos(v, k - 1) = RingPos(u, (k - 1) + 1)
      BY <1>3, PosOfNext
    <3>2. RingPos(u, k) \in Ring
      BY <1>3, PosType, RingFacts
    <3>3. RingPos(u, k) # u
      BY <1>3, PosInjective, PosZero, RingFacts
    <3> QED BY <1>3, <3>1, <3>2, <3>3
  <2>2. es[RingPos(u, k)] = ds[RingPos(u, k)]
    BY <2>1
  <2>3. k + 1 \in 1..n /\ p2[k] = p[k + 1] /\ (k + 1) - 1 = k
    BY <1>3
  <2>4. /\ IsPart(lens, p[k + 1]) /\ ds[RingPos(u, (k + 1) - 1)] = PartDesc(lens, p[k + 1])
        /\ Accepts(t[(k + 1) - 1], p[k + 1]) /\ t[k + 1] = After(lens, p[k + 1])
    BY <1>1, <2>3
  <2>5. t2[k] = t[k + 1] /\ t2[k - 1] = t[k]
    BY <1>2, <1>3
  <2> QED BY <2>1, <2>2, <2>3, <2>4, <2>5
<1>7. ASSUME NEW i \in 0..(n - 1), NEW j \in 0..(n - 1), i <= j PROVE t2[i].w <= t2[j].w
  <2>1. i + 1 \in 0..n /\ j + 1 \in 0..n /\ i + 1 <= j + 1
    BY <1>0, <1>7
  <2> QED BY <1>1, <1>2, <2>1
<1> QED BY <1>4, <1>5, <1>6, <1>7 DEF Parts

\* The places of one descriptor more, which begins at b.
Grown(lens, b, n, t, p, t2, p2) ==
  /\ t2 \in [0..(n + 1) -> Place] /\ p2 \in [1..(n + 1) -> Place]
  /\ \A k \in 0..n : t2[k] = t[k]
  /\ t2[n + 1] = After(lens, b)
  /\ \A k \in 1..n : p2[k] = p[k]
  /\ p2[n + 1] = b

\* The descriptor after the last one with data is filled.
LEMMA PartsGrow ==
  ASSUME NEW lens \in Seq(Nat), NEW ds \in [Ring -> Desc], NEW u \in Ring, NEW n \in Ring,
         NEW t, NEW p, Parts(lens, ds, u, n, t, p), NEW b, IsPart(lens, b), Accepts(t[n], b),
         NEW es, es = [ds EXCEPT ![RingPos(u, n)] = PartDesc(lens, b)],
         NEW t2, NEW p2, Grown(lens, b, n, t, p, t2, p2)
  PROVE  Parts(lens, es, u, n + 1, t2, p2)
<1> DEFINE f  == RingPos(u, n)
           d  == PartDesc(lens, b)
<1>0. n \in Nat /\ TxNum \in Nat /\ n < TxNum /\ f \in Ring
  BY PosType, RingFacts
<1>1. /\ t \in [0..n -> Place] /\ p \in [1..n -> Place]
      /\ \A k \in 1..n : /\ IsPart(lens, p[k]) /\ ds[RingPos(u, k - 1)] = PartDesc(lens, p[k])
                         /\ Accepts(t[k - 1], p[k]) /\ t[k] = After(lens, p[k])
      /\ \A i, j \in 0..n : i <= j => t[i].w <= t[j].w
  BY DEF Parts
<1>2. After(lens, b) \in Place /\ After(lens, b).w = b.w /\ b \in Place /\ b.w \in Nat
  BY PartFacts DEF IsPart
<1>3. /\ \A k \in 0..n : k \in 0..(n + 1) /\ t2[k] = t[k]
      /\ t2[n + 1] = After(lens, b)
      /\ \A k \in 0..(n + 1) : k \in 0..n \/ k = n + 1
  BY <1>0 DEF Grown
<1>4. /\ \A k \in 1..n : k \in 1..(n + 1) /\ p2[k] = p[k]
      /\ p2[n + 1] = b
      /\ \A k \in 1..(n + 1) : k \in 1..n \/ k = n + 1
  BY <1>0 DEF Grown
<1> HIDE DEF d
<1>7. ASSUME NEW k \in 1..(n + 1)
      PROVE  /\ IsPart(lens, p2[k]) /\ es[RingPos(u, k - 1)] = PartDesc(lens, p2[k])
             /\ Accepts(t2[k - 1], p2[k]) /\ t2[k] = After(lens, p2[k])
  <2>1. CASE k \in 1..n
    <3>1. k - 1 \in Ring /\ k - 1 # n /\ k - 1 \in 0..n /\ k \in 0..n
      BY <1>0, <2>1 DEF Ring
    <3>2. RingPos(u, k - 1) # f /\ RingPos(u, k - 1) \in Ring
      BY <3>1, PosInjective, PosType, RingFacts
    <3>3. es[RingPos(u, k - 1)] = ds[RingPos(u, k - 1)]
      BY <3>2
    <3> QED BY <1>1, <1>3, <1>4, <2>1, <3>1, <3>3
  <2>2. CASE k = n + 1
    <3>1. k - 1 = n /\ n \in 0..n
      BY <1>0, <2>2
    <3>2. es[RingPos(u, k - 1)] = d
      <4>1. es = [ds EXCEPT ![f] = d] /\ f \in Ring
        BY <1>0 DEF d
      <4>2. es[f] = d
        BY <4>1
      <4> QED BY <3>1, <4>2
    <3> QED BY <1>3, <1>4, <2>2, <3>1, <3>2 DEF d
  <2> QED BY <1>4, <2>1, <2>2
<1>8. ASSUME NEW i \in 0..(n + 1), NEW j \in 0..(n + 1), i <= j PROVE t2[i].w <= t2[j].w
  <2>1. CASE j \in 0..n
    <3>1. i \in 0..n
      BY <1>0, <1>8, <2>1
    <3> QED BY <1>1, <1>3, <1>8, <2>1, <3>1
  <2>2. CASE j = n + 1 /\ i \in 0..n
    <3>1. t[i].w <= t[n].w /\ n \in 0..n
      <4>1. n \in 0..n /\ i <= n
        BY <1>0, <2>2
      <4> QED BY <1>1, <2>2, <4>1
    <3>2. t[i].w \in Nat /\ t[n].w \in Nat /\ t[n].w <= b.w
      <4>1. t[i] \in Place /\ t[n] \in Place
        BY <1>1, <2>2, <3>1
      <4>2. t[i].w \in Nat /\ t[n].w \in Nat
        BY <4>1 DEF Place
      <4>3. b = t[n] \/ b.w > t[n].w
        BY DEF Accepts
      <4> QED BY <1>2, <4>2, <4>3
    <3>3. t[i].w <= b.w
      <4> DEFINE x == t[i].w
                 y == t[n].w
                 z == b.w
      <4>1. x \in Nat /\ y \in Nat /\ z \in Nat /\ x <= y /\ y <= z
        BY <1>2, <3>1, <3>2
      <4> HIDE DEF x, y, z
      <4>2. x <= z
        BY <4>1
      <4> QED BY <4>2 DEF x, z
    <3> QED BY <1>2, <1>3, <2>2, <3>3
  <2>3. CASE j = n + 1 /\ i = n + 1
    BY <1>2, <1>3, <2>3
  <2> QED BY <1>3, <2>1, <2>2, <2>3
<1> QED BY <1>7, <1>8 DEF Parts, Grown

\* More requests change nothing for those there were.
More(lens, lens2) ==
  \A w \in 1..Len(lens) : w \in 1..Len(lens2) /\ lens2[w] = lens[w]

\* The card holds the same frames.
LEMMA MoreKeepsCard ==
  ASSUME NEW lens, NEW lens2, More(lens, lens2),
         NEW F, NEW S, NEW e, NEW q, NEW out, NEW sizes, NEW s,
         Card(lens, F, S, e, q, out, sizes, s)
  PROVE  Card(lens2, F, S, e, q, out, sizes, s)
<1>1. \A j \in 1..Len(F) : F[j] \in 1..Len(lens) /\ F[j] \in 1..Len(lens2)
                           /\ lens2[F[j]] = lens[F[j]]
  BY DEF Card, Frames, More
<1>2. Frames(lens2, F)
  BY <1>1 DEF Card, Frames
<1>3. Offsets(lens2, F, S)
  BY <1>1 DEF Card, Offsets
<1>4. Content(lens2, F, S, q, Len(out))
  BY <1>1 DEF Card, Content, Image
<1>5. Reached(lens2, F, S, e, Len(out) + Len(q))
  <2>1. ASSUME e.from > 0 PROVE lens2[e.w] = lens[e.w]
    <3>1. Len(F) > 0 /\ e.w = F[Len(F)] /\ Len(F) \in Nat
      BY <2>1, LenProperties DEF Card, Reached, Frames
    <3>2. Len(F) \in 1..Len(F)
      BY <3>1
    <3> QED BY <1>1, <3>1, <3>2
  <2>2. e.from > 0 => e.from < lens2[e.w]
    BY <2>1 DEF Card, Reached
  <2> QED BY <2>2 DEF Card, Reached
<1>6. Begun(lens2, F, out, sizes)
  <2>1. ASSUME Len(out) > 0 PROVE Len(out) < lens2[F[1]]
    <3>1. Len(F) > 0 /\ Len(F) \in Nat
      BY <2>1, LenProperties DEF Card, Begun, Frames
    <3>2. 1 \in 1..Len(F)
      BY <3>1
    <3> QED BY <1>1, <2>1, <3>2 DEF Card, Begun
  <2> QED BY <1>1, <2>1 DEF Card, Begun
<1>7. Gone(lens2, F, e, s)
  BY DEF Card, Gone, More
<1> QED BY <1>2, <1>3, <1>4, <1>5, <1>6, <1>7 DEF Card

\* The descriptors hold the same parts of the same requests.
LEMMA MoreKeepsParts ==
  ASSUME NEW lens, NEW lens2, More(lens, lens2), NEW ds, NEW u, NEW n, NEW t, NEW p,
         Parts(lens, ds, u, n, t, p)
  PROVE  Parts(lens2, ds, u, n, t, p)
<1>1. ASSUME NEW b, IsPart(lens, b)
      PROVE  IsPart(lens2, b) /\ PartDesc(lens2, b) = PartDesc(lens, b)
             /\ After(lens2, b) = After(lens, b)
  <2>1. b.w \in 1..Len(lens2) /\ lens2[b.w] = lens[b.w]
    BY <1>1 DEF IsPart, More
  <2> QED BY <1>1, <2>1 DEF IsPart, PartDesc, After
<1> QED BY <1>1 DEF Parts

\* Sizes leave at the front and arrive at the end.
LEMMA SizesFacts ==
  ASSUME NEW bc \in Seq(Nat), NEW f, f.frame_size \in Nat
  PROVE  /\ Sizes(bc, f) \in Seq(Nat)
         /\ bc # << >> => /\ Len(Sizes(bc, f)) > 0 /\ Sizes(bc, f)[1] = Head(bc)
                          /\ Sizes(Tail(bc), f) = Tail(Sizes(bc, f))
<1> DEFINE x == f.frame_size
           u == Append(bc, x)
<1>0. Len(bc) \in Nat /\ x \in Nat
  BY LenProperties
<1>1. /\ u \in Seq(Nat) /\ Len(u) = Len(bc) + 1
      /\ \A i \in 1..Len(bc) : u[i] = bc[i]
      /\ u[Len(bc) + 1] = x
  BY <1>0, AppendKeeps
<1>2. Sizes(bc, f) = IF x # 0 THEN u ELSE bc
  BY DEF Sizes
<1>3. ASSUME bc # << >>
      PROVE  /\ Len(bc) > 0 /\ Len(u) > 0 /\ bc[1] = Head(bc) /\ u[1] = Head(bc)
             /\ Append(Tail(bc), x) = Tail(u)
  <2> DEFINE r == Tail(bc)
             v == Append(r, x)
             y == Tail(u)
  <2>1. Len(bc) > 0 /\ 1 \in 1..Len(bc) /\ Head(bc) = bc[1]
    <3>1. Len(bc) \in Nat \ {0}
      BY <1>3, EmptySeq
    <3> QED BY <3>1
  <2>2. r \in Seq(Nat) /\ Len(r) = Len(bc) - 1 /\ \A i \in 1..(Len(bc) - 1) : r[i] = bc[i + 1]
    <3>1. r \in Seq(Nat) /\ Len(r) = Len(bc) - 1 /\ \A i \in 1..Len(r) : r[i] = bc[i + 1]
      BY <1>3, HeadTailProperties
    <3> HIDE DEF r
    <3> QED BY <3>1
  <2> HIDE DEF r, u
  <2>3. /\ v \in Seq(Nat) /\ Len(v) = Len(r) + 1
        /\ \A i \in 1..Len(r) : v[i] = r[i]
        /\ v[Len(r) + 1] = x
    BY <1>0, <2>2, AppendKeeps
  <2>4. u # << >>
    <3>1. Len(u) # 0
      BY <1>0, <1>1
    <3> QED BY <3>1, EmptySeq
  <2>5. y \in Seq(Nat) /\ Len(y) = Len(u) - 1 /\ \A i \in 1..Len(y) : y[i] = u[i + 1]
    BY <1>1, <2>4, HeadTailProperties
  <2> HIDE DEF v, y
  <2>6. Len(v) = Len(bc) /\ Len(y) = Len(bc) /\ Len(r) + 1 = Len(bc)
    BY <1>0, <1>1, <2>2, <2>3, <2>5
  <2>7. ASSUME NEW i \in 1..Len(v) PROVE v[i] = y[i]
    <3>0. y[i] = u[i + 1]
      BY <2>5, <2>6
    <3>1. CASE i = Len(bc)
      BY <1>1, <2>3, <2>6, <3>0, <3>1
    <3>2. CASE i # Len(bc)
      <4>1. i \in 1..(Len(bc) - 1) /\ i \in 1..Len(r) /\ i + 1 \in 1..Len(bc)
        BY <1>0, <2>2, <2>6, <3>2
      <4> QED BY <1>1, <2>2, <2>3, <3>0, <4>1
    <3> QED BY <3>1, <3>2
  <2>8. v = y
    BY <2>3, <2>5, <2>6, <2>7, SeqEqual
  <2>9. u[1] = bc[1] /\ Len(u) > 0
    BY <1>0, <1>1, <2>1
  <2> QED BY <2>1, <2>8, <2>9 DEF v, y, r
<1>4. Sizes(Tail(bc), f) = IF x # 0 THEN Append(Tail(bc), x) ELSE Tail(bc)
  BY DEF Sizes
<1> HIDE DEF u
<1> QED BY <1>1, <1>2, <1>3, <1>4

-----------------------------------------------------------------------------
(* The card's steps and oframe_worker.                                     *)

\* Four parts of the state make it ordered.
LEMMA OrderedBy ==
  ASSUME NEW lens, NEW ds, NEW u, NEW f, NEW q, NEW out, NEW sizes, NEW s, NEW x, NEW waiting,
         NEW n \in 0..TxNum, NEW F, NEW S, NEW e, NEW t, NEW p, e = t[0],
         Window(ds, u, f, n), Card(lens, F, S, e, q, out, sizes, s),
         Parts(lens, ds, u, n, t, p), GoesOn(lens, t[n], x, waiting)
  PROVE  Ordered(lens, ds, u, f, q, out, sizes, s, x, waiting)
BY DEF Ordered

\* The size in hand is a number.
LEMMA InHandType ==
  IndInv => InHand.frame_size \in Nat
BY DEF IndInv, OframeInv, OframeState, InHand, IdleOframe

\* A word that goes out keeps the order.
LEMMA SendWordOrder ==
  ASSUME IndInv, NEW sole, OrderInv(sole), SendWord
  PROVE  OrderInv(sole)'
<1> DEFINE f     == InHand
           sizes == Sizes(bcfifo, f)
           out   == wire.out
           out2  == OutNext(out, txfifo, Head(bcfifo))
           q2    == SubSeq(txfifo, 5, Len(txfifo))
<1>1. /\ txfifo \in Seq(Byte) /\ HasWord(txfifo) /\ out \in Seq(Byte) /\ wire.xf \in BOOLEAN
      /\ wire \in [xf : BOOLEAN, out : Seq(Byte)]
      /\ bcfifo \in Seq(Nat) /\ bcfifo # << >> /\ issued \in Seq(Nat)
      /\ f.frame_size \in Nat
  <2>1. /\ txfifo \in Seq(Byte) /\ Len(txfifo) % 4 = 0 /\ out \in Seq(Byte) /\ wire.xf \in BOOLEAN
        /\ wire \in [xf : BOOLEAN, out : Seq(Byte)]
        /\ bcfifo \in Seq(Nat) /\ bcfifo # << >> /\ issued \in Seq(Nat) /\ txfifo # << >>
    BY DEF IndInv, DeviceInv, QueueInv, SendWord
  <2>2. HasWord(txfifo)
    <3>1. Len(txfifo) \in Nat \ {0}
      BY <2>1, EmptySeq
    <3> QED BY <2>1, <3>1 DEF HasWord
  <2>3. f.frame_size \in Nat
    BY InHandType
  <2> QED BY <2>1, <2>2, <2>3
<1>2. /\ sizes \in Seq(Nat) /\ Len(sizes) > 0 /\ sizes[1] = Head(bcfifo)
      /\ Sizes(Tail(bcfifo), f) = Tail(sizes)
  BY <1>1, SizesFacts
<1>0. PICK n \in 0..TxNum : \E F, S, t, p :
        /\ Window(tx_descriptors, fifo_tx_desc, user_tx_desc, n)
        /\ Card(issued, F, S, t[0], txfifo, out, sizes, sent)
        /\ Parts(issued, tx_descriptors, fifo_tx_desc, n, t, p)
        /\ GoesOn(issued, t[n], writer[sole], blocking_request_queue)
  BY DEF OrderInv, Ordered
<1>3. PICK F, S, t, p :
        /\ Window(tx_descriptors, fifo_tx_desc, user_tx_desc, n)
        /\ Card(issued, F, S, t[0], txfifo, out, sizes, sent)
        /\ Parts(issued, tx_descriptors, fifo_tx_desc, n, t, p)
        /\ GoesOn(issued, t[n], writer[sole], blocking_request_queue)
  BY <1>0
<1>4. Len(F) = Len(sizes) /\ Len(F) > 0 /\ issued[F[1]] = Head(bcfifo)
  <2>1. Len(sizes) = Len(F) /\ \A j \in 1..Len(F) : sizes[j] = issued[F[j]]
    BY <1>3 DEF Card, Begun
  <2>2. 1 \in 1..Len(F)
    <3>1. Len(sizes) \in Nat
      BY <1>2, LenProperties
    <3> QED BY <1>2, <2>1, <3>1
  <2> QED BY <1>2, <2>1, <2>2
<1>5. out2 = OutNext(out, txfifo, issued[F[1]])
  BY <1>4
<1>6. /\ txfifo' = q2 /\ issued' = issued /\ tx_descriptors' = tx_descriptors
      /\ fifo_tx_desc' = fifo_tx_desc /\ user_tx_desc' = user_tx_desc /\ InHand' = f
      /\ writer' = writer /\ blocking_request_queue' = blocking_request_queue
  BY DEF SendWord, ring, user, InHand
<1>7. \/ /\ Len(out2) = issued[F[1]] /\ bcfifo' = Tail(bcfifo) /\ wire'.out = << >>
         /\ \E b \in BOOLEAN : sent' = Append(sent, [data |-> out2, stale |-> b])
      \/ /\ Len(out2) < issued[F[1]] /\ bcfifo' = bcfifo /\ wire' = [wire EXCEPT !.out = out2]
         /\ sent' = sent
  <2> DEFINE b == out2[1][1] \in purged
  <2>1. \/ /\ Len(out2) = Head(bcfifo) /\ bcfifo' = Tail(bcfifo)
           /\ wire' = [xf |-> Tail(bcfifo) # << >>, out |-> << >>]
           /\ sent' = Append(sent, [data |-> out2, stale |-> b])
        \/ /\ Len(out2) < Head(bcfifo) /\ bcfifo' = bcfifo
           /\ wire' = [wire EXCEPT !.out = out2] /\ sent' = sent
    BY DEF SendWord, OutNext
  <2>2. b \in BOOLEAN
    OBVIOUS
  <2> HIDE DEF out2, b
  <2>3. CASE /\ Len(out2) = Head(bcfifo) /\ bcfifo' = Tail(bcfifo)
             /\ wire' = [xf |-> Tail(bcfifo) # << >>, out |-> << >>]
             /\ sent' = Append(sent, [data |-> out2, stale |-> b])
    <3>1. wire'.out = << >>
      BY <2>3
    <3> QED BY <1>4, <2>2, <2>3, <3>1
  <2>4. CASE /\ Len(out2) < Head(bcfifo) /\ bcfifo' = bcfifo
             /\ wire' = [wire EXCEPT !.out = out2] /\ sent' = sent
    BY <1>4, <2>4
  <2> QED BY <2>1, <2>3, <2>4
<1> HIDE DEF sizes, out, out2, q2, f
<1>8. \E G, D : Card(issued', G, D, t[0], txfifo', wire'.out, Sizes(bcfifo', InHand'), sent')
  <2>1. CASE /\ Len(out2) = issued[F[1]] /\ bcfifo' = Tail(bcfifo) /\ wire'.out = << >>
             /\ \E b \in BOOLEAN : sent' = Append(sent, [data |-> out2, stale |-> b])
    <3>1. PICK b \in BOOLEAN : sent' = Append(sent, [data |-> out2, stale |-> b])
      BY <2>1
    <3> DEFINE G == Tail(F)
               D == [j \in 0..(Len(F) - 1) |-> S[j + 1] - S[1]]
    <3>2. q2 = SubSeq(txfifo, 5, Len(txfifo)) /\ Len(out2) = issued[F[1]]
      BY <2>1 DEF q2
    <3>3. Card(issued, G, D, t[0], q2, << >>, Tail(sizes),
               Append(sent, [data |-> out2, stale |-> b]))
      BY <1>1, <1>2, <1>3, <1>4, <1>5, <3>2, SendLast
    <3> HIDE DEF G, D
    <3>4. Sizes(bcfifo', InHand') = Tail(sizes)
      BY <1>2, <1>6, <2>1
    <3>5. Card(issued', G, D, t[0], txfifo', wire'.out, Sizes(bcfifo', InHand'), sent')
      BY <1>6, <2>1, <3>1, <3>3, <3>4
    <3> QED BY <3>5
  <2>2. CASE /\ Len(out2) < issued[F[1]] /\ bcfifo' = bcfifo /\ wire' = [wire EXCEPT !.out = out2]
             /\ sent' = sent
    <3>1. q2 = SubSeq(txfifo, 5, Len(txfifo)) /\ Len(out2) < issued[F[1]]
      BY <2>2 DEF q2
    <3>2. Card(issued, F, S, t[0], q2, out2, sizes, sent)
      BY <1>1, <1>3, <1>4, <1>5, <3>1, SendMore
    <3>3. wire'.out = out2
      BY <1>1, <2>2
    <3>4. Sizes(bcfifo', InHand') = sizes
      BY <1>6, <2>2 DEF sizes
    <3> QED BY <1>6, <2>2, <3>2, <3>3, <3>4
  <2> QED BY <1>7, <2>1, <2>2
<1>9. PICK G, D : Card(issued', G, D, t[0], txfifo', wire'.out, Sizes(bcfifo', InHand'), sent')
  BY <1>8
<1>10. /\ Window(tx_descriptors', fifo_tx_desc', user_tx_desc', n)
       /\ Parts(issued', tx_descriptors', fifo_tx_desc', n, t, p)
       /\ GoesOn(issued', t[n], writer'[sole], blocking_request_queue')
  BY <1>3, <1>6
<1>11. Ordered(issued', tx_descriptors', fifo_tx_desc', user_tx_desc', txfifo', wire'.out,
               Sizes(bcfifo', InHand'), sent', writer'[sole], blocking_request_queue')
  BY <1>9, <1>10, OrderedBy
<1> QED BY <1>11 DEF OrderInv

\* What oframe_worker moves into the FIFO finds room there.
RoomThere ==
  \A o \in Oframes :
    OframeDesc(o) => Len(txfifo) + Whole(Len(tx_descriptors[fifo_tx_desc].data)) <= FifoSize

\* oframe_worker moves a descriptor into the FIFO.
LEMMA OframeDescOrder ==
  ASSUME IndInv, NEW sole, NEW o \in Oframes, HoldInv(sole), OrderInv(sole), OframeDesc(o),
         RoomThere
  PROVE  OrderInv(sole)'
<1> DEFINE f     == oframe[o]
           g     == oframe'[o]
           sizes == Sizes(bcfifo, f)
           u     == fifo_tx_desc
           ds    == tx_descriptors
           d     == ds[u]
<1>1. /\ txfifo \in Seq(Byte) /\ Len(txfifo) \in Nat /\ wire.out \in Seq(Byte)
      /\ bcfifo \in Seq(Nat) /\ issued \in Seq(Nat)
      /\ f.frame_size \in Nat /\ f.space \in Nat /\ f \in OframeState
      /\ ds \in [Ring -> Desc] /\ u \in Ring /\ user_tx_desc \in Ring
      /\ oframe \in [Oframes -> OframeState]
  <2>1. /\ txfifo \in Seq(Byte) /\ wire.out \in Seq(Byte)
        /\ bcfifo \in Seq(Nat) /\ issued \in Seq(Nat)
    BY DEF IndInv, DeviceInv, QueueInv
  <2>2. f.frame_size \in Nat /\ f.space \in Nat /\ f \in OframeState
        /\ oframe \in [Oframes -> OframeState]
    BY DEF IndInv, OframeInv, OframeState
  <2>3. ds \in [Ring -> Desc] /\ u \in Ring /\ user_tx_desc \in Ring
    BY DEF IndInv, RingInv, Ring
  <2> QED BY <2>1, <2>2, <2>3, LenProperties
<1>2. f.pc = "copy" /\ ~d.cstop /\ ~(d.fe /\ f.frame_size # 0)
  BY DEF OframeDesc, OframeStops
<1>lock. board_tx_spinlock = o /\ board_tx_spinlock' = o /\ InHand = f
  BY <1>2 DEF HoldInv, OframeDesc, InHand
<1>3. /\ txfifo' = PushWords(d.data)
      /\ tx_descriptors' = [ds EXCEPT ![u] = EmptyDesc] /\ fifo_tx_desc' = NextDesc(u)
      /\ user_tx_desc' = user_tx_desc /\ bcfifo' = bcfifo /\ wire' = wire /\ issued' = issued
      /\ sent' = sent /\ writer' = writer /\ blocking_request_queue' = blocking_request_queue
  BY DEF OframeDesc, user
<1>4. g.frame_size = IF d.fe THEN d.cnt ELSE f.frame_size
  <2> DEFINE x == [f EXCEPT !.i = f.i + 1, !.written = TRUE,
                       !.space = f.space - size_in_fifo(Len(d.data)),
                       !.frame_size = IF d.fe THEN d.cnt ELSE f.frame_size]
  <2>1. oframe' = [oframe EXCEPT ![o] = x]
    BY DEF OframeDesc
  <2>2. g = x
    BY <1>1, <2>1
  <2> QED BY <1>1, <2>2 DEF OframeState
<1>0. PICK n \in 0..TxNum : \E F, S, t, p :
        /\ Window(tx_descriptors, fifo_tx_desc, user_tx_desc, n)
        /\ Card(issued, F, S, t[0], txfifo, wire.out, sizes, sent)
        /\ Parts(issued, tx_descriptors, fifo_tx_desc, n, t, p)
        /\ GoesOn(issued, t[n], writer[sole], blocking_request_queue)
  BY <1>lock DEF OrderInv, Ordered
<1>5. PICK F, S, t, p :
        /\ Window(tx_descriptors, fifo_tx_desc, user_tx_desc, n)
        /\ Card(issued, F, S, t[0], txfifo, wire.out, sizes, sent)
        /\ Parts(issued, tx_descriptors, fifo_tx_desc, n, t, p)
        /\ GoesOn(issued, t[n], writer[sole], blocking_request_queue)
  BY <1>0
<1>6. n - 1 \in 0..TxNum /\ n > 0 /\ n \in Nat
      /\ Window(tx_descriptors', fifo_tx_desc', user_tx_desc', n - 1)
  <2>1. ~Filled(EmptyDesc) /\ Filled(d)
    BY <1>2 DEF Filled, EmptyDesc
  <2>2. n - 1 \in 0..TxNum /\ Window([ds EXCEPT ![u] = EmptyDesc], NextDesc(u), user_tx_desc, n - 1)
    BY <1>1, <1>5, <2>1, WindowShrinks
  <2> QED BY <1>3, <2>2
<1> DEFINE b == p[1]
           t2 == [k \in 0..(n - 1) |-> t[k + 1]]
           p2 == [k \in 1..(n - 1) |-> p[k + 1]]
<1>7. IsPart(issued, b) /\ Accepts(t[0], b) /\ t[1] = After(issued, b) /\ d = PartDesc(issued, b)
  <2>1. 1 \in 1..n /\ 1 - 1 = 0
    BY <1>6
  <2>2. RingPos(u, 0) = u
    BY <1>1, PosZero
  <2> QED BY <1>5, <2>1, <2>2 DEF Parts
<1>8. Parts(issued', tx_descriptors', fifo_tx_desc', n - 1, t2, p2)
  <2> DEFINE es == [ds EXCEPT ![u] = EmptyDesc]
  <2>1. \A i \in Ring : i # u => es[i] = ds[i]
    BY <1>1
  <2>2. t2 = [k \in 0..(n - 1) |-> t[k + 1]] /\ p2 = [k \in 1..(n - 1) |-> p[k + 1]]
    OBVIOUS
  <2> HIDE DEF es, t2, p2
  <2>3. Parts(issued, es, NextDesc(u), n - 1, t2, p2)
    BY <1>1, <1>5, <1>6, <2>1, <2>2, PartsShift
  <2> QED BY <1>3, <2>3 DEF es
<1>9. t2[0] = t[1] /\ t2[n - 1] = t[n]
  <2>1. 0 \in 0..(n - 1) /\ n - 1 \in 0..(n - 1) /\ (n - 1) + 1 = n /\ 0 + 1 = 1
    BY <1>6
  <2> QED BY <2>1
<1> HIDE DEF t2, p2, b, d
<1>10. /\ b.w \in Nat /\ b.from \in Nat /\ issued[b.w] \in Nat /\ b.from < issued[b.w]
       /\ Share(issued, b) \in Nat
  BY <1>1, <1>7, PartFacts
<1>11. /\ d.data = [k \in 1..Share(issued, b) |-> <<b.w, b.from + k>>]
       /\ b.from = 0 => d.fe /\ d.cnt = issued[b.w]
       /\ b.from # 0 => ~d.fe
       /\ Len(d.data) = Share(issued, b)
  <2>1. /\ d.data = [k \in 1..Share(issued, b) |-> <<b.w, b.from + k>>]
        /\ d.fe = (b.from = 0) /\ d.cnt = IF b.from = 0 THEN issued[b.w] ELSE Share(issued, b)
    BY <1>7 DEF PartDesc, FilledDesc, Share
  <2>4. /\ b.from = 0 => d.fe /\ d.cnt = issued[b.w]
        /\ b.from # 0 => ~d.fe
    BY <2>1
  <2>2. d.data \in [1..Share(issued, b) -> Byte]
    BY <1>10, <2>1 DEF Byte
  <2>3. Len(d.data) = Share(issued, b)
    BY <1>10, <2>2, FunctionIsSeq
  <2> QED BY <2>1, <2>3, <2>4
<1>12. Len(txfifo) + Whole(Share(issued, b)) <= FifoSize
  BY <1>11 DEF RoomThere, d
<1>13. PushSays(issued, b, txfifo, txfifo')
  <2>1. PushSays(issued, b, txfifo, PushWords(d.data))
    BY <1>1, <1>7, <1>11, <1>12, PushRoom
  <2> QED BY <1>3, <2>1
<1>14. InHand' = g
  BY <1>lock DEF InHand
<1>15. sizes \in Seq(Nat)
  BY <1>1, SizesFacts
<1>16. \E G, D : Card(issued', G, D, t2[0], txfifo', wire'.out, Sizes(bcfifo', g), sent')
  <2>1. CASE b.from = 0
    <3>1. f.frame_size = 0 /\ g.frame_size = issued[b.w] /\ issued[b.w] # 0
      BY <1>2, <1>4, <1>10, <1>11, <2>1
    <3>2. sizes = bcfifo /\ Sizes(bcfifo', g) = Append(bcfifo, issued[b.w])
      BY <1>3, <3>1 DEF Sizes
    <3> DEFINE G == Append(F, b.w)
               D == [j \in 0..(Len(F) + 1) |-> IF j <= Len(F) THEN S[j]
                                                    ELSE S[Len(F)] + Whole(issued[b.w])]
               z == Append(bcfifo, issued[b.w])
    <3>3. z = Append(sizes, issued[b.w])
      BY <3>2
    <3>4. Card(issued, G, D, After(issued, b), txfifo', wire.out, z, sent)
      <4> HIDE DEF sizes, z
      <4> QED BY <1>1, <1>5, <1>7, <1>13, <1>15, <2>1, <3>3, PushStarts
    <3> HIDE DEF G, D
    <3>5. Card(issued', G, D, t2[0], txfifo', wire'.out, Sizes(bcfifo', g), sent')
      BY <1>3, <1>7, <1>9, <3>2, <3>4
    <3> QED BY <3>5
  <2>2. CASE b.from # 0
    <3>1. b.from > 0 /\ g.frame_size = f.frame_size
      BY <1>4, <1>10, <1>11, <2>2
    <3>2. Sizes(bcfifo', g) = sizes
      BY <1>3, <3>1 DEF Sizes
    <3>3. Card(issued, F, S, After(issued, b), txfifo', wire.out, sizes, sent)
      <4> HIDE DEF sizes
      <4> QED BY <1>1, <1>5, <1>7, <1>13, <3>1, PushContinues
    <3>5. Card(issued', F, S, t2[0], txfifo', wire'.out, Sizes(bcfifo', g), sent')
      BY <1>3, <1>7, <1>9, <3>2, <3>3
    <3> QED BY <3>5
  <2> QED BY <2>1, <2>2
<1>17. GoesOn(issued', t2[n - 1], writer'[sole], blocking_request_queue')
  BY <1>3, <1>5, <1>9
<1>18. PICK G, D : Card(issued', G, D, t2[0], txfifo', wire'.out, Sizes(bcfifo', g), sent')
  BY <1>16
<1>19. Ordered(issued', tx_descriptors', fifo_tx_desc', user_tx_desc', txfifo', wire'.out,
               Sizes(bcfifo', InHand'), sent', writer'[sole], blocking_request_queue')
  BY <1>6, <1>8, <1>14, <1>17, <1>18, OrderedBy
<1>20. OrderInv(sole)'
  BY <1>19 DEF OrderInv
<1> QED BY <1>20

-----------------------------------------------------------------------------
(* The writer.                                                             *)

\* A request that was taken is the first one in the queue.
LEMMA RemoveFirst ==
  ASSUME NEW s \in Seq(Nat), NEW j \in 1..Len(s), j = 1
  PROVE  /\ RemoveAt(s, j) \in Seq(Nat) /\ Len(RemoveAt(s, j)) = Len(s) - 1
         /\ \A i \in 1..(Len(s) - 1) : RemoveAt(s, j)[i] = s[i + 1] /\ i + 1 \in 1..Len(s)
<1> DEFINE l == Len(s)
           r == SubSeq(s, 2, l)
<1>1. l \in Nat /\ l >= 1
  BY LenProperties
<1>2. \A i \in 2..l : s[i] \in Nat
  <2>1. \A i \in 2..l : i \in 1..Len(s)
    BY <1>1
  <2> QED BY <2>1, ElementOfSeq
<1>3. /\ r \in Seq(Nat) /\ Len(r) = IF 2 <= l THEN l - 2 + 1 ELSE 0
      /\ \A i \in 1..(l - 2 + 1) : r[i] = s[2 + i - 1]
  <2> HIDE DEF l
  <2>1. l \in Int /\ 2 \in Int
    BY <1>1
  <2> QED BY <1>2, <2>1, SubSeqProperties DEF r
<1>4. /\ Len(r) = l - 1 /\ \A i \in 1..(l - 1) : r[i] = s[i + 1] /\ i + 1 \in 1..l
  <2> HIDE DEF l, r
  <2>1. (IF 2 <= l THEN l - 2 + 1 ELSE 0) = l - 1
    BY <1>1
  <2>2. \A i \in 1..(l - 1) : i \in 1..(l - 2 + 1) /\ 2 + i - 1 = i + 1 /\ i + 1 \in 1..l
    BY <1>1
  <2> QED BY <1>3, <2>1, <2>2
<1>5. RemoveAt(s, j) = r
  <2>1. SubSeq(s, 1, 1 - 1) = << >>
    OBVIOUS
  <2>2. << >> \o r = r
    BY <1>3, ConcatEmptySeq
  <2>3. RemoveAt(s, j) = SubSeq(s, 1, 1 - 1) \o SubSeq(s, 1 + 1, Len(s))
    BY DEF RemoveAt
  <2>4. 1 + 1 = 2
    OBVIOUS
  <2> QED BY <2>1, <2>2, <2>3, <2>4
<1> QED BY <1>3, <1>4, <1>5

\* The one thread that writes and the requests that wait, as long as the ring stays
\* as it is.
LEMMA GoesOnNext ==
  ASSUME NEW sole \in Writers, OneWriter(sole), IndInv, SoleInv(sole), RoomInv(sole), [Next]_vars,
         ~WriteFrameDesc(sole), NEW z \in Place,
         GoesOn(issued, z, writer[sole], blocking_request_queue)
  PROVE  GoesOn(issued', z, writer'[sole], blocking_request_queue')
<1> DEFINE x == writer[sole]
           bq == blocking_request_queue
           Goal == GoesOn(issued', z, writer'[sole], blocking_request_queue')
<1>1. /\ writer \in [Writers -> WriterState] /\ x \in WriterState /\ x.w \in Nat
      /\ x.pc \in {"idle", "retrieve", "lock", "copy", "finish"} /\ x.out_length \in Nat
      /\ bq \in Seq(Nat) /\ Len(bq) \in Nat /\ issued \in Seq(Nat) /\ Len(issued) \in Nat
      /\ \A j \in 1..Len(bq) : bq[j] \in 1..Len(issued) /\ bq[j] \in Nat
      /\ x.pc # "idle" => x.w \in 1..Len(issued)
      /\ x.pc \in {"retrieve", "lock"} => x.out_length = 0
  <2>1. /\ writer \in [Writers -> WriterState] /\ x \in WriterState
        /\ bq \in Seq(Nat) /\ issued \in Seq(Nat)
        /\ \A j \in 1..Len(bq) : bq[j] \in 1..Len(issued)
        /\ x.pc # "idle" => x.w \in 1..Len(issued)
        /\ x.pc \in {"retrieve", "lock"} => x.out_length = 0
    BY DEF IndInv, WriterInv, QueueInv, Accepted
  <2>2. /\ x.w \in Nat /\ x.pc \in {"idle", "retrieve", "lock", "copy", "finish"}
        /\ x.out_length \in Nat
    BY <2>1 DEF WriterState
  <2>3. Len(bq) \in Nat /\ Len(issued) \in Nat /\ \A j \in 1..Len(bq) : bq[j] \in Nat
    BY <2>1, LenProperties, ElementOfSeq
  <2> QED BY <2>1, <2>2, <2>3
<1>2. /\ z.w \in Nat /\ z.w <= Len(issued)
      /\ IF x.pc = "copy" /\ x.out_length > 0 THEN z = [w |-> x.w, from |-> x.out_length]
                                              ELSE z.from = 0
      /\ x.pc \in {"lock", "copy"} =>
           /\ x.out_length = 0 => z.w < x.w
           /\ \A j \in 1..Len(bq) : x.w < bq[j]
      /\ x.pc = "retrieve" => Len(bq) > 0 /\ bq[1] = x.w
      /\ \A j \in 1..Len(bq) : z.w < bq[j]
      /\ \A i, j \in 1..Len(bq) : i < j => bq[i] < bq[j]
  BY DEF GoesOn, Place
<1>3. "write" \notin Requesters /\ (sole # "write" => Requesters = {sole})
  BY WriteAssumption DEF OneWriter
<1>4. UNCHANGED user => Goal
  BY DEF user
<1>5. ASSUME NEW len \in WriteLens, WriteRefuse(len) \/ WriteForward(len) \/ WriteAdmit(len)
      PROVE  Goal
  <2>1. issued' = Append(issued, len) /\ writer["write"].pc = "idle"
    BY <1>5 DEF WriteRefuse, WriteForward, WriteAdmit, WriteArrives
  <2>2. Len(issued') = Len(issued) + 1 /\ Len(issued') \in Nat
    BY <1>1, <2>1, WriteAssumption, AcceptedKept DEF IndInv
  <2>3. CASE WriteRefuse(len)
    <3>1. writer' = writer /\ bq' = bq
      BY <2>3 DEF WriteRefuse
    <3>2. z.w <= Len(issued')
      BY <1>1, <1>2, <2>2
    <3> QED BY <1>2, <3>1, <3>2 DEF GoesOn
  <2>4. CASE WriteForward(len)
    <3>1. writer' = writer /\ bq' = Append(bq, Len(issued'))
      BY <2>4 DEF WriteForward
    <3> DEFINE c == bq'
               l == Len(issued')
    <3>2. /\ Len(c) = Len(bq) + 1 /\ \A j \in 1..Len(bq) : c[j] = bq[j]
          /\ c[Len(bq) + 1] = l /\ \A j \in 1..(Len(bq) + 1) : j \in 1..Len(bq) \/ j = Len(bq) + 1
      BY <1>1, <2>2, <3>1, AppendKeeps
    <3> HIDE DEF c, l
    <3>3. /\ z.w < l /\ (x.pc # "idle" => x.w < l) /\ \A j \in 1..Len(bq) : bq[j] < l
      BY <1>1, <1>2, <2>2 DEF l
    <3>4. \A j \in 1..Len(c) : z.w < c[j] /\ (x.pc \in {"lock", "copy"} => x.w < c[j])
      BY <1>2, <3>2, <3>3
    <3>5. x.pc = "retrieve" => Len(c) > 0 /\ c[1] = x.w
      BY <1>1, <1>2, <3>2
    <3>6. ASSUME NEW i \in 1..Len(c), NEW j \in 1..Len(c), i < j PROVE c[i] < c[j]
      <4>1. i \in 1..Len(bq)
        BY <1>1, <3>2, <3>6
      <4>2. CASE j \in 1..Len(bq)
        BY <1>2, <3>2, <3>6, <4>1, <4>2
      <4>3. CASE j = Len(bq) + 1
        BY <3>2, <3>3, <4>1, <4>3
      <4> QED BY <3>2, <4>2, <4>3
    <3>7. z.w <= l
      BY <1>2, <2>2, <3>3 DEF l
    <3>8. GoesOn(issued', z, x, c)
      BY <1>2, <3>4, <3>5, <3>6, <3>7 DEF GoesOn, l
    <3> QED BY <3>1, <3>8 DEF c
  <2>5. CASE WriteAdmit(len)
    <3> DEFINE y == [IdleWriter EXCEPT !.pc = "lock", !.w = Len(issued')]
    <3>1. writer' = [writer EXCEPT !["write"] = y] /\ bq' = bq /\ ~settings.blocking_write
      BY <2>5 DEF WriteAdmit
    <3>2. sole = "write" /\ bq = << >>
      BY <3>1 DEF SoleInv
    <3>3. writer'[sole] = y
      BY <1>1, <3>1, <3>2
    <3>4. y.pc = "lock" /\ y.w = Len(issued') /\ y.out_length = 0
      BY DEF IdleWriter
    <3> HIDE DEF y
    <3>5. z.from = 0
      BY <1>2, <2>1, <3>2
    <3>6. z.w < Len(issued') /\ z.w <= Len(issued') /\ Len(bq) = 0
      BY <1>1, <1>2, <2>2, <3>2, EmptySeq
    <3>7. GoesOn(issued', z, y, bq)
      BY <3>4, <3>5, <3>6 DEF GoesOn
    <3> QED BY <3>1, <3>3, <3>7
  <2> QED BY <1>5, <2>3, <2>4, <2>5
<1>6. ASSUME NEW a \in Writers, WriteFrameLock(a) \/ CopyStep(a)
      PROVE  Goal
  <2>1. writer[a].pc # "idle" /\ issued' = issued /\ bq' = bq
    BY <1>6 DEF WriteFrameLock, CopyStep, WriteFrameFull, WriteFrameDesc, WriteFinish
  <2>2. a = sole
    BY <2>1 DEF SoleInv
  <2>3. CASE WriteFrameLock(a)
    <3> DEFINE y == [x EXCEPT !.pc = "copy"]
    <3>1. writer' = [writer EXCEPT ![sole] = y] /\ x.pc = "lock"
      BY <2>2, <2>3 DEF WriteFrameLock
    <3>2. writer'[sole] = y
      BY <1>1, <3>1
    <3>3. y.pc = "copy" /\ y.w = x.w /\ y.out_length = x.out_length
      BY <1>1 DEF WriterState
    <3> HIDE DEF y
    <3>4. x.out_length = 0 /\ ~(x.out_length > 0)
      BY <1>1, <3>1
    <3>5. GoesOn(issued, z, y, bq)
      BY <1>2, <3>1, <3>3, <3>4 DEF GoesOn
    <3> QED BY <2>1, <3>2, <3>5
  <2>4. CASE WriteFrameFull(a)
    BY <2>2, <2>4, NeverFull DEF WriteFrameFull
  <2>5. CASE WriteFinish(a)
    <3>1. writer' = [writer EXCEPT ![sole] = IdleWriter] /\ x.pc = "finish"
      BY <2>2, <2>5 DEF WriteFinish
    <3>2. writer'[sole] = IdleWriter /\ IdleWriter.pc = "idle"
      BY <1>1, <3>1 DEF IdleWriter
    <3>3. GoesOn(issued, z, IdleWriter, bq)
      BY <1>2, <3>1, <3>2 DEF GoesOn
    <3> QED BY <2>1, <3>2, <3>3
  <2> QED BY <1>6, <2>2, <2>3, <2>4, <2>5 DEF CopyStep
<1>7. ASSUME NEW a \in Requesters, FindRequest(a)
      PROVE  Goal
  <2>1. issued' = issued /\ bq' = bq
    BY <1>7 DEF FindRequest
  <2>2. CASE a = sole
    <3> DEFINE y == [IdleWriter EXCEPT !.pc = "retrieve", !.w = Head(bq)]
    <3>1. x.pc = "idle"
      BY <1>7, <2>2 DEF FindRequest
    <3>2. CASE writer'[sole] = IdleWriter
      <4>1. IdleWriter.pc = "idle"
        BY DEF IdleWriter
      <4>2. GoesOn(issued, z, IdleWriter, bq)
        BY <1>2, <3>1, <4>1 DEF GoesOn
      <4> QED BY <2>1, <3>2, <4>2
    <3>3. CASE writer'[sole] = y /\ bq # << >>
      <4>1. y.pc = "retrieve" /\ y.w = Head(bq)
        BY DEF IdleWriter
      <4> HIDE DEF y
      <4>2. Len(bq) > 0 /\ bq[1] = Head(bq)
        <5>1. Len(bq) \in Nat \ {0}
          BY <1>1, <3>3, EmptySeq
        <5> QED BY <5>1
      <4>3. GoesOn(issued, z, y, bq)
        BY <1>2, <3>1, <4>1, <4>2 DEF GoesOn
      <4> QED BY <2>1, <3>3, <4>3
    <3>4. writer'[sole] = IdleWriter \/ (writer'[sole] = y /\ bq # << >>)
      <4>1. \/ writer' = [writer EXCEPT ![sole] = IdleWriter]
            \/ writer' = [writer EXCEPT ![sole] = y] /\ bq # << >>
        BY <1>7, <2>2 DEF FindRequest
      <4> HIDE DEF y
      <4> QED BY <1>1, <4>1
    <3> QED BY <3>2, <3>3, <3>4
  <2>3. CASE a # sole
    <3>1. \E y : writer' = [writer EXCEPT ![a] = y]
      BY <1>7 DEF FindRequest
    <3>2. writer'[sole] = x
      BY <1>1, <2>3, <3>1
    <3> QED BY <2>1, <3>2
  <2> QED BY <2>2, <2>3
<1>8. ASSUME NEW a \in Requesters, RetrieveFoundRequest(a)
      PROVE  Goal
  <2>1. issued' = issued /\ writer[a].pc = "retrieve" /\ a \in Writers
    BY <1>8 DEF RetrieveFoundRequest, Writers
  <2>2. a = sole
    BY <2>1 DEF SoleInv
  <2>3. x.pc = "retrieve" /\ Len(bq) > 0 /\ bq[1] = x.w /\ 1 \in 1..Len(bq)
    BY <1>1, <1>2, <2>1, <2>2
  <2>4. PICK j \in 1..Len(bq) : /\ bq[j] = x.w /\ bq' = RemoveAt(bq, j)
                                /\ writer' = [writer EXCEPT ![sole].pc = "lock"]
    BY <1>8, <2>2, <2>3 DEF RetrieveFoundRequest
  <2>5. j = 1
    <3>1. SUFFICES ASSUME 1 < j PROVE FALSE
      BY <1>1
    <3>2. bq[1] < bq[j]
      BY <1>2, <2>3, <3>1
    <3> QED BY <1>1, <2>3, <2>4, <3>2
  <2> DEFINE y == [x EXCEPT !.pc = "lock"]
             c == RemoveAt(bq, j)
  <2>6. writer'[sole] = y
    BY <1>1, <2>4
  <2>7. y.pc = "lock" /\ y.w = x.w /\ y.out_length = x.out_length
    BY <1>1 DEF WriterState
  <2>8. /\ Len(c) = Len(bq) - 1 /\ \A i \in 1..(Len(bq) - 1) : c[i] = bq[i + 1] /\ i + 1 \in 1..Len(bq)
    BY <1>1, <2>5, RemoveFirst
  <2> HIDE DEF y, c
  <2>9. \A i \in 1..Len(c) : /\ i \in 1..(Len(bq) - 1) /\ c[i] = bq[i + 1] /\ i + 1 \in 1..Len(bq)
                             /\ 1 < i + 1
    BY <2>8
  <2>10. \A i \in 1..Len(c) : z.w < c[i] /\ x.w < c[i]
    BY <1>2, <2>3, <2>9
  <2>11. ASSUME NEW i \in 1..Len(c), NEW k \in 1..Len(c), i < k PROVE c[i] < c[k]
    <3>1. i + 1 < k + 1
      BY <2>11
    <3> QED BY <1>2, <2>9, <3>1
  <2>12. z.w < x.w /\ z.from = 0
    BY <1>2, <2>3
  <2>13. GoesOn(issued, z, y, c)
    BY <1>2, <2>3, <2>7, <2>10, <2>11, <2>12 DEF GoesOn
  <2> QED BY <2>1, <2>4, <2>6, <2>13 DEF c
<1>9. ASSUME alls_worker \/ PurgeFinish PROVE Goal
  <2>1. issued' = issued /\ writer' = writer /\ bq' = bq
    BY <1>9 DEF alls_worker, PurgeFinish
  <2> QED BY <2>1
<1> HIDE DEF Goal, x, bq
<1>10. Goal
  BY <1>4, <1>5, <1>6, <1>7, <1>8, <1>9, UserFrame DEF vars, user
<1> QED BY <1>10 DEF Goal

\* After the last descriptor with data the writer is at a whole word.
LEMMA EndIsWhole ==
  ASSUME NEW lens \in Seq(Nat), NEW ds, NEW u, NEW n \in 0..TxNum, NEW t, NEW p, NEW F, NEW S,
         NEW q, NEW out, NEW sizes, NEW s, Card(lens, F, S, t[0], q, out, sizes, s),
         Parts(lens, ds, u, n, t, p)
  PROVE  t[n] \in Place /\ (t[n].from > 0 => t[n].from % 4 = 0) /\ t[0].w <= t[n].w
<1>1. n \in Nat /\ n \in 0..n /\ 0 \in 0..n /\ 0 <= n
  BY RingFacts
<1>2. t[n] \in Place /\ t[0].w <= t[n].w
  BY <1>1 DEF Parts
<1>3. CASE n = 0
  BY <1>2, <1>3 DEF Card, Reached
<1>4. CASE n # 0
  <2>1. n \in 1..n
    BY <1>1, <1>4
  <2>2. IsPart(lens, p[n]) /\ t[n] = After(lens, p[n])
    BY <2>1 DEF Parts
  <2>3. After(lens, p[n]).from = 0 \/ After(lens, p[n]).from % 4 = 0
    BY <2>2, PartFacts
  <2>4. t[n].from = 0 \/ t[n].from % 4 = 0
    BY <2>2, <2>3
  <2>5. t[n].from > 0 => t[n].from # 0
    BY <1>2 DEF Place
  <2> QED BY <1>2, <2>4, <2>5
<1> QED BY <1>3, <1>4

\* The writer fills a descriptor.
LEMMA WriteFrameDescOrder ==
  ASSUME NEW sole \in Writers, OneWriter(sole), IndInv, SoleInv(sole),
         RoomInv(sole), HoldInv(sole), OrderInv(sole), WriteFrameDesc(sole)
  PROVE  OrderInv(sole)'
<1> DEFINE x   == writer[sole]
           len == issued[x.w]
           m   == MinOf(len - x.out_length, TxSize)
           d   == FilledDesc(x.w, len, x.i, x.out_length, m)
           y   == writer'[sole]
           u   == fifo_tx_desc
           f   == user_tx_desc
           ds  == tx_descriptors
           bq  == blocking_request_queue
           b   == [w |-> x.w, from |-> x.out_length]
<1>1. /\ x \in WriterState /\ x.w \in Nat /\ x.w \in 1..Len(issued) /\ x.i \in Nat
      /\ x.i < TxNum /\ x.out_length \in Nat /\ len \in Nat /\ x.out_length < len
      /\ x.pc = "copy" /\ x.out_length = x.i * TxSize
  <2>1. x.pc = "copy"
    BY DEF WriteFrameDesc
  <2> QED BY <2>1, CopyFacts DEF IndInv, RoomInv, Fits
<1>2. /\ m \in Nat /\ m > 0 /\ m <= TxSize /\ m <= len - x.out_length /\ x.out_length + m \in Nat
      /\ m = TxSize \/ m = len - x.out_length
  BY <1>1, ShareProperties DEF MinOf
<1>3. /\ tx_descriptors' = [ds EXCEPT ![f] = d] /\ user_tx_desc' = NextDesc(f)
      /\ fifo_tx_desc' = u /\ ds[f].cstop /\ issued' = issued /\ bq' = bq
      /\ txfifo' = txfifo /\ bcfifo' = bcfifo /\ wire' = wire /\ sent' = sent
  BY DEF WriteFrameDesc, device
<1>lock. InHand' = InHand
  <2>1. /\ board_tx_spinlock = sole /\ board_tx_spinlock' \in {sole, "free"}
        /\ sole \notin Oframes /\ "free" \notin Oframes
    BY WriteAssumption DEF HoldInv, WriteFrameDesc, Writers
  <2> QED BY <2>1 DEF InHand
<1>4. /\ y.w = x.w /\ y.out_length = x.out_length + m
      /\ y.pc = IF x.out_length + m = len \/ x.i + 1 = TxNum THEN "finish" ELSE "copy"
  <2> DEFINE pc == IF x.out_length + m = len \/ x.i + 1 = TxNum THEN "finish" ELSE "copy"
             v  == [x EXCEPT !.i = x.i + 1, !.out_length = x.out_length + m, !.pc = pc]
  <2>1. writer' = [writer EXCEPT ![sole] = v]
    BY DEF WriteFrameDesc
  <2>2. writer \in [Writers -> WriterState]
    BY DEF IndInv, WriterInv
  <2>3. y = v
    BY <2>1, <2>2
  <2> QED BY <1>1, <2>3 DEF WriterState
<1>5. y.pc = "finish" => y.out_length = len
  <2>1. RoomInv(sole)'
    BY WriteFrameDescRoom
  <2>2. y.pc = "finish" => y.out_length = issued'[y.w]
    BY <2>1 DEF RoomInv, Fits
  <2> QED BY <1>3, <1>4, <2>2
<1>6. ds \in [Ring -> Desc] /\ u \in Ring /\ f \in Ring /\ issued \in Seq(Nat)
  BY DEF IndInv, RingInv, Ring, QueueInv
<1>0. PICK n \in 0..TxNum : \E F, S, t, p :
        /\ Window(ds, u, f, n)
        /\ Card(issued, F, S, t[0], txfifo, wire.out, Sizes(bcfifo, InHand), sent)
        /\ Parts(issued, ds, u, n, t, p)
        /\ GoesOn(issued, t[n], x, bq)
  BY DEF OrderInv, Ordered
<1>7. PICK F, S, t, p :
        /\ Window(ds, u, f, n)
        /\ Card(issued, F, S, t[0], txfifo, wire.out, Sizes(bcfifo, InHand), sent)
        /\ Parts(issued, ds, u, n, t, p)
        /\ GoesOn(issued, t[n], x, bq)
  BY <1>0
<1>8. n \in Ring /\ f = RingPos(u, n) /\ n + 1 \in 0..TxNum
      /\ Window(tx_descriptors', fifo_tx_desc', user_tx_desc', n + 1)
  <2>1. Filled(d) /\ ~Filled(ds[f])
    BY <1>3 DEF Filled, FilledDesc
  <2> HIDE DEF d
  <2>2. n + 1 \in 0..TxNum /\ Window([ds EXCEPT ![f] = d], u, NextDesc(f), n + 1)
    BY <1>6, <1>7, <2>1, WindowGrows
  <2>3. f = RingPos(u, n)
    BY <1>7 DEF Window
  <2>4. n \in Ring
    BY <2>2, RingFacts DEF Ring
  <2> QED BY <1>3, <2>2, <2>3, <2>4
<1>9. t[n] \in Place /\ (t[n].from > 0 => t[n].from % 4 = 0)
  BY <1>6, <1>7, EndIsWhole
<1>10. /\ IF x.out_length > 0 THEN t[n] = b ELSE t[n].from = 0 /\ t[n].w < x.w
       /\ \A j \in 1..Len(bq) : x.w < bq[j]
       /\ \A i, j \in 1..Len(bq) : i < j => bq[i] < bq[j]
  <2>1. /\ IF x.out_length > 0 THEN t[n] = b ELSE t[n].from = 0
        /\ x.out_length = 0 => t[n].w < x.w
        /\ \A j \in 1..Len(bq) : x.w < bq[j]
        /\ \A i, j \in 1..Len(bq) : i < j => bq[i] < bq[j]
    BY <1>1, <1>7 DEF GoesOn
  <2>2. x.out_length > 0 \/ x.out_length = 0
    BY <1>1
  <2> QED BY <2>1, <2>2
<1>11. IsPart(issued, b) /\ Accepts(t[n], b)
  <2>1. CASE x.out_length > 0
    <3>1. t[n] = b /\ t[n].from > 0 /\ b.from % 4 = 0
      BY <1>9, <1>10, <2>1
    <3> QED BY <1>1, <1>9, <3>1 DEF IsPart, Accepts
  <2>2. CASE x.out_length = 0
    <3>1. t[n].from = 0 /\ t[n].w < x.w /\ ~(t[n].from > 0)
      BY <1>10, <2>2
    <3>2. 0 % 4 = 0
      OBVIOUS
    <3>3. t[n].w \in Nat
      BY <1>9 DEF Place
    <3> QED BY <1>1, <2>2, <3>1, <3>2, <3>3 DEF IsPart, Accepts, Place
  <2> QED BY <1>1, <2>1, <2>2
<1>12. d = PartDesc(issued, b)
  <2>1. (x.i = 0) = (x.out_length = 0)
    <3>1. x.i = 0 => x.out_length = 0
      BY <1>1, RingAssumption
    <3>2. x.out_length = 0 => x.i = 0
      <4>1. SUFFICES ASSUME x.i # 0, x.out_length = 0 PROVE FALSE
        OBVIOUS
      <4>2. x.i - 1 \in Nat /\ (x.i - 1) + 1 = x.i
        BY <1>1, <4>1
      <4>3. x.i * TxSize = (x.i - 1) * TxSize + TxSize /\ (x.i - 1) * TxSize \in Nat
        BY <4>2, Multiples
      <4> QED BY <1>1, <4>1, <4>3, RingAssumption
    <3> QED BY <3>1, <3>2
  <2>2. (x.i = 0) <=> (x.out_length = 0)
    BY <2>1
  <2> HIDE DEF m, len
  <2>3. FilledDesc(x.w, len, x.i, x.out_length, m) = FilledDesc(x.w, len, x.out_length, x.out_length, m)
    BY <2>1, <2>2 DEF FilledDesc
  <2>4. PartDesc(issued, b) = FilledDesc(x.w, len, x.out_length, x.out_length, m)
    BY DEF PartDesc, len, m
  <2> QED BY <2>3, <2>4
<1> DEFINE t2 == [k \in 0..(n + 1) |-> IF k <= n THEN t[k] ELSE After(issued, b)]
           p2 == [k \in 1..(n + 1) |-> IF k <= n THEN p[k] ELSE b]
<1>13. Parts(issued', tx_descriptors', fifo_tx_desc', n + 1, t2, p2)
  <2> DEFINE es == [ds EXCEPT ![RingPos(u, n)] = PartDesc(issued, b)]
             e  == After(issued, b)
  <2>0. n \in Nat /\ e \in Place /\ b \in Place
    BY <1>1, <1>6, <1>11, PartFacts, RingFacts DEF Place
  <2>1. t \in [0..n -> Place] /\ p \in [1..n -> Place]
    BY <1>7 DEF Parts
  <2> HIDE DEF b, d, e
  <2>2. /\ t2 \in [0..(n + 1) -> Place] /\ p2 \in [1..(n + 1) -> Place]
        /\ \A k \in 0..n : t2[k] = t[k]
        /\ t2[n + 1] = e
        /\ \A k \in 1..n : p2[k] = p[k]
        /\ p2[n + 1] = b
    <3>1. \A k \in 0..(n + 1) : (IF k <= n THEN t[k] ELSE e) \in Place
      BY <2>0, <2>1
    <3>2. \A k \in 1..(n + 1) : (IF k <= n THEN p[k] ELSE b) \in Place
      BY <2>0, <2>1
    <3>3. t2 \in [0..(n + 1) -> Place]
      BY <3>1 DEF e
    <3>4. p2 \in [1..(n + 1) -> Place]
      BY <3>2
    <3>5. \A k \in 0..n : t2[k] = t[k]
      BY <2>0
    <3>6. t2[n + 1] = e
      BY <2>0 DEF e
    <3>7. \A k \in 1..n : p2[k] = p[k]
      BY <2>0
    <3>8. p2[n + 1] = b
      BY <2>0
    <3> QED BY <3>3, <3>4, <3>5, <3>6, <3>7, <3>8
  <2>3. tx_descriptors' = es
    BY <1>3, <1>8, <1>12
  <2> HIDE DEF t2, p2
  <2>4. Grown(issued, b, n, t, p, t2, p2)
    BY <2>2 DEF Grown, e
  <2>5. es = [ds EXCEPT ![RingPos(u, n)] = PartDesc(issued, b)]
    OBVIOUS
  <2> HIDE DEF es
  <2>6. Parts(issued, es, u, n + 1, t2, p2)
    BY <1>6, <1>7, <1>8, <1>11, <2>4, <2>5, PartsGrow
  <2> QED BY <1>3, <2>3, <2>6
<1>14. t2[0] = t[0] /\ t2[n + 1] = After(issued, b)
  <2>1. n \in Nat /\ 0 \in 0..(n + 1) /\ 0 <= n /\ n + 1 \in 0..(n + 1) /\ ~(n + 1 <= n)
    BY RingFacts
  <2> QED BY <2>1
<1> HIDE DEF t2, p2, d
<1>15. GoesOn(issued, After(issued, b), y, bq)
  <2> DEFINE z == After(issued, b)
  <2>1. z = [w |-> x.w, from |-> IF x.out_length + TxSize < len THEN x.out_length + TxSize ELSE 0]
    BY DEF After
  <2>2. z.w = x.w /\ z.w <= Len(issued)
    BY <1>1, <2>1, LenProperties
  <2>3. CASE y.pc = "finish"
    <3>1. x.out_length + m = len
      BY <1>4, <1>5, <2>3
    <3>2. ~(x.out_length + TxSize < len)
      <4> DEFINE h == x.out_length
      <4>1. /\ h \in Nat /\ m \in Nat /\ len \in Nat /\ TxSize \in Nat /\ m <= TxSize
            /\ h + m = len
        BY <1>1, <1>2, <3>1, RingAssumption
      <4> HIDE DEF len, m, h
      <4>2. ~(h + TxSize < len)
        BY <4>1
      <4> QED BY <4>2 DEF h
    <3>3. z.from = 0
      BY <2>1, <3>2
    <3> QED BY <1>10, <2>2, <2>3, <3>3 DEF GoesOn
  <2>4. CASE y.pc = "copy"
    <3>1. x.out_length + m # len
      BY <1>4, <2>4
    <3>2. m = TxSize /\ x.out_length + TxSize < len
      <4> DEFINE h == x.out_length
      <4>1. /\ h \in Nat /\ m \in Nat /\ len \in Nat /\ TxSize \in Nat /\ m <= len - h
            /\ m = TxSize \/ m = len - h
            /\ h + m # len
        BY <1>1, <1>2, <3>1, RingAssumption
      <4> HIDE DEF len, m, h
      <4>2. m = TxSize /\ h + TxSize < len
        BY <4>1
      <4> QED BY <4>2 DEF h
    <3>3. z = [w |-> y.w, from |-> y.out_length]
      BY <1>4, <2>1, <3>2
    <3>4. y.out_length > 0
      BY <1>1, <1>2, <1>4
    <3>5. y.out_length # 0
      BY <1>1, <1>2, <1>4
    <3> QED BY <1>4, <1>10, <2>2, <2>4, <3>3, <3>4, <3>5 DEF GoesOn
  <2>5. y.pc \in {"finish", "copy"}
    BY <1>4
  <2> QED BY <2>3, <2>4, <2>5
<1>16. Card(issued', F, S, t2[0], txfifo', wire'.out, Sizes(bcfifo', InHand'), sent')
  BY <1>3, <1>lock, <1>7, <1>14
<1>17. GoesOn(issued', t2[n + 1], y, bq')
  BY <1>3, <1>14, <1>15
<1>18. Ordered(issued', tx_descriptors', fifo_tx_desc', user_tx_desc', txfifo', wire'.out,
               Sizes(bcfifo', InHand'), sent', writer'[sole], blocking_request_queue')
  BY <1>8, <1>13, <1>16, <1>17, OrderedBy
<1> QED BY <1>18 DEF OrderInv

-----------------------------------------------------------------------------
(* A purge.                                                                *)

\* The end of the ring is at or after the end of what is in the card.
LEMMA GoneGrows ==
  ASSUME NEW lens, NEW F, NEW e \in Place, NEW z \in Place, e.w <= z.w, NEW s, Gone(lens, F, e, s),
         NEW G, Len(G) = 0, lens \in Seq(Nat)
  PROVE  Gone(lens, G, z, s)
<1>1. ASSUME NEW i \in 1..Len(s)
      PROVE  s[i].data[1][1] <= z.w
  <2>1. s[i].data[1][1] \in 1..Len(lens) /\ s[i].data[1][1] <= e.w
    BY DEF Gone
  <2>2. s[i].data[1][1] \in Nat /\ e.w \in Nat /\ z.w \in Nat
    BY <2>1, LenProperties DEF Place
  <2> DEFINE x == s[i].data[1][1]
  <2> HIDE DEF x
  <2>3. x <= e.w /\ x \in Nat
    BY <2>1, <2>2 DEF x
  <2>4. x <= z.w
    BY <2>2, <2>3
  <2> QED BY <2>4 DEF x
<1>2. 1..Len(G) = {}
  OBVIOUS
<1> QED BY <1>1, <1>2 DEF Gone

\* Nothing is in the card: what went out went out before place z.
LEMMA EmptyCard ==
  ASSUME NEW lens \in Seq(Nat), NEW z \in Place, z.from = 0, NEW s, Gone(lens, << >>, z, s)
  PROVE  Card(lens, << >>, [j \in 0..0 |-> 0], z, << >>, << >>, << >>, s)
<1> DEFINE D == [j \in 0..0 |-> 0]
<1>1. Len(<< >>) = 0 /\ 1..0 = {} /\ 0 % 4 = 0 /\ << >> \in Seq(Nat)
  OBVIOUS
<1>2. D \in [0..0 -> Nat] /\ D[0] = 0 /\ \A i \in 0..0 : i = 0
  OBVIOUS
<1> HIDE DEF D
<1>3. Frames(lens, << >>)
  BY <1>1 DEF Frames
<1>4. Offsets(lens, << >>, D)
  <2>1. \A i, j \in 0..0 : D[i] <= D[j]
    BY <1>2
  <2> QED BY <1>1, <1>2, <2>1 DEF Offsets
<1>5. Content(lens, << >>, D, << >>, 0)
  BY <1>1 DEF Content
<1>6. Reached(lens, << >>, D, z, 0 + 0)
  BY <1>1, <1>2 DEF Reached
<1>7. Begun(lens, << >>, << >>, << >>)
  BY <1>1 DEF Begun
<1> QED BY <1>1, <1>3, <1>4, <1>5, <1>6, <1>7 DEF Card, D

\* A purge with a clock empties the ring and the card.
LEMMA PurgeOrder ==
  ASSUME IndInv, NEW sole \in Writers, HoldInv(sole), OrderInv(sole), PurgeReset, clock.on
  PROVE  OrderInv(sole)'
<1>1. /\ txfifo' = << >> /\ bcfifo' = << >> /\ wire' = [xf |-> FALSE, out |-> << >>]
      /\ tx_descriptors' = [i \in 0..(TxNum - 1) |-> EmptyDesc]
      /\ user_tx_desc' = 0 /\ fifo_tx_desc' = 0 /\ board_tx_spinlock = "free"
      /\ board_tx_spinlock' = "free" /\ sent' = sent /\ writer' = writer /\ issued' = issued
      /\ blocking_request_queue' = blocking_request_queue
  BY DEF PurgeReset, user
<1>2. "free" # sole /\ "free" \notin Oframes
  BY WriteAssumption DEF Writers
<1>3. writer[sole].pc # "copy" /\ InHand' = IdleOframe /\ IdleOframe.frame_size = 0
  BY <1>1, <1>2 DEF HoldInv, InHand, IdleOframe
<1>4. Sizes(bcfifo', InHand') = << >> /\ wire'.out = << >>
  BY <1>1, <1>3 DEF Sizes
<1>0. PICK n \in 0..TxNum : \E F, S, t, p :
        /\ Window(tx_descriptors, fifo_tx_desc, user_tx_desc, n)
        /\ Card(issued, F, S, t[0], txfifo, wire.out, Sizes(bcfifo, InHand), sent)
        /\ Parts(issued, tx_descriptors, fifo_tx_desc, n, t, p)
        /\ GoesOn(issued, t[n], writer[sole], blocking_request_queue)
  BY DEF OrderInv, Ordered
<1>5. PICK F, S, t, p :
        /\ Window(tx_descriptors, fifo_tx_desc, user_tx_desc, n)
        /\ Card(issued, F, S, t[0], txfifo, wire.out, Sizes(bcfifo, InHand), sent)
        /\ Parts(issued, tx_descriptors, fifo_tx_desc, n, t, p)
        /\ GoesOn(issued, t[n], writer[sole], blocking_request_queue)
  BY <1>0
<1>6. issued \in Seq(Nat)
  BY DEF IndInv, QueueInv
<1>7. t[n] \in Place /\ t[0].w <= t[n].w
  BY <1>5, <1>6, EndIsWhole
<1>8. t[0] \in Place /\ t[n].from = 0
  BY <1>3, <1>5 DEF Card, Reached, GoesOn
<1> DEFINE e == t[n]
           t2 == [k \in 0..0 |-> e]
           p2 == [k \in 1..0 |-> e]
           D  == [j \in 0..0 |-> 0]
<1>9. Gone(issued, << >>, e, sent)
  <2>1. Gone(issued, F, t[0], sent) /\ Len(<< >>) = 0
    BY <1>5 DEF Card
  <2> QED BY <1>6, <1>7, <1>8, <2>1, GoneGrows
<1>10. Card(issued, << >>, D, e, << >>, << >>, << >>, sent)
  BY <1>6, <1>7, <1>8, <1>9, EmptyCard
<1>11. t2[0] = e /\ 0 \in 0..TxNum
  BY RingFacts
<1>12. Parts(issued, tx_descriptors', 0, 0, t2, p2)
  <2>1. e.w \in Nat /\ e \in Place
    BY <1>7 DEF Place
  <2> HIDE DEF e
  <2>2. t2 \in [0..0 -> Place] /\ p2 \in [1..0 -> Place] /\ 1..0 = {} /\ \A i \in 0..0 : i = 0
    BY <2>1
  <2>3. \A i, j \in 0..0 : t2[i].w <= t2[j].w
    <3>1. e.w <= e.w
      BY <2>1
    <3> QED BY <1>11, <2>2, <3>1
  <2> HIDE DEF t2, p2
  <2> QED BY <2>2, <2>3 DEF Parts
<1>13. Window(tx_descriptors', 0, 0, 0)
  BY <1>1, EmptyWindow
<1> HIDE DEF D, t2, p2, e
<1>14. Card(issued', << >>, D, t2[0], txfifo', wire'.out, Sizes(bcfifo', InHand'), sent')
  BY <1>1, <1>4, <1>10, <1>11
<1>15. /\ Window(tx_descriptors', fifo_tx_desc', user_tx_desc', 0)
       /\ Parts(issued', tx_descriptors', fifo_tx_desc', 0, t2, p2)
       /\ GoesOn(issued', t2[0], writer'[sole], blocking_request_queue')
  BY <1>1, <1>5, <1>11, <1>12, <1>13 DEF e
<1>16. Ordered(issued', tx_descriptors', fifo_tx_desc', user_tx_desc', txfifo', wire'.out,
               Sizes(bcfifo', InHand'), sent', writer'[sole], blocking_request_queue')
  BY <1>11, <1>14, <1>15, OrderedBy
<1> QED BY <1>16 DEF OrderInv

-----------------------------------------------------------------------------
(* The lock.                                                               *)

\* The writer has the lock while it copies.
LEMMA HoldWriter ==
  ASSUME NEW sole \in Writers, IndInv, SoleInv(sole), HoldInv(sole), [Next]_vars
  PROVE  writer'[sole].pc = "copy" => board_tx_spinlock' = sole
<1> DEFINE Goal == writer'[sole].pc = "copy" => board_tx_spinlock' = sole
<1>1. /\ writer \in [Writers -> WriterState]
      /\ writer[sole].pc = "copy" => board_tx_spinlock = sole
      /\ \A o \in Oframes : oframe[o].pc = "copy" => board_tx_spinlock = o
      /\ sole \notin Oframes /\ sole # "free"
  BY WriteAssumption DEF IndInv, WriterInv, HoldInv, Writers
<1>2. ASSUME NEW a \in Oframes, OframeLock(a) \/ OframeUnlock(a) PROVE Goal
  <2>1. writer' = writer
    BY <1>2 DEF OframeLock, OframeUnlock, user
  <2>2. board_tx_spinlock # sole
    BY <1>1, <1>2, <2>1 DEF OframeLock, OframeUnlock
  <2> QED BY <1>1, <2>1, <2>2
<1>3. ASSUME NEW a \in Writers, WriteFrameLock(a) \/ CopyStep(a) PROVE Goal
  <2>1. writer[a].pc # "idle"
    BY <1>3 DEF WriteFrameLock, CopyStep, WriteFrameFull, WriteFrameDesc, WriteFinish
  <2>2. a = sole
    BY <2>1 DEF SoleInv
  <2>3. CASE WriteFrameLock(a)
    BY <2>2, <2>3 DEF WriteFrameLock
  <2>4. CASE WriteFrameFull(a)
    <3> DEFINE y == [writer[sole] EXCEPT !.pc = "finish", !.status = "too_small"]
    <3>1. writer' = [writer EXCEPT ![sole] = y]
      BY <1>1, <2>2, <2>4 DEF WriteFrameFull
    <3>2. writer'[sole] = y
      BY <1>1, <3>1
    <3>3. y.pc = "finish"
      BY <1>1 DEF WriterState
    <3> QED BY <3>2, <3>3
  <2>5. CASE WriteFrameDesc(a)
    <3> DEFINE x    == writer[sole]
               m    == MinOf(issued[x.w] - x.out_length, TxSize)
               last == x.out_length + m = issued[x.w] \/ x.i + 1 = TxNum
               pc   == IF last THEN "finish" ELSE "copy"
               y    == [x EXCEPT !.i = x.i + 1, !.out_length = x.out_length + m, !.pc = pc]
    <3>1. /\ writer' = [writer EXCEPT ![sole] = y] /\ x.pc = "copy"
          /\ board_tx_spinlock' = IF last THEN "free" ELSE board_tx_spinlock
      BY <2>2, <2>5 DEF WriteFrameDesc
    <3>2. writer'[sole] = y
      BY <1>1, <3>1
    <3> HIDE DEF last
    <3>3. y.pc = pc
      BY <1>1 DEF WriterState
    <3> HIDE DEF y
    <3> QED BY <1>1, <3>1, <3>2, <3>3
  <2>6. CASE WriteFinish(a)
    <3>1. writer'[sole] = IdleWriter
      BY <1>1, <2>2, <2>6 DEF WriteFinish
    <3> QED BY <3>1 DEF IdleWriter
  <2> QED BY <1>3, <2>3, <2>4, <2>5, <2>6 DEF CopyStep
<1>4. ASSUME NEW len \in WriteLens, WriteRefuse(len) \/ WriteForward(len) \/ WriteAdmit(len)
      PROVE  Goal
  <2> DEFINE y == [IdleWriter EXCEPT !.pc = "lock", !.w = Len(issued')]
  <2>1. /\ board_tx_spinlock' = board_tx_spinlock
        /\ writer' = writer \/ writer' = [writer EXCEPT !["write"] = y]
    BY <1>4 DEF WriteRefuse, WriteForward, WriteAdmit
  <2>2. y.pc = "lock"
    BY DEF IdleWriter
  <2> HIDE DEF y
  <2>3. writer'[sole] = writer[sole] \/ writer'[sole] = y
    BY <1>1, <2>1
  <2> QED BY <1>1, <2>1, <2>2, <2>3
<1>5. ASSUME NEW a \in Requesters, FindRequest(a) \/ RetrieveFoundRequest(a)
      PROVE  Goal
  <2>1. board_tx_spinlock' = board_tx_spinlock /\ a \in Writers
    BY <1>5 DEF FindRequest, RetrieveFoundRequest, Writers
  <2> DEFINE y == [IdleWriter EXCEPT !.pc = "retrieve", !.w = Head(blocking_request_queue)]
             v == [writer[a] EXCEPT !.pc = "lock"]
  <2>2. \E z \in {y, v, IdleWriter} : writer' = [writer EXCEPT ![a] = z]
    BY <1>5 DEF FindRequest, RetrieveFoundRequest
  <2>3. y.pc = "retrieve" /\ v.pc = "lock" /\ IdleWriter.pc = "idle"
    BY <1>1, <2>1 DEF IdleWriter, WriterState
  <2> HIDE DEF y, v
  <2>4. writer'[sole] = writer[sole] \/ writer'[sole] \in {y, v, IdleWriter}
    BY <1>1, <2>1, <2>2
  <2> QED BY <1>1, <2>1, <2>3, <2>4
<1>6. ASSUME UNCHANGED writer, UNCHANGED board_tx_spinlock PROVE Goal
  BY <1>1, <1>6
<1>7. alls_worker \/ PurgeFinish => UNCHANGED writer /\ UNCHANGED board_tx_spinlock
  BY DEF alls_worker, PurgeFinish
<1> HIDE DEF Goal
<1>8. Goal
  BY <1>2, <1>3, <1>4, <1>5, <1>6, <1>7, UserFrame, LockFrame DEF CopyStep, user, vars
<1> QED BY <1>8 DEF Goal

\* An execution of oframe_worker has the lock while it copies, and between its runs no
\* size is left over.
LEMMA HoldOframe ==
  ASSUME NEW sole \in Writers, IndInv, SoleInv(sole), HoldInv(sole), [Next]_vars, NEW o \in Oframes
  PROVE  /\ oframe'[o].pc = "copy" => board_tx_spinlock' = o
         /\ oframe'[o].pc # "copy" => oframe'[o].frame_size = 0
<1> DEFINE f == oframe[o]
           g == oframe'[o]
           Goal == /\ g.pc = "copy" => board_tx_spinlock' = o
                   /\ g.pc # "copy" => g.frame_size = 0
<1>1. /\ oframe \in [Oframes -> OframeState] /\ f \in OframeState
      /\ sole # o /\ o # "free" /\ sole # "free"
  BY WriteAssumption DEF IndInv, OframeInv, Writers
<1>2. /\ writer[sole].pc = "copy" => board_tx_spinlock = sole
      /\ \A a \in Oframes : oframe[a].pc = "copy" => board_tx_spinlock = a
      /\ f.pc # "copy" => f.frame_size = 0
  BY DEF HoldInv
<1>3. ASSUME g = f, UNCHANGED board_tx_spinlock \/ f.pc # "copy" PROVE Goal
  BY <1>2, <1>3
<1>4. ASSUME NEW a \in Oframes, OframeSample(a) PROVE Goal
  <2> DEFINE y == [IdleOframe EXCEPT !.pc = "lock", !.space = fifo_space]
  <2>1. /\ \E z \in {IdleOframe, y} : oframe' = [oframe EXCEPT ![a] = z]
        /\ UNCHANGED board_tx_spinlock
    BY <1>4 DEF OframeSample
  <2>2. /\ IdleOframe.pc = "idle" /\ IdleOframe.frame_size = 0
        /\ y.pc = "lock" /\ y.frame_size = 0
    BY DEF IdleOframe
  <2> HIDE DEF y
  <2>3. g = f \/ g \in {IdleOframe, y}
    BY <1>1, <2>1
  <2> QED BY <1>3, <2>1, <2>2, <2>3
<1>5. ASSUME NEW a \in Oframes, OframeLock(a) PROVE Goal
  <2> DEFINE y == [oframe[a] EXCEPT !.pc = "copy"]
  <2>1. board_tx_spinlock = "free" /\ board_tx_spinlock' = a /\ oframe' = [oframe EXCEPT ![a] = y]
    BY <1>5 DEF OframeLock
  <2>2. y.pc = "copy"
    BY <1>1 DEF OframeState
  <2> HIDE DEF y
  <2>3. CASE a = o
    <3>1. g = y
      BY <1>1, <2>1, <2>3
    <3> QED BY <2>1, <2>2, <2>3, <3>1
  <2>4. CASE a # o
    <3>1. g = f /\ f.pc # "copy"
      BY <1>1, <1>2, <2>1, <2>4
    <3> QED BY <1>3, <3>1
  <2> QED BY <2>3, <2>4
<1>6. ASSUME NEW a \in Oframes, OframeDesc(a) PROVE Goal
  <2> DEFINE d == tx_descriptors[fifo_tx_desc]
             y == [oframe[a] EXCEPT !.i = oframe[a].i + 1, !.written = TRUE,
                            !.space = oframe[a].space - size_in_fifo(Len(d.data)),
                            !.frame_size = IF d.fe THEN d.cnt ELSE oframe[a].frame_size]
  <2>1. oframe' = [oframe EXCEPT ![a] = y] /\ oframe[a].pc = "copy" /\ UNCHANGED board_tx_spinlock
    BY <1>6 DEF OframeDesc
  <2>2. y.pc = oframe[a].pc
    BY <1>1 DEF OframeState
  <2> HIDE DEF y
  <2>3. g = f \/ (a = o /\ g = y)
    BY <1>1, <2>1
  <2> QED BY <1>2, <1>3, <2>1, <2>2, <2>3
<1>7. ASSUME NEW a \in Oframes, OframeUnlock(a) PROVE Goal
  <2> DEFINE y == [IdleOframe EXCEPT !.pc = "transmit"]
  <2>1. /\ \E z \in {y, IdleOframe} : oframe' = [oframe EXCEPT ![a] = z]
        /\ oframe[a].pc = "copy"
    BY <1>7 DEF OframeUnlock
  <2>2. y.pc = "transmit" /\ y.frame_size = 0 /\ IdleOframe.pc = "idle" /\ IdleOframe.frame_size = 0
    BY DEF IdleOframe
  <2> HIDE DEF y
  <2>3. g \in {y, IdleOframe} \/ (a # o /\ g = f)
    BY <1>1, <2>1
  <2>4. a # o => f.pc # "copy"
    BY <1>2, <2>1
  <2> QED BY <1>3, <2>2, <2>3, <2>4
<1>8. ASSUME NEW a \in Oframes, ExecuteTransmit(a) PROVE Goal
  <2>1. (g = f \/ g = IdleOframe) /\ UNCHANGED board_tx_spinlock
    BY <1>1, <1>8 DEF ExecuteTransmit
  <2>2. IdleOframe.pc = "idle" /\ IdleOframe.frame_size = 0
    BY DEF IdleOframe
  <2> QED BY <1>3, <2>1, <2>2
<1>9. ASSUME NEW a \in Writers, WriteFrameLock(a) \/ CopyStep(a) PROVE Goal
  <2>1. UNCHANGED oframe
    BY <1>9 DEF WriteFrameLock, CopyStep, WriteFrameFull, WriteFrameDesc, WriteFinish
  <2>2. a = sole
    BY <1>9 DEF SoleInv, WriteFrameLock, CopyStep, WriteFrameFull, WriteFrameDesc, WriteFinish
  <2>3. UNCHANGED board_tx_spinlock \/ f.pc # "copy"
    BY <1>1, <1>2, <1>9, <2>2
       DEF WriteFrameLock, CopyStep, WriteFrameFull, WriteFrameDesc, WriteFinish
  <2> QED BY <1>3, <2>1, <2>3
<1>10. ASSUME SendWord \/ PurgeReset \/ UNCHANGED vars
      PROVE  UNCHANGED oframe /\ UNCHANGED board_tx_spinlock
  BY <1>10 DEF SendWord, PurgeReset, vars
<1>11. ASSUME UNCHANGED oframe, UNCHANGED board_tx_spinlock PROVE Goal
  BY <1>3, <1>11
<1> HIDE DEF Goal, f, g
<1>12. ASSUME Next PROVE Goal
  <2>1. CASE \E a \in Oframes : OframeSample(a) \/ OframeLock(a) \/ OframeStep(a)
    BY <1>4, <1>5, <1>6, <1>7, <1>8, <2>1 DEF OframeStep
  <2>2. CASE \E a \in Writers : WriteFrameLock(a) \/ CopyStep(a)
    BY <1>9, <2>2
  <2>3. CASE ~(\E a \in Oframes : OframeSample(a) \/ OframeLock(a) \/ OframeStep(a))
             /\ ~(\E a \in Writers : WriteFrameLock(a) \/ CopyStep(a))
    <3>1. UNCHANGED oframe /\ UNCHANGED board_tx_spinlock
      BY <1>12, <2>3, OframeFrame, LockFrame DEF OframeStep, CopyStep
    <3> QED BY <1>11, <3>1
  <2> QED BY <2>1, <2>2, <2>3
<1>13. Goal
  BY <1>10, <1>11, <1>12
<1> QED BY <1>13 DEF Goal, g

-----------------------------------------------------------------------------
(* Every step, and the theorems.                                           *)

\* Only the line completes a frame.
LEMMA SentFrame ==
  Next => SendWord \/ UNCHANGED sent
BY DEF Next, OframeStep, CopyStep, ClockChange, fscc_isr, timer_handler, OframeSample,
       OframeLock, OframeDesc, OframeUnlock, ExecuteTransmit, WriteRefuse, WriteForward,
       WriteAdmit, WriteFrameLock, WriteFrameFull, WriteFrameDesc, WriteFinish, FindRequest,
       RetrieveFoundRequest, alls_worker, PurgeReset, PurgeQueues, PurgeFinish, ToggleSetting

\* Requests are only added.
LEMMA MoreIssued ==
  ASSUME IndInv, [Next]_vars
  PROVE  More(issued, issued')
<1>1. CASE issued' = issued
  BY <1>1 DEF More
<1>2. ASSUME NEW len \in WriteLens, WriteRefuse(len) \/ WriteForward(len) \/ WriteAdmit(len)
      PROVE  More(issued, issued')
  <2>1. issued' = Append(issued, len)
    BY <1>2 DEF WriteRefuse, WriteForward, WriteAdmit, WriteArrives
  <2> QED BY <2>1, WriteAssumption, AcceptedKept DEF IndInv, More
<1>3. ASSUME NEW a \in Writers, WriteFrameLock(a) \/ CopyStep(a) PROVE issued' = issued
  BY <1>3 DEF WriteFrameLock, CopyStep, WriteFrameFull, WriteFrameDesc, WriteFinish
<1>4. ASSUME NEW a \in Requesters, FindRequest(a) \/ RetrieveFoundRequest(a)
      PROVE  issued' = issued
  BY <1>4 DEF FindRequest, RetrieveFoundRequest
<1>5. alls_worker \/ PurgeFinish => issued' = issued
  BY DEF alls_worker, PurgeFinish
<1> QED BY <1>1, <1>2, <1>3, <1>4, <1>5, UserFrame DEF user, vars

\* The sizes change when a frame leaves the card or its descriptor comes in.
LEMMA SizesStay ==
  ASSUME NEW sole \in Writers, IndInv, SoleInv(sole), HoldInv(sole), [Next]_vars,
         ~SendWord, \A o \in Oframes : ~OframeDesc(o), ~PurgeReset
  PROVE  /\ Sizes(bcfifo', InHand') = Sizes(bcfifo, InHand)
         /\ txfifo' = txfifo /\ wire'.out = wire.out
<1> DEFINE Goal == /\ Sizes(bcfifo', InHand') = Sizes(bcfifo, InHand)
                   /\ txfifo' = txfifo /\ wire'.out = wire.out
<1>1. /\ oframe \in [Oframes -> OframeState] /\ wire \in [xf : BOOLEAN, out : Seq(Byte)]
      /\ \A o \in Oframes : /\ oframe[o].pc = "copy" => board_tx_spinlock = o
                            /\ oframe[o].pc # "copy" => oframe[o].frame_size = 0
      /\ writer[sole].pc = "copy" => board_tx_spinlock = sole
      /\ "free" \notin Oframes /\ sole \notin Oframes
      /\ IdleOframe.frame_size = 0
  BY WriteAssumption DEF IndInv, OframeInv, DeviceInv, HoldInv, Writers, IdleOframe
<1>2. ASSUME bcfifo' = bcfifo, InHand.frame_size = 0, InHand'.frame_size = 0
      PROVE  Sizes(bcfifo', InHand') = Sizes(bcfifo, InHand)
  BY <1>2 DEF Sizes
<1>3. ASSUME NEW o \in Oframes, NEW z, z.frame_size = 0, oframe[o].pc # "copy",
             oframe' = [oframe EXCEPT ![o] = z], UNCHANGED board_tx_spinlock, UNCHANGED bcfifo
      PROVE  Sizes(bcfifo', InHand') = Sizes(bcfifo, InHand)
  <2>1. CASE board_tx_spinlock = o
    <3>1. InHand = oframe[o] /\ InHand' = z
      BY <1>1, <1>3, <2>1 DEF InHand
    <3> QED BY <1>1, <1>2, <1>3, <3>1
  <2>2. CASE board_tx_spinlock # o
    <3>1. InHand' = InHand
      BY <1>1, <1>3, <2>2 DEF InHand
    <3> QED BY <1>3, <3>1
  <2> QED BY <2>1, <2>2
<1>4. ASSUME NEW o \in Oframes, OframeSample(o) PROVE Goal
  <2> DEFINE y == [IdleOframe EXCEPT !.pc = "lock", !.space = fifo_space]
  <2>1. /\ \E z \in {IdleOframe, y} : oframe' = [oframe EXCEPT ![o] = z]
        /\ oframe[o].pc = "idle" /\ UNCHANGED <<bcfifo, txfifo, wire, board_tx_spinlock>>
    BY <1>4 DEF OframeSample, device
  <2>2. y.frame_size = 0
    BY DEF IdleOframe
  <2> HIDE DEF y
  <2> QED BY <1>1, <1>3, <2>1, <2>2
<1>5. ASSUME NEW o \in Oframes, OframeLock(o) PROVE Goal
  <2> DEFINE y == [oframe[o] EXCEPT !.pc = "copy"]
  <2>1. /\ board_tx_spinlock = "free" /\ board_tx_spinlock' = o
        /\ oframe' = [oframe EXCEPT ![o] = y] /\ oframe[o].pc = "lock"
        /\ UNCHANGED <<bcfifo, txfifo, wire>>
    BY <1>5 DEF OframeLock, device
  <2>2. y.frame_size = 0
    BY <1>1, <2>1 DEF OframeState
  <2> HIDE DEF y
  <2>3. InHand = IdleOframe /\ InHand' = y
    BY <1>1, <2>1 DEF InHand
  <2> QED BY <1>1, <1>2, <2>1, <2>2, <2>3
<1>6. ASSUME NEW o \in Oframes, OframeUnlock(o) PROVE Goal
  <2>1. /\ oframe[o].pc = "copy" /\ board_tx_spinlock' = "free" /\ UNCHANGED <<txfifo, wire>>
        /\ bcfifo' = IF oframe[o].frame_size # 0 THEN Append(bcfifo, oframe[o].frame_size)
                                                 ELSE bcfifo
    BY <1>6 DEF OframeUnlock
  <2>2. InHand = oframe[o] /\ InHand' = IdleOframe
    BY <1>1, <2>1 DEF InHand
  <2> QED BY <1>1, <2>1, <2>2 DEF Sizes
<1>7. ASSUME NEW o \in Oframes, ExecuteTransmit(o) PROVE Goal
  <2>1. /\ oframe' = [oframe EXCEPT ![o] = IdleOframe] /\ oframe[o].pc = "transmit"
        /\ UNCHANGED <<bcfifo, txfifo, board_tx_spinlock>>
        /\ wire' = wire \/ wire' = [wire EXCEPT !.xf = TRUE]
    BY <1>7 DEF ExecuteTransmit
  <2>2. wire'.out = wire.out
    BY <1>1, <2>1
  <2> QED BY <1>1, <1>3, <2>1, <2>2
<1>8. ASSUME NEW a \in Writers, WriteFrameLock(a) \/ CopyStep(a) PROVE Goal
  <2>1. a = sole
    BY <1>8 DEF SoleInv, WriteFrameLock, CopyStep, WriteFrameFull, WriteFrameDesc, WriteFinish
  <2>2. /\ UNCHANGED <<bcfifo, txfifo, wire, oframe>>
        /\ \/ UNCHANGED board_tx_spinlock
           \/ board_tx_spinlock \in {sole, "free"} /\ board_tx_spinlock' \in {sole, "free"}
    BY <1>1, <1>8, <2>1 DEF WriteFrameLock, CopyStep, WriteFrameFull, WriteFrameDesc, WriteFinish,
                            device
  <2>3. InHand' = InHand
    BY <1>1, <2>2 DEF InHand
  <2> QED BY <2>2, <2>3
<1>9. ASSUME UNCHANGED oframe, UNCHANGED board_tx_spinlock,
             UNCHANGED device \/ ClockChange \/ fscc_isr
      PROVE  Goal
  <2>1. InHand' = InHand
    BY <1>9 DEF InHand
  <2> QED BY <1>9, <2>1 DEF device, ClockChange, fscc_isr
<1>10. UNCHANGED vars => UNCHANGED oframe /\ UNCHANGED board_tx_spinlock /\ UNCHANGED device
  BY DEF vars
<1> HIDE DEF Goal
<1>11. ASSUME Next PROVE Goal
  <2>1. CASE \E o \in Oframes : OframeSample(o) \/ OframeLock(o) \/ OframeStep(o)
    BY <1>4, <1>5, <1>6, <1>7, <2>1 DEF OframeStep
  <2>2. CASE \E a \in Writers : WriteFrameLock(a) \/ CopyStep(a)
    BY <1>8, <2>2
  <2>3. CASE ~(\E o \in Oframes : OframeSample(o) \/ OframeLock(o) \/ OframeStep(o))
             /\ ~(\E a \in Writers : WriteFrameLock(a) \/ CopyStep(a))
    <3>1. UNCHANGED oframe /\ UNCHANGED board_tx_spinlock
      BY <1>11, <2>3, OframeFrame, LockFrame DEF OframeStep, CopyStep
    <3>2. UNCHANGED device \/ ClockChange \/ fscc_isr
      BY <1>11, <2>3, DeviceFrame DEF OframeStep
    <3> QED BY <1>9, <3>1, <3>2
  <2> QED BY <2>1, <2>2, <2>3
<1>12. Goal
  BY <1>9, <1>10, <1>11
<1> QED BY <1>12 DEF Goal

\* Every step keeps the order, as long as what is moved into the FIFO finds room and no
\* purge happens while the clock is gone.
LEMMA OrderNext ==
  ASSUME NEW sole \in Writers, OneWriter(sole), IndInv, SoleInv(sole), RoomInv(sole),
         HoldInv(sole), OrderInv(sole), [Next]_vars, RoomThere, PurgeReset => clock.on
  PROVE  OrderInv(sole)'
<1>1. CASE SendWord
  BY <1>1, SendWordOrder
<1>2. CASE \E o \in Oframes : OframeDesc(o)
  BY <1>2, OframeDescOrder
<1>3. CASE WriteFrameDesc(sole)
  BY <1>3, WriteFrameDescOrder
<1>4. CASE PurgeReset
  BY <1>4, PurgeOrder
<1>5. CASE /\ ~SendWord /\ ~PurgeReset /\ ~WriteFrameDesc(sole)
           /\ \A o \in Oframes : ~OframeDesc(o)
  <2>1. UNCHANGED ring
    <3>1. ASSUME NEW a \in Writers, WriteFrameDesc(a) PROVE a = sole
      BY <3>1 DEF SoleInv, WriteFrameDesc
    <3> QED BY <1>5, <3>1, RingFrame DEF vars
  <2>2. UNCHANGED sent
    BY <1>5, SentFrame DEF vars
  <2>3. /\ Sizes(bcfifo', InHand') = Sizes(bcfifo, InHand)
        /\ txfifo' = txfifo /\ wire'.out = wire.out
    BY <1>5, SizesStay
  <2>4. More(issued, issued') /\ issued \in Seq(Nat)
    BY MoreIssued DEF IndInv, QueueInv
  <2>5. PICK n \in 0..TxNum : \E F, S, t, p :
          /\ Window(tx_descriptors, fifo_tx_desc, user_tx_desc, n)
          /\ Card(issued, F, S, t[0], txfifo, wire.out, Sizes(bcfifo, InHand), sent)
          /\ Parts(issued, tx_descriptors, fifo_tx_desc, n, t, p)
          /\ GoesOn(issued, t[n], writer[sole], blocking_request_queue)
    BY DEF OrderInv, Ordered
  <2>6. PICK F, S, t, p :
          /\ Window(tx_descriptors, fifo_tx_desc, user_tx_desc, n)
          /\ Card(issued, F, S, t[0], txfifo, wire.out, Sizes(bcfifo, InHand), sent)
          /\ Parts(issued, tx_descriptors, fifo_tx_desc, n, t, p)
          /\ GoesOn(issued, t[n], writer[sole], blocking_request_queue)
    BY <2>5
  <2>7. t[n] \in Place
    BY <2>4, <2>6, EndIsWhole
  <2>8. GoesOn(issued', t[n], writer'[sole], blocking_request_queue')
    BY <1>5, <2>6, <2>7, GoesOnNext
  <2>9. Card(issued', F, S, t[0], txfifo, wire.out, Sizes(bcfifo, InHand), sent)
    BY <2>4, <2>6, MoreKeepsCard
  <2>10. Parts(issued', tx_descriptors, fifo_tx_desc, n, t, p)
    BY <2>4, <2>6, MoreKeepsParts
  <2>11. /\ Window(tx_descriptors', fifo_tx_desc', user_tx_desc', n)
         /\ Card(issued', F, S, t[0], txfifo', wire'.out, Sizes(bcfifo', InHand'), sent')
         /\ Parts(issued', tx_descriptors', fifo_tx_desc', n, t, p)
    BY <2>1, <2>2, <2>3, <2>6, <2>9, <2>10 DEF ring
  <2>12. Ordered(issued', tx_descriptors', fifo_tx_desc', user_tx_desc', txfifo', wire'.out,
                 Sizes(bcfifo', InHand'), sent', writer'[sole], blocking_request_queue')
    BY <2>8, <2>11, OrderedBy
  <2> QED BY <2>12 DEF OrderInv
<1> QED BY <1>1, <1>2, <1>3, <1>4, <1>5

\* The transmitter before the first request.
LEMMA OrderInit ==
  ASSUME NEW sole \in Writers, Init
  PROVE  HoldInv(sole) /\ OrderInv(sole)
<1>1. /\ writer[sole] = IdleWriter /\ InHand = IdleOframe
      /\ \A o \in Oframes : oframe[o] = IdleOframe
  BY DEF Init, InHand
<1>2. /\ IdleWriter.pc = "idle" /\ IdleWriter.out_length = 0
      /\ IdleOframe.pc = "idle" /\ IdleOframe.frame_size = 0
  BY DEF IdleWriter, IdleOframe
<1>3. HoldInv(sole)
  BY <1>1, <1>2 DEF HoldInv
<1> DEFINE e  == [w |-> 0, from |-> 0]
           t2 == [k \in 0..0 |-> e]
           p2 == [k \in 1..0 |-> e]
           D  == [j \in 0..0 |-> 0]
<1>4. e \in Place /\ e.w = 0 /\ e.from = 0 /\ t2[0] = e
  BY DEF Place
<1>5. issued = << >> /\ << >> \in Seq(Nat) /\ Len(<< >>) = 0
  BY DEF Init
<1>6. Gone(<< >>, << >>, e, << >>)
  <2>1. << >> \in Seq([data : Seq(Byte), stale : BOOLEAN]) /\ 1..0 = {}
    OBVIOUS
  <2> QED BY <1>5, <2>1 DEF Gone
<1> HIDE DEF e
<1>7. Card(<< >>, << >>, D, e, << >>, << >>, << >>, << >>)
  BY <1>4, <1>5, <1>6, EmptyCard
<1>8. Parts(<< >>, tx_descriptors, 0, 0, t2, p2)
  <2>2. t2 \in [0..0 -> Place] /\ p2 \in [1..0 -> Place] /\ 1..0 = {} /\ \A i \in 0..0 : i = 0
    BY <1>4
  <2>3. \A i, j \in 0..0 : t2[i].w <= t2[j].w
    BY <1>4, <2>2
  <2> HIDE DEF t2, p2
  <2> QED BY <2>2, <2>3 DEF Parts
<1>9. Window(tx_descriptors, 0, 0, 0)
  BY EmptyWindow DEF Init
<1> HIDE DEF D, t2, p2
<1>10. GoesOn(<< >>, e, IdleWriter, << >>)
  <2>1. 1..0 = {}
    OBVIOUS
  <2> QED BY <1>2, <1>4, <1>5, <2>1 DEF GoesOn
<1>11. Sizes(bcfifo, InHand) = << >> /\ wire.out = << >> /\ txfifo = << >> /\ sent = << >>
       /\ fifo_tx_desc = 0 /\ user_tx_desc = 0 /\ blocking_request_queue = << >>
  BY <1>1, <1>2 DEF Sizes, Init
<1>12. 0 \in 0..TxNum
  BY RingFacts
<1>13. OrderInv(sole)
  <2>1. Ordered(<< >>, tx_descriptors, 0, 0, << >>, << >>, << >>, << >>, IdleWriter, << >>)
    BY <1>4, <1>7, <1>8, <1>9, <1>10, <1>12, OrderedBy
  <2> QED BY <1>1, <1>5, <1>11, <2>1 DEF OrderInv
<1> QED BY <1>3, <1>13

\* What is known of the frames that went out.
LEMMA OrderMeans ==
  ASSUME NEW sole, OrderInv(sole), issued \in Seq(Nat)
  PROVE  SentIntact /\ SentInOrder
<1>0. PICK n \in 0..TxNum : \E F, S, t, p :
        Card(issued, F, S, t[0], txfifo, wire.out, Sizes(bcfifo, InHand), sent)
  BY DEF OrderInv, Ordered
<1>1. PICK F, S, t, p :
        Card(issued, F, S, t[0], txfifo, wire.out, Sizes(bcfifo, InHand), sent)
  BY <1>0
<1>2. Gone(issued, F, t[0], sent)
  BY <1>1 DEF Card
<1>3. SentIntact
  BY <1>2 DEF Gone, SentIntact
<1>4. SentInOrder
  BY <1>2 DEF Gone, SentInOrder
<1> QED BY <1>3, <1>4

\* No purge while the clock is gone.
ClockedPurge == PurgeReset => clock.on

\* All parts of the invariant together.
AllInv(sole) == IndInv /\ WriteInv(sole) /\ HoldInv(sole) /\ OrderInv(sole)

LEMMA OrderStep ==
  ASSUME NEW sole \in Writers, OneWriter(sole)
  PROVE  AllInv(sole) /\ [Next]_vars /\ [RoomThere]_vars /\ [ClockedPurge]_vars
         => AllInv(sole)'
<1> SUFFICES ASSUME AllInv(sole), [Next]_vars, [RoomThere]_vars, [ClockedPurge]_vars
             PROVE  AllInv(sole)'
  OBVIOUS
<1> USE DEF AllInv
<1>1. IndInv' /\ WriteInv(sole)'
  BY WriteNext
<1>2. SoleInv(sole) /\ RoomInv(sole)
  BY DEF WriteInv
<1>3. HoldInv(sole)'
  <2>1. writer'[sole].pc = "copy" => board_tx_spinlock' = sole
    BY <1>2, HoldWriter
  <2>2. ASSUME NEW o \in Oframes
        PROVE  /\ oframe'[o].pc = "copy" => board_tx_spinlock' = o
               /\ oframe'[o].pc # "copy" => oframe'[o].frame_size = 0
    BY <1>2, HoldOframe
  <2> QED BY <2>1, <2>2 DEF HoldInv
<1>4. CASE UNCHANGED vars
  <2>1. /\ UNCHANGED <<issued, tx_descriptors, fifo_tx_desc, user_tx_desc, txfifo, wire, bcfifo>>
        /\ UNCHANGED <<oframe, board_tx_spinlock, sent, writer, blocking_request_queue>>
    BY <1>4 DEF vars, device, ring, user
  <2>2. InHand' = InHand
    BY <2>1 DEF InHand
  <2>3. OrderInv(sole)'
    BY <2>1, <2>2 DEF OrderInv
  <2> QED BY <1>1, <1>3, <2>3
<1>5. CASE ~UNCHANGED vars
  <2>1. RoomThere /\ (PurgeReset => clock.on)
    BY <1>5 DEF ClockedPurge
  <2>2. OrderInv(sole)'
    BY <1>2, <2>1, OrderNext
  <2> QED BY <1>1, <1>3, <2>2
<1> QED BY <1>1, <1>3, <1>4, <1>5

\* No write blocks: the mode a port starts in.
DirectWrites == "blocking_write" \notin Toggles /\ \A s \in InitialSettings : ~s.blocking_write

\* However the executions overlap, the invariant holds under the two conditions.
LEMMA DirectOrder ==
  ASSUME DirectWrites
  PROVE  Spec /\ [][RoomThere]_vars /\ [][ClockedPurge]_vars => []AllInv("write")
<1>1. "write" \in Writers /\ OneWriter("write")
  BY DEF Writers, OneWriter, DirectWrites
<1>2. Init => AllInv("write")
  BY <1>1, WriteInit, OrderInit DEF AllInv
<1>3. AllInv("write") /\ [Next]_vars /\ [RoomThere]_vars /\ [ClockedPurge]_vars
      => AllInv("write")'
  BY <1>1, OrderStep
<1> QED BY <1>2, <1>3, PTL DEF Spec

\* Every frame on the wire is one write request, whole and byte by byte, in the mode a
\* port starts in, however the executions of oframe_worker overlap, with a purge, an
\* outage and wait_on_write at any point.  Only two things can break it: oframe_worker
\* moving more into the FIFO than there is room for (fscc_fifo_write_data looks before
\* it has the lock), and a purge without a clock, which empties the ring and leaves the
\* first part of a frame in the card.
THEOREM IntactSafety ==
  ASSUME DirectWrites
  PROVE  Spec /\ [][RoomThere]_vars /\ [][ClockedPurge]_vars => []SentIntact
<1>1. AllInv("write") => SentIntact
  BY OrderMeans DEF AllInv, IndInv, QueueInv
<1> QED BY <1>1, DirectOrder, PTL

\* Frames go out in the order of the write requests, under the same conditions.
THEOREM InOrderSafety ==
  ASSUME DirectWrites
  PROVE  Spec /\ [][RoomThere]_vars /\ [][ClockedPurge]_vars => []SentInOrder
<1>1. AllInv("write") => SentInOrder
  BY OrderMeans DEF AllInv, IndInv, QueueInv
<1> QED BY <1>1, DirectOrder, PTL
=============================================================================
