---------------------------- MODULE FsccRxProofs ----------------------------
(***************************************************************************)
(* Proofs about FsccRx, for every ring size, descriptor size, traffic,     *)
(* number of overlapping readers and choice of settings.                   *)
(***************************************************************************)
EXTENDS FsccRx, SequenceTheorems, FiniteSetTheorems, TLAPS

\* The inductive invariant: types, who holds the lock, the window of finished
\* descriptors, and what the two copy loops rely on.
IndInv == TypeOK /\ LockOwnership /\ RingOwnership /\ DescInv /\ CopyInv

-----------------------------------------------------------------------------
(* Geometry of the ring.                                                   *)

Ring == 0..(RxNum - 1)

\* Arithmetic on distances.
LEMMA RingFacts ==
  /\ RxNum \in Nat /\ 0 \in Ring /\ 0 \in 0..RxNum /\ RxNum \in 0..RxNum
  /\ \A k \in Ring : /\ k \in Nat /\ k < RxNum /\ k \in 0..RxNum
                      /\ k + 1 \in 0..RxNum /\ (k # RxNum - 1 => k + 1 \in Ring)
  /\ \A k \in 0..RxNum : k \in Nat /\ (k # RxNum => k \in Ring) /\ (k # 0 => k - 1 \in Ring)
BY RingAssumption DEF Ring

\* Positions ahead of a position of the ring are positions of the ring.
LEMMA PosType ==
  \A u \in Ring, k \in 0..RxNum : RingPos(u, k) \in Ring
BY RingAssumption DEF RingPos, Ring

\* Different distances below RxNum are different descriptors.
LEMMA PosInjective ==
  \A u \in Ring, j \in Ring, k \in Ring : RingPos(u, j) = RingPos(u, k) => j = k
BY RingAssumption DEF RingPos, Ring

\* The position after the k-th one ahead is the (k+1)-th.
LEMMA NextOfPos ==
  \A u \in Ring, k \in Ring : NextDesc(RingPos(u, k)) = RingPos(u, k + 1)
BY RingAssumption DEF RingPos, NextDesc, Ring

\* From the next position everything is one step less ahead.
LEMMA PosOfNext ==
  \A u \in Ring, k \in Ring :
    NextDesc(u) \in Ring /\ RingPos(NextDesc(u), k) = RingPos(u, k + 1)
BY RingAssumption DEF RingPos, NextDesc, Ring

\* Distance zero, and a whole turn, is the position itself.
LEMMA PosZero ==
  \A u \in Ring : RingPos(u, 0) = u /\ RingPos(u, RxNum) = u
BY RingAssumption DEF RingPos, Ring

\* The frame the user would read: its size is the CNT of its last descriptor.
LEMMA FrameBytes ==
  ASSUME frame_ready
  PROVE  \E k \in 0..(RxNum - 1) : FrameEndsAt(k) /\ frame_bytes = rx_descriptors[Ahead(k)].cnt
<1> DEFINE c == CHOOSE k \in 0..(RxNum - 1) : FrameEndsAt(k)
<1>1. c \in 0..(RxNum - 1) /\ FrameEndsAt(c)
  BY DEF frame_ready
<1>2. frame_bytes = rx_descriptors[Ahead(c)].cnt
  BY DEF frame_bytes
<1> QED BY <1>1, <1>2

-----------------------------------------------------------------------------
(* The window of finished descriptors: n of them from position u, in front *)
(* of position f.                                                          *)

Window(ds, u, f, n) ==
  /\ f = RingPos(u, n)
  /\ \A k \in Ring : Finished(ds[RingPos(u, k)]) <=> k < n

\* The descriptor the FIFO is at becomes finished: the window grows by it.
LEMMA WindowGrows ==
  ASSUME NEW S, NEW ds \in [Ring -> S], NEW u \in Ring, NEW f \in Ring, NEW n \in 0..RxNum, NEW d,
         Window(ds, u, f, n), ~Finished(ds[f]), Finished(d)
  PROVE  n + 1 \in 0..RxNum /\ Window([ds EXCEPT ![f] = d], u, NextDesc(f), n + 1)
<1>1. n \in Ring
  BY PosZero, RingFacts DEF Window
<1>2. NextDesc(f) = RingPos(u, n + 1)
  BY <1>1, NextOfPos DEF Window
<1>3. ASSUME NEW k \in Ring
      PROVE  Finished([ds EXCEPT ![f] = d][RingPos(u, k)]) <=> k < n + 1
  <2>1. RingPos(u, k) \in Ring
    BY PosType, RingFacts
  <2>2. Finished(ds[RingPos(u, k)]) <=> k < n
    BY DEF Window
  <2>3. CASE k = n
    BY <2>1, <2>3, RingFacts DEF Window
  <2>4. CASE k # n
    <3>1. RingPos(u, k) # f
      BY <1>1, <2>4, PosInjective DEF Window
    <3>2. [ds EXCEPT ![f] = d][RingPos(u, k)] = ds[RingPos(u, k)]
      BY <2>1, <3>1
    <3>3. k < n <=> k < n + 1
      BY <2>4, <1>1, RingFacts
    <3> QED BY <2>2, <3>2, <3>3
  <2> QED BY <2>3, <2>4
<1> QED BY <1>1, <1>2, <1>3, RingFacts DEF Window

\* The descriptor the user is at is released: the window shrinks by it.
LEMMA WindowShrinks ==
  ASSUME NEW S, NEW ds \in [Ring -> S], NEW u \in Ring, NEW f \in Ring, NEW n \in 0..RxNum,
         NEW d, Window(ds, u, f, n), Finished(ds[u]), ~Finished(d)
  PROVE  n - 1 \in 0..RxNum /\ Window([ds EXCEPT ![u] = d], NextDesc(u), f, n - 1)
<1>1. n # 0 /\ n - 1 \in Ring
  BY PosZero, RingFacts DEF Window
<1>2. f = RingPos(NextDesc(u), n - 1)
  <2>1. (n - 1) + 1 = n
    BY RingFacts
  <2> QED BY <1>1, <2>1, PosOfNext DEF Window
<1>3. ASSUME NEW k \in Ring
      PROVE  Finished([ds EXCEPT ![u] = d][RingPos(NextDesc(u), k)]) <=> k < n - 1
  <2>1. RingPos(NextDesc(u), k) = RingPos(u, k + 1) /\ RingPos(u, k + 1) \in Ring
    BY PosOfNext, PosType, RingFacts
  <2>2. CASE k = RxNum - 1
    <3>1. RingPos(u, k + 1) = u
      BY <2>2, PosZero, RingFacts
    <3>2. ~(k < n - 1)
      BY <2>2, <1>1, RingFacts
    <3> QED BY <2>1, <3>1, <3>2
  <2>3. CASE k # RxNum - 1
    <3>1. k + 1 \in Ring /\ k + 1 # 0
      BY <2>3, RingFacts
    <3>2. RingPos(u, k + 1) # u
      BY <3>1, PosInjective, PosZero, RingFacts
    <3>3. [ds EXCEPT ![u] = d][RingPos(u, k + 1)] = ds[RingPos(u, k + 1)]
      BY <2>1, <3>2
    <3>4. Finished(ds[RingPos(u, k + 1)]) <=> k + 1 < n
      BY <3>1 DEF Window
    <3>5. k + 1 < n <=> k < n - 1
      BY RingFacts
    <3> QED BY <2>1, <3>3, <3>4, <3>5
  <2> QED BY <2>2, <2>3
<1> QED BY <1>1, <1>2, <1>3, RingFacts DEF Window

\* A change that finishes and releases nothing keeps the window.
LEMMA WindowStays ==
  ASSUME NEW S, NEW ds \in [Ring -> S], NEW u \in Ring, NEW f \in Ring, NEW n \in 0..RxNum,
         NEW d, NEW i \in Ring, Window(ds, u, f, n), Finished(d) <=> Finished(ds[i])
  PROVE  Window([ds EXCEPT ![i] = d], u, f, n)
<1>1. ASSUME NEW k \in Ring
      PROVE  Finished([ds EXCEPT ![i] = d][RingPos(u, k)]) <=> k < n
  <2>1. RingPos(u, k) \in Ring
    BY PosType, RingFacts
  <2>2. Finished(ds[RingPos(u, k)]) <=> k < n
    BY DEF Window
  <2> QED BY <2>1, <2>2
<1> QED BY <1>1 DEF Window

\* RingOwnership is the existence of such a window.
LEMMA OwnershipIsWindow ==
  RingOwnership <=> \E n \in 0..RxNum : Window(rx_descriptors, user_rx_desc, fifo_rx_desc, n)
BY DEF RingOwnership, Window, Ahead, Ring

-----------------------------------------------------------------------------
(* The frame at the front of the ring.                                     *)

EndsAt(ds, u, k) ==
  /\ Complete(ds[RingPos(u, k)])
  /\ \A j \in 0..(k - 1) : Finished(ds[RingPos(u, j)]) /\ ~Complete(ds[RingPos(u, j)])

\* FrameEndsAt in terms of the ring and the user's position.
LEMMA FrameEndsIsEndsAt ==
  \A k \in Ring : FrameEndsAt(k) <=> EndsAt(rx_descriptors, user_rx_desc, k)
BY DEF FrameEndsAt, EndsAt, Ahead

\* The first descriptor of a frame is finished.
LEMMA FirstFinished ==
  ASSUME NEW ds, NEW u \in Ring, NEW k \in Ring, EndsAt(ds, u, k)
  PROVE  Finished(ds[u]) /\ (k # 0 => ~Complete(ds[u])) /\ (k = 0 => Complete(ds[u]))
<1>1. RingPos(u, 0) = u
  BY PosZero
<1>2. CASE k = 0
  BY <1>1, <1>2 DEF EndsAt, Finished, Complete
<1>3. CASE k # 0
  <2>1. 0 \in 0..(k - 1)
    BY <1>3, RingFacts
  <2> QED BY <1>1, <1>3, <2>1 DEF EndsAt
<1> QED BY <1>2, <1>3

\* Descriptor d is stored at position u.
Put(ds, u, d) == [ds EXCEPT ![u] = d]

\* When the first descriptor of a frame is released the rest is still there.
LEMMA EndsAfterRelease ==
  ASSUME NEW S, NEW ds \in [Ring -> S], NEW u \in Ring, NEW k \in Ring, NEW d,
         k # 0, EndsAt(ds, u, k)
  PROVE  /\ k - 1 \in Ring
         /\ EndsAt(Put(ds, u, d), NextDesc(u), k - 1)
         /\ Put(ds, u, d)[RingPos(NextDesc(u), k - 1)] = ds[RingPos(u, k)]
<1>0. k \in Nat
  BY RingFacts
<1>1. k - 1 \in Ring /\ (k - 1) + 1 = k
  BY RingFacts
<1>2. ASSUME NEW j \in 0..(k - 1)
      PROVE  Put(ds, u, d)[RingPos(NextDesc(u), j)] = ds[RingPos(u, j + 1)]
  <2>1. j \in Ring /\ j + 1 \in Ring /\ j + 1 # 0
    BY RingFacts DEF Ring
  <2>2. RingPos(NextDesc(u), j) = RingPos(u, j + 1) /\ RingPos(u, j + 1) \in Ring
    BY <2>1, PosOfNext, PosType, RingFacts
  <2>3. RingPos(u, j + 1) # u
    BY <2>1, PosInjective, PosZero, RingFacts
  <2> QED BY <2>2, <2>3 DEF Put
<1>3. k - 1 \in 0..(k - 1)
  BY <1>0
<1>4. Put(ds, u, d)[RingPos(NextDesc(u), k - 1)] = ds[RingPos(u, k)]
  BY <1>1, <1>2, <1>3
<1>5. ASSUME NEW j \in 0..((k - 1) - 1)
      PROVE  LET x == Put(ds, u, d)[RingPos(NextDesc(u), j)]
             IN Finished(x) /\ ~Complete(x)
  <2>1. j \in 0..(k - 1) /\ j + 1 \in 0..(k - 1)
    BY <1>0
  <2>2. Finished(ds[RingPos(u, j + 1)]) /\ ~Complete(ds[RingPos(u, j + 1)])
    BY <2>1 DEF EndsAt
  <2> QED BY <1>2, <2>1, <2>2
<1> QED BY <1>1, <1>4, <1>5 DEF EndsAt

-----------------------------------------------------------------------------
(* The initial states.                                                     *)

\* A freshly created port satisfies the invariant.
LEMMA InitIndInv == Init => IndInv
<1> SUFFICES ASSUME Init PROVE IndInv
  OBVIOUS
<1> USE RingAssumption
<1>1. TypeOK
  <2>1. TypeDevice
    BY DEF Init, TypeDevice
  <2>0. TypeFlags
    BY Zenon DEF Init, TypeFlags
  <2>2. TypeRing
    BY DEF Init, TypeRing, Desc, Byte, Pad, Empty
  <2>3. TypeDpc
    BY DEF Init, TypeDpc
  <2>4. TypeUser
    BY DEF Init, TypeUser, IdleReader, ReaderState
  <2>5. TypeIoctl
    BY SettingsAssumption DEF Init, TypeIoctl
  <2> QED BY <2>0, <2>1, <2>2, <2>3, <2>4, <2>5 DEF TypeOK
<1>2. LockOwnership
  BY ReadAssumption DEF Init, LockOwnership, IdleReader
<1>3. RingOwnership
  <2>1. \A i \in Ring : ~Finished(rx_descriptors[i])
    BY DEF Init, Finished, Ring
  <2>2. \A k \in Ring : RingPos(0, k) \in Ring
    BY PosType, RingFacts
  <2>3. Window(rx_descriptors, 0, 0, 0)
    BY <2>1, <2>2, PosZero, RingFacts DEF Window
  <2> QED BY <2>3, RingFacts, OwnershipIsWindow DEF Init
<1>4. DescInv
  BY DEF Init, DescInv
<1>5. CopyInv
  BY DEF Init, CopyInv, IdleReader
<1> QED BY <1>1, <1>2, <1>3, <1>4, <1>5 DEF IndInv

-----------------------------------------------------------------------------
(* Steps that leave the ring, or the readers, alone.                       *)

\* A step that leaves the descriptors and both positions alone keeps RingOwnership.
LEMMA RingKept ==
  ASSUME RingOwnership, UNCHANGED <<rx_descriptors, user_rx_desc, fifo_rx_desc>>
  PROVE  RingOwnership'
BY DEF RingOwnership, Ahead

\* A step that leaves the ring and the readers alone keeps CopyInv.
LEMMA CopyKept ==
  ASSUME CopyInv, UNCHANGED <<rx_descriptors, user_rx_desc, reader>>
  PROVE  CopyInv'
BY DEF CopyInv, FrameEndsAt, Ahead

\* DescInv depends on the ring, the byte counts and iframe_worker's position only.
LEMMA DescKept ==
  ASSUME DescInv,
         UNCHANGED <<rx_descriptors, fifo_rx_desc, bcfifo, rx_frame_size>>,
         iframe'.pc # "store" \/ (iframe'.pc = iframe.pc /\ iframe'.i = iframe.i)
  PROVE  DescInv'
BY DEF DescInv

\* Whole words hold at least the bytes they are for.
LEMMA WordsBound == \A n \in Nat : WordsOf(n) \in Nat /\ WordsOf(n) >= n
BY DEF WordsOf

\* A frame size on the line.
LEMMA FrameSize == \A f \in 1..Len(Traffic) : Traffic[f] \in Nat /\ Traffic[f] >= 2
BY TrafficAssumption

\* A function on 1..n is a sequence.
LEMMA FunctionIsSeq ==
  ASSUME NEW S, NEW n \in Nat, NEW g \in [1..n -> S]
  PROVE  g \in Seq(S) /\ Len(g) = n
OBVIOUS

\* Bytes arriving on the line preserve the invariant: a frame the card records
\* counts at least its two status bytes.
LEMMA LineArriveInv ==
  ASSUME IndInv, NEW n \in Arrivals, LineArrive(n)
  PROVE  IndInv'
<1> USE DEF ring, dpcs, user, ioctl
<1> DEFINE size == Traffic[line.f]
           data == [j \in 1..n |-> <<line.f, line.k + j>>]
           pads == [j \in 1..(WordsOf(size) - size) |-> Pad]
<1>1. n \in Nat /\ n # 0
  BY LineAssumption
<1>2. line.f \in 1..Len(Traffic) /\ line.f \in Nat /\ line.k \in Nat /\ line = [f |-> line.f, k |-> line.k]
  BY TrafficAssumption DEF LineArrive, IndInv, TypeOK, TypeDevice
<1>3. size \in Nat /\ size >= 2 /\ WordsOf(size) - size \in Nat
  BY <1>2, FrameSize, WordsBound
<1>4. data \in Seq(Byte) /\ pads \in Seq(Byte)
  <2>1. data \in [1..n -> Byte]
    BY <1>1, <1>2 DEF Byte
  <2>2. pads \in [1..(WordsOf(size) - size) -> Byte]
    BY DEF Byte, Pad
  <2> HIDE DEF data, pads
  <2> QED BY <1>1, <1>3, <2>1, <2>2, FunctionIsSeq
<1>5. \/ /\ rxfifo' = (rxfifo \o data) \o pads
         /\ bcfifo' = Append(bcfifo, size)
         /\ line' = [f |-> line.f + 1, k |-> 0]
      \/ /\ rxfifo' = rxfifo \o data
         /\ line' = [line EXCEPT !.k = @ + n]
         /\ bcfifo' = bcfifo
  BY DEF LineArrive
<1>10. isr' \in {isr, TRUE}
  BY Zenon DEF LineArrive
<1>11. rxfifo \in Seq(Byte) /\ bcfifo \in Seq(Nat)
  BY DEF IndInv, TypeOK, TypeDevice
<1>12. bcfifo' = bcfifo \/ bcfifo' = Append(bcfifo, size)
  BY <1>5
<1> HIDE DEF size, data, pads
<1>6. TypeOK'
  <2>1. rxfifo' \in Seq(Byte)
    <3>1. rxfifo \o data \in Seq(Byte)
      BY <1>4, <1>11, ConcatProperties
    <3>2. (rxfifo \o data) \o pads \in Seq(Byte)
      BY <1>4, <3>1, ConcatProperties
    <3>3. rxfifo' = rxfifo \o data \/ rxfifo' = (rxfifo \o data) \o pads
      BY <1>5
    <3> QED BY <3>1, <3>2, <3>3
  <2>2. bcfifo' \in Seq(Nat)
    BY <1>3, <1>11, <1>12, AppendProperties
  <2>3. line' \in [f : Nat \ {0}, k : Nat]
    BY <1>1, <1>2, <1>5
  <2>4. TypeFlags'
    BY <1>10, Zenon DEF LineArrive, IndInv, TypeOK, TypeFlags
  <2>5. TypeDpc'
    BY DEF LineArrive, IndInv, TypeOK, TypeDpc
  <2>6. TypeDevice'
    BY <2>1, <2>2, <2>3 DEF LineArrive, IndInv, TypeOK, TypeDevice
  <2> QED BY <2>4, <2>5, <2>6
          DEF LineArrive, IndInv, TypeOK, TypeRing, TypeUser, TypeIoctl
<1>7. iframe'.pc = iframe.pc /\ iframe'.i = iframe.i
  BY DEF LineArrive, IndInv, TypeOK, TypeDpc
<1>8. DescInv'
  <2>1. \A j \in 1..Len(bcfifo') : bcfifo'[j] >= StatusBytes
    <3>1. \A j \in 1..Len(bcfifo) : bcfifo[j] >= StatusBytes
      BY DEF IndInv, DescInv
    <3>2. CASE bcfifo' = Append(bcfifo, size)
      BY <1>3, <1>11, <3>1, <3>2, AppendProperties DEF StatusBytes
    <3> QED BY <1>12, <3>1, <3>2
  <2> QED BY <1>7, <2>1 DEF LineArrive, IndInv, DescInv
<1>9. LockOwnership'
  BY <1>7 DEF LineArrive, IndInv, LockOwnership
<1> QED BY <1>6, <1>8, <1>9, RingKept, CopyKept DEF IndInv, LineArrive

\* A frame lost while the receiver is disabled preserves the invariant.
LEMMA LineLostInv ==
  ASSUME IndInv, LineLost
  PROVE  IndInv'
<1> USE DEF ring, dpcs, user, ioctl
<1>1. TypeDevice'
  BY DEF LineLost, IndInv, TypeOK, TypeDevice
<1>2. TypeOK'
  BY <1>1 DEF LineLost, IndInv, TypeOK, TypeFlags, TypeRing, TypeDpc, TypeUser, TypeIoctl
<1>3. LockOwnership' /\ DescInv'
  BY DEF LineLost, IndInv, LockOwnership, DescInv
<1> QED BY <1>2, <1>3, RingKept, CopyKept DEF LineLost, IndInv

\* The receive clock stopping or starting preserves the invariant.
LEMMA ClockChangeInv ==
  ASSUME IndInv, ClockChange
  PROVE  IndInv'
<1> USE DEF ring, dpcs, user, ioctl
<1>1. TypeDevice'
  BY DEF ClockChange, IndInv, TypeOK, TypeDevice
<1>2. TypeOK'
  BY <1>1 DEF ClockChange, IndInv, TypeOK, TypeFlags, TypeRing, TypeDpc, TypeUser, TypeIoctl
<1>3. LockOwnership' /\ DescInv'
  BY DEF ClockChange, IndInv, LockOwnership, DescInv
<1> QED BY <1>2, <1>3, RingKept, CopyKept DEF ClockChange, IndInv

\* fscc_isr preserves the invariant.
LEMMA IsrInv ==
  ASSUME IndInv, fscc_isr
  PROVE  IndInv'
<1> USE DEF device, ring, dpcs, user, ioctl
<1>1. TypeFlags'
  BY Zenon DEF fscc_isr, IndInv, TypeOK, TypeFlags
<1>2. TypeOK'
  BY <1>1 DEF fscc_isr, IndInv, TypeOK, TypeDevice, TypeRing, TypeDpc, TypeUser, TypeIoctl
<1>3. LockOwnership' /\ DescInv'
  BY DEF fscc_isr, IndInv, LockOwnership, DescInv
<1> QED BY <1>2, <1>3, RingKept, CopyKept DEF fscc_isr, IndInv

\* timer_handler preserves the invariant.
LEMMA TimerInv ==
  ASSUME IndInv, timer_handler
  PROVE  IndInv'
<1> USE DEF device, ring, dpcs, user, ioctl
<1>1. TypeFlags'
  BY Zenon DEF timer_handler, IndInv, TypeOK, TypeFlags
<1>2. TypeOK'
  BY <1>1 DEF timer_handler, IndInv, TypeOK, TypeDevice, TypeRing, TypeDpc, TypeUser, TypeIoctl
<1>3. LockOwnership' /\ DescInv'
  BY DEF timer_handler, IndInv, LockOwnership, DescInv
<1> QED BY <1>2, <1>3, RingKept, CopyKept DEF timer_handler, IndInv

\* iframe_worker taking the lock preserves the invariant.
LEMMA IframeStartInv ==
  ASSUME IndInv, IframeStart
  PROVE  IndInv'
<1> USE DEF device, ring, dpcs, user, ioctl
<1>1. TypeFlags'
  BY Zenon DEF IframeStart, IndInv, TypeOK, TypeFlags
<1>2. TypeDpc'
  BY RingAssumption DEF IframeStart, TypeDpc
<1>3. TypeOK'
  BY <1>1, <1>2 DEF IframeStart, IndInv, TypeOK, TypeDevice, TypeRing, TypeUser, TypeIoctl
<1>4. LockOwnership'
  BY ReadAssumption DEF IframeStart, IndInv, LockOwnership
<1>5. DescInv'
  BY DEF IframeStart, IndInv, DescInv
<1> QED BY <1>3, <1>4, <1>5, RingKept, CopyKept DEF IframeStart, IndInv

\* The top of the loop of fscc_fifo_read_data preserves the invariant.
LEMMA FifoSampleInv ==
  ASSUME IndInv, FifoSample
  PROVE  IndInv'
<1> USE DEF device, ring, dpcs, user, ioctl
<1>1. bcfifo \in Seq(Nat) /\ rx_frame_size \in Nat
  BY DEF IndInv, TypeOK, TypeDevice, TypeRing
<1>2. /\ bcfifo' \in Seq(Nat) /\ rx_frame_size' \in Nat
      /\ \A j \in 1..Len(bcfifo') : bcfifo'[j] >= StatusBytes
      /\ rx_frame_size' = 0 \/ rx_frame_size' >= StatusBytes
  <2>1. CASE rx_frame_size = 0 /\ fscc_io_get_RFCNT > 0
    <3>1. bcfifo # <<>> /\ Len(bcfifo) > 0
      BY <1>1, <2>1 DEF fscc_io_get_RFCNT
    <3>2. rx_frame_size' = Head(bcfifo) /\ bcfifo' = Tail(bcfifo)
      BY <2>1 DEF FifoSample
    <3>3. \A j \in 1..Len(bcfifo) : bcfifo[j] >= StatusBytes
      BY DEF IndInv, DescInv
    <3> QED BY <1>1, <3>1, <3>2, <3>3, HeadTailProperties
  <2>2. CASE ~(rx_frame_size = 0 /\ fscc_io_get_RFCNT > 0)
    BY <1>1, <2>2 DEF FifoSample, IndInv, DescInv
  <2> QED BY <2>1, <2>2
<1>3. iframe' = [iframe EXCEPT !.pc = "store", !.pace = 0] /\ iframe.pc = "scan"
  BY DEF FifoSample
<1>4. TypeDpc' /\ iframe'.pc = "store" /\ iframe'.i < RxNum
  <2>1. iframe \in [pc : {"idle", "scan", "store", "exit"}, i : 0..RxNum, pace : Nat]
    BY DEF IndInv, TypeOK, TypeDpc
  <2>2. iframe.i # RxNum
    BY DEF FifoSample, ScanEnds
  <2>3. iframe'.pc = "store" /\ iframe'.i < RxNum
    BY <1>3, <2>1, <2>2, RingAssumption
  <2>4. iframe' \in [pc : {"idle", "scan", "store", "exit"}, i : 0..RxNum, pace : Nat]
    BY <1>3, <2>1
  <2>5. board_rx_spinlock' \in {"free", "iframe"} \cup Readers
    BY DEF FifoSample, IndInv, TypeOK, TypeDpc
  <2> QED BY <2>3, <2>4, <2>5 DEF TypeDpc
<1>5. TypeOK'
  BY <1>2, <1>4 DEF FifoSample, IndInv, TypeOK, TypeDevice, TypeFlags, TypeRing, TypeUser, TypeIoctl
<1>6. LockOwnership'
  BY <1>3, <1>4 DEF FifoSample, IndInv, LockOwnership
<1>7. DescInv'
  BY <1>2, <1>4 DEF FifoSample, ScanEnds, IndInv, DescInv
<1> QED BY <1>5, <1>6, <1>7, RingKept, CopyKept DEF FifoSample, IndInv

\* iframe_worker releasing the lock preserves the invariant.
LEMMA IframeDoneInv ==
  ASSUME IndInv, IframeDone
  PROVE  IndInv'
<1> USE DEF device, ring, dpcs, user, ioctl
<1>1. TypeFlags'
  BY Zenon DEF IframeDone, IndInv, TypeOK, TypeFlags
<1>2. TypeDpc'
  BY RingAssumption DEF IframeDone, TypeDpc
<1>3. TypeOK'
  BY <1>1, <1>2 DEF IframeDone, IndInv, TypeOK, TypeDevice, TypeRing, TypeUser, TypeIoctl
<1>4. LockOwnership'
  BY ReadAssumption DEF IframeDone, IndInv, LockOwnership
<1>5. DescInv'
  BY DEF IframeDone, IndInv, DescInv
<1> QED BY <1>3, <1>4, <1>5, RingKept, CopyKept DEF IframeDone, IndInv

-----------------------------------------------------------------------------
(* The FIFO is moved into the ring.                                        *)

\* What fscc_io_get_RXCNT returns is a number.
LEMMA RxcntType == ASSUME TypeOK PROVE fscc_io_get_RXCNT \in Nat
<1>1. rxfifo \in Seq(Byte)
  BY DEF TypeOK, TypeDevice
<1>2. IsFiniteSet(1..Len(rxfifo))
  BY <1>1, FS_Interval, LenProperties
<1>3. IsFiniteSet({j \in 1..Len(rxfifo) : rxfifo[j] # Pad})
  BY <1>2, FS_Subset
<1> QED BY <1>3, FS_CardinalityType DEF fscc_io_get_RXCNT

\* The FIFO after a read is still a sequence of bytes.
LEMMA RemainderType ==
  ASSUME TypeOK, NEW n \in Nat
  PROVE  FifoRemainder(n) \in Seq(Byte)
<1>1. rxfifo \in Seq(Byte) /\ Len(rxfifo) \in Nat
  BY DEF TypeOK, TypeDevice
<1>2. WordsOf(n) + 1 \in Int /\ WordsOf(n) + 1 >= 1
  BY WordsBound
<1>3. \A i \in (WordsOf(n) + 1)..Len(rxfifo) : rxfifo[i] \in Byte
  BY <1>1, <1>2, ElementOfSeq
<1> QED BY <1>1, <1>2, <1>3, SubSeqProperties DEF FifoRemainder

\* A descriptor that is filled further is a descriptor.
LEMMA StoreType ==
  ASSUME TypeOK, NEW d \in Desc, NEW n \in Nat
  PROVE  StoreInDesc(d, n) \in Desc
<1>1. rxfifo \in Seq(Byte) /\ rx_frame_size \in Nat /\ Now \in Nat
  BY DEF TypeOK, TypeDevice, TypeRing, Now
<1>2. \A j \in 1..n : FifoBytes(n)[j] \in Byte
  BY <1>1, ElementOfSeq DEF FifoBytes, Byte, Pad
<1>3. /\ d.flags \in SUBSET {"FE", "CSTOP"} /\ d.cnt \in Nat /\ d.data_count \in 0..RxSize
      /\ d.timestamp \in Nat /\ d.buffer \in [1..RxSize -> Byte]
  BY DEF Desc
<1>4. [j \in 1..RxSize |-> IF j > d.cnt /\ j <= d.cnt + n
                             THEN FifoBytes(n)[j - d.cnt] ELSE d.buffer[j]]
        \in [1..RxSize -> Byte]
  BY <1>2, <1>3, RingAssumption
<1> QED BY <1>1, <1>3, <1>4, RingAssumption DEF StoreInDesc, Desc

\* Moving FIFO data into the current descriptor preserves the invariant: the
\* window of finished descriptors grows by it exactly when CSTOP is set.
LEMMA FifoStoreInv ==
  ASSUME IndInv, FifoStore
  PROVE  IndInv'
<1> USE DEF device, ring, dpcs, user, ioctl
<1> DEFINE old == rx_descriptors[fifo_rx_desc]
           n   == receive_length
           d   == StoreInDesc(old, n)
<1>1. /\ TypeOK /\ old \in Desc /\ fifo_rx_desc \in Ring /\ user_rx_desc \in Ring
      /\ rx_descriptors \in [Ring -> Desc]
      /\ rx_frame_size \in Nat /\ rx_bytes_in_frame \in Nat
  BY DEF IndInv, TypeOK, TypeRing, Ring
<1>2. "CSTOP" \notin old.flags /\ "FE" \notin old.flags /\ old.cnt <= RxSize /\ iframe.i < RxNum
  BY <1>1 DEF FifoStore, IndInv, DescInv, Ring
<1>3. n \in Nat
  <2>1. RxSize - old.cnt \in Nat
    BY <1>1, <1>2, RingAssumption DEF Desc
  <2>2. fscc_io_get_RXCNT - (fscc_io_get_RXCNT % 4) \in Nat
    BY <1>1, RxcntType
  <2> QED BY <1>1, <2>1, <2>2 DEF receive_length, MinOf
<1>4. d \in Desc
  BY <1>1, <1>3, StoreType
<1>5. /\ rxfifo' = FifoRemainder(n)
      /\ rx_descriptors' = [rx_descriptors EXCEPT ![fifo_rx_desc] = d]
      /\ rx_bytes_in_frame' = IF FrameDone(n) THEN 0 ELSE rx_bytes_in_frame + n
      /\ rx_frame_size' = IF FrameDone(n) THEN 0 ELSE rx_frame_size
      /\ "CSTOP" \in d.flags =>
           /\ fifo_rx_desc' = NextDesc(fifo_rx_desc)
           /\ iframe' = [pc |-> "scan", i |-> iframe.i + 1, pace |-> 0]
      /\ "CSTOP" \notin d.flags =>
           /\ fifo_rx_desc' = fifo_rx_desc
           /\ iframe' = [iframe EXCEPT !.pc = "exit"]
      /\ user_rx_desc' = user_rx_desc
  BY DEF FifoStore
<1>6. /\ "FE" \in d.flags => "CSTOP" \in d.flags /\ d.cnt = rx_frame_size /\ rx_frame_size > 0
      /\ "CSTOP" \notin d.flags => d.cnt <= RxSize /\ d.flags = old.flags
  BY <1>1, <1>2, <1>3, RingAssumption DEF StoreInDesc, FrameDone, Desc
<1> HIDE DEF d, n
<1>7. iframe \in [pc : {"idle", "scan", "store", "exit"}, i : 0..RxNum, pace : Nat]
  BY <1>1 DEF TypeOK, TypeDpc
<1>8. TypeDpc' /\ iframe'.pc \in {"scan", "exit"}
  BY <1>1, <1>2, <1>5, <1>7, RingAssumption DEF FifoStore, TypeOK, TypeDpc
<1>9. TypeRing'
  <2>1. rx_descriptors' \in [Ring -> Desc]
    BY <1>1, <1>4, <1>5
  <2>2. fifo_rx_desc' \in Ring
    BY <1>1, <1>5, PosOfNext
  <2>3. rx_bytes_in_frame' \in Nat /\ rx_frame_size' \in Nat
    BY <1>1, <1>3, <1>5
  <2> QED BY <1>1, <1>5, <2>1, <2>2, <2>3 DEF TypeRing, Ring
<1>10. TypeDevice'
  <2>1. rxfifo' \in Seq(Byte)
    BY <1>1, <1>3, <1>5, RemainderType
  <2> QED BY <1>1, <2>1 DEF FifoStore, TypeOK, TypeDevice
<1>11. TypeOK'
  BY <1>1, <1>8, <1>9, <1>10 DEF FifoStore, TypeOK, TypeFlags, TypeUser, TypeIoctl
<1>12. LockOwnership'
  BY <1>8 DEF FifoStore, IndInv, LockOwnership
<1>13. DescInv'
  <2>1. rx_frame_size' = 0 \/ rx_frame_size' >= StatusBytes
    BY <1>5 DEF IndInv, DescInv
  <2>2. ASSUME NEW i \in Ring
        PROVE  LET x == rx_descriptors'[i]
               IN /\ "FE" \in x.flags => "CSTOP" \in x.flags /\ x.cnt >= StatusBytes
                  /\ "CSTOP" \notin x.flags => x.cnt <= RxSize
    <3>1. CASE i = fifo_rx_desc
      <4>1. rx_descriptors'[i] = d
        BY <1>1, <1>5, <3>1
      <4>2. "FE" \in d.flags => d.cnt >= StatusBytes
        BY <1>6 DEF IndInv, DescInv
      <4> QED BY <1>6, <4>1, <4>2
    <3>2. CASE i # fifo_rx_desc
      <4>1. rx_descriptors'[i] = rx_descriptors[i]
        BY <1>1, <1>5, <3>2
      <4> QED BY <4>1 DEF IndInv, DescInv, Ring
    <3> QED BY <3>1, <3>2
  <2> QED BY <1>8, <2>1, <2>2 DEF FifoStore, IndInv, DescInv, Ring
<1>14. RingOwnership'
  <2>1. PICK w \in 0..RxNum : Window(rx_descriptors, user_rx_desc, fifo_rx_desc, w)
    BY OwnershipIsWindow DEF IndInv
  <2>2. ~Finished(old)
    BY <1>2 DEF Finished
  <2> HIDE DEF old
  <2>3. CASE "CSTOP" \in d.flags
    <3>1. Finished(d)
      BY <2>3 DEF Finished
    <3>2. /\ w + 1 \in 0..RxNum
          /\ Window([rx_descriptors EXCEPT ![fifo_rx_desc] = d], user_rx_desc,
                    NextDesc(fifo_rx_desc), w + 1)
      BY <1>1, <2>1, <2>2, <3>1, WindowGrows DEF old
    <3>3. Window(rx_descriptors', user_rx_desc', fifo_rx_desc', w + 1)
      BY <1>5, <2>3, <3>2
    <3> QED BY <3>2, <3>3 DEF RingOwnership, Window, Ahead, Ring
  <2>4. CASE "CSTOP" \notin d.flags
    <3>1. ~Finished(d)
      BY <1>2, <1>6, <2>4 DEF Finished
    <3>2. Window([rx_descriptors EXCEPT ![fifo_rx_desc] = d], user_rx_desc, fifo_rx_desc, w)
      BY <1>1, <2>1, <2>2, <3>1, WindowStays DEF old
    <3>3. Window(rx_descriptors', user_rx_desc', fifo_rx_desc', w)
      BY <1>5, <2>4, <3>2
    <3> QED BY <2>1, <3>3 DEF RingOwnership, Window, Ahead, Ring
  <2> QED BY <2>3, <2>4
<1>15. CopyInv'
  <2>1. board_rx_spinlock = "iframe"
    BY DEF FifoStore, IndInv, LockOwnership
  <2>2. \A r \in Readers : reader[r].pc \notin {"copy", "next", "stream", "done"}
    BY <2>1, ReadAssumption DEF IndInv, LockOwnership
  <2> QED BY <2>2 DEF FifoStore, IndInv, CopyInv
<1> QED BY <1>11, <1>12, <1>13, <1>14, <1>15 DEF IndInv

-----------------------------------------------------------------------------
(* Requests and the readers.                                               *)

\* FsccEvtIoRead preserves the invariant.
LEMMA EvtIoReadInv ==
  ASSUME IndInv, NEW len \in ReadLens, FsccEvtIoRead(len)
  PROVE  IndInv'
<1> USE DEF device, ring, dpcs, user, ioctl
<1>1. len \in Nat
  BY ReadAssumption
<1>2. read_queue2 \in Seq(Nat) /\ issued \in Nat
  BY DEF IndInv, TypeOK, TypeUser
<1>3. read_queue2' = read_queue2 \/ read_queue2' = Append(read_queue2, len)
  BY DEF FsccEvtIoRead
<1>4. read_queue2' \in Seq(Nat)
  BY <1>1, <1>2, <1>3, AppendProperties
<1>5. TypeUser'
  BY <1>2, <1>4 DEF FsccEvtIoRead, IndInv, TypeOK, TypeUser
<1>6. TypeFlags'
  BY Zenon DEF FsccEvtIoRead, IndInv, TypeOK, TypeFlags
<1>7. TypeOK'
  BY <1>5, <1>6 DEF FsccEvtIoRead, IndInv, TypeOK, TypeDevice, TypeRing, TypeDpc, TypeIoctl
<1>8. LockOwnership' /\ DescInv'
  BY DEF FsccEvtIoRead, IndInv, LockOwnership, DescInv
<1> QED BY <1>7, <1>8, RingKept, CopyKept DEF FsccEvtIoRead, IndInv

\* Only reader r's state and what is not in the invariant changes.
LEMMA ReaderMoves ==
  ASSUME IndInv, NEW r \in Readers, NEW x \in ReaderState,
         reader' = [reader EXCEPT ![r] = x],
         UNCHANGED <<ring, line, rxfifo, bcfifo, clock, iframe, settings, purge, purged>>,
         read_queue2' \in Seq(Nat), issued' = issued, TypeFlags',
         board_rx_spinlock' \in {"free", "iframe"} \cup Readers,
         board_rx_spinlock' = "iframe" <=> board_rx_spinlock = "iframe",
         board_rx_spinlock' = r <=> x.pc \in {"copy", "next", "stream", "done"},
         \A q \in Readers \ {r} : board_rx_spinlock' = q <=> board_rx_spinlock = q,
         x.pc = "copy" =>
           /\ x.i < RxNum
           /\ \E k \in 0..(RxNum - 1) :
                FrameEndsAt(k) /\ rx_descriptors[Ahead(k)].cnt - x.filled >= x.bytes,
         x.pc = "stream" => x.out_length <= x.len,
         x.pc \in {"idle", "retrieve", "enter"} => x.i = 0 /\ x.out_length = 0
  PROVE  IndInv'
<1> USE DEF ring
<1>1. reader \in [Readers -> ReaderState]
  BY DEF IndInv, TypeOK, TypeUser
<1>2. TypeOK'
  <2>1. TypeUser'
    BY <1>1 DEF IndInv, TypeOK, TypeUser
  <2>2. TypeDpc'
    BY DEF IndInv, TypeOK, TypeDpc
  <2> QED BY <2>1, <2>2 DEF IndInv, TypeOK, TypeDevice, TypeRing, TypeIoctl
<1>3. LockOwnership'
  <2>1. ASSUME NEW q \in Readers
        PROVE  board_rx_spinlock' = q <=>
                 reader'[q].pc \in {"copy", "next", "stream", "done"}
    BY <1>1 DEF IndInv, LockOwnership
  <2> QED BY <2>1 DEF IndInv, LockOwnership
<1>4. DescInv'
  BY DEF IndInv, DescInv
<1>5. CopyInv'
  <2>1. \A k \in 0..(RxNum - 1) : (FrameEndsAt(k)' <=> FrameEndsAt(k)) /\ Ahead(k)' = Ahead(k)
    BY DEF FrameEndsAt, Ahead
  <2>2. reader'[r] = x /\ \A q \in Readers \ {r} : reader'[q] = reader[q]
    BY <1>1
  <2> QED BY <2>1, <2>2 DEF IndInv, CopyInv
<1> QED BY <1>2, <1>3, <1>4, <1>5, RingKept DEF IndInv

\* What is known of a reader, and of the frame it would read.
LEMMA ReaderFacts ==
  ASSUME IndInv, NEW r \in Readers
  PROVE  /\ reader[r] \in ReaderState /\ r # "free" /\ r # "iframe"
         /\ board_rx_spinlock \in {"free", "iframe"} \cup Readers
         /\ read_queue2 \in Seq(Nat)
         /\ IdleReader \in ReaderState
  BY ReadAssumption, RingAssumption
     DEF IndInv, TypeOK, TypeUser, TypeDpc, IdleReader, ReaderState

\* The size of the frame at the front is a number that counts the status bytes.
LEMMA FrameBytesType ==
  ASSUME IndInv, frame_ready
  PROVE  /\ frame_bytes \in Nat /\ frame_bytes >= StatusBytes /\ ValidData(frame_bytes) \in Nat
         /\ \E k \in 0..(RxNum - 1) :
              FrameEndsAt(k) /\ rx_descriptors[Ahead(k)].cnt - 0 >= frame_bytes
<1>1. PICK k \in 0..(RxNum - 1) : FrameEndsAt(k) /\ frame_bytes = rx_descriptors[Ahead(k)].cnt
  BY FrameBytes
<1>2. Ahead(k) \in 0..(RxNum - 1)
  BY PosType, RingFacts DEF Ahead, Ring, IndInv, TypeOK, TypeRing
<1>3. rx_descriptors[Ahead(k)] \in Desc
  BY <1>2 DEF IndInv, TypeOK, TypeRing
<1>4. frame_bytes \in Nat /\ frame_bytes >= StatusBytes
  BY <1>1, <1>2, <1>3 DEF FrameEndsAt, Complete, IndInv, DescInv, Desc
<1>5. ValidData(frame_bytes) \in Nat
  BY <1>4 DEF ValidData, StatusBytes
<1> QED BY <1>1, <1>4, <1>5

\* The first half of FsccProcessRead, under the lock, preserves the invariant.
LEMMA PeekInv ==
  ASSUME IndInv, NEW r \in Readers, ProcessReadPeek(r)
  PROVE  IndInv'
<1> USE DEF device, ring, dpcs, user, ioctl
<1> DEFINE x == [reader[r] EXCEPT !.pc = IF ReadWorthwhile THEN "retrieve" ELSE "idle"]
<1>1. reader[r] \in ReaderState /\ reader[r].pc = "idle"
  BY ReaderFacts DEF ProcessReadPeek
<1>2. x \in ReaderState /\ x.pc \in {"retrieve", "idle"} /\ x.i = 0 /\ x.out_length = 0
  BY <1>1 DEF ReaderState, IndInv, CopyInv
<1>3. reader' = [reader EXCEPT ![r] = x]
  BY DEF ProcessReadPeek
<1>4. TypeFlags'
  BY Zenon DEF ProcessReadPeek, IndInv, TypeOK, TypeFlags
<1> HIDE DEF x
<1>5. board_rx_spinlock' = board_rx_spinlock /\ board_rx_spinlock = "free"
  BY DEF ProcessReadPeek
<1> QED BY <1>2, <1>3, <1>4, <1>5, ReaderFacts, ReaderMoves DEF ProcessReadPeek

\* Taking a request from the queue preserves the invariant.
LEMMA RetrieveInv ==
  ASSUME IndInv, NEW r \in Readers, RetrieveNextRequest(r)
  PROVE  IndInv'
<1> USE DEF device, ring, dpcs, user, ioctl
<1>1. reader[r] \in ReaderState /\ reader[r].pc = "retrieve" /\ r # "free" /\ r # "iframe"
  BY ReaderFacts DEF RetrieveNextRequest
<1>2. board_rx_spinlock # r /\ board_rx_spinlock' = board_rx_spinlock
  BY <1>1 DEF IndInv, LockOwnership, RetrieveNextRequest
<1>3. TypeFlags'
  BY Zenon DEF RetrieveNextRequest, IndInv, TypeOK, TypeFlags
<1>4. CASE read_queue2 = <<>>
  <2>1. reader' = [reader EXCEPT ![r] = IdleReader] /\ read_queue2' = read_queue2
    BY <1>4 DEF RetrieveNextRequest
  <2>2. IdleReader.pc = "idle" /\ IdleReader.i = 0 /\ IdleReader.out_length = 0
    BY DEF IdleReader
  <2> QED BY <1>2, <1>3, <2>1, <2>2, ReaderFacts, ReaderMoves DEF RetrieveNextRequest
<1>5. CASE read_queue2 # <<>>
  <2> DEFINE x == [reader[r] EXCEPT !.pc = "enter", !.len = Head(read_queue2)]
  <2>1. reader' = [reader EXCEPT ![r] = x] /\ read_queue2' = Tail(read_queue2)
    BY <1>5 DEF RetrieveNextRequest
  <2>2. Head(read_queue2) \in Nat /\ Tail(read_queue2) \in Seq(Nat)
    BY <1>5, ReaderFacts, HeadTailProperties
  <2>3. x \in ReaderState /\ x.pc = "enter" /\ x.i = 0 /\ x.out_length = 0
    BY <1>1, <2>2 DEF ReaderState, IndInv, CopyInv
  <2> HIDE DEF x
  <2> QED BY <1>2, <1>3, <2>1, <2>2, <2>3, ReaderFacts, ReaderMoves DEF RetrieveNextRequest
<1> QED BY <1>4, <1>5

\* Refusing a request in fscc_user_read_frame preserves the invariant.
LEMMA RefuseInv ==
  ASSUME IndInv, NEW r \in Readers, ReadFrameRefuse(r)
  PROVE  IndInv'
<1> USE DEF device, ring, dpcs, user, ioctl
<1>1. board_rx_spinlock = "free" /\ board_rx_spinlock' = "free"
  BY DEF ReadFrameRefuse
<1>2. TypeFlags'
  BY Zenon DEF ReadFrameRefuse, IndInv, TypeOK, TypeFlags
<1>3. IdleReader.pc = "idle" /\ IdleReader.i = 0 /\ IdleReader.out_length = 0
  BY DEF IdleReader
<1> QED BY <1>1, <1>2, <1>3, ReaderFacts, ReaderMoves DEF ReadFrameRefuse

\* A reader that starts on a frame satisfies the copy invariant.
LEMMA StartFrameFacts ==
  ASSUME IndInv, frame_ready, NEW rd \in ReaderState
  PROVE  /\ StartFrame(rd) \in ReaderState /\ StartFrame(rd).pc = "copy"
         /\ StartFrame(rd).i = rd.i
         /\ \E k \in 0..(RxNum - 1) :
              /\ FrameEndsAt(k)
              /\ rx_descriptors[Ahead(k)].cnt - StartFrame(rd).filled >= StartFrame(rd).bytes
<1>1. /\ StartFrame(rd) \in ReaderState /\ StartFrame(rd).pc = "copy"
      /\ StartFrame(rd).i = rd.i /\ StartFrame(rd).filled = 0
      /\ StartFrame(rd).bytes = frame_bytes
  BY FrameBytesType DEF StartFrame, ReaderState
<1> QED BY <1>1, FrameBytesType

\* Entering the copy loop of fscc_user_read_frame preserves the invariant.
LEMMA EnterInv ==
  ASSUME IndInv, NEW r \in Readers, ReadFrameEnter(r)
  PROVE  IndInv'
<1> USE DEF device, ring, dpcs, user, ioctl
<1> DEFINE x == StartFrame(reader[r])
<1>1. /\ board_rx_spinlock = "free" /\ board_rx_spinlock' = r /\ frame_ready
      /\ reader' = [reader EXCEPT ![r] = x] /\ read_queue2' = read_queue2
  BY DEF ReadFrameEnter
<1>2. TypeFlags'
  BY Zenon DEF ReadFrameEnter, IndInv, TypeOK, TypeFlags
<1>3. reader[r] \in ReaderState /\ reader[r].i = 0 /\ r # "iframe" /\ r # "free"
  BY ReaderFacts DEF ReadFrameEnter, IndInv, CopyInv
<1>4. /\ x \in ReaderState /\ x.pc = "copy" /\ x.i = 0
      /\ \E k \in 0..(RxNum - 1) :
           FrameEndsAt(k) /\ rx_descriptors[Ahead(k)].cnt - x.filled >= x.bytes
  BY <1>1, <1>3, StartFrameFacts
<1>5. x.i < RxNum
  BY <1>4, RingAssumption
<1> HIDE DEF x
<1>6. UNCHANGED <<ring, line, rxfifo, bcfifo, clock, iframe, settings, purge, purged, issued>>
  BY DEF ReadFrameEnter
<1> QED BY <1>1, <1>2, <1>3, <1>4, <1>5, <1>6, ReaderFacts, ReaderMoves

\* Going on to another frame (rx_multiple), or stopping, preserves the invariant.
LEMMA NextFrameInv ==
  ASSUME IndInv, NEW r \in Readers, ReadNextFrame(r)
  PROVE  IndInv'
<1> USE DEF device, ring, dpcs, user, ioctl
<1>1. /\ UNCHANGED <<ring, line, rxfifo, bcfifo, clock, iframe, settings, purge, purged, issued>>
      /\ UNCHANGED <<board_rx_spinlock, read_queue2>>
  BY DEF ReadNextFrame
<1>2. TypeFlags'
  BY Zenon DEF ReadNextFrame, IndInv, TypeOK, TypeFlags
<1>3. /\ reader[r] \in ReaderState /\ reader[r].pc = "next" /\ r # "iframe" /\ r # "free"
      /\ board_rx_spinlock = r
  BY ReaderFacts DEF ReadNextFrame, IndInv, LockOwnership
<1>4. CASE frame_ready /\ reader[r].i < RxNum /\ reader' = [reader EXCEPT ![r] = StartFrame(reader[r])]
  <2> DEFINE x == StartFrame(reader[r])
  <2>1. /\ x \in ReaderState /\ x.pc = "copy" /\ x.i < RxNum
        /\ \E k \in 0..(RxNum - 1) :
             FrameEndsAt(k) /\ rx_descriptors[Ahead(k)].cnt - x.filled >= x.bytes
    BY <1>3, <1>4, StartFrameFacts
  <2>2. reader' = [reader EXCEPT ![r] = x]
    BY <1>4
  <2> HIDE DEF x
  <2> QED BY <1>1, <1>2, <1>3, <2>1, <2>2, ReaderFacts, ReaderMoves
<1>5. CASE reader' = [reader EXCEPT ![r] = [reader[r] EXCEPT !.pc = "done"]]
  <2> DEFINE x == [reader[r] EXCEPT !.pc = "done"]
  <2>1. x \in ReaderState /\ x.pc = "done"
    BY <1>3 DEF ReaderState
  <2>2. reader' = [reader EXCEPT ![r] = x]
    BY <1>5
  <2> HIDE DEF x
  <2> QED BY <1>1, <1>2, <1>3, <2>1, <2>2, ReaderFacts, ReaderMoves
<1> QED BY <1>4, <1>5 DEF ReadNextFrame

\* Entering fscc_user_read_stream preserves the invariant.
LEMMA StreamEnterInv ==
  ASSUME IndInv, NEW r \in Readers, ReadStreamEnter(r)
  PROVE  IndInv'
<1> USE DEF device, ring, dpcs, user, ioctl
<1> DEFINE x == [reader[r] EXCEPT !.pc = "stream"]
<1>1. /\ UNCHANGED <<ring, line, rxfifo, bcfifo, clock, iframe, settings, purge, purged, issued>>
      /\ board_rx_spinlock = "free" /\ board_rx_spinlock' = r
      /\ reader' = [reader EXCEPT ![r] = x] /\ read_queue2' = read_queue2
  BY DEF ReadStreamEnter
<1>2. TypeFlags'
  BY Zenon DEF ReadStreamEnter, IndInv, TypeOK, TypeFlags
<1>3. reader[r] \in ReaderState /\ reader[r].out_length = 0 /\ r # "iframe" /\ r # "free"
  BY ReaderFacts DEF ReadStreamEnter, IndInv, CopyInv
<1>4. x \in ReaderState /\ x.pc = "stream" /\ x.out_length <= x.len
  BY <1>3 DEF ReaderState
<1> HIDE DEF x
<1> QED BY <1>1, <1>2, <1>3, <1>4, ReaderFacts, ReaderMoves

\* Releasing the lock and completing the request preserves the invariant.
LEMMA CompleteInv ==
  ASSUME IndInv, NEW r \in Readers, ReadComplete(r)
  PROVE  IndInv'
<1> USE DEF device, ring, dpcs, user, ioctl
<1>1. /\ UNCHANGED <<ring, line, rxfifo, bcfifo, clock, iframe, settings, purge, purged, issued>>
      /\ board_rx_spinlock' = "free"
      /\ reader' = [reader EXCEPT ![r] = IdleReader] /\ read_queue2' = read_queue2
  BY DEF ReadComplete
<1>2. TypeFlags'
  BY Zenon DEF ReadComplete, IndInv, TypeOK, TypeFlags
<1>3. board_rx_spinlock = r /\ r # "iframe" /\ r # "free"
  BY ReaderFacts DEF ReadComplete, IndInv, LockOwnership
<1>4. \A q \in Readers \ {r} : q # "free" /\ q # r
  BY ReadAssumption
<1>5. IdleReader.pc = "idle" /\ IdleReader.i = 0 /\ IdleReader.out_length = 0
  BY DEF IdleReader
<1> QED BY <1>1, <1>2, <1>3, <1>4, <1>5, ReaderFacts, ReaderMoves

-----------------------------------------------------------------------------
(* The ring is copied to the user.                                         *)

\* The fields of a reader's locals and of a descriptor.
LEMMA ReaderFields ==
  ASSUME NEW x \in ReaderState
  PROVE  /\ x.bytes \in Nat /\ x.valid \in Nat /\ x.filled \in Nat /\ x.i \in 0..RxNum
         /\ x.out \in Seq(Byte) /\ x.out_length \in Nat /\ x.len \in Nat
BY DEF ReaderState

\* The fields of a descriptor.
LEMMA DescFields ==
  ASSUME NEW d \in Desc
  PROVE  d.cnt \in Nat /\ d.data_count \in 0..RxSize /\ d.data_count \in Nat /\ d.timestamp \in Nat
BY RingAssumption DEF Desc

\* What is copied out of a descriptor is a sequence of bytes.
LEMMA CopyOutType ==
  ASSUME NEW d \in Desc, NEW n \in Nat
  PROVE  CopyOut(d, n) \in Seq(Byte)
<1>1. CopyOut(d, n) \in [1..n -> Byte]
  BY RingAssumption DEF CopyOut, Desc, Byte, Pad
<1> QED BY <1>1, FunctionIsSeq

\* Releasing, consuming and resetting give descriptors; the first is not finished.
LEMMA ReleaseType ==
  ASSUME NEW d \in Desc
  PROVE  /\ ReleaseDesc(d) \in Desc /\ ReleaseDesc(d).flags = {} /\ ReleaseDesc(d).cnt = 0
         /\ [ReleaseDesc(d) EXCEPT !.data_count = RxSize] \in Desc
         /\ [ReleaseDesc(d) EXCEPT !.data_count = RxSize].flags = {}
         /\ [ReleaseDesc(d) EXCEPT !.data_count = RxSize].cnt = 0
<1>1. CleanDesc(d) \in Desc /\ CleanDesc(d).flags = {} /\ CleanDesc(d).cnt = 0
  BY DEF CleanDesc, Desc
<1>2. ReleaseDesc(d) \in Desc /\ ReleaseDesc(d).flags = {} /\ ReleaseDesc(d).cnt = 0
  BY <1>1 DEF ReleaseDesc, Empty, Desc
<1>3. RxSize \in 0..RxSize
  BY RingAssumption
<1> QED BY <1>2, <1>3 DEF Desc

\* A descriptor read in part is still a finished descriptor.
LEMMA ConsumeType ==
  ASSUME NEW d \in Desc, NEW n \in 0..d.data_count
  PROVE  /\ ConsumeDesc(d, n) \in Desc /\ ConsumeDesc(d, n).flags = d.flags
         /\ ConsumeDesc(d, n).cnt = d.cnt
<1>1. /\ d.data_count \in 0..RxSize /\ d.buffer \in [1..RxSize -> Byte] /\ d.flags \in SUBSET {"FE", "CSTOP"}
      /\ d.cnt \in Nat /\ d.timestamp \in Nat
  BY DEF Desc
<1>2. [j \in 1..RxSize |-> IF j <= d.data_count - n THEN d.buffer[j + n] ELSE d.buffer[j]]
        \in [1..RxSize -> Byte]
  <2>1. ASSUME NEW j \in 1..RxSize, j <= d.data_count - n
        PROVE  j + n \in 1..RxSize
    BY <1>1, <2>1, RingAssumption
  <2> QED BY <1>1, <2>1
<1>3. d.data_count - n \in 0..RxSize
  BY <1>1, RingAssumption
<1> DEFINE b == [j \in 1..RxSize |-> IF j <= d.data_count - n THEN d.buffer[j + n]
                                                              ELSE d.buffer[j]]
<1>4. ConsumeDesc(d, n) = [d EXCEPT !.buffer = b, !.data_count = d.data_count - n]
  BY DEF ConsumeDesc
<1>5. b \in [1..RxSize -> Byte]
  BY <1>2
<1> HIDE DEF b
<1> QED BY <1>3, <1>4, <1>5 DEF Desc

\* The readers other than the lock's holder are not copying.
LEMMA OthersIdle ==
  ASSUME IndInv, NEW r \in Readers, board_rx_spinlock = r
  PROVE  /\ \A q \in Readers \ {r} : reader[q].pc \notin {"copy", "next", "stream", "done"}
         /\ iframe.pc = "idle"
BY ReadAssumption DEF IndInv, LockOwnership

\* A step of the lock's holder that changes one descriptor at the user's position.
LEMMA HolderMoves ==
  ASSUME IndInv, NEW r \in Readers, board_rx_spinlock = r,
         NEW x \in ReaderState, NEW d \in Desc,
         reader' = [reader EXCEPT ![r] = x],
         rx_descriptors' = [rx_descriptors EXCEPT ![user_rx_desc] = d],
         "FE" \in d.flags => "CSTOP" \in d.flags /\ d.cnt >= StatusBytes,
         "CSTOP" \notin d.flags => d.cnt <= RxSize,
         user_rx_desc' \in Ring, RingOwnership', TypeFlags',
         UNCHANGED <<fifo_rx_desc, rx_bytes_in_frame, rx_frame_size, line, rxfifo, bcfifo, clock,
                     iframe, settings, purge, purged, read_queue2, issued, board_rx_spinlock>>,
         x.pc \in {"copy", "next", "stream", "done"},
         x.pc = "copy" =>
           /\ x.i < RxNum
           /\ \E k \in Ring :
                /\ EndsAt(rx_descriptors', user_rx_desc', k)
                /\ rx_descriptors'[RingPos(user_rx_desc', k)].cnt - x.filled >= x.bytes,
         x.pc = "stream" => x.out_length <= x.len
  PROVE  IndInv'
<1>1. /\ reader \in [Readers -> ReaderState] /\ user_rx_desc \in Ring
      /\ rx_descriptors \in [Ring -> Desc]
  BY DEF IndInv, TypeOK, TypeUser, TypeRing, Ring
<1>2. reader'[r] = x /\ \A q \in Readers \ {r} : reader'[q] = reader[q]
  BY <1>1
<1>3. TypeOK'
  <2>1. TypeUser'
    BY <1>1 DEF IndInv, TypeOK, TypeUser
  <2>2. TypeRing'
    BY <1>1 DEF IndInv, TypeOK, TypeRing, Ring
  <2> QED BY <2>1, <2>2 DEF IndInv, TypeOK, TypeDevice, TypeDpc, TypeIoctl
<1>4. LockOwnership'
  BY <1>2, OthersIdle, ReadAssumption DEF IndInv, LockOwnership
<1>5. DescInv'
  <2>1. ASSUME NEW i \in Ring
        PROVE  LET y == rx_descriptors'[i]
               IN /\ "FE" \in y.flags => "CSTOP" \in y.flags /\ y.cnt >= StatusBytes
                  /\ "CSTOP" \notin y.flags => y.cnt <= RxSize
    BY <1>1 DEF IndInv, DescInv, Ring
  <2>2. iframe'.pc # "store"
    BY OthersIdle
  <2> QED BY <2>1, <2>2 DEF IndInv, DescInv, Ring
<1>6. CopyInv'
  <2>1. ASSUME NEW k \in Ring
        PROVE  FrameEndsAt(k)' <=> EndsAt(rx_descriptors', user_rx_desc', k)
    BY DEF FrameEndsAt, EndsAt, Ahead
  <2>2. \A k \in Ring : Ahead(k)' = RingPos(user_rx_desc', k)
    BY DEF Ahead
  <2>3. x.pc = "copy" => \E k \in Ring :
           FrameEndsAt(k)' /\ rx_descriptors'[Ahead(k)'].cnt - x.filled >= x.bytes
    BY <2>1, <2>2
  <2>4. ASSUME NEW q \in Readers \ {r}
        PROVE  /\ reader'[q].pc \notin {"copy", "stream"}
               /\ reader'[q].pc \in {"idle", "retrieve", "enter"} =>
                    reader'[q].i = 0 /\ reader'[q].out_length = 0
    BY <1>2, OthersIdle DEF IndInv, CopyInv
  <2> QED BY <1>2, <2>3, <2>4 DEF CopyInv, Ring
<1> QED BY <1>3, <1>4, <1>5, <1>6 DEF IndInv

\* One iteration of the copy loop of fscc_user_read_frame preserves the invariant:
\* a descriptor is released only from the front of the window.
LEMMA ReadFrameDescInv ==
  ASSUME IndInv, NEW r \in Readers, ReadFrameDesc(r)
  PROVE  IndInv'
<1> USE DEF device, ring, dpcs, user, ioctl
<1> DEFINE rd      == reader[r]
           d       == rx_descriptors[user_rx_desc]
           planned == planned_move_size(d, rd.filled)
           real    == MinOf(planned, rd.valid)
           left    == IF planned > rd.bytes THEN 0 ELSE rd.bytes - planned
           stamp   == left = 0 /\ settings.append_timestamp
           time    == IF d.timestamp = Empty THEN Now ELSE d.timestamp
           tail    == IF stamp THEN << <<time, 0>> >> ELSE <<>>
           extra   == IF stamp THEN TimestampSize ELSE 0
           out     == (rd.out \o CopyOut(d, real)) \o tail
           pc      == IF left = 0 THEN "next" ELSE IF rd.i + 1 = RxNum THEN "done" ELSE "copy"
           x       == [rd EXCEPT !.pc = pc, !.i = rd.i + 1, !.bytes = left,
                                 !.valid = rd.valid - real, !.filled = rd.filled + real,
                                 !.out = out, !.out_length = rd.out_length + real + extra]
<1>1. /\ rd \in ReaderState /\ rd.pc = "copy" /\ board_rx_spinlock = r
      /\ user_rx_desc \in Ring /\ fifo_rx_desc \in Ring
      /\ rx_descriptors \in [Ring -> Desc] /\ d \in Desc
      /\ line.f \in Nat
  BY ReaderFacts DEF ReadFrameDesc, IndInv, LockOwnership, TypeOK, TypeRing, TypeDevice, Ring
<1>2. rd.i < RxNum
  BY <1>1 DEF IndInv, CopyInv
<1>3. PICK k \in Ring : /\ EndsAt(rx_descriptors, user_rx_desc, k)
                        /\ rx_descriptors[RingPos(user_rx_desc, k)].cnt - rd.filled >= rd.bytes
  BY <1>1, FrameEndsIsEndsAt DEF IndInv, CopyInv, Ring, Ahead
<1>4. Finished(d) /\ (k # 0 => ~Complete(d)) /\ (k = 0 => Complete(d))
  BY <1>1, <1>3, FirstFinished
<1>5. /\ reader' = [reader EXCEPT ![r] = x]
      /\ rx_descriptors' = [rx_descriptors EXCEPT ![user_rx_desc] = ReleaseDesc(d)]
      /\ user_rx_desc' = NextDesc(user_rx_desc)
      /\ UNCHANGED <<fifo_rx_desc, rx_bytes_in_frame, rx_frame_size, line, rxfifo, bcfifo, clock,
                     iframe, settings, purge, purged, read_queue2, issued, board_rx_spinlock>>
  BY DEF ReadFrameDesc
<1>6. TypeFlags'
  BY Zenon DEF ReadFrameDesc, IndInv, TypeOK, TypeFlags
<1>7. /\ rd.bytes \in Nat /\ rd.valid \in Nat /\ rd.filled \in Nat /\ rd.i \in 0..RxNum
      /\ rd.out \in Seq(Byte) /\ rd.out_length \in Nat /\ d.cnt \in Nat /\ d.data_count \in Nat
      /\ d.timestamp \in Nat
  <2> HIDE DEF rd, d
  <2> QED BY <1>1, ReaderFields, DescFields
<1>8. k = 0 => d.cnt - rd.filled >= rd.bytes
  BY <1>1, <1>3, PosZero
<1> HIDE DEF rd, d
<1>9. planned \in Nat /\ (k = 0 => planned >= rd.bytes)
  BY <1>4, <1>7, <1>8 DEF planned_move_size
<1> HIDE DEF planned
<1>10. real \in Nat /\ real <= planned /\ real <= rd.valid
  BY <1>7, <1>9 DEF MinOf
<1>11. left \in Nat /\ (k = 0 => left = 0) /\ (left # 0 => left = rd.bytes - planned)
  BY <1>7, <1>9
<1> HIDE DEF real, left
<1>12. tail \in Seq(Byte) /\ extra \in Nat
  <2>1. <<time, 0>> \in Byte
    BY <1>1, <1>7 DEF Byte, Now
  <2> HIDE DEF time, stamp
  <2> QED BY <2>1 DEF TimestampSize
<1> HIDE DEF tail, extra
<1>13. out \in Seq(Byte)
  <2>1. CopyOut(d, real) \in Seq(Byte)
    BY <1>1, <1>10, CopyOutType
  <2>2. rd.out \o CopyOut(d, real) \in Seq(Byte)
    BY <1>7, <2>1, ConcatProperties
  <2> QED BY <1>12, <2>2, ConcatProperties
<1> HIDE DEF out
<1>14. pc \in {"next", "done", "copy"} /\ (pc = "copy" => left # 0 /\ rd.i + 1 # RxNum)
  OBVIOUS
<1> HIDE DEF pc
<1>15. rd.i + 1 \in 0..RxNum /\ rd.valid - real \in Nat /\ rd.filled + real \in Nat
       /\ rd.out_length + real + extra \in Nat
  <2>1. rd.i + 1 \in 0..RxNum
    BY <1>2, <1>7, RingAssumption
  <2>2. rd.valid - real \in Nat /\ rd.filled + real \in Nat
    BY <1>7, <1>10
  <2>3. rd.out_length + real + extra \in Nat
    <3>1. rd.out_length \in Nat /\ real \in Nat /\ extra \in Nat
      BY <1>7, <1>10, <1>12
    <3> QED BY <3>1
  <2> QED BY <2>1, <2>2, <2>3
<1>16. /\ x \in ReaderState /\ x.pc = pc /\ x.i = rd.i + 1 /\ x.bytes = left
       /\ x.filled = rd.filled + real
  BY <1>1, <1>11, <1>13, <1>14, <1>15 DEF ReaderState
<1> HIDE DEF x
<1>17. RingOwnership'
  <2>1. PICK w \in 0..RxNum : Window(rx_descriptors, user_rx_desc, fifo_rx_desc, w)
    BY OwnershipIsWindow DEF IndInv
  <2>2. ~Finished(ReleaseDesc(d))
    BY <1>1, ReleaseType DEF Finished
  <2>3. /\ w - 1 \in 0..RxNum
        /\ Window([rx_descriptors EXCEPT ![user_rx_desc] = ReleaseDesc(d)],
                  NextDesc(user_rx_desc), fifo_rx_desc, w - 1)
    <3>1. Finished(rx_descriptors[user_rx_desc])
      BY <1>4 DEF d
    <3> QED BY <1>1, <2>1, <2>2, <3>1, WindowShrinks
  <2>4. Window(rx_descriptors', user_rx_desc', fifo_rx_desc', w - 1)
    BY <1>5, <2>3
  <2> QED BY <2>3, <2>4 DEF RingOwnership, Window, Ahead, Ring
<1>18. ASSUME x.pc = "copy"
       PROVE  \E j \in Ring :
                /\ EndsAt(rx_descriptors', user_rx_desc', j)
                /\ rx_descriptors'[RingPos(user_rx_desc', j)].cnt - x.filled >= x.bytes
  <2>1. k # 0 /\ left = rd.bytes - planned
    BY <1>11, <1>14, <1>16, <1>18
  <2>2. /\ k - 1 \in Ring /\ EndsAt(rx_descriptors', user_rx_desc', k - 1)
        /\ rx_descriptors'[RingPos(user_rx_desc', k - 1)]
             = rx_descriptors[RingPos(user_rx_desc, k)]
    <3> DEFINE y == ReleaseDesc(d)
               ds == Put(rx_descriptors, user_rx_desc, y)
    <3> HIDE DEF y
    <3>0. /\ rx_descriptors \in [Ring -> Desc] /\ user_rx_desc \in Ring /\ k \in Ring /\ k # 0
          /\ EndsAt(rx_descriptors, user_rx_desc, k)
      BY <1>1, <1>3, <2>1
    <3>1. /\ k - 1 \in Ring /\ EndsAt(ds, NextDesc(user_rx_desc), k - 1)
          /\ ds[RingPos(NextDesc(user_rx_desc), k - 1)]
               = rx_descriptors[RingPos(user_rx_desc, k)]
      BY <3>0, EndsAfterRelease
    <3>2. rx_descriptors' = ds /\ user_rx_desc' = NextDesc(user_rx_desc)
      BY <1>5 DEF y, Put
    <3> HIDE DEF ds
    <3> QED BY <3>1, <3>2
  <2>3. rx_descriptors[RingPos(user_rx_desc, k)].cnt \in Nat
    BY <1>1, PosType, RingFacts DEF Desc
  <2>4. rx_descriptors[RingPos(user_rx_desc, k)].cnt - x.filled >= x.bytes
    <3> DEFINE c == rx_descriptors[RingPos(user_rx_desc, k)].cnt
    <3>1. c \in Nat /\ c - rd.filled >= rd.bytes
      BY <1>3, <2>3
    <3> HIDE DEF c
    <3>2. c - (rd.filled + real) >= rd.bytes - planned
      BY <1>7, <1>9, <1>10, <3>1
    <3> QED BY <1>16, <2>1, <3>2 DEF c
  <2> QED BY <2>2, <2>4
<1>19. x.pc = "copy" => x.i < RxNum
  BY <1>2, <1>7, <1>14, <1>16, RingAssumption
<1>20. user_rx_desc' \in Ring
  BY <1>1, <1>5, PosOfNext
<1>21. ReleaseDesc(d) \in Desc /\ "FE" \notin ReleaseDesc(d).flags /\ ReleaseDesc(d).cnt <= RxSize
  <2>1. ReleaseDesc(d) \in Desc /\ ReleaseDesc(d).flags = {} /\ ReleaseDesc(d).cnt = 0
    BY <1>1, ReleaseType
  <2>2. 0 <= RxSize
    BY RingAssumption
  <2> HIDE DEF ReleaseDesc
  <2> QED BY <2>1, <2>2
<1> QED BY <1>1, <1>5, <1>6, <1>14, <1>16, <1>17, <1>18, <1>19, <1>20, <1>21, HolderMoves

\* One iteration of fscc_user_read_stream preserves the invariant.
LEMMA ReadStreamDescInv ==
  ASSUME IndInv, NEW r \in Readers, ReadStreamDesc(r)
  PROVE  IndInv'
<1> USE DEF device, ring, dpcs, user, ioctl
<1> DEFINE rd   == reader[r]
           d    == rx_descriptors[user_rx_desc]
           n    == MinOf(d.data_count, rd.len - rd.out_length)
           out  == rd.out \o CopyOut(d, n)
           read == [rd EXCEPT !.i = rd.i + 1, !.out = out, !.out_length = rd.out_length + n]
           done == [read EXCEPT !.pc = "done"]
           free == [ReleaseDesc(d) EXCEPT !.data_count = RxSize]
<1>1. /\ rd \in ReaderState /\ rd.pc = "stream" /\ board_rx_spinlock = r
      /\ user_rx_desc \in Ring /\ fifo_rx_desc \in Ring
      /\ rx_descriptors \in [Ring -> Desc] /\ d \in Desc
      /\ r # "iframe" /\ r # "free"
  BY ReaderFacts DEF ReadStreamDesc, IndInv, LockOwnership, TypeOK, TypeRing, Ring
<1>2. rd.out_length <= rd.len
  BY <1>1 DEF IndInv, CopyInv
<1>3. /\ UNCHANGED <<fifo_rx_desc, rx_bytes_in_frame, rx_frame_size, line, rxfifo, bcfifo, clock,
                     iframe, settings, purge, purged, read_queue2, issued, board_rx_spinlock>>
  BY DEF ReadStreamDesc
<1>4. TypeFlags'
  BY Zenon DEF ReadStreamDesc, IndInv, TypeOK, TypeFlags
<1>5. CASE rd.i = RxNum \/ ~Finished(d)
  <2> DEFINE x == [rd EXCEPT !.pc = "done"]
  <2>1. /\ reader' = [reader EXCEPT ![r] = x]
        /\ UNCHANGED <<rx_descriptors, user_rx_desc>>
    BY <1>5 DEF ReadStreamDesc
  <2>2. x \in ReaderState /\ x.pc = "done"
    BY <1>1 DEF ReaderState
  <2> HIDE DEF x
  <2> QED BY <1>1, <1>3, <1>4, <2>1, <2>2, ReaderFacts, ReaderMoves
<1>6. CASE ~(rd.i = RxNum \/ ~Finished(d))
  <2>1. /\ rx_descriptors' = [rx_descriptors EXCEPT ![user_rx_desc] =
             IF n = d.data_count THEN free ELSE ConsumeDesc(d, n)]
        /\ user_rx_desc' = IF n = d.data_count THEN NextDesc(user_rx_desc) ELSE user_rx_desc
        /\ reader' = [reader EXCEPT ![r] = IF n = d.data_count THEN read ELSE done]
    BY <1>6 DEF ReadStreamDesc
  <2>2. /\ rd.i \in 0..RxNum /\ rd.out \in Seq(Byte) /\ rd.out_length \in Nat /\ rd.len \in Nat
        /\ d.data_count \in Nat /\ d.cnt \in Nat
    <3> HIDE DEF rd, d
    <3> QED BY <1>1, ReaderFields, DescFields
  <2>3. Finished(d) /\ rd.i # RxNum
    BY <1>6
  <2>4. /\ "FE" \in d.flags => "CSTOP" \in d.flags /\ d.cnt >= StatusBytes
        /\ "CSTOP" \notin d.flags => d.cnt <= RxSize
    BY <1>1 DEF IndInv, DescInv, Ring
  <2>5. PICK w \in 0..RxNum : Window(rx_descriptors, user_rx_desc, fifo_rx_desc, w)
    BY OwnershipIsWindow DEF IndInv
  <2>6. free \in Desc /\ free.flags = {} /\ free.cnt = 0
    BY <1>1, ReleaseType
  <2> HIDE DEF rd, free
  <2>7. n \in Nat /\ n <= d.data_count /\ n <= rd.len - rd.out_length
    BY <1>2, <2>2 DEF MinOf
  <2> HIDE DEF n
  <2>8. rd.i + 1 \in 0..RxNum /\ rd.out_length + n \in Nat /\ rd.out_length + n <= rd.len
    <3> HIDE DEF d
    <3>1. rd.i + 1 \in 0..RxNum
      <4>1. rd.i \in 0..RxNum /\ rd.i # RxNum
        BY <2>2, <2>3
      <4> QED BY <4>1, RingAssumption
    <3>2. rd.out_length + n \in Nat /\ rd.out_length + n <= rd.len
      <4>1. rd.out_length \in Nat /\ rd.len \in Nat /\ n \in Nat /\ n <= rd.len - rd.out_length
        BY <2>2, <2>7
      <4> QED BY <4>1
    <3> QED BY <3>1, <3>2
  <2>9. out \in Seq(Byte)
    BY <1>1, <2>2, <2>7, CopyOutType, ConcatProperties
  <2> HIDE DEF out
  <2>10. /\ read \in ReaderState /\ read.pc = "stream" /\ read.out_length <= read.len
         /\ done \in ReaderState /\ done.pc = "done"
    BY <1>1, <2>8, <2>9 DEF ReaderState
  <2> HIDE DEF read, done
  <2>11. CASE n = d.data_count
    <3>1. ~Finished(free)
      BY <2>6 DEF Finished
    <3>2. /\ w - 1 \in 0..RxNum
          /\ Window([rx_descriptors EXCEPT ![user_rx_desc] = free],
                    NextDesc(user_rx_desc), fifo_rx_desc, w - 1)
      BY <1>1, <2>3, <2>5, <3>1, WindowShrinks
    <3>3. Window(rx_descriptors', user_rx_desc', fifo_rx_desc', w - 1)
      BY <1>3, <2>1, <2>11, <3>2
    <3>4. RingOwnership'
      BY <3>2, <3>3 DEF RingOwnership, Window, Ahead, Ring
    <3>5. user_rx_desc' \in Ring
      BY <1>1, <2>1, <2>11, PosOfNext
    <3>6. /\ reader' = [reader EXCEPT ![r] = read]
          /\ rx_descriptors' = [rx_descriptors EXCEPT ![user_rx_desc] = free]
      BY <2>1, <2>11
    <3>7. "FE" \notin free.flags /\ free.cnt <= RxSize
      BY <2>6, RingAssumption
    <3> QED BY <1>1, <1>3, <1>4, <2>6, <2>10, <3>4, <3>5, <3>6, <3>7, HolderMoves
  <2>12. CASE n # d.data_count
    <3> DEFINE y == ConsumeDesc(d, n)
    <3>1. y \in Desc /\ y.flags = d.flags /\ y.cnt = d.cnt
      <4>1. n \in 0..d.data_count
        BY <2>2, <2>7
      <4> QED BY <1>1, <4>1, ConsumeType
    <3> HIDE DEF y
    <3>2. Finished(y) <=> Finished(d)
      BY <3>1 DEF Finished
    <3>3. /\ reader' = [reader EXCEPT ![r] = done]
          /\ rx_descriptors' = [rx_descriptors EXCEPT ![user_rx_desc] = y]
          /\ user_rx_desc' = user_rx_desc
      BY <2>1, <2>12 DEF y
    <3>4. Window([rx_descriptors EXCEPT ![user_rx_desc] = y], user_rx_desc, fifo_rx_desc, w)
      BY <1>1, <2>5, <3>2, WindowStays
    <3>5. Window(rx_descriptors', user_rx_desc', fifo_rx_desc', w)
      BY <1>3, <3>3, <3>4
    <3>6. RingOwnership'
      BY <2>5, <3>5 DEF RingOwnership, Window, Ahead, Ring
    <3>7. /\ "FE" \in y.flags => "CSTOP" \in y.flags /\ y.cnt >= StatusBytes
          /\ "CSTOP" \notin y.flags => y.cnt <= RxSize
      BY <2>4, <3>1
    <3>8. user_rx_desc' \in Ring
      BY <1>1, <3>3
    <3> QED BY <1>1, <1>3, <1>4, <2>10, <3>1, <3>3, <3>6, <3>7, <3>8, HolderMoves
  <2> QED BY <2>11, <2>12
<1> QED BY <1>5, <1>6

-----------------------------------------------------------------------------
(* The ioctls.                                                             *)

\* Disabling the receiver preserves the invariant.
LEMMA PurgeBeginInv ==
  ASSUME IndInv, PurgeBegin
  PROVE  IndInv'
<1> USE DEF device, ring, dpcs, user, ioctl
<1>1. TypeFlags'
  BY Zenon DEF PurgeBegin, IndInv, TypeOK, TypeFlags
<1>2. TypeDevice'
  BY DEF PurgeBegin, IndInv, TypeOK, TypeDevice
<1>3. TypeIoctl'
  BY DEF PurgeBegin, IndInv, TypeOK, TypeIoctl
<1>4. TypeOK'
  BY <1>1, <1>2, <1>3 DEF PurgeBegin, IndInv, TypeOK, TypeRing, TypeDpc, TypeUser
<1>5. LockOwnership' /\ DescInv'
  BY DEF PurgeBegin, IndInv, LockOwnership, DescInv
<1> QED BY <1>4, <1>5, RingKept, CopyKept DEF PurgeBegin, IndInv

\* A reset descriptor is open and empty.
LEMMA ResetType ==
  ASSUME NEW d \in Desc
  PROVE  ResetDesc(d) \in Desc /\ ResetDesc(d).flags = {} /\ ResetDesc(d).cnt = 0
<1>1. CleanDesc(d) \in Desc /\ CleanDesc(d).flags = {} /\ CleanDesc(d).cnt = 0
  BY DEF CleanDesc, Desc
<1>2. RxSize \in 0..RxSize
  BY RingAssumption
<1> QED BY <1>1, <1>2 DEF ResetDesc, Empty, Desc

\* fscc_io_reset_rx preserves the invariant: the window is empty afterwards.
LEMMA PurgeResetInv ==
  ASSUME IndInv, PurgeReset
  PROVE  IndInv'
<1> USE DEF device, ring, dpcs, user, ioctl
<1>1. /\ rx_descriptors' = [i \in 0..(RxNum - 1) |-> ResetDesc(rx_descriptors[i])]
      /\ user_rx_desc' = 0 /\ fifo_rx_desc' = 0
      /\ rx_bytes_in_frame' = 0 /\ rx_frame_size' = 0
      /\ board_rx_spinlock = "free" /\ purged' = line.f - 1
      /\ UNCHANGED <<line, recd, clock, isr, dpcs, board_rx_spinlock, iframe, user, settings>>
  BY DEF PurgeReset
<1>2. \A i \in Ring : /\ rx_descriptors'[i] \in Desc /\ rx_descriptors'[i].flags = {}
                      /\ rx_descriptors'[i].cnt = 0
  BY <1>1, ResetType DEF IndInv, TypeOK, TypeRing, Ring
<1>3. rxfifo' \in {rxfifo, <<>>} /\ bcfifo' \in {bcfifo, <<>>}
  BY DEF PurgeReset
<1>4. TypeRing'
  BY <1>1, <1>2, RingAssumption DEF TypeRing, Ring
<1>5. TypeDevice'
  <2>1. /\ line \in [f : Nat \ {0}, k : Nat] /\ clock \in [on : BOOLEAN, outages : Nat]
        /\ rxfifo \in Seq(Byte) /\ bcfifo \in Seq(Nat)
    BY DEF IndInv, TypeOK, TypeDevice
  <2>2. line' = line /\ clock' = clock
    BY <1>1
  <2>3. << >> \in Seq(Byte) /\ << >> \in Seq(Nat)
    OBVIOUS
  <2>4. rxfifo' \in Seq(Byte) /\ bcfifo' \in Seq(Nat)
    BY <1>3, <2>1, <2>3, Zenon
  <2> QED BY <2>1, <2>2, <2>4, Zenon DEF TypeDevice
<1>6. TypeFlags'
  BY <1>1, Zenon DEF IndInv, TypeOK, TypeFlags
<1>7. TypeIoctl'
  <2>1. purged' \in Nat
    BY <1>1 DEF IndInv, TypeOK, TypeDevice
  <2>2. (~clock.on) \in BOOLEAN
    BY Zenon
  <2>3. purge' = [purge EXCEPT !.pc = "queues", !.timed_out = ~clock.on]
    BY DEF PurgeReset
  <2> QED BY <1>1, <2>1, <2>2, <2>3 DEF IndInv, TypeOK, TypeIoctl
<1>8. TypeOK'
  BY <1>1, <1>4, <1>5, <1>6, <1>7 DEF IndInv, TypeOK, TypeDpc, TypeUser
<1>9. iframe.pc = "idle" /\ \A r \in Readers : reader[r].pc \notin {"copy", "next", "stream", "done"}
  BY <1>1, ReadAssumption DEF IndInv, LockOwnership
<1>10. LockOwnership'
  BY <1>1 DEF IndInv, LockOwnership
<1>11. DescInv'
  <2>1. \A j \in 1..Len(bcfifo') : bcfifo'[j] >= StatusBytes
    BY <1>3 DEF IndInv, DescInv
  <2>2. iframe'.pc # "store"
    BY <1>1, <1>9
  <2>3. ASSUME NEW i \in 0..(RxNum - 1)
        PROVE  LET d == rx_descriptors'[i]
               IN /\ "FE" \in d.flags => "CSTOP" \in d.flags /\ d.cnt >= StatusBytes
                  /\ "CSTOP" \notin d.flags => d.cnt <= RxSize
    <3>1. rx_descriptors'[i].flags = {} /\ rx_descriptors'[i].cnt = 0
      BY <1>2 DEF Ring
    <3> QED BY <3>1, RingAssumption
  <2>4. rx_frame_size' = 0
    BY <1>1
  <2> QED BY <2>1, <2>2, <2>3, <2>4, Zenon DEF DescInv
<1>12. RingOwnership'
  <2>1. \A k \in Ring : RingPos(0, k) \in Ring
    BY PosType, RingFacts
  <2>2. \A i \in Ring : ~Finished(rx_descriptors'[i])
    BY <1>2 DEF Finished
  <2>3. RingPos(0, 0) = 0
    BY PosZero, RingFacts
  <2>4. ASSUME NEW k \in Ring
        PROVE  Finished(rx_descriptors'[RingPos(0, k)]) <=> k < 0
    <3>1. ~(k < 0)
      BY RingFacts
    <3> QED BY <2>1, <2>2, <3>1, Zenon
  <2>5. Window(rx_descriptors', 0, 0, 0)
    BY <2>3, <2>4, RingFacts DEF Window
  <2>6. Window(rx_descriptors', user_rx_desc', fifo_rx_desc', 0)
    BY <1>1, <2>5, Zenon
  <2> QED BY <2>6, RingFacts DEF RingOwnership, Window, Ahead, Ring
<1>13. CopyInv'
  BY <1>1, <1>9 DEF IndInv, CopyInv
<1> QED BY <1>8, <1>10, <1>11, <1>12, <1>13 DEF IndInv

\* Purging the queues preserves the invariant.
LEMMA PurgeQueuesInv ==
  ASSUME IndInv, PurgeQueues
  PROVE  IndInv'
<1> USE DEF device, ring, dpcs, user, ioctl
<1>1. TypeFlags'
  BY Zenon DEF PurgeQueues, IndInv, TypeOK, TypeFlags
<1>2. TypeUser'
  BY DEF PurgeQueues, IndInv, TypeOK, TypeUser
<1>3. TypeIoctl'
  BY DEF PurgeQueues, IndInv, TypeOK, TypeIoctl
<1>4. TypeOK'
  BY <1>1, <1>2, <1>3 DEF PurgeQueues, IndInv, TypeOK, TypeRing, TypeDpc, TypeDevice
<1>5. LockOwnership' /\ DescInv'
  BY DEF PurgeQueues, IndInv, LockOwnership, DescInv
<1> QED BY <1>4, <1>5, RingKept, CopyKept DEF PurgeQueues, IndInv

\* The end of fscc_io_purge_rx preserves the invariant.
LEMMA PurgeFinishInv ==
  ASSUME IndInv, PurgeFinish
  PROVE  IndInv'
<1> USE DEF device, ring, dpcs, user, ioctl
<1>1. TypeFlags'
  BY Zenon DEF PurgeFinish, IndInv, TypeOK, TypeFlags
<1>2. TypeIoctl'
  <2> DEFINE R == [status : {"success"}, timed_out : BOOLEAN]
             e == [status |-> "success", timed_out |-> purge.timed_out]
  <2>1. purge.results \in Seq(R) /\ purge.timed_out \in BOOLEAN
    BY DEF IndInv, TypeOK, TypeIoctl
  <2>2. e \in R
    BY <2>1
  <2> HIDE DEF e, R
  <2>3. Append(purge.results, e) \in Seq(R)
    BY <2>1, <2>2, AppendProperties
  <2>4. purge' = [purge EXCEPT !.pc = "idle", !.results = Append(purge.results, e)]
    BY DEF PurgeFinish, e
  <2> QED BY <2>3, <2>4 DEF PurgeFinish, IndInv, TypeOK, TypeIoctl, R
<1>3. TypeOK'
  BY <1>1, <1>2 DEF PurgeFinish, IndInv, TypeOK, TypeRing, TypeDpc, TypeDevice, TypeUser
<1>4. LockOwnership' /\ DescInv'
  BY DEF PurgeFinish, IndInv, LockOwnership, DescInv
<1> QED BY <1>3, <1>4, RingKept, CopyKept DEF PurgeFinish, IndInv

\* The settings ioctls preserve the invariant.
LEMMA ToggleInv ==
  ASSUME IndInv, NEW name \in Toggles, ToggleSetting(name)
  PROVE  IndInv'
<1> USE DEF device, ring, dpcs, user, ioctl
<1>1. TypeFlags'
  BY Zenon DEF ToggleSetting, IndInv, TypeOK, TypeFlags
<1>2. TypeIoctl'
  <2>1. settings' = [settings EXCEPT ![name] = ~settings[name]]
    BY DEF ToggleSetting
  <2>2. settings \in [SettingNames -> BOOLEAN] /\ name \in SettingNames
    BY SettingsAssumption DEF IndInv, TypeOK, TypeIoctl
  <2>3. settings' \in [SettingNames -> BOOLEAN]
    BY <2>1, <2>2
  <2> QED BY <2>3 DEF ToggleSetting, IndInv, TypeOK, TypeIoctl
<1>3. TypeOK'
  BY <1>1, <1>2 DEF ToggleSetting, IndInv, TypeOK, TypeRing, TypeDpc, TypeDevice, TypeUser
<1>4. LockOwnership' /\ DescInv'
  BY DEF ToggleSetting, IndInv, LockOwnership, DescInv
<1> QED BY <1>3, <1>4, RingKept, CopyKept DEF ToggleSetting, IndInv

-----------------------------------------------------------------------------
(* The theorems.                                                           *)

\* Every step preserves the inductive invariant.
LEMMA NextInv == IndInv /\ [Next]_vars => IndInv'
<1> SUFFICES ASSUME IndInv, [Next]_vars PROVE IndInv'
  OBVIOUS
<1>1. CASE Next
  <2>1. CASE \E n \in Arrivals : LineArrive(n)
    BY <2>1, LineArriveInv
  <2>2. CASE LineLost \/ ClockChange \/ fscc_isr \/ timer_handler \/ IframeStart
    BY <2>2, LineLostInv, ClockChangeInv, IsrInv, TimerInv, IframeStartInv
  <2>3. CASE IframeStep
    BY <2>3, FifoSampleInv, FifoStoreInv, IframeDoneInv DEF IframeStep
  <2>4. CASE \E len \in ReadLens : FsccEvtIoRead(len)
    BY <2>4, EvtIoReadInv
  <2>5. CASE \E r \in Readers : ReaderStep(r)
    BY <2>5, PeekInv, RetrieveInv, RefuseInv, EnterInv, NextFrameInv, StreamEnterInv,
       CompleteInv, ReadFrameDescInv, ReadStreamDescInv DEF ReaderStep, Locking, Copying
  <2>6. CASE PurgeStep
    BY <2>6, PurgeBeginInv, PurgeResetInv, PurgeQueuesInv, PurgeFinishInv DEF PurgeStep
  <2>7. CASE \E s \in Toggles : ToggleSetting(s)
    BY <2>7, ToggleInv
  <2> QED BY <1>1, <2>1, <2>2, <2>3, <2>4, <2>5, <2>6, <2>7 DEF Next
<1>2. CASE UNCHANGED vars
  <2> USE <1>2 DEF vars, device, ring, dpcs, user, ioctl
  <2>1. TypeFlags'
    BY Zenon DEF IndInv, TypeOK, TypeFlags
  <2>2. TypeOK'
    BY <2>1 DEF IndInv, TypeOK, TypeRing, TypeDpc, TypeDevice, TypeUser, TypeIoctl
  <2>3. LockOwnership' /\ DescInv'
    BY DEF IndInv, LockOwnership, DescInv
  <2> QED BY <2>2, <2>3, RingKept, CopyKept DEF IndInv
<1> QED BY <1>1, <1>2

\* The inductive invariant holds in every behaviour of the receive path.
THEOREM Invariance == Spec => []IndInv
BY InitIndInv, NextInv, PTL DEF Spec

\* The state of the receive path keeps its types: ring positions stay inside the
\* ring and the unsigned counters of the copy loops never wrap.
THEOREM TypeCorrectness == Spec => []TypeOK
<1>1. IndInv => TypeOK
  BY DEF IndInv
<1> QED BY <1>1, Invariance, PTL

\* iframe_worker and the readers never share a descriptor: the finished ones are
\* always the stretch from user_rx_desc to fifo_rx_desc.
THEOREM RingSafety == Spec => []RingOwnership
<1>1. IndInv => RingOwnership
  BY DEF IndInv
<1> QED BY <1>1, Invariance, PTL

\* While fscc_user_read_frame copies a frame, however often the settings change
\* under it, the frame's last descriptor is still ahead in the ring and holds all
\* that is still wanted: the copy never runs into the next frame.
THEOREM CopySafety == Spec => []CopyInv
<1>1. IndInv => CopyInv
  BY DEF IndInv
<1> QED BY <1>1, Invariance, PTL

\* board_rx_spinlock is held by exactly the execution in its critical section.
THEOREM LockSafety == Spec => []LockOwnership
<1>1. IndInv => LockOwnership
  BY DEF IndInv
<1> QED BY <1>1, Invariance, PTL

-----------------------------------------------------------------------------
(* What is reported to the applications.                                   *)

ReadCompletions ==
  [len : Nat, status : {"success", "too_small", "cancelled"}, need : Int, out : Seq(Byte),
   out_length : Nat, purged : Nat]

\* The four places where a read request is completed keep what is true of every
\* completion so far.
LEMMA HistoryKept ==
  ASSUME IndInv, [Next]_vars, NEW S, completed \in Seq(S),
         Completion(0, "success", 0, <<>>, 0) \in S,
         \A len \in Nat : Completion(len, "cancelled", 0, <<>>, 0) \in S,
         \A r \in Readers : ReadFrameRefuse(r) =>
           Completion(reader[r].len, "too_small",
                      IF frame_ready THEN buffer_requirement(frame_bytes) ELSE 0, <<>>, 0) \in S,
         \A r \in Readers : ReadComplete(r) =>
           Completion(reader[r].len, "success", 0, reader[r].out, reader[r].out_length) \in S
  PROVE  completed' \in Seq(S)
<1> USE DEF user, ioctl
<1>1. CASE completed' = completed
  BY <1>1
<1>2. CASE \E c \in S : completed' = Append(completed, c)
  BY <1>2, AppendProperties
<1>3. CASE PurgeQueues
  <2> DEFINE n == Len(read_queue2)
             g == [j \in 1..n |-> Completion(read_queue2[j], "cancelled", 0, <<>>, 0)]
  <2>1. read_queue2 \in Seq(Nat) /\ n \in Nat
    BY LenProperties DEF IndInv, TypeOK, TypeUser
  <2>2. \A j \in 1..n : read_queue2[j] \in Nat
    BY <2>1, ElementOfSeq
  <2>3. g \in [1..n -> S]
    BY <2>2
  <2>4. completed' = completed \o g
    BY <1>3 DEF PurgeQueues
  <2> HIDE DEF g, n
  <2>5. g \in Seq(S)
    BY <2>1, <2>3, FunctionIsSeq
  <2> QED BY <2>4, <2>5, ConcatProperties
<1>4. CASE Next
  <2>1. CASE \E n \in Arrivals : LineArrive(n)
    BY <2>1, <1>1 DEF LineArrive
  <2>2. CASE LineLost \/ ClockChange \/ fscc_isr \/ timer_handler \/ IframeStart
    BY <2>2, <1>1 DEF LineLost, ClockChange, fscc_isr, timer_handler, IframeStart
  <2>3. CASE IframeStep
    BY <2>3, <1>1 DEF IframeStep, FifoSample, FifoStore, IframeDone
  <2>4. CASE \E len \in ReadLens : FsccEvtIoRead(len)
    BY <2>4, <1>1, <1>2 DEF FsccEvtIoRead
  <2>5. ASSUME NEW r \in Readers, ReaderStep(r)
        PROVE  completed' \in Seq(S)
    <3>1. CASE ReadFrameRefuse(r)
      BY <3>1, <1>2 DEF ReadFrameRefuse
    <3>2. CASE ReadComplete(r)
      BY <3>2, <1>2 DEF ReadComplete
    <3>3. CASE ~ReadFrameRefuse(r) /\ ~ReadComplete(r)
      BY <2>5, <3>3, <1>1 DEF ReaderStep, Locking, Copying, ProcessReadPeek, RetrieveNextRequest,
         ReadFrameEnter, ReadStreamEnter, ReadFrameDesc, ReadNextFrame, ReadStreamDesc
    <3> QED BY <3>1, <3>2, <3>3
  <2>6. CASE PurgeStep
    BY <2>6, <1>1, <1>3 DEF PurgeStep, PurgeBegin, PurgeReset, PurgeFinish
  <2>7. CASE \E s \in Toggles : ToggleSetting(s)
    BY <2>7, <1>1 DEF ToggleSetting
  <2> QED BY <1>4, <2>1, <2>2, <2>3, <2>4, <2>5, <2>6, <2>7 DEF Next
<1>5. CASE UNCHANGED vars
  BY <1>5, <1>1 DEF vars
<1> QED BY <1>4, <1>5

\* Every completion has these fields.
LEMMA CompletionTypes ==
  ASSUME IndInv
  PROVE  /\ Completion(0, "success", 0, <<>>, 0) \in ReadCompletions
         /\ \A len \in Nat : Completion(len, "cancelled", 0, <<>>, 0) \in ReadCompletions
         /\ \A r \in Readers :
              /\ Completion(reader[r].len, "success", 0, reader[r].out, reader[r].out_length)
                   \in ReadCompletions
              /\ Completion(reader[r].len, "too_small",
                            IF frame_ready THEN buffer_requirement(frame_bytes) ELSE 0, <<>>, 0)
                   \in ReadCompletions
<1>1. purged \in Nat /\ <<>> \in Seq(Byte)
  BY DEF IndInv, TypeOK, TypeIoctl
<1>2. ASSUME NEW r \in Readers
      PROVE  /\ reader[r].len \in Nat /\ reader[r].out \in Seq(Byte)
             /\ reader[r].out_length \in Nat
  BY ReaderFacts, ReaderFields
<1>3. (IF frame_ready THEN buffer_requirement(frame_bytes) ELSE 0) \in Int
  BY FrameBytesType DEF buffer_requirement, TimestampSize
<1> QED BY <1>1, <1>2, <1>3 DEF Completion, ReadCompletions

-----------------------------------------------------------------------------
(* Reads stay within their buffers.                                        *)

StampRoom == IF settings.append_timestamp THEN TimestampSize ELSE 0

\* What a reader still wants of its frame, and the timestamp, fit behind what
\* it has already returned.
Fits(rd, room) ==
  /\ rd.pc = "copy" => rd.out_length + rd.valid + room <= rd.len
  /\ rd.pc \in {"next", "done"} => rd.out_length <= rd.len

FittingReads == {c \in ReadCompletions : c.status = "success" => c.out_length <= c.len}

FitInv ==
  /\ completed \in Seq(FittingReads)
  /\ \A r \in Readers : Fits(reader[r], StampRoom)

\* The room a timestamp takes is the same after a step when no ioctl flips it.
LEMMA RoomKept ==
  ASSUME IndInv, [Next]_vars, "append_timestamp" \notin Toggles
  PROVE  StampRoom' = StampRoom /\ StampRoom \in Nat
<1> USE DEF ioctl
<1>1. CASE settings' = settings
  BY <1>1 DEF StampRoom, TimestampSize
<1>2. CASE \E s \in Toggles : ToggleSetting(s)
  <2>1. PICK s \in Toggles : ToggleSetting(s)
    BY <1>2
  <2>2. /\ settings \in [SettingNames -> BOOLEAN] /\ s \in SettingNames /\ s # "append_timestamp"
        /\ settings' = [settings EXCEPT ![s] = ~settings[s]] /\ "append_timestamp" \in SettingNames
    BY <2>1, SettingsAssumption DEF ToggleSetting, SettingNames, IndInv, TypeOK, TypeIoctl
  <2>3. settings'["append_timestamp"] = settings["append_timestamp"]
    BY <2>2
  <2> QED BY <2>3 DEF StampRoom, TimestampSize
<1>3. CASE Next /\ ~\E s \in Toggles : ToggleSetting(s)
  BY <1>3, <1>1 DEF Next, LineArrive, LineLost, ClockChange, fscc_isr, timer_handler, IframeStart,
     IframeStep, FifoSample, FifoStore, IframeDone, FsccEvtIoRead, ReaderStep, Locking, Copying,
     ProcessReadPeek, RetrieveNextRequest, ReadFrameRefuse, ReadFrameEnter, ReadStreamEnter,
     ReadFrameDesc, ReadNextFrame, ReadStreamDesc, ReadComplete, PurgeStep, PurgeBegin,
     PurgeReset, PurgeQueues, PurgeFinish
<1>4. CASE UNCHANGED vars
  BY <1>4, <1>1 DEF vars
<1> QED BY <1>2, <1>3, <1>4

\* A frame a reader starts on fits when its requirement does.
LEMMA StartFits ==
  ASSUME IndInv, frame_ready, NEW rd \in ReaderState,
         buffer_requirement(frame_bytes) <= rd.len - rd.out_length
  PROVE  Fits(StartFrame(rd), StampRoom)
<1>1. /\ ValidData(frame_bytes) \in Nat /\ rd.len \in Nat /\ rd.out_length \in Nat
      /\ StampRoom \in Nat
  BY FrameBytesType, ReaderFields DEF StampRoom, TimestampSize
<1>2. buffer_requirement(frame_bytes) = ValidData(frame_bytes) + StampRoom
  BY DEF buffer_requirement, StampRoom
<1>3. /\ StartFrame(rd).pc = "copy" /\ StartFrame(rd).out_length = rd.out_length
      /\ StartFrame(rd).valid = ValidData(frame_bytes) /\ StartFrame(rd).len = rd.len
  BY DEF StartFrame, ReaderState
<1> HIDE DEF StampRoom
<1> QED BY <1>1, <1>2, <1>3 DEF Fits

\* One iteration of the copy loop takes from valid what it adds to the output,
\* and adds the timestamp after the frame's last byte.
LEMMA CopyStepFits ==
  ASSUME IndInv, NEW r \in Readers, ReadFrameDesc(r), Fits(reader[r], StampRoom)
  PROVE  Fits(reader'[r], StampRoom)
<1> DEFINE rd      == reader[r]
           d       == rx_descriptors[user_rx_desc]
           planned == planned_move_size(d, rd.filled)
           real    == MinOf(planned, rd.valid)
           left    == IF planned > rd.bytes THEN 0 ELSE rd.bytes - planned
           stamp   == left = 0 /\ settings.append_timestamp
           extra   == IF stamp THEN TimestampSize ELSE 0
           pc      == IF left = 0 THEN "next" ELSE IF rd.i + 1 = RxNum THEN "done" ELSE "copy"
<1>1. /\ rd \in ReaderState /\ rd.pc = "copy" /\ d \in Desc /\ reader \in [Readers -> ReaderState]
  BY ReaderFacts DEF ReadFrameDesc, IndInv, TypeOK, TypeRing, TypeUser
<1>2. /\ rd.valid \in Nat /\ rd.out_length \in Nat /\ rd.len \in Nat /\ rd.filled \in Nat
      /\ d.cnt \in Nat /\ d.data_count \in Nat
  <2> HIDE DEF rd, d
  <2> QED BY <1>1, ReaderFields, DescFields
<1>3. /\ reader'[r].pc = pc /\ reader'[r].valid = rd.valid - real
      /\ reader'[r].out_length = rd.out_length + real + extra /\ reader'[r].len = rd.len
  BY <1>1 DEF ReadFrameDesc, ReaderState
<1>4. rd.out_length + rd.valid + StampRoom <= rd.len
  BY <1>1 DEF Fits
<1>5. extra \in Nat /\ extra <= StampRoom /\ StampRoom \in Nat /\ (left # 0 => extra = 0)
  BY DEF StampRoom, TimestampSize
<1>6. pc \in {"next", "done", "copy"} /\ (pc # "next" => left # 0)
  OBVIOUS
<1>7. planned \in Int
  <2> HIDE DEF rd, d
  <2> QED BY <1>2 DEF planned_move_size
<1> HIDE DEF rd, d, planned, left, pc, extra
<1>8. real \in Int /\ real <= rd.valid
  BY <1>2, <1>7 DEF MinOf
<1> HIDE DEF real
<1> HIDE DEF StampRoom
<1>9. rd.out_length + real + extra <= rd.len
  BY <1>2, <1>4, <1>5, <1>8
<1>10. left # 0 => rd.out_length + real + extra + (rd.valid - real) + StampRoom <= rd.len
  BY <1>2, <1>4, <1>5, <1>8
<1> QED BY <1>3, <1>6, <1>9, <1>10 DEF Fits

\* A step of one execution of FsccProcessRead leaves the locals of the others alone.
LEMMA OthersStay ==
  ASSUME IndInv, NEW r \in Readers, ReaderStep(r)
  PROVE  \A q \in Readers \ {r} : reader'[q] = reader[q]
<1>1. reader \in [Readers -> ReaderState]
  BY DEF IndInv, TypeOK, TypeUser
<1> QED
  BY <1>1 DEF ReaderStep, Locking, Copying, ProcessReadPeek, RetrieveNextRequest, ReadFrameRefuse,
     ReadFrameEnter, ReadStreamEnter, ReadFrameDesc, ReadNextFrame, ReadStreamDesc, ReadComplete

\* A step of a reader keeps what it returns within its buffer.
LEMMA ReaderFits ==
  ASSUME IndInv, NEW r \in Readers, ReaderStep(r), Fits(reader[r], StampRoom)
  PROVE  Fits(reader'[r], StampRoom)
<1> DEFINE rd == reader[r]
<1>1. reader \in [Readers -> ReaderState] /\ rd \in ReaderState
  BY DEF IndInv, TypeOK, TypeUser
<1>3. rd.len \in Nat /\ rd.out_length \in Nat
  BY <1>1, ReaderFields
<1>4. CASE reader'[r].pc \in {"idle", "retrieve", "enter", "stream"}
  BY <1>4 DEF Fits
<1>5. CASE ProcessReadPeek(r) \/ RetrieveNextRequest(r) \/ ReadFrameRefuse(r) \/ ReadStreamEnter(r)
           \/ ReadComplete(r)
  BY <1>1, <1>4, <1>5 DEF ProcessReadPeek, RetrieveNextRequest, ReadFrameRefuse, ReadStreamEnter,
     ReadComplete, IdleReader, ReaderState
<1>6. CASE ReadFrameEnter(r)
  <2>1. reader'[r] = StartFrame(rd) /\ frame_ready /\ buffer_requirement(frame_bytes) <= rd.len
    BY <1>1, <1>6 DEF ReadFrameEnter
  <2>2. rd.out_length = 0
    BY <1>6 DEF ReadFrameEnter, IndInv, CopyInv
  <2>3. rd.len - rd.out_length = rd.len
    BY <2>2, <1>3
  <2> QED BY <2>1, <2>3, <1>1, StartFits
<1>7. CASE ReadNextFrame(r)
  <2>1. rd.pc = "next" /\ rd.out_length <= rd.len
    BY <1>7 DEF ReadNextFrame, Fits
  <2>2. CASE reader'[r] = [rd EXCEPT !.pc = "done"]
    <3>1. reader'[r].pc = "done" /\ reader'[r].out_length = rd.out_length /\ reader'[r].len = rd.len
      BY <2>2, <1>1 DEF ReaderState
    <3> QED BY <3>1, <2>1 DEF Fits
  <2>3. CASE /\ reader'[r] = StartFrame(rd) /\ frame_ready
             /\ FitsRest(rd, buffer_requirement(frame_bytes))
    <3>1. buffer_requirement(frame_bytes) <= rd.len - rd.out_length
      BY <2>1, <2>3, <1>3 DEF FitsRest
    <3> QED BY <2>3, <3>1, <1>1, StartFits
  <2> QED BY <2>2, <2>3, <1>1, <1>7 DEF ReadNextFrame
<1>8. CASE ReadStreamDesc(r)
  <2> DEFINE d == rx_descriptors[user_rx_desc]
             n == MinOf(d.data_count, rd.len - rd.out_length)
  <2>1. rd.out_length <= rd.len
    BY <1>8 DEF ReadStreamDesc, IndInv, CopyInv
  <2>2. d.data_count \in Nat
    BY DescFields DEF IndInv, TypeOK, TypeRing
  <2>5. rd.pc = "stream"
    BY <1>8 DEF ReadStreamDesc
  <2>6. CASE rd.i = RxNum \/ ~Finished(d)
    <3>1. reader'[r] = [rd EXCEPT !.pc = "done"]
      BY <1>1, <1>8, <2>6 DEF ReadStreamDesc
    <3>2. reader'[r].pc = "done" /\ reader'[r].len = rd.len /\ reader'[r].out_length = rd.out_length
      BY <3>1, <1>1 DEF ReaderState
    <3> QED BY <3>2, <2>1 DEF Fits
  <2>7. CASE ~(rd.i = RxNum \/ ~Finished(d))
    <3> DEFINE read == [rd EXCEPT !.i = rd.i + 1, !.out = rd.out \o CopyOut(d, n),
                                  !.out_length = rd.out_length + n]
    <3>1. reader'[r] = read \/ reader'[r] = [read EXCEPT !.pc = "done"]
      BY <1>1, <1>8, <2>7 DEF ReadStreamDesc
    <3>2. /\ reader'[r].pc \in {"stream", "done"} /\ reader'[r].len = rd.len
          /\ reader'[r].out_length = rd.out_length + n
      BY <3>1, <1>1, <2>5 DEF ReaderState
    <3> HIDE DEF d, rd
    <3>3. rd.out_length + n <= rd.len
      BY <1>3, <2>1, <2>2 DEF MinOf
    <3> HIDE DEF n
    <3> QED BY <2>1, <3>2, <3>3 DEF Fits
  <2> QED BY <2>6, <2>7
<1>9. CASE ReadFrameDesc(r)
  BY <1>9, CopyStepFits
<1> HIDE DEF rd
<1> QED BY <1>5, <1>6, <1>7, <1>8, <1>9 DEF ReaderStep, Locking, Copying

\* Every step keeps the reads within their buffers.
LEMMA FitStep ==
  ASSUME "append_timestamp" \notin Toggles, IndInv, FitInv, [Next]_vars
  PROVE  FitInv'
<1>1. StampRoom' = StampRoom
  BY RoomKept
<1>2. completed' \in Seq(FittingReads)
  <2>1. /\ Completion(0, "success", 0, <<>>, 0) \in FittingReads
        /\ \A len \in Nat : Completion(len, "cancelled", 0, <<>>, 0) \in FittingReads
    BY CompletionTypes DEF FittingReads, Completion
  <2>2. \A r \in Readers :
          Completion(reader[r].len, "too_small",
                     IF frame_ready THEN buffer_requirement(frame_bytes) ELSE 0, <<>>, 0)
            \in FittingReads
    BY CompletionTypes DEF FittingReads, Completion
  <2>3. \A r \in Readers : ReadComplete(r) =>
          Completion(reader[r].len, "success", 0, reader[r].out, reader[r].out_length)
            \in FittingReads
    BY CompletionTypes DEF FittingReads, Completion, ReadComplete, FitInv, Fits
  <2> QED BY <2>1, <2>2, <2>3, HistoryKept DEF FitInv
<1>3. ASSUME NEW q \in Readers
      PROVE  Fits(reader'[q], StampRoom)
  <2>1. Fits(reader[q], StampRoom)
    BY DEF FitInv
  <2>2. CASE reader' = reader
    BY <2>1, <2>2
  <2>3. CASE \E r \in Readers : ReaderStep(r)
    <3>1. PICK r \in Readers : ReaderStep(r)
      BY <2>3
    <3>2. Fits(reader'[r], StampRoom) /\ \A p \in Readers \ {r} : reader'[p] = reader[p]
      BY <3>1, ReaderFits, OthersStay DEF FitInv
    <3> QED BY <2>1, <3>2
  <2>4. CASE Next /\ ~\E r \in Readers : ReaderStep(r)
    BY <2>4, <2>2 DEF user, Next, LineArrive, LineLost, ClockChange, fscc_isr, timer_handler, IframeStart,
       IframeStep, FifoSample, FifoStore, IframeDone, FsccEvtIoRead, PurgeStep, PurgeBegin,
       PurgeReset, PurgeQueues, PurgeFinish, ToggleSetting
  <2>5. CASE UNCHANGED vars
    BY <2>5, <2>2 DEF vars, user
  <2> QED BY <2>3, <2>4, <2>5
<1> QED BY <1>1, <1>2, <1>3 DEF FitInv

\* A read never returns more than the application has room for, as long as the
\* timestamp setting is not changed under it: fscc_user_read_frame looks at
\* append_timestamp once for the room and once more for the copy, and rx_multiple
\* goes on with a frame only if it fits behind what was returned already.
THEOREM BufferSafety ==
  ASSUME "append_timestamp" \notin Toggles
  PROVE  Spec => []ReadFitsBuffer
<1>1. Init => FitInv
  BY EmptySeq DEF Init, FitInv, Fits, IdleReader
<1>2. IndInv /\ FitInv /\ [Next]_vars => FitInv'
  BY FitStep
<1>3. FitInv => ReadFitsBuffer
  BY ElementOfSeq DEF FitInv, ReadFitsBuffer, Successes, FittingReads
<1> QED BY <1>1, <1>2, <1>3, Invariance, PTL DEF Spec

-----------------------------------------------------------------------------
(* The stream of bytes in a streaming mode: what was returned, what is being *)
(* copied, the finished descriptors, the open one and the FIFO, one after   *)
(* the other, are the bytes of the line.                                    *)

\* The first m items of b are the bytes of the line after the first p.
Run(b, p, m) == \A j \in 1..m : b[j] = <<1, p + j>>

\* The finished descriptors hold consecutive stretches, the k-th one after s[k] bytes.
Stretches(ds, u, w, s) ==
  \A k \in 0..(w - 1) :
    LET d == ds[RingPos(u, k)]
    IN d.data_count >= 1 /\ s[k + 1] = s[k] + d.data_count /\ Run(d.buffer, s[k], d.data_count)

\* The descriptor that is being filled goes on after them.
RingRun(ds, u, f, w, s) ==
  Window(ds, u, f, w) /\ Stretches(ds, u, w, s) /\ Run(ds[f].buffer, s[w], ds[f].cnt)

\* After t bytes comes the FIFO, and then what is still on the line.
LineRun(fifo, k, t) == Run(fifo, t, Len(fifo)) /\ k = t + Len(fifo)

\* g[i] is what the first i completions of h returned.
Concats(g, h) == g = [i \in 0..Len(h) |-> IF i = 0 THEN <<>> ELSE g[i - 1] \o h[i].out]

\* The completions of h returned the first p bytes of the line.
Told(h, p) ==
  /\ \E g : Concats(g, h)
  /\ \A g : Concats(g, h) =>
       g[Len(h)] \in Seq(Byte) /\ Len(g[Len(h)]) = p /\ Run(g[Len(h)], 0, p)

\* The reader in its critical section goes on where they ended.
UserRun(rds, lock, p, q) ==
  /\ \A r \in Readers : rds[r].pc \in {"stream", "done"} =>
       q = p + Len(rds[r].out) /\ Run(rds[r].out, p, Len(rds[r].out))
  /\ lock \notin Readers => q = p

\* What never happens in a streaming mode.
Unframed ==
  /\ line.f = 1 /\ bcfifo = <<>> /\ rx_frame_size = 0 /\ purge.pc = "idle"
  /\ \A r \in Readers : /\ reader[r].pc \notin {"copy", "next"}
                        /\ reader[r].pc \in {"idle", "retrieve", "enter"} => reader[r].out = <<>>
  /\ \A i \in Ring : LET d == rx_descriptors[i]
                     IN /\ "FE" \notin d.flags /\ d.cnt % 4 = 0
                        /\ i # fifo_rx_desc \/ "CSTOP" \in d.flags => d.cnt = 0

StreamInv ==
  /\ Unframed
  /\ completed \in Seq(ReadCompletions)
  /\ \E p \in Nat, w \in 0..RxNum, s \in [0..RxNum -> Nat] :
       /\ Told(completed, p)
       /\ RingRun(rx_descriptors, user_rx_desc, fifo_rx_desc, w, s)
       /\ LineRun(rxfifo, line.k, s[w] + rx_descriptors[fifo_rx_desc].cnt)
       /\ UserRun(reader, board_rx_spinlock, p, s[0])

\* Two stretches that follow each other are one.
LEMMA RunConcat ==
  ASSUME NEW S, NEW a \in Seq(S), NEW b \in Seq(S), NEW p \in Nat,
         Run(a, p, Len(a)), Run(b, p + Len(a), Len(b))
  PROVE  Run(a \o b, p, Len(a) + Len(b))
<1>1. Len(a) \in Nat /\ Len(b) \in Nat
  OBVIOUS
<1>2. ASSUME NEW j \in 1..(Len(a) + Len(b))
      PROVE  (a \o b)[j] = <<1, p + j>>
  <2>1. CASE j <= Len(a)
    <3>1. (a \o b)[j] = a[j] /\ j \in 1..Len(a)
      BY <1>1, <2>1
    <3> QED BY <3>1 DEF Run
  <2>2. CASE j > Len(a)
    <3>1. (a \o b)[j] = b[j - Len(a)] /\ j - Len(a) \in 1..Len(b)
      BY <1>1, <2>2
    <3>2. b[j - Len(a)] = <<1, (p + Len(a)) + (j - Len(a))>>
      BY <3>1 DEF Run
    <3>3. (p + Len(a)) + (j - Len(a)) = p + j
      BY <1>1
    <3> QED BY <3>1, <3>2, <3>3
  <2> QED BY <1>1, <2>1, <2>2
<1> QED BY <1>2 DEF Run

\* One more completion: its output is appended to what was returned before.
LEMMA ToldGrows ==
  ASSUME NEW h \in Seq(ReadCompletions), NEW c \in ReadCompletions, NEW p \in Nat,
         Told(h, p), Run(c.out, p, Len(c.out))
  PROVE  Told(Append(h, c), p + Len(c.out))
<1> DEFINE n == Len(h)
           e == Append(h, c)
<1>1. n \in Nat /\ Len(e) = n + 1 /\ e[n + 1] = c /\ \A i \in 1..n : e[i] = h[i]
  BY AppendProperties, LenProperties
<1>2. c.out \in Seq(Byte) /\ Len(c.out) \in Nat
  BY LenProperties DEF ReadCompletions
<1> HIDE DEF n, e
<1>3. \E g : Concats(g, e)
  <2>1. PICK g : Concats(g, h)
    BY DEF Told
  <2> DEFINE G == [i \in 0..(n + 1) |-> IF i = n + 1 THEN g[n] \o c.out ELSE g[i]]
  <2>2. \A i \in 0..n : g[i] = IF i = 0 THEN <<>> ELSE g[i - 1] \o h[i].out
    BY <2>1 DEF Concats, n
  <2>3. \A i \in 0..(n + 1) : G[i] = IF i = 0 THEN <<>> ELSE G[i - 1] \o e[i].out
    <3> SUFFICES ASSUME NEW i \in 0..(n + 1)
                 PROVE  G[i] = IF i = 0 THEN <<>> ELSE G[i - 1] \o e[i].out
      OBVIOUS
    <3>1. CASE i = 0
      BY <3>1, <2>2, <1>1
    <3>2. CASE i = n + 1
      <4>1. i # 0 /\ i - 1 = n /\ n \in 0..(n + 1) /\ n # n + 1
        BY <3>2, <1>1
      <4> QED BY <3>2, <4>1, <1>1
    <3>3. CASE i # 0 /\ i # n + 1
      <4>1. i \in 1..n /\ i \in 0..n /\ i - 1 \in 0..(n + 1) /\ i - 1 # n + 1
        BY <3>3, <1>1
      <4>2. G[i] = g[i] /\ G[i - 1] = g[i - 1] /\ e[i] = h[i]
        BY <3>3, <4>1, <1>1
      <4> QED BY <3>3, <4>1, <4>2, <2>2
    <3> QED BY <3>1, <3>2, <3>3
  <2>4. G = [i \in 0..(n + 1) |-> IF i = 0 THEN <<>> ELSE G[i - 1] \o e[i].out]
    <3>1. G = [i \in 0..(n + 1) |-> G[i]]
      OBVIOUS
    <3> HIDE DEF G
    <3> QED BY <3>1, <2>3, Zenon
  <2> HIDE DEF G
  <2>5. Concats(G, e)
    BY <2>4, <1>1 DEF Concats
  <2> QED BY <2>5
<1>4. ASSUME NEW G, Concats(G, e)
      PROVE  /\ G[Len(e)] \in Seq(Byte) /\ Len(G[Len(e)]) = p + Len(c.out)
             /\ Run(G[Len(e)], 0, p + Len(c.out))
  <2> DEFINE g == [i \in 0..n |-> G[i]]
  <2>1. \A i \in 0..(n + 1) : G[i] = IF i = 0 THEN <<>> ELSE G[i - 1] \o e[i].out
    BY <1>4, <1>1 DEF Concats
  <2>2. \A i \in 0..n : g[i] = IF i = 0 THEN <<>> ELSE g[i - 1] \o h[i].out
    <3> SUFFICES ASSUME NEW i \in 0..n
                 PROVE  g[i] = IF i = 0 THEN <<>> ELSE g[i - 1] \o h[i].out
      OBVIOUS
    <3>1. g[i] = G[i] /\ i \in 0..(n + 1)
      BY <1>1
    <3>2. i # 0 => g[i - 1] = G[i - 1] /\ e[i] = h[i]
      BY <1>1
    <3> HIDE DEF g
    <3> QED BY <3>1, <3>2, <2>1
  <2>3. g = [i \in 0..n |-> IF i = 0 THEN <<>> ELSE g[i - 1] \o h[i].out]
    <3>1. g = [i \in 0..n |-> g[i]]
      OBVIOUS
    <3> HIDE DEF g
    <3> QED BY <3>1, <2>2, Zenon
  <2>4. g[n] = G[n] /\ n \in 0..(n + 1)
    BY <1>1
  <2> HIDE DEF g
  <2>5. g[n] \in Seq(Byte) /\ Len(g[n]) = p /\ Run(g[n], 0, p)
    BY <2>3 DEF Told, Concats, n
  <2>6. G[n + 1] = g[n] \o c.out
    <3>1. n + 1 \in 0..(n + 1) /\ n + 1 # 0 /\ (n + 1) - 1 = n
      BY <1>1
    <3> QED BY <3>1, <2>1, <2>4, <1>1
  <2>7. Run(g[n] \o c.out, 0, p + Len(c.out))
    <3>1. 0 + Len(g[n]) = p
      BY <2>5
    <3>2. Run(c.out, 0 + Len(g[n]), Len(c.out)) /\ Run(g[n], 0, Len(g[n]))
      BY <3>1, <2>5
    <3>3. Run(g[n] \o c.out, 0, Len(g[n]) + Len(c.out))
      BY <3>2, <2>5, <1>2, RunConcat
    <3> QED BY <3>3, <2>5
  <2>8. g[n] \o c.out \in Seq(Byte) /\ Len(g[n] \o c.out) = p + Len(c.out)
    BY <2>5, <1>2, ConcatProperties
  <2> QED BY <1>1, <2>6, <2>7, <2>8
<1> QED BY <1>3, <1>4 DEF Told, e

\* A step that leaves what was told, the ring and the line alone, and keeps the
\* reader's part, keeps the stream.
LEMMA StreamKept ==
  ASSUME StreamInv, Unframed', completed' \in Seq(ReadCompletions),
         UNCHANGED <<rx_descriptors, user_rx_desc, fifo_rx_desc, rxfifo, line>>,
         completed' = completed,
         \A p, q \in Nat : UserRun(reader, board_rx_spinlock, p, q) =>
                             UserRun(reader', board_rx_spinlock', p, q)
  PROVE  StreamInv'
<1>1. PICK p \in Nat, w \in 0..RxNum, s \in [0..RxNum -> Nat] :
        /\ Told(completed, p)
        /\ RingRun(rx_descriptors, user_rx_desc, fifo_rx_desc, w, s)
        /\ LineRun(rxfifo, line.k, s[w] + rx_descriptors[fifo_rx_desc].cnt)
        /\ UserRun(reader, board_rx_spinlock, p, s[0])
  BY DEF StreamInv
<1>2. s[0] \in Nat
  BY RingFacts
<1>3. UserRun(reader', board_rx_spinlock', p, s[0])
  BY <1>1, <1>2
<1>4. /\ Told(completed', p)
      /\ RingRun(rx_descriptors', user_rx_desc', fifo_rx_desc', w, s)
      /\ LineRun(rxfifo', line'.k, s[w] + rx_descriptors'[fifo_rx_desc'].cnt)
  BY <1>1
<1> QED BY <1>3, <1>4 DEF StreamInv

\* Unframed depends on these only.
LEMMA UnframedKept ==
  ASSUME Unframed,
         UNCHANGED <<line, bcfifo, rx_frame_size, purge, reader, rx_descriptors, fifo_rx_desc>>
  PROVE  Unframed'
BY DEF Unframed

\* The line: the bytes that arrive go on where the FIFO ends.
LEMMA StreamArrive ==
  ASSUME Streaming, IndInv, StreamInv, NEW n \in Arrivals, LineArrive(n)
  PROVE  StreamInv'
<1> USE DEF ring, dpcs, user, ioctl
<1> DEFINE data == [j \in 1..n |-> <<line.f, line.k + j>>]
<1>1. n \in Nat /\ line \in [f : Nat \ {0}, k : Nat] /\ rxfifo \in Seq(Byte)
  BY LineAssumption DEF IndInv, TypeOK, TypeDevice
<1>2. line.f = 1 /\ line.k \in Nat
  BY <1>1 DEF StreamInv, Unframed
<1>3. /\ rxfifo' = rxfifo \o data /\ bcfifo' = bcfifo
      /\ line' = [line EXCEPT !.k = line.k + n]
      /\ UNCHANGED <<rx_descriptors, user_rx_desc, fifo_rx_desc, rx_frame_size, reader, completed,
                     purge, board_rx_spinlock>>
  BY DEF LineArrive
<1>4. line'.f = 1 /\ line'.k = line.k + n
  BY <1>1, <1>2, <1>3
<1>5. data \in Seq(Byte) /\ Len(data) = n
  <2>1. data \in [1..n -> Byte]
    BY <1>1 DEF Byte
  <2> HIDE DEF data
  <2> QED BY <1>1, <2>1, FunctionIsSeq
<1>6. Run(data, line.k, n)
  BY <1>2 DEF Run
<1> HIDE DEF data
<1>7. Unframed'
  BY <1>3, <1>4 DEF StreamInv, Unframed
<1>8. PICK p \in Nat, w \in 0..RxNum, s \in [0..RxNum -> Nat] :
        /\ Told(completed, p)
        /\ RingRun(rx_descriptors, user_rx_desc, fifo_rx_desc, w, s)
        /\ LineRun(rxfifo, line.k, s[w] + rx_descriptors[fifo_rx_desc].cnt)
        /\ UserRun(reader, board_rx_spinlock, p, s[0])
  BY DEF StreamInv
<1> DEFINE t == s[w] + rx_descriptors[fifo_rx_desc].cnt
<1>9. t \in Nat
  BY DescFields DEF IndInv, TypeOK, TypeRing
<1>10. LineRun(rxfifo, line.k, t)
  BY <1>8
<1> HIDE DEF t
<1>11. LineRun(rxfifo', line'.k, t)
  <2>1. Len(rxfifo) \in Nat /\ Len(rxfifo') = Len(rxfifo) + n
    <3>1. Len(rxfifo \o data) = Len(rxfifo) + Len(data)
      BY <1>1, <1>5, ConcatProperties
    <3> QED BY <1>1, <1>3, <1>5, <3>1, LenProperties
  <2>2. line.k = t + Len(rxfifo)
    BY <1>10 DEF LineRun
  <2>3. Run(rxfifo', t, Len(rxfifo) + Len(data))
    <3>1. Run(rxfifo, t, Len(rxfifo)) /\ Run(data, t + Len(rxfifo), Len(data))
      BY <1>5, <1>6, <1>10, <2>2 DEF LineRun
    <3>2. Run(rxfifo \o data, t, Len(rxfifo) + Len(data))
      BY <1>1, <1>5, <1>9, <3>1, RunConcat
    <3> QED BY <1>3, <3>2
  <2>4. line'.k = t + Len(rxfifo')
    BY <1>1, <1>4, <1>9, <2>1, <2>2
  <2> QED BY <1>5, <2>1, <2>3, <2>4 DEF LineRun
<1>12. LineRun(rxfifo', line'.k, s[w] + rx_descriptors'[fifo_rx_desc'].cnt)
  BY <1>3, <1>11 DEF t
<1> QED BY <1>3, <1>7, <1>8, <1>12 DEF StreamInv

\* The next descriptor is finished: it continues the stretches.
LEMMA StretchesGrow ==
  ASSUME NEW S, NEW ds \in [Ring -> S], NEW u \in Ring, NEW f \in Ring, NEW w \in Ring,
         f = RingPos(u, w), NEW s \in [0..RxNum -> Nat], Stretches(ds, u, w, s),
         NEW d, d.data_count \in Nat \ {0}, Run(d.buffer, s[w], d.data_count)
  PROVE  Stretches([ds EXCEPT ![f] = d], u, w + 1, [s EXCEPT ![w + 1] = s[w] + d.data_count])
<1> DEFINE z == [s EXCEPT ![w + 1] = s[w] + d.data_count]
           e == [ds EXCEPT ![f] = d]
<1>1. w \in Nat /\ w + 1 \in 0..RxNum /\ w \in 0..RxNum
  BY RingFacts
<1>2. z[w + 1] = s[w] + d.data_count /\ \A k \in 0..w : z[k] = s[k]
  BY <1>1, RingFacts
<1>3. ASSUME NEW k \in 0..((w + 1) - 1)
      PROVE  LET x == e[RingPos(u, k)]
             IN x.data_count >= 1 /\ z[k + 1] = z[k] + x.data_count /\ Run(x.buffer, z[k], x.data_count)
  <2>1. k \in Ring /\ k \in 0..w
    BY <1>1, RingFacts DEF Ring
  <2>2. RingPos(u, k) \in Ring
    BY <2>1, PosType, RingFacts
  <2>3. CASE k = w
    <3>1. e[RingPos(u, k)] = d
      BY <2>2, <2>3
    <3>2. z[k] = s[w] /\ z[k + 1] = s[w] + d.data_count
      BY <1>2, <2>1, <2>3
    <3> HIDE DEF e, z
    <3> QED BY <3>1, <3>2
  <2>4. CASE k # w
    <3>1. RingPos(u, k) # f /\ k \in 0..(w - 1) /\ k + 1 \in 0..w
      BY <1>1, <2>1, <2>4, PosInjective
    <3>2. e[RingPos(u, k)] = ds[RingPos(u, k)] /\ z[k] = s[k] /\ z[k + 1] = s[k + 1]
      BY <1>2, <2>1, <2>2, <3>1
    <3> HIDE DEF e, z
    <3> QED BY <3>1, <3>2 DEF Stretches
  <2> QED BY <2>3, <2>4
<1> HIDE DEF e, z
<1>4. Stretches(e, u, w + 1, z)
  BY <1>3 DEF Stretches
<1> QED BY <1>4 DEF e, z

\* What happens to the descriptor behind the stretches does not matter to them.
LEMMA StretchesStay ==
  ASSUME NEW S, NEW ds \in [Ring -> S], NEW u \in Ring, NEW f \in Ring, NEW w \in Ring,
         f = RingPos(u, w), NEW s, Stretches(ds, u, w, s), NEW d
  PROVE  Stretches([ds EXCEPT ![f] = d], u, w, s)
<1>1. w \in Nat
  BY RingFacts
<1>2. ASSUME NEW k \in 0..(w - 1)
      PROVE  [ds EXCEPT ![f] = d][RingPos(u, k)] = ds[RingPos(u, k)]
  <2>1. k \in Ring /\ k # w
    BY <1>1, RingFacts DEF Ring
  <2>2. RingPos(u, k) \in Ring /\ RingPos(u, k) # f
    BY <2>1, PosType, PosInjective, RingFacts
  <2> QED BY <2>2
<1> QED BY <1>2 DEF Stretches

\* The first descriptor was returned and is released: everything is one step less ahead.
LEMMA StretchesShrink ==
  ASSUME NEW S, NEW ds \in [Ring -> S], NEW u \in Ring, NEW w \in 0..RxNum, w # 0,
         NEW s, Stretches(ds, u, w, s), NEW d,
         NEW z, \A k \in 0..(w - 1) : z[k] = s[k + 1]
  PROVE  Stretches([ds EXCEPT ![u] = d], NextDesc(u), w - 1, z)
<1>1. w \in Nat /\ w <= RxNum /\ RxNum \in Nat
  BY RingFacts
<1>2. ASSUME NEW k \in 0..((w - 1) - 1)
      PROVE  /\ [ds EXCEPT ![u] = d][RingPos(NextDesc(u), k)] = ds[RingPos(u, k + 1)]
             /\ z[k] = s[k + 1] /\ z[k + 1] = s[(k + 1) + 1]
  <2>1. k \in Ring /\ k + 1 \in Ring /\ k + 1 # 0 /\ k \in 0..(w - 1) /\ k + 1 \in 0..(w - 1)
    BY <1>1 DEF Ring
  <2>2. RingPos(NextDesc(u), k) = RingPos(u, k + 1) /\ RingPos(u, k + 1) \in Ring
    BY <2>1, PosOfNext, PosType, RingFacts
  <2>3. RingPos(u, k + 1) # u
    BY <2>1, PosInjective, PosZero, RingFacts
  <2> QED BY <2>1, <2>2, <2>3
<1>3. \A k \in 0..((w - 1) - 1) : k + 1 \in 0..(w - 1)
  BY <1>1
<1> QED BY <1>2, <1>3 DEF Stretches

\* The first descriptor was returned in part: it holds the rest.
LEMMA StretchesCut ==
  ASSUME NEW S, NEW ds \in [Ring -> S], NEW u \in Ring, NEW w \in 0..RxNum, w # 0,
         NEW s \in [0..RxNum -> Nat], Stretches(ds, u, w, s), NEW d, NEW n \in Nat,
         ds[u].data_count \in Nat, n < ds[u].data_count, d.data_count = ds[u].data_count - n,
         Run(d.buffer, s[0] + n, d.data_count)
  PROVE  Stretches([ds EXCEPT ![u] = d], u, w, [s EXCEPT ![0] = s[0] + n])
<1> DEFINE z == [s EXCEPT ![0] = s[0] + n]
           e == [ds EXCEPT ![u] = d]
<1>1. w \in Nat /\ w <= RxNum /\ RxNum \in Nat /\ s[0] \in Nat
  BY RingFacts
<1>2. z[0] = s[0] + n /\ \A k \in 1..w : z[k] = s[k]
  BY <1>1
<1>3. ASSUME NEW k \in 0..(w - 1)
      PROVE  LET x == e[RingPos(u, k)]
             IN x.data_count >= 1 /\ z[k + 1] = z[k] + x.data_count /\ Run(x.buffer, z[k], x.data_count)
  <2>0. k \in Ring /\ k + 1 \in 1..w /\ k \in 0..RxNum
    BY <1>1 DEF Ring
  <2>1. k \in Ring /\ k + 1 \in 1..w /\ RingPos(u, k) \in Ring
    BY <2>0, PosType
  <2>2. CASE k = 0
    <3>1. e[RingPos(u, k)] = d /\ ds[RingPos(u, k)] = ds[u]
      BY <2>2, PosZero
    <3>2. s[1] = s[0] + ds[u].data_count
      BY <2>2, <3>1 DEF Stretches
    <3>3. z[k] = s[0] + n /\ z[k + 1] = s[1]
      BY <1>2, <2>1, <2>2
    <3> HIDE DEF e, z
    <3>4. z[k + 1] = z[k] + d.data_count /\ d.data_count >= 1
      <4> DEFINE a == s[0]
                 b == ds[u].data_count
      <4>1. a \in Nat /\ b \in Nat /\ n < b /\ d.data_count = b - n /\ z[k] = a + n /\ z[k + 1] = a + b
        BY <1>1, <3>2, <3>3
      <4> HIDE DEF a, b
      <4> QED BY <4>1
    <3> QED BY <3>1, <3>3, <3>4
  <2>3. CASE k # 0
    <3>1. RingPos(u, k) # u /\ k \in 1..w
      BY <1>1, <2>1, <2>3, PosInjective, PosZero, RingFacts
    <3>2. e[RingPos(u, k)] = ds[RingPos(u, k)] /\ z[k] = s[k] /\ z[k + 1] = s[k + 1]
      BY <1>2, <2>1, <3>1
    <3> HIDE DEF e, z
    <3> QED BY <3>2 DEF Stretches
  <2> QED BY <2>2, <2>3
<1> HIDE DEF e, z
<1>4. Stretches(e, u, w, z)
  BY <1>3 DEF Stretches
<1> QED BY <1>4 DEF e, z

\* In a stream there is no padding: RXCNT is the number of bytes in the FIFO.
LEMMA StreamCount ==
  ASSUME rxfifo \in Seq(Byte), NEW t, Run(rxfifo, t, Len(rxfifo))
  PROVE  fscc_io_get_RXCNT = Len(rxfifo)
<1>1. Len(rxfifo) \in Nat
  BY LenProperties
<1>2. \A j \in 1..Len(rxfifo) : rxfifo[j] # Pad
  BY DEF Run, Pad
<1>3. {j \in 1..Len(rxfifo) : rxfifo[j] # Pad} = 1..Len(rxfifo)
  BY <1>2
<1>4. Cardinality(1..Len(rxfifo)) = Len(rxfifo)
  <2>1. 1 <= Len(rxfifo) \/ 1 > Len(rxfifo)
    BY <1>1
  <2>2. Cardinality(1..Len(rxfifo)) = IF 1 > Len(rxfifo) THEN 0 ELSE Len(rxfifo) - 1 + 1
    BY <1>1, FS_Interval
  <2> QED BY <1>1, <2>2
<1> QED BY <1>3, <1>4 DEF fscc_io_get_RXCNT

\* How much one iteration of fscc_fifo_read_data moves in a stream: whole words, not
\* more than there is and not more than fits.
LEMMA StreamLength ==
  ASSUME RxSize % 4 = 0, IndInv, Unframed, FifoStore,
         NEW t, Run(rxfifo, t, Len(rxfifo))
  PROVE  LET cnt == rx_descriptors[fifo_rx_desc].cnt
         IN /\ receive_length \in Nat /\ receive_length <= Len(rxfifo)
            /\ cnt + receive_length <= RxSize /\ (cnt + receive_length) % 4 = 0
            /\ WordsOf(receive_length) = receive_length
<1> DEFINE cnt == rx_descriptors[fifo_rx_desc].cnt
           m   == Len(rxfifo)
<1>1. rxfifo \in Seq(Byte) /\ m \in Nat /\ fifo_rx_desc \in Ring
  BY DEF IndInv, TypeOK, TypeDevice, TypeRing, Ring
<1>2. cnt \in Nat /\ cnt <= RxSize /\ cnt % 4 = 0 /\ rx_frame_size = 0
  BY <1>1, DescFields DEF IndInv, TypeOK, TypeRing, DescInv, FifoStore, Unframed, Ring
<1>3. fscc_io_get_RXCNT = m
  BY <1>1, StreamCount
<1>4. receive_length = MinOf(m - (m % 4), RxSize - cnt)
  BY <1>2, <1>3 DEF receive_length
<1> HIDE DEF cnt, m
<1>5. RxSize \in Nat
  BY RingAssumption
<1>6. /\ receive_length \in Nat /\ receive_length <= m /\ cnt + receive_length <= RxSize
      /\ receive_length % 4 = 0
  <2> DEFINE q == m - (m % 4)
             f == RxSize - cnt
  <2>1. q \in Nat /\ q <= m /\ q % 4 = 0
    BY <1>1
  <2>2. f \in Nat /\ f % 4 = 0 /\ cnt + f = RxSize
    BY <1>2, <1>5
  <2>3. receive_length = MinOf(q, f)
    BY <1>4
  <2> HIDE DEF q, f
  <2>4. CASE q <= f
    BY <1>1, <1>2, <1>5, <2>1, <2>2, <2>3, <2>4 DEF MinOf
  <2>5. CASE f < q
    BY <1>1, <1>2, <1>5, <2>1, <2>2, <2>3, <2>5 DEF MinOf
  <2> QED BY <2>1, <2>2, <2>4, <2>5
<1>7. (cnt + receive_length) % 4 = 0 /\ WordsOf(receive_length) = receive_length
  BY <1>2, <1>6 DEF WordsOf
<1> QED BY <1>6, <1>7 DEF cnt, m

\* iframe_worker moves the front of the FIFO behind the stretches.
LEMMA StreamStore ==
  ASSUME RxSize % 4 = 0, Streaming, IndInv, StreamInv, FifoStore
  PROVE  StreamInv'
<1> USE DEF ring, dpcs, user, ioctl
<1> DEFINE old == rx_descriptors[fifo_rx_desc]
           n   == receive_length
           d   == StoreInDesc(old, n)
<1>1. /\ old \in Desc /\ fifo_rx_desc \in Ring /\ user_rx_desc \in Ring
      /\ rx_descriptors \in [Ring -> Desc] /\ rxfifo \in Seq(Byte) /\ Len(rxfifo) \in Nat
  BY DEF IndInv, TypeOK, TypeRing, TypeDevice, Ring
<1>2. /\ "CSTOP" \notin old.flags /\ "FE" \notin old.flags /\ rx_frame_size = 0
      /\ old.cnt \in Nat /\ RxSize \in Nat \ {0} /\ ~Finished(old)
  BY <1>1, RingAssumption DEF FifoStore, IndInv, DescInv, StreamInv, Unframed, Ring, Desc, Finished
<1>3. PICK p \in Nat, w \in 0..RxNum, s \in [0..RxNum -> Nat] :
        /\ Told(completed, p)
        /\ RingRun(rx_descriptors, user_rx_desc, fifo_rx_desc, w, s)
        /\ LineRun(rxfifo, line.k, s[w] + rx_descriptors[fifo_rx_desc].cnt)
        /\ UserRun(reader, board_rx_spinlock, p, s[0])
  BY DEF StreamInv
<1> DEFINE t == s[w] + old.cnt
<1>4. s[w] \in Nat /\ t \in Nat /\ LineRun(rxfifo, line.k, t)
  BY <1>2, <1>3
<1>5. /\ n \in Nat /\ n <= Len(rxfifo) /\ old.cnt + n <= RxSize /\ (old.cnt + n) % 4 = 0
      /\ WordsOf(n) = n
  BY <1>4, StreamLength DEF StreamInv, LineRun
<1>6. /\ d.flags = IF old.cnt + n = RxSize THEN {"CSTOP"} ELSE {}
      /\ d.cnt = IF old.cnt + n = RxSize THEN 0 ELSE old.cnt + n
      /\ old.cnt + n = RxSize => d.data_count = RxSize
      /\ d.buffer = [j \in 1..RxSize |-> IF j > old.cnt /\ j <= old.cnt + n
                                           THEN FifoBytes(n)[j - old.cnt] ELSE old.buffer[j]]
  <2>1. ~FrameDone(n) /\ old.flags = {}
    <3> HIDE DEF old, n
    <3>1. old.flags \in SUBSET {"FE", "CSTOP"}
      BY <1>1 DEF Desc
    <3> QED BY <3>1, <1>2 DEF FrameDone
  <2>2. old.cnt + n >= RxSize <=> old.cnt + n = RxSize
    BY <1>2, <1>5
  <2> HIDE DEF old, n
  <2> QED BY <2>1, <2>2 DEF StoreInDesc
<1>7. /\ rxfifo' = FifoRemainder(n) /\ user_rx_desc' = user_rx_desc
      /\ rx_descriptors' = [rx_descriptors EXCEPT ![fifo_rx_desc] = d]
      /\ fifo_rx_desc' = IF "CSTOP" \in d.flags THEN NextDesc(fifo_rx_desc) ELSE fifo_rx_desc
      /\ rx_frame_size' = 0
      /\ UNCHANGED <<line, bcfifo, purge, reader, completed, board_rx_spinlock>>
  BY <1>2 DEF FifoStore
<1>8. Run(d.buffer, s[w], old.cnt + n)
  <2>1. Run(old.buffer, s[w], old.cnt) /\ Run(rxfifo, t, Len(rxfifo))
    BY <1>3, <1>4 DEF RingRun, LineRun
  <2> HIDE DEF old, n, d
  <2>2. ASSUME NEW j \in 1..(old.cnt + n)
        PROVE  d.buffer[j] = <<1, s[w] + j>>
    <3>1. j \in 1..RxSize
      BY <1>2, <1>5
    <3>2. CASE j <= old.cnt
      <4>1. d.buffer[j] = old.buffer[j] /\ j \in 1..old.cnt
        BY <1>2, <1>6, <3>1, <3>2
      <4> QED BY <2>1, <4>1 DEF Run
    <3>3. CASE j > old.cnt
      <4>1. j - old.cnt \in 1..n /\ j - old.cnt \in 1..Len(rxfifo) /\ j <= old.cnt + n
        BY <1>1, <1>2, <1>5, <3>3
      <4>2. d.buffer[j] = FifoBytes(n)[j - old.cnt]
        BY <1>6, <3>1, <3>3, <4>1
      <4>3. FifoBytes(n)[j - old.cnt] = rxfifo[j - old.cnt]
        BY <1>1, <4>1 DEF FifoBytes
      <4>4. rxfifo[j - old.cnt] = <<1, t + (j - old.cnt)>>
        BY <2>1, <4>1 DEF Run
      <4>5. t + (j - old.cnt) = s[w] + j
        BY <1>2, <1>4
      <4> QED BY <4>2, <4>3, <4>4, <4>5
    <3> QED BY <1>2, <3>2, <3>3
  <2> QED BY <2>2 DEF Run
<1> HIDE DEF n, d
<1>9. LineRun(rxfifo', line'.k, t + n)
  <2>1. /\ rxfifo' = SubSeq(rxfifo, n + 1, Len(rxfifo))
        /\ Len(rxfifo') = Len(rxfifo) - n
        /\ \A j \in 1..(Len(rxfifo) - n) : rxfifo'[j] = rxfifo[n + j]
    <3>1. rxfifo' = SubSeq(rxfifo, n + 1, Len(rxfifo))
      BY <1>5, <1>7 DEF FifoRemainder
    <3>2. n + 1 \in 1..(Len(rxfifo) + 1) /\ Len(rxfifo) \in n..Len(rxfifo)
      BY <1>1, <1>5
    <3>3. /\ Len(SubSeq(rxfifo, n + 1, Len(rxfifo))) = Len(rxfifo) - n
          /\ \A j \in 1..(Len(rxfifo) - n) :
               SubSeq(rxfifo, n + 1, Len(rxfifo))[j] = rxfifo[n + j]
      BY <1>1, <1>5, <3>2
    <3> QED BY <3>1, <3>3
  <2>2. ASSUME NEW j \in 1..(Len(rxfifo) - n)
        PROVE  rxfifo'[j] = <<1, (t + n) + j>>
    <3>1. n + j \in 1..Len(rxfifo)
      BY <1>1, <1>5
    <3>2. rxfifo[n + j] = <<1, t + (n + j)>>
      BY <1>4, <3>1 DEF LineRun, Run
    <3>3. t + (n + j) = (t + n) + j
      BY <1>4, <1>5
    <3> QED BY <2>1, <3>2, <3>3
  <2>3. line.k = t + Len(rxfifo)
    BY <1>4 DEF LineRun
  <2> HIDE DEF t
  <2>4. line'.k = (t + n) + Len(rxfifo')
    BY <1>1, <1>4, <1>5, <1>7, <2>1, <2>3
  <2> QED BY <2>1, <2>2, <2>4 DEF LineRun, Run
<1>10. w \in Ring /\ fifo_rx_desc = RingPos(user_rx_desc, w)
  <2>1. fifo_rx_desc = RingPos(user_rx_desc, w)
    BY <1>3 DEF RingRun, Window
  <2>2. w # RxNum
    <3>1. CASE w = RxNum
      <4>1. fifo_rx_desc = RingPos(user_rx_desc, 0) /\ 0 \in Ring /\ 0 < w
        BY <1>1, <2>1, <3>1, PosZero, RingFacts, RingAssumption
      <4>2. Finished(rx_descriptors[fifo_rx_desc])
        BY <1>3, <4>1 DEF RingRun, Window
      <4> QED BY <1>2, <4>2
    <3> QED BY <3>1
  <2> QED BY <2>1, <2>2, RingFacts
<1>11. Unframed'
  <2>1. ASSUME NEW i \in Ring
        PROVE  LET x == rx_descriptors'[i]
               IN /\ "FE" \notin x.flags /\ x.cnt % 4 = 0
                  /\ i # fifo_rx_desc' \/ "CSTOP" \in x.flags => x.cnt = 0
    <3>1. CASE i = fifo_rx_desc
      <4>1. rx_descriptors'[i] = d
        BY <1>1, <1>7, <3>1
      <4>2. CASE old.cnt + n = RxSize
        BY <1>6, <4>1, <4>2
      <4>3. CASE old.cnt + n # RxSize
        BY <1>5, <1>6, <1>7, <3>1, <4>1, <4>3
      <4> QED BY <4>2, <4>3
    <3>2. CASE i # fifo_rx_desc
      <4>1. rx_descriptors'[i] = rx_descriptors[i]
        BY <1>1, <1>7, <3>2
      <4>2. /\ "FE" \notin rx_descriptors[i].flags /\ rx_descriptors[i].cnt % 4 = 0
            /\ rx_descriptors[i].cnt = 0
        BY <3>2 DEF StreamInv, Unframed
      <4> QED BY <4>1, <4>2
    <3> QED BY <3>1, <3>2
  <2> QED BY <1>7, <2>1 DEF StreamInv, Unframed
<1> HIDE DEF t
<1>12. CASE old.cnt + n = RxSize
  <2> DEFINE z == [s EXCEPT ![w + 1] = s[w] + RxSize]
  <2>1. w \in Nat /\ w + 1 \in 0..RxNum /\ w + 1 # 0
    BY <1>10, RingFacts
  <2>2. z \in [0..RxNum -> Nat] /\ z[0] = s[0] /\ z[w + 1] = s[w] + RxSize
    BY <1>2, <1>4, <2>1
  <2>3. d.flags = {"CSTOP"} /\ d.cnt = 0 /\ d.data_count = RxSize /\ Finished(d)
    BY <1>6, <1>12 DEF Finished
  <2>4. fifo_rx_desc' = NextDesc(fifo_rx_desc) /\ NextDesc(fifo_rx_desc) \in Ring
    BY <1>1, <1>7, <2>3, PosOfNext
  <2>5. Window(rx_descriptors', user_rx_desc', fifo_rx_desc', w + 1)
    <3>1. Window([rx_descriptors EXCEPT ![fifo_rx_desc] = d], user_rx_desc,
                 NextDesc(fifo_rx_desc), w + 1)
      BY <1>1, <1>2, <1>3, <2>3, WindowGrows DEF RingRun
    <3> QED BY <1>7, <2>4, <3>1
  <2>6. Stretches(rx_descriptors', user_rx_desc', w + 1, z)
    <3>1. Run(d.buffer, s[w], d.data_count) /\ d.data_count \in Nat \ {0}
      BY <1>2, <1>8, <1>12, <2>3
    <3>2. Stretches(rx_descriptors, user_rx_desc, w, s)
      BY <1>3 DEF RingRun
    <3>3. Stretches([rx_descriptors EXCEPT ![fifo_rx_desc] = d], user_rx_desc, w + 1,
                    [s EXCEPT ![w + 1] = s[w] + d.data_count])
      BY <1>1, <1>10, <3>1, <3>2, StretchesGrow
    <3> QED BY <1>7, <2>3, <3>3
  <2>7. rx_descriptors'[fifo_rx_desc'].cnt = 0
    <3>1. CASE NextDesc(fifo_rx_desc) = fifo_rx_desc
      BY <1>1, <1>7, <2>3, <2>4, <3>1
    <3>2. CASE NextDesc(fifo_rx_desc) # fifo_rx_desc
      <4>1. rx_descriptors'[fifo_rx_desc'] = rx_descriptors[NextDesc(fifo_rx_desc)]
        BY <1>1, <1>7, <2>4, <3>2
      <4> QED BY <2>4, <3>2, <4>1 DEF StreamInv, Unframed
    <3> QED BY <3>1, <3>2
  <2> HIDE DEF z
  <2>8. RingRun(rx_descriptors', user_rx_desc', fifo_rx_desc', w + 1, z)
    BY <2>5, <2>6, <2>7 DEF RingRun, Run
  <2>9. z[w + 1] + rx_descriptors'[fifo_rx_desc'].cnt = t + n
    BY <1>2, <1>4, <1>5, <1>12, <2>2, <2>7 DEF t
  <2>10. /\ Told(completed', p)
         /\ LineRun(rxfifo', line'.k, z[w + 1] + rx_descriptors'[fifo_rx_desc'].cnt)
         /\ UserRun(reader', board_rx_spinlock', p, z[0])
         /\ completed' \in Seq(ReadCompletions)
    BY <1>3, <1>7, <1>9, <2>2, <2>9 DEF StreamInv
  <2> QED BY <1>11, <2>1, <2>2, <2>8, <2>10 DEF StreamInv
<1>13. CASE old.cnt + n # RxSize
  <2>1. d.flags = {} /\ d.cnt = old.cnt + n /\ ~Finished(d)
    BY <1>6, <1>13 DEF Finished
  <2>2. fifo_rx_desc' = fifo_rx_desc
    BY <1>7, <2>1
  <2>3. Window(rx_descriptors', user_rx_desc', fifo_rx_desc', w)
    <3>1. Window([rx_descriptors EXCEPT ![fifo_rx_desc] = d], user_rx_desc, fifo_rx_desc, w)
      BY <1>1, <1>2, <1>3, <2>1, WindowStays DEF RingRun
    <3> QED BY <1>7, <2>2, <3>1
  <2>4. Stretches(rx_descriptors', user_rx_desc', w, s)
    <3>1. Stretches([rx_descriptors EXCEPT ![fifo_rx_desc] = d], user_rx_desc, w, s)
      BY <1>1, <1>3, <1>10, StretchesStay DEF RingRun
    <3> QED BY <1>7, <3>1
  <2>5. rx_descriptors'[fifo_rx_desc'] = d
    BY <1>1, <1>7, <2>2
  <2>6. RingRun(rx_descriptors', user_rx_desc', fifo_rx_desc', w, s)
    BY <1>8, <2>1, <2>3, <2>4, <2>5 DEF RingRun
  <2> HIDE DEF old
  <2>7. s[w] + rx_descriptors'[fifo_rx_desc'].cnt = t + n
    <3>1. t = s[w] + old.cnt /\ d.cnt = old.cnt + n
      BY <2>1 DEF t
    <3> QED BY <1>2, <1>4, <1>5, <2>5, <3>1
  <2>8. /\ Told(completed', p)
        /\ LineRun(rxfifo', line'.k, s[w] + rx_descriptors'[fifo_rx_desc'].cnt)
        /\ UserRun(reader', board_rx_spinlock', p, s[0])
        /\ completed' \in Seq(ReadCompletions)
    BY <1>3, <1>7, <1>9, <2>7 DEF StreamInv
  <2> QED BY <1>11, <2>6, <2>8 DEF StreamInv
<1> QED BY <1>12, <1>13

\* What is copied out of the first finished descriptor goes on where the stretches start.
LEMMA StreamCopyOut ==
  ASSUME NEW d \in Desc, NEW n \in Nat, n <= d.data_count, NEW p \in Nat,
         Run(d.buffer, p, d.data_count)
  PROVE  CopyOut(d, n) \in Seq(Byte) /\ Len(CopyOut(d, n)) = n /\ Run(CopyOut(d, n), p, n)
<1>1. d.data_count \in Nat /\ d.data_count <= RxSize /\ RxSize \in Nat
  BY DescFields, RingAssumption DEF Desc
<1>2. CopyOut(d, n) \in [1..n -> Byte]
  BY RingAssumption DEF CopyOut, Desc, Byte, Pad
<1>3. CopyOut(d, n) \in Seq(Byte) /\ Len(CopyOut(d, n)) = n
  BY <1>2, FunctionIsSeq
<1>4. ASSUME NEW j \in 1..n
      PROVE  CopyOut(d, n)[j] = <<1, p + j>>
  <2>1. j \in 1..d.data_count /\ j <= RxSize
    BY <1>1
  <2>2. CopyOut(d, n)[j] = d.buffer[j]
    BY <2>1 DEF CopyOut
  <2> QED BY <2>1, <2>2 DEF Run
<1> QED BY <1>3, <1>4 DEF Run

\* A step of the reader in its critical section that stays there, after n more bytes.
LEMMA UserGoesOn ==
  ASSUME IndInv, NEW r \in Readers, board_rx_spinlock = r, reader[r].pc = "stream",
         NEW p \in Nat, NEW q \in Nat, UserRun(reader, board_rx_spinlock, p, q),
         NEW x, reader' = [reader EXCEPT ![r] = x], board_rx_spinlock' = board_rx_spinlock,
         NEW c \in Seq(Byte), Run(c, q, Len(c)), x.out = reader[r].out \o c
  PROVE  UserRun(reader', board_rx_spinlock', p, q + Len(c))
<1>1. reader \in [Readers -> ReaderState] /\ reader[r].out \in Seq(Byte)
  BY ReaderFacts, ReaderFields DEF IndInv, TypeOK, TypeUser
<1> DEFINE o == reader[r].out
<1>2. q = p + Len(o) /\ Run(o, p, Len(o)) /\ o \in Seq(Byte) /\ Len(o) \in Nat /\ Len(c) \in Nat
  BY <1>1, LenProperties DEF UserRun
<1> HIDE DEF o
<1>3. Len(o \o c) = Len(o) + Len(c) /\ Run(o \o c, p, Len(o) + Len(c))
  BY <1>2, RunConcat, ConcatProperties
<1>4. q + Len(c) = p + Len(o \o c)
  BY <1>2, <1>3
<1>5. reader'[r] = x /\ \A y \in Readers \ {r} : reader'[y] = reader[y]
  BY <1>1
<1>6. ASSUME NEW y \in Readers, reader'[y].pc \in {"stream", "done"}
      PROVE  q + Len(c) = p + Len(reader'[y].out) /\ Run(reader'[y].out, p, Len(reader'[y].out))
  <2>1. y = r
    BY <1>5, <1>6, OthersIdle
  <2>2. reader'[y].out = o \o c
    BY <1>5, <2>1 DEF o
  <2> QED BY <1>3, <1>4, <2>2
<1> QED BY <1>6 DEF UserRun

\* fscc_user_read_stream takes bytes from the front of the stretches only.
LEMMA StreamRead ==
  ASSUME IndInv, StreamInv, NEW r \in Readers, ReadStreamDesc(r)
  PROVE  StreamInv'
<1> USE DEF device, ring, dpcs, user, ioctl
<1> DEFINE rd   == reader[r]
           d    == rx_descriptors[user_rx_desc]
           n    == MinOf(d.data_count, rd.len - rd.out_length)
           c    == CopyOut(d, n)
           read == [rd EXCEPT !.i = rd.i + 1, !.out = rd.out \o c,
                              !.out_length = rd.out_length + n]
           done == [read EXCEPT !.pc = "done"]
           free == [ReleaseDesc(d) EXCEPT !.data_count = RxSize]
<1>1. /\ rd \in ReaderState /\ rd.pc = "stream" /\ board_rx_spinlock = r
      /\ user_rx_desc \in Ring /\ fifo_rx_desc \in Ring
      /\ rx_descriptors \in [Ring -> Desc] /\ d \in Desc
      /\ reader \in [Readers -> ReaderState]
  BY ReaderFacts DEF ReadStreamDesc, IndInv, LockOwnership, TypeOK, TypeRing, TypeUser, Ring
<1>2. rd.out_length <= rd.len
  BY <1>1 DEF IndInv, CopyInv
<1>3. UNCHANGED <<fifo_rx_desc, rx_frame_size, line, rxfifo, bcfifo, purge, completed,
                  board_rx_spinlock>>
  BY DEF ReadStreamDesc
<1>4. PICK p \in Nat, w \in 0..RxNum, s \in [0..RxNum -> Nat] :
        /\ Told(completed, p)
        /\ RingRun(rx_descriptors, user_rx_desc, fifo_rx_desc, w, s)
        /\ LineRun(rxfifo, line.k, s[w] + rx_descriptors[fifo_rx_desc].cnt)
        /\ UserRun(reader, board_rx_spinlock, p, s[0])
  BY DEF StreamInv
<1>5. s[0] \in Nat /\ \A q \in Readers \ {r} : reader'[q] = reader[q]
  BY <1>1, RingFacts DEF ReadStreamDesc
<1>6. \A q \in Readers : /\ reader[q].pc \notin {"copy", "next"}
                         /\ reader[q].pc \in {"idle", "retrieve", "enter"} => reader[q].out = <<>>
  BY DEF StreamInv, Unframed
<1>7. CASE rd.i = RxNum \/ ~Finished(d)
  <2> DEFINE x == [rd EXCEPT !.pc = "done"]
  <2>1. reader' = [reader EXCEPT ![r] = x] /\ UNCHANGED <<rx_descriptors, user_rx_desc>>
    BY <1>7 DEF ReadStreamDesc
  <2>2. x.pc = "done" /\ x.out = rd.out /\ rd.out \in Seq(Byte)
    BY <1>1 DEF ReaderState
  <2> HIDE DEF x
  <2>3. Unframed'
    BY <1>1, <1>3, <1>5, <1>6, <2>1, <2>2 DEF StreamInv, Unframed
  <2>4. UserRun(reader', board_rx_spinlock', p, s[0])
    <3>1. <<>> \in Seq(Byte) /\ Len(<<>>) = 0 /\ Run(<<>>, s[0], 0) /\ x.out = rd.out \o <<>>
      BY <2>2 DEF Run
    <3>2. UserRun(reader', board_rx_spinlock', p, s[0] + Len(<<>>))
      BY <1>1, <1>3, <1>4, <1>5, <2>1, <3>1, UserGoesOn
    <3> QED BY <1>5, <3>1, <3>2
  <2> QED BY <1>3, <1>4, <2>1, <2>3, <2>4 DEF StreamInv
<1>8. CASE ~(rd.i = RxNum \/ ~Finished(d))
  <2>1. /\ rx_descriptors' = [rx_descriptors EXCEPT ![user_rx_desc] =
             IF n = d.data_count THEN free ELSE ConsumeDesc(d, n)]
        /\ user_rx_desc' = IF n = d.data_count THEN NextDesc(user_rx_desc) ELSE user_rx_desc
        /\ reader' = [reader EXCEPT ![r] = IF n = d.data_count THEN read ELSE done]
    BY <1>8 DEF ReadStreamDesc
  <2>2. /\ rd.out \in Seq(Byte) /\ rd.out_length \in Nat /\ rd.len \in Nat
        /\ d.data_count \in Nat /\ d.cnt \in Nat /\ d.data_count <= RxSize
    <3> HIDE DEF rd, d
    <3> QED BY <1>1, ReaderFields, DescFields
  <2>3. Finished(d) /\ "FE" \notin d.flags /\ d.cnt = 0
    BY <1>1, <1>8 DEF StreamInv, Unframed, Finished
  <2>4. free \in Desc /\ free.flags = {} /\ free.cnt = 0 /\ ~Finished(free)
    BY <1>1, ReleaseType DEF Finished
  <2>5. read.out = rd.out \o c /\ read.pc = "stream" /\ done.out = rd.out \o c /\ done.pc = "done"
    <3> HIDE DEF c, n
    <3> QED BY <1>1 DEF ReaderState
  <2> HIDE DEF read, done
  <2>6. /\ 0 < w /\ w # 0 /\ w \in Nat /\ s[1] = s[0] + d.data_count /\ d.data_count >= 1
        /\ Run(d.buffer, s[0], d.data_count)
    <3>1. RingPos(user_rx_desc, 0) = user_rx_desc /\ 0 \in Ring
      BY <1>1, PosZero, RingFacts
    <3>2. 0 < w /\ w \in Nat
      BY <1>4, <2>3, <3>1, RingFacts DEF RingRun, Window
    <3>3. 0 \in 0..(w - 1) /\ 0 + 1 = 1
      BY <3>2
    <3> QED BY <1>4, <3>1, <3>2, <3>3 DEF RingRun, Stretches
  <2> HIDE DEF rd, free
  <2>7. n \in Nat /\ n <= d.data_count
    BY <1>2, <2>2 DEF MinOf
  <2> HIDE DEF n
  <2>8. c \in Seq(Byte) /\ Len(c) = n /\ Run(c, s[0], n)
    BY <1>1, <1>5, <2>6, <2>7, StreamCopyOut
  <2> HIDE DEF c
  <2>9. UserRun(reader', board_rx_spinlock', p, s[0] + n)
    <3> DEFINE x == IF n = d.data_count THEN read ELSE done
    <3>1. x.out = rd.out \o c /\ reader' = [reader EXCEPT ![r] = x]
      BY <2>1, <2>5
    <3> HIDE DEF x
    <3>2. x.out = reader[r].out \o c /\ reader[r].pc = "stream"
      BY <1>1, <3>1 DEF rd
    <3>3. Run(c, s[0], Len(c))
      BY <2>8
    <3>4. UserRun(reader', board_rx_spinlock', p, s[0] + Len(c))
      BY <1>1, <1>3, <1>4, <1>5, <2>8, <3>1, <3>2, <3>3, UserGoesOn
    <3> QED BY <2>8, <3>4
  <2> DEFINE y == IF n = d.data_count THEN free ELSE ConsumeDesc(d, n)
  <2>10. y.cnt = 0 /\ "FE" \notin y.flags /\ rx_descriptors' = [rx_descriptors EXCEPT ![user_rx_desc] = y]
    <3>1. ConsumeDesc(d, n).flags = d.flags /\ ConsumeDesc(d, n).cnt = d.cnt
      BY <1>1, <2>2, <2>7, ConsumeType
    <3> QED BY <2>1, <2>3, <2>4, <3>1
  <2> HIDE DEF y
  <2>11. \A i \in Ring : rx_descriptors'[i] = IF i = user_rx_desc THEN y ELSE rx_descriptors[i]
    BY <1>1, <2>10
  <2>12. Unframed'
    <3>1. reader'[r].pc \in {"stream", "done"}
      BY <1>1, <2>1, <2>5
    <3>2. \A q \in Readers : /\ reader'[q].pc \notin {"copy", "next"}
                             /\ reader'[q].pc \in {"idle", "retrieve", "enter"} => reader'[q].out = <<>>
      BY <1>5, <1>6, <3>1
    <3>3. ASSUME NEW i \in Ring
          PROVE  LET x == rx_descriptors'[i]
                 IN /\ "FE" \notin x.flags /\ x.cnt % 4 = 0
                    /\ i # fifo_rx_desc' \/ "CSTOP" \in x.flags => x.cnt = 0
      <4>1. CASE i = user_rx_desc
        BY <2>10, <2>11, <4>1
      <4>2. CASE i # user_rx_desc
        BY <1>3, <2>11, <4>2 DEF StreamInv, Unframed
      <4> QED BY <4>1, <4>2
    <3> QED BY <1>3, <3>2, <3>3 DEF StreamInv, Unframed
  \* The descriptor that is being filled keeps its bytes: if it is this one, it has none.
  <2>13. /\ rx_descriptors'[fifo_rx_desc'].cnt = rx_descriptors[fifo_rx_desc].cnt
         /\ Run(rx_descriptors'[fifo_rx_desc'].buffer, s[w], rx_descriptors[fifo_rx_desc].cnt)
    <3>1. Run(rx_descriptors[fifo_rx_desc].buffer, s[w], rx_descriptors[fifo_rx_desc].cnt)
      BY <1>4 DEF RingRun
    <3>2. CASE fifo_rx_desc = user_rx_desc
      <4>1. rx_descriptors[fifo_rx_desc].cnt = 0 /\ rx_descriptors'[fifo_rx_desc'].cnt = 0
        BY <1>1, <1>3, <2>3, <2>10, <2>11, <3>2
      <4> QED BY <4>1 DEF Run
    <3>3. CASE fifo_rx_desc # user_rx_desc
      BY <1>1, <1>3, <2>11, <3>1, <3>3
    <3> QED BY <3>2, <3>3
  <2>14. CASE n = d.data_count
    <3> DEFINE z == [k \in 0..RxNum |-> IF k = RxNum THEN 0 ELSE s[k + 1]]
    <3>1. z \in [0..RxNum -> Nat]
      <4>1. \A k \in 0..RxNum : k # RxNum => k + 1 \in 0..RxNum
        BY RingFacts
      <4> QED BY <4>1
    <3>2. /\ w - 1 \in 0..RxNum /\ w - 1 # RxNum /\ (w - 1) + 1 = w
          /\ 0 \in 0..RxNum /\ 0 # RxNum /\ 0 + 1 = 1
      BY <2>6, RingFacts, RingAssumption
    <3>3. z[w - 1] = s[w] /\ z[0] = s[1] /\ \A k \in 0..(w - 1) : z[k] = s[k + 1]
      <4>1. z[w - 1] = s[w] /\ z[0] = s[1]
        BY <3>2
      <4>2. \A k \in 0..(w - 1) : k \in 0..RxNum /\ k # RxNum
        BY <2>6, RingAssumption
      <4>3. \A k \in 0..(w - 1) : z[k] = s[k + 1]
        BY <4>2
      <4> QED BY <4>1, <4>3
    <3> HIDE DEF z
    <3>4. y = free /\ user_rx_desc' = NextDesc(user_rx_desc)
      BY <2>1, <2>14 DEF y
    <3>5. Window(rx_descriptors', user_rx_desc', fifo_rx_desc', w - 1)
      <4>1. Window([rx_descriptors EXCEPT ![user_rx_desc] = free],
                   NextDesc(user_rx_desc), fifo_rx_desc, w - 1)
        BY <1>1, <1>4, <2>3, <2>4, WindowShrinks DEF RingRun
      <4> QED BY <1>3, <2>10, <3>4, <4>1
    <3>6. Stretches(rx_descriptors', user_rx_desc', w - 1, z)
      <4>1. Stretches([rx_descriptors EXCEPT ![user_rx_desc] = free], NextDesc(user_rx_desc), w - 1, z)
        BY <1>1, <1>4, <2>6, <3>3, StretchesShrink DEF RingRun
      <4> QED BY <2>10, <3>4, <4>1
    <3>7. RingRun(rx_descriptors', user_rx_desc', fifo_rx_desc', w - 1, z)
      BY <2>13, <3>3, <3>5, <3>6 DEF RingRun
    <3>8. z[0] = s[0] + n
      BY <2>6, <2>14, <3>3
    <3>9. /\ Told(completed', p) /\ completed' \in Seq(ReadCompletions)
          /\ LineRun(rxfifo', line'.k, z[w - 1] + rx_descriptors'[fifo_rx_desc'].cnt)
          /\ UserRun(reader', board_rx_spinlock', p, z[0])
      BY <1>3, <1>4, <2>9, <2>13, <3>3, <3>8 DEF StreamInv
    <3> QED BY <2>12, <3>1, <3>2, <3>7, <3>9 DEF StreamInv
  <2>15. CASE n # d.data_count
    <3> DEFINE z == [s EXCEPT ![0] = s[0] + n]
    <3>1. z \in [0..RxNum -> Nat] /\ z[0] = s[0] + n /\ z[w] = s[w]
      BY <1>5, <2>6, <2>7, RingFacts
    <3> HIDE DEF z
    <3>2. y = ConsumeDesc(d, n) /\ user_rx_desc' = user_rx_desc
      BY <2>1, <2>15 DEF y
    <3>3. n < d.data_count
      <4> HIDE DEF d
      <4> QED BY <2>2, <2>7, <2>15
    <3>4. y.flags = d.flags /\ (Finished(y) <=> Finished(d))
      BY <1>1, <2>2, <2>7, <3>2, ConsumeType DEF Finished
    <3>5. y.data_count = d.data_count - n /\ Run(y.buffer, s[0] + n, d.data_count - n)
      <4> DEFINE b == [j \in 1..RxSize |-> IF j <= d.data_count - n THEN d.buffer[j + n]
                                                                  ELSE d.buffer[j]]
      <4>1. y = [d EXCEPT !.buffer = b, !.data_count = d.data_count - n]
        BY <3>2 DEF ConsumeDesc
      <4>2. \A j \in 1..RxSize : b[j] = IF j <= d.data_count - n THEN d.buffer[j + n] ELSE d.buffer[j]
        OBVIOUS
      <4> HIDE DEF b
      <4>3. y.buffer = b /\ y.data_count = d.data_count - n
        BY <1>1, <4>1 DEF Desc
      <4> DEFINE m == d.data_count
                 a == s[0]
      <4>4. m \in Nat /\ n \in Nat /\ n < m /\ m <= RxSize /\ RxSize \in Nat /\ a \in Nat
        BY <1>5, <2>2, <2>7, <3>3, RingAssumption
      <4>5. ASSUME NEW j \in 1..(m - n)
            PROVE  b[j] = <<1, (a + n) + j>>
        <5> HIDE DEF m, a
        <5>1. j \in 1..RxSize /\ j <= m - n /\ j + n \in 1..m /\ a + (j + n) = (a + n) + j
          BY <4>4
        <5>2. b[j] = d.buffer[j + n]
          BY <4>2, <5>1 DEF m
        <5>3. d.buffer[j + n] = <<1, a + (j + n)>>
          BY <2>6, <5>1 DEF Run, m, a
        <5> QED BY <5>1, <5>2, <5>3
      <4> QED BY <4>3, <4>5 DEF Run
    <3>6. Window(rx_descriptors', user_rx_desc', fifo_rx_desc', w)
      <4>1. Window([rx_descriptors EXCEPT ![user_rx_desc] = y], user_rx_desc, fifo_rx_desc, w)
        BY <1>1, <1>4, <3>4, WindowStays DEF RingRun
      <4> QED BY <1>3, <2>10, <3>2, <4>1
    <3>7. Stretches(rx_descriptors', user_rx_desc', w, z)
      <4>1. Run(y.buffer, s[0] + n, y.data_count)
        BY <3>5
      <4>2. Stretches([rx_descriptors EXCEPT ![user_rx_desc] = y], user_rx_desc, w,
                      [s EXCEPT ![0] = s[0] + n])
        BY <1>1, <1>4, <2>2, <2>6, <2>7, <3>3, <3>5, <4>1, StretchesCut DEF RingRun
      <4> QED BY <2>10, <3>2, <4>2 DEF z
    <3>8. RingRun(rx_descriptors', user_rx_desc', fifo_rx_desc', w, z)
      BY <2>13, <3>1, <3>6, <3>7 DEF RingRun
    <3>9. /\ Told(completed', p) /\ completed' \in Seq(ReadCompletions)
          /\ LineRun(rxfifo', line'.k, z[w] + rx_descriptors'[fifo_rx_desc'].cnt)
          /\ UserRun(reader', board_rx_spinlock', p, z[0])
      BY <1>3, <1>4, <2>9, <2>13, <3>1 DEF StreamInv
    <3> QED BY <2>12, <3>1, <3>8, <3>9 DEF StreamInv
  <2> QED BY <2>14, <2>15
<1> QED BY <1>7, <1>8

\* Steps that only move the lock between the line's side and nobody, or nothing at all.
LEMMA StreamQuiet ==
  ASSUME StreamInv, IndInv,
         UNCHANGED <<rx_descriptors, user_rx_desc, fifo_rx_desc, rxfifo, line, bcfifo, rx_frame_size,
                     purge, reader, completed>>,
         board_rx_spinlock' = board_rx_spinlock \/ board_rx_spinlock \in {"free", "iframe"}
  PROVE  StreamInv'
<1>1. Unframed'
  BY UnframedKept DEF StreamInv
<1>2. ASSUME NEW p \in Nat, NEW q \in Nat, UserRun(reader, board_rx_spinlock, p, q)
      PROVE  UserRun(reader', board_rx_spinlock', p, q)
  <2>1. board_rx_spinlock' \notin Readers => board_rx_spinlock \notin Readers
    BY ReadAssumption
  <2> QED BY <1>2, <2>1 DEF UserRun
<1> QED BY <1>1, <1>2, StreamKept DEF StreamInv

\* A reader that is not in its critical section moves on, or enters it.
LEMMA StreamReader ==
  ASSUME StreamInv, IndInv, NEW r \in Readers, NEW x,
         reader' = [reader EXCEPT ![r] = x],
         UNCHANGED <<rx_descriptors, user_rx_desc, fifo_rx_desc, rxfifo, line, bcfifo, rx_frame_size,
                     purge, completed>>,
         x.out = <<>>, x.pc \in {"idle", "retrieve", "enter", "stream"},
         \/ x.pc # "stream" /\ board_rx_spinlock' = board_rx_spinlock /\ board_rx_spinlock # r
         \/ x.pc = "stream" /\ board_rx_spinlock' = r /\ board_rx_spinlock = "free"
  PROVE  StreamInv'
<1>1. reader \in [Readers -> ReaderState]
  BY DEF IndInv, TypeOK, TypeUser
<1>2. reader'[r] = x /\ \A q \in Readers \ {r} : reader'[q] = reader[q]
  BY <1>1
<1>3. Unframed'
  BY <1>2 DEF StreamInv, Unframed
<1>4. ASSUME NEW p \in Nat, NEW q \in Nat, UserRun(reader, board_rx_spinlock, p, q)
      PROVE  UserRun(reader', board_rx_spinlock', p, q)
  <2>1. CASE x.pc # "stream"
    <3>1. ASSUME NEW y \in Readers, reader'[y].pc \in {"stream", "done"}
          PROVE  reader'[y] = reader[y]
      BY <1>2, <2>1, <3>1
    <3> QED BY <1>4, <2>1, <3>1 DEF UserRun
  <2>2. CASE x.pc = "stream"
    <3>1. ASSUME NEW y \in Readers \ {r}
          PROVE  reader'[y].pc \notin {"stream", "done"}
      BY <1>2, <2>2, ReadAssumption DEF IndInv, LockOwnership
    <3>2. q = p
      BY <1>4, <2>2, ReadAssumption DEF UserRun
    <3>3. Len(x.out) = 0 /\ q = p + Len(x.out) /\ Run(x.out, p, Len(x.out))
      BY <3>2 DEF Run
    <3> QED BY <1>2, <2>2, <3>1, <3>3 DEF UserRun
  <2> QED BY <2>1, <2>2
<1> QED BY <1>3, <1>4, StreamKept DEF StreamInv

\* The request is completed with what was copied for it.
LEMMA StreamComplete ==
  ASSUME StreamInv, IndInv, NEW r \in Readers, ReadComplete(r)
  PROVE  StreamInv'
<1> USE DEF device, ring, dpcs, user, ioctl
<1> DEFINE out == reader[r].out
           c   == Completion(reader[r].len, "success", 0, out, reader[r].out_length)
<1>1. /\ reader \in [Readers -> ReaderState] /\ board_rx_spinlock = r /\ out \in Seq(Byte)
      /\ Len(out) \in Nat
  BY ReaderFacts, ReaderFields, LenProperties
     DEF ReadComplete, IndInv, LockOwnership, TypeOK, TypeUser
<1>2. /\ UNCHANGED <<rx_descriptors, user_rx_desc, fifo_rx_desc, rxfifo, line, bcfifo, rx_frame_size,
                     purge>>
      /\ completed' = Append(completed, c) /\ reader' = [reader EXCEPT ![r] = IdleReader]
      /\ board_rx_spinlock' = "free" /\ reader[r].pc = "done"
  BY DEF ReadComplete
<1>3. c \in ReadCompletions /\ c.out = out
  BY CompletionTypes DEF Completion
<1>4. PICK p \in Nat, w \in 0..RxNum, s \in [0..RxNum -> Nat] :
        /\ Told(completed, p)
        /\ RingRun(rx_descriptors, user_rx_desc, fifo_rx_desc, w, s)
        /\ LineRun(rxfifo, line.k, s[w] + rx_descriptors[fifo_rx_desc].cnt)
        /\ UserRun(reader, board_rx_spinlock, p, s[0])
  BY DEF StreamInv
<1>5. s[0] = p + Len(out) /\ Run(out, p, Len(out))
  BY <1>2, <1>4 DEF UserRun
<1> HIDE DEF c, out
<1>6. Told(completed', p + Len(out)) /\ completed' \in Seq(ReadCompletions)
  <2>1. completed \in Seq(ReadCompletions)
    BY DEF StreamInv
  <2> QED BY <1>2, <1>3, <1>4, <1>5, <2>1, ToldGrows, AppendProperties
<1>7. reader'[r] = IdleReader /\ \A q \in Readers \ {r} : reader'[q] = reader[q]
  BY <1>1, <1>2
<1>8. Unframed'
  BY <1>2, <1>7 DEF StreamInv, Unframed, IdleReader
<1>9. UserRun(reader', board_rx_spinlock', p + Len(out), s[0])
  <2>1. \A q \in Readers : reader'[q].pc \notin {"stream", "done"}
    BY <1>1, <1>7, OthersIdle DEF IdleReader
  <2> QED BY <1>5, <2>1 DEF UserRun
<1>10. /\ RingRun(rx_descriptors', user_rx_desc', fifo_rx_desc', w, s)
       /\ LineRun(rxfifo', line'.k, s[w] + rx_descriptors'[fifo_rx_desc'].cnt)
  BY <1>2, <1>4
<1>11. p + Len(out) \in Nat
  BY <1>1
<1> QED BY <1>6, <1>8, <1>9, <1>10, <1>11 DEF StreamInv

\* A read of no bytes is completed at once and adds nothing.
LEMMA StreamEmptyRead ==
  ASSUME StreamInv, IndInv, NEW len \in ReadLens, FsccEvtIoRead(len)
  PROVE  StreamInv'
<1> USE DEF device, ring, dpcs, user, ioctl
<1>1. /\ UNCHANGED <<rx_descriptors, user_rx_desc, fifo_rx_desc, rxfifo, line, bcfifo, rx_frame_size,
                     purge, reader, board_rx_spinlock>>
  BY DEF FsccEvtIoRead
<1>2. CASE len # 0
  BY <1>1, <1>2, StreamQuiet DEF FsccEvtIoRead
<1>3. CASE len = 0
  <2> DEFINE c == Completion(0, "success", 0, <<>>, 0)
  <2>1. completed' = Append(completed, c) /\ completed \in Seq(ReadCompletions)
    BY <1>3 DEF FsccEvtIoRead, StreamInv
  <2>2. c \in ReadCompletions /\ c.out = <<>>
    BY CompletionTypes DEF Completion
  <2> HIDE DEF c
  <2>3. PICK p \in Nat, w \in 0..RxNum, s \in [0..RxNum -> Nat] :
          /\ Told(completed, p)
          /\ RingRun(rx_descriptors, user_rx_desc, fifo_rx_desc, w, s)
          /\ LineRun(rxfifo, line.k, s[w] + rx_descriptors[fifo_rx_desc].cnt)
          /\ UserRun(reader, board_rx_spinlock, p, s[0])
    BY DEF StreamInv
  <2>4. Len(c.out) = 0 /\ Run(c.out, p, Len(c.out)) /\ p + Len(c.out) = p
    BY <2>2 DEF Run
  <2>5. Told(completed', p) /\ completed' \in Seq(ReadCompletions)
    BY <2>1, <2>2, <2>3, <2>4, ToldGrows, AppendProperties
  <2>6. /\ RingRun(rx_descriptors', user_rx_desc', fifo_rx_desc', w, s)
        /\ LineRun(rxfifo', line'.k, s[w] + rx_descriptors'[fifo_rx_desc'].cnt)
        /\ UserRun(reader', board_rx_spinlock', p, s[0])
    BY <1>1, <2>3
  <2>7. Unframed'
    BY <1>1, UnframedKept DEF StreamInv
  <2> QED BY <2>5, <2>6, <2>7 DEF StreamInv
<1> QED BY <1>2, <1>3

\* Every step of a streaming mode keeps the bytes in the order of the line.
LEMMA StreamStep ==
  ASSUME RxSize % 4 = 0, MaxPurges = 0, Streaming, IndInv, StreamInv, [Next]_vars
  PROVE  StreamInv'
<1> USE DEF device, ring, dpcs, user, ioctl
<1>1. reader \in [Readers -> ReaderState]
  BY DEF IndInv, TypeOK, TypeUser
<1>2. CASE \E n \in Arrivals : LineArrive(n)
  BY <1>2, StreamArrive
<1>3. CASE LineLost
  BY <1>3 DEF LineLost
<1>4. CASE ClockChange \/ fscc_isr \/ timer_handler \/ (\E s \in Toggles : ToggleSetting(s))
           \/ UNCHANGED vars
  BY <1>4, StreamQuiet DEF ClockChange, fscc_isr, timer_handler, ToggleSetting, vars
<1>5. CASE IframeStart \/ IframeDone
  <2>1. board_rx_spinlock \in {"free", "iframe"}
    BY <1>5 DEF IframeStart, IframeDone, IndInv, LockOwnership
  <2>2. UNCHANGED <<rx_descriptors, user_rx_desc, fifo_rx_desc, rxfifo, line, bcfifo, rx_frame_size,
                    purge, reader, completed>>
    BY <1>5 DEF IframeStart, IframeDone
  <2> QED BY <2>1, <2>2, StreamQuiet
<1>6. CASE FifoSample
  <2>1. fscc_io_get_RFCNT = 0
    BY DEF fscc_io_get_RFCNT, StreamInv, Unframed
  <2>2. UNCHANGED <<rx_descriptors, user_rx_desc, fifo_rx_desc, rxfifo, line, bcfifo, rx_frame_size,
                    purge, reader, completed, board_rx_spinlock>>
    BY <1>6, <2>1 DEF FifoSample
  <2> QED BY <2>2, StreamQuiet
<1>7. CASE FifoStore
  BY <1>7, StreamStore
<1>8. CASE \E len \in ReadLens : FsccEvtIoRead(len)
  BY <1>8, StreamEmptyRead
<1>9. ASSUME NEW r \in Readers, ReaderStep(r)
      PROVE  StreamInv'
  <2>1. reader[r] \in ReaderState /\ r # "free"
    BY <1>1, ReadAssumption
  <2>2. /\ reader[r].pc \notin {"copy", "next"}
        /\ reader[r].pc \in {"idle", "retrieve", "enter"} => reader[r].out = <<>>
    BY DEF StreamInv, Unframed
  <2>3. CASE ProcessReadPeek(r)
    <3> DEFINE x == [reader[r] EXCEPT !.pc = IF ReadWorthwhile THEN "retrieve" ELSE "idle"]
    <3>1. x.out = <<>> /\ x.pc \in {"idle", "retrieve"}
      BY <2>1, <2>2, <2>3 DEF ProcessReadPeek, ReaderState
    <3>2. reader' = [reader EXCEPT ![r] = x]
      BY <2>3 DEF ProcessReadPeek
    <3> HIDE DEF x
    <3>3. /\ UNCHANGED <<rx_descriptors, user_rx_desc, fifo_rx_desc, rxfifo, line, bcfifo,
                         rx_frame_size, purge, completed, board_rx_spinlock>>
          /\ board_rx_spinlock # r
      BY <2>1, <2>3 DEF ProcessReadPeek
    <3> QED BY <3>1, <3>2, <3>3, StreamReader
  <2>4. CASE RetrieveNextRequest(r)
    <3> DEFINE x == IF read_queue2 = <<>> THEN IdleReader
                    ELSE [[reader[r] EXCEPT !.pc = "enter"] EXCEPT !.len = Head(read_queue2)]
    <3>1. x.out = <<>> /\ x.pc \in {"idle", "enter"}
      BY <2>1, <2>2, <2>4 DEF RetrieveNextRequest, ReaderState, IdleReader
    <3>2. reader' = [reader EXCEPT ![r] = x]
      BY <2>1, <2>4, <1>1 DEF RetrieveNextRequest
    <3> HIDE DEF x
    <3>3. /\ UNCHANGED <<rx_descriptors, user_rx_desc, fifo_rx_desc, rxfifo, line, bcfifo,
                         rx_frame_size, purge, completed, board_rx_spinlock>>
          /\ board_rx_spinlock # r
      BY <2>1, <2>4 DEF RetrieveNextRequest, IndInv, LockOwnership
    <3> QED BY <3>1, <3>2, <3>3, StreamReader
  <2>5. CASE ReadStreamEnter(r)
    <3> DEFINE x == [reader[r] EXCEPT !.pc = "stream"]
    <3>1. x.out = <<>> /\ x.pc = "stream"
      BY <2>1, <2>2, <2>5 DEF ReadStreamEnter, ReaderState
    <3>2. reader' = [reader EXCEPT ![r] = x]
      BY <2>5 DEF ReadStreamEnter
    <3> HIDE DEF x
    <3>3. /\ UNCHANGED <<rx_descriptors, user_rx_desc, fifo_rx_desc, rxfifo, line, bcfifo,
                         rx_frame_size, purge, completed>>
          /\ board_rx_spinlock' = r /\ board_rx_spinlock = "free"
      BY <2>5 DEF ReadStreamEnter
    <3> QED BY <3>1, <3>2, <3>3, StreamReader
  <2>6. CASE ReadStreamDesc(r)
    BY <2>6, StreamRead
  <2>7. CASE ReadComplete(r)
    BY <2>7, StreamComplete
  <2>8. CASE ReadFrameRefuse(r) \/ ReadFrameEnter(r) \/ ReadFrameDesc(r) \/ ReadNextFrame(r)
    BY <2>2, <2>8 DEF ReadFrameRefuse, ReadFrameEnter, ReadFrameDesc, ReadNextFrame
  <2> QED BY <1>9, <2>3, <2>4, <2>5, <2>6, <2>7, <2>8 DEF ReaderStep, Locking, Copying
<1>10. CASE PurgeStep
  <2>1. purge.pc = "idle"
    BY DEF StreamInv, Unframed
  <2>2. Len(purge.results) \in Nat
    BY LenProperties DEF IndInv, TypeOK, TypeIoctl
  <2> QED BY <1>10, <2>1, <2>2 DEF PurgeStep, PurgeBegin, PurgeReset, PurgeQueues, PurgeFinish
<1> QED BY <1>2, <1>3, <1>4, <1>5, <1>6, <1>7, <1>8, <1>9, <1>10 DEF Next, IframeStep

\* At the start nothing was returned, stored or received.
LEMMA StreamInit == Init => StreamInv
<1> SUFFICES ASSUME Init PROVE StreamInv
  OBVIOUS
<1>1. Unframed
  <2>1. \A i \in Ring : rx_descriptors[i].flags = {} /\ rx_descriptors[i].cnt = 0
    BY DEF Init, Ring
  <2>2. 0 % 4 = 0
    OBVIOUS
  <2>3. \A r \in Readers : reader[r].pc = "idle" /\ reader[r].out = <<>>
    BY DEF Init, IdleReader
  <2>4. line.f = 1 /\ bcfifo = <<>> /\ rx_frame_size = 0 /\ purge.pc = "idle"
    BY DEF Init
  <2> QED BY <2>1, <2>2, <2>3, <2>4 DEF Unframed
<1>2. completed = <<>> /\ completed \in Seq(ReadCompletions) /\ Len(completed) = 0
  BY EmptySeq DEF Init
<1>3. Told(completed, 0)
  <2> DEFINE G == [i \in 0..0 |-> <<>>]
  <2>1. Concats(G, completed)
    <3>1. \A i \in 0..0 : i = 0
      OBVIOUS
    <3> QED BY <1>2, <3>1 DEF Concats
  <2>2. ASSUME NEW g, Concats(g, completed)
        PROVE  g[0] = <<>>
    BY <1>2, <2>2 DEF Concats
  <2>3. <<>> \in Seq(Byte) /\ Len(<<>>) = 0 /\ Run(<<>>, 0, 0)
    BY DEF Run
  <2> HIDE DEF G
  <2> QED BY <1>2, <2>1, <2>2, <2>3 DEF Told
<1> DEFINE s == [k \in 0..RxNum |-> 0]
<1>4. s \in [0..RxNum -> Nat] /\ s[0] = 0
  BY RingFacts
<1>5. RingRun(rx_descriptors, user_rx_desc, fifo_rx_desc, 0, s)
  <2>1. user_rx_desc = 0 /\ fifo_rx_desc = 0 /\ 0 \in Ring
    BY RingFacts DEF Init
  <2>2. \A i \in Ring : ~Finished(rx_descriptors[i]) /\ rx_descriptors[i].cnt = 0
    BY DEF Init, Ring, Finished
  <2>3. Window(rx_descriptors, user_rx_desc, fifo_rx_desc, 0)
    <3>0. \A k \in Ring : k \in 0..RxNum /\ ~(k < 0)
      BY RingAssumption DEF Ring
    <3>1. \A k \in Ring : RingPos(user_rx_desc, k) \in Ring /\ ~(k < 0)
      BY <2>1, <3>0, PosType
    <3>2. \A k \in Ring : Finished(rx_descriptors[RingPos(user_rx_desc, k)]) <=> k < 0
      BY <2>2, <3>1
    <3>3. fifo_rx_desc = RingPos(user_rx_desc, 0)
      BY <2>1, PosZero
    <3> QED BY <3>2, <3>3 DEF Window
  <2>4. Stretches(rx_descriptors, user_rx_desc, 0, s)
    BY DEF Stretches
  <2> QED BY <2>1, <2>2, <2>3, <2>4 DEF RingRun, Run
<1>6. LineRun(rxfifo, line.k, s[0] + rx_descriptors[fifo_rx_desc].cnt)
  <2>1. rx_descriptors[fifo_rx_desc].cnt = 0
    BY RingFacts DEF Init, Ring
  <2>2. rxfifo = <<>> /\ line.k = 0 /\ Len(rxfifo) = 0
    BY DEF Init
  <2> QED BY <1>4, <2>1, <2>2 DEF LineRun, Run
<1>7. UserRun(reader, board_rx_spinlock, 0, s[0])
  BY <1>4 DEF Init, UserRun, IdleReader
<1> HIDE DEF s
<1> QED BY <1>1, <1>2, <1>3, <1>4, <1>5, <1>6, <1>7, RingFacts DEF StreamInv

\* In a streaming mode, as long as nothing is purged, the reads of any number of
\* overlapping executions return the bytes of the line one after another: none is lost,
\* repeated or exchanged between the FIFO, the ring and the users' buffers, also when
\* fscc_user_read_stream takes part of a descriptor and moves the rest up.  The
\* descriptor size is a multiple of four: fscc_io_create_rx rounds it (io.c:179).
THEOREM StreamSafety ==
  ASSUME RxSize % 4 = 0, MaxPurges = 0
  PROVE  Spec => []StreamInOrder
<1>1. CASE ~Streaming
  <2>1. StreamInOrder
    BY <1>1 DEF StreamInOrder
  <2> QED BY <2>1, PTL
<1>2. CASE Streaming
  <2>1. IndInv /\ StreamInv /\ [Next]_vars => StreamInv'
    BY <1>2, StreamStep
  <2>2. StreamInv => StreamInOrder
    <3> SUFFICES ASSUME StreamInv PROVE StreamInOrder
      OBVIOUS
    <3>1. PICK p \in Nat : Told(completed, p)
      BY DEF StreamInv
    <3> DEFINE g == CHOOSE g : Concats(g, completed)
    <3>2. Concats(g, completed)
      BY <3>1 DEF Told
    <3>3. Len(g[Len(completed)]) = p /\ Run(g[Len(completed)], 0, p)
      BY <3>1, <3>2 DEF Told
    <3>4. Delivered = g[Len(completed)]
      BY DEF Delivered, Concats
    <3> HIDE DEF g
    <3>5. \A j \in 1..Len(Delivered) : Delivered[j] = <<1, 0 + j>> /\ 0 + j = j
      BY <3>3, <3>4 DEF Run
    <3> QED BY <3>5 DEF StreamInOrder
  <2> QED BY <2>1, <2>2, StreamInit, Invariance, PTL DEF Spec
<1> QED BY <1>1, <1>2
=============================================================================
