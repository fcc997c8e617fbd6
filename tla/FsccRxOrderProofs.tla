-------------------------- MODULE FsccRxOrderProofs -------------------------
(***************************************************************************)
(* Proofs about FsccRx in the framed modes: what becomes of every byte of  *)
(* a frame, from the line to the application.                              *)
(***************************************************************************)
EXTENDS FsccRxProofs, WellFoundedInduction

-----------------------------------------------------------------------------
(* Frames on the line, and their parts in the ring.                        *)

Frames == 1..Len(Traffic)

\* W[f] bytes of whole words go through the FIFO before frame f.
Lines(W) ==
  /\ W \in [1..(Len(Traffic) + 1) -> Nat] /\ W[1] = 0
  /\ \A f \in Frames : W[f + 1] = W[f] + WordsOf(Traffic[f])

\* What a descriptor holds of frame f: the bytes behind the first "from".
Part == [f : Nat \ {0}, from : Nat]
IsPart(p)    == p.f \in Frames /\ p.from < Traffic[p.f]
LastPart(p)  == Traffic[p.f] - p.from <= RxSize
AfterPart(p) == IF LastPart(p) THEN [f |-> p.f + 1, from |-> 0]
                               ELSE [f |-> p.f, from |-> p.from + RxSize]

\* The parts t[0] .. t[n - 1] are real ones and each goes on where the one before ends.
Chain(t, n) == \A k \in 0..(n - 1) : IsPart(t[k]) /\ t[k + 1] = AfterPart(t[k])

\* The first m bytes of a buffer are those of part p.
BytesOf(buffer, p, m) == \A j \in 1..m : buffer[j] = <<p.f, p.from + j>>

HoldsPart(d, p) ==
  /\ "CSTOP" \in d.flags /\ d.data_count = RxSize
  /\ "FE" \in d.flags <=> LastPart(p)
  /\ LastPart(p) => d.cnt = Traffic[p.f] /\ d.timestamp > p.f
  /\ BytesOf(d.buffer, p, MinOf(RxSize, Traffic[p.f] - p.from))

OpenDesc(d) == d.flags = {} /\ d.timestamp = Empty /\ d.data_count = RxSize

\* n descriptors from the user's position hold the parts, the others are open, and
\* only the one the FIFO is at has data.
RingHolds(ds, u, f, n, t) ==
  /\ f = RingPos(u, n)
  /\ \A k \in Ring : IF k < n THEN HoldsPart(ds[RingPos(u, k)], t[k])
                              ELSE OpenDesc(ds[RingPos(u, k)])
  /\ \A k \in Ring : k > n => ds[RingPos(u, k)].cnt = 0

\* The descriptor that is being filled goes on behind the last part, in whole words.
Filling(ds, f, n, p, bytes) ==
  IF n < RxNum
    THEN /\ bytes = p.from + ds[f].cnt /\ ds[f].cnt < RxSize /\ ds[f].cnt % 4 = 0
         /\ BytesOf(ds[f].buffer, p, ds[f].cnt)
    ELSE bytes = p.from

RingInv(n, t) ==
  /\ Chain(t, n)
  /\ RingHolds(rx_descriptors, user_rx_desc, fifo_rx_desc, n, t)
  /\ Filling(rx_descriptors, fifo_rx_desc, n, t[n], rx_bytes_in_frame)

-----------------------------------------------------------------------------
(* The card: the FIFO goes on where the ring ends.                         *)

\* The j-th byte of the words that hold frame f.
WordByte(f, j) == IF j <= Traffic[f] THEN <<f, j>> ELSE Pad

\* The FIFO holds what comes after the first "base" bytes of words, up to tip.
FifoRun(W, fifo, base, tip) ==
  /\ Len(fifo) = (W[tip.f] + tip.k) - base
  /\ \A f \in Frames : \A j \in 1..WordsOf(Traffic[f]) :
       (W[f] + j) - base \in 1..Len(fifo) =>
         fifo[(W[f] + j) - base] = WordByte(f, j)

\* The byte count FIFO holds the sizes of the frames first .. last - 1.
SizesOf(bc, first, last) ==
  Len(bc) = last - first /\ \A j \in 1..Len(bc) : bc[j] = Traffic[first + (j - 1)]

\* A place on the line between two bytes.
IsPlace(tip) ==
  /\ tip \in [f : Nat \ {0}, k : Nat] /\ tip.f <= Len(Traffic) + 1
  /\ tip.k > 0 => tip.f <= Len(Traffic) /\ tip.k < Traffic[tip.f]

\* "bytes" of frame g have left the FIFO, and the card has received up to tip.
Position(g, bytes, tip) ==
  /\ g <= tip.f /\ bytes % 4 = 0
  /\ g < tip.f => bytes < Traffic[g]
  /\ g = tip.f => bytes <= tip.k

FifoInv(W, g, tip) ==
  /\ IsPlace(tip) /\ Position(g, rx_bytes_in_frame, tip)
  /\ FifoRun(W, rxfifo, W[g] + rx_bytes_in_frame, tip)
  /\ rx_frame_size # 0 => g < tip.f /\ rx_frame_size = Traffic[g]
  /\ SizesOf(bcfifo, IF rx_frame_size = 0 THEN g ELSE g + 1, tip.f)
  /\ iframe.pc = "store" /\ rx_frame_size = 0 => bcfifo = <<>>

\* Where the card's tip is on the line: a purge cuts it off.
TipInv(g, n, t, tip) ==
  /\ line.f <= Len(Traffic) + 1 /\ tip.f <= line.f
  /\ recd <=> purge.pc # "idle"
  /\ purge.pc = "idle" => tip = line
  /\ purge.pc # "idle" => line.k = 0
  /\ purge.pc \in {"queues", "drain"} => n = 0 /\ t[0].from = 0 /\ tip.k = 0 /\ g = tip.f

-----------------------------------------------------------------------------
(* The readers.                                                            *)

StatusOn == settings.append_status \/ "append_status" \in Toggles
StatusOff == ~settings.append_status \/ "append_status" \in Toggles

\* V bytes of frame f go to the application.
Wanted(f, V) == \/ StatusOn /\ V = Traffic[f]
                \/ StatusOff /\ V = Traffic[f] - StatusBytes

\* The copy has come to part b of its frame.
CopyAt(rd, b) ==
  \E V \in {Traffic[b.f], Traffic[b.f] - StatusBytes} :
                 /\ Wanted(b.f, V)
                 /\ rd.filled = MinOf(b.from, V) /\ rd.valid = V - rd.filled
                 /\ rd.bytes = Traffic[b.f] - b.from

ReadersInv(n, b) ==
  /\ purged < b.f
  /\ b.from # 0 => \E r \in Readers : reader[r].pc = "copy"
  /\ \A r \in Readers :
       /\ reader[r].pc # "stream"
       /\ reader[r].pc = "copy" => CopyAt(reader[r], b)
       /\ reader[r].pc \in {"copy", "next"} => reader[r].i + n <= RxNum

FrameInv(W, b) ==
  \E n \in 0..RxNum, t \in [0..RxNum -> Part], tip \in [f : Nat \ {0}, k : Nat] :
    /\ t[0] = b
    /\ RingInv(n, t)
    /\ FifoInv(W, t[n].f, tip)
    /\ TipInv(t[n].f, n, t, tip)
    /\ ReadersInv(n, b)

-----------------------------------------------------------------------------
(* What was returned.  These definitions are about values, not the state:  *)
(* cuts is what may be missing at the end of a frame, stamps whether a     *)
(* timestamp may follow it (1) or not (0).                                 *)

StampOn  == settings.append_timestamp \/ "append_timestamp" \in Toggles
StampOff == ~settings.append_timestamp \/ "append_timestamp" \in Toggles

Cuts   == {c \in {0, StatusBytes} : IF c = 0 THEN StatusOn ELSE StatusOff}
Stamps == {s \in {0, 1} : IF s = 1 THEN StampOn ELSE StampOff}

\* Frames with nothing but status bytes have no byte to tell them by.
NoEmpty == \A f \in Frames : Traffic[f] > StatusBytes

Ends(x, cuts) == \E c \in cuts : x[2] = Traffic[x[1]] - c

Closes(out, j, cuts, stamps) ==
  \/ out[j][2] > 0 /\ Ends(out[j], cuts) /\ 0 \in stamps
  \/ out[j][2] = 0 /\ j > 1 /\ out[j - 1][2] > 0 /\ Ends(out[j - 1], cuts) /\ 1 \in stamps

\* Item j + 1 may follow item j.
Follows(out, j, cuts, stamps) ==
  \/ out[j][2] > 0 /\ out[j + 1] = <<out[j][1], out[j][2] + 1>>
  \/ out[j][2] > 0 /\ Ends(out[j], cuts) /\ out[j + 1][2] = 0
  \/ Closes(out, j, cuts, stamps) /\ out[j + 1][2] = 1

Joined(out, cuts, stamps) ==
  /\ Len(out) > 0 => out[1][2] = 1
  /\ \A j \in 1..(Len(out) - 1) : Follows(out, j, cuts, stamps)

Closed(out, cuts, stamps) == Len(out) > 0 => Closes(out, Len(out), cuts, stamps)

\* A timestamp is later than the frame it follows.
Dated(out) ==
  \A j \in 2..Len(out) :
    out[j][2] = 0 /\ out[j - 1][2] > 0 => out[j][1] > out[j - 1][1]

Since(out, p) == \A j \in 1..Len(out) : out[j][1] > p

\* The data in out is of frames up to f.
UpTo(out, f) == \A j \in 1..Len(out) : out[j][2] > 0 => out[j][1] <= f

\* All of a comes before all of b.
Before(a, b) ==
  \A j \in 1..Len(a), k \in 1..Len(b) : a[j][2] > 0 /\ b[k][2] > 0 => a[j][1] < b[k][1]

Rising(out) ==
  \A j, k \in 1..Len(out) :
    j < k /\ out[j][2] = 1 /\ out[k][2] = 1 => out[j][1] < out[k][1]

\* Items in order, from after a reset at frame p up to frame f.
InLine(out, p, f) == out \in Seq(Byte) /\ Dated(out) /\ Since(out, p) /\ UpTo(out, f) /\ Rising(out)

\* The frames before the b.f-th are copied, and b.f itself if b is not its first part.
Copied(b) == IF b.from = 0 THEN b.f - 1 ELSE b.f

Active == {"copy", "next", "done"}

\* What an active reader has copied so far.
CopiedOut(rd, b, p, cuts, stamps) ==
  /\ InLine(rd.out, p, Copied(b))
  /\ NoEmpty =>
       /\ Joined(rd.out, cuts, stamps)
       /\ IF rd.pc = "copy" /\ b.from # 0
            THEN Len(rd.out) > 0 /\ rd.out[Len(rd.out)] = <<b.f, rd.filled>>
            ELSE Closed(rd.out, cuts, stamps)

Returned(c, b, cuts, stamps) ==
  /\ InLine(c.out, c.purged, b.f - 1)
  /\ NoEmpty => Joined(c.out, cuts, stamps) /\ Closed(c.out, cuts, stamps)

ReaderOut(rd, b, p, cuts, stamps) ==
  IF rd.pc \in Active THEN CopiedOut(rd, b, p, cuts, stamps) ELSE rd.out = <<>>

\* The readers' copies and the completed requests are in order.
OutOf(rds, done, p, b, cuts, stamps) ==
  /\ \A r \in Readers : ReaderOut(rds[r], b, p, cuts, stamps)
  /\ \A i \in 1..Len(done) : Returned(done[i], b, cuts, stamps)
  /\ \A i, k \in 1..Len(done) : i < k => Before(done[i].out, done[k].out)
  /\ \A i \in 1..Len(done) : \A r \in Readers : Before(done[i].out, rds[r].out)

Starts(out, f) == \E j \in 1..Len(out) : out[j] = <<f, 1>>

\* Every frame that was copied is there.
NoGap(rds, done, b) ==
  \A f \in 1..Copied(b) : \/ \E i \in 1..Len(done) : Starts(done[i].out, f)
                          \/ \E r \in Readers : Starts(rds[r].out, f)

Unpurged == purge.results = <<>> /\ purge.pc = "idle"

OutInv(b) ==
  /\ OutOf(reader, completed, purged, b, Cuts, Stamps)
  /\ NoEmpty /\ Unpurged => NoGap(reader, completed, b)

\* No frame ends between the reads of RFCNT and RXCNT.
SizeSeen == iframe.pc = "store" /\ rx_frame_size = 0 => bcfifo' = bcfifo

\* Every reset of the receiver so far was executed.
Clean ==
  /\ \A k \in 1..Len(purge.results) : ~purge.results[k].timed_out
  /\ purge.pc \in {"queues", "drain"} => ~purge.timed_out

-----------------------------------------------------------------------------
(* Facts about words, offsets and parts.                                   *)

\* A set of natural numbers has a least element.
LEMMA LeastNat ==
  ASSUME NEW T, T \subseteq Nat, T # {}
  PROVE  \E x \in T : \A y \in T : x <= y
<1> DEFINE R == {ss \in Nat \X Nat : ss[1] < ss[2]}
<1>1. IsWellFoundedOn(R, Nat)
  BY NatLessThanWellFounded, Zenon DEF OpToRel
<1> HIDE DEF R
<1>2. PICK x \in T : \A y \in T : ~(<<y, x>> \in R)
  BY <1>1, WFMin
<1>3. \A y \in T : ~(y < x)
  BY <1>2 DEF R
<1> QED BY <1>3

\* Whole words: multiples of four bytes, and what is left of them after some words.
LEMMA WordsFacts ==
  /\ \A n \in Nat : WordsOf(n) \in Nat /\ n <= WordsOf(n) /\ WordsOf(n) % 4 = 0
  /\ \A n \in Nat : n % 4 = 0 => WordsOf(n) = n
  /\ \A n, g \in Nat : g % 4 = 0 /\ g <= n => WordsOf(n - g) = WordsOf(n) - g
  /\ \A n, g \in Nat : g % 4 = 0 /\ g < WordsOf(n) => g < n
  /\ \A m, n \in Nat : m % 4 = 0 /\ n % 4 = 0 => (m + n) % 4 = 0 /\ (m - n) % 4 = 0
<1>1. ASSUME NEW n \in Nat
      PROVE  WordsOf(n) \in Nat /\ n <= WordsOf(n) /\ WordsOf(n) % 4 = 0
  BY DEF WordsOf
<1>2. ASSUME NEW n \in Nat, n % 4 = 0
      PROVE  WordsOf(n) = n
  BY <1>2 DEF WordsOf
<1>3. ASSUME NEW n \in Nat, NEW g \in Nat, g % 4 = 0, g <= n
      PROVE  WordsOf(n - g) = WordsOf(n) - g
  BY <1>3 DEF WordsOf
<1>4. ASSUME NEW n \in Nat, NEW g \in Nat, g % 4 = 0, g < WordsOf(n)
      PROVE  g < n
  BY <1>4 DEF WordsOf
<1>5. ASSUME NEW m \in Nat, NEW n \in Nat, m % 4 = 0, n % 4 = 0
      PROVE  (m + n) % 4 = 0 /\ (m - n) % 4 = 0
  BY <1>5
<1> QED BY <1>1, <1>2, <1>3, <1>4, <1>5

\* A frame's size and its words.
LEMMA FrameWords ==
  \A f \in Frames : /\ f \in Nat /\ f # 0 /\ Traffic[f] \in Nat /\ Traffic[f] >= 2
                    /\ WordsOf(Traffic[f]) \in Nat /\ Traffic[f] <= WordsOf(Traffic[f])
<1>1. \A f \in Frames : f \in Nat /\ f # 0 /\ Traffic[f] \in Nat /\ Traffic[f] >= 2
  BY FrameSize DEF Frames
<1> QED BY <1>1, WordsFacts

\* The offsets of the lines exist.
LEMMA LinesExist == \E W : Lines(W)
<1> DEFINE N == Len(Traffic)
           Upto(W, m) == /\ W \in [1..(m + 1) -> Nat] /\ W[1] = 0
                         /\ \A f \in 1..m : W[f + 1] = W[f] + WordsOf(Traffic[f])
           Bad == {m \in 0..N : ~\E W : Upto(W, m)}
<1>1. N \in Nat
  BY TrafficAssumption, LenProperties
<1> HIDE DEF N
<1>2. ASSUME Bad # {} PROVE FALSE
  <2>1. Bad \subseteq Nat
    BY <1>1
  <2>2. PICK m \in Bad : \A y \in Bad : m <= y
    <3> HIDE DEF Bad
    <3> QED BY <1>2, <2>1, LeastNat
  <2>3. m \in 0..N /\ ~\E W : Upto(W, m)
    BY <2>2
  <2>4. CASE m = 0
    <3> DEFINE Z == [i \in 1..(0 + 1) |-> 0]
    <3>1. Z[1] = 0 /\ Z \in [1..(0 + 1) -> Nat]
      OBVIOUS
    <3>2. \A f \in 1..0 : FALSE
      OBVIOUS
    <3> HIDE DEF Z
    <3>3. Upto(Z, 0)
      BY <3>1, <3>2
    <3> QED BY <2>3, <2>4, <3>3
  <2>5. CASE m # 0
    <3>1. m - 1 \in 0..N /\ m - 1 \notin Bad /\ (m - 1) + 1 = m
      <4>1. m - 1 \in 0..N /\ (m - 1) + 1 = m /\ ~(m <= m - 1)
        BY <1>1, <2>3, <2>5
      <4> HIDE DEF Bad
      <4> QED BY <2>2, <4>1
    <3>2. PICK W : Upto(W, m - 1)
      <4> HIDE DEF Upto
      <4> QED BY <3>1
    <3>3. W \in [1..m -> Nat] /\ W[1] = 0
          /\ \A f \in 1..(m - 1) : W[f + 1] = W[f] + WordsOf(Traffic[f])
      BY <3>1, <3>2
    <3>4. m \in Nat /\ m > 0 /\ WordsOf(Traffic[m]) \in Nat
      BY <1>1, <2>3, <2>5, FrameWords DEF Frames, N
    <3> DEFINE X == [i \in 1..(m + 1) |-> IF i = m + 1 THEN W[m] + WordsOf(Traffic[m]) ELSE W[i]]
    <3>5. \A i \in 1..(m + 1) : i # m + 1 => i \in 1..m
      BY <3>4
    <3>6. X \in [1..(m + 1) -> Nat] /\ X[1] = 0
      BY <3>3, <3>4, <3>5
    <3>7. ASSUME NEW f \in 1..m
          PROVE  X[f + 1] = X[f] + WordsOf(Traffic[f])
      <4>1. X[f] = W[f] /\ f + 1 \in 1..(m + 1)
        BY <3>4
      <4>2. CASE f = m
        BY <4>1, <4>2
      <4>3. CASE f # m
        <5>1. f \in 1..(m - 1) /\ f + 1 # m + 1
          BY <3>4, <4>3
        <5> QED BY <3>3, <4>1, <5>1
      <4> QED BY <4>2, <4>3
    <3> HIDE DEF X
    <3> QED BY <2>3, <3>6, <3>7
  <2> QED BY <2>4, <2>5
<1>3. PICK W : Upto(W, N)
  <2>1. N \in 0..N
    BY <1>1
  <2> HIDE DEF Upto
  <2> QED BY <1>2, <2>1
<1> QED BY <1>3 DEF Lines, Frames, N

\* The words of a frame lie before those of the next ones.
LEMMA LinesRise ==
  ASSUME NEW W, Lines(W)
  PROVE  \A f \in Frames : \A g \in 1..(Len(Traffic) + 1) :
           f < g => W[f] + WordsOf(Traffic[f]) <= W[g]
<1> DEFINE N == Len(Traffic)
<1>1. N \in Nat
  BY TrafficAssumption, LenProperties
<1>2. W \in [1..(N + 1) -> Nat] /\ \A f \in 1..N : W[f + 1] = W[f] + WordsOf(Traffic[f])
  BY DEF Lines, Frames
<1>3. \A f \in 1..N : WordsOf(Traffic[f]) \in Nat
  BY FrameWords DEF Frames
<1> SUFFICES ASSUME NEW f \in 1..N, NEW h \in 1..(N + 1), f < h,
                    ~(W[f] + WordsOf(Traffic[f]) <= W[h])
             PROVE  FALSE
  BY DEF Frames
<1> HIDE DEF N
<1> DEFINE Bad == {g \in 1..(N + 1) : f < g /\ ~(W[f] + WordsOf(Traffic[f]) <= W[g])}
<1>4. PICK g \in Bad : \A y \in Bad : g <= y
  <2>1. Bad \subseteq Nat /\ h \in Bad
    BY <1>1
  <2> HIDE DEF Bad
  <2> QED BY <2>1, LeastNat
<1>5. g \in 1..(N + 1) /\ f < g /\ ~(W[f] + WordsOf(Traffic[f]) <= W[g])
  BY <1>4
<1>6. CASE g = f + 1
  <2>1. W[f] \in Nat /\ WordsOf(Traffic[f]) \in Nat /\ W[g] = W[f] + WordsOf(Traffic[f])
    BY <1>1, <1>2, <1>3, <1>6
  <2> QED BY <1>5, <2>1
<1>7. CASE g # f + 1
  <2>1. g - 1 \in 1..N /\ f < g - 1 /\ (g - 1) + 1 = g /\ ~(g <= g - 1) /\ g - 1 \in 1..(N + 1)
    BY <1>1, <1>5, <1>7
  <2>2. g - 1 \notin Bad
    <3> HIDE DEF Bad
    <3> QED BY <1>4, <2>1
  <2>3. W[f] + WordsOf(Traffic[f]) <= W[g - 1]
    BY <2>1, <2>2
  <2>4. W[g] = W[g - 1] + WordsOf(Traffic[g - 1])
    BY <1>2, <2>1
  <2>5. /\ W[g - 1] \in Nat /\ WordsOf(Traffic[g - 1]) \in Nat /\ W[f] \in Nat
        /\ WordsOf(Traffic[f]) \in Nat
    <3>1. f \in 1..(N + 1)
      BY <1>1
    <3> HIDE DEF Bad
    <3>2. W[g - 1] \in Nat /\ W[f] \in Nat
      BY <1>2, <2>1, <3>1
    <3> QED BY <1>3, <2>1, <3>2
  <2>6. \A a, b, c, d \in Nat : a + b <= c => a + b <= c + d
    OBVIOUS
  <2>7. W[f] + WordsOf(Traffic[f]) <= W[g - 1] + WordsOf(Traffic[g - 1])
    BY <2>3, <2>5, <2>6
  <2> HIDE DEF Bad
  <2> QED BY <1>5, <2>4, <2>7
<1> QED BY <1>6, <1>7

\* What comes after a part.
LEMMA PartFacts ==
  ASSUME NEW p \in Part
  PROVE  /\ p.f \in Nat /\ p.f # 0 /\ p.from \in Nat
         /\ AfterPart(p) \in Part /\ p.f <= AfterPart(p).f
         /\ LastPart(p) => AfterPart(p).f = p.f + 1 /\ AfterPart(p).from = 0
         /\ ~LastPart(p) => AfterPart(p).f = p.f /\ AfterPart(p).from = p.from + RxSize
<1>1. p.f \in Nat /\ p.f # 0 /\ p.from \in Nat /\ RxSize \in Nat
  BY RingAssumption DEF Part
<1>2. CASE LastPart(p)
  <2>1. AfterPart(p) = [f |-> p.f + 1, from |-> 0]
    BY <1>2 DEF AfterPart
  <2> QED BY <1>1, <1>2, <2>1 DEF Part
<1>3. CASE ~LastPart(p)
  <2>1. AfterPart(p) = [f |-> p.f, from |-> p.from + RxSize]
    BY <1>3 DEF AfterPart
  <2> QED BY <1>1, <1>3, <2>1 DEF Part
<1> QED BY <1>2, <1>3

\* The frames of a chain of parts ascend, and change only after a last part.
LEMMA ChainFacts ==
  ASSUME NEW n \in 0..RxNum, NEW t \in [0..RxNum -> Part], Chain(t, n)
  PROVE  /\ \A k \in 0..n : t[0].f <= t[k].f
         /\ \A k \in 0..n : (\A j \in 0..(k - 1) : ~LastPart(t[j])) => t[k].f = t[0].f
<1>1. n \in Nat /\ RxNum \in Nat /\ n <= RxNum
  BY RingAssumption
<1>2. ASSUME NEW k \in 0..n, k # 0
      PROVE  /\ k - 1 \in 0..(n - 1) /\ k - 1 \in 0..n /\ (k - 1) + 1 = k /\ ~(k <= k - 1)
             /\ t[k - 1] \in Part /\ t[k] \in Part /\ t[k] = AfterPart(t[k - 1])
  <2>1. /\ k - 1 \in 0..(n - 1) /\ k - 1 \in 0..n /\ (k - 1) + 1 = k /\ ~(k <= k - 1)
        /\ k - 1 \in 0..RxNum /\ k \in 0..RxNum
    BY <1>1, <1>2
  <2> QED BY <2>1 DEF Chain
<1>3. t[0] \in Part /\ t[0].f \in Nat
  <2>1. 0 \in 0..RxNum
    BY <1>1
  <2> QED BY <2>1 DEF Part
<1>4. ASSUME NEW h \in 0..n, ~(t[0].f <= t[h].f) PROVE FALSE
  <2> DEFINE Bad == {k \in 0..n : ~(t[0].f <= t[k].f)}
  <2>1. PICK k \in Bad : \A y \in Bad : k <= y
    <3>1. Bad \subseteq Nat /\ h \in Bad
      BY <1>1, <1>4
    <3> HIDE DEF Bad
    <3> QED BY <3>1, LeastNat
  <2>2. k \in 0..n /\ ~(t[0].f <= t[k].f) /\ k # 0
    BY <1>3, <2>1
  <2>3. k - 1 \notin Bad
    <3>1. ~(k <= k - 1)
      BY <1>2, <2>2
    <3> HIDE DEF Bad
    <3> QED BY <2>1, <3>1
  <2>4. t[0].f <= t[k - 1].f
    BY <1>2, <2>2, <2>3
  <2>5. t[k - 1].f \in Nat /\ t[k].f \in Nat /\ t[k - 1].f <= t[k].f
    BY <1>2, <2>2, PartFacts
  <2> QED BY <1>3, <2>2, <2>4, <2>5
<1>5. ASSUME NEW h \in 0..n, \A j \in 0..(h - 1) : ~LastPart(t[j]), t[h].f # t[0].f PROVE FALSE
  <2> DEFINE Bad == {k \in 0..n : t[k].f # t[0].f}
  <2>1. PICK k \in Bad : \A y \in Bad : k <= y
    <3>1. Bad \subseteq Nat /\ h \in Bad
      BY <1>1, <1>5
    <3> HIDE DEF Bad
    <3> QED BY <3>1, LeastNat
  <2>2. k \in 0..n /\ t[k].f # t[0].f /\ k # 0 /\ k <= h
    BY <1>5, <2>1
  <2>3. k - 1 \notin Bad
    <3>1. ~(k <= k - 1)
      BY <1>2, <2>2
    <3> HIDE DEF Bad
    <3> QED BY <2>1, <3>1
  <2>4. t[k - 1].f = t[0].f
    BY <1>2, <2>2, <2>3
  <2>5. k - 1 \in 0..(h - 1)
    BY <1>1, <2>2
  <2>6. ~LastPart(t[k - 1])
    BY <1>5, <2>5
  <2>7. t[k].f = t[k - 1].f
    BY <1>2, <2>2, <2>6, PartFacts
  <2> QED BY <2>2, <2>4, <2>7
<1> QED BY <1>4, <1>5

\* t without its first part.
Shifted(t, n) == [k \in 0..RxNum |-> IF k < n THEN t[k + 1] ELSE t[n]]

\* The chain without its first part.
LEMMA ChainShrinks ==
  ASSUME NEW n \in 0..RxNum, n # 0, NEW t \in [0..RxNum -> Part], Chain(t, n)
  PROVE  /\ n - 1 \in 0..RxNum /\ Shifted(t, n) \in [0..RxNum -> Part]
         /\ Chain(Shifted(t, n), n - 1)
         /\ Shifted(t, n)[0] = AfterPart(t[0]) /\ Shifted(t, n)[n - 1] = t[n]
         /\ \A k \in 0..(n - 1) : Shifted(t, n)[k] = t[k + 1]
<1>1. n \in Nat /\ RxNum \in Nat /\ n <= RxNum /\ n - 1 \in 0..RxNum
  BY RingAssumption
<1>2. Shifted(t, n) \in [0..RxNum -> Part]
  <2>1. \A k \in 0..RxNum : k < n => k + 1 \in 0..RxNum
    BY <1>1
  <2> QED BY <1>1, <2>1 DEF Shifted
<1>3. \A k \in 0..(n - 1) : Shifted(t, n)[k] = t[k + 1]
  BY <1>1 DEF Shifted
<1>4. Chain(Shifted(t, n), n - 1)
  <2>1. ASSUME NEW k \in 0..((n - 1) - 1)
        PROVE  IsPart(Shifted(t, n)[k]) /\ Shifted(t, n)[k + 1] = AfterPart(Shifted(t, n)[k])
    <3>1. k \in 0..(n - 1) /\ k + 1 \in 0..(n - 1)
      BY <1>1
    <3> QED BY <1>3, <3>1 DEF Chain
  <2> QED BY <2>1 DEF Chain
<1>5. Shifted(t, n)[0] = AfterPart(t[0]) /\ Shifted(t, n)[n - 1] = t[n]
  <2>1. 0 \in 0..(n - 1) /\ n - 1 \in 0..(n - 1) /\ (n - 1) + 1 = n /\ 0 + 1 = 1
    BY <1>1
  <2>2. t[0 + 1] = AfterPart(t[0])
    BY <2>1 DEF Chain
  <2> QED BY <1>3, <2>1, <2>2
<1> QED BY <1>1, <1>2, <1>3, <1>4, <1>5

\* t with one part more.
Extended(t, n) == [t EXCEPT ![n + 1] = AfterPart(t[n])]

\* The chain goes on behind a part that is finished.
LEMMA ChainGrows ==
  ASSUME NEW n \in 0..RxNum, n < RxNum, NEW t \in [0..RxNum -> Part], Chain(t, n), IsPart(t[n])
  PROVE  /\ n + 1 \in 0..RxNum /\ Extended(t, n) \in [0..RxNum -> Part]
         /\ Chain(Extended(t, n), n + 1)
         /\ Extended(t, n)[n + 1] = AfterPart(t[n])
         /\ \A k \in 0..n : Extended(t, n)[k] = t[k]
<1>1. n \in Nat /\ RxNum \in Nat /\ n + 1 \in 0..RxNum
  BY RingAssumption
<1>2. AfterPart(t[n]) \in Part
  BY PartFacts
<1>3. Extended(t, n) \in [0..RxNum -> Part] /\ Extended(t, n)[n + 1] = AfterPart(t[n])
  BY <1>1, <1>2 DEF Extended
<1>4. ASSUME NEW k \in 0..n PROVE Extended(t, n)[k] = t[k]
  <2>1. k \in 0..RxNum /\ k # n + 1
    BY <1>1
  <2> QED BY <2>1 DEF Extended
<1>5. ASSUME NEW k \in 0..((n + 1) - 1)
      PROVE  IsPart(Extended(t, n)[k]) /\ Extended(t, n)[k + 1] = AfterPart(Extended(t, n)[k])
  <2>1. k \in 0..n
    BY <1>1
  <2>2. CASE k = n
    BY <1>3, <1>4, <2>1, <2>2
  <2>3. CASE k # n
    <3>1. k \in 0..(n - 1) /\ k + 1 \in 0..n
      BY <1>1, <2>1, <2>3
    <3> QED BY <1>4, <2>1, <3>1 DEF Chain
  <2> QED BY <2>2, <2>3
<1> QED BY <1>1, <1>3, <1>4, <1>5 DEF Chain

-----------------------------------------------------------------------------
(* The ring, when a descriptor is filled, finished or released.            *)

\* A released descriptor is open, and keeps its size.
LEMMA ReleasedOpen ==
  \A d \in Desc : d.data_count = RxSize => OpenDesc(ReleaseDesc(d)) /\ ReleaseDesc(d).cnt = 0
BY ReleaseType DEF ReleaseDesc, CleanDesc, OpenDesc, Desc

\* Descriptor d is stored at the open position without being finished.
LEMMA RingStays ==
  ASSUME NEW ds \in [Ring -> Desc], NEW u \in Ring, NEW f, NEW n \in 0..RxNum, n < RxNum, NEW t,
         RingHolds(ds, u, f, n, t), NEW d, OpenDesc(d)
  PROVE  RingHolds(Put(ds, f, d), u, f, n, t) /\ f \in Ring /\ Put(ds, f, d)[f] = d
<1>1. n \in Ring /\ f = RingPos(u, n) /\ f \in Ring
  BY RingFacts, PosType DEF RingHolds
<1>2. ASSUME NEW k \in Ring, k # n
      PROVE  Put(ds, f, d)[RingPos(u, k)] = ds[RingPos(u, k)]
  <2>1. RingPos(u, k) \in Ring /\ RingPos(u, k) # f
    BY <1>1, <1>2, PosInjective, PosType, RingFacts
  <2> QED BY <2>1 DEF Put
<1>3. Put(ds, f, d)[f] = d
  BY <1>1 DEF Put
<1>4. ASSUME NEW k \in Ring
      PROVE  /\ IF k < n THEN HoldsPart(Put(ds, f, d)[RingPos(u, k)], t[k])
                         ELSE OpenDesc(Put(ds, f, d)[RingPos(u, k)])
             /\ k > n => Put(ds, f, d)[RingPos(u, k)].cnt = 0
  <2>1. CASE k = n
    <3>1. ~(k < n) /\ ~(k > n)
      BY <2>1, RingFacts
    <3> QED BY <1>1, <1>3, <2>1, <3>1
  <2>2. CASE k # n
    BY <1>2, <2>2 DEF RingHolds
  <2> QED BY <2>1, <2>2
<1> QED BY <1>1, <1>3, <1>4 DEF RingHolds

\* The parts up to the n-th are the same.
Agree(s, t, n) == \A k \in 0..n : s[k] = t[k]

\* Descriptor d at the open position is finished and holds part t[n].
LEMMA RingGrows ==
  ASSUME NEW ds \in [Ring -> Desc], NEW u \in Ring, NEW f, NEW n \in 0..RxNum, n < RxNum,
         NEW t, NEW s, Agree(s, t, n), RingHolds(ds, u, f, n, t), NEW d, HoldsPart(d, t[n])
  PROVE  RingHolds(Put(ds, f, d), u, NextDesc(f), n + 1, s)
<1>0. \A k \in 0..n : s[k] = t[k]
  BY DEF Agree
<1>1. n \in Ring /\ f = RingPos(u, n) /\ f \in Ring
  BY RingFacts, PosType DEF RingHolds
<1>2. ASSUME NEW k \in Ring, k # n
      PROVE  Put(ds, f, d)[RingPos(u, k)] = ds[RingPos(u, k)]
  <2>1. RingPos(u, k) \in Ring /\ RingPos(u, k) # f
    BY <1>1, <1>2, PosInjective, PosType, RingFacts
  <2> QED BY <2>1 DEF Put
<1>3. Put(ds, f, d)[f] = d
  BY <1>1 DEF Put
<1>4. NextDesc(f) = RingPos(u, n + 1)
  BY <1>1, NextOfPos
<1>5. n \in Nat /\ \A k \in Ring : k \in Nat
  BY RingFacts
<1>6. ASSUME NEW k \in Ring
      PROVE  /\ IF k < n + 1 THEN HoldsPart(Put(ds, f, d)[RingPos(u, k)], s[k])
                             ELSE OpenDesc(Put(ds, f, d)[RingPos(u, k)])
             /\ k > n + 1 => Put(ds, f, d)[RingPos(u, k)].cnt = 0
  <2>1. CASE k = n
    <3>1. k < n + 1 /\ ~(k > n + 1) /\ k \in 0..n
      BY <2>1, RingFacts
    <3>2. s[k] = t[n]
      BY <1>0, <2>1, <3>1
    <3> QED BY <1>1, <1>3, <2>1, <3>1, <3>2
  <2>2. CASE k < n
    <3>1. k < n + 1 /\ ~(k > n + 1) /\ k \in 0..n /\ k # n
      BY <2>2, RingFacts
    <3>2. HoldsPart(ds[RingPos(u, k)], t[k])
      BY <2>2 DEF RingHolds
    <3>3. s[k] = t[k]
      BY <1>0, <3>1
    <3> QED BY <1>2, <3>1, <3>2, <3>3
  <2>3. CASE k > n
    <3>1. ~(k < n + 1) /\ ~(k < n) /\ k # n
      BY <1>5, <2>3
    <3>2. OpenDesc(ds[RingPos(u, k)]) /\ ds[RingPos(u, k)].cnt = 0
      BY <2>3, <3>1 DEF RingHolds
    <3> QED BY <1>2, <3>1, <3>2
  <2>4. k = n \/ k < n \/ k > n
    BY <1>5
  <2> QED BY <2>1, <2>2, <2>3, <2>4
<1> QED BY <1>4, <1>6 DEF RingHolds

\* The descriptor behind the open position has no data.
LEMMA NextIsEmpty ==
  ASSUME NEW ds \in [Ring -> Desc], NEW u \in Ring, NEW f, NEW n \in 0..RxNum, n + 1 < RxNum,
         NEW t, RingHolds(ds, u, f, n, t), NEW d
  PROVE  Put(ds, f, d)[NextDesc(f)].cnt = 0
<1>1. n \in Ring /\ f = RingPos(u, n) /\ f \in Ring /\ n + 1 \in Ring /\ n + 1 # n /\ n + 1 > n
  BY RingFacts, PosType DEF RingHolds
<1>2. NextDesc(f) = RingPos(u, n + 1)
  BY <1>1, NextOfPos
<1>3. RingPos(u, n + 1) \in Ring /\ RingPos(u, n + 1) # f
  BY <1>1, PosInjective, PosType, RingFacts
<1> QED BY <1>1, <1>2, <1>3 DEF Put, RingHolds

\* s holds the parts behind the first of t.
Behind(s, t, n) == \A k \in 0..(n - 1) : s[k] = t[k + 1]

\* The first descriptor is released.
LEMMA RingShrinks ==
  ASSUME NEW ds \in [Ring -> Desc], NEW u \in Ring, NEW f, NEW n \in 0..RxNum, n # 0,
         NEW t, NEW s, Behind(s, t, n),
         RingHolds(ds, u, f, n, t), NEW d, OpenDesc(d), d.cnt = 0
  PROVE  RingHolds(Put(ds, u, d), NextDesc(u), f, n - 1, s)
<1>0. n - 1 \in Ring /\ (n - 1) + 1 = n /\ f = RingPos(u, n)
  BY RingFacts DEF RingHolds
<1>1. f = RingPos(NextDesc(u), n - 1) /\ NextDesc(u) \in Ring
  BY <1>0, PosOfNext
<1>2. ASSUME NEW k \in Ring, k # RxNum - 1
      PROVE  /\ k + 1 \in Ring
             /\ Put(ds, u, d)[RingPos(NextDesc(u), k)] = ds[RingPos(u, k + 1)]
  <2>1. RingPos(NextDesc(u), k) = RingPos(u, k + 1) /\ k + 1 \in Ring /\ k + 1 # 0
    BY <1>2, PosOfNext, RingFacts
  <2>2. RingPos(u, k + 1) \in Ring /\ RingPos(u, k + 1) # u
    BY <2>1, PosInjective, PosZero, PosType, RingFacts
  <2> QED BY <2>1, <2>2 DEF Put
<1>3. RxNum - 1 \in Ring /\ Put(ds, u, d)[RingPos(NextDesc(u), RxNum - 1)] = d
  <2>1. RxNum - 1 \in Ring /\ (RxNum - 1) + 1 = RxNum
    BY RingAssumption DEF Ring
  <2>2. RingPos(NextDesc(u), RxNum - 1) = u
    BY <2>1, PosOfNext, PosZero
  <2> QED BY <2>1, <2>2 DEF Put
<1>4. ASSUME NEW k \in Ring
      PROVE  /\ IF k < n - 1 THEN HoldsPart(Put(ds, u, d)[RingPos(NextDesc(u), k)], s[k])
                             ELSE OpenDesc(Put(ds, u, d)[RingPos(NextDesc(u), k)])
             /\ k > n - 1 => Put(ds, u, d)[RingPos(NextDesc(u), k)].cnt = 0
  <2>1. CASE k = RxNum - 1
    <3>1. ~(k < n - 1)
      BY <2>1, RingFacts
    <3> QED BY <1>3, <2>1, <3>1
  <2>2. CASE k # RxNum - 1 /\ k < n - 1
    <3>1. k + 1 < n /\ k \in 0..(n - 1) /\ ~(k > n - 1)
      BY <2>2, RingFacts
    <3>2. HoldsPart(ds[RingPos(u, k + 1)], t[k + 1])
      BY <1>2, <2>2, <3>1 DEF RingHolds
    <3>3. s[k] = t[k + 1]
      BY <3>1 DEF Behind
    <3> QED BY <1>2, <2>2, <3>1, <3>2, <3>3
  <2>3. CASE k # RxNum - 1 /\ ~(k < n - 1)
    <3>1. ~(k + 1 < n) /\ (k > n - 1 => k + 1 > n)
      BY <2>3, RingFacts
    <3>2. OpenDesc(ds[RingPos(u, k + 1)]) /\ (k + 1 > n => ds[RingPos(u, k + 1)].cnt = 0)
      BY <1>2, <2>3, <3>1 DEF RingHolds
    <3> QED BY <1>2, <2>3, <3>1, <3>2
  <2> QED BY <2>1, <2>2, <2>3
<1> QED BY <1>1, <1>4 DEF RingHolds

\* Releasing the first descriptor leaves the one that is filled as it was.
LEMMA TipKept ==
  ASSUME NEW ds \in [Ring -> Desc], NEW u \in Ring, NEW f, NEW n \in 0..RxNum, n # 0,
         f = RingPos(u, n), NEW d, d.cnt = 0
  PROVE  /\ n = RxNum => Put(ds, u, d)[f].cnt = 0
         /\ n # RxNum => Put(ds, u, d)[f] = ds[f]
<1>1. f = RingPos(u, n)
  OBVIOUS
<1>2. n = RxNum => Put(ds, u, d)[f].cnt = 0
  <2>1. n = RxNum => f = u
    BY <1>1, PosZero
  <2> QED BY <2>1 DEF Put
<1>3. n # RxNum => Put(ds, u, d)[f] = ds[f]
  <2> SUFFICES ASSUME n # RxNum PROVE Put(ds, u, d)[f] = ds[f]
    OBVIOUS
  <2>1. n \in Ring
    BY RingFacts
  <2>2. f \in Ring /\ f # u
    BY <1>1, <2>1, PosInjective, PosZero, PosType, RingFacts
  <2> QED BY <2>2 DEF Put
<1> QED BY <1>2, <1>3

\* The first descriptor of a ring that is not empty holds part t[0].
LEMMA FirstHolds ==
  ASSUME NEW ds, NEW u \in Ring, NEW f, NEW n \in 0..RxNum, n # 0, NEW t,
         RingHolds(ds, u, f, n, t)
  PROVE  HoldsPart(ds[u], t[0])
<1>1. 0 \in Ring /\ 0 < n /\ RingPos(u, 0) = u
  BY PosZero, RingFacts
<1> QED BY <1>1 DEF RingHolds

\* What is finished holds a part; FE is where a frame ends.
LEMMA HoldsFinished ==
  ASSUME NEW ds, NEW u \in Ring, NEW f, NEW n \in 0..RxNum, NEW t,
         RingHolds(ds, u, f, n, t), NEW k \in Ring
  PROVE  /\ Finished(ds[RingPos(u, k)]) <=> k < n
         /\ Complete(ds[RingPos(u, k)]) <=> k < n /\ LastPart(t[k])
BY DEF RingHolds, HoldsPart, OpenDesc, Finished, Complete

\* A frame that is ready is the one of part t[0]: its size and where it ends.
LEMMA FrontFrame ==
  ASSUME NEW ds, NEW u \in Ring, NEW f, NEW n \in 0..RxNum, NEW t \in [0..RxNum -> Part],
         RingHolds(ds, u, f, n, t), Chain(t, n), NEW k \in Ring, EndsAt(ds, u, k)
  PROVE  /\ k < n /\ n # 0 /\ LastPart(t[k]) /\ t[k].f = t[0].f
         /\ ds[RingPos(u, k)].cnt = Traffic[t[0].f]
         /\ IsPart(t[0])
<1>1. k < n /\ LastPart(t[k])
  BY HoldsFinished DEF EndsAt
<1>2. k \in 0..n /\ n # 0 /\ n \in Nat /\ 0 \in 0..(n - 1)
  BY <1>1, RingFacts
<1>3. ASSUME NEW j \in 0..(k - 1) PROVE ~LastPart(t[j])
  <2>1. j \in Ring /\ j < n
    BY <1>1, RingFacts DEF Ring
  <2> QED BY <2>1, HoldsFinished DEF EndsAt
<1>4. t[k].f = t[0].f
  BY <1>2, <1>3, ChainFacts
<1>5. HoldsPart(ds[RingPos(u, k)], t[k])
  BY <1>1 DEF RingHolds
<1> QED BY <1>1, <1>2, <1>4, <1>5 DEF HoldsPart, Chain

-----------------------------------------------------------------------------
(* The FIFO, when bytes arrive and when words are read.                    *)

\* Offsets are numbers.
LEMMA LinesType ==
  ASSUME NEW W, Lines(W)
  PROVE  /\ \A f \in 1..(Len(Traffic) + 1) : W[f] \in Nat
         /\ \A f \in Frames : W[f] \in Nat /\ W[f + 1] = W[f] + WordsOf(Traffic[f])
<1>1. Len(Traffic) \in Nat
  BY TrafficAssumption, LenProperties
<1>2. \A f \in Frames : f \in 1..(Len(Traffic) + 1)
  BY <1>1 DEF Frames
<1> QED BY <1>2 DEF Lines

\* More bytes of the frame at the tip.
LEMMA RunExtend ==
  ASSUME NEW W, Lines(W), NEW fifo \in Seq(Byte), NEW base \in Nat,
         NEW f0 \in Frames, NEW k0 \in Nat, NEW tip, tip.f = f0, tip.k = k0,
         FifoRun(W, fifo, base, tip),
         NEW q \in Seq(Byte), k0 + Len(q) <= WordsOf(Traffic[f0]),
         \A j \in 1..Len(q) : q[j] = WordByte(f0, k0 + j),
         NEW tip2, W[tip2.f] + tip2.k = (W[f0] + k0) + Len(q)
  PROVE  FifoRun(W, fifo \o q, base, tip2)
<1> DEFINE L == Len(fifo)
           m == Len(q)
           c == W[f0]
           wd == WordsOf(Traffic[f0])
<1>1. L \in Nat /\ m \in Nat /\ c \in Nat /\ wd \in Nat /\ f0 \in Nat
  BY LenProperties, LinesType, FrameWords
<1>2. L = (c + k0) - base /\ k0 + m <= wd
  BY DEF FifoRun
<1>3. Len(fifo \o q) = L + m /\ \A i \in 1..(L + m) :
        (fifo \o q)[i] = IF i <= L THEN fifo[i] ELSE q[i - L]
  BY ConcatProperties
<1>4. ASSUME NEW f \in Frames, NEW j \in 1..WordsOf(Traffic[f]), (W[f] + j) - base \in 1..(L + m)
      PROVE  (fifo \o q)[(W[f] + j) - base] = WordByte(f, j)
  <2> DEFINE d == W[f]
             v == WordsOf(Traffic[f])
             i == (d + j) - base
  <2>1. d \in Nat /\ v \in Nat /\ j \in Nat /\ j >= 1 /\ j <= v /\ f \in Nat
    BY LinesType, FrameWords
  <2>2. i \in 1..(L + m)
    BY <1>4
  <2>3. f < f0 => d + v <= c
    BY LinesRise, FrameWords DEF Frames
  <2>4. f0 < f => c + wd <= d
    BY LinesRise, FrameWords DEF Frames
  <2>5. CASE i <= L
    <3>1. i \in 1..L
      BY <1>1, <2>2, <2>5
    <3>2. fifo[i] = WordByte(f, j)
      BY <3>1 DEF FifoRun
    <3> QED BY <1>3, <2>2, <2>5, <3>2
  <2>6. CASE ~(i <= L)
    <3> HIDE DEF L, m, c, wd, d, v
    <3>1. ~(f < f0) /\ ~(f0 < f)
      BY <1>1, <1>2, <2>1, <2>2, <2>3, <2>4, <2>6
    <3>2. f = f0
      BY <1>1, <2>1, <3>1
    <3>3. d = c
      BY <3>2 DEF d, c
    <3>4. i - L \in 1..m /\ k0 + (i - L) = j
      BY <1>1, <1>2, <2>1, <2>2, <2>6, <3>3
    <3> HIDE DEF i
    <3>5. (fifo \o q)[i] = q[i - L]
      BY <1>3, <2>2, <2>6
    <3>6. q[i - L] = WordByte(f0, k0 + (i - L))
      BY <3>4 DEF m
    <3> QED BY <3>2, <3>4, <3>5, <3>6 DEF i, d
  <2> QED BY <2>5, <2>6
<1>5. Len(fifo \o q) = (W[tip2.f] + tip2.k) - base
  <2> HIDE DEF L, m, c
  <2>1. L + m = ((c + k0) + m) - base
    BY <1>1, <1>2
  <2> QED BY <1>3, <2>1 DEF c, m
<1> QED BY <1>3, <1>4, <1>5 DEF FifoRun

\* m bytes are read from the front.
LEMMA RunDrop ==
  ASSUME NEW W, NEW fifo \in Seq(Byte), NEW base \in Nat, NEW tip,
         W[tip.f] + tip.k \in Nat, Lines(W),
         FifoRun(W, fifo, base, tip), NEW m \in Nat, m <= Len(fifo)
  PROVE  FifoRun(W, SubSeq(fifo, m + 1, Len(fifo)), base + m, tip)
<1> DEFINE L == Len(fifo)
           rest == SubSeq(fifo, m + 1, L)
           e == W[tip.f] + tip.k
<1>1. L \in Nat /\ e \in Nat /\ L = e - base
  BY LenProperties DEF FifoRun
<1>2. Len(rest) = L - m /\ \A i \in 1..(L - m) : rest[i] = fifo[m + i]
  <2>1. m + 1 \in Int /\ m + 1 >= 1 /\ \A i \in (m + 1)..L : fifo[i] \in Byte
    BY <1>1, ElementOfSeq
  <2> QED BY <1>1, <2>1, SubSeqProperties
<1>3. ASSUME NEW f \in Frames, NEW j \in 1..WordsOf(Traffic[f]), (W[f] + j) - (base + m) \in 1..(L - m)
      PROVE  rest[(W[f] + j) - (base + m)] = WordByte(f, j)
  <2> DEFINE d == W[f]
             i == (d + j) - (base + m)
  <2>1. d \in Nat /\ j \in Nat
    BY LinesType, FrameWords
  <2>a. \A x, b, y, z \in Nat : x - (b + y) \in 1..(z - y) =>
          /\ y + (x - (b + y)) = x - b /\ x - b \in 1..z
    <3> SUFFICES ASSUME NEW x \in Nat, NEW b \in Nat, NEW y \in Nat, NEW z \in Nat,
                        x - (b + y) \in 1..(z - y)
                 PROVE  y + (x - (b + y)) = x - b /\ x - b \in 1..z
      OBVIOUS
    <3> HIDE DEF rest, L, d, e, i
    <3>1. x - (b + y) \in Int /\ 1 <= x - (b + y) /\ x - (b + y) <= z - y /\ x - b \in Int
      OBVIOUS
    <3> QED BY ONLY <3>1, x \in Nat, b \in Nat, y \in Nat, z \in Nat
  <2>b. d + j \in Nat /\ i \in 1..(L - m)
    BY <1>3, <2>1
  <2> HIDE DEF rest, L, d
  <2>2. m + i = (d + j) - base /\ (d + j) - base \in 1..L /\ i \in 1..(L - m)
    <3> DEFINE x == d + j
    <3>1. x \in Nat /\ x - (base + m) \in 1..(L - m)
      BY <2>b
    <3> HIDE DEF x
    <3>2. m + (x - (base + m)) = x - base /\ x - base \in 1..L
      BY <1>1, <2>a, <3>1
    <3> QED BY <2>b, <3>2 DEF x
  <2>3. rest[i] = fifo[(d + j) - base]
    BY <1>2, <2>2
  <2>4. fifo[(d + j) - base] = WordByte(f, j)
    BY <2>2 DEF FifoRun, d, L
  <2> QED BY <2>3, <2>4 DEF d
<1>4. L - m = e - (base + m)
  <2> HIDE DEF L, e
  <2> QED BY <1>1
<1> HIDE DEF rest
<1> QED BY <1>2, <1>3, <1>4 DEF FifoRun, rest

\* The front of the FIFO is the rest of the current frame.
LEMMA RunFront ==
  ASSUME NEW W, Lines(W), NEW fifo, NEW tip, NEW base, FifoRun(W, fifo, base, tip),
         Len(fifo) \in Nat
  PROVE  \A g \in Frames, got \in Nat : \A j \in 1..Len(fifo) :
           base = W[g] + got /\ got + j <= Traffic[g] => fifo[j] = <<g, got + j>>
<1> SUFFICES ASSUME NEW g \in Frames, NEW got \in Nat, NEW j \in 1..Len(fifo),
                    base = W[g] + got, got + j <= Traffic[g]
             PROVE  fifo[j] = <<g, got + j>>
  OBVIOUS
<1> DEFINE d == W[g]
           s == Traffic[g]
           v == WordsOf(s)
<1>1. d \in Nat /\ s \in Nat /\ v \in Nat /\ s <= v
  BY LinesType, FrameWords
<1> HIDE DEF d, s, v
<1>2. got + j \in 1..v /\ got + j <= s /\ (d + (got + j)) - (d + got) = j /\ j \in 1..Len(fifo)
  BY <1>1 DEF s
<1>3. fifo[(d + (got + j)) - (d + got)] = WordByte(g, got + j)
  BY <1>2 DEF FifoRun, d, s, v
<1> QED BY <1>2, <1>3 DEF WordByte, s

-----------------------------------------------------------------------------
(* Steps that leave the ring alone.                                        *)

\* What the settings of a run may be is the same before and after a step.
SettingsStay ==
  /\ StatusOn' <=> StatusOn
  /\ StatusOff' <=> StatusOff
  /\ StampOn' <=> StampOn
  /\ StampOff' <=> StampOff

\* An ioctl flips only the settings it may flip.
LEMMA SettingsKept ==
  ASSUME IndInv, [Next]_vars
  PROVE  SettingsStay
<1> USE DEF ioctl
<1>1. CASE settings' = settings
  BY <1>1 DEF SettingsStay, StatusOn, StatusOff, StampOn, StampOff
<1>2. ASSUME NEW s \in Toggles, ToggleSetting(s)
      PROVE  SettingsStay
  <2>1. settings' = [settings EXCEPT ![s] = ~settings[s]] /\ settings \in [SettingNames -> BOOLEAN]
    BY <1>2 DEF ToggleSetting, IndInv, TypeOK, TypeIoctl
  <2>2. \A x \in SettingNames \ {s} : settings'[x] = settings[x]
    BY <2>1
  <2>3. "append_status" \notin Toggles => settings'["append_status"] = settings["append_status"]
    BY <2>2 DEF SettingNames
  <2>4. "append_timestamp" \notin Toggles =>
          settings'["append_timestamp"] = settings["append_timestamp"]
    BY <2>2 DEF SettingNames
  <2> QED BY <2>3, <2>4 DEF SettingsStay, StatusOn, StatusOff, StampOn, StampOff
<1>3. CASE UNCHANGED vars
  BY <1>3, <1>1 DEF vars
<1>4. CASE Next
  <2>1. CASE \E n \in Arrivals : LineArrive(n)
    BY <2>1, <1>1 DEF LineArrive
  <2>2. CASE LineLost \/ ClockChange \/ fscc_isr \/ timer_handler \/ IframeStart
    BY <2>2, <1>1 DEF LineLost, ClockChange, fscc_isr, timer_handler, IframeStart
  <2>3. CASE IframeStep
    BY <2>3, <1>1 DEF IframeStep, FifoSample, FifoStore, IframeDone
  <2>4. CASE \E len \in ReadLens : FsccEvtIoRead(len)
    BY <2>4, <1>1 DEF FsccEvtIoRead
  <2>5. CASE \E r \in Readers : ReaderStep(r)
    BY <2>5, <1>1 DEF ReaderStep, Locking, Copying, ProcessReadPeek, RetrieveNextRequest,
         ReadFrameRefuse, ReadFrameEnter, ReadStreamEnter, ReadFrameDesc, ReadNextFrame,
         ReadStreamDesc, ReadComplete
  <2>6. CASE PurgeStep
    BY <2>6, <1>1 DEF PurgeStep, PurgeBegin, PurgeReset, PurgeQueues, PurgeFinish
  <2>7. CASE \E s \in Toggles : ToggleSetting(s)
    BY <2>7, <1>2
  <2> QED BY <1>4, <2>1, <2>2, <2>3, <2>4, <2>5, <2>6, <2>7 DEF Next
<1> QED BY <1>3, <1>4

\* No reader starts or ends a copy, or changes what it knows of it.
ReadersQuiet ==
  \A r \in Readers :
    /\ reader'[r].pc # "stream"
    /\ reader[r].pc = "copy" => reader'[r].pc = "copy"
    /\ reader'[r].pc \in {"copy", "next"} => reader'[r] = reader[r]

\* What is known of the readers stays, for as many descriptors as they have room for.
LEMMA ReadersStay ==
  ASSUME NEW n, NEW m, NEW b, ReadersInv(n, b), SettingsStay, ReadersQuiet, purged' = purged,
         \A r \in Readers : reader[r].pc \in {"copy", "next"} => reader[r].i + m <= RxNum
  PROVE  ReadersInv(m, b)'
<1>1. ASSUME NEW r \in Readers, reader'[r].pc = "copy"
      PROVE  CopyAt(reader[r], b)'
  <2>1. reader'[r] = reader[r] /\ CopyAt(reader[r], b)
    BY <1>1 DEF ReadersQuiet, ReadersInv
  <2> QED BY <2>1 DEF CopyAt, Wanted, SettingsStay
<1>2. ASSUME NEW r \in Readers
      PROVE  /\ reader'[r].pc # "stream"
             /\ reader'[r].pc \in {"copy", "next"} => reader'[r].i + m <= RxNum
  <2>1. reader'[r].pc \in {"copy", "next"} => reader'[r] = reader[r] /\ reader[r].pc \in {"copy", "next"}
    BY DEF ReadersQuiet
  <2> QED BY <2>1 DEF ReadersQuiet
<1>3. purged' < b.f /\ (b.from # 0 => \E r \in Readers : reader'[r].pc = "copy")
  BY DEF ReadersInv, ReadersQuiet
<1> QED BY <1>1, <1>2, <1>3 DEF ReadersInv

\* A step that leaves the ring and the FIFO alone.
LEMMA QuietFrame ==
  ASSUME NEW W, NEW b, FrameInv(W, b), SettingsStay, ReadersQuiet,
         UNCHANGED <<ring, rxfifo, bcfifo, line, recd, purged>>,
         iframe'.pc = "store" => iframe.pc = "store",
         purge'.pc = purge.pc \/ (purge.pc = "queues" /\ purge'.pc = "drain")
  PROVE  FrameInv(W, b)'
<1> USE DEF ring
<1>1. PICK n \in 0..RxNum, t \in [0..RxNum -> Part], tip \in [f : Nat \ {0}, k : Nat] :
        /\ t[0] = b
        /\ RingInv(n, t)
        /\ FifoInv(W, t[n].f, tip)
        /\ TipInv(t[n].f, n, t, tip)
        /\ ReadersInv(n, b)
  BY DEF FrameInv
<1>2. RingInv(n, t)'
  BY <1>1 DEF RingInv
<1>3. FifoInv(W, t[n].f, tip)'
  BY <1>1 DEF FifoInv
<1>4. TipInv(t[n].f, n, t, tip)'
  BY <1>1 DEF TipInv
<1>5. ReadersInv(n, b)'
  <2>1. \A r \in Readers : reader[r].pc \in {"copy", "next"} => reader[r].i + n <= RxNum
    BY <1>1 DEF ReadersInv
  <2> QED BY <1>1, <2>1, ReadersStay
<1> QED BY <1>1, <1>2, <1>3, <1>4, <1>5 DEF FrameInv

-----------------------------------------------------------------------------
(* Steps of the card.                                                      *)

\* A step of the card leaves what is in the ring, and the readers, alone.
LEMMA CardFrame ==
  ASSUME NEW W, NEW b, NEW n \in 0..RxNum, NEW t \in [0..RxNum -> Part],
         NEW tip \in [f : Nat \ {0}, k : Nat], t[0] = b, RingInv(n, t), ReadersInv(n, b),
         SettingsStay, FifoInv(W, t[n].f, tip)', TipInv(t[n].f, n, t, tip)',
         UNCHANGED <<rx_descriptors, user_rx_desc, fifo_rx_desc, rx_bytes_in_frame>>,
         UNCHANGED <<reader, purged>>
  PROVE  FrameInv(W, b)'
<1>1. RingInv(n, t)'
  BY DEF RingInv
<1>2. ReadersQuiet /\ \A r \in Readers : reader[r].pc \in {"copy", "next"} => reader[r].i + n <= RxNum
  BY DEF ReadersInv, ReadersQuiet
<1>3. ReadersInv(n, b)'
  BY <1>2, ReadersStay
<1> QED BY <1>1, <1>3 DEF FrameInv

\* One size more in the byte count FIFO.
LEMMA SizesGrow ==
  ASSUME NEW bc \in Seq(Nat), NEW first \in Nat, NEW last \in Nat, SizesOf(bc, first, last),
         NEW size \in Nat, size = Traffic[last]
  PROVE  SizesOf(Append(bc, size), first, last + 1)
<1>1. Len(bc) \in Nat /\ Len(bc) = last - first /\ \A j \in 1..Len(bc) : bc[j] = Traffic[first + (j - 1)]
  BY LenProperties DEF SizesOf
<1>2. /\ Len(Append(bc, size)) = Len(bc) + 1
      /\ \A j \in 1..Len(bc) : Append(bc, size)[j] = bc[j]
      /\ Append(bc, size)[Len(bc) + 1] = size
  BY AppendProperties
<1>3. ASSUME NEW j \in 1..(Len(bc) + 1)
      PROVE  Append(bc, size)[j] = Traffic[first + (j - 1)]
  <2>1. CASE j = Len(bc) + 1
    <3>1. first + (j - 1) = last
      BY <1>1, <2>1
    <3> QED BY <1>2, <2>1, <3>1
  <2>2. CASE j # Len(bc) + 1
    <3>1. j \in 1..Len(bc)
      BY <1>1, <2>2
    <3> QED BY <1>1, <1>2, <3>1
  <2> QED BY <2>1, <2>2
<1>4. Len(bc) + 1 = (last + 1) - first
  BY <1>1
<1> QED BY <1>2, <1>3, <1>4 DEF SizesOf

\* The first size is taken out of the byte count FIFO.
LEMMA SizesShrink ==
  ASSUME NEW bc \in Seq(Nat), bc # <<>>, NEW first \in Nat, NEW last \in Nat, SizesOf(bc, first, last)
  PROVE  /\ SizesOf(Tail(bc), first + 1, last) /\ Head(bc) = Traffic[first] /\ first < last
<1>1. Len(bc) \in Nat /\ Len(bc) # 0 /\ Len(bc) = last - first
      /\ \A j \in 1..Len(bc) : bc[j] = Traffic[first + (j - 1)]
  BY EmptySeq, LenProperties DEF SizesOf
<1>2. /\ Len(Tail(bc)) = Len(bc) - 1 /\ \A j \in 1..(Len(bc) - 1) : Tail(bc)[j] = bc[j + 1]
      /\ Head(bc) = bc[1]
  BY HeadTailProperties
<1>3. ASSUME NEW j \in 1..(Len(bc) - 1)
      PROVE  Tail(bc)[j] = Traffic[(first + 1) + (j - 1)]
  <2>1. j + 1 \in 1..Len(bc) /\ first + ((j + 1) - 1) = (first + 1) + (j - 1)
    BY <1>1
  <2>2. bc[j + 1] = Traffic[first + ((j + 1) - 1)]
    BY <1>1, <2>1
  <2> QED BY <1>2, <2>1, <2>2
<1>4. Len(bc) - 1 = last - (first + 1) /\ first < last /\ 1 \in 1..Len(bc) /\ first + (1 - 1) = first
  BY <1>1
<1> QED BY <1>1, <1>2, <1>3, <1>4 DEF SizesOf

\* The state the proofs about the ring start from: types, and a place on the line.
LEMMA DeviceTypes ==
  ASSUME IndInv
  PROVE  /\ line \in [f : Nat \ {0}, k : Nat] /\ line.f \in Nat /\ line.f # 0 /\ line.k \in Nat
         /\ line = [f |-> line.f, k |-> line.k]
         /\ rxfifo \in Seq(Byte) /\ bcfifo \in Seq(Nat)
         /\ rx_frame_size \in Nat /\ rx_bytes_in_frame \in Nat
         /\ rx_descriptors \in [Ring -> Desc] /\ user_rx_desc \in Ring /\ fifo_rx_desc \in Ring
         /\ reader \in [Readers -> ReaderState]
BY DEF IndInv, TypeOK, TypeDevice, TypeRing, TypeUser, Ring

\* The offset of a place, and of what has left the FIFO.
LEMMA PlaceType ==
  ASSUME NEW W, Lines(W), NEW tip, IsPlace(tip), NEW g \in Nat \ {0}, NEW bytes \in Nat,
         Position(g, bytes, tip)
  PROVE  /\ W[tip.f] \in Nat /\ tip.f \in Nat /\ tip.k \in Nat /\ W[tip.f] + tip.k \in Nat
         /\ W[g] \in Nat /\ W[g] + bytes \in Nat
         /\ g < tip.f => g \in Frames
<1>1. Len(Traffic) \in Nat
  BY TrafficAssumption, LenProperties
<1>2. tip.f \in Nat \ {0} /\ tip.k \in Nat /\ tip.f <= Len(Traffic) + 1 /\ g <= tip.f
  BY DEF IsPlace, Position
<1>3. tip.f \in 1..(Len(Traffic) + 1) /\ g \in 1..(Len(Traffic) + 1)
  BY <1>1, <1>2
<1>4. W[tip.f] \in Nat /\ W[g] \in Nat
  BY <1>3, LinesType
<1>5. g < tip.f => g \in Frames
  BY <1>1, <1>2 DEF Frames
<1> QED BY <1>2, <1>4, <1>5

\* The tip moves on within its frame, or to the next one.
LEMMA PositionMoves ==
  ASSUME NEW tip, IsPlace(tip), NEW g \in Nat, NEW bytes \in Nat, Position(g, bytes, tip),
         NEW tip2, IsPlace(tip2),
         \/ tip2.f = tip.f /\ tip.k <= tip2.k
         \/ tip2.f = tip.f + 1 /\ tip.k < Traffic[tip.f]
  PROVE  Position(g, bytes, tip2)
<1>1. /\ tip.f \in Nat /\ tip.k \in Nat /\ tip2.f \in Nat /\ tip2.k \in Nat
  BY DEF IsPlace
<1>2. g <= tip.f /\ (g < tip.f => bytes < Traffic[g]) /\ (g = tip.f => bytes <= tip.k)
  BY DEF Position
<1>3. CASE tip2.f = tip.f /\ tip.k <= tip2.k
  <2>1. g <= tip2.f /\ (g < tip2.f => bytes < Traffic[g]) /\ (g = tip2.f => bytes <= tip2.k)
    BY <1>1, <1>2, <1>3
  <2> QED BY <2>1 DEF Position
<1>4. CASE tip2.f = tip.f + 1 /\ tip.k < Traffic[tip.f]
  <2>1. g <= tip2.f /\ g # tip2.f
    BY <1>1, <1>2, <1>4
  <2>2. bytes < Traffic[g]
    <3>1. CASE g < tip.f
      BY <1>2, <3>1
    <3>2. CASE g = tip.f
      <4>1. Traffic[g] \in Nat
        <5>1. CASE tip.f \in Frames
          BY <3>2, <5>1, FrameWords
        <5>2. CASE tip.f \notin Frames
          <6>1. tip.f = Len(Traffic) + 1 /\ Len(Traffic) \in Nat
            BY <1>1, <1>2, <3>2, <5>2, TrafficAssumption, LenProperties DEF IsPlace, Frames
          <6> QED BY <1>1, <1>4, <6>1 DEF IsPlace
        <5> QED BY <5>1, <5>2
      <4> QED BY <1>1, <1>2, <1>4, <3>2, <4>1
    <3> QED BY <1>1, <1>2, <3>1, <3>2
  <2> QED BY <2>1, <2>2 DEF Position
<1> QED BY <1>3, <1>4

\* Bytes of the current frame arrive: the FIFO grows with the tip.
LEMMA ArriveFrame ==
  ASSUME ~Streaming, NEW W, Lines(W), NEW b, FrameInv(W, b), IndInv, SettingsStay, SizeSeen,
         NEW n \in Arrivals, LineArrive(n)
  PROVE  FrameInv(W, b)'
<1> USE DEF ring, dpcs, user, ioctl
<1> DEFINE f0   == line.f
           k0   == line.k
           size == Traffic[f0]
           data == [j \in 1..n |-> <<f0, k0 + j>>]
           pads == [j \in 1..(WordsOf(size) - size) |-> Pad]
<1>1. PICK m \in 0..RxNum, t \in [0..RxNum -> Part], tip \in [f : Nat \ {0}, k : Nat] :
        /\ t[0] = b
        /\ RingInv(m, t)
        /\ FifoInv(W, t[m].f, tip)
        /\ TipInv(t[m].f, m, t, tip)
        /\ ReadersInv(m, b)
  BY DEF FrameInv
<1> DEFINE g    == t[m].f
           base == W[g] + rx_bytes_in_frame
<1>2. /\ ~recd /\ f0 \in Frames /\ n \in Nat /\ n # 0 /\ f0 \in Nat /\ k0 \in Nat /\ k0 + n <= size
      /\ f0 # 0 /\ size \in Nat /\ size >= 2 /\ WordsOf(size) \in Nat /\ size <= WordsOf(size)
      /\ f0 <= Len(Traffic) /\ Len(Traffic) \in Nat
  <2>1. f0 \in Frames /\ f0 <= Len(Traffic) /\ Len(Traffic) \in Nat
    BY TrafficAssumption, LenProperties, DeviceTypes DEF LineArrive, Frames
  <2>2. size \in Nat /\ size >= 2 /\ WordsOf(size) \in Nat /\ size <= WordsOf(size)
    BY <2>1, FrameWords
  <2>3. n \in Nat /\ n # 0
    BY LineAssumption
  <2>4. f0 \in Nat /\ f0 # 0 /\ k0 \in Nat
    BY DeviceTypes
  <2>5. ~recd /\ n <= size - k0
    BY DEF LineArrive
  <2>6. k0 + n <= size
    <3> HIDE DEF size, k0
    <3> QED BY <2>2, <2>3, <2>4, <2>5
  <2> QED BY <2>1, <2>2, <2>3, <2>4, <2>5, <2>6
<1>3. \/ /\ k0 + n = size
         /\ rxfifo' = (rxfifo \o data) \o pads
         /\ bcfifo' = Append(bcfifo, size)
         /\ line' = [f |-> f0 + 1, k |-> 0]
      \/ /\ k0 + n < size
         /\ rxfifo' = rxfifo \o data
         /\ line' = [line EXCEPT !.k = k0 + n]
         /\ bcfifo' = bcfifo
  BY DEF LineArrive
<1>4. tip = line /\ purge.pc = "idle"
  BY <1>1, <1>2 DEF TipInv
<1>5. data \in Seq(Byte) /\ Len(data) = n /\ \A j \in 1..n : data[j] = WordByte(f0, k0 + j)
  <2>1. data \in [1..n -> Byte]
    BY <1>2, SMTT(20) DEF Byte
  <2>2. \A j \in 1..n : k0 + j <= size
    BY <1>2, SMTT(20)
  <2>3. \A j \in 1..n : data[j] = WordByte(f0, k0 + j)
    BY <2>2 DEF WordByte
  <2> HIDE DEF data
  <2> QED BY <1>2, <2>1, <2>3, FunctionIsSeq
<1>6. /\ pads \in Seq(Byte) /\ Len(pads) = WordsOf(size) - size
      /\ \A j \in 1..(WordsOf(size) - size) : pads[j] = WordByte(f0, size + j)
  <2>1. pads \in [1..(WordsOf(size) - size) -> Byte] /\ WordsOf(size) - size \in Nat
    BY <1>2, SMTT(20) DEF Byte, Pad
  <2>2. \A j \in 1..(WordsOf(size) - size) : ~(size + j <= size)
    BY <1>2
  <2>3. \A j \in 1..(WordsOf(size) - size) : pads[j] = WordByte(f0, size + j)
    BY <2>2 DEF WordByte
  <2> HIDE DEF pads
  <2> QED BY <2>1, <2>3, FunctionIsSeq, SMTT(20)
<1>7. t[m] \in Part /\ g \in Nat \ {0}
  BY <1>1 DEF Part
<1>8. /\ IsPlace(line) /\ Position(g, rx_bytes_in_frame, line) /\ FifoRun(W, rxfifo, base, line)
      /\ rx_frame_size # 0 => g < f0 /\ rx_frame_size = Traffic[g]
      /\ SizesOf(bcfifo, IF rx_frame_size = 0 THEN g ELSE g + 1, f0)
      /\ iframe.pc = "store" /\ rx_frame_size = 0 => bcfifo = <<>>
  BY <1>1, <1>4 DEF FifoInv
<1>9. W[g] \in Nat /\ W[f0] \in Nat /\ base \in Nat
  BY <1>7, <1>8, PlaceType, DeviceTypes
<1>10. /\ iframe'.pc = iframe.pc
       /\ UNCHANGED <<rx_descriptors, user_rx_desc, fifo_rx_desc, rx_bytes_in_frame, rx_frame_size>>
       /\ UNCHANGED <<reader, purged, purge, recd>>
  <2>1. iframe \in [pc : {"idle", "scan", "store", "exit"}, i : 0..RxNum, pace : Nat]
    BY DEF IndInv, TypeOK, TypeDpc
  <2> QED BY <2>1 DEF LineArrive
<1>11. rxfifo \in Seq(Byte) /\ bcfifo \in Seq(Nat) /\ rx_bytes_in_frame \in Nat
       /\ line \in [f : Nat \ {0}, k : Nat]
  BY DeviceTypes
<1>12. PICK tip2 \in [f : Nat \ {0}, k : Nat] : tip2 = line'
  <2>1. line' \in [f : Nat \ {0}, k : Nat]
    BY LineArriveInv DEF IndInv, TypeOK, TypeDevice
  <2> QED BY <2>1
<1> HIDE DEF data, pads
<1>13. ASSUME NEW to, W[to.f] + to.k = (W[f0] + k0) + n, k0 + n <= WordsOf(Traffic[f0])
       PROVE  FifoRun(W, rxfifo \o data, base, to)
  <2>1. PICK s : s = rxfifo
    OBVIOUS
  <2>2. PICK q : q = data
    OBVIOUS
  <2>3. PICK k : k = k0
    OBVIOUS
  <2>4. /\ s \in Seq(Byte) /\ FifoRun(W, s, base, line) /\ line.f = f0 /\ line.k = k /\ k \in Nat
        /\ q \in Seq(Byte) /\ k + Len(q) <= WordsOf(Traffic[f0]) /\ f0 \in Frames
    BY <1>2, <1>5, <1>8, <1>11, <1>13, <2>1, <2>2, <2>3
  <2>5. \A j \in 1..Len(q) : q[j] = WordByte(f0, k + j)
    BY <1>5, <2>2, <2>3
  <2>6. W[to.f] + to.k = (W[f0] + k) + Len(q) /\ base \in Nat
    BY <1>5, <1>9, <1>13, <2>2, <2>3
  <2> HIDE DEF base, f0, k0
  <2>7. FifoRun(W, s \o q, base, to)
    BY <2>4, <2>5, <2>6, RunExtend
  <2> QED BY <2>1, <2>2, <2>7
<1>14. CASE /\ k0 + n < size /\ rxfifo' = rxfifo \o data /\ bcfifo' = bcfifo
            /\ line' = [line EXCEPT !.k = k0 + n]
  <2>1. tip2.f = f0 /\ tip2.k = k0 + n
    BY <1>2, <1>11, <1>12, <1>14
  <2>2. W[tip2.f] + tip2.k = (W[f0] + k0) + n
    BY <1>2, <1>9, <2>1, SMTT(20)
  <2>3. FifoRun(W, rxfifo \o data, base, tip2)
    <3>1. k0 + n <= WordsOf(Traffic[f0])
      BY <1>2, SMTT(20)
    <3> QED BY <1>13, <2>2, <3>1
  <2>4. IsPlace(tip2)
    BY <1>2, <1>14, <2>1 DEF IsPlace
  <2>5. Position(g, rx_bytes_in_frame, tip2)
    <3>1. tip2.f = f0 /\ k0 <= tip2.k /\ g \in Nat
      BY <1>2, <1>7, <2>1
    <3> HIDE DEF g
    <3> QED BY <1>8, <1>11, <2>4, <3>1, PositionMoves
  <2>6. FifoInv(W, g, tip2)'
    <3>1. /\ FifoRun(W, rxfifo', W[g] + rx_bytes_in_frame', tip2)
          /\ Position(g, rx_bytes_in_frame', tip2)
      BY <1>10, <1>14, <2>3, <2>5
    <3>2. /\ rx_frame_size' # 0 => g < tip2.f /\ rx_frame_size' = Traffic[g]
          /\ SizesOf(bcfifo', IF rx_frame_size' = 0 THEN g ELSE g + 1, tip2.f)
          /\ iframe'.pc = "store" /\ rx_frame_size' = 0 => bcfifo' = <<>>
      BY <1>8, <1>10, <1>14, <2>1
    <3> HIDE DEF g
    <3> QED BY <2>4, <3>1, <3>2 DEF FifoInv
  <2>7. TipInv(g, m, t, tip2)'
    BY <1>1, <1>2, <1>4, <1>10, <1>12, <2>1 DEF TipInv
  <2> HIDE DEF g
  <2> QED BY <1>1, <1>10, <2>6, <2>7, CardFrame DEF g
<1>15. CASE /\ k0 + n = size /\ rxfifo' = (rxfifo \o data) \o pads
            /\ bcfifo' = Append(bcfifo, size) /\ line' = [f |-> f0 + 1, k |-> 0]
  <2>1. tip2.f = f0 + 1 /\ tip2.k = 0
    BY <1>12, <1>15
  <2>2. W[f0 + 1] = W[f0] + WordsOf(size)
    BY <1>2 DEF Lines
  <2> DEFINE mid == [f |-> f0, k |-> size]
             wd == WordsOf(size)
  <2>3. mid.f = f0 /\ mid.k = size
    OBVIOUS
  <2> HIDE DEF mid
  <2>4. W[mid.f] + mid.k = (W[f0] + k0) + n /\ W[tip2.f] + tip2.k = (W[f0] + size) + (wd - size)
    <3> DEFINE c == W[f0]
    <3>1. c \in Nat /\ W[mid.f] = c /\ mid.k = size /\ W[tip2.f] = c + wd /\ tip2.k = 0
      BY <1>2, <1>9, <2>1, <2>2, <2>3
    <3>2. k0 \in Nat /\ n \in Nat /\ size \in Nat /\ wd \in Nat /\ k0 + n = size
      BY <1>2, <1>15
    <3> HIDE DEF wd, size, k0, f0, c
    <3>3. c + size = (c + k0) + n /\ (c + wd) + 0 = (c + size) + (wd - size)
      BY <3>1, <3>2
    <3> QED BY <3>1, <3>3 DEF c
  <2>5. FifoRun(W, rxfifo \o data, base, mid) /\ rxfifo \o data \in Seq(Byte)
    <3>1. k0 + n <= WordsOf(Traffic[f0])
      BY <1>2
    <3>2. rxfifo \o data \in Seq(Byte)
      BY <1>5, <1>11, ConcatProperties
    <3> QED BY <1>13, <2>4, <3>1, <3>2
  <2>6. FifoRun(W, (rxfifo \o data) \o pads, base, tip2)
    <3>1. size + Len(pads) <= WordsOf(Traffic[f0])
      <4>1. \A s, w \in Nat : s + (w - s) <= w
        OBVIOUS
      <4> QED BY <1>2, <1>6, <4>1
    <3>2. PICK s : s = rxfifo \o data
      OBVIOUS
    <3>3. PICK q : q = pads
      OBVIOUS
    <3>4. PICK k : k = size
      OBVIOUS
    <3>5. /\ s \in Seq(Byte) /\ FifoRun(W, s, base, mid) /\ mid.f = f0 /\ mid.k = k /\ k \in Nat
          /\ q \in Seq(Byte) /\ k + Len(q) <= WordsOf(Traffic[f0]) /\ f0 \in Frames
      BY <1>2, <1>6, <2>3, <2>5, <3>1, <3>2, <3>3, <3>4
    <3>6. \A j \in 1..Len(q) : q[j] = WordByte(f0, k + j)
      BY <1>6, <3>3, <3>4
    <3>7. W[tip2.f] + tip2.k = (W[f0] + k) + Len(q) /\ base \in Nat
      BY <1>6, <1>9, <2>4, <3>3, <3>4
    <3> HIDE DEF base, data, pads, f0, size
    <3>8. FifoRun(W, s \o q, base, tip2)
      BY <3>5, <3>6, <3>7, RunExtend
    <3> QED BY <3>2, <3>3, <3>8
  <2>7. IsPlace(tip2)
    <3>1. f0 + 1 <= Len(Traffic) + 1 /\ ~(0 > 0)
      BY <1>2
    <3> HIDE DEF f0
    <3> QED BY <2>1, <3>1 DEF IsPlace
  <2>8. Position(g, rx_bytes_in_frame, tip2)
    <3>1. tip2.f = f0 + 1 /\ k0 < Traffic[f0] /\ g \in Nat
      BY <1>2, <1>7, <1>15, <2>1, SMTT(20)
    <3> HIDE DEF g
    <3> QED BY <1>8, <1>11, <2>7, <3>1, PositionMoves
  <2>9. SizesOf(bcfifo', IF rx_frame_size = 0 THEN g ELSE g + 1, tip2.f)
    <3> DEFINE first == IF rx_frame_size = 0 THEN g ELSE g + 1
    <3>1. first \in Nat
      BY <1>7
    <3> HIDE DEF first, g
    <3>2. SizesOf(Append(bcfifo, size), first, f0 + 1)
      BY <1>2, <1>8, <1>11, <3>1, SizesGrow DEF first
    <3> QED BY <1>15, <2>1, <3>2 DEF first
  <2>10. ~(iframe.pc = "store" /\ rx_frame_size = 0)
    <3>1. bcfifo' # bcfifo
      <4>1. Len(Append(bcfifo, size)) = Len(bcfifo) + 1 /\ Len(bcfifo) \in Nat
        BY <1>2, <1>11, AppendProperties, LenProperties
      <4>2. Len(bcfifo) + 1 # Len(bcfifo)
        BY <4>1
      <4> QED BY <1>15, <4>1, <4>2
    <3> QED BY <3>1 DEF SizeSeen
  <2>11. FifoInv(W, g, tip2)'
    <3>1. /\ FifoRun(W, rxfifo', W[g] + rx_bytes_in_frame', tip2)
          /\ Position(g, rx_bytes_in_frame', tip2)
      BY <1>10, <1>15, <2>6, <2>8
    <3>2. g < f0 => g < f0 + 1
      BY <1>2, <1>7
    <3>3. /\ rx_frame_size' # 0 => g < tip2.f /\ rx_frame_size' = Traffic[g]
          /\ SizesOf(bcfifo', IF rx_frame_size' = 0 THEN g ELSE g + 1, tip2.f)
          /\ iframe'.pc = "store" /\ rx_frame_size' = 0 => bcfifo' = <<>>
      BY <1>8, <1>10, <2>1, <2>9, <2>10, <3>2
    <3> HIDE DEF g
    <3> QED BY <2>7, <3>1, <3>3 DEF FifoInv
  <2>12. TipInv(g, m, t, tip2)'
    <3>1. f0 + 1 <= Len(Traffic) + 1 /\ f0 + 1 <= f0 + 1
      BY <1>2
    <3> QED BY <1>1, <1>2, <1>4, <1>10, <1>12, <1>15, <2>1, <3>1 DEF TipInv
  <2> HIDE DEF g
  <2> QED BY <1>1, <1>10, <2>11, <2>12, CardFrame DEF g
<1> HIDE DEF base, g, size, f0, k0
<1> QED BY <1>3, <1>14, <1>15

\* A frame that passes while the receiver is disabled leaves the FIFO alone.
LEMMA LostFrame ==
  ASSUME NEW W, NEW b, FrameInv(W, b), IndInv, SettingsStay, LineLost
  PROVE  FrameInv(W, b)'
<1> USE DEF ring, dpcs, user, ioctl
<1>1. PICK m \in 0..RxNum, t \in [0..RxNum -> Part], tip \in [f : Nat \ {0}, k : Nat] :
        /\ t[0] = b
        /\ RingInv(m, t)
        /\ FifoInv(W, t[m].f, tip)
        /\ TipInv(t[m].f, m, t, tip)
        /\ ReadersInv(m, b)
  BY DEF FrameInv
<1>2. /\ recd /\ line.f <= Len(Traffic) /\ Len(Traffic) \in Nat /\ line.f \in Nat
      /\ line'.f = line.f + 1 /\ line'.k = 0 /\ tip.f \in Nat
      /\ UNCHANGED <<rx_descriptors, user_rx_desc, fifo_rx_desc, rx_bytes_in_frame, rx_frame_size>>
      /\ UNCHANGED <<reader, purged, purge, recd, rxfifo, bcfifo, iframe>>
  BY TrafficAssumption, LenProperties, DeviceTypes DEF LineLost
<1>3. FifoInv(W, t[m].f, tip)'
  BY <1>1, <1>2 DEF FifoInv
<1>4. TipInv(t[m].f, m, t, tip)'
  BY <1>1, <1>2 DEF TipInv
<1> QED BY <1>1, <1>2, <1>3, <1>4, CardFrame

\* The size of the current frame is taken from the byte count FIFO.
LEMMA SampleFrame ==
  ASSUME NEW W, Lines(W), NEW b, FrameInv(W, b), IndInv, SettingsStay, FifoSample
  PROVE  FrameInv(W, b)'
<1> USE DEF ring, dpcs, user, ioctl
<1>1. PICK m \in 0..RxNum, t \in [0..RxNum -> Part], tip \in [f : Nat \ {0}, k : Nat] :
        /\ t[0] = b
        /\ RingInv(m, t)
        /\ FifoInv(W, t[m].f, tip)
        /\ TipInv(t[m].f, m, t, tip)
        /\ ReadersInv(m, b)
  BY DEF FrameInv
<1> DEFINE g == t[m].f
<1>2. /\ UNCHANGED <<rx_descriptors, user_rx_desc, fifo_rx_desc, rx_bytes_in_frame>>
      /\ UNCHANGED <<reader, purged, purge, recd, rxfifo, line>>
  BY DEF FifoSample
<1>3. bcfifo \in Seq(Nat) /\ rx_bytes_in_frame \in Nat /\ g \in Nat \ {0} /\ tip.f \in Nat
  BY DeviceTypes DEF Part
<1>4. TipInv(g, m, t, tip)'
  BY <1>1, <1>2 DEF TipInv
<1>5. CASE rx_frame_size = 0 /\ bcfifo # <<>>
  <2>1. rx_frame_size' = Head(bcfifo) /\ bcfifo' = Tail(bcfifo)
    <3>1. Len(bcfifo) \in Nat /\ Len(bcfifo) # 0
      BY <1>3, <1>5, EmptySeq, LenProperties
    <3>2. Len(bcfifo) > 0
      BY <3>1
    <3> QED BY <1>5, <3>2 DEF FifoSample, fscc_io_get_RFCNT
  <2>2. SizesOf(bcfifo, g, tip.f)
    BY <1>1, <1>5 DEF FifoInv
  <2>3. SizesOf(bcfifo', g + 1, tip.f) /\ rx_frame_size' = Traffic[g] /\ g < tip.f
    <3> HIDE DEF g
    <3> QED BY <1>3, <1>5, <2>1, <2>2, SizesShrink
  <2>4. rx_frame_size' # 0
    <3>1. g \in Frames
      <4>1. IsPlace(tip) /\ Position(g, rx_bytes_in_frame, tip)
        BY <1>1 DEF FifoInv
      <4> HIDE DEF g
      <4> QED BY <1>3, <2>3, <4>1, PlaceType
    <3>2. Traffic[g] \in Nat /\ Traffic[g] >= 2
      BY <3>1, FrameWords
    <3> QED BY <2>3, <3>2
  <2>5. FifoInv(W, g, tip)'
    <3> HIDE DEF g
    <3> QED BY <1>1, <1>2, <2>3, <2>4 DEF FifoInv, g
  <2> QED BY <1>1, <1>2, <1>4, <2>5, CardFrame
<1>6. CASE ~(rx_frame_size = 0 /\ bcfifo # <<>>)
  <2>1. rx_frame_size' = rx_frame_size /\ bcfifo' = bcfifo
    <3>1. bcfifo = <<>> => ~(fscc_io_get_RFCNT > 0)
      BY DEF fscc_io_get_RFCNT
    <3> QED BY <1>6, <3>1 DEF FifoSample
  <2>2. FifoInv(W, g, tip)'
    BY <1>1, <1>2, <1>6, <2>1 DEF FifoInv
  <2> QED BY <1>1, <1>2, <1>4, <2>2, CardFrame
<1> QED BY <1>5, <1>6

\* The receiver is disabled: the card keeps what it has of the frame on its way in.
LEMMA BeginFrame ==
  ASSUME ~Streaming, NEW W, NEW b, FrameInv(W, b), IndInv, SettingsStay, PurgeBegin
  PROVE  FrameInv(W, b)'
<1> USE DEF ring, dpcs, user, ioctl
<1>1. PICK m \in 0..RxNum, t \in [0..RxNum -> Part], tip \in [f : Nat \ {0}, k : Nat] :
        /\ t[0] = b
        /\ RingInv(m, t)
        /\ FifoInv(W, t[m].f, tip)
        /\ TipInv(t[m].f, m, t, tip)
        /\ ReadersInv(m, b)
  BY DEF FrameInv
<1>2. /\ UNCHANGED <<rx_descriptors, user_rx_desc, fifo_rx_desc, rx_bytes_in_frame, rx_frame_size>>
      /\ UNCHANGED <<reader, purged, rxfifo, bcfifo, iframe>>
      /\ purge.pc = "idle" /\ recd' = TRUE
      /\ line' = IF line.k > 0 THEN [f |-> line.f + 1, k |-> 0] ELSE line
  BY DEF PurgeBegin
<1>3. purge'.pc = "reset"
  BY DEF PurgeBegin, IndInv, TypeOK, TypeIoctl
<1>4. line.f \in Nat /\ line.k \in Nat /\ Len(Traffic) \in Nat /\ tip = line
  BY <1>1, <1>2, TrafficAssumption, LenProperties, DeviceTypes DEF TipInv
<1>5. FifoInv(W, t[m].f, tip)'
  BY <1>1, <1>2 DEF FifoInv
<1>6. line'.f <= Len(Traffic) + 1 /\ tip.f <= line'.f /\ line'.k = 0
  <2>1. line.f <= Len(Traffic) + 1 /\ (line.k > 0 => line.f <= Len(Traffic))
    BY <1>1, <1>4 DEF FifoInv, IsPlace
  <2>2. CASE line.k > 0
    BY <1>2, <1>4, <2>1, <2>2
  <2>3. CASE ~(line.k > 0)
    BY <1>2, <1>4, <2>1, <2>3
  <2> QED BY <2>2, <2>3
<1>7. TipInv(t[m].f, m, t, tip)'
  BY <1>2, <1>3, <1>6 DEF TipInv
<1> QED BY <1>1, <1>2, <1>5, <1>7, CardFrame

-----------------------------------------------------------------------------
(* FifoStore: from the FIFO into the ring.                                 *)

\* The descriptor that is filled is open and has room.
LEMMA StoreOpen ==
  ASSUME IndInv, iframe.pc = "store", NEW m \in 0..RxNum, NEW t \in [0..RxNum -> Part], RingInv(m, t)
  PROVE  LET old == rx_descriptors[fifo_rx_desc]
         IN /\ m < RxNum /\ OpenDesc(old) /\ old \in Desc
            /\ old.cnt \in Nat /\ old.cnt < RxSize /\ old.cnt % 4 = 0
            /\ rx_bytes_in_frame = t[m].from + old.cnt
            /\ BytesOf(old.buffer, t[m], old.cnt)
<1> DEFINE old == rx_descriptors[fifo_rx_desc]
           u   == user_rx_desc
<1>1. old \in Desc /\ old.cnt \in Nat /\ u \in Ring /\ "CSTOP" \notin old.flags
  BY DeviceTypes, DescFields DEF IndInv, DescInv, Ring
<1>2. RingHolds(rx_descriptors, u, fifo_rx_desc, m, t) /\ fifo_rx_desc = RingPos(u, m)
  BY DEF RingInv, RingHolds
<1>3. m < RxNum
  <2> SUFFICES ASSUME m = RxNum PROVE FALSE
    BY RingFacts
  <2>1. fifo_rx_desc = RingPos(u, 0) /\ 0 \in Ring /\ 0 < m
    BY <1>1, <1>2, PosZero, RingFacts
  <2>2. HoldsPart(old, t[0])
    BY <1>2, <2>1 DEF RingHolds
  <2> QED BY <1>1, <2>2 DEF HoldsPart
<1>4. m \in Ring /\ ~(m < m)
  BY <1>3, RingFacts
<1>5. OpenDesc(old)
  BY <1>2, <1>4 DEF RingHolds
<1>6. Filling(rx_descriptors, fifo_rx_desc, m, t[m], rx_bytes_in_frame)
  BY DEF RingInv
<1> QED BY <1>1, <1>3, <1>5, <1>6 DEF Filling

\* Without a size the whole FIFO is data of the current frame, which has not ended.
LEMMA WholeFifo ==
  ASSUME NEW W, Lines(W), IndInv, NEW g \in Nat \ {0}, NEW tip \in [f : Nat \ {0}, k : Nat],
         FifoInv(W, g, tip), iframe.pc = "store", rx_frame_size = 0
  PROVE  /\ g = tip.f /\ Len(rxfifo) = tip.k - rx_bytes_in_frame /\ Len(rxfifo) \in Nat
         /\ fscc_io_get_RXCNT = Len(rxfifo)
         /\ Len(rxfifo) # 0 => g \in Frames /\ tip.k < Traffic[g]
<1> DEFINE L == Len(rxfifo)
           got == rx_bytes_in_frame
<1>1. /\ L \in Nat /\ got \in Nat /\ tip.f \in Nat /\ tip.k \in Nat
  BY DeviceTypes, LenProperties
<1>2. /\ IsPlace(tip) /\ Position(g, got, tip) /\ FifoRun(W, rxfifo, W[g] + got, tip)
      /\ SizesOf(bcfifo, g, tip.f) /\ bcfifo = <<>>
  BY DEF FifoInv
<1>3. g = tip.f
  <2>1. 0 = tip.f - g
    BY <1>2 DEF SizesOf
  <2> QED BY <1>1, <2>1
<1>4. W[g] \in Nat
  BY <1>1, <1>2, PlaceType
<1>5. L = tip.k - got
  <2>1. L = (W[g] + tip.k) - (W[g] + got)
    BY <1>2, <1>3 DEF FifoRun
  <2> DEFINE c == W[g]
  <2> HIDE DEF L, got, c
  <2>2. c \in Nat /\ L = (c + tip.k) - (c + got)
    BY <1>4, <2>1 DEF c
  <2> QED BY <1>1, <2>2
<1>6. ASSUME L # 0 PROVE g \in Frames /\ tip.k < Traffic[g]
  <2>1. tip.k > 0
    BY <1>1, <1>5, <1>6
  <2> QED BY <1>2, <1>3, <2>1, TrafficAssumption, LenProperties DEF IsPlace, Frames
<1>7. ASSUME NEW j \in 1..L PROVE rxfifo[j] # Pad
  <2>1. L # 0
    BY <1>1
  <2>2. got + L <= Traffic[g]
    <3>1. Traffic[g] \in Nat
      BY <1>6, <2>1, FrameWords
    <3> HIDE DEF L
    <3> QED BY <1>1, <1>5, <1>6, <2>1, <3>1
  <2>3. rxfifo[j] = <<g, got + j>>
    <3>1. L <= Len(rxfifo) /\ FifoRun(W, rxfifo, W[g] + got, tip) /\ g \in Frames
      BY <1>1, <1>2, <1>6, <2>1
    <3>2. Len(rxfifo) \in Nat /\ L \in Nat /\ got \in Nat
      BY <1>1
    <3>3. j \in 1..Len(rxfifo) /\ got + j <= Traffic[g]
      <4>1. Traffic[g] \in Nat /\ j <= L
        BY <3>1, <3>2, FrameWords
      <4> HIDE DEF L, got
      <4>2. got + j <= Traffic[g]
        BY <2>2, <3>2, <4>1
      <4> QED BY <4>2 DEF L
    <3> HIDE DEF got, L
    <3> QED BY <3>1, <3>2, <3>3, RunFront
  <2> QED BY <2>3 DEF Pad
<1>8. fscc_io_get_RXCNT = L
  <2>1. {j \in 1..L : rxfifo[j] # Pad} = 1..L
    BY <1>7
  <2>2. Cardinality(1..L) = L
    <3> HIDE DEF L
    <3>1. 1 \in Int /\ L \in Int
      BY <1>1
    <3>2. Cardinality(1..L) = IF 1 > L THEN 0 ELSE L - 1 + 1
      BY ONLY <3>1, FS_Interval, Zenon
    <3> QED BY <1>1, <3>2
  <2> QED BY <2>1, <2>2 DEF fscc_io_get_RXCNT
<1> QED BY <1>1, <1>3, <1>5, <1>6, <1>8

\* How many bytes one round moves: no more than the frame, the descriptor and the FIFO
\* have, and whole words unless it ends the frame.
LEMMA StoreLength ==
  ASSUME ~Streaming, RxSize % 4 = 0, NEW W, Lines(W), IndInv, iframe.pc = "store",
         NEW p \in Part, NEW tip \in [f : Nat \ {0}, k : Nat], FifoInv(W, p.f, tip),
         rx_descriptors[fifo_rx_desc].cnt \in Nat, rx_descriptors[fifo_rx_desc].cnt < RxSize,
         rx_descriptors[fifo_rx_desc].cnt % 4 = 0,
         rx_bytes_in_frame = p.from + rx_descriptors[fifo_rx_desc].cnt
  PROVE  LET n    == receive_length
             room == RxSize - rx_descriptors[fifo_rx_desc].cnt
             got  == rx_bytes_in_frame
         IN /\ n \in Nat /\ n <= room /\ n <= Len(rxfifo) /\ WordsOf(n) <= Len(rxfifo)
            /\ n # 0 => p.f \in Frames /\ got + n <= Traffic[p.f]
            /\ FrameDone(n) => p.f < tip.f /\ rx_frame_size = Traffic[p.f]
                               /\ got + n = Traffic[p.f] /\ n # 0
            /\ ~FrameDone(n) => /\ n % 4 = 0 /\ WordsOf(n) = n
                                /\ p.f < tip.f => got + n < Traffic[p.f]
                                /\ p.f = tip.f => got + n <= tip.k
                                /\ n # 0 => got + n < Traffic[p.f]
<1> DEFINE n    == receive_length
           cnt  == rx_descriptors[fifo_rx_desc].cnt
           room == RxSize - cnt
           got  == rx_bytes_in_frame
           L    == Len(rxfifo)
           g    == p.f
           size == Traffic[g]
<1>1. /\ got \in Nat /\ L \in Nat /\ g \in Nat \ {0} /\ cnt \in Nat /\ room \in Nat /\ room # 0
      /\ tip.f \in Nat /\ tip.k \in Nat /\ rx_frame_size \in Nat
  <2>1. got \in Nat /\ L \in Nat /\ rx_frame_size \in Nat
    BY DeviceTypes, LenProperties
  <2>2. g \in Nat \ {0} /\ tip.f \in Nat /\ tip.k \in Nat
    BY DEF Part
  <2>3. room \in Nat /\ room # 0
    <3> HIDE DEF cnt
    <3>1. cnt \in Nat /\ cnt < RxSize /\ RxSize \in Nat
      BY RingAssumption DEF cnt
    <3> QED BY <3>1
  <2> QED BY <2>1, <2>2, <2>3
<1>2. room % 4 = 0 /\ got % 4 = 0
  <2>1. got % 4 = 0
    BY DEF FifoInv, Position
  <2>2. RxSize \in Nat
    BY RingAssumption
  <2>3. room % 4 = 0
    BY <1>1, <2>2, WordsFacts
  <2> HIDE DEF room, got
  <2> QED BY <2>1, <2>3
<1>3. CASE rx_frame_size = 0
  <2>1. /\ g = tip.f /\ L = tip.k - got /\ fscc_io_get_RXCNT = L
        /\ L # 0 => g \in Frames /\ tip.k < size
    <3> HIDE DEF g
    <3> QED BY <1>1, <1>3, WholeFifo DEF g
  <2>2. n = MinOf(L - (L % 4), room)
    BY <1>3, <2>1 DEF receive_length
  <2>3. L - (L % 4) \in Nat /\ (L - (L % 4)) % 4 = 0 /\ L - (L % 4) <= L
    <3> HIDE DEF L
    <3> QED BY <1>1
  <2>4. n \in Nat /\ n <= room /\ n <= L /\ n % 4 = 0
    <3> HIDE DEF n, L, room
    <3>1. CASE n = L - (L % 4)
      <4>1. n <= room
        BY <2>2, <3>1 DEF MinOf
      <4> QED BY <2>3, <3>1, <4>1
    <3>2. CASE n # L - (L % 4)
      <4>1. n = room /\ ~(L - (L % 4) <= room)
        BY <2>2, <3>2 DEF MinOf
      <4>2. L - (L % 4) \in Nat /\ L - (L % 4) <= L /\ ~(L - (L % 4) <= room)
        BY <2>3, <4>1
      <4> DEFINE q == L - (L % 4)
      <4> HIDE DEF q
      <4>3. room <= L
        BY <1>1, <4>2 DEF q
      <4> QED BY <1>1, <1>2, <4>1, <4>3
    <3> QED BY <3>1, <3>2
  <2>5. WordsOf(n) = n
    <3> HIDE DEF n
    <3> QED BY <2>4, WordsFacts
  <2>6. ~FrameDone(n)
    BY <1>1, <1>3 DEF FrameDone
  <2>7. /\ got + n <= tip.k /\ ~(g < tip.f)
        /\ n # 0 => g \in Frames /\ got + n < size /\ got + n <= size
    <3>1. got + n <= tip.k
      <4>1. got <= tip.k
        BY <2>1 DEF FifoInv, Position
      <4> HIDE DEF n, L, got
      <4>2. n <= tip.k - got
        BY <2>1, <2>4
      <4> QED BY <1>1, <2>4, <4>1, <4>2
    <3>2. n # 0 => g \in Frames /\ tip.k < size /\ size \in Nat
      <4> HIDE DEF n, L
      <4>1. n # 0 => L # 0
        BY <1>1, <2>4
      <4> QED BY <2>1, <4>1, FrameWords
    <3> HIDE DEF n, got, size, g
    <3> QED BY <1>1, <2>1, <2>4, <3>1, <3>2
  <2> HIDE DEF n, got, size, g, room
  <2>8. WordsOf(n) <= L
    BY <2>4, <2>5
  <2> QED BY <2>1, <2>4, <2>5, <2>6, <2>7, <2>8 DEF n, got, size, g, room
<1>4. CASE rx_frame_size # 0
  <2>1. g < tip.f /\ rx_frame_size = size /\ got < size /\ IsPlace(tip) /\ Position(g, got, tip)
    BY <1>4 DEF FifoInv, Position
  <2>2. g \in Frames /\ W[g] \in Nat /\ W[tip.f] \in Nat
    <3> HIDE DEF g, got
    <3> QED BY <1>1, <2>1, PlaceType
  <2>3. size \in Nat /\ size > 0
    BY <2>2, FrameWords
  <2>4. n = MinOf(size - got, room)
    <3>1. size > got
      BY <1>1, <2>1, <2>3
    <3> HIDE DEF size
    <3> QED BY <1>4, <2>1, <3>1 DEF receive_length
  <2>5. n \in Nat /\ n <= room /\ n <= size - got /\ n # 0
    <3> HIDE DEF n, size, got, room
    <3> QED BY <1>1, <2>1, <2>3, <2>4 DEF MinOf
  <2>6. WordsOf(size) - got <= L /\ WordsOf(size - got) = WordsOf(size) - got /\ size - got \in Nat
    <3>1. L = (W[tip.f] + tip.k) - (W[g] + got)
      BY DEF FifoInv, FifoRun
    <3>2. W[g] + WordsOf(size) <= W[tip.f]
      <4>1. tip.f \in 1..(Len(Traffic) + 1)
        BY <1>1, <2>1 DEF IsPlace
      <4> QED BY <2>1, <2>2, <4>1, LinesRise
    <3>3. size - got \in Nat /\ got <= size /\ WordsOf(size) \in Nat
      <4>1. WordsOf(size) \in Nat
        BY <2>3, WordsFacts
      <4> HIDE DEF size, got
      <4> QED BY <1>1, <2>1, <2>3, <4>1
    <3>4. WordsOf(size - got) = WordsOf(size) - got
      <4> HIDE DEF size, got
      <4> QED BY <1>1, <1>2, <2>3, <3>3, WordsFacts
    <3>5. WordsOf(size) - got <= L
      <4> DEFINE c == W[g]
                 e == W[tip.f]
                 w == WordsOf(size)
      <4>1. c \in Nat /\ e \in Nat /\ w \in Nat /\ c + w <= e /\ L = (e + tip.k) - (c + got)
        BY <2>2, <3>1, <3>2, <3>3
      <4> HIDE DEF c, e, w, L, got
      <4> QED BY <1>1, <4>1 DEF w
    <3> QED BY <3>3, <3>4, <3>5
  <2>7. CASE n = size - got
    <3>1. got + n = size /\ FrameDone(n) /\ n <= L /\ WordsOf(n) <= L
      <4> HIDE DEF n, size, got, L
      <4>1. got + n = size
        BY <1>1, <2>3, <2>7
      <4>2. FrameDone(n)
        BY <1>1, <2>1, <2>3, <4>1 DEF FrameDone, got
      <4>3. WordsOf(n) <= L /\ n <= WordsOf(n) /\ WordsOf(n) \in Nat
        BY <2>5, <2>6, <2>7, WordsFacts
      <4>4. n <= L
        BY <1>1, <2>5, <4>3
      <4> QED BY <4>1, <4>2, <4>3, <4>4
    <3> HIDE DEF n, size, got, L, room, g
    <3> QED BY <2>1, <2>2, <2>3, <2>5, <3>1 DEF n, size, got, L, room, g
  <2>8. CASE n # size - got
    <3>1. n = room /\ n < size - got
      <4> HIDE DEF n, size, got, room
      <4> QED BY <1>1, <2>1, <2>3, <2>4, <2>8 DEF MinOf
    <3>2. got + n < size /\ n % 4 = 0
      <4> HIDE DEF n, size, got, room
      <4>1. got + n < size
        BY <1>1, <2>3, <2>5, <3>1
      <4> QED BY <1>2, <3>1, <4>1
    <3>3. WordsOf(n) = n
      <4> HIDE DEF n
      <4> QED BY <2>5, <3>2, WordsFacts
    <3>4. n <= L
      <4>1. size - got <= WordsOf(size - got) /\ WordsOf(size - got) \in Nat
        <5> HIDE DEF size, got
        <5> QED BY <2>6, WordsFacts
      <4> DEFINE x == size - got
                 y == WordsOf(x)
      <4>2. y \in Nat /\ x <= y /\ y <= L /\ x \in Nat /\ n < x
        BY <2>6, <3>1, <4>1
      <4> HIDE DEF x, y, L, n
      <4> QED BY <1>1, <2>5, <4>2
    <3>5. ~FrameDone(n)
      <4> HIDE DEF n, size
      <4>1. ~(got + n >= size)
        BY <1>1, <2>3, <2>5, <3>2
      <4> QED BY <2>1, <4>1 DEF FrameDone
    <3>6. g # tip.f /\ got + n <= size
      <4> HIDE DEF n, size, got, g
      <4> QED BY <1>1, <2>1, <2>3, <2>5, <3>2
    <3> HIDE DEF n, size, got, L, room, g
    <3> QED BY <2>1, <2>2, <2>3, <2>5, <3>2, <3>3, <3>4, <3>5, <3>6 DEF n, size, got, L, room, g
  <2> QED BY <2>7, <2>8
<1> QED BY <1>3, <1>4

\* The buffer goes on with the bytes from the FIFO.
LEMMA StoredBytes ==
  ASSUME NEW W, Lines(W), IndInv, NEW p \in Part, NEW tip, NEW old \in Desc,
         FifoRun(W, rxfifo, W[p.f] + rx_bytes_in_frame, tip),
         rx_bytes_in_frame = p.from + old.cnt, BytesOf(old.buffer, p, old.cnt),
         NEW n \in Nat, n <= Len(rxfifo), n <= RxSize - old.cnt, old.cnt < RxSize,
         n # 0 => p.f \in Frames /\ rx_bytes_in_frame + n <= Traffic[p.f]
  PROVE  BytesOf(StoreInDesc(old, n).buffer, p, old.cnt + n)
<1> DEFINE c == old.cnt
           b == StoreInDesc(old, n).buffer
           got == rx_bytes_in_frame
<1>1. /\ c \in Nat /\ got \in Nat /\ p.from \in Nat /\ Len(rxfifo) \in Nat /\ RxSize \in Nat
      /\ got = p.from + c
  BY DeviceTypes, LenProperties, DescFields, RingAssumption DEF Part
<1> SUFFICES ASSUME NEW j \in 1..(c + n) PROVE b[j] = <<p.f, p.from + j>>
  BY DEF BytesOf
<1>2. j \in 1..RxSize
  <2> HIDE DEF c
  <2>1. n <= RxSize - c /\ c < RxSize
    BY DEF c
  <2> QED BY <1>1, <2>1
<1>3. b[j] = IF j > c /\ j <= c + n THEN FifoBytes(n)[j - c] ELSE old.buffer[j]
  BY <1>2 DEF StoreInDesc
<1>4. CASE j <= c
  <2> HIDE DEF b, c
  <2>1. ~(j > c) /\ j \in 1..c
    BY <1>1, <1>4
  <2> QED BY <1>3, <2>1 DEF BytesOf, c
<1>5. CASE ~(j <= c)
  <2> DEFINE i == j - c
  <2> HIDE DEF b, c
  <2>1. i \in 1..n /\ i \in 1..Len(rxfifo) /\ n # 0 /\ j > c /\ j <= c + n /\ i <= Len(rxfifo)
    BY <1>1, <1>5
  <2>2. got + i = p.from + j
    <3> HIDE DEF got
    <3> QED BY <1>1
  <2>3. p.f \in Frames /\ got + i <= Traffic[p.f]
    <3>1. p.f \in Frames /\ got + n <= Traffic[p.f]
      BY <2>1
    <3>2. Traffic[p.f] \in Nat
      BY <3>1, FrameWords
    <3> DEFINE size == Traffic[p.f]
    <3>3. i \in Nat /\ i <= n
      BY <2>1
    <3> HIDE DEF got, i, size
    <3>4. got + n <= size /\ size \in Nat
      BY <3>1, <3>2 DEF size
    <3>5. got + i <= size
      BY <1>1, <3>3, <3>4
    <3> QED BY <3>1, <3>5 DEF size
  <2>4. rxfifo[i] = <<p.f, got + i>>
    <3> DEFINE base == W[p.f] + got
    <3>1. FifoRun(W, rxfifo, base, tip) /\ base = W[p.f] + got
      OBVIOUS
    <3>2. PICK f : f = p.f
      OBVIOUS
    <3>3. PICK m : m = got
      OBVIOUS
    <3> HIDE DEF base, i, got
    <3>4. /\ f \in Frames /\ m \in Nat /\ i \in 1..Len(rxfifo) /\ Len(rxfifo) \in Nat
          /\ base = W[f] + m /\ m + i <= Traffic[f]
      BY <1>1, <2>1, <2>3, <3>1, <3>2, <3>3
    <3>5. FifoRun(W, rxfifo, base, tip)
      BY <3>1
    <3>6. rxfifo[i] = <<f, m + i>>
      BY <3>4, <3>5, RunFront
    <3> QED BY <3>2, <3>3, <3>6
  <2>5. FifoBytes(n)[i] = rxfifo[i]
    BY <2>1 DEF FifoBytes
  <2>6. b[j] = FifoBytes(n)[i]
    BY <1>3, <2>1
  <2> QED BY <2>2, <2>4, <2>5, <2>6 DEF i
<1> QED BY <1>4, <1>5

\* The descriptor that ends its frame, or is full, holds its part.
LEMMA StoredHolds ==
  ASSUME NEW p \in Part, p.f \in Frames, NEW old \in Desc, OpenDesc(old), NEW n \in Nat, n # 0,
         old.cnt \in Nat, old.cnt + n <= RxSize,
         BytesOf(StoreInDesc(old, n).buffer, p, old.cnt + n),
         \/ /\ FrameDone(n) /\ rx_frame_size = Traffic[p.f] /\ line.f > p.f
            /\ (p.from + old.cnt) + n = Traffic[p.f]
         \/ /\ ~FrameDone(n) /\ old.cnt + n = RxSize
            /\ (p.from + old.cnt) + n < Traffic[p.f]
  PROVE  /\ HoldsPart(StoreInDesc(old, n), p) /\ IsPart(p)
         /\ FrameDone(n) <=> LastPart(p)
<1> DEFINE d == StoreInDesc(old, n)
           c == old.cnt
           size == Traffic[p.f]
<1>1. p.from \in Nat /\ size \in Nat /\ RxSize \in Nat
  BY FrameWords, RingAssumption DEF Part
<1>2. CASE FrameDone(n) /\ rx_frame_size = size /\ line.f > p.f /\ (p.from + c) + n = size
  <2>1. d.flags = {"FE", "CSTOP"} /\ d.cnt = size /\ d.data_count = RxSize /\ d.timestamp = line.f
    BY <1>2 DEF StoreInDesc, OpenDesc, Now
  <2>2. size - p.from <= RxSize /\ p.from < size /\ MinOf(RxSize, size - p.from) = c + n
    <3> HIDE DEF size, c
    <3>1. c \in Nat /\ c + n <= RxSize
      BY DEF c
    <3>2. size - p.from = c + n
      BY <1>1, <1>2, <3>1
    <3>3. MinOf(RxSize, c + n) = c + n
      BY <1>1, <3>1 DEF MinOf
    <3> QED BY <1>1, <1>2, <3>1, <3>2, <3>3
  <2>3. LastPart(p) /\ IsPart(p)
    BY <2>2 DEF LastPart, IsPart
  <2> HIDE DEF d
  <2>4. BytesOf(d.buffer, p, MinOf(RxSize, size - p.from))
    BY <2>2 DEF d
  <2>5. HoldsPart(d, p)
    <3>1. "CSTOP" \in d.flags /\ "FE" \in d.flags
      BY <2>1
    <3> QED BY <1>2, <2>1, <2>3, <2>4, <3>1 DEF HoldsPart
  <2> QED BY <1>2, <2>3, <2>5 DEF d
<1>3. CASE ~FrameDone(n) /\ c + n = RxSize /\ (p.from + c) + n < size
  <2>1. d.flags = {"CSTOP"} /\ d.data_count = RxSize
    BY <1>1, <1>3 DEF StoreInDesc, OpenDesc
  <2>2. ~(size - p.from <= RxSize) /\ p.from < size /\ MinOf(RxSize, size - p.from) = c + n
    <3> HIDE DEF size, c
    <3>1. c \in Nat
      BY DEF c
    <3>2. p.from + RxSize < size
      BY <1>1, <1>3, <3>1
    <3>3. ~(size - p.from <= RxSize) /\ RxSize <= size - p.from /\ p.from < size
      BY <1>1, <3>2
    <3>4. MinOf(RxSize, size - p.from) = RxSize
      BY <3>3 DEF MinOf
    <3> QED BY <1>3, <3>3, <3>4
  <2>3. ~LastPart(p) /\ IsPart(p)
    BY <2>2 DEF LastPart, IsPart
  <2> HIDE DEF d
  <2>4. BytesOf(d.buffer, p, MinOf(RxSize, size - p.from))
    BY <2>2 DEF d
  <2>5. HoldsPart(d, p)
    BY <2>1, <2>3, <2>4 DEF HoldsPart
  <2> QED BY <1>3, <2>3, <2>5 DEF d
<1> QED BY <1>2, <1>3

\* Bytes move from the FIFO into the ring: every byte keeps its place on the line.
LEMMA StoreFrame ==
  ASSUME ~Streaming, RxSize % 4 = 0, NEW W, Lines(W), NEW b, FrameInv(W, b), IndInv, SettingsStay,
         FifoStore
  PROVE  FrameInv(W, b)'
<1> USE DEF device, ring, dpcs, user, ioctl
<1>1. PICK m \in 0..RxNum, t \in [0..RxNum -> Part], tip \in [f : Nat \ {0}, k : Nat] :
        /\ t[0] = b
        /\ RingInv(m, t)
        /\ FifoInv(W, t[m].f, tip)
        /\ TipInv(t[m].f, m, t, tip)
        /\ ReadersInv(m, b)
  BY DEF FrameInv
<1> DEFINE p    == t[m]
           g    == p.f
           old  == rx_descriptors[fifo_rx_desc]
           n    == receive_length
           d    == StoreInDesc(old, n)
           got  == rx_bytes_in_frame
           ds   == rx_descriptors
           ds2  == Put(ds, fifo_rx_desc, d)
<1>2. iframe.pc = "store" /\ p \in Part /\ p.from \in Nat /\ g \in Nat \ {0} /\ RxSize \in Nat
  BY <1>1, RingAssumption DEF FifoStore, Part
<1>3. /\ m < RxNum /\ OpenDesc(old) /\ old \in Desc /\ old.cnt \in Nat /\ old.cnt < RxSize
      /\ old.cnt % 4 = 0 /\ got = p.from + old.cnt /\ BytesOf(old.buffer, p, old.cnt)
  BY <1>1, <1>2, StoreOpen
<1>4. /\ n \in Nat /\ n <= RxSize - old.cnt /\ n <= Len(rxfifo) /\ WordsOf(n) <= Len(rxfifo)
      /\ n # 0 => g \in Frames /\ got + n <= Traffic[g]
      /\ FrameDone(n) => g < tip.f /\ rx_frame_size = Traffic[g] /\ got + n = Traffic[g] /\ n # 0
      /\ ~FrameDone(n) => /\ n % 4 = 0 /\ WordsOf(n) = n
                          /\ g < tip.f => got + n < Traffic[g]
                          /\ g = tip.f => got + n <= tip.k
                          /\ n # 0 => got + n < Traffic[g]
  <2> HIDE DEF n
  <2> QED BY <1>1, <1>2, <1>3, StoreLength DEF n
<1>5. old.cnt + n <= RxSize /\ old.cnt + n \in Nat /\ (old.cnt + n # RxSize => old.cnt + n < RxSize)
  <2>1. n \in Nat /\ n <= RxSize - old.cnt /\ old.cnt \in Nat /\ RxSize \in Nat
    BY <1>2, <1>3, <1>4
  <2> HIDE DEF n, old
  <2> QED BY <2>1
<1>6. /\ rxfifo' = FifoRemainder(n) /\ rx_descriptors' = ds2 /\ user_rx_desc' = user_rx_desc
      /\ rx_bytes_in_frame' = IF FrameDone(n) THEN 0 ELSE got + n
      /\ rx_frame_size' = IF FrameDone(n) THEN 0 ELSE rx_frame_size
      /\ "CSTOP" \in d.flags => fifo_rx_desc' = NextDesc(fifo_rx_desc)
      /\ "CSTOP" \notin d.flags => fifo_rx_desc' = fifo_rx_desc
      /\ UNCHANGED <<line, bcfifo, recd, purge, purged, reader>>
  BY DEF FifoStore, Put
<1>7. iframe'.pc # "store"
  <2>1. iframe \in [pc : {"idle", "scan", "store", "exit"}, i : 0..RxNum, pace : Nat]
    BY DEF IndInv, TypeOK, TypeDpc
  <2> QED BY <2>1 DEF FifoStore
<1>8. ASSUME NEW k
      PROVE  ReadersInv(k, b)'
  <2>1. \A r \in Readers : reader[r].pc \notin {"copy", "next", "stream", "done"}
    BY <1>2, ReadAssumption DEF IndInv, LockOwnership
  <2>2. ReadersQuiet
    BY <1>6, <2>1 DEF ReadersQuiet
  <2> QED BY <1>1, <1>6, <2>1, <2>2, ReadersStay
<1>9. /\ IsPlace(tip) /\ Position(g, got, tip) /\ FifoRun(W, rxfifo, W[g] + got, tip)
      /\ got \in Nat /\ W[g] \in Nat /\ W[g] + got \in Nat /\ W[tip.f] + tip.k \in Nat
      /\ rxfifo \in Seq(Byte) /\ tip.f \in Nat /\ tip.k \in Nat
  <2>1. IsPlace(tip) /\ Position(g, got, tip) /\ FifoRun(W, rxfifo, W[g] + got, tip)
    BY <1>1 DEF FifoInv
  <2> HIDE DEF g, p
  <2> QED BY <1>2, <2>1, PlaceType, DeviceTypes
<1>10. FifoRun(W, rxfifo', (W[g] + got) + WordsOf(n), tip)
  <2> DEFINE base == W[g] + got
             w == WordsOf(n)
  <2>1. w \in Nat /\ base \in Nat
    BY <1>4, <1>9, WordsFacts
  <2> HIDE DEF base, w
  <2>2. FifoRun(W, SubSeq(rxfifo, w + 1, Len(rxfifo)), base + w, tip)
    BY <1>4, <1>9, <2>1, RunDrop DEF base, w
  <2> QED BY <1>6, <2>2 DEF FifoRemainder, base, w
<1>11. BytesOf(d.buffer, p, old.cnt + n)
  <2> HIDE DEF n, p, old
  <2> QED BY <1>2, <1>3, <1>4, <1>9, StoredBytes DEF g
<1>12. ASSUME NEW m2 \in 0..RxNum, NEW t2 \in [0..RxNum -> Part], t2[0] = b, RingInv(m2, t2)',
              m2 = m \/ purge.pc \notin {"queues", "drain"},
              Position(t2[m2].f, rx_bytes_in_frame', tip),
              W[t2[m2].f] + rx_bytes_in_frame' = (W[g] + got) + WordsOf(n),
              IF FrameDone(n) THEN t2[m2].f = g + 1 ELSE t2[m2].f = g
       PROVE  FrameInv(W, b)'
  <2> DEFINE g2 == t2[m2].f
  <2>1. SizesOf(bcfifo', IF rx_frame_size' = 0 THEN g2 ELSE g2 + 1, tip.f)
    <3>1. SizesOf(bcfifo, IF rx_frame_size = 0 THEN g ELSE g + 1, tip.f)
      BY <1>1 DEF FifoInv
    <3>2. FrameDone(n) => rx_frame_size # 0 /\ rx_frame_size' = 0 /\ g2 = g + 1
      <4>1. FrameDone(n) => rx_frame_size # 0
        BY DeviceTypes DEF FrameDone
      <4> HIDE DEF n
      <4> QED BY <1>6, <1>12, <4>1
    <3>3. ~FrameDone(n) => rx_frame_size' = rx_frame_size /\ g2 = g
      BY <1>6, <1>12
    <3> HIDE DEF g2, g, n
    <3> QED BY <1>6, <3>1, <3>2, <3>3
  <2>2. rx_frame_size' # 0 => g2 < tip.f /\ rx_frame_size' = Traffic[g2]
    BY <1>1, <1>6, <1>12 DEF FifoInv
  <2>3. FifoRun(W, rxfifo', W[g2] + rx_bytes_in_frame', tip)
    BY <1>10, <1>12
  <2>4. FifoInv(W, g2, tip)'
    <3> HIDE DEF g2
    <3>1. Position(g2, rx_bytes_in_frame', tip)
      BY <1>12 DEF g2
    <3> QED BY <1>7, <1>9, <2>1, <2>2, <2>3, <3>1 DEF FifoInv
  <2>5. TipInv(g2, m2, t2, tip)'
    <3>1. purge.pc \in {"queues", "drain"} => m2 = 0 /\ t2[0].from = 0 /\ tip.k = 0 /\ g2 = tip.f
      <4> SUFFICES ASSUME purge.pc \in {"queues", "drain"}
                   PROVE  m2 = 0 /\ t2[0].from = 0 /\ tip.k = 0 /\ g2 = tip.f
        OBVIOUS
      <4>1. m = 0 /\ b.from = 0 /\ tip.k = 0 /\ g = tip.f
        BY <1>1 DEF TipInv
      <4>2. ~FrameDone(n)
        BY <1>4, <1>9, <4>1
      <4> QED BY <1>12, <4>1, <4>2
    <3> HIDE DEF g2
    <3> QED BY <1>1, <1>6, <3>1 DEF TipInv
  <2> QED BY <1>8, <1>12, <2>4, <2>5 DEF FrameInv
<1>13. CASE FrameDone(n) \/ old.cnt + n = RxSize
  <2> DEFINE t2 == Extended(t, m)
             q  == AfterPart(p)
             ff == NextDesc(fifo_rx_desc)
  <2>1. n # 0
    <3> HIDE DEF n, old
    <3> QED BY <1>2, <1>3, <1>4, <1>13
  <2>2. g \in Frames /\ got + n <= Traffic[g] /\ Traffic[g] \in Nat /\ (p.from + old.cnt) + n = got + n
    <3>1. g \in Frames /\ got + n <= Traffic[g]
      BY <1>4, <2>1
    <3> HIDE DEF n, got, old, g
    <3> QED BY <1>3, <3>1, FrameWords
  <2>3. \/ /\ FrameDone(n) /\ rx_frame_size = Traffic[g] /\ line.f > g
           /\ (p.from + old.cnt) + n = Traffic[g]
        \/ /\ ~FrameDone(n) /\ old.cnt + n = RxSize
           /\ (p.from + old.cnt) + n < Traffic[g]
    <3>1. tip.f <= line.f /\ line.f \in Nat
      BY <1>1, DeviceTypes DEF TipInv
    <3> HIDE DEF n, got, old
    <3>2. FrameDone(n) => line.f > g
      BY <1>2, <1>4, <1>9, <3>1
    <3> HIDE DEF g
    <3> QED BY <1>4, <1>13, <2>1, <2>2, <3>2
  <2>4. HoldsPart(d, p) /\ IsPart(p) /\ (FrameDone(n) <=> LastPart(p)) /\ old.cnt + n <= RxSize
    <3> HIDE DEF n, old, p
    <3> QED BY <1>2, <1>3, <1>4, <1>11, <1>5, <2>1, <2>2, <2>3, StoredHolds DEF g
  <2>5. /\ m + 1 \in 0..RxNum /\ t2 \in [0..RxNum -> Part] /\ Chain(t2, m + 1)
        /\ t2[m + 1] = q /\ \A k \in 0..m : t2[k] = t[k]
    <3>1. Chain(t, m)
      BY <1>1 DEF RingInv
    <3> QED BY <1>3, <2>4, <3>1, ChainGrows
  <2>6. t2[0] = b
    <3>1. 0 \in 0..m
      OBVIOUS
    <3> HIDE DEF t2
    <3> QED BY <1>1, <2>5, <3>1
  <2>7. RingHolds(ds2, user_rx_desc, ff, m + 1, t2) /\ (m + 1 < RxNum => ds2[ff].cnt = 0)
    <3>1. RingHolds(ds, user_rx_desc, fifo_rx_desc, m, t)
      BY <1>1 DEF RingInv
    <3>2. ds \in [Ring -> Desc] /\ user_rx_desc \in Ring
      BY DeviceTypes
    <3>3. m < RxNum /\ HoldsPart(d, t[m])
      BY <1>3, <2>4
    <3>4. Agree(t2, t, m)
      BY <2>5 DEF Agree
    <3>5. NextDesc(fifo_rx_desc) = ff
      OBVIOUS
    <3> HIDE DEF t2, d, ff
    <3>6. RingHolds(Put(ds, fifo_rx_desc, d), user_rx_desc, NextDesc(fifo_rx_desc), m + 1, t2)
      BY <3>1, <3>2, <3>3, <3>4, RingGrows
    <3>7. m + 1 < RxNum => Put(ds, fifo_rx_desc, d)[NextDesc(fifo_rx_desc)].cnt = 0
      BY <3>1, <3>2, NextIsEmpty
    <3> QED BY <3>5, <3>6, <3>7
  <2>8. fifo_rx_desc' = ff
    <3>1. "CSTOP" \in d.flags
      BY <2>4 DEF HoldsPart
    <3> QED BY <1>6, <3>1
  <2>9. /\ rx_bytes_in_frame' = q.from /\ (IF FrameDone(n) THEN q.f = g + 1 ELSE q.f = g)
        /\ W[q.f] + q.from = (W[g] + got) + WordsOf(n)
        /\ Position(q.f, q.from, tip)
    <3>1. CASE FrameDone(n)
      <4>1. q.f = g + 1 /\ q.from = 0
        BY <2>4, <3>1, PartFacts
      <4>2. rx_bytes_in_frame' = 0
        BY <1>6, <3>1
      <4>3. W[g + 1] + 0 = (W[g] + got) + WordsOf(n)
        <5> DEFINE size == Traffic[g]
                   c    == W[g]
                   w    == WordsOf(size)
                   x    == WordsOf(n)
        <5>1. W[g + 1] = c + w
          BY <2>2 DEF Lines
        <5>2. size - got = n /\ got <= size /\ size \in Nat
          <6> HIDE DEF n, size, got
          <6>1. got + n = size /\ size \in Nat
            BY <1>4, <2>2, <3>1 DEF size
          <6>2. got \in Nat /\ n \in Nat
            BY <1>4, <1>9
          <6> QED BY <6>1, <6>2
        <5>3. x = w - got
          <6>1. got % 4 = 0
            BY <1>9 DEF Position
          <6>2. WordsOf(size - got) = WordsOf(size) - got
            <7> HIDE DEF n, size, got
            <7> QED BY <1>9, <5>2, <6>1, WordsFacts
          <6> HIDE DEF n, size, got
          <6> QED BY <5>2, <6>2
        <5>4. w \in Nat /\ c \in Nat
          BY <1>9, <5>2, WordsFacts
        <5> HIDE DEF size, c, w, x, got
        <5>5. (c + w) + 0 = (c + got) + x
          BY <1>9, <5>3, <5>4
        <5> QED BY <5>1, <5>5 DEF c, x
      <4>4. Position(g + 1, 0, tip)
        <5>1. g + 1 <= tip.f
          <6> HIDE DEF n, g
          <6> QED BY <1>2, <1>4, <1>9, <3>1
        <5>2. g + 1 < tip.f => 0 < Traffic[g + 1]
          <6>1. tip.f <= Len(Traffic) + 1 /\ Len(Traffic) \in Nat
            BY <1>9, TrafficAssumption, LenProperties DEF IsPlace
          <6>2. g + 1 < tip.f => g + 1 \in Frames
            <7> HIDE DEF g
            <7> QED BY <1>2, <1>9, <6>1 DEF Frames
          <6>3. g + 1 \in Frames => Traffic[g + 1] \in Nat /\ Traffic[g + 1] >= 2
            BY FrameWords
          <6> QED BY <6>2, <6>3
        <5>3. 0 <= tip.k /\ 0 % 4 = 0
          BY <1>9
        <5> HIDE DEF g
        <5> QED BY <5>1, <5>2, <5>3 DEF Position
      <4> HIDE DEF q, g, n, got
      <4> QED BY <3>1, <4>1, <4>2, <4>3, <4>4
    <3>2. CASE ~FrameDone(n)
      <4>1. q.f = g /\ q.from = p.from + RxSize /\ old.cnt + n = RxSize
        BY <1>13, <2>4, <3>2, PartFacts
      <4>2. rx_bytes_in_frame' = got + n /\ got + n = q.from /\ WordsOf(n) = n
        <5>1. rx_bytes_in_frame' = got + n /\ WordsOf(n) = n
          BY <1>4, <1>6, <3>2
        <5> HIDE DEF n, old, got, q
        <5>2. got + n = p.from + RxSize
          <6>1. old.cnt + n = RxSize /\ got + n = (p.from + old.cnt) + n
            BY <2>2, <4>1
          <6>2. p.from \in Nat /\ old.cnt \in Nat /\ n \in Nat
            BY <1>2, <1>3, <1>4
          <6>3. (p.from + old.cnt) + n = p.from + (old.cnt + n)
            BY <6>2
          <6> QED BY <6>1, <6>3
        <5> QED BY <4>1, <5>1, <5>2
      <4>3. W[g] + (got + n) = (W[g] + got) + n
        <5> DEFINE c == W[g]
        <5> HIDE DEF c, n, got
        <5>1. c \in Nat
          BY <1>9 DEF c
        <5>2. c + (got + n) = (c + got) + n
          BY <1>4, <1>9, <5>1
        <5> QED BY <5>2 DEF c
      <4>4. Position(g, got + n, tip)
        <5>1. got % 4 = 0 /\ n % 4 = 0
          BY <1>4, <1>9, <3>2 DEF Position
        <5>2. (got + n) % 4 = 0
          <6> HIDE DEF n, got
          <6> QED BY <1>4, <1>9, <5>1, WordsFacts
        <5> HIDE DEF n, got, g
        <5> QED BY <1>4, <1>9, <3>2, <5>2 DEF Position
      <4> HIDE DEF q, g, n, got
      <4> QED BY <3>2, <4>1, <4>2, <4>3, <4>4
    <3> QED BY <3>1, <3>2
  <2>10. RingInv(m + 1, t2)'
    <3>1. Filling(ds2, ff, m + 1, q, q.from)
      <4>1. m + 1 < RxNum => ds2[ff].cnt = 0
        BY <2>7
      <4>2. q \in Part /\ q.from \in Nat /\ q.from + 0 = q.from /\ 0 % 4 = 0 /\ 0 < RxSize
        <5>1. q \in Part /\ q.from \in Nat
          <6>1. q \in Part
            BY <1>2, PartFacts
          <6> QED BY <6>1, PartFacts
        <5> HIDE DEF q
        <5> QED BY <5>1, RingAssumption
      <4>3. BytesOf(ds2[ff].buffer, q, 0)
        BY DEF BytesOf
      <4> HIDE DEF q, ds2, ff
      <4> QED BY <4>1, <4>2, <4>3 DEF Filling
    <3> HIDE DEF t2, q, ds2, ff
    <3> QED BY <1>6, <2>5, <2>7, <2>8, <2>9, <3>1 DEF RingInv
  <2>11. purge.pc \notin {"queues", "drain"}
    <3> SUFFICES ASSUME purge.pc \in {"queues", "drain"} PROVE FALSE
      OBVIOUS
    <3>1. tip.k = 0 /\ g = tip.f
      BY <1>1 DEF TipInv
    <3>2. ~FrameDone(n)
      BY <1>4, <1>9, <3>1
    <3>3. got + n <= 0
      BY <1>4, <3>1, <3>2
    <3> HIDE DEF n, got
    <3> QED BY <1>4, <1>9, <2>1, <3>3
  <2> HIDE DEF t2, q, n, g, got
  <2> QED BY <1>12, <2>5, <2>6, <2>9, <2>10, <2>11
<1>14. CASE ~FrameDone(n) /\ old.cnt + n # RxSize
  <2>1. old.cnt + n < RxSize /\ (old.cnt + n) % 4 = 0
    <3>1. n % 4 = 0
      BY <1>4, <1>14
    <3> HIDE DEF n, old
    <3>2. (old.cnt + n) % 4 = 0
      BY <1>3, <1>4, <3>1, WordsFacts
    <3> QED BY <1>14, <1>5, <3>2
  <2>2. OpenDesc(d) /\ d.cnt = old.cnt + n
    <3>1. ~(old.cnt + n >= RxSize)
      <4>1. old.cnt + n < RxSize /\ old.cnt + n \in Nat /\ RxSize \in Nat
        BY <1>2, <1>5, <2>1
      <4> HIDE DEF n, old
      <4> QED BY <4>1
    <3>2. d.flags = {} /\ d.cnt = old.cnt + n
      BY <1>3, <1>14, <3>1 DEF StoreInDesc, OpenDesc
    <3> QED BY <1>3, <1>14, <3>1, <3>2 DEF StoreInDesc, OpenDesc
  <2>3. fifo_rx_desc' = fifo_rx_desc
    BY <1>6, <2>2 DEF OpenDesc
  <2>4. RingHolds(ds2, user_rx_desc, fifo_rx_desc, m, t) /\ ds2[fifo_rx_desc] = d
    <3>1. RingHolds(ds, user_rx_desc, fifo_rx_desc, m, t)
      BY <1>1 DEF RingInv
    <3>2. ds \in [Ring -> Desc] /\ user_rx_desc \in Ring
      BY DeviceTypes
    <3> HIDE DEF d
    <3> QED BY <1>3, <2>2, <3>1, <3>2, RingStays
  <2>5. rx_bytes_in_frame' = got + n /\ WordsOf(n) = n
    BY <1>4, <1>6, <1>14
  <2>6. got + n = p.from + (old.cnt + n)
    <3> HIDE DEF n, got, old
    <3>1. p.from \in Nat /\ old.cnt \in Nat /\ n \in Nat /\ got = p.from + old.cnt
      BY <1>2, <1>3, <1>4
    <3> QED BY <3>1
  <2>7. RingInv(m, t)'
    <3>1. Filling(ds2, fifo_rx_desc, m, p, got + n)
      <4> HIDE DEF n, old, d, p, got, ds2
      <4> QED BY <1>3, <1>11, <2>1, <2>2, <2>4, <2>6 DEF Filling
    <3>2. Chain(t, m)
      BY <1>1 DEF RingInv
    <3> HIDE DEF n, d, ds2, got
    <3> QED BY <1>6, <2>3, <2>4, <2>5, <3>1, <3>2 DEF RingInv
  <2>8. W[g] + (got + n) = (W[g] + got) + n
    <3> DEFINE c == W[g]
    <3> HIDE DEF c, n, got
    <3>1. c \in Nat
      BY <1>9 DEF c
    <3>2. c + (got + n) = (c + got) + n
      BY <1>4, <1>9, <3>1
    <3> QED BY <3>2 DEF c
  <2>9. Position(g, got + n, tip)
    <3>1. got % 4 = 0 /\ n % 4 = 0
      BY <1>4, <1>9, <1>14 DEF Position
    <3>2. (got + n) % 4 = 0
      <4> HIDE DEF n, got
      <4> QED BY <1>4, <1>9, <3>1, WordsFacts
    <3> HIDE DEF n, got, g
    <3> QED BY <1>4, <1>9, <1>14, <3>2 DEF Position
  <2> HIDE DEF n, got
  <2> QED BY <1>1, <1>12, <1>14, <2>5, <2>7, <2>8, <2>9
<1> HIDE DEF n, old
<1> QED BY <1>13, <1>14

-----------------------------------------------------------------------------
(* Purges.                                                                 *)

\* The next part to be copied when everything before frame f was dropped.
FromFrame(f) == [f |-> f, from |-> 0]

\* The ring is empty and the card has nothing: the copies go on with frame f.
LEMMA RestartFrame ==
  ASSUME ~Streaming, NEW W, Lines(W), NEW f \in Nat \ {0}, f <= Len(Traffic) + 1,
         NEW ds, ds = rx_descriptors', \A i \in Ring : OpenDesc(ds[i]) /\ ds[i].cnt = 0,
         user_rx_desc' \in Ring, fifo_rx_desc' = user_rx_desc',
         rx_bytes_in_frame' = 0, rx_frame_size' = 0, Len(rxfifo') = 0, Len(bcfifo') = 0,
         bcfifo' = <<>>, line' = [f |-> f, k |-> 0], recd' <=> purge'.pc # "idle", purged' < f,
         \A r \in Readers : reader'[r].pc \notin {"copy", "next", "stream"}
  PROVE  FrameInv(W, FromFrame(f))'
<1> DEFINE b   == FromFrame(f)
           t   == [k \in 0..RxNum |-> b]
           tip == [f |-> f, k |-> 0]
<1>1. /\ b \in Part /\ b.f = f /\ b.from = 0 /\ tip \in [f : Nat \ {0}, k : Nat] /\ tip.f = f
      /\ tip.k = 0 /\ Len(Traffic) \in Nat /\ f \in Nat
  BY TrafficAssumption, LenProperties DEF FromFrame, Part
<1>2. t \in [0..RxNum -> Part] /\ t[0] = b /\ 0 \in 0..RxNum
  BY <1>1, RingFacts
<1>3. W[f] \in Nat
  <2>1. f \in 1..(Len(Traffic) + 1)
    BY <1>1
  <2> QED BY <2>1, LinesType
<1> HIDE DEF b, t, tip
<1>4. RingInv(0, t)'
  <2>1. Chain(t, 0)
    <3>1. \A k \in 0..(0 - 1) : FALSE
      OBVIOUS
    <3> QED BY <3>1 DEF Chain
  <2>2. RingHolds(ds, user_rx_desc', fifo_rx_desc', 0, t)
    <3>1. ASSUME NEW k \in Ring
          PROVE  RingPos(user_rx_desc', k) \in Ring /\ ~(k < 0)
      <4>1. k \in Nat /\ k \in 0..RxNum
        BY RingFacts
      <4>2. ~(k < 0)
        BY <4>1
      <4> QED BY <4>1, <4>2, PosType
    <3> QED BY <3>1, PosZero DEF RingHolds
  <2>3. Filling(ds, fifo_rx_desc', 0, t[0], 0)
    <3>1. ds[fifo_rx_desc'].cnt = 0 /\ 0 < RxSize /\ 0 % 4 = 0 /\ t[0].from = 0
      <4>1. fifo_rx_desc' \in Ring
        OBVIOUS
      <4>2. ds[fifo_rx_desc'].cnt = 0
        BY <4>1
      <4> QED BY <4>2, <1>1, <1>2, RingAssumption
    <3>2. BytesOf(ds[fifo_rx_desc'].buffer, t[0], 0)
      BY DEF BytesOf
    <3>3. 0 = 0 + 0
      OBVIOUS
    <3> QED BY <3>1, <3>2, <3>3 DEF Filling
  <2> QED BY <2>1, <2>2, <2>3 DEF RingInv
<1>5. FifoInv(W, f, tip)'
  <2>1. IsPlace(tip)
    BY <1>1 DEF IsPlace
  <2>2. Position(f, 0, tip)
    <3>1. ~(f < f) /\ f <= f /\ 0 <= 0 /\ 0 % 4 = 0
      BY <1>1
    <3> QED BY <1>1, <3>1 DEF Position
  <2>3. FifoRun(W, rxfifo', W[f] + 0, tip)
    <3>1. (W[f] + 0) - (W[f] + 0) = 0
      BY <1>3
    <3>2. \A x : x \notin 1..0
      OBVIOUS
    <3> QED BY <1>1, <3>1, <3>2 DEF FifoRun
  <2>4. SizesOf(bcfifo', f, f)
    <3>1. f - f = 0
      BY <1>1
    <3> QED BY <3>1 DEF SizesOf
  <2> QED BY <1>1, <2>1, <2>2, <2>3, <2>4 DEF FifoInv
<1>6. TipInv(f, 0, t, tip)'
  <2>1. tip = line' /\ line'.k = 0 /\ line'.f = f /\ f <= f
    BY <1>1 DEF tip
  <2> QED BY <1>1, <1>2, <2>1 DEF TipInv
<1>7. ReadersInv(0, b)'
  BY <1>1 DEF ReadersInv
<1> QED BY <1>1, <1>2, <1>4, <1>5, <1>6, <1>7 DEF FrameInv, b

\* The frame at the front of the ring is not behind the line.
LEMMA FrontBefore ==
  ASSUME NEW W, NEW b, FrameInv(W, b), IndInv
  PROVE  /\ b \in Part /\ b.f \in Nat /\ b.f # 0 /\ b.from \in Nat /\ b.f <= line.f
         /\ line.f <= Len(Traffic) + 1 /\ purged < b.f
         /\ recd <=> purge.pc # "idle"
         /\ purge.pc # "idle" => line.k = 0
<1>1. PICK n \in 0..RxNum, t \in [0..RxNum -> Part], tip \in [f : Nat \ {0}, k : Nat] :
        /\ t[0] = b
        /\ RingInv(n, t)
        /\ FifoInv(W, t[n].f, tip)
        /\ TipInv(t[n].f, n, t, tip)
        /\ ReadersInv(n, b)
  BY DEF FrameInv
<1>2. b \in Part /\ t[n] \in Part /\ 0 \in 0..n /\ n \in 0..n
  BY <1>1, RingFacts
<1>3. /\ b.f \in Nat /\ b.f # 0 /\ b.from \in Nat /\ t[n].f \in Nat
      /\ tip.f \in Nat /\ line.f \in Nat
  BY <1>2, DeviceTypes, PartFacts
<1>4. b.f <= t[n].f
  <2>1. Chain(t, n)
    BY <1>1 DEF RingInv
  <2> QED BY <1>1, <1>2, <2>1, ChainFacts
<1>5. t[n].f <= tip.f
  BY <1>1 DEF FifoInv, Position
<1>6. /\ tip.f <= line.f /\ line.f <= Len(Traffic) + 1
      /\ recd <=> purge.pc # "idle"
      /\ purge.pc # "idle" => line.k = 0
  BY <1>1 DEF TipInv
<1>7. purged < b.f
  BY <1>1 DEF ReadersInv
<1> QED BY <1>2, <1>3, <1>4, <1>5, <1>6, <1>7

\* Without a copy going on the front of the ring is the start of a frame.
LEMMA FrontStarts ==
  ASSUME NEW W, NEW b, FrameInv(W, b), \A r \in Readers : reader[r].pc # "copy"
  PROVE  b.from = 0 /\ \A r \in Readers : reader[r].pc # "stream"
BY DEF FrameInv, ReadersInv

\* fscc_io_reset_rx: everything received before is gone.
LEMMA ResetFrame ==
  ASSUME ~Streaming, NEW W, Lines(W), NEW b, FrameInv(W, b), IndInv, PurgeReset, clock.on,
         NEW f, f = line.f
  PROVE  b.from = 0 /\ b.f <= f /\ FrameInv(W, FromFrame(f))'
<1>1. \A r \in Readers : reader[r].pc \notin {"copy", "next", "stream", "done"}
  BY ReadAssumption DEF PurgeReset, IndInv, LockOwnership
<1>2. b.from = 0
  BY <1>1, FrontStarts
<1>3. /\ purge.pc = "reset" /\ purge'.pc = "queues" /\ rxfifo' = <<>> /\ bcfifo' = <<>>
      /\ rx_descriptors' = [i \in 0..(RxNum - 1) |-> ResetDesc(rx_descriptors[i])]
      /\ user_rx_desc' = 0 /\ fifo_rx_desc' = 0 /\ rx_bytes_in_frame' = 0 /\ rx_frame_size' = 0
      /\ purged' = line.f - 1 /\ line' = line /\ recd' = recd /\ reader' = reader
  BY DEF PurgeReset, user, IndInv, TypeOK, TypeIoctl
<1>4. recd /\ line.k = 0 /\ line = [f |-> line.f, k |-> line.k] /\ f \in Nat \ {0}
      /\ f <= Len(Traffic) + 1 /\ b.f <= f
  BY <1>3, FrontBefore, DeviceTypes
<1>5. PICK ds : ds = rx_descriptors'
  OBVIOUS
<1>6. ASSUME NEW i \in Ring
      PROVE  OpenDesc(ds[i]) /\ ds[i].cnt = 0
  <2>1. ds[i] = ResetDesc(rx_descriptors[i]) /\ rx_descriptors[i] \in Desc
    BY <1>3, <1>5, DeviceTypes DEF Ring
  <2> QED BY <2>1 DEF OpenDesc, ResetDesc, CleanDesc, Desc
<1>7. purged' < f
  BY <1>3, <1>4
<1>8. user_rx_desc' \in Ring /\ Len(rxfifo') = 0 /\ Len(bcfifo') = 0
  BY <1>3, RingFacts
<1>9. line' = [f |-> f, k |-> 0]
  BY <1>3, <1>4
<1>10. recd' <=> purge'.pc # "idle"
  BY <1>3, <1>4
<1>11. \A r \in Readers : reader'[r].pc \notin {"copy", "next", "stream"}
  BY <1>1, <1>3
<1> HIDE DEF OpenDesc
<1>12. FrameInv(W, FromFrame(f))'
  BY <1>3, <1>4, <1>5, <1>6, <1>7, <1>8, <1>9, <1>10, <1>11, RestartFrame
<1> QED BY <1>2, <1>4, <1>12

\* Every descriptor is some way ahead.
LEMMA PosReaches ==
  \A u, i \in Ring : \E k \in Ring : RingPos(u, k) = i
<1> SUFFICES ASSUME NEW u \in Ring, NEW i \in Ring
             PROVE  \E k \in Ring : RingPos(u, k) = i
  OBVIOUS
<1> DEFINE k == IF u <= i THEN i - u ELSE (i + RxNum) - u
<1>1. k \in Ring /\ RingPos(u, k) = i
  BY RingAssumption DEF Ring, RingPos
<1> QED BY <1>1

\* The receiver is enabled again: nothing is left of what came before.
LEMMA FinishFrame ==
  ASSUME ~Streaming, NEW W, Lines(W), NEW b, FrameInv(W, b), IndInv, PurgeFinish, NEW f, f = line.f
  PROVE  b.from = 0 /\ b.f <= f /\ FrameInv(W, FromFrame(f))'
<1>1. \A r \in Readers : reader[r].pc \notin {"copy", "next", "stream", "done"}
  BY DEF PurgeFinish
<1>2. b.from = 0
  BY <1>1, FrontStarts
<1>3. /\ purge.pc = "drain" /\ purge'.pc = "idle" /\ ~recd'
      /\ UNCHANGED <<rxfifo, bcfifo, rx_descriptors, user_rx_desc, fifo_rx_desc,
                     rx_bytes_in_frame, rx_frame_size, purged, line, reader>>
  BY DEF PurgeFinish, user, ring, IndInv, TypeOK, TypeIoctl
<1>4. /\ line.k = 0 /\ line = [f |-> line.f, k |-> line.k] /\ f \in Nat \ {0}
      /\ f <= Len(Traffic) + 1 /\ b.f <= f /\ purged < f /\ purged \in Nat
  <2>1. purged \in Nat
    BY DEF IndInv, TypeOK, TypeIoctl
  <2> QED BY <1>3, <2>1, FrontBefore, DeviceTypes
<1>5. PICK n \in 0..RxNum, t \in [0..RxNum -> Part], tip \in [f : Nat \ {0}, k : Nat] :
        /\ t[0] = b
        /\ RingInv(n, t)
        /\ FifoInv(W, t[n].f, tip)
        /\ TipInv(t[n].f, n, t, tip)
        /\ ReadersInv(n, b)
  BY DEF FrameInv
<1>6. n = 0 /\ t[0].from = 0 /\ tip.k = 0 /\ t[0].f = tip.f /\ tip.f \in Nat \ {0}
  BY <1>3, <1>5 DEF TipInv
<1>7. rx_bytes_in_frame = 0 /\ rx_frame_size = 0
  <2>1. rx_bytes_in_frame <= 0
    BY <1>5, <1>6 DEF FifoInv, Position
  <2>2. ~(t[0].f < tip.f)
    BY <1>6
  <2>3. rx_frame_size # 0 => t[0].f < tip.f
    BY <1>5, <1>6 DEF FifoInv
  <2> QED BY <2>1, <2>2, <2>3, DeviceTypes
<1>8. Len(rxfifo) = 0
  <2>1. Len(rxfifo) = (W[tip.f] + tip.k) - (W[t[0].f] + rx_bytes_in_frame)
    BY <1>5, <1>6 DEF FifoInv, FifoRun
  <2>2. W[tip.f] \in Nat
    <3>1. tip.f \in 1..(Len(Traffic) + 1)
      BY <1>5, <1>6, TrafficAssumption, LenProperties DEF FifoInv, IsPlace
    <3> QED BY <3>1, LinesType
  <2> QED BY <2>1, <2>2, <1>6, <1>7
<1>9. Len(bcfifo) = 0 /\ bcfifo = <<>>
  <2>1. SizesOf(bcfifo, t[0].f, tip.f)
    BY <1>5, <1>6, <1>7 DEF FifoInv
  <2>2. Len(bcfifo) = tip.f - t[0].f
    BY <2>1 DEF SizesOf
  <2>3. Len(bcfifo) = 0
    BY <2>2, <1>6
  <2> QED BY <2>3, DeviceTypes, EmptySeq
<1>10. PICK ds : ds = rx_descriptors'
  OBVIOUS
<1>11. /\ RingHolds(rx_descriptors, user_rx_desc, fifo_rx_desc, 0, t)
       /\ Filling(rx_descriptors, fifo_rx_desc, 0, t[0], rx_bytes_in_frame)
  BY <1>5, <1>6 DEF RingInv
<1>12. user_rx_desc \in Ring /\ fifo_rx_desc = user_rx_desc /\ rx_descriptors \in [Ring -> Desc]
  BY <1>11, PosZero, DeviceTypes DEF RingHolds
<1>13. rx_descriptors[user_rx_desc].cnt = 0
  <2>1. 0 = 0 + rx_descriptors[user_rx_desc].cnt /\ rx_descriptors[user_rx_desc].cnt \in Nat
    BY <1>6, <1>7, <1>11, <1>12, RingAssumption, DescFields DEF Filling
  <2> QED BY <2>1
<1>14. ASSUME NEW i \in Ring
       PROVE  OpenDesc(ds[i]) /\ ds[i].cnt = 0
  <2>1. PICK k \in Ring : RingPos(user_rx_desc, k) = i
    BY <1>12, PosReaches
  <2>2. k \in Nat /\ ~(k < 0)
    <3>1. k \in Nat
      BY RingFacts
    <3> QED BY <3>1
  <2>3. OpenDesc(rx_descriptors[i])
    BY <1>11, <2>1, <2>2 DEF RingHolds
  <2>4. k > 0 => rx_descriptors[i].cnt = 0
    BY <1>11, <2>1 DEF RingHolds
  <2>5. k = 0 => rx_descriptors[i].cnt = 0
    BY <1>12, <1>13, <2>1, PosZero
  <2> QED BY <1>3, <1>10, <2>2, <2>3, <2>4, <2>5
<1>15. /\ user_rx_desc' \in Ring /\ Len(rxfifo') = 0 /\ Len(bcfifo') = 0 /\ bcfifo' = <<>>
       /\ fifo_rx_desc' = user_rx_desc' /\ rx_bytes_in_frame' = 0 /\ rx_frame_size' = 0
  BY <1>3, <1>7, <1>8, <1>9, <1>12
<1>16. line' = [f |-> f, k |-> 0] /\ purged' < f
  BY <1>3, <1>4
<1>17. recd' <=> purge'.pc # "idle"
  BY <1>3
<1>18. \A r \in Readers : reader'[r].pc \notin {"copy", "next", "stream"}
  BY <1>1, <1>3
<1>19. FrameInv(W, FromFrame(f))'
  BY <1>4, <1>10, <1>14, <1>15, <1>16, <1>17, <1>18, RestartFrame
<1> QED BY <1>2, <1>4, <1>19

-----------------------------------------------------------------------------
(* Steps of the readers.                                                   *)

\* The frame that is ready is the one at the front.
LEMMA ReadyFrame ==
  ASSUME NEW n \in 0..RxNum, NEW t \in [0..RxNum -> Part], RingInv(n, t), IndInv, frame_ready
  PROVE  /\ frame_bytes = Traffic[t[0].f] /\ IsPart(t[0]) /\ Traffic[t[0].f] \in Nat
         /\ ValidData(frame_bytes) \in Nat
<1>1. PICK k \in Ring : FrameEndsAt(k) /\ frame_bytes = rx_descriptors[Ahead(k)].cnt
  BY FrameBytes DEF Ring
<1>2. EndsAt(rx_descriptors, user_rx_desc, k) /\ Ahead(k) = RingPos(user_rx_desc, k)
  BY <1>1, FrameEndsIsEndsAt DEF Ahead
<1>3. RingHolds(rx_descriptors, user_rx_desc, fifo_rx_desc, n, t) /\ Chain(t, n)
  BY DEF RingInv
<1>4. rx_descriptors[RingPos(user_rx_desc, k)].cnt = Traffic[t[0].f] /\ IsPart(t[0])
  <2>1. user_rx_desc \in Ring
    BY DeviceTypes
  <2> QED BY <1>2, <1>3, <2>1, FrontFrame
<1>5. Traffic[t[0].f] \in Nat
  BY <1>4, FrameWords DEF IsPart
<1> QED BY <1>1, <1>2, <1>4, <1>5, FrameBytesType

\* What the copy of a frame starts with.
LEMMA StartAt ==
  ASSUME NEW b \in Part, b.from = 0, frame_bytes = Traffic[b.f], Traffic[b.f] \in Nat,
         ValidData(frame_bytes) \in Nat, NEW rd \in ReaderState
  PROVE  CopyAt(StartFrame(rd), b)
<1> DEFINE V == ValidData(frame_bytes)
<1>1. /\ StartFrame(rd).filled = 0 /\ StartFrame(rd).valid = V
      /\ StartFrame(rd).bytes = Traffic[b.f]
  BY DEF StartFrame, ReaderState
<1>2. V \in {Traffic[b.f], Traffic[b.f] - StatusBytes} /\ Wanted(b.f, V)
  BY DEF ValidData, Wanted, StatusOn, StatusOff, StatusBytes
<1>3. MinOf(b.from, V) = 0 /\ V - 0 = V /\ Traffic[b.f] - b.from = Traffic[b.f]
  BY DEF MinOf
<1> HIDE DEF V
<1> QED BY <1>1, <1>2, <1>3 DEF CopyAt

\* A reader starts to copy the frame at the front.
LEMMA StartCopy ==
  ASSUME NEW W, NEW b, FrameInv(W, b), IndInv, SettingsStay, NEW r \in Readers, frame_ready,
         reader' = [reader EXCEPT ![r] = StartFrame(reader[r])],
         board_rx_spinlock \in {"free", r}, reader[r].pc \in {"enter", "next"},
         UNCHANGED <<ring, rxfifo, bcfifo, line, recd, purged, iframe, purge>>
  PROVE  FrameInv(W, b)'
<1> USE DEF ring
<1>1. PICK n \in 0..RxNum, t \in [0..RxNum -> Part], tip \in [f : Nat \ {0}, k : Nat] :
        /\ t[0] = b
        /\ RingInv(n, t)
        /\ FifoInv(W, t[n].f, tip)
        /\ TipInv(t[n].f, n, t, tip)
        /\ ReadersInv(n, b)
  BY DEF FrameInv
<1>2. RingInv(n, t)' /\ FifoInv(W, t[n].f, tip)' /\ TipInv(t[n].f, n, t, tip)'
  BY <1>1 DEF RingInv, FifoInv, TipInv
<1>3. reader[r] \in ReaderState /\ b \in Part
  BY <1>1, ReaderFacts, RingFacts
<1>4. \A q \in Readers \ {r} : reader[q].pc \notin {"copy", "next", "stream", "done"}
  BY OthersIdle, ReadAssumption DEF IndInv, LockOwnership
<1>5. b.from = 0
  BY <1>3, <1>4, FrontStarts
<1>6. reader[r].i + n <= RxNum
  <2>1. CASE reader[r].pc = "next"
    BY <1>1, <2>1 DEF ReadersInv
  <2>2. CASE reader[r].pc = "enter"
    <3>1. reader[r].i = 0
      BY <2>2 DEF IndInv, CopyInv
    <3> QED BY <3>1, RingFacts
  <2> QED BY <2>1, <2>2
<1>7. /\ CopyAt(StartFrame(reader[r]), b)
      /\ StartFrame(reader[r]).pc = "copy" /\ StartFrame(reader[r]).i = reader[r].i
  <2>1. /\ frame_bytes = Traffic[b.f] /\ Traffic[b.f] \in Nat
        /\ ValidData(frame_bytes) \in Nat
    BY <1>1, ReadyFrame
  <2>2. CopyAt(StartFrame(reader[r]), b)
    BY <1>3, <1>5, <2>1, StartAt
  <2> QED BY <1>3, <2>2 DEF StartFrame, ReaderState
<1>8. PICK x : x = StartFrame(reader[r])
  OBVIOUS
<1>9. reader'[r] = x /\ \A q \in Readers \ {r} : reader'[q] = reader[q]
  BY <1>8, DeviceTypes
<1>10. CopyAt(x, b)'
  BY <1>7, <1>8 DEF CopyAt, Wanted, SettingsStay
<1>11. ReadersInv(n, b)'
  <2>1. purged' < b.f
    BY <1>1 DEF ReadersInv
  <2>2. ASSUME NEW q \in Readers
        PROVE  /\ reader'[q].pc # "stream"
               /\ reader'[q].pc = "copy" => CopyAt(reader[q], b)'
               /\ reader'[q].pc \in {"copy", "next"} => reader'[q].i + n <= RxNum
    <3>1. CASE q = r
      BY <1>6, <1>7, <1>8, <1>9, <1>10, <3>1
    <3>2. CASE q # r
      BY <1>4, <1>9, <3>2
    <3> QED BY <3>1, <3>2
  <2> QED BY <1>5, <2>1, <2>2 DEF ReadersInv
<1> QED BY <1>1, <1>2, <1>11 DEF FrameInv

\* The numbers of one iteration of the copy: of a frame of "size" bytes V go to the
\* application, and "from" were in the descriptors before.
CopySums(size, from, V, filled, valid, bytes, planned, real, left) ==
  /\ size \in Nat /\ from \in Nat /\ from < size /\ V \in Nat /\ V <= size
  /\ filled = MinOf(from, V) /\ valid = V - filled /\ bytes = size - from
  /\ planned = IF size - from <= RxSize THEN size - filled ELSE RxSize
  /\ real = MinOf(planned, valid)
  /\ left = IF planned > bytes THEN 0 ELSE bytes - planned

\* What they come to.
LEMMA CopyNumbers ==
  ASSUME NEW size, NEW from, NEW V, NEW filled, NEW valid, NEW bytes, NEW planned, NEW real, NEW left,
         CopySums(size, from, V, filled, valid, bytes, planned, real, left)
  PROVE  /\ real \in Nat /\ real <= RxSize /\ real <= size - from /\ filled \in Nat
         /\ real > 0 => filled = from
         /\ size - from <= RxSize => left = 0 /\ filled + real = V
         /\ ~(size - from <= RxSize) => /\ left # 0 /\ left = size - (from + RxSize)
                                        /\ filled + real = MinOf(from + RxSize, V)
         /\ valid - real = V - (filled + real)
<1> USE DEF CopySums
<1>1. RxSize \in Nat /\ RxSize > 0
  BY RingAssumption
<1>2. CASE from <= V
  <2>1. filled = from
    BY <1>2 DEF MinOf
  <2>2. CASE size - from <= RxSize
    <3>1. planned = size - from /\ real = V - from
      BY <1>2, <2>1, <2>2 DEF MinOf
    <3> QED BY <1>1, <1>2, <2>1, <2>2, <3>1
  <2>3. CASE ~(size - from <= RxSize)
    <3>1. planned = RxSize /\ left = size - (from + RxSize) /\ left # 0
      BY <1>1, <2>3
    <3>2. real \in Nat /\ real <= RxSize /\ from + real = MinOf(from + RxSize, V)
      BY <1>1, <1>2, <2>1, <3>1 DEF MinOf
    <3> QED BY <1>1, <1>2, <2>1, <2>3, <3>1, <3>2
  <2> QED BY <2>2, <2>3
<1>3. CASE ~(from <= V)
  <2>1. filled = V /\ valid = 0
    BY <1>3 DEF MinOf
  <2>2. real = 0 /\ planned \in Nat
    BY <1>1, <2>1 DEF MinOf
  <2>3. CASE size - from <= RxSize
    <3>1. planned = size - V /\ left = 0
      BY <1>3, <2>1, <2>3
    <3> QED BY <1>1, <1>3, <2>1, <2>2, <2>3, <3>1
  <2>4. CASE ~(size - from <= RxSize)
    <3>1. planned = RxSize /\ left = size - (from + RxSize) /\ left # 0
      BY <1>1, <2>4
    <3>2. MinOf(from + RxSize, V) = V
      BY <1>1, <1>3 DEF MinOf
    <3> QED BY <1>1, <1>3, <2>1, <2>2, <2>4, <3>1, <3>2
  <2> QED BY <2>3, <2>4
<1> QED BY <1>2, <1>3

\* One iteration of the copy of part b: what reader x = reader'[r] has afterwards.
CopyStep(rd, x, d, b) ==
  \E V, real \in Nat :
    /\ Wanted(b.f, V) /\ V \in {Traffic[b.f], Traffic[b.f] - StatusBytes}
    /\ rd.filled = MinOf(b.from, V) /\ x.filled = rd.filled + real
    /\ x.valid = V - x.filled
    /\ real <= RxSize /\ real <= Traffic[b.f] - b.from
    /\ real > 0 => rd.filled = b.from
    /\ x.i = rd.i + 1
    /\ LastPart(b) => x.pc = "next" /\ x.filled = V
    /\ ~LastPart(b) => /\ x.pc = "copy" /\ x.filled = MinOf(b.from + RxSize, V)
                       /\ x.bytes = Traffic[b.f] - (b.from + RxSize)
    /\ x.out = (rd.out \o CopyOut(d, real))
                 \o (IF LastPart(b) /\ settings.append_timestamp THEN << <<d.timestamp, 0>> >>
                                                                 ELSE <<>>)

\* One iteration of fscc_user_read_frame's loop copies the part at the front.
LEMMA CopyIsStep ==
  ASSUME NEW n \in 0..RxNum, NEW t \in [0..RxNum -> Part], RingInv(n, t), ReadersInv(n, t[0]),
         IndInv, NEW r \in Readers, ReadFrameDesc(r)
  PROVE  /\ n # 0 /\ IsPart(t[0]) /\ HoldsPart(rx_descriptors[user_rx_desc], t[0])
         /\ CopyStep(reader[r], reader'[r], rx_descriptors[user_rx_desc], t[0])
<1> DEFINE rd      == reader[r]
           d       == rx_descriptors[user_rx_desc]
           b       == t[0]
           planned == planned_move_size(d, rd.filled)
           real    == MinOf(planned, rd.valid)
           left    == IF planned > rd.bytes THEN 0 ELSE rd.bytes - planned
           stamp   == left = 0 /\ settings.append_timestamp
           time    == IF d.timestamp = Empty THEN Now ELSE d.timestamp
           pc      == IF left = 0 THEN "next" ELSE IF rd.i + 1 = RxNum THEN "done" ELSE "copy"
           tail    == IF stamp THEN << <<time, 0>> >> ELSE <<>>
<1>1. /\ rd \in ReaderState /\ rd.pc = "copy" /\ d \in Desc /\ user_rx_desc \in Ring
      /\ reader \in [Readers -> ReaderState] /\ b \in Part
  BY ReaderFacts, RingFacts, DeviceTypes DEF ReadFrameDesc
<1>2. /\ rd.i \in 0..RxNum /\ rd.bytes \in Nat /\ rd.filled \in Nat /\ rd.out \in Seq(Byte)
      /\ b.f \in Nat /\ b.f # 0 /\ b.from \in Nat
  <2> HIDE DEF rd, b
  <2> QED BY <1>1, ReaderFields, PartFacts
<1>3. /\ reader'[r].pc = pc /\ reader'[r].valid = rd.valid - real /\ reader'[r].i = rd.i + 1
      /\ reader'[r].bytes = left /\ reader'[r].filled = rd.filled + real
      /\ reader'[r].out = (rd.out \o CopyOut(d, real)) \o tail
  BY <1>1 DEF ReadFrameDesc, ReaderState
<1>4. PICK k \in Ring : FrameEndsAt(k)
  BY <1>1 DEF IndInv, CopyInv, Ring
<1>5. /\ k < n /\ n # 0 /\ LastPart(t[k]) /\ IsPart(b)
  <2>1. EndsAt(rx_descriptors, user_rx_desc, k)
    BY <1>4, FrameEndsIsEndsAt
  <2>2. RingHolds(rx_descriptors, user_rx_desc, fifo_rx_desc, n, t) /\ Chain(t, n)
    BY DEF RingInv
  <2> QED BY <1>1, <2>1, <2>2, FrontFrame
<1>6. HoldsPart(d, b)
  <2>1. RingHolds(rx_descriptors, user_rx_desc, fifo_rx_desc, n, t)
    BY DEF RingInv
  <2> QED BY <1>1, <1>5, <2>1, FirstHolds
<1>7. CopyAt(rd, b) /\ rd.i + n <= RxNum
  BY <1>1 DEF ReadersInv
<1>8. /\ Complete(d) <=> LastPart(b)
      /\ LastPart(b) => d.cnt = Traffic[b.f] /\ d.timestamp > b.f
      /\ d.data_count = RxSize
  BY <1>6 DEF HoldsPart, Complete
<1>9. PICK V : /\ V \in {Traffic[b.f], Traffic[b.f] - StatusBytes} /\ Wanted(b.f, V)
               /\ rd.filled = MinOf(b.from, V) /\ rd.valid = V - rd.filled
               /\ rd.bytes = Traffic[b.f] - b.from
  BY <1>7 DEF CopyAt
<1>10. Traffic[b.f] \in Nat /\ b.from < Traffic[b.f] /\ V \in Nat /\ V <= Traffic[b.f]
  <2>1. Traffic[b.f] \in Nat /\ Traffic[b.f] >= 2 /\ b.from < Traffic[b.f]
    BY <1>5, FrameWords DEF IsPart
  <2> QED BY <1>9, <2>1 DEF StatusBytes
<1>11. planned = IF Traffic[b.f] - b.from <= RxSize THEN Traffic[b.f] - rd.filled ELSE RxSize
  BY <1>8 DEF planned_move_size, LastPart
<1>12. tail = IF left = 0 /\ settings.append_timestamp THEN << <<time, 0>> >> ELSE <<>>
  OBVIOUS
<1>13. /\ pc = "next" <=> left = 0
       /\ left # 0 /\ rd.i + 1 # RxNum => pc = "copy"
  OBVIOUS
<1>14. LastPart(b) => time = d.timestamp
  BY <1>2, <1>8 DEF Empty
<1>15. ~LastPart(b) => rd.i + 1 # RxNum
  <2>1. SUFFICES ASSUME ~LastPart(b)
                 PROVE  rd.i + 1 # RxNum
    OBVIOUS
  <2>2. k # 0 /\ k \in Nat
    BY <1>5, <2>1, RingFacts
  <2>3. n \in Nat /\ n > 1
    BY <1>5, <2>2
  <2> HIDE DEF rd
  <2> QED BY <1>2, <1>7, <2>3, RingFacts
<1>16. real = MinOf(planned, rd.valid) /\ left = IF planned > rd.bytes THEN 0 ELSE rd.bytes - planned
  OBVIOUS
<1> HIDE DEF planned, real, left, stamp, time, pc, tail, rd, d, b
<1>17. /\ real \in Nat /\ real <= RxSize /\ real <= Traffic[b.f] - b.from
       /\ real > 0 => rd.filled = b.from
       /\ Traffic[b.f] - b.from <= RxSize => left = 0 /\ rd.filled + real = V
       /\ ~(Traffic[b.f] - b.from <= RxSize) =>
            /\ left # 0 /\ left = Traffic[b.f] - (b.from + RxSize)
            /\ rd.filled + real = MinOf(b.from + RxSize, V)
       /\ rd.valid - real = V - (rd.filled + real)
  <2>1. CopySums(Traffic[b.f], b.from, V, rd.filled, rd.valid, rd.bytes, planned, real, left)
    BY <1>2, <1>9, <1>10, <1>11, <1>16 DEF CopySums
  <2> QED BY <2>1, CopyNumbers
<1>18. LastPart(b) <=> left = 0
  BY <1>17 DEF LastPart
<1>19. tail = IF LastPart(b) /\ settings.append_timestamp THEN << <<d.timestamp, 0>> >> ELSE <<>>
  BY <1>12, <1>14, <1>18
<1>20. PICK x : x = reader'[r]
  OBVIOUS
<1>21. CopyStep(rd, x, d, b)
  <2>1. /\ x.filled = rd.filled + real /\ x.valid = V - x.filled /\ x.i = rd.i + 1
        /\ x.out = (rd.out \o CopyOut(d, real)) \o tail
    BY <1>3, <1>17, <1>20
  <2>2. LastPart(b) => x.pc = "next" /\ x.filled = V
    BY <1>3, <1>13, <1>17, <1>18, <1>20, <2>1 DEF LastPart
  <2>3. ~LastPart(b) => /\ x.pc = "copy" /\ x.filled = MinOf(b.from + RxSize, V)
                        /\ x.bytes = Traffic[b.f] - (b.from + RxSize)
    BY <1>3, <1>13, <1>15, <1>17, <1>18, <1>20, <2>1 DEF LastPart
  <2> QED BY <1>9, <1>10, <1>17, <1>19, <2>1, <2>2, <2>3 DEF CopyStep
<1> QED BY <1>5, <1>6, <1>20, <1>21 DEF rd, d, b

\* A copy that goes on is at the part behind the one just copied.
LEMMA CopyGoesOn ==
  ASSUME NEW rd, NEW x, NEW d, NEW b \in Part, CopyStep(rd, x, d, b), ~LastPart(b)
  PROVE  CopyAt(x, AfterPart(b))
<1>1. AfterPart(b).f = b.f /\ AfterPart(b).from = b.from + RxSize
  BY PartFacts
<1>2. PICK V, real \in Nat :
        /\ Wanted(b.f, V) /\ V \in {Traffic[b.f], Traffic[b.f] - StatusBytes}
        /\ x.valid = V - x.filled
        /\ x.filled = MinOf(b.from + RxSize, V)
        /\ x.bytes = Traffic[b.f] - (b.from + RxSize)
  BY DEF CopyStep
<1> QED BY <1>1, <1>2 DEF CopyAt

\* A descriptor is copied and released: the front of the ring moves to the next part.
LEMMA CopyFrame ==
  ASSUME NEW W, NEW b, FrameInv(W, b), IndInv, SettingsStay, NEW r \in Readers, ReadFrameDesc(r)
  PROVE  /\ FrameInv(W, AfterPart(b))' /\ b \in Part /\ IsPart(b)
         /\ HoldsPart(rx_descriptors[user_rx_desc], b)
         /\ CopyStep(reader[r], reader'[r], rx_descriptors[user_rx_desc], b)
         /\ purge.pc \notin {"queues", "drain"}
<1>1. PICK n \in 0..RxNum, t \in [0..RxNum -> Part], tip \in [f : Nat \ {0}, k : Nat] :
        /\ t[0] = b
        /\ RingInv(n, t)
        /\ FifoInv(W, t[n].f, tip)
        /\ TipInv(t[n].f, n, t, tip)
        /\ ReadersInv(n, b)
  BY DEF FrameInv
<1>2. /\ n # 0 /\ IsPart(b) /\ HoldsPart(rx_descriptors[user_rx_desc], b) /\ b \in Part
      /\ CopyStep(reader[r], reader'[r], rx_descriptors[user_rx_desc], b)
  BY <1>1, CopyIsStep, RingFacts
<1>3. purge.pc \notin {"queues", "drain"}
  BY <1>1, <1>2 DEF TipInv
<1> DEFINE s == Shifted(t, n)
           d == ReleaseDesc(rx_descriptors[user_rx_desc])
           m == n - 1
<1>4. /\ m \in 0..RxNum /\ s \in [0..RxNum -> Part] /\ Chain(s, m)
      /\ s[0] = AfterPart(b) /\ s[m] = t[n] /\ Behind(s, t, n)
  BY <1>1, <1>2, ChainShrinks DEF RingInv, Behind
<1>5. /\ rx_descriptors' = Put(rx_descriptors, user_rx_desc, d)
      /\ user_rx_desc' = NextDesc(user_rx_desc) /\ fifo_rx_desc' = fifo_rx_desc
      /\ UNCHANGED <<rx_bytes_in_frame, rx_frame_size, rxfifo, bcfifo, line, recd, iframe, purge,
                     purged>>
      /\ reader[r].pc = "copy"
  BY DEF ReadFrameDesc, device, ioctl, Put
<1>6. OpenDesc(d) /\ d.cnt = 0
  <2>1. rx_descriptors[user_rx_desc] \in Desc /\ rx_descriptors[user_rx_desc].data_count = RxSize
    BY <1>2, DeviceTypes DEF HoldsPart
  <2> QED BY <2>1, ReleasedOpen
<1> HIDE DEF s, d, m
<1>7. /\ RingHolds(rx_descriptors, user_rx_desc, fifo_rx_desc, n, t)
      /\ Filling(rx_descriptors, fifo_rx_desc, n, t[n], rx_bytes_in_frame)
      /\ rx_descriptors \in [Ring -> Desc] /\ user_rx_desc \in Ring
  BY <1>1, DeviceTypes DEF RingInv
<1>8. PICK ds, u, f : ds = rx_descriptors' /\ u = user_rx_desc' /\ f = fifo_rx_desc
  OBVIOUS
<1>9. RingHolds(ds, u, f, m, s)
  <2>1. RingHolds(Put(rx_descriptors, user_rx_desc, d), NextDesc(user_rx_desc), fifo_rx_desc,
                  n - 1, s)
    BY <1>2, <1>4, <1>6, <1>7, RingShrinks
  <2> QED BY <1>5, <1>8, <2>1 DEF m
<1>10. Filling(ds, f, m, s[m], rx_bytes_in_frame)
  <2>1. /\ n = RxNum => ds[f].cnt = 0
        /\ n # RxNum => ds[f] = rx_descriptors[f]
    <3>1. /\ n = RxNum => Put(rx_descriptors, user_rx_desc, d)[fifo_rx_desc].cnt = 0
          /\ n # RxNum => Put(rx_descriptors, user_rx_desc, d)[fifo_rx_desc]
                           = rx_descriptors[fifo_rx_desc]
      <4>1. fifo_rx_desc = RingPos(user_rx_desc, n)
        BY <1>7 DEF RingHolds
      <4> QED BY <1>2, <1>6, <1>7, <4>1, TipKept
    <3> QED BY <1>5, <1>8, <3>1
  <2>2. m < RxNum
    BY <1>2, RingFacts DEF m
  <2>3. CASE n = RxNum
    <3>1. rx_bytes_in_frame = t[n].from
      BY <1>7, <2>3, RingFacts DEF Filling
    <3>2. ds[f].cnt = 0
      BY <2>1, <2>3
    <3>3. BytesOf(ds[f].buffer, t[n], 0)
      BY DEF BytesOf
    <3>4. t[n].from = t[n].from + 0 /\ 0 < RxSize /\ 0 % 4 = 0
      <4>1. t[n].from \in Nat
        BY <1>1, PartFacts
      <4> QED BY <4>1, RingAssumption
    <3> QED BY <1>4, <2>2, <3>1, <3>2, <3>3, <3>4 DEF Filling
  <2>4. CASE n # RxNum
    <3>1. n < RxNum
      BY <2>4, RingFacts
    <3> QED BY <1>4, <1>7, <1>8, <2>1, <2>2, <2>4, <3>1 DEF Filling
  <2> QED BY <2>3, <2>4
<1>11. RingInv(m, s)'
  <2>1. ds = rx_descriptors' /\ u = user_rx_desc' /\ f = fifo_rx_desc' /\ rx_bytes_in_frame' = rx_bytes_in_frame
    BY <1>5, <1>8
  <2> QED BY <1>4, <1>9, <1>10, <2>1 DEF RingInv
<1>12. FifoInv(W, s[m].f, tip)'
  BY <1>1, <1>4, <1>5 DEF FifoInv
<1>13. TipInv(s[m].f, m, s, tip)'
  BY <1>1, <1>3, <1>4, <1>5 DEF TipInv
<1>14. ReadersInv(m, AfterPart(b))'
  <2>1. PICK x : x = reader'[r]
    OBVIOUS
  <2>2. /\ LastPart(b) => x.pc = "next"
        /\ ~LastPart(b) => x.pc = "copy"
        /\ x.i = reader[r].i + 1
    BY <1>2, <2>1 DEF CopyStep
  <2>3. ~LastPart(b) => CopyAt(x, AfterPart(b))'
    <3>1. SUFFICES ASSUME ~LastPart(b)
                   PROVE  CopyAt(x, AfterPart(b))'
      OBVIOUS
    <3>2. CopyAt(x, AfterPart(b))
      BY <1>2, <2>1, <3>1, CopyGoesOn
    <3>3. PICK c : c = AfterPart(b)
      OBVIOUS
    <3>4. CopyAt(x, c)
      BY <3>2, <3>3
    <3>5. CopyAt(x, c)'
      BY <3>4 DEF CopyAt, Wanted, SettingsStay
    <3> QED BY <3>3, <3>5
  <2>4. x.i + m <= RxNum
    <3>1. reader[r].i + n <= RxNum
      BY <1>1, <1>5 DEF ReadersInv
    <3>2. reader[r].i \in 0..RxNum
      BY ReaderFacts, ReaderFields
    <3> QED BY <2>2, <3>1, <3>2, RingFacts DEF m
  <2>5. \A q \in Readers \ {r} : reader'[q].pc \notin {"copy", "next", "stream"}
    <3>1. board_rx_spinlock = r
      BY <1>5 DEF IndInv, LockOwnership
    <3>2. \A q \in Readers \ {r} : reader[q].pc \notin {"copy", "next", "stream", "done"}
      BY <3>1, OthersIdle
    <3>3. \A q \in Readers \ {r} : reader'[q] = reader[q]
      BY OthersStay DEF ReaderStep, Copying
    <3> QED BY <3>2, <3>3
  <2>6. purged' < AfterPart(b).f
    <3>1. purged < b.f /\ purged \in Nat /\ b.f \in Nat
      BY <1>1, <1>2, PartFacts DEF ReadersInv, IndInv, TypeOK, TypeIoctl
    <3>2. b.f <= AfterPart(b).f /\ AfterPart(b).f \in Nat
      BY <1>2, PartFacts
    <3> QED BY <1>5, <3>1, <3>2
  <2>7. AfterPart(b).from # 0 => ~LastPart(b)
    BY <1>2, PartFacts
  <2>8. ASSUME NEW q \in Readers
        PROVE  /\ reader'[q].pc # "stream"
               /\ reader'[q].pc = "copy" => CopyAt(reader[q], AfterPart(b))'
               /\ reader'[q].pc \in {"copy", "next"} => reader'[q].i + m <= RxNum
    <3>1. CASE q = r
      BY <2>1, <2>2, <2>3, <2>4, <3>1
    <3>2. CASE q # r
      BY <2>5, <3>2
    <3> QED BY <3>1, <3>2
  <2> QED BY <2>1, <2>2, <2>6, <2>7, <2>8 DEF ReadersInv
<1>15. PICK c : c = AfterPart(b)
  OBVIOUS
<1>16. FrameInv(W, c)'
  BY <1>4, <1>11, <1>12, <1>13, <1>14, <1>15 DEF FrameInv
<1> QED BY <1>2, <1>3, <1>15, <1>16

-----------------------------------------------------------------------------
(* What is returned: facts about sequences of items.                       *)

\* Nothing was copied yet.
LEMMA NothingOut ==
  ASSUME NEW p, NEW f
  PROVE  InLine(<<>>, p, f)
<1>1. Len(<<>>) = 0 /\ <<>> \in Seq(Byte)
  BY EmptySeq
<1>2. (\A x : x \notin 1..0) /\ (\A x : x \notin 2..0)
  OBVIOUS
<1> QED BY <1>1, <1>2 DEF InLine, Dated, Since, UpTo, Rising

\* Nothing is whole frames, and comes before and after everything.
LEMMA NothingJoined ==
  /\ \A cuts, stamps : Joined(<<>>, cuts, stamps) /\ Closed(<<>>, cuts, stamps)
  /\ \A b : Before(<<>>, b) /\ Before(b, <<>>)
<1>1. Len(<<>>) = 0 /\ ~(Len(<<>>) > 0)
  BY EmptySeq
<1>2. (\A x : x \notin 1..0) /\ (\A x : x \notin 1..(0 - 1))
  OBVIOUS
<1> QED BY <1>1, <1>2 DEF Joined, Closed, Before

\* Later frames may come as well.
LEMMA UpToMore ==
  ASSUME NEW out, NEW p, NEW f \in Int, NEW g \in Int, f <= g, InLine(out, p, f)
  PROVE  InLine(out, p, g)
<1>1. ASSUME NEW j \in 1..Len(out), out[j][2] > 0
      PROVE  out[j][1] <= g
  <2>1. out[j] \in Byte /\ out[j][1] <= f
    BY <1>1, ElementOfSeq DEF InLine, UpTo
  <2>2. out[j][1] \in Nat
    BY <2>1 DEF Byte
  <2> QED BY <2>1, <2>2
<1> QED BY <1>1 DEF InLine, UpTo

\* The frames that the front of the ring is behind.
LEMMA CopiedType ==
  ASSUME NEW b \in Part
  PROVE  /\ Copied(b) \in Nat /\ Copied(b) <= b.f /\ b.f - 1 <= Copied(b) /\ b.f - 1 \in Nat
         /\ b.from = 0 => Copied(b) = b.f - 1
         /\ b.from # 0 => Copied(b) = b.f
         /\ Copied(AfterPart(b)) = b.f
<1>1. b.f \in Nat /\ b.f # 0 /\ b.from \in Nat
  BY PartFacts
<1>2. Copied(AfterPart(b)) = b.f
  <2>1. RxSize \in Nat /\ RxSize # 0
    BY RingAssumption
  <2>2. b.from + RxSize # 0
    BY <1>1, <2>1
  <2>3. (b.f + 1) - 1 = b.f
    BY <1>1
  <2> QED BY <2>2, <2>3, PartFacts DEF Copied
<1> QED BY <1>1, <1>2 DEF Copied

-----------------------------------------------------------------------------
(* Steps that copy nothing.                                                *)

\* The readers have copied the same, and are at the same place where it matters.
SameOut(rds2, rds, b) ==
  \A r \in Readers :
    /\ rds2[r].out = rds[r].out
    /\ rds2[r].pc \notin Active => rds[r].pc \notin Active
    /\ rds2[r].pc \in Active => rds2[r] = rds[r] \/ b.from = 0

\* What one reader has copied stays in order when it copies nothing.
LEMMA ReaderSame ==
  ASSUME NEW rd, NEW rd2, NEW b, NEW p, NEW cuts, NEW stamps, ReaderOut(rd, b, p, cuts, stamps),
         rd2.out = rd.out, rd2.pc \notin Active => rd.pc \notin Active,
         rd2.pc \in Active => rd2 = rd \/ b.from = 0
  PROVE  ReaderOut(rd2, b, p, cuts, stamps)
<1>1. CASE rd2.pc \notin Active
  BY <1>1 DEF ReaderOut
<1>2. CASE rd2.pc \in Active /\ rd2 = rd
  BY <1>2
<1>3. CASE rd2.pc \in Active /\ b.from = 0
  <2>1. CASE rd.pc \in Active
    BY <1>3, <2>1 DEF ReaderOut, CopiedOut
  <2>2. CASE rd.pc \notin Active
    <3>1. rd2.out = <<>>
      BY <2>2 DEF ReaderOut
    <3> QED BY <1>3, <3>1, NothingOut, NothingJoined DEF ReaderOut, CopiedOut
  <2> QED BY <2>1, <2>2
<1> QED BY <1>1, <1>2, <1>3

\* Nothing is copied or completed.
LEMMA SameKept ==
  ASSUME NEW rds, NEW rds2, NEW done, NEW b, NEW p, NEW cuts, NEW stamps,
         OutOf(rds, done, p, b, cuts, stamps), SameOut(rds2, rds, b)
  PROVE  OutOf(rds2, done, p, b, cuts, stamps)
<1>1. ASSUME NEW r \in Readers
      PROVE  ReaderOut(rds2[r], b, p, cuts, stamps)
  BY ReaderSame DEF OutOf, SameOut
<1> QED BY <1>1 DEF OutOf, SameOut

\* Nothing that was copied gets lost.
LEMMA SameGap ==
  ASSUME NEW rds, NEW rds2, NEW done, NEW b, NoGap(rds, done, b), SameOut(rds2, rds, b)
  PROVE  NoGap(rds2, done, b)
BY DEF NoGap, SameOut

\* The ring was reset: everything that comes is of later frames.
LEMMA JumpKept ==
  ASSUME NEW rds, NEW done, NEW b \in Part, NEW c \in Part, NEW p, NEW p2, NEW cuts, NEW stamps,
         OutOf(rds, done, p, b, cuts, stamps), b.f <= c.f,
         \A r \in Readers : rds[r].pc \notin Active
  PROVE  OutOf(rds, done, p2, c, cuts, stamps)
<1>1. ASSUME NEW i \in 1..Len(done)
      PROVE  Returned(done[i], c, cuts, stamps)
  <2>1. Returned(done[i], b, cuts, stamps)
    BY DEF OutOf
  <2>2. b.f - 1 \in Int /\ c.f - 1 \in Int /\ b.f - 1 <= c.f - 1
    BY PartFacts
  <2> QED BY <2>1, <2>2, UpToMore DEF Returned
<1> QED BY <1>1 DEF OutOf, ReaderOut

-----------------------------------------------------------------------------
(* Requests that are completed with nothing.                               *)

\* Completions q are added, none of which returns anything.
LEMMA EmptiesKept ==
  ASSUME NEW rds, NEW S, NEW done \in Seq(S), NEW q \in Seq(S), NEW b, NEW p, NEW cuts, NEW stamps,
         OutOf(rds, done, p, b, cuts, stamps), \A i \in 1..Len(q) : q[i].out = <<>>
  PROVE  OutOf(rds, done \o q, p, b, cuts, stamps)
<1>1. /\ Len(done \o q) = Len(done) + Len(q) /\ Len(done) \in Nat /\ Len(q) \in Nat
      /\ \A i \in 1..(Len(done) + Len(q)) :
           (done \o q)[i] = IF i <= Len(done) THEN done[i] ELSE q[i - Len(done)]
  BY ConcatProperties, LenProperties
<1>2. ASSUME NEW i \in 1..Len(done \o q)
      PROVE  \/ i \in 1..Len(done) /\ (done \o q)[i] = done[i]
             \/ i \notin 1..Len(done) /\ (done \o q)[i].out = <<>>
  <2>1. CASE i <= Len(done)
    BY <1>1, <2>1
  <2>2. CASE ~(i <= Len(done))
    <3>1. i - Len(done) \in 1..Len(q) /\ i \notin 1..Len(done)
      BY <1>1, <2>2
    <3> QED BY <1>1, <2>2, <3>1
  <2> QED BY <2>1, <2>2
<1> DEFINE h == done \o q
<1> HIDE DEF h
<1>3. \A i \in 1..Len(h) : \/ i \in 1..Len(done) /\ h[i] = done[i]
                           \/ h[i].out = <<>>
  BY <1>2 DEF h
<1>4. ASSUME NEW i \in 1..Len(h)
      PROVE  Returned(h[i], b, cuts, stamps)
  BY <1>3, NothingOut, NothingJoined DEF OutOf, Returned
<1>5. ASSUME NEW i \in 1..Len(h), NEW k \in 1..Len(h), i < k
      PROVE  Before(h[i].out, h[k].out)
  BY <1>3, <1>5, NothingJoined DEF OutOf
<1>6. ASSUME NEW i \in 1..Len(h), NEW r \in Readers
      PROVE  Before(h[i].out, rds[r].out)
  BY <1>3, NothingJoined DEF OutOf
<1> QED BY <1>4, <1>5, <1>6 DEF OutOf, h

\* The frames that were there are still there.
LEMMA EmptiesGap ==
  ASSUME NEW rds, NEW S, NEW done \in Seq(S), NEW q \in Seq(S), NEW b, NoGap(rds, done, b)
  PROVE  NoGap(rds, done \o q, b)
<1>1. /\ Len(done \o q) = Len(done) + Len(q) /\ Len(done) \in Nat /\ Len(q) \in Nat
      /\ \A i \in 1..Len(done) : (done \o q)[i] = done[i]
  BY ConcatProperties, LenProperties
<1>2. \A i \in 1..Len(done) : i \in 1..Len(done \o q)
  BY <1>1
<1> DEFINE h == done \o q
<1> HIDE DEF h
<1>3. \A i \in 1..Len(done) : i \in 1..Len(h) /\ h[i] = done[i]
  BY <1>1, <1>2 DEF h
<1> QED BY <1>3 DEF NoGap, h

-----------------------------------------------------------------------------
(* A request that is completed with what was copied for it.                *)

\* Completion c has what reader r copied, and the others have copied nothing.
HandedOver(rds2, rds, r, c, p) ==
  /\ rds[r].pc = "done" /\ c.out = rds[r].out /\ c.purged = p
  /\ rds2[r].pc \notin Active /\ rds2[r].out = <<>>
  /\ \A q \in Readers \ {r} : rds2[q] = rds[q] /\ rds[q].pc \notin Active

\* A request is completed, and what was returned stays in order.
LEMMA CompleteKept ==
  ASSUME NEW rds, NEW rds2, NEW S, NEW done \in Seq(S), NEW c \in S, NEW b \in Part, NEW p,
         NEW cuts, NEW stamps, OutOf(rds, done, p, b, cuts, stamps), b.from = 0,
         NEW r \in Readers, HandedOver(rds2, rds, r, c, p)
  PROVE  OutOf(rds2, Append(done, c), p, b, cuts, stamps)
<1>1. /\ Len(Append(done, c)) = Len(done) + 1 /\ Len(done) \in Nat
      /\ \A i \in 1..Len(done) : Append(done, c)[i] = done[i]
      /\ Append(done, c)[Len(done) + 1] = c
  BY AppendProperties, LenProperties
<1> DEFINE h == Append(done, c)
<1> HIDE DEF h
<1>2. ASSUME NEW i \in 1..Len(h)
      PROVE  \/ i \in 1..Len(done) /\ h[i] = done[i]
             \/ i = Len(h) /\ h[i] = c
  <2>1. i \in 1..Len(done) \/ i = Len(done) + 1
    BY <1>1 DEF h
  <2> QED BY <1>1, <2>1 DEF h
<1>3. Returned(c, b, cuts, stamps)
  <2>1. CopiedOut(rds[r], b, p, cuts, stamps)
    BY DEF OutOf, ReaderOut, HandedOver, Active
  <2>2. InLine(c.out, p, b.f - 1)
    BY <2>1, CopiedType DEF CopiedOut, HandedOver
  <2>3. NoEmpty => Joined(c.out, cuts, stamps) /\ Closed(c.out, cuts, stamps)
    BY <2>1 DEF CopiedOut, HandedOver
  <2> QED BY <2>2, <2>3 DEF Returned, HandedOver
<1>4. ASSUME NEW q \in Readers
      PROVE  rds2[q].out = <<>> /\ rds2[q].pc \notin Active
  <2>1. CASE q = r
    BY <2>1 DEF HandedOver
  <2>2. CASE q # r
    <3>1. rds2[q] = rds[q] /\ rds[q].pc \notin Active /\ ReaderOut(rds[q], b, p, cuts, stamps)
      BY <2>2 DEF HandedOver, OutOf
    <3> QED BY <3>1 DEF ReaderOut
  <2> QED BY <2>1, <2>2
<1>5. ASSUME NEW i \in 1..Len(h)
      PROVE  Returned(h[i], b, cuts, stamps)
  BY <1>2, <1>3 DEF OutOf
<1>6. ASSUME NEW i \in 1..Len(h), NEW k \in 1..Len(h), i < k
      PROVE  Before(h[i].out, h[k].out)
  <2>1. i \in 1..Len(done) /\ h[i] = done[i]
    <3>1. i # Len(h)
      BY <1>1, <1>6 DEF h
    <3> QED BY <1>2, <3>1
  <2>2. CASE k \in 1..Len(done) /\ h[k] = done[k]
    BY <1>6, <2>1, <2>2 DEF OutOf
  <2>3. CASE h[k] = c
    <3>1. Before(done[i].out, rds[r].out)
      BY <2>1 DEF OutOf
    <3> QED BY <2>1, <2>3, <3>1 DEF HandedOver
  <2> QED BY <1>2, <2>2, <2>3
<1>7. ASSUME NEW i \in 1..Len(h), NEW q \in Readers
      PROVE  Before(h[i].out, rds2[q].out)
  BY <1>4, NothingJoined
<1>8. ASSUME NEW q \in Readers
      PROVE  ReaderOut(rds2[q], b, p, cuts, stamps)
  BY <1>4 DEF ReaderOut
<1> QED BY <1>5, <1>6, <1>7, <1>8 DEF OutOf, h

\* What was copied for a request is in its completion.
LEMMA CompleteGap ==
  ASSUME NEW rds, NEW rds2, NEW S, NEW done \in Seq(S), NEW c \in S, NEW b, NEW p,
         NoGap(rds, done, b), NEW r \in Readers, HandedOver(rds2, rds, r, c, p)
  PROVE  NoGap(rds2, Append(done, c), b)
<1>1. /\ Len(Append(done, c)) = Len(done) + 1 /\ Len(done) \in Nat
      /\ \A i \in 1..Len(done) : Append(done, c)[i] = done[i]
      /\ Append(done, c)[Len(done) + 1] = c
  BY AppendProperties, LenProperties
<1> DEFINE h == Append(done, c)
<1>2. /\ \A i \in 1..Len(done) : i \in 1..Len(h) /\ h[i] = done[i]
      /\ Len(done) + 1 \in 1..Len(h) /\ h[Len(done) + 1] = c
  BY <1>1
<1> HIDE DEF h
<1>3. ASSUME NEW f \in 1..Copied(b)
      PROVE  \/ \E i \in 1..Len(h) : Starts(h[i].out, f)
             \/ \E q \in Readers : Starts(rds2[q].out, f)
  <2>1. CASE \E i \in 1..Len(done) : Starts(done[i].out, f)
    BY <1>2, <2>1
  <2>2. ASSUME NEW q \in Readers, Starts(rds[q].out, f)
        PROVE  \/ \E i \in 1..Len(h) : Starts(h[i].out, f)
               \/ \E x \in Readers : Starts(rds2[x].out, f)
    <3>1. CASE q = r
      <4>1. Starts(c.out, f)
        BY <2>2, <3>1 DEF HandedOver
      <4> QED BY <1>2, <4>1
    <3>2. CASE q # r
      <4>1. rds2[q] = rds[q]
        BY <3>2 DEF HandedOver
      <4> QED BY <2>2, <4>1
    <3> QED BY <3>1, <3>2
  <2> QED BY <2>1, <2>2 DEF NoGap
<1> QED BY <1>3 DEF NoGap, h

-----------------------------------------------------------------------------
(* A part that is copied.                                                  *)

\* q is "real" bytes of frame f behind the first "from".
BytesAt(q, f, from, real) ==
  /\ q \in Seq(Byte) /\ Len(q) = real /\ real \in Nat
  /\ \A i \in 1..real : q[i] = <<f, from + i>>

\* The items of two sequences one after the other.
LEMMA ConcatItems ==
  ASSUME NEW out \in Seq(Byte), NEW q \in Seq(Byte)
  PROVE  /\ out \o q \in Seq(Byte) /\ Len(out \o q) = Len(out) + Len(q)
         /\ Len(out) \in Nat /\ Len(q) \in Nat
         /\ \A j \in 1..Len(out) : (out \o q)[j] = out[j] /\ j \in 1..Len(out \o q)
         /\ \A j \in 1..Len(out \o q) :
              j \notin 1..Len(out) => /\ j - Len(out) \in 1..Len(q)
                                      /\ (out \o q)[j] = q[j - Len(out)]
                                      /\ j > Len(out)
<1>1. /\ out \o q \in Seq(Byte) /\ Len(out \o q) = Len(out) + Len(q)
      /\ Len(out) \in Nat /\ Len(q) \in Nat
      /\ \A i \in 1..(Len(out) + Len(q)) :
           (out \o q)[i] = IF i <= Len(out) THEN out[i] ELSE q[i - Len(out)]
  BY ConcatProperties, LenProperties
<1>2. ASSUME NEW j \in 1..Len(out)
      PROVE  (out \o q)[j] = out[j] /\ j \in 1..Len(out \o q)
  BY <1>1
<1>3. ASSUME NEW j \in 1..Len(out \o q), j \notin 1..Len(out)
      PROVE  j - Len(out) \in 1..Len(q) /\ (out \o q)[j] = q[j - Len(out)] /\ j > Len(out)
  <2>1. j > Len(out) /\ j - Len(out) \in 1..Len(q) /\ j \in 1..(Len(out) + Len(q))
    BY <1>1, <1>3
  <2>2. ~(j <= Len(out))
    BY <1>1, <2>1
  <2> QED BY <1>1, <2>1, <2>2
<1> QED BY <1>1, <1>2, <1>3

\* The bytes of part b come after what was copied before.
LEMMA DataInLine ==
  ASSUME NEW b \in Part, NEW p \in Nat, p < b.f, NEW out, InLine(out, p, Copied(b)),
         NEW q, NEW real, BytesAt(q, b.f, b.from, real)
  PROVE  InLine(out \o q, p, b.f)
<1> DEFINE h == out \o q
           n == Len(out)
<1>1. /\ h \in Seq(Byte) /\ n \in Nat /\ Len(q) \in Nat /\ Len(h) = n + Len(q)
      /\ \A j \in 1..n : h[j] = out[j]
      /\ \A j \in 1..Len(h) : j \notin 1..n => /\ j - n \in 1..Len(q) /\ j > n
                                               /\ h[j] = q[j - n]
  BY ConcatItems DEF InLine, BytesAt
<1> HIDE DEF h, n
<1>2. /\ b.f \in Nat /\ b.f # 0 /\ b.from \in Nat
      /\ Copied(b) \in Nat /\ Copied(b) <= b.f
      /\ b.from = 0 => Copied(b) = b.f - 1
  BY PartFacts, CopiedType
<1>3. ASSUME NEW j \in 1..Len(h), j \notin 1..n
      PROVE  /\ h[j] = <<b.f, b.from + (j - n)>> /\ h[j][1] = b.f /\ h[j][2] = b.from + (j - n)
             /\ j > n /\ j \in Nat
  <2>1. j - n \in 1..real
    BY <1>1, <1>3 DEF BytesAt
  <2>2. h[j] = <<b.f, b.from + (j - n)>>
    BY <1>1, <1>3, <2>1 DEF BytesAt
  <2> QED BY <1>1, <1>3, <2>2
<1>4. ASSUME NEW j \in 1..n
      PROVE  h[j] = out[j] /\ h[j][1] \in Nat /\ h[j][2] \in Nat
  <2>1. out[j] \in Byte
    BY ElementOfSeq DEF InLine, n
  <2> QED BY <1>1, <2>1 DEF Byte
<1>5. Dated(h)
  <2>1. ASSUME NEW j \in 2..Len(h), h[j][2] = 0, h[j - 1][2] > 0
        PROVE  h[j][1] > h[j - 1][1]
    <3>1. j \in 1..Len(h) /\ j \in 2..Len(h) /\ j - 1 \in Nat
      BY <1>1
    <3>2. j \in 1..n
      <4>1. CASE j \notin 1..n
        <5>1. h[j][2] = b.from + (j - n) /\ j > n
          BY <1>3, <3>1, <4>1
        <5> QED BY <1>1, <1>2, <2>1, <3>1, <5>1
      <4> QED BY <4>1
    <3>3. j \in 2..n /\ j - 1 \in 1..n
      BY <1>1, <3>1, <3>2
    <3>4. h[j] = out[j] /\ h[j - 1] = out[j - 1]
      BY <1>4, <3>2, <3>3
    <3> QED BY <2>1, <3>3, <3>4 DEF InLine, Dated, n
  <2> QED BY <2>1 DEF Dated
<1>6. Since(h, p) /\ UpTo(h, b.f)
  <2>1. ASSUME NEW j \in 1..Len(h)
        PROVE  h[j][1] > p /\ (h[j][2] > 0 => h[j][1] <= b.f)
    <3>1. CASE j \in 1..n
      <4>1. h[j][1] > p /\ (h[j][2] > 0 => h[j][1] <= Copied(b))
        BY <1>4, <3>1 DEF InLine, Since, UpTo, n
      <4> QED BY <1>2, <1>4, <3>1, <4>1
    <3>2. CASE j \notin 1..n
      BY <1>2, <1>3, <3>2
    <3> QED BY <3>1, <3>2
  <2> QED BY <2>1 DEF Since, UpTo
<1>7. Rising(h)
  <2>1. ASSUME NEW j \in 1..Len(h), NEW k \in 1..Len(h), j < k, h[j][2] = 1, h[k][2] = 1
        PROVE  h[j][1] < h[k][1]
    <3>1. CASE k \in 1..n
      <4>1. j \in 1..n
        BY <1>1, <2>1, <3>1
      <4>2. h[j] = out[j] /\ h[k] = out[k]
        BY <1>4, <3>1, <4>1
      <4> QED BY <2>1, <3>1, <4>1, <4>2 DEF InLine, Rising, n
    <3>2. CASE k \notin 1..n
      <4>1. h[k][1] = b.f /\ 1 = b.from + (k - n) /\ k > n /\ k \in Nat
        BY <1>3, <2>1, <3>2
      <4>2. b.from = 0 /\ k = n + 1
        BY <1>1, <1>2, <4>1
      <4>3. j \in 1..n
        BY <1>1, <2>1, <4>2
      <4>4. h[j] = out[j] /\ h[j][1] \in Nat
        BY <1>4, <4>3
      <4>5. h[j][1] <= Copied(b)
        <5>1. out[j][2] > 0
          BY <2>1, <4>4
        <5> QED BY <4>3, <4>4, <5>1 DEF InLine, UpTo, n
      <4> QED BY <1>2, <4>1, <4>2, <4>4, <4>5
    <3> QED BY <3>1, <3>2
  <2> QED BY <2>1 DEF Rising
<1> QED BY <1>1, <1>5, <1>6, <1>7 DEF InLine, h

\* A timestamp behind the last frame, later than it.
LEMMA StampInLine ==
  ASSUME NEW p \in Nat, NEW f \in Nat, p < f, NEW out, InLine(out, p, f),
         NEW time \in Nat, time > f
  PROVE  InLine(out \o << <<time, 0>> >>, p, f)
<1> DEFINE q == << <<time, 0>> >>
           h == out \o q
           n == Len(out)
<1>1. q \in Seq(Byte) /\ Len(q) = 1 /\ q[1] = <<time, 0>>
  BY DEF Byte
<1> HIDE DEF q
<1>2. /\ h \in Seq(Byte) /\ n \in Nat /\ Len(h) = n + 1
      /\ \A j \in 1..n : h[j] = out[j]
      /\ \A j \in 1..Len(h) : j \notin 1..n => /\ j - n \in 1..Len(q) /\ j > n
                                               /\ h[j] = q[j - n]
  <2>1. out \in Seq(Byte)
    BY DEF InLine
  <2>2. Len(h) = n + Len(q)
    BY <1>1, <2>1, ConcatItems
  <2>3. Len(h) = n + 1
    BY <1>1, <2>2
  <2> QED BY <1>1, <2>1, <2>3, ConcatItems
<1> HIDE DEF h, n
<1>3. ASSUME NEW j \in 1..Len(h), j \notin 1..n
      PROVE  h[j] = <<time, 0>> /\ h[j][1] = time /\ h[j][2] = 0 /\ j = n + 1
  <2>1. j - n \in 1..Len(q) /\ j > n /\ h[j] = q[j - n]
    BY <1>2, <1>3
  <2>2. j - n = 1 /\ j = n + 1
    BY <1>1, <1>2, <2>1
  <2> QED BY <1>1, <2>1, <2>2
<1>4. ASSUME NEW j \in 1..n
      PROVE  h[j] = out[j] /\ h[j][1] \in Nat /\ h[j][2] \in Nat
  <2>1. out[j] \in Byte
    BY ElementOfSeq DEF InLine, n
  <2> QED BY <1>2, <2>1 DEF Byte
<1>5. Dated(h)
  <2>1. ASSUME NEW j \in 2..Len(h), h[j][2] = 0, h[j - 1][2] > 0
        PROVE  h[j][1] > h[j - 1][1]
    <3>1. j \in 1..Len(h)
      BY <1>2
    <3>2. CASE j \in 1..n
      <4>1. j \in 2..n /\ j - 1 \in 1..n
        BY <1>2, <3>2
      <4>2. h[j] = out[j] /\ h[j - 1] = out[j - 1]
        BY <1>4, <3>2, <4>1
      <4> QED BY <2>1, <4>1, <4>2 DEF InLine, Dated, n
    <3>3. CASE j \notin 1..n
      <4>1. h[j][1] = time /\ j = n + 1
        BY <1>3, <3>1, <3>3
      <4>2. j - 1 \in 1..n
        BY <1>2, <4>1
      <4>3. h[j - 1] = out[j - 1] /\ h[j - 1][1] \in Nat
        BY <1>4, <4>2
      <4>4. h[j - 1][1] <= f
        BY <2>1, <4>2, <4>3 DEF InLine, UpTo, n
      <4> QED BY <4>1, <4>3, <4>4
    <3> QED BY <3>2, <3>3
  <2> QED BY <2>1 DEF Dated
<1>6. Since(h, p) /\ UpTo(h, f)
  <2>1. ASSUME NEW j \in 1..Len(h)
        PROVE  h[j][1] > p /\ (h[j][2] > 0 => h[j][1] <= f)
    <3>1. CASE j \in 1..n
      BY <1>4, <3>1 DEF InLine, Since, UpTo, n
    <3>2. CASE j \notin 1..n
      BY <1>3, <3>2
    <3> QED BY <3>1, <3>2
  <2> QED BY <2>1 DEF Since, UpTo
<1>7. Rising(h)
  <2>1. ASSUME NEW j \in 1..Len(h), NEW k \in 1..Len(h), j < k, h[j][2] = 1, h[k][2] = 1
        PROVE  h[j][1] < h[k][1]
    <3>1. j \in 1..n /\ k \in 1..n
      BY <1>3, <2>1
    <3>2. h[j] = out[j] /\ h[k] = out[k]
      BY <1>4, <3>1
    <3> QED BY <2>1, <3>1, <3>2 DEF InLine, Rising, n
  <2> QED BY <2>1 DEF Rising
<1> QED BY <1>2, <1>5, <1>6, <1>7 DEF InLine, h, q

\* Whether an item closes a frame depends on what is before it only.
LEMMA ClosesKept ==
  ASSUME NEW out \in Seq(Byte), NEW q \in Seq(Byte), NEW cuts, NEW stamps, NEW j \in 1..Len(out)
  PROVE  Closes(out \o q, j, cuts, stamps) <=> Closes(out, j, cuts, stamps)
<1>1. Len(out) \in Nat /\ \A i \in 1..Len(out) : (out \o q)[i] = out[i]
  BY ConcatItems
<1>2. j > 1 => j - 1 \in 1..Len(out)
  BY <1>1
<1>3. (out \o q)[j] = out[j] /\ (j > 1 => (out \o q)[j - 1] = out[j - 1])
  BY <1>1, <1>2
<1> HIDE DEF Ends
<1> QED BY <1>3 DEF Closes

\* Byte after byte.
Stepwise(q) == \A j \in 1..(Len(q) - 1) : q[j][2] > 0 /\ q[j + 1] = <<q[j][1], q[j][2] + 1>>

\* q may come after out.
MayFollow(q, out, cuts, stamps) ==
  /\ Len(out) = 0 => q[1][2] = 1
  /\ Len(out) > 0 =>
       \/ out[Len(out)][2] > 0 /\ q[1] = <<out[Len(out)][1], out[Len(out)][2] + 1>>
       \/ out[Len(out)][2] > 0 /\ Ends(out[Len(out)], cuts) /\ q[1][2] = 0
       \/ Closes(out, Len(out), cuts, stamps) /\ q[1][2] = 1

\* Whole frames, and what may follow them.
LEMMA JoinedGrows ==
  ASSUME NEW out \in Seq(Byte), NEW q \in Seq(Byte), NEW cuts, NEW stamps,
         Joined(out, cuts, stamps), Stepwise(q), Len(q) > 0 => MayFollow(q, out, cuts, stamps)
  PROVE  Joined(out \o q, cuts, stamps)
<1> DEFINE h == out \o q
           n == Len(out)
<1>1. /\ h \in Seq(Byte) /\ n \in Nat /\ Len(q) \in Nat /\ Len(h) = n + Len(q)
      /\ \A j \in 1..n : h[j] = out[j]
      /\ \A j \in 1..Len(h) : j \notin 1..n => /\ j - n \in 1..Len(q) /\ j > n
                                               /\ h[j] = q[j - n]
  BY ConcatItems
<1>2. \A j \in 1..n : Closes(h, j, cuts, stamps) <=> Closes(out, j, cuts, stamps)
  BY ClosesKept
<1> HIDE DEF h, n, Ends, Closes
<1>3. ASSUME Len(h) > 0
      PROVE  h[1][2] = 1
  <2>1. CASE n = 0
    <3>1. Len(q) > 0 /\ 1 \in 1..Len(h) /\ 1 \notin 1..n /\ 1 - n = 1
      BY <1>1, <1>3, <2>1
    <3>2. h[1] = q[1]
      BY <1>1, <3>1
    <3> QED BY <2>1, <3>1, <3>2 DEF n, MayFollow
  <2>2. CASE n # 0
    <3>1. n > 0 /\ 1 \in 1..n
      BY <1>1, <2>2
    <3> QED BY <1>1, <3>1 DEF Joined, n
  <2> QED BY <2>1, <2>2
<1>4. ASSUME NEW j \in 1..(Len(h) - 1)
      PROVE  Follows(h, j, cuts, stamps)
  <2>1. j \in Nat /\ j \in 1..Len(h) /\ j + 1 \in 1..Len(h)
    BY <1>1
  <2>2. CASE j + 1 \in 1..n
    <3>1. j \in 1..(n - 1) /\ j \in 1..n
      BY <1>1, <2>1, <2>2
    <3>2. Follows(out, j, cuts, stamps)
      BY <3>1 DEF Joined, n
    <3>3. h[j] = out[j] /\ h[j + 1] = out[j + 1]
      BY <1>1, <2>2, <3>1
    <3> QED BY <1>2, <3>1, <3>2, <3>3 DEF Follows
  <2>3. CASE j = n
    <3>1. n > 0 /\ j \in 1..n /\ j + 1 \notin 1..n /\ (j + 1) - n = 1 /\ Len(q) > 0
      BY <1>1, <2>1, <2>3
    <3>2. h[j + 1] = q[1] /\ h[j] = out[n]
      <4>1. PICK k : k = j + 1
        OBVIOUS
      <4>2. k \in 1..Len(h) /\ k \notin 1..n
        BY <2>1, <3>1, <4>1
      <4>3. h[k] = q[k - n]
        BY <1>1, <4>2
      <4>4. h[j] = out[j]
        BY <1>1, <3>1
      <4> QED BY <2>3, <3>1, <4>1, <4>3, <4>4
    <3>3. \/ out[n][2] > 0 /\ q[1] = <<out[n][1], out[n][2] + 1>>
          \/ out[n][2] > 0 /\ Ends(out[n], cuts) /\ q[1][2] = 0
          \/ Closes(out, n, cuts, stamps) /\ q[1][2] = 1
      BY <3>1 DEF n, MayFollow
    <3> QED BY <1>2, <2>3, <3>1, <3>2, <3>3 DEF Follows
  <2>4. CASE j > n
    <3>1. j - n \in 1..(Len(q) - 1) /\ (j + 1) - n = (j - n) + 1 /\ j \notin 1..n /\ j + 1 \notin 1..n
      BY <1>1, <2>1, <2>4, SMTT(20)
    <3>2. h[j] = q[j - n] /\ h[j + 1] = q[(j - n) + 1]
      <4>1. PICK k : k = j + 1
        OBVIOUS
      <4>2. k \in 1..Len(h) /\ k \notin 1..n
        BY <2>1, <3>1, <4>1
      <4>3. h[k] = q[k - n]
        BY <1>1, <4>2
      <4>4. h[j] = q[j - n]
        BY <1>1, <2>1, <3>1
      <4> QED BY <3>1, <4>1, <4>3, <4>4
    <3> QED BY <3>1, <3>2 DEF Follows, Stepwise
  <2>5. j + 1 \in 1..n \/ j = n \/ j > n
    BY <1>1, <2>1
  <2> QED BY <2>2, <2>3, <2>4, <2>5
<1> QED BY <1>3, <1>4 DEF Joined, h

\* What is copied out of a descriptor is what it holds of its frame.
LEMMA CopyOutBytes ==
  ASSUME NEW d \in Desc, NEW b \in Part, HoldsPart(d, b), NEW real \in Nat, real <= RxSize,
         real <= Traffic[b.f] - b.from, Traffic[b.f] \in Nat
  PROVE  BytesAt(CopyOut(d, real), b.f, b.from, real)
<1> DEFINE q == CopyOut(d, real)
<1>1. b.f \in Nat /\ b.from \in Nat /\ RxSize \in Nat
  BY PartFacts, RingAssumption
<1>2. real <= MinOf(RxSize, Traffic[b.f] - b.from)
  BY DEF MinOf
<1>3. ASSUME NEW i \in 1..real
      PROVE  q[i] = <<b.f, b.from + i>> /\ q[i] \in Byte
  <2>1. i \in 1..MinOf(RxSize, Traffic[b.f] - b.from) /\ i <= RxSize /\ i \in Nat
    BY <1>1, <1>2 DEF MinOf
  <2>2. d.buffer[i] = <<b.f, b.from + i>>
    BY <2>1 DEF HoldsPart, BytesOf
  <2>3. q[i] = <<b.f, b.from + i>>
    BY <2>1, <2>2 DEF CopyOut
  <2> QED BY <1>1, <2>1, <2>3 DEF Byte
<1>4. q \in Seq(Byte) /\ Len(q) = real
  <2>1. q = [j \in 1..real |-> q[j]]
    BY DEF CopyOut
  <2>2. q \in [1..real -> Byte]
    BY <1>3, <2>1
  <2> QED BY <2>2, FunctionIsSeq
<1> HIDE DEF q
<1> QED BY <1>3, <1>4 DEF BytesAt, q

\* The numbers of what has been copied of a frame of which some byte is returned.
LEMMA CopiedNumbers ==
  ASSUME NEW from \in Nat, NEW V \in Nat, V > 0, NEW filled, filled = MinOf(from, V),
         NEW real \in Nat, NEW filled2, filled2 = filled + real, real > 0 => filled = from,
         filled2 = V \/ filled2 = MinOf(from + RxSize, V)
  PROVE  /\ filled2 \in Nat /\ filled2 > 0
         /\ from = 0 => real > 0
         /\ real > 0 => filled2 = from + real
         /\ real = 0 => from # 0 /\ filled2 = filled
         /\ from # 0 => filled > 0
<1>1. RxSize \in Nat /\ RxSize > 0
  BY RingAssumption
<1>2. filled \in Nat /\ (from = 0 => filled = 0) /\ (from # 0 => filled > 0)
  BY DEF MinOf
<1>3. filled2 > 0
  BY <1>1, <1>2 DEF MinOf
<1> QED BY <1>2, <1>3

\* Part b of which "real" bytes, q, are added to out makes "filled2" of "filled".
Adds(out, q, b, real, filled, filled2, cuts, stamps) ==
  /\ BytesAt(q, b.f, b.from, real)
  /\ filled2 \in Nat /\ filled2 > 0
  /\ b.from = 0 => real > 0
  /\ real > 0 => filled = b.from /\ filled2 = b.from + real
  /\ real = 0 => b.from # 0 /\ filled2 = filled
  /\ b.from # 0 => filled > 0
  /\ IF b.from # 0 THEN Len(out) > 0 /\ out[Len(out)] = <<b.f, filled>>
                   ELSE Closed(out, cuts, stamps)

\* What out has become when q was added to it.
Added(out, q, b, filled2, cuts, stamps) ==
  /\ Joined(out \o q, cuts, stamps)
  /\ Len(out \o q) > 0 /\ (out \o q)[Len(out \o q)] = <<b.f, filled2>>
  /\ b.from = 0 => Starts(out \o q, b.f)

\* The bytes that were copied are joined to what was there.
LEMMA DataJoined ==
  ASSUME NoEmpty, NEW b \in Part, NEW out \in Seq(Byte), NEW cuts, NEW stamps,
         Joined(out, cuts, stamps), NEW filled, NEW filled2, NEW real \in Nat, NEW q,
         Adds(out, q, b, real, filled, filled2, cuts, stamps)
  PROVE  Added(out, q, b, filled2, cuts, stamps)
<1>1. /\ b.f \in Nat /\ b.from \in Nat /\ q \in Seq(Byte) /\ Len(q) = real
      /\ \A i \in 1..real : q[i] = <<b.f, b.from + i>>
  BY PartFacts DEF BytesAt, Adds
<1>2. Stepwise(q)
  <2>1. ASSUME NEW j \in 1..(Len(q) - 1)
        PROVE  q[j][2] > 0 /\ q[j + 1] = <<q[j][1], q[j][2] + 1>>
    <3>1. j \in 1..real /\ j + 1 \in 1..real /\ j \in Nat
      BY <1>1
    <3>2. q[j] = <<b.f, b.from + j>> /\ q[j + 1] = <<b.f, b.from + (j + 1)>>
      BY <1>1, <3>1
    <3>3. b.from + (j + 1) = (b.from + j) + 1 /\ b.from + j > 0
      <4>1. b.from \in Nat /\ j > 0
        BY <1>1, <3>1
      <4> QED BY <3>1, <4>1
    <3>4. q[j][1] = b.f /\ q[j][2] = b.from + j
      BY <3>2
    <3> QED BY <3>2, <3>3, <3>4
  <2> QED BY <2>1 DEF Stepwise
<1>3. ASSUME real > 0
      PROVE  MayFollow(q, out, cuts, stamps)
  <2>1. q[1] = <<b.f, b.from + 1>>
    <3>1. 1 \in 1..real
      BY <1>3
    <3> QED BY <1>1, <3>1
  <2>2. CASE b.from = 0
    <3>1. q[1][2] = 1
      BY <2>1, <2>2
    <3>2. Len(out) > 0 => Closes(out, Len(out), cuts, stamps)
      BY <2>2 DEF Closed, Adds
    <3> QED BY <3>1, <3>2 DEF MayFollow
  <2>3. CASE b.from # 0
    <3>1. Len(out) > 0 /\ out[Len(out)] = <<b.f, b.from>> /\ b.from > 0
      BY <1>1, <1>3, <2>3 DEF Adds
    <3>2. out[Len(out)][1] = b.f /\ out[Len(out)][2] = b.from /\ Len(out) # 0
      BY <3>1
    <3> QED BY <2>1, <3>1, <3>2 DEF MayFollow
  <2> QED BY <2>2, <2>3
<1>4. Joined(out \o q, cuts, stamps)
  <2>1. Len(q) > 0 => MayFollow(q, out, cuts, stamps)
    BY <1>1, <1>3
  <2> QED BY <1>1, <1>2, <2>1, JoinedGrows
<1>5. /\ Len(out \o q) = Len(out) + real /\ Len(out) \in Nat
      /\ \A j \in 1..Len(out) : (out \o q)[j] = out[j]
      /\ \A j \in 1..Len(out \o q) : j \notin 1..Len(out) => (out \o q)[j] = q[j - Len(out)]
  BY <1>1, ConcatItems
<1>6. CASE real > 0
  <2>1. PICK n : n = Len(out) + real
    OBVIOUS
  <2>2. n \in 1..Len(out \o q) /\ n \notin 1..Len(out) /\ n - Len(out) = real /\ real \in 1..real /\ n > 0
    BY <1>5, <1>6, <2>1
  <2>3. (out \o q)[n] = <<b.f, b.from + real>>
    BY <1>1, <1>5, <2>2
  <2>4. ASSUME b.from = 0
        PROVE  Starts(out \o q, b.f)
    <3>1. PICK m : m = Len(out) + 1
      OBVIOUS
    <3>2. m \in 1..Len(out \o q) /\ m \notin 1..Len(out) /\ m - Len(out) = 1 /\ 1 \in 1..real
      BY <1>5, <1>6, <3>1
    <3>3. (out \o q)[m] = <<b.f, 0 + 1>>
      BY <1>1, <1>5, <2>4, <3>2
    <3> QED BY <3>2, <3>3 DEF Starts
  <2>5. filled2 = b.from + real
    BY <1>6 DEF Adds
  <2> QED BY <1>4, <1>5, <1>6, <2>1, <2>2, <2>3, <2>4, <2>5 DEF Added
<1>7. CASE real = 0
  <2>1. Len(out \o q) = Len(out) /\ Len(out) > 0 /\ Len(out) \in 1..Len(out)
        /\ b.from # 0 /\ out[Len(out)] = <<b.f, filled2>>
    BY <1>5, <1>7 DEF Adds
  <2>2. (out \o q)[Len(out)] = out[Len(out)]
    BY <1>5, <2>1
  <2> QED BY <1>4, <2>1, <2>2 DEF Added
<1> QED BY <1>6, <1>7

\* A timestamp closes the frame whose last byte is before it.
LEMMA StampJoined ==
  ASSUME NEW out \in Seq(Byte), NEW cuts, NEW stamps, Joined(out, cuts, stamps), Len(out) > 0,
         out[Len(out)][2] > 0, Ends(out[Len(out)], cuts), NEW time \in Nat
  PROVE  /\ Joined(out \o << <<time, 0>> >>, cuts, stamps)
         /\ 1 \in stamps => Closed(out \o << <<time, 0>> >>, cuts, stamps)
<1> DEFINE q == << <<time, 0>> >>
<1>1. q \in Seq(Byte) /\ Len(q) = 1 /\ q[1] = <<time, 0>> /\ q[1][2] = 0
  BY DEF Byte
<1> HIDE DEF q, Ends
<1>2. Stepwise(q)
  <2>1. \A j : j \notin 1..(1 - 1)
    OBVIOUS
  <2> QED BY <1>1, <2>1 DEF Stepwise
<1>3. Len(out) \in Nat /\ Len(out) # 0
  BY LenProperties
<1>4. MayFollow(q, out, cuts, stamps)
  BY <1>1, <1>3 DEF MayFollow
<1>5. Joined(out \o q, cuts, stamps)
  BY <1>1, <1>2, <1>4, JoinedGrows
<1>6. PICK n : n = Len(out) + 1
  OBVIOUS
<1>7. /\ Len(out \o q) = n /\ (out \o q)[n] = q[1] /\ (out \o q)[n - 1] = out[Len(out)] /\ n > 1
  <2>1. /\ Len(out \o q) = Len(out) + Len(q)
        /\ \A j \in 1..Len(out) : (out \o q)[j] = out[j]
        /\ \A j \in 1..Len(out \o q) : j \notin 1..Len(out) => (out \o q)[j] = q[j - Len(out)]
    BY <1>1, ConcatItems
  <2>2. /\ Len(out \o q) = n /\ n - 1 = Len(out) /\ n - Len(out) = 1 /\ n > 1
        /\ Len(out) \in 1..Len(out)
    BY <1>1, <1>3, <1>6, <2>1
  <2>3. n \in 1..Len(out \o q) /\ n \notin 1..Len(out)
    BY <1>3, <1>6, <2>2
  <2> QED BY <2>1, <2>2, <2>3
<1>8. 1 \in stamps => Closes(out \o q, n, cuts, stamps)
  BY <1>1, <1>7 DEF Closes
<1>9. 1 \in stamps => Closed(out \o q, cuts, stamps)
  BY <1>7, <1>8 DEF Closed
<1> QED BY <1>5, <1>9 DEF q

\* What the application gets of a frame ends it.
LEMMA WantedEnds ==
  ASSUME NEW f, NEW V, Wanted(f, V), Traffic[f] \in Nat
  PROVE  Ends(<<f, V>>, Cuts)
<1>1. CASE StatusOn /\ V = Traffic[f]
  <2>1. 0 \in Cuts
    BY <1>1 DEF Cuts
  <2>2. <<f, V>>[2] = Traffic[<<f, V>>[1]] - 0
    BY <1>1
  <2> QED BY <2>1, <2>2 DEF Ends
<1>2. CASE StatusOff /\ V = Traffic[f] - StatusBytes
  <2>1. StatusBytes \in Cuts
    BY <1>2 DEF Cuts, StatusBytes
  <2>2. <<f, V>>[2] = Traffic[<<f, V>>[1]] - StatusBytes
    BY <1>2
  <2> QED BY <2>1, <2>2 DEF Ends
<1> QED BY <1>1, <1>2 DEF Wanted

\* Copying one part more, and the timestamp behind the frame's last one, keeps the
\* items in order and the frames whole.
LEMMA CopiedNext ==
  ASSUME NEW b \in Part, IsPart(b), NEW d \in Desc, HoldsPart(d, b), NEW rd, rd.pc = "copy",
         NEW x, CopyStep(rd, x, d, b), NEW p \in Nat, p < b.f,
         CopiedOut(rd, b, p, Cuts, Stamps)
  PROVE  /\ CopiedOut(x, AfterPart(b), p, Cuts, Stamps) /\ x.pc \in Active
         /\ NoEmpty /\ b.from = 0 => Starts(x.out, b.f)
         /\ \A f : Starts(rd.out, f) => Starts(x.out, f)
<1>1. PICK V, real \in Nat :
    /\ Wanted(b.f, V) /\ V \in {Traffic[b.f], Traffic[b.f] - StatusBytes}
    /\ rd.filled = MinOf(b.from, V) /\ x.filled = rd.filled + real
    /\ real <= RxSize /\ real <= Traffic[b.f] - b.from
    /\ real > 0 => rd.filled = b.from
    /\ LastPart(b) => x.pc = "next" /\ x.filled = V
    /\ ~LastPart(b) => x.pc = "copy" /\ x.filled = MinOf(b.from + RxSize, V)
    /\ x.out = (rd.out \o CopyOut(d, real))
                 \o (IF LastPart(b) /\ settings.append_timestamp THEN << <<d.timestamp, 0>> >>
                                                                 ELSE <<>>)
  BY DEF CopyStep
<1>2. /\ b.f \in Nat /\ b.f # 0 /\ b.from \in Nat /\ Traffic[b.f] \in Nat /\ b.f \in Frames
  BY PartFacts, FrameWords DEF IsPart
<1> DEFINE q    == CopyOut(d, real)
           mid  == rd.out \o q
           last == LastPart(b)
           on   == settings.append_timestamp
<1>3. BytesAt(q, b.f, b.from, real) /\ q \in Seq(Byte)
  BY <1>1, <1>2, CopyOutBytes DEF BytesAt
<1>4. x.out = IF last /\ on THEN mid \o << <<d.timestamp, 0>> >> ELSE mid \o <<>>
  BY <1>1
<1>5. InLine(rd.out, p, Copied(b)) /\ rd.out \in Seq(Byte)
  BY DEF CopiedOut, InLine
<1>6. last => d.timestamp \in Nat /\ d.timestamp > b.f
  BY DescFields DEF HoldsPart
<1>7. last => x.pc = "next" /\ x.filled = V
  BY <1>1
<1>8. ~last => x.pc = "copy"
  BY <1>1
<1> HIDE DEF q, last, on
<1>9. InLine(mid, p, b.f) /\ mid \in Seq(Byte)
  BY <1>3, <1>5, DataInLine DEF InLine
<1>10. mid \o <<>> = mid
  BY <1>9, ConcatEmptySeq
<1>11. \A f : Starts(rd.out, f) => Starts(mid, f)
  <2>1. \A j \in 1..Len(rd.out) : mid[j] = rd.out[j] /\ j \in 1..Len(mid)
    BY <1>3, <1>5, ConcatItems
  <2> QED BY <2>1 DEF Starts
<1>12. NoEmpty =>
         /\ Joined(mid, Cuts, Stamps) /\ Len(mid) > 0 /\ mid[Len(mid)] = <<b.f, x.filled>>
         /\ x.filled \in Nat /\ x.filled > 0
         /\ b.from = 0 => Starts(mid, b.f)
  <2>1. SUFFICES ASSUME NoEmpty
                 PROVE  /\ Joined(mid, Cuts, Stamps) /\ Len(mid) > 0
                        /\ mid[Len(mid)] = <<b.f, x.filled>>
                        /\ x.filled \in Nat /\ x.filled > 0
                        /\ b.from = 0 => Starts(mid, b.f)
    OBVIOUS
  <2>2. V \in Nat /\ V > 0
    <3>1. Traffic[b.f] > StatusBytes
      BY <1>2, <2>1 DEF NoEmpty
    <3>2. V \in {Traffic[b.f], Traffic[b.f] - StatusBytes} /\ Traffic[b.f] \in Nat
      BY <1>1, <1>2
    <3> QED BY <3>1, <3>2 DEF StatusBytes
  <2>3. x.filled = V \/ x.filled = MinOf(b.from + RxSize, V)
    BY <1>1
  <2>4. /\ x.filled \in Nat /\ x.filled > 0
        /\ b.from = 0 => real > 0
        /\ real > 0 => x.filled = b.from + real
        /\ real = 0 => b.from # 0 /\ x.filled = rd.filled
        /\ b.from # 0 => rd.filled > 0
    BY <1>1, <1>2, <2>2, <2>3, CopiedNumbers
  <2>5. /\ Joined(rd.out, Cuts, Stamps)
        /\ IF b.from # 0 THEN Len(rd.out) > 0 /\ rd.out[Len(rd.out)] = <<b.f, rd.filled>>
                         ELSE Closed(rd.out, Cuts, Stamps)
    BY <2>1 DEF CopiedOut
  <2>6. real > 0 => rd.filled = b.from /\ x.filled = b.from + real
    BY <1>1, <2>4
  <2>7. Adds(rd.out, q, b, real, rd.filled, x.filled, Cuts, Stamps)
    BY <1>3, <2>4, <2>5, <2>6 DEF Adds
  <2>8. Joined(rd.out, Cuts, Stamps)
    BY <2>5
  <2>9. /\ Joined(rd.out \o q, Cuts, Stamps) /\ Len(rd.out \o q) > 0
        /\ (rd.out \o q)[Len(rd.out \o q)] = <<b.f, x.filled>>
        /\ b.from = 0 => Starts(rd.out \o q, b.f)
    <3>1. PICK s : s = rd.out
      OBVIOUS
    <3>2. PICK m : m = rd.filled
      OBVIOUS
    <3>3. PICK n : n = x.filled
      OBVIOUS
    <3>4. s \in Seq(Byte) /\ Joined(s, Cuts, Stamps) /\ Adds(s, q, b, real, m, n, Cuts, Stamps)
      BY <1>5, <2>7, <2>8, <3>1, <3>2, <3>3
    <3>5. Added(s, q, b, n, Cuts, Stamps)
      BY <2>1, <3>4, DataJoined
    <3> QED BY <3>1, <3>3, <3>5 DEF Added
  <2> QED BY <2>4, <2>9
<1> HIDE DEF mid
<1>13. AfterPart(b) \in Part /\ Copied(AfterPart(b)) = b.f
       /\ (last => AfterPart(b).from = 0)
       /\ (~last => AfterPart(b).f = b.f /\ AfterPart(b).from # 0)
  <2>1. RxSize \in Nat /\ RxSize # 0
    BY RingAssumption
  <2>2. b.from + RxSize # 0
    BY <1>2, <2>1
  <2> QED BY <2>2, PartFacts, CopiedType DEF last
<1>14. CASE ~last
  <2>1. x.out = mid /\ x.pc = "copy" /\ x.pc \in Active
    BY <1>4, <1>8, <1>10, <1>14 DEF Active
  <2>2. CopiedOut(x, AfterPart(b), p, Cuts, Stamps)
    BY <1>9, <1>12, <1>13, <1>14, <2>1 DEF CopiedOut
  <2> QED BY <1>11, <1>12, <2>1, <2>2
<1>15. ASSUME last, NoEmpty
       PROVE  /\ mid[Len(mid)][2] > 0 /\ Ends(mid[Len(mid)], Cuts)
  <2>1. mid[Len(mid)] = <<b.f, V>> /\ V > 0
    BY <1>7, <1>12, <1>15
  <2> QED BY <1>1, <1>2, <2>1, WantedEnds
<1>16. CASE last /\ ~on
  <2>1. x.out = mid /\ x.pc = "next" /\ x.pc \in Active
    BY <1>4, <1>7, <1>10, <1>16 DEF Active
  <2>2. 0 \in Stamps
    BY <1>16 DEF on, Stamps, StampOff
  <2>3. NoEmpty => Closed(mid, Cuts, Stamps)
    BY <1>15, <1>16, <2>2 DEF Closed, Closes
  <2>4. CopiedOut(x, AfterPart(b), p, Cuts, Stamps)
    BY <1>9, <1>12, <1>13, <1>16, <2>1, <2>3 DEF CopiedOut
  <2> QED BY <1>11, <1>12, <2>1, <2>4
<1>17. CASE last /\ on
  <2> DEFINE time == d.timestamp
             out  == mid \o << <<time, 0>> >>
  <2>1. x.out = out /\ x.pc = "next" /\ x.pc \in Active /\ time \in Nat /\ time > b.f
    BY <1>4, <1>6, <1>7, <1>17 DEF Active
  <2> HIDE DEF time
  <2>2. 1 \in Stamps
    BY <1>17 DEF on, Stamps, StampOn
  <2>3. InLine(out, p, b.f)
    BY <1>2, <1>9, <2>1, StampInLine
  <2>4. NoEmpty => Joined(out, Cuts, Stamps) /\ Closed(out, Cuts, Stamps)
    BY <1>9, <1>12, <1>15, <1>17, <2>1, <2>2, StampJoined
  <2>5. \A f : Starts(mid, f) => Starts(out, f)
    <3>1. << <<time, 0>> >> \in Seq(Byte)
      BY <2>1 DEF Byte
    <3>2. \A j \in 1..Len(mid) : out[j] = mid[j] /\ j \in 1..Len(out)
      BY <1>9, <3>1, ConcatItems
    <3> HIDE DEF out
    <3> QED BY <3>2 DEF Starts
  <2> HIDE DEF out
  <2>6. CopiedOut(x, AfterPart(b), p, Cuts, Stamps)
    BY <1>13, <1>17, <2>1, <2>3, <2>4 DEF CopiedOut
  <2> QED BY <1>11, <1>12, <2>1, <2>5, <2>6
<1> QED BY <1>14, <1>16, <1>17

\* The data in q is of frame f.
OfFrame(q, f) == \A k \in 1..Len(q) : q[k][2] > 0 => q[k][1] = f

\* What comes before out comes before data of a later frame too.
LEMMA BeforeMore ==
  ASSUME NEW a, NEW p, NEW f \in Nat, InLine(a, p, f - 1), NEW out \in Seq(Byte), Before(a, out),
         NEW q \in Seq(Byte), OfFrame(q, f)
  PROVE  Before(a, out \o q)
<1> DEFINE h == out \o q
<1>1. /\ \A j \in 1..Len(out) : h[j] = out[j]
      /\ \A j \in 1..Len(h) : j \notin 1..Len(out) => j - Len(out) \in 1..Len(q)
                                                     /\ h[j] = q[j - Len(out)]
  BY ConcatItems
<1> HIDE DEF h
<1>2. ASSUME NEW j \in 1..Len(a), NEW k \in 1..Len(h), a[j][2] > 0, h[k][2] > 0
      PROVE  a[j][1] < h[k][1]
  <2>1. CASE k \in 1..Len(out)
    BY <1>1, <1>2, <2>1 DEF Before
  <2>2. CASE k \notin 1..Len(out)
    <3>1. h[k][1] = f
      <4>1. PICK i : i = k - Len(out)
        OBVIOUS
      <4>2. i \in 1..Len(q) /\ h[k] = q[i]
        BY <1>1, <2>2, <4>1
      <4> QED BY <1>2, <4>2 DEF OfFrame
    <3>2. a[j] \in Byte /\ a[j][1] <= f - 1
      BY <1>2, ElementOfSeq DEF InLine, UpTo
    <3>3. a[j][1] \in Nat
      BY <3>2 DEF Byte
    <3> QED BY <3>1, <3>2, <3>3
  <2> QED BY <2>1, <2>2
<1> QED BY <1>2 DEF Before, h

\* The data of a part is of its frame, and a timestamp is no data.
LEMMA PartData ==
  /\ \A q, f, from, real : BytesAt(q, f, from, real) => OfFrame(q, f)
  /\ \A time, f : OfFrame(<< <<time, 0>> >>, f)
  /\ \A f : OfFrame(<<>>, f)
<1>1. ASSUME NEW q, NEW f, NEW from, NEW real, BytesAt(q, f, from, real)
      PROVE  OfFrame(q, f)
  BY <1>1 DEF BytesAt, OfFrame
<1>2. ASSUME NEW time, NEW f
      PROVE  OfFrame(<< <<time, 0>> >>, f)
  BY DEF OfFrame
<1>3. ASSUME NEW f
      PROVE  OfFrame(<<>>, f)
  <2>1. Len(<<>>) = 0 /\ \A x : x \notin 1..0
    BY EmptySeq
  <2> QED BY <2>1 DEF OfFrame
<1> QED BY <1>1, <1>2, <1>3

\* What was returned before a part was copied comes before it.
LEMMA CopiedLater ==
  ASSUME NEW b \in Part, IsPart(b), NEW d \in Desc, HoldsPart(d, b), NEW rd, NEW x,
         CopyStep(rd, x, d, b), rd.out \in Seq(Byte),
         NEW a, NEW p, InLine(a, p, b.f - 1), Before(a, rd.out)
  PROVE  Before(a, x.out)
<1>1. PICK real \in Nat, z \in {<<>>, << <<d.timestamp, 0>> >>} :
        /\ real <= RxSize /\ real <= Traffic[b.f] - b.from
        /\ z # <<>> => LastPart(b)
        /\ x.out = (rd.out \o CopyOut(d, real)) \o z
  <2>1. PICK real \in Nat :
          /\ real <= RxSize /\ real <= Traffic[b.f] - b.from
          /\ x.out = (rd.out \o CopyOut(d, real))
                       \o (IF LastPart(b) /\ settings.append_timestamp
                             THEN << <<d.timestamp, 0>> >> ELSE <<>>)
    BY DEF CopyStep
  <2> QED BY <2>1
<1> DEFINE q == CopyOut(d, real)
<1>2. BytesAt(q, b.f, b.from, real) /\ q \in Seq(Byte)
  BY <1>1, PartFacts, FrameWords, CopyOutBytes DEF BytesAt, IsPart
<1>3. b.f \in Nat
  BY PartFacts
<1> HIDE DEF q
<1>4. Before(a, rd.out \o q)
  BY <1>2, <1>3, PartData, BeforeMore
<1>5. rd.out \o q \in Seq(Byte)
  BY <1>2, ConcatProperties
<1>6. z \in Seq(Byte) /\ OfFrame(z, b.f)
  <2>1. CASE z = <<>>
    BY <2>1, EmptySeq, PartData
  <2>2. CASE z = << <<d.timestamp, 0>> >> /\ z # <<>>
    <3>1. d.timestamp \in Nat
      BY <1>1, <2>2, DescFields DEF HoldsPart
    <3> QED BY <2>2, <3>1, PartData DEF Byte
  <2> QED BY <2>1, <2>2
<1>7. x.out = (rd.out \o q) \o z
  BY <1>1 DEF q
<1> QED BY <1>3, <1>4, <1>5, <1>6, <1>7, BeforeMore

\* Reader r copies alone.
Alone(rds2, rds, r) == \A s \in Readers \ {r} : rds2[s] = rds[s] /\ rds[s].pc \notin Active

\* What is returned stays in order when a part is copied.
LEMMA PartKept ==
  ASSUME NEW b \in Part, IsPart(b), NEW d \in Desc, HoldsPart(d, b), NEW rds, NEW rds2,
         NEW r \in Readers, rds[r].pc = "copy", CopyStep(rds[r], rds2[r], d, b),
         Alone(rds2, rds, r), NEW p \in Nat, p < b.f, NEW done,
         OutOf(rds, done, p, b, Cuts, Stamps)
  PROVE  /\ OutOf(rds2, done, p, AfterPart(b), Cuts, Stamps)
         /\ NoEmpty /\ NoGap(rds, done, b) => NoGap(rds2, done, AfterPart(b))
<1>1. CopiedOut(rds[r], b, p, Cuts, Stamps)
  BY DEF OutOf, ReaderOut, Active
<1> DEFINE c == AfterPart(b)
<1>2. /\ CopiedOut(rds2[r], c, p, Cuts, Stamps) /\ rds2[r].pc \in Active
      /\ NoEmpty /\ b.from = 0 => Starts(rds2[r].out, b.f)
      /\ \A f : Starts(rds[r].out, f) => Starts(rds2[r].out, f)
  BY <1>1, CopiedNext
<1>3. c \in Part /\ Copied(c) = b.f /\ b.f \in Nat /\ Copied(b) \in Nat /\ b.f <= c.f
      /\ (b.from = 0 => Copied(b) = b.f - 1) /\ (b.from # 0 => Copied(b) = b.f)
  BY PartFacts, CopiedType
<1>4. rds[r].out \in Seq(Byte)
  BY <1>1 DEF CopiedOut, InLine
<1> HIDE DEF c
<1>5. ASSUME NEW s \in Readers
      PROVE  ReaderOut(rds2[s], c, p, Cuts, Stamps)
  <2>1. CASE s = r
    BY <1>2, <2>1 DEF ReaderOut
  <2>2. CASE s # r
    <3>1. rds2[s] = rds[s] /\ rds[s].pc \notin Active
      BY <2>2 DEF Alone
    <3>2. ReaderOut(rds[s], b, p, Cuts, Stamps)
      BY DEF OutOf
    <3> QED BY <3>1, <3>2 DEF ReaderOut
  <2> QED BY <2>1, <2>2
<1>6. ASSUME NEW i \in 1..Len(done)
      PROVE  Returned(done[i], c, Cuts, Stamps)
  <2>1. Returned(done[i], b, Cuts, Stamps)
    BY DEF OutOf
  <2>2. b.f - 1 \in Int /\ c.f - 1 \in Int /\ b.f - 1 <= c.f - 1
    BY <1>3, PartFacts
  <2> QED BY <2>1, <2>2, UpToMore DEF Returned
<1>7. ASSUME NEW i \in 1..Len(done), NEW s \in Readers
      PROVE  Before(done[i].out, rds2[s].out)
  <2>1. Before(done[i].out, rds[s].out) /\ Returned(done[i], b, Cuts, Stamps)
    BY DEF OutOf
  <2>2. CASE s = r
    <3>1. InLine(done[i].out, done[i].purged, b.f - 1)
      BY <2>1 DEF Returned
    <3> QED BY <1>4, <2>1, <2>2, <3>1, CopiedLater
  <2>3. CASE s # r
    <3>1. rds2[s] = rds[s]
      BY <2>3 DEF Alone
    <3> QED BY <2>1, <3>1
  <2> QED BY <2>2, <2>3
<1>8. OutOf(rds2, done, p, c, Cuts, Stamps)
  BY <1>5, <1>6, <1>7 DEF OutOf
<1>9. ASSUME NoEmpty, NoGap(rds, done, b), NEW f \in 1..Copied(c)
      PROVE  \/ \E i \in 1..Len(done) : Starts(done[i].out, f)
             \/ \E s \in Readers : Starts(rds2[s].out, f)
  <2>1. CASE f \in 1..Copied(b)
    <3>1. CASE \E i \in 1..Len(done) : Starts(done[i].out, f)
      BY <3>1
    <3>2. ASSUME NEW s \in Readers, Starts(rds[s].out, f)
          PROVE  Starts(rds2[s].out, f)
      <4>1. CASE s = r
        BY <1>2, <3>2, <4>1
      <4>2. CASE s # r
        BY <3>2, <4>2 DEF Alone
      <4> QED BY <4>1, <4>2
    <3> QED BY <1>9, <2>1, <3>1, <3>2 DEF NoGap
  <2>2. CASE f \notin 1..Copied(b)
    <3>1. f = b.f /\ b.from = 0
      BY <1>3, <2>2
    <3> QED BY <1>2, <1>9, <3>1
  <2> QED BY <2>1, <2>2
<1>10. NoEmpty /\ NoGap(rds, done, b) => NoGap(rds2, done, c)
  BY <1>9 DEF NoGap
<1> QED BY <1>8, <1>10 DEF c

-----------------------------------------------------------------------------
(* The steps of the driver and the card.                                   *)

\* The settings of a run never change what may end or follow a frame.
LEMMA EndsStay ==
  ASSUME SettingsStay
  PROVE  Cuts' = Cuts /\ Stamps' = Stamps
BY DEF SettingsStay, Cuts, Stamps

\* What was returned is the same, and nothing changes for the readers that copy.
LEMMA SameOutInv ==
  ASSUME NEW b, OutInv(b), SettingsStay, SameOut(reader', reader, b),
         completed' = completed, purged' = purged, Unpurged' => Unpurged
  PROVE  OutInv(b)'
<1>1. Cuts' = Cuts /\ Stamps' = Stamps
  BY EndsStay
<1>2. OutOf(reader', completed', purged', b, Cuts', Stamps')
  BY <1>1, SameKept DEF OutInv
<1>3. NoEmpty /\ Unpurged' => NoGap(reader', completed', b)
  BY SameGap DEF OutInv
<1> QED BY <1>2, <1>3 DEF OutInv

\* Requests are completed that return nothing.
LEMMA EmptyOutInv ==
  ASSUME NEW b, OutInv(b), SettingsStay, SameOut(reader', reader, b), NEW S, completed \in Seq(S),
         NEW q \in Seq(S), completed' = completed \o q, \A i \in 1..Len(q) : q[i].out = <<>>,
         purged' = purged, Unpurged' => Unpurged
  PROVE  OutInv(b)'
<1>1. Cuts' = Cuts /\ Stamps' = Stamps
  BY EndsStay
<1>2. OutOf(reader', completed, purged, b, Cuts, Stamps)
  BY SameKept DEF OutInv
<1>3. OutOf(reader', completed \o q, purged, b, Cuts, Stamps)
  BY <1>2, EmptiesKept
<1>4. NoEmpty /\ Unpurged' => NoGap(reader', completed \o q, b)
  BY SameGap, EmptiesGap DEF OutInv
<1>5. OutOf(reader', completed', purged', b, Cuts', Stamps')
  BY <1>1, <1>3
<1>6. NoEmpty /\ Unpurged' => NoGap(reader', completed', b)
  BY <1>4
<1> QED BY <1>5, <1>6 DEF OutInv

\* The ring was reset, and what comes is of frame c.f and later.
LEMMA JumpOutInv ==
  ASSUME NEW b \in Part, NEW c \in Part, OutInv(b), SettingsStay, b.f <= c.f,
         \A r \in Readers : reader[r].pc \notin Active,
         reader' = reader, completed' = completed, ~Unpurged'
  PROVE  OutInv(c)'
<1>1. Cuts' = Cuts /\ Stamps' = Stamps
  BY EndsStay
<1>2. OutOf(reader, completed, purged', c, Cuts, Stamps)
  BY JumpKept DEF OutInv
<1> QED BY <1>1, <1>2 DEF OutInv

\* Without a step the readers are the same.
LEMMA SameReaders ==
  ASSUME NEW b, reader' = reader
  PROVE  SameOut(reader', reader, b)
BY DEF SameOut

\* The steps of the card, of the timer, of the FIFO's DPC and of the settings leave
\* the readers alone.
LEMMA DeviceRead ==
  ASSUME ~Streaming, RxSize % 4 = 0, NEW W, Lines(W), NEW b, FrameInv(W, b), OutInv(b), IndInv,
         SettingsStay, SizeSeen,
         \/ \E n \in Arrivals : LineArrive(n)
         \/ LineLost \/ ClockChange \/ fscc_isr \/ timer_handler
         \/ IframeStart \/ IframeStep \/ PurgeBegin
         \/ \E s \in Toggles : ToggleSetting(s)
         \/ UNCHANGED vars
  PROVE  FrameInv(W, b)' /\ OutInv(b)'
<1> USE DEF device, ring, dpcs, user, ioctl
<1>1. \A r \in Readers : reader[r].pc # "stream"
  BY DEF FrameInv, ReadersInv
<1>2. ASSUME UNCHANGED <<reader, completed, purged>>, purge' = purge \/ purge'.pc # "idle"
      PROVE  OutInv(b)'
  BY <1>2, SameReaders, SameOutInv DEF Unpurged
<1>3. ASSUME UNCHANGED <<rx_descriptors, user_rx_desc, fifo_rx_desc, rx_bytes_in_frame, rx_frame_size,
                         rxfifo, bcfifo, line, recd, purged, purge, reader>>,
             iframe'.pc = "store" => iframe.pc = "store"
      PROVE  FrameInv(W, b)'
  <2>1. ReadersQuiet
    BY <1>1, <1>3 DEF ReadersQuiet
  <2> QED BY <1>3, <2>1, QuietFrame
<1>4. ASSUME NEW n \in Arrivals, LineArrive(n)
      PROVE  FrameInv(W, b)' /\ OutInv(b)'
  <2>1. UNCHANGED <<reader, completed, purged, purge>>
    BY <1>4 DEF LineArrive
  <2> QED BY <1>2, <1>4, <2>1, ArriveFrame
<1>5. CASE LineLost
  <2>1. UNCHANGED <<reader, completed, purged, purge>>
    BY <1>5 DEF LineLost
  <2> QED BY <1>2, <1>5, <2>1, LostFrame
<1>6. CASE ClockChange \/ fscc_isr \/ timer_handler \/ (\E s \in Toggles : ToggleSetting(s))
           \/ UNCHANGED vars
  <2>1. /\ UNCHANGED <<rx_descriptors, user_rx_desc, fifo_rx_desc, rx_bytes_in_frame, rx_frame_size,
                       rxfifo, bcfifo, line, recd, purged, purge, reader>>
        /\ UNCHANGED <<iframe, completed>>
    BY <1>6 DEF ClockChange, fscc_isr, timer_handler, ToggleSetting, vars
  <2> QED BY <1>2, <1>3, <2>1
<1>7. CASE IframeStart \/ IframeDone
  <2>1. /\ UNCHANGED <<rx_descriptors, user_rx_desc, fifo_rx_desc, rx_bytes_in_frame, rx_frame_size,
                       rxfifo, bcfifo, line, recd, purged, purge, reader>>
        /\ UNCHANGED completed /\ iframe'.pc # "store"
    BY <1>7 DEF IframeStart, IframeDone
  <2> QED BY <1>2, <1>3, <2>1
<1>8. CASE FifoSample
  <2>1. UNCHANGED <<reader, completed, purged, purge>>
    BY <1>8 DEF FifoSample
  <2> QED BY <1>2, <1>8, <2>1, SampleFrame
<1>9. CASE FifoStore
  <2>1. UNCHANGED <<reader, completed, purged, purge>>
    BY <1>9 DEF FifoStore
  <2> QED BY <1>2, <1>9, <2>1, StoreFrame
<1>10. CASE PurgeBegin
  <2>1. UNCHANGED <<reader, completed, purged>>
    BY <1>10 DEF PurgeBegin
  <2>2. purge'.pc = "reset"
    BY <1>10 DEF PurgeBegin, IndInv, TypeOK, TypeIoctl
  <2> QED BY <1>2, <1>10, <2>1, <2>2, BeginFrame
<1> QED BY <1>4, <1>5, <1>6, <1>7, <1>8, <1>9, <1>10 DEF IframeStep

\* A reader that copies holds the lock, and the others do not copy.
LEMMA ActiveHolds ==
  ASSUME IndInv
  PROVE  /\ board_rx_spinlock \in {"free", "iframe"} => \A r \in Readers : reader[r].pc \notin Active
         /\ \A r \in Readers : reader[r].pc \in Active => board_rx_spinlock = r
         /\ \A r \in Readers : board_rx_spinlock = r =>
              \A s \in Readers \ {r} : reader[s].pc \notin Active
BY ReadAssumption DEF IndInv, LockOwnership, Active

\* A reader that does not copy, and does not start to, moves on.
LEMMA IdleMoves ==
  ASSUME ~Streaming, NEW W, NEW b, FrameInv(W, b), OutInv(b), IndInv, SettingsStay,
         NEW r \in Readers, NEW x, reader' = [reader EXCEPT ![r] = x],
         reader[r].pc \notin Active, x.pc \notin Active, x.pc # "stream", x.out = reader[r].out,
         UNCHANGED <<rx_descriptors, user_rx_desc, fifo_rx_desc, rx_bytes_in_frame, rx_frame_size,
                     rxfifo, bcfifo, line, recd, purged, purge, iframe>>
  PROVE  FrameInv(W, b)' /\ SameOut(reader', reader, b)
<1> USE DEF ring
<1>1. reader \in [Readers -> ReaderState]
  BY DEF IndInv, TypeOK, TypeUser
<1>2. reader'[r] = x /\ \A s \in Readers \ {r} : reader'[s] = reader[s]
  BY <1>1
<1>3. \A s \in Readers : reader[s].pc # "stream"
  BY DEF FrameInv, ReadersInv
<1>4. ReadersQuiet
  <2>1. ASSUME NEW s \in Readers
        PROVE  /\ reader'[s].pc # "stream"
               /\ reader[s].pc = "copy" => reader'[s].pc = "copy"
               /\ reader'[s].pc \in {"copy", "next"} => reader'[s] = reader[s]
    <3>1. CASE s = r
      BY <1>2, <3>1 DEF Active
    <3>2. CASE s # r
      BY <1>2, <1>3, <3>2
    <3> QED BY <3>1, <3>2
  <2> QED BY <2>1 DEF ReadersQuiet
<1>5. FrameInv(W, b)'
  BY <1>4, QuietFrame
<1>6. SameOut(reader', reader, b)
  BY <1>2 DEF SameOut
<1> QED BY <1>5, <1>6

\* Looking for a frame, taking a request and refusing it.
LEMMA WaitingRead ==
  ASSUME ~Streaming, NEW W, NEW b, FrameInv(W, b), OutInv(b), IndInv, SettingsStay,
         NEW r \in Readers, completed \in Seq(ReadCompletions),
         ProcessReadPeek(r) \/ RetrieveNextRequest(r) \/ ReadFrameRefuse(r)
  PROVE  FrameInv(W, b)' /\ OutInv(b)'
<1> USE DEF device, ring, dpcs, user, ioctl
<1>1. reader \in [Readers -> ReaderState] /\ reader[r] \in ReaderState
  BY DEF IndInv, TypeOK, TypeUser
<1>2. reader[r].pc \notin Active
  BY DEF ProcessReadPeek, RetrieveNextRequest, ReadFrameRefuse, Active
<1>3. reader[r].out = <<>>
  BY <1>2 DEF OutInv, OutOf, ReaderOut
<1>4. IdleReader.out = <<>> /\ IdleReader.pc = "idle"
  BY DEF IdleReader
<1>5. UNCHANGED <<rx_descriptors, user_rx_desc, fifo_rx_desc, rx_bytes_in_frame, rx_frame_size,
                  rxfifo, bcfifo, line, recd, purged, purge, iframe>>
  BY DEF ProcessReadPeek, RetrieveNextRequest, ReadFrameRefuse
<1>6. Unpurged' => Unpurged
  BY <1>5 DEF Unpurged
<1>7. CASE ProcessReadPeek(r)
  <2> DEFINE x == [reader[r] EXCEPT !.pc = IF ReadWorthwhile THEN "retrieve" ELSE "idle"]
  <2>1. reader' = [reader EXCEPT ![r] = x] /\ completed' = completed
    BY <1>7 DEF ProcessReadPeek
  <2>2. x.out = reader[r].out /\ x.pc \in {"retrieve", "idle"}
    BY <1>1 DEF ReaderState
  <2> HIDE DEF x
  <2>3. FrameInv(W, b)' /\ SameOut(reader', reader, b)
    BY <1>2, <1>5, <2>1, <2>2, IdleMoves DEF Active
  <2> QED BY <1>5, <1>6, <2>1, <2>3, SameOutInv
<1>8. CASE RetrieveNextRequest(r)
  <2> DEFINE x == IF read_queue2 = <<>> THEN IdleReader
                  ELSE [[reader[r] EXCEPT !.pc = "enter"] EXCEPT !.len = Head(read_queue2)]
  <2>1. reader' = [reader EXCEPT ![r] = x] /\ completed' = completed
    BY <1>1, <1>8 DEF RetrieveNextRequest
  <2>2. x.out = reader[r].out /\ x.pc \in {"enter", "idle"}
    BY <1>1, <1>3, <1>4 DEF ReaderState
  <2> HIDE DEF x
  <2>3. FrameInv(W, b)' /\ SameOut(reader', reader, b)
    BY <1>2, <1>5, <2>1, <2>2, IdleMoves DEF Active
  <2> QED BY <1>5, <1>6, <2>1, <2>3, SameOutInv
<1>9. CASE ReadFrameRefuse(r)
  <2> DEFINE c == Completion(reader[r].len, "too_small",
                       IF frame_ready THEN buffer_requirement(frame_bytes) ELSE 0, <<>>, 0)
  <2>1. reader' = [reader EXCEPT ![r] = IdleReader] /\ completed' = Append(completed, c)
    BY <1>9 DEF ReadFrameRefuse
  <2>2. c.out = <<>> /\ c \in ReadCompletions
    BY CompletionTypes DEF Completion
  <2> HIDE DEF c
  <2>3. FrameInv(W, b)' /\ SameOut(reader', reader, b)
    BY <1>2, <1>3, <1>4, <1>5, <2>1, IdleMoves DEF Active
  <2>4. completed' = completed \o <<c>> /\ <<c>> \in Seq(ReadCompletions) /\ Len(<<c>>) = 1
        /\ <<c>>[1] = c
    BY <2>1, <2>2, AppendProperties
  <2>5. \A i \in 1..Len(<<c>>) : <<c>>[i].out = <<>>
    <3>1. \A i \in 1..1 : i = 1
      OBVIOUS
    <3> QED BY <2>2, <2>4, <3>1
  <2> QED BY <1>5, <1>6, <2>3, <2>4, <2>5, EmptyOutInv
<1> QED BY <1>7, <1>8, <1>9

\* A copy of the frame at the front starts, or the request ends.
LEMMA StartRead ==
  ASSUME ~Streaming, NEW W, NEW b, FrameInv(W, b), OutInv(b), IndInv, SettingsStay,
         NEW r \in Readers, ReadFrameEnter(r) \/ ReadNextFrame(r)
  PROVE  FrameInv(W, b)' /\ OutInv(b)'
<1> USE DEF device, ring, dpcs, user, ioctl
<1>1. /\ reader \in [Readers -> ReaderState] /\ reader[r] \in ReaderState
      /\ \A s \in Readers : s # "free" /\ s # "iframe"
  BY ReadAssumption DEF IndInv, TypeOK, TypeUser
<1>2. UNCHANGED <<rx_descriptors, user_rx_desc, fifo_rx_desc, rx_bytes_in_frame, rx_frame_size,
                  rxfifo, bcfifo, line, recd, purged, purge, iframe, completed>>
  BY DEF ReadFrameEnter, ReadNextFrame
<1>3. /\ board_rx_spinlock \in {"free", r} /\ reader[r].pc \in {"enter", "next"}
      /\ \A s \in Readers \ {r} : reader[s].pc \notin Active
  <2>1. CASE ReadFrameEnter(r)
    BY <2>1, ActiveHolds DEF ReadFrameEnter
  <2>2. CASE ReadNextFrame(r)
    <3>1. reader[r].pc = "next" /\ reader[r].pc \in Active
      BY <2>2 DEF ReadNextFrame, Active
    <3> QED BY <3>1, ActiveHolds
  <2> QED BY <2>1, <2>2
<1>4. b.from = 0 /\ \A s \in Readers : reader[s].pc # "stream"
  <2>1. \A s \in Readers : reader[s].pc # "copy"
    BY <1>3 DEF Active
  <2> QED BY <2>1, FrontStarts
<1>5. ASSUME NEW x, reader' = [reader EXCEPT ![r] = x], x.out = reader[r].out, x.pc \in Active
      PROVE  OutInv(b)'
  <2>1. reader'[r] = x /\ \A s \in Readers \ {r} : reader'[s] = reader[s]
    BY <1>1, <1>5
  <2>2. SameOut(reader', reader, b)
    BY <1>4, <1>5, <2>1 DEF SameOut
  <2>3. Unpurged' => Unpurged
    BY <1>2 DEF Unpurged
  <2> QED BY <1>2, <2>2, <2>3, SameOutInv
<1>6. CASE frame_ready /\ reader' = [reader EXCEPT ![r] = StartFrame(reader[r])]
  <2>1. StartFrame(reader[r]).out = reader[r].out /\ StartFrame(reader[r]).pc \in Active
    BY <1>1 DEF StartFrame, ReaderState, Active
  <2>2. UNCHANGED <<ring, rxfifo, bcfifo, line, recd, purged, iframe, purge>>
    BY <1>2
  <2>3. FrameInv(W, b)'
    BY <1>3, <1>6, <2>2, StartCopy
  <2> QED BY <1>5, <1>6, <2>1, <2>3
<1>7. CASE reader' = [reader EXCEPT ![r] = [reader[r] EXCEPT !.pc = "done"]]
           /\ reader[r].pc = "next"
  <2> DEFINE x == [reader[r] EXCEPT !.pc = "done"]
  <2>1. x.out = reader[r].out /\ x.pc = "done" /\ x.pc \in Active /\ reader' = [reader EXCEPT ![r] = x]
    BY <1>1, <1>7 DEF ReaderState, Active
  <2> HIDE DEF x
  <2>2. reader'[r] = x /\ \A s \in Readers \ {r} : reader'[s] = reader[s]
    BY <1>1, <2>1
  <2>3. ASSUME NEW s \in Readers
        PROVE  /\ reader'[s].pc # "stream"
               /\ reader[s].pc = "copy" => reader'[s].pc = "copy"
               /\ reader'[s].pc \in {"copy", "next"} => reader'[s] = reader[s]
    <3>1. CASE s = r
      BY <1>7, <2>1, <2>2, <3>1
    <3>2. CASE s # r
      BY <1>4, <2>2, <3>2
    <3> QED BY <3>1, <3>2
  <2>4. ReadersQuiet
    BY <2>3 DEF ReadersQuiet
  <2>5. FrameInv(W, b)'
    BY <1>2, <2>4, QuietFrame
  <2> QED BY <1>5, <2>1, <2>5
<1>8. CASE ReadFrameEnter(r)
  BY <1>6, <1>8 DEF ReadFrameEnter
<1>9. CASE ReadNextFrame(r)
  BY <1>6, <1>7, <1>9 DEF ReadNextFrame
<1> QED BY <1>8, <1>9

\* A part is copied.
LEMMA PartRead ==
  ASSUME NEW W, NEW b, FrameInv(W, b), OutInv(b), IndInv, SettingsStay,
         NEW r \in Readers, ReadFrameDesc(r)
  PROVE  \E c : FrameInv(W, c)' /\ OutInv(c)'
<1> USE DEF device, ring, dpcs, user, ioctl
<1>1. PICK d : d = rx_descriptors[user_rx_desc]
  OBVIOUS
<1>2. PICK c : c = AfterPart(b)
  OBVIOUS
<1>3. /\ FrameInv(W, c)' /\ b \in Part /\ IsPart(b) /\ HoldsPart(d, b)
      /\ CopyStep(reader[r], reader'[r], d, b)
  BY <1>1, <1>2, CopyFrame
<1>4. d \in Desc /\ purged \in Nat /\ purged < b.f
  BY <1>1, FrontBefore DEF IndInv, TypeOK, TypeRing, TypeIoctl
<1>5. reader[r].pc = "copy" /\ UNCHANGED <<completed, purged, purge>>
  BY DEF ReadFrameDesc
<1>6. Alone(reader', reader, r)
  <2>1. \A s \in Readers \ {r} : reader'[s] = reader[s]
    BY DEF ReadFrameDesc, IndInv, TypeOK, TypeUser
  <2>2. \A s \in Readers \ {r} : reader[s].pc \notin Active
    BY <1>5, ActiveHolds DEF Active
  <2> QED BY <2>1, <2>2 DEF Alone
<1>7. PICK rds2 : rds2 = reader'
  OBVIOUS
<1>8. /\ OutOf(rds2, completed, purged, c, Cuts, Stamps)
      /\ NoEmpty /\ NoGap(reader, completed, b) => NoGap(rds2, completed, c)
  BY <1>2, <1>3, <1>4, <1>5, <1>6, <1>7, PartKept DEF OutInv
<1>9. OutInv(c)'
  <2>1. Cuts' = Cuts /\ Stamps' = Stamps
    BY EndsStay
  <2>2. OutOf(reader', completed', purged', c, Cuts', Stamps')
    BY <1>5, <1>7, <1>8, <2>1
  <2>3. NoEmpty /\ Unpurged' => NoGap(reader', completed', c)
    BY <1>5, <1>7, <1>8 DEF OutInv, Unpurged
  <2> QED BY <2>2, <2>3 DEF OutInv
<1> QED BY <1>3, <1>9

\* A request is completed with what was copied for it.
LEMMA CompleteRead ==
  ASSUME ~Streaming, NEW W, NEW b, FrameInv(W, b), OutInv(b), IndInv, SettingsStay,
         NEW r \in Readers, completed \in Seq(ReadCompletions), ReadComplete(r)
  PROVE  FrameInv(W, b)' /\ OutInv(b)'
<1> USE DEF device, ring, dpcs, user, ioctl
<1> DEFINE c == Completion(reader[r].len, "success", 0, reader[r].out, reader[r].out_length)
<1>1. /\ reader \in [Readers -> ReaderState] /\ reader[r].pc = "done"
      /\ \A s \in Readers \ {r} : reader[s].pc \notin Active
  BY ActiveHolds DEF ReadComplete, Active, IndInv, TypeOK, TypeUser
<1>2. /\ UNCHANGED <<rx_descriptors, user_rx_desc, fifo_rx_desc, rx_bytes_in_frame, rx_frame_size,
                     rxfifo, bcfifo, line, recd, purged, purge, iframe>>
      /\ completed' = Append(completed, c) /\ reader' = [reader EXCEPT ![r] = IdleReader]
  BY DEF ReadComplete
<1>3. c.out = reader[r].out /\ c.purged = purged /\ c \in ReadCompletions
  BY CompletionTypes DEF Completion
<1> HIDE DEF c
<1>4. /\ reader'[r].pc \notin Active /\ reader'[r].pc \notin {"copy", "next", "stream"}
      /\ reader'[r].out = <<>> /\ \A s \in Readers \ {r} : reader'[s] = reader[s]
  BY <1>1, <1>2 DEF IdleReader, Active
<1>5. b.from = 0 /\ (\A s \in Readers : reader[s].pc # "stream") /\ b \in Part
  <2>1. \A s \in Readers : reader[s].pc # "copy"
    BY <1>1 DEF Active
  <2> QED BY <2>1, FrontStarts, FrontBefore
<1>6. FrameInv(W, b)'
  <2>1. ASSUME NEW s \in Readers
        PROVE  /\ reader'[s].pc # "stream"
               /\ reader[s].pc = "copy" => reader'[s].pc = "copy"
               /\ reader'[s].pc \in {"copy", "next"} => reader'[s] = reader[s]
    <3>1. CASE s = r
      BY <1>1, <1>4, <3>1
    <3>2. CASE s # r
      BY <1>4, <1>5, <3>2
    <3> QED BY <3>1, <3>2
  <2>2. ReadersQuiet
    BY <2>1 DEF ReadersQuiet
  <2> QED BY <1>2, <2>2, QuietFrame
<1>7. HandedOver(reader', reader, r, c, purged)
  BY <1>1, <1>3, <1>4 DEF HandedOver
<1>8. OutOf(reader', Append(completed, c), purged, b, Cuts, Stamps)
  BY <1>3, <1>5, <1>7, CompleteKept DEF OutInv
<1>9. NoEmpty /\ Unpurged => NoGap(reader', Append(completed, c), b)
  BY <1>3, <1>7, CompleteGap DEF OutInv
<1>10. OutInv(b)'
  <2>1. Cuts' = Cuts /\ Stamps' = Stamps
    BY EndsStay
  <2>2. OutOf(reader', completed', purged', b, Cuts', Stamps')
    BY <1>2, <1>8, <2>1
  <2>3. NoEmpty /\ Unpurged' => NoGap(reader', completed', b)
    BY <1>2, <1>9 DEF Unpurged
  <2> QED BY <2>2, <2>3 DEF OutInv
<1> QED BY <1>6, <1>10

\* A read of no bytes is completed at once, and any other request waits.
LEMMA AskRead ==
  ASSUME ~Streaming, NEW W, NEW b, FrameInv(W, b), OutInv(b), IndInv, SettingsStay,
         completed \in Seq(ReadCompletions), NEW len \in ReadLens, FsccEvtIoRead(len)
  PROVE  FrameInv(W, b)' /\ OutInv(b)'
<1> USE DEF device, ring, dpcs, user, ioctl
<1>1. UNCHANGED <<rx_descriptors, user_rx_desc, fifo_rx_desc, rx_bytes_in_frame, rx_frame_size,
                  rxfifo, bcfifo, line, recd, purged, purge, iframe, reader>>
  BY DEF FsccEvtIoRead
<1>2. FrameInv(W, b)'
  <2>1. \A r \in Readers : reader[r].pc # "stream"
    BY DEF FrameInv, ReadersInv
  <2>2. ReadersQuiet
    BY <1>1, <2>1 DEF ReadersQuiet
  <2> QED BY <1>1, <2>2, QuietFrame
<1>3. SameOut(reader', reader, b) /\ (Unpurged' => Unpurged)
  BY <1>1, SameReaders DEF Unpurged
<1>4. CASE completed' = completed
  BY <1>1, <1>2, <1>3, <1>4, SameOutInv
<1>5. CASE completed' = Append(completed, Completion(0, "success", 0, <<>>, 0))
  <2> DEFINE c == Completion(0, "success", 0, <<>>, 0)
  <2>1. c.out = <<>> /\ c \in ReadCompletions /\ completed' = Append(completed, c)
    BY <1>5, CompletionTypes DEF Completion
  <2> HIDE DEF c
  <2>2. completed' = completed \o <<c>> /\ <<c>> \in Seq(ReadCompletions) /\ Len(<<c>>) = 1
        /\ <<c>>[1] = c
    BY <2>1, AppendProperties
  <2>3. \A i \in 1..Len(<<c>>) : <<c>>[i].out = <<>>
    <3>1. \A i \in 1..1 : i = 1
      OBVIOUS
    <3> QED BY <2>1, <2>2, <3>1
  <2> QED BY <1>1, <1>2, <1>3, <2>2, <2>3, EmptyOutInv
<1> QED BY <1>4, <1>5 DEF FsccEvtIoRead

\* A purge discards what is in the ring, and cancels what waits.
LEMMA PurgeRead ==
  ASSUME ~Streaming, NEW W, Lines(W), NEW b, FrameInv(W, b), OutInv(b), IndInv, SettingsStay,
         completed \in Seq(ReadCompletions), PurgeReset \/ PurgeQueues \/ PurgeFinish, Clean'
  PROVE  \E c : FrameInv(W, c)' /\ OutInv(c)'
<1> USE DEF device, ring, dpcs, user, ioctl
<1>1. \A r \in Readers : reader[r].pc # "stream"
  BY DEF FrameInv, ReadersInv
<1>2. /\ purge \in [pc : {"idle", "reset", "queues", "drain"}, timed_out : BOOLEAN,
                    results : Seq([status : {"success"}, timed_out : BOOLEAN])]
      /\ b \in Part /\ line.f \in Nat \ {0} /\ reader' = reader
  BY FrontBefore DEF PurgeReset, PurgeQueues, PurgeFinish, IndInv, TypeOK, TypeIoctl, TypeDevice
<1>3. PICK f : f = line.f
  OBVIOUS
<1>4. PICK c : c = FromFrame(f)
  OBVIOUS
<1>5. c \in Part /\ c.f = f
  BY <1>2, <1>3, <1>4 DEF FromFrame, Part
<1>6. CASE PurgeReset
  <2>1. purge'.pc = "queues" /\ purge'.timed_out = ~clock.on
    BY <1>2, <1>6 DEF PurgeReset
  <2>2. clock.on
    BY <2>1 DEF Clean
  <2>3. b.f <= f /\ FrameInv(W, FromFrame(f))'
    BY <1>3, <1>6, <2>2, ResetFrame
  <2>4. \A r \in Readers : reader[r].pc \notin Active
    BY <1>6, ActiveHolds DEF PurgeReset
  <2>5. completed' = completed /\ ~Unpurged'
    BY <1>6, <2>1 DEF PurgeReset, Unpurged
  <2>6. OutInv(c)'
    BY <1>2, <1>5, <2>3, <2>4, <2>5, JumpOutInv
  <2> QED BY <1>4, <2>3, <2>6
<1>7. CASE PurgeQueues
  <2> DEFINE n == Len(read_queue2)
             q == [j \in 1..n |-> Completion(read_queue2[j], "cancelled", 0, <<>>, 0)]
  <2>1. /\ UNCHANGED <<rx_descriptors, user_rx_desc, fifo_rx_desc, rx_bytes_in_frame,
                       rx_frame_size, rxfifo, bcfifo, line, recd, purged, iframe>>
        /\ purge.pc = "queues" /\ purge'.pc = "drain" /\ completed' = completed \o q
    BY <1>2, <1>7 DEF PurgeQueues
  <2>2. ReadersQuiet
    BY <1>1, <1>2 DEF ReadersQuiet
  <2>3. FrameInv(W, b)'
    BY <2>1, <2>2, QuietFrame
  <2>4. read_queue2 \in Seq(Nat) /\ n \in Nat
    BY LenProperties DEF IndInv, TypeOK, TypeUser
  <2>5. \A j \in 1..n : read_queue2[j] \in Nat
    BY <2>4, ElementOfSeq
  <2>6. q \in [1..n -> ReadCompletions] /\ \A j \in 1..n : q[j].out = <<>>
    BY <2>5, CompletionTypes DEF Completion
  <2> HIDE DEF q, n
  <2>7. q \in Seq(ReadCompletions) /\ Len(q) = n
    BY <2>4, <2>6, FunctionIsSeq
  <2>8. SameOut(reader', reader, b) /\ ~Unpurged'
    BY <1>2, <2>1, SameReaders DEF Unpurged
  <2>9. OutInv(b)'
    BY <2>1, <2>6, <2>7, <2>8, EmptyOutInv
  <2> QED BY <2>3, <2>9
<1>8. CASE PurgeFinish
  <2>1. b.f <= f /\ FrameInv(W, FromFrame(f))'
    BY <1>3, <1>8, FinishFrame
  <2>2. \A r \in Readers : reader[r].pc \notin Active
    BY <1>8 DEF PurgeFinish, Active
  <2>3. completed' = completed /\ ~Unpurged'
    <3> DEFINE x == [status |-> "success", timed_out |-> purge.timed_out]
    <3>1. purge' = [purge EXCEPT !.pc = "idle", !.results = Append(@, x)]
      BY <1>8 DEF PurgeFinish
    <3>2. x \in [status : {"success"}, timed_out : BOOLEAN]
      BY <1>2
    <3> HIDE DEF x
    <3>3. purge'.results = Append(purge.results, x)
      BY <1>2, <3>1
    <3>4. purge.results \in Seq([status : {"success"}, timed_out : BOOLEAN])
      BY <1>2
    <3>5. purge'.results # <<>>
      BY <3>2, <3>3, <3>4, AppendProperties, SMTT(20)
    <3> QED BY <1>8, <3>5 DEF PurgeFinish, Unpurged
  <2>4. OutInv(c)'
    BY <1>2, <1>5, <2>1, <2>2, <2>3, JumpOutInv
  <2> QED BY <1>4, <2>1, <2>4
<1> QED BY <1>6, <1>7, <1>8

\* Some place in the stream of parts explains the ring, the FIFO and what was returned.
ReadInv(W) == \E b : FrameInv(W, b) /\ OutInv(b)

OrderInv(W) == completed \in Seq(ReadCompletions) /\ (Clean => ReadInv(W))

\* A reset that was not executed is never forgotten.
LEMMA CleanBack ==
  ASSUME IndInv, [Next]_vars, Clean'
  PROVE  Clean
<1> USE DEF ioctl
<1>1. CASE purge' = purge
  BY <1>1 DEF Clean
<1>2. purge \in [pc : {"idle", "reset", "queues", "drain"}, timed_out : BOOLEAN,
                 results : Seq([status : {"success"}, timed_out : BOOLEAN])]
  BY DEF IndInv, TypeOK, TypeIoctl
<1>3. CASE PurgeBegin
  <2>1. purge'.results = purge.results /\ purge.pc = "idle"
    BY <1>2, <1>3 DEF PurgeBegin
  <2> QED BY <2>1 DEF Clean
<1>4. CASE PurgeReset
  <2>1. purge'.results = purge.results /\ purge.pc = "reset"
    BY <1>2, <1>4 DEF PurgeReset
  <2> QED BY <2>1 DEF Clean
<1>5. CASE PurgeQueues
  <2>1. purge'.results = purge.results /\ purge'.pc = "drain" /\ purge'.timed_out = purge.timed_out
    BY <1>2, <1>5 DEF PurgeQueues
  <2> QED BY <2>1 DEF Clean
<1>6. CASE PurgeFinish
  <2> DEFINE x == [status |-> "success", timed_out |-> purge.timed_out]
             s == purge.results
  <2>1. purge'.results = Append(s, x) /\ x \in [status : {"success"}, timed_out : BOOLEAN]
    BY <1>2, <1>6 DEF PurgeFinish
  <2>2. s \in Seq([status : {"success"}, timed_out : BOOLEAN])
    BY <1>2
  <2> HIDE DEF s
  <2>3. /\ Len(Append(s, x)) = Len(s) + 1 /\ Len(s) \in Nat
        /\ \A i \in 1..Len(s) : Append(s, x)[i] = s[i]
        /\ Append(s, x)[Len(s) + 1] = x
    BY <2>1, <2>2, AppendProperties, LenProperties
  <2>4. \A k \in 1..(Len(s) + 1) : ~Append(s, x)[k].timed_out
    BY <2>1, <2>3 DEF Clean
  <2>5. Len(s) + 1 \in 1..(Len(s) + 1) /\ \A k \in 1..Len(s) : k \in 1..(Len(s) + 1)
    BY <2>3
  <2>6. ~x.timed_out /\ \A k \in 1..Len(s) : ~s[k].timed_out
    BY <2>3, <2>4, <2>5
  <2> QED BY <2>6 DEF Clean, s
<1>7. CASE UNCHANGED vars
  BY <1>1, <1>7 DEF vars
<1>8. CASE Next
  <2>1. CASE (\E n \in Arrivals : LineArrive(n)) \/ (\E len \in ReadLens : FsccEvtIoRead(len))
    BY <2>1, <1>1 DEF LineArrive, FsccEvtIoRead
  <2>2. CASE LineLost \/ ClockChange \/ fscc_isr \/ timer_handler \/ IframeStart \/ IframeStep
             \/ (\E s \in Toggles : ToggleSetting(s))
    BY <2>2, <1>1 DEF LineLost, ClockChange, fscc_isr, timer_handler, IframeStart, IframeStep,
         FifoSample, FifoStore, IframeDone, ToggleSetting
  <2>3. CASE \E r \in Readers : ReaderStep(r)
    BY <2>3, <1>1 DEF ReaderStep, Locking, Copying, ProcessReadPeek, RetrieveNextRequest,
         ReadFrameRefuse, ReadFrameEnter, ReadStreamEnter, ReadFrameDesc, ReadNextFrame,
         ReadStreamDesc, ReadComplete
  <2>4. CASE PurgeStep
    BY <2>4, <1>3, <1>4, <1>5, <1>6 DEF PurgeStep
  <2> QED BY <1>8, <2>1, <2>2, <2>3, <2>4 DEF Next
<1> QED BY <1>7, <1>8

\* Every step keeps what explains what was returned.
LEMMA OrderStep ==
  ASSUME ~Streaming, RxSize % 4 = 0, NEW W, Lines(W), IndInv, OrderInv(W), [Next]_vars, SizeSeen
  PROVE  OrderInv(W)'
<1>1. SettingsStay
  BY SettingsKept
<1>2. completed \in Seq(ReadCompletions) /\ completed' \in Seq(ReadCompletions)
  BY CompletionTypes, HistoryKept DEF OrderInv
<1>3. SUFFICES ASSUME Clean'
               PROVE  ReadInv(W)'
  BY <1>2 DEF OrderInv
<1>4. PICK b : FrameInv(W, b) /\ OutInv(b)
  BY <1>3, CleanBack DEF OrderInv, ReadInv
<1>5. SUFFICES \E c : FrameInv(W, c)' /\ OutInv(c)'
  BY DEF ReadInv
<1>6. CASE \/ \E n \in Arrivals : LineArrive(n)
           \/ LineLost \/ ClockChange \/ fscc_isr \/ timer_handler
           \/ IframeStart \/ IframeStep \/ PurgeBegin
           \/ \E s \in Toggles : ToggleSetting(s)
           \/ UNCHANGED vars
  BY <1>1, <1>4, <1>6, DeviceRead
<1>7. CASE \E len \in ReadLens : FsccEvtIoRead(len)
  BY <1>1, <1>2, <1>4, <1>7, AskRead
<1>8. ASSUME NEW r \in Readers, ReaderStep(r)
      PROVE  \E c : FrameInv(W, c)' /\ OutInv(c)'
  <2>1. CASE ProcessReadPeek(r) \/ RetrieveNextRequest(r) \/ ReadFrameRefuse(r)
    BY <1>1, <1>2, <1>4, <2>1, WaitingRead
  <2>2. CASE ReadFrameEnter(r) \/ ReadNextFrame(r)
    BY <1>1, <1>4, <2>2, StartRead
  <2>3. CASE ReadFrameDesc(r)
    BY <1>1, <1>4, <2>3, PartRead
  <2>4. CASE ReadComplete(r)
    BY <1>1, <1>2, <1>4, <2>4, CompleteRead
  <2>5. CASE ReadStreamEnter(r) \/ ReadStreamDesc(r)
    BY <1>4, <2>5 DEF ReadStreamEnter, ReadStreamDesc, FrameInv, ReadersInv
  <2> QED BY <1>8, <2>1, <2>2, <2>3, <2>4, <2>5 DEF ReaderStep, Locking, Copying
<1>9. CASE PurgeReset \/ PurgeQueues \/ PurgeFinish
  BY <1>1, <1>2, <1>3, <1>4, <1>9, PurgeRead
<1> QED BY <1>6, <1>7, <1>8, <1>9 DEF Next, PurgeStep

\* The same of a state: the ring and the card are empty, and frame f is the next one.
LEMMA FirstFrame ==
  ASSUME ~Streaming, NEW W, Lines(W), NEW f \in Nat \ {0}, f <= Len(Traffic) + 1,
         NEW ds, ds = rx_descriptors, \A i \in Ring : OpenDesc(ds[i]) /\ ds[i].cnt = 0,
         user_rx_desc \in Ring, fifo_rx_desc = user_rx_desc,
         rx_bytes_in_frame = 0, rx_frame_size = 0, Len(rxfifo) = 0, Len(bcfifo) = 0,
         bcfifo = <<>>, line = [f |-> f, k |-> 0], recd <=> purge.pc # "idle", purged < f,
         \A r \in Readers : reader[r].pc \notin {"copy", "next", "stream"}
  PROVE  FrameInv(W, FromFrame(f))
<1> DEFINE b   == FromFrame(f)
           t   == [k \in 0..RxNum |-> b]
           tip == [f |-> f, k |-> 0]
<1>1. /\ b \in Part /\ b.f = f /\ b.from = 0 /\ tip \in [f : Nat \ {0}, k : Nat] /\ tip.f = f
      /\ tip.k = 0 /\ Len(Traffic) \in Nat /\ f \in Nat
  BY TrafficAssumption, LenProperties DEF FromFrame, Part
<1>2. t \in [0..RxNum -> Part] /\ t[0] = b /\ 0 \in 0..RxNum
  BY <1>1, RingFacts
<1>3. W[f] \in Nat
  <2>1. f \in 1..(Len(Traffic) + 1)
    BY <1>1
  <2> QED BY <2>1, LinesType
<1> HIDE DEF b, t, tip
<1>4. RingInv(0, t)
  <2>1. Chain(t, 0)
    <3>1. \A k \in 0..(0 - 1) : FALSE
      OBVIOUS
    <3> QED BY <3>1 DEF Chain
  <2>2. RingHolds(ds, user_rx_desc, fifo_rx_desc, 0, t)
    <3>1. ASSUME NEW k \in Ring
          PROVE  RingPos(user_rx_desc, k) \in Ring /\ ~(k < 0)
      <4>1. k \in Nat /\ k \in 0..RxNum
        BY RingFacts
      <4>2. ~(k < 0)
        BY <4>1
      <4> QED BY <4>1, <4>2, PosType
    <3> QED BY <3>1, PosZero DEF RingHolds
  <2>3. Filling(ds, fifo_rx_desc, 0, t[0], 0)
    <3>1. ds[fifo_rx_desc].cnt = 0 /\ 0 < RxSize /\ 0 % 4 = 0 /\ t[0].from = 0
      <4>1. fifo_rx_desc \in Ring
        OBVIOUS
      <4>2. ds[fifo_rx_desc].cnt = 0
        BY <4>1
      <4> QED BY <4>2, <1>1, <1>2, RingAssumption
    <3>2. BytesOf(ds[fifo_rx_desc].buffer, t[0], 0)
      BY DEF BytesOf
    <3>3. 0 = 0 + 0
      OBVIOUS
    <3> QED BY <3>1, <3>2, <3>3 DEF Filling
  <2> QED BY <2>1, <2>2, <2>3 DEF RingInv
<1>5. FifoInv(W, f, tip)
  <2>1. IsPlace(tip)
    BY <1>1 DEF IsPlace
  <2>2. Position(f, 0, tip)
    <3>1. ~(f < f) /\ f <= f /\ 0 <= 0 /\ 0 % 4 = 0
      BY <1>1
    <3> QED BY <1>1, <3>1 DEF Position
  <2>3. FifoRun(W, rxfifo, W[f] + 0, tip)
    <3>1. (W[f] + 0) - (W[f] + 0) = 0
      BY <1>3
    <3>2. \A x : x \notin 1..0
      OBVIOUS
    <3> QED BY <1>1, <3>1, <3>2 DEF FifoRun
  <2>4. SizesOf(bcfifo, f, f)
    <3>1. f - f = 0
      BY <1>1
    <3> QED BY <3>1 DEF SizesOf
  <2> QED BY <1>1, <2>1, <2>2, <2>3, <2>4 DEF FifoInv
<1>6. TipInv(f, 0, t, tip)
  <2>1. tip = line /\ line.k = 0 /\ line.f = f /\ f <= f
    BY <1>1 DEF tip
  <2> QED BY <1>1, <1>2, <2>1 DEF TipInv
<1>7. ReadersInv(0, b)
  BY <1>1 DEF ReadersInv
<1> QED BY <1>1, <1>2, <1>4, <1>5, <1>6, <1>7 DEF FrameInv, b

\* At the start the ring and the FIFO are empty, and nothing was returned.
LEMMA OrderInit ==
  ASSUME ~Streaming, NEW W, Lines(W), Init
  PROVE  OrderInv(W)
<1>1. completed = <<>> /\ completed \in Seq(ReadCompletions) /\ Len(completed) = 0
  BY EmptySeq DEF Init
<1>2. PICK b : b = FromFrame(1)
  OBVIOUS
<1>5. FrameInv(W, b)
  <2>1. /\ \A i \in Ring : OpenDesc(rx_descriptors[i]) /\ rx_descriptors[i].cnt = 0
        /\ user_rx_desc = 0 /\ fifo_rx_desc = 0 /\ 0 \in Ring
    BY RingFacts DEF Init, Ring, OpenDesc
  <2>2. /\ rx_bytes_in_frame = 0 /\ rx_frame_size = 0 /\ Len(rxfifo) = 0 /\ Len(bcfifo) = 0
        /\ bcfifo = <<>> /\ line = [f |-> 1, k |-> 0]
    BY DEF Init
  <2>3. (recd <=> purge.pc # "idle") /\ purged < 1
    BY DEF Init
  <2>4. \A r \in Readers : reader[r].pc \notin {"copy", "next", "stream"}
    BY DEF Init, IdleReader
  <2>5. 1 \in Nat \ {0} /\ 1 <= Len(Traffic) + 1
    BY TrafficAssumption, LenProperties
  <2> QED BY <1>2, <2>1, <2>2, <2>3, <2>4, <2>5, FirstFrame
<1>3. OutOf(reader, completed, purged, b, Cuts, Stamps)
  <2>1. \A i : i \notin 1..0
    OBVIOUS
  <2>2. \A r \in Readers : reader[r].pc = "idle" /\ reader[r].out = <<>>
    BY DEF Init, IdleReader
  <2> QED BY <1>1, <2>1, <2>2, NothingJoined DEF OutOf, ReaderOut, Active
<1>4. NoGap(reader, completed, b)
  <2>1. Copied(b) = 0 /\ \A f : f \notin 1..0
    BY <1>2 DEF Copied, FromFrame
  <2> QED BY <2>1 DEF NoGap
<1> QED BY <1>1, <1>3, <1>4, <1>5 DEF OrderInv, ReadInv, OutInv

-----------------------------------------------------------------------------
(* What the invariant says of the requests that were completed.            *)

\* No reset of the receiver goes unexecuted for want of a clock.
ClockedPurge == PurgeReset => clock.on

\* As long as every reset is executed and no frame ends between two reads of the
\* card's counters, the items returned are explained by the stream on the line.
LEMMA OrderInvariance ==
  ASSUME ~Streaming, RxSize % 4 = 0, NEW W, Lines(W)
  PROVE  Spec /\ [][SizeSeen]_vars => [](IndInv /\ OrderInv(W))
<1>1. Init => OrderInv(W)
  BY OrderInit
<1>2. IndInv /\ OrderInv(W) /\ [Next]_vars /\ [SizeSeen]_vars => OrderInv(W)'
  <2>1. [SizeSeen]_vars => SizeSeen
    BY DEF vars, device, SizeSeen
  <2> QED BY <2>1, OrderStep
<1> QED BY <1>1, <1>2, Invariance, PTL DEF Spec

\* Every reset was executed if none was without a clock.
LEMMA CleanAlways == Spec /\ [][ClockedPurge]_vars => []Clean
<1> USE DEF ioctl
<1>1. Init => Clean
  <2>1. \A k : k \notin 1..0
    OBVIOUS
  <2> QED BY <2>1, EmptySeq DEF Init, Clean
<1>2. IndInv /\ Clean /\ [Next]_vars /\ [ClockedPurge]_vars => Clean'
  <2> SUFFICES ASSUME IndInv, Clean, [Next]_vars, [ClockedPurge]_vars
               PROVE  Clean'
    OBVIOUS
  <2>1. CASE purge' = purge
    BY <2>1 DEF Clean
  <2>2. purge \in [pc : {"idle", "reset", "queues", "drain"}, timed_out : BOOLEAN,
                   results : Seq([status : {"success"}, timed_out : BOOLEAN])]
    BY DEF IndInv, TypeOK, TypeIoctl
  <2>3. CASE PurgeBegin
    <3>1. purge'.results = purge.results /\ purge'.pc = "reset"
      BY <2>2, <2>3 DEF PurgeBegin
    <3> QED BY <3>1 DEF Clean
  <2>4. CASE PurgeReset
    <3>1. purge' = [purge EXCEPT !.pc = "queues", !.timed_out = ~clock.on] /\ purge.pc = "reset"
      BY <2>4 DEF PurgeReset
    <3>2. purge'.results = purge.results /\ purge'.timed_out = ~clock.on /\ purge' # purge
      BY <2>2, <3>1
    <3>3. clock.on
      BY <2>4, <3>2 DEF ClockedPurge, vars
    <3> QED BY <3>2, <3>3 DEF Clean
  <2>5. CASE PurgeQueues
    <3>1. /\ purge'.results = purge.results /\ purge.pc = "queues"
          /\ purge'.timed_out = purge.timed_out
      BY <2>2, <2>5 DEF PurgeQueues
    <3> QED BY <3>1 DEF Clean
  <2>6. CASE PurgeFinish
    <3> DEFINE x == [status |-> "success", timed_out |-> purge.timed_out]
               s == purge.results
    <3>1. /\ purge'.results = Append(s, x) /\ x \in [status : {"success"}, timed_out : BOOLEAN]
          /\ purge'.pc = "idle" /\ purge.pc = "drain"
      BY <2>2, <2>6 DEF PurgeFinish
    <3>2. s \in Seq([status : {"success"}, timed_out : BOOLEAN])
      BY <2>2
    <3>3. ~x.timed_out /\ \A k \in 1..Len(s) : ~s[k].timed_out
      BY <3>1 DEF Clean
    <3> HIDE DEF s, x
    <3>4. /\ Len(Append(s, x)) = Len(s) + 1 /\ Len(s) \in Nat
          /\ \A i \in 1..Len(s) : Append(s, x)[i] = s[i]
          /\ Append(s, x)[Len(s) + 1] = x
      BY <3>1, <3>2, AppendProperties, LenProperties
    <3>5. \A k \in 1..(Len(s) + 1) : k \in 1..Len(s) \/ k = Len(s) + 1
      BY <3>4
    <3>6. \A k \in 1..Len(Append(s, x)) : ~Append(s, x)[k].timed_out
      BY <3>3, <3>4, <3>5
    <3> QED BY <3>1, <3>6 DEF Clean
  <2>7. CASE UNCHANGED vars
    BY <2>1, <2>7 DEF vars
  <2>8. CASE Next
    <3>1. CASE (\E n \in Arrivals : LineArrive(n)) \/ (\E len \in ReadLens : FsccEvtIoRead(len))
      BY <3>1, <2>1 DEF LineArrive, FsccEvtIoRead
    <3>2. CASE LineLost \/ ClockChange \/ fscc_isr \/ timer_handler \/ IframeStart \/ IframeStep
               \/ (\E s \in Toggles : ToggleSetting(s))
      BY <3>2, <2>1 DEF LineLost, ClockChange, fscc_isr, timer_handler, IframeStart, IframeStep,
           FifoSample, FifoStore, IframeDone, ToggleSetting
    <3>3. CASE \E r \in Readers : ReaderStep(r)
      BY <3>3, <2>1 DEF ReaderStep, Locking, Copying, ProcessReadPeek, RetrieveNextRequest,
           ReadFrameRefuse, ReadFrameEnter, ReadStreamEnter, ReadFrameDesc, ReadNextFrame,
           ReadStreamDesc, ReadComplete
    <3>4. CASE PurgeStep
      BY <3>4, <2>3, <2>4, <2>5, <2>6 DEF PurgeStep
    <3> QED BY <2>8, <3>1, <3>2, <3>3, <3>4 DEF Next
  <2> QED BY <2>7, <2>8
<1> QED BY <1>1, <1>2, Invariance, PTL DEF Spec

\* If nothing arrives while fscc_fifo_read_data is between the two reads, no frame ends there.
LEMMA PaceSeen ==
  ASSUME LinePace = 0
  PROVE  Spec => [][SizeSeen]_vars
<1> USE DEF device, ring, dpcs, user, ioctl
<1>1. IndInv /\ [Next]_vars => [SizeSeen]_vars
  <2> SUFFICES ASSUME IndInv, [Next]_vars, iframe.pc = "store"
               PROVE  bcfifo' = bcfifo
    BY DEF SizeSeen
  <2>1. iframe.pace \in Nat /\ board_rx_spinlock = "iframe"
    BY DEF IndInv, TypeOK, TypeDpc, LockOwnership
  <2>2. ASSUME NEW n \in Arrivals, LineArrive(n)
        PROVE  FALSE
    <3>1. iframe.pace < 0
      BY <2>2 DEF LineArrive
    <3> QED BY <2>1, <3>1
  <2>3. CASE UNCHANGED vars
    BY <2>3 DEF vars
  <2>4. CASE Next
    <3>1. CASE LineLost \/ ClockChange \/ fscc_isr \/ timer_handler \/ IframeStart \/ IframeStep
               \/ (\E s \in Toggles : ToggleSetting(s)) \/ (\E len \in ReadLens : FsccEvtIoRead(len))
      BY <3>1 DEF LineLost, ClockChange, fscc_isr, timer_handler, IframeStart, IframeStep,
           FifoSample, FifoStore, IframeDone, ToggleSetting, FsccEvtIoRead
    <3>2. CASE \E r \in Readers : ReaderStep(r)
      BY <3>2 DEF ReaderStep, Locking, Copying, ProcessReadPeek, RetrieveNextRequest,
           ReadFrameRefuse, ReadFrameEnter, ReadStreamEnter, ReadFrameDesc, ReadNextFrame,
           ReadStreamDesc, ReadComplete
    <3>3. CASE PurgeStep
      BY <2>1, <3>3 DEF PurgeStep, PurgeBegin, PurgeReset, PurgeQueues, PurgeFinish
    <3> QED BY <2>2, <2>4, <3>1, <3>2, <3>3 DEF Next
  <2> QED BY <2>3, <2>4
<1> QED BY <1>1, Invariance, PTL DEF Spec

\* If the receive clock never disappears, every reset is executed.
LEMMA ClockStays ==
  ASSUME MaxOutages = 0
  PROVE  Spec => [][ClockedPurge]_vars
<1> USE DEF device, ring, dpcs, user, ioctl
<1> DEFINE On == clock.on
<1>1. Init => On
  BY DEF Init
<1>2. IndInv /\ On /\ [Next]_vars => On'
  <2> SUFFICES ASSUME IndInv, On, [Next]_vars
               PROVE  clock' = clock
    OBVIOUS
  <2>1. ASSUME ClockChange
        PROVE  FALSE
    <3>1. clock.outages < 0 /\ clock.outages \in Nat
      BY <2>1 DEF ClockChange, IndInv, TypeOK, TypeDevice
    <3> QED BY <3>1
  <2>2. CASE UNCHANGED vars
    BY <2>2 DEF vars
  <2>3. CASE Next
    <3>1. CASE LineLost \/ fscc_isr \/ timer_handler \/ IframeStart \/ IframeStep
               \/ (\E s \in Toggles : ToggleSetting(s)) \/ (\E len \in ReadLens : FsccEvtIoRead(len))
               \/ (\E n \in Arrivals : LineArrive(n))
      BY <3>1 DEF LineLost, fscc_isr, timer_handler, IframeStart, IframeStep,
           FifoSample, FifoStore, IframeDone, ToggleSetting, FsccEvtIoRead, LineArrive
    <3>2. CASE \E r \in Readers : ReaderStep(r)
      BY <3>2 DEF ReaderStep, Locking, Copying, ProcessReadPeek, RetrieveNextRequest,
           ReadFrameRefuse, ReadFrameEnter, ReadStreamEnter, ReadFrameDesc, ReadNextFrame,
           ReadStreamDesc, ReadComplete
    <3>3. CASE PurgeStep
      BY <3>3 DEF PurgeStep, PurgeBegin, PurgeReset, PurgeQueues, PurgeFinish
    <3> QED BY <2>1, <2>3, <3>1, <3>2, <3>3 DEF Next
  <2> QED BY <2>2, <2>3
<1>3. On => [ClockedPurge]_vars
  BY DEF ClockedPurge
<1> QED BY <1>1, <1>2, <1>3, Invariance, PTL DEF Spec

\* The data returned is of frames on the line, so that its last byte is known.
LEMMA EndsBridge ==
  ASSUME NEW W, NEW b, FrameInv(W, b), IndInv, NEW c \in ReadCompletions,
         Returned(c, b, Cuts, Stamps), NEW j \in 1..Len(c.out), c.out[j][2] > 0,
         Ends(c.out[j], Cuts)
  PROVE  EndsFrame(c.out[j])
<1> DEFINE x == c.out[j]
<1>1. c.out \in Seq(Byte) /\ c.purged \in Nat
  BY DEF ReadCompletions
<1>2. x \in Byte /\ x[1] > c.purged /\ x[1] <= b.f - 1
  BY <1>1, ElementOfSeq DEF Returned, InLine, Since, UpTo
<1>3. x[1] \in Nat /\ b.f \in Nat /\ b.f <= line.f /\ line.f <= Len(Traffic) + 1 /\ line.f \in Nat
      /\ Len(Traffic) \in Nat
  BY <1>2, FrontBefore, TrafficAssumption, LenProperties DEF Byte, IndInv, TypeOK, TypeDevice
<1>4. x[1] \in Frames
  <2>1. PICK f : f = x[1]
    OBVIOUS
  <2>2. PICK p : p = c.purged
    OBVIOUS
  <2>3. f > p /\ f <= b.f - 1 /\ p \in Nat /\ f \in Nat
    BY <1>1, <1>2, <1>3, <2>1, <2>2
  <2>4. f >= 1 /\ f <= Len(Traffic)
    <3> HIDE DEF x
    <3> QED BY <1>3, <2>3
  <2> QED BY <1>3, <2>1, <2>3, <2>4 DEF Frames
<1>5. Traffic[x[1]] \in Nat
  BY <1>4, FrameWords
<1> HIDE DEF x
<1>6. PICK k \in Cuts : x[2] = Traffic[x[1]] - k
  BY DEF Ends, x
<1>7. CASE k = 0
  <2>1. x[2] = Traffic[x[1]] /\ StatusOn
    BY <1>5, <1>6, <1>7 DEF Cuts
  <2> QED BY <2>1 DEF EndsFrame, StatusOn, x
<1>8. CASE k # 0
  <2>1. k = StatusBytes /\ StatusOff
    BY <1>6, <1>8 DEF Cuts
  <2> QED BY <1>6, <2>1 DEF EndsFrame, StatusOff, x
<1> QED BY <1>7, <1>8

\* What may close a frame, in the terms of the properties.
LEMMA ClosesBridge ==
  ASSUME NEW W, NEW b, FrameInv(W, b), IndInv, NEW c \in ReadCompletions,
         Returned(c, b, Cuts, Stamps), NEW j \in 1..Len(c.out), Closes(c.out, j, Cuts, Stamps)
  PROVE  ClosesFrame(c.out, j)
<1>1. CASE c.out[j][2] > 0 /\ Ends(c.out[j], Cuts) /\ 0 \in Stamps
  <2>1. EndsFrame(c.out[j]) /\ StampOff
    BY <1>1, EndsBridge DEF Stamps
  <2> QED BY <1>1, <2>1 DEF ClosesFrame, StampOff
<1>2. CASE /\ c.out[j][2] = 0 /\ j > 1 /\ c.out[j - 1][2] > 0 /\ Ends(c.out[j - 1], Cuts)
           /\ 1 \in Stamps
  <2>1. PICK k : k = j - 1
    OBVIOUS
  <2>2. k \in 1..Len(c.out)
    <3>1. Len(c.out) \in Nat
      BY LenProperties DEF ReadCompletions
    <3> QED BY <1>2, <2>1, <3>1
  <2>3. EndsFrame(c.out[k]) /\ StampOn
    BY <1>2, <2>1, <2>2, EndsBridge DEF Stamps
  <2> QED BY <1>2, <2>1, <2>3 DEF ClosesFrame, StampOn
<1> QED BY <1>1, <1>2 DEF Closes

\* Whole frames were returned.
LEMMA IntactFollows ==
  ASSUME NoEmpty, NEW W, NEW b, FrameInv(W, b), OutInv(b), IndInv,
         completed \in Seq(ReadCompletions)
  PROVE  FramesIntact
<1>1. ASSUME NEW i \in Successes, NEW j \in 1..Len(completed[i].out)
      PROVE  LET out == completed[i].out
             IN /\ j = 1 => out[j][2] = 1
                /\ j = Len(out) => ClosesFrame(out, j)
                /\ j < Len(out) =>
                     \/ out[j][2] > 0 /\ out[j + 1] = <<out[j][1], out[j][2] + 1>>
                     \/ out[j][2] > 0 /\ EndsFrame(out[j]) /\ out[j + 1][2] = 0
                     \/ ClosesFrame(out, j) /\ out[j + 1][2] = 1
  <2>1. PICK c : c = completed[i]
    OBVIOUS
  <2>2. c \in ReadCompletions /\ Returned(c, b, Cuts, Stamps)
    BY <2>1, ElementOfSeq DEF Successes, OutInv, OutOf
  <2>3. c.out \in Seq(Byte) /\ Len(c.out) \in Nat /\ j \in 1..Len(c.out)
    BY <2>1, <2>2, LenProperties DEF ReadCompletions
  <2>4. Joined(c.out, Cuts, Stamps) /\ Closed(c.out, Cuts, Stamps) /\ Len(c.out) > 0
    BY <2>2, <2>3 DEF Returned
  <2>5. j = 1 => c.out[j][2] = 1
    BY <2>4 DEF Joined
  <2>6. j = Len(c.out) => ClosesFrame(c.out, j)
    BY <2>2, <2>3, <2>4, ClosesBridge DEF Closed
  <2>7. ASSUME j < Len(c.out)
        PROVE  \/ c.out[j][2] > 0 /\ c.out[j + 1] = <<c.out[j][1], c.out[j][2] + 1>>
               \/ c.out[j][2] > 0 /\ EndsFrame(c.out[j]) /\ c.out[j + 1][2] = 0
               \/ ClosesFrame(c.out, j) /\ c.out[j + 1][2] = 1
    <3>1. j \in 1..(Len(c.out) - 1)
      BY <2>3, <2>7
    <3>2. Follows(c.out, j, Cuts, Stamps)
      BY <2>4, <3>1 DEF Joined
    <3>3. c.out[j][2] > 0 /\ Ends(c.out[j], Cuts) => EndsFrame(c.out[j])
      BY <2>2, <2>3, EndsBridge
    <3>4. Closes(c.out, j, Cuts, Stamps) => ClosesFrame(c.out, j)
      BY <2>2, <2>3, ClosesBridge
    <3> QED BY <3>2, <3>3, <3>4 DEF Follows
  <2> QED BY <2>1, <2>5, <2>6, <2>7
<1> QED BY <1>1 DEF FramesIntact

\* Frames were returned in order, and none was left out.
LEMMA OrderFollows ==
  ASSUME NoEmpty, NEW W, NEW b, FrameInv(W, b), OutInv(b), IndInv,
         completed \in Seq(ReadCompletions)
  PROVE  FramesInOrder
<1> DEFINE h == completed
<1>1. ASSUME NEW i \in 1..Len(h), NEW k \in 1..Len(h),
             NEW j \in 1..Len(h[i].out), NEW l \in 1..Len(h[k].out),
             i < k \/ (i = k /\ j < l), h[i].out[j][2] = 1, h[k].out[l][2] = 1
      PROVE  h[i].out[j][1] < h[k].out[l][1]
  <2>1. h[i].out[j][2] > 0 /\ h[k].out[l][2] > 0
    BY <1>1
  <2>2. CASE i < k
    <3>1. Before(h[i].out, h[k].out)
      BY <2>2 DEF OutInv, OutOf
    <3> HIDE DEF h
    <3> QED BY <2>1, <3>1 DEF Before
  <2>3. CASE i = k /\ j < l
    <3>1. Rising(h[i].out)
      BY DEF OutInv, OutOf, Returned, InLine
    <3> HIDE DEF h
    <3> QED BY <1>1, <2>3, <3>1 DEF Rising
  <2> QED BY <1>1, <2>2, <2>3
<1>2. ASSUME purge.results = <<>>, purge.pc = "idle",
             NEW i \in 1..Len(h), NEW j \in 1..Len(h[i].out),
             h[i].out[j][2] = 1, h[i].out[j][1] > 1
      PROVE  \E k \in 1..Len(h) : \E l \in 1..Len(h[k].out) :
               h[k].out[l] = <<h[i].out[j][1] - 1, 1>>
  <2>1. PICK f : f = h[i].out[j][1]
    OBVIOUS
  <2>2. PICK g : g = f - 1
    OBVIOUS
  <2>3. /\ h[i].out \in Seq(Byte) /\ Returned(h[i], b, Cuts, Stamps) /\ b \in Part
        /\ h[i].out[j] \in Byte
    <3>1. h[i] \in ReadCompletions
      BY ElementOfSeq
    <3>2. h[i].out \in Seq(Byte)
      BY <3>1 DEF ReadCompletions
    <3>3. Returned(h[i], b, Cuts, Stamps) /\ b \in Part
      BY FrontBefore DEF OutInv, OutOf
    <3> HIDE DEF h
    <3> QED BY <3>2, <3>3, ElementOfSeq
  <2>4. f \in Nat /\ f > 1 /\ f <= b.f - 1 /\ b.f - 1 <= Copied(b) /\ b.f - 1 \in Nat /\ Copied(b) \in Nat
    <3>1. h[i].out[j][2] > 0
      BY <1>2
    <3>2. UpTo(h[i].out, b.f - 1)
      BY <2>3 DEF Returned, InLine
    <3> HIDE DEF h
    <3> QED BY <1>2, <2>1, <2>3, <3>1, <3>2, CopiedType DEF UpTo, Byte
  <2>5. g \in 1..Copied(b) /\ g < f /\ g \in Nat
    BY <2>2, <2>4
  <2>6. NoGap(reader, h, b)
    BY <1>2 DEF OutInv, Unpurged
  <2>7. ASSUME NEW r \in Readers, Starts(reader[r].out, g)
        PROVE  FALSE
    <3>1. PICK l \in 1..Len(reader[r].out) : reader[r].out[l] = <<g, 1>>
      BY <2>7 DEF Starts
    <3>2. Before(h[i].out, reader[r].out)
      BY DEF OutInv, OutOf
    <3> HIDE DEF h
    <3>3. h[i].out[j][2] > 0 /\ reader[r].out[l][2] > 0 /\ reader[r].out[l][1] = g
      BY <1>2, <3>1
    <3>4. f < g
      BY <2>1, <3>2, <3>3 DEF Before
    <3> QED BY <2>4, <2>5, <3>4
  <2>8. PICK k \in 1..Len(h) : Starts(h[k].out, g)
    BY <2>5, <2>6, <2>7 DEF NoGap
  <2> HIDE DEF h
  <2> QED BY <2>1, <2>2, <2>8 DEF Starts
<1> QED BY <1>1, <1>2 DEF FramesInOrder

\* Every timestamp returned is later than the frame before it.
LEMMA StampFollows ==
  ASSUME NEW b, OutInv(b), completed \in Seq(ReadCompletions)
  PROVE  TimestampAfterReception
<1>1. \A i \in Successes : Dated(completed[i].out)
  BY DEF Successes, OutInv, OutOf, Returned, InLine
<1> QED BY <1>1 DEF TimestampAfterReception, Dated

\* Nothing from before a purge was returned after it.
LEMMA PurgeFollows ==
  ASSUME NEW b, OutInv(b), completed \in Seq(ReadCompletions)
  PROVE  PurgeDiscards
<1>1. \A i \in Successes : Since(completed[i].out, completed[i].purged)
  BY DEF Successes, OutInv, OutOf, Returned, InLine
<1> QED BY <1>1 DEF PurgeDiscards, Since

\* In a framed mode nothing that had been received when a purge reset the ring is ever
\* returned by a read that is completed later, whatever executions of FsccProcessRead,
\* iframe_worker and fscc_io_purge_rx overlap, as long as the card executed every reset.
\* SizeSeen excludes a frame that ends between the reads of RFCNT and RXCNT in
\* fscc_fifo_read_data; fscc_io_create_rx rounds RxSize to a multiple of four.
THEOREM PurgeSafety ==
  ASSUME ~Streaming, RxSize % 4 = 0
  PROVE  Spec /\ [][SizeSeen]_vars => []PurgeDiscards
<1>1. PICK W : Lines(W)
  BY LinesExist
<1>2. OrderInv(W) => PurgeDiscards
  <2> SUFFICES ASSUME OrderInv(W), ~purge.timed_out,
                      \A k \in 1..Len(purge.results) : ~purge.results[k].timed_out
               PROVE  PurgeDiscards
    BY DEF PurgeDiscards
  <2>1. Clean
    BY DEF Clean
  <2>2. PICK b : OutInv(b)
    BY <2>1 DEF OrderInv, ReadInv
  <2> QED BY <2>2, PurgeFollows DEF OrderInv
<1> QED BY <1>1, <1>2, OrderInvariance, PTL

\* In a framed mode every timestamp is later than the frame it is returned behind: it is
\* taken when iframe_worker closes the frame's last descriptor, and neither a reader nor a
\* purge exchanges the timestamps of two frames.
THEOREM TimestampSafety ==
  ASSUME ~Streaming, RxSize % 4 = 0
  PROVE  Spec /\ [][SizeSeen]_vars /\ [][ClockedPurge]_vars => []TimestampAfterReception
<1>1. PICK W : Lines(W)
  BY LinesExist
<1>2. OrderInv(W) /\ Clean => TimestampAfterReception
  BY StampFollows DEF OrderInv, ReadInv
<1> QED BY <1>1, <1>2, OrderInvariance, CleanAlways, PTL

\* Every successful read of a framed mode returns whole frames as they were on the line,
\* through the FIFO's words, the descriptors' CSTOP and FE flags and any number of
\* overlapping reads, if every frame has a byte of data.
THEOREM IntactSafety ==
  ASSUME NoEmpty, RxSize % 4 = 0
  PROVE  Spec /\ [][SizeSeen]_vars /\ [][ClockedPurge]_vars => []FramesIntact
<1>1. CASE Streaming
  <2>1. FramesIntact
    BY <1>1 DEF FramesIntact
  <2> QED BY <2>1, PTL
<1>2. CASE ~Streaming
  <2>1. PICK W : Lines(W)
    BY LinesExist
  <2>2. IndInv /\ OrderInv(W) /\ Clean => FramesIntact
    BY IntactFollows DEF OrderInv, ReadInv
  <2> QED BY <1>2, <2>1, <2>2, OrderInvariance, CleanAlways, PTL
<1> QED BY <1>1, <1>2

\* Frames reach the applications in the order of the line, each at most once, and without
\* a gap as long as nothing was purged, whichever of the overlapping executions of
\* FsccProcessRead copies them.
THEOREM InOrderSafety ==
  ASSUME NoEmpty, RxSize % 4 = 0
  PROVE  Spec /\ [][SizeSeen]_vars /\ [][ClockedPurge]_vars => []FramesInOrder
<1>1. CASE Streaming
  <2>1. FramesInOrder
    BY <1>1 DEF FramesInOrder
  <2> QED BY <2>1, PTL
<1>2. CASE ~Streaming
  <2>1. PICK W : Lines(W)
    BY LinesExist
  <2>2. IndInv /\ OrderInv(W) /\ Clean => FramesInOrder
    BY OrderFollows DEF OrderInv, ReadInv
  <2> QED BY <1>2, <2>1, <2>2, OrderInvariance, CleanAlways, PTL
<1> QED BY <1>1, <1>2
=============================================================================
