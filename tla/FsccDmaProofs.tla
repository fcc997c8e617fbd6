---------------------------- MODULE FsccDmaProofs ----------------------------
(***************************************************************************)
(* Proofs about the receive half of FsccDma: for every ring size, any      *)
(* frames and any number of reads and purges, whatever the engine and the  *)
(* writers do meanwhile.                                                   *)
(***************************************************************************)
EXTENDS FsccDma, SequenceTheorems, FiniteSetTheorems, WellFoundedInduction, TLAPS

-----------------------------------------------------------------------------
(* The invariant.                                                          *)

Ring == 0..(RxNum - 1)

\* The k-th position from u.
Pos(u, k) == (u + k) % RxNum

Cell  == [frame : Nat, part : Nat, end : BOOLEAN, at : Nat]
Part  == [frame : Nat, part : Nat]
Frame == [parts : Seq(Part), stamp : Nat, at : Nat]

\* What the line brings after a part.
Follow(c) == IF c.part = Arrivals[c.frame] THEN [frame |-> c.frame + 1, part |-> 1]
                                           ELSE [frame |-> c.frame, part |-> c.part + 1]

\* The k-th of the n parts in the ring from position u, then the next to come.
Item(ring, u, next, n, k) ==
  IF k < n THEN [frame |-> ring[Pos(u, k)].frame, part |-> ring[Pos(u, k)].part] ELSE next

\* The ring holds n parts that came one after the other, from a frame's first on.
Chain(ring, u, next, n) ==
  /\ \A k \in Ring : ring[Pos(u, k)] # RxFree <=> k < n
  /\ Item(ring, u, next, n, 0).part = 1
  /\ \A k \in 0..(n - 1) : Item(ring, u, next, n, k + 1) = Follow(Item(ring, u, next, n, k))

TypeInv ==
  /\ rx \in [Ring -> Cell] /\ stamp \in [Ring -> Nat] /\ user_rx_desc \in Ring
  /\ engineR \in [run : BOOLEAN, at : Ring, seen : BOOLEAN]
  /\ arriving \in [frame : Nat \ {0}, part : Nat \ {0}] /\ clock \in Nat
  /\ got \in Seq(Frame)
  /\ purge \in [tx : {"idle", "base"}, rx : {"idle", "base"}, left : Nat]

\* A finished descriptor holds a part of a frame of the line, marked when it is the
\* last one, that came at or before the present time.
CellInv ==
  \A i \in Ring : rx[i] # RxFree =>
    /\ rx[i].frame \in 1..Len(Arrivals) /\ rx[i].part \in 1..Arrivals[rx[i].frame]
    /\ rx[i].end <=> rx[i].part = Arrivals[rx[i].frame]
    /\ rx[i].at <= clock

LineInv == arriving.frame <= Len(Arrivals) => arriving.part <= Arrivals[arriving.frame]

\* Only finished descriptors are stamped, and none before its part came.
StampInv == \A i \in Ring : stamp[i] # 0 => rx[i] # RxFree /\ stamp[i] >= rx[i].at

\* The engine is in front of the parts in the ring.
ChainInv ==
  \E n \in 0..RxNum : engineR.at = Pos(user_rx_desc, n) /\ Chain(rx, user_rx_desc, arriving, n)

\* Until a purge starts the engine again nothing comes.
PurgeInv ==
  purge.rx = "base" => /\ \A i \in Ring : rx[i] = RxFree
                       /\ user_rx_desc = 0 /\ ~engineR.run

\* What a read returned was a whole frame, stamped after it had come.
Whole(g) ==
  /\ g.parts[1].frame \in 1..Len(Arrivals)
  /\ g.parts = [k \in 1..Arrivals[g.parts[1].frame] |-> [frame |-> g.parts[1].frame, part |-> k]]
  /\ g.stamp >= g.at

GotInv == \A i \in 1..Len(got) : Whole(got[i])

\* The inductive invariant.
RxInv ==
  TypeInv /\ CellInv /\ LineInv /\ StampInv /\ ChainInv /\ PurgeInv /\ GotInv

-----------------------------------------------------------------------------
(* Numbers and positions.                                                  *)

\* A set of natural numbers has a least element.
LEMMA LeastNat ==
  ASSUME NEW T, T \subseteq Nat, T # {}
  PROVE  \E x \in T : \A y \in T : x <= y
<1> DEFINE R == {ss \in Nat \X Nat : ss[1] < ss[2]}
<1>1. IsWellFoundedOn(R, Nat)
  BY NatLessThanWellFounded, Zenon DEF OpToRel
<1> HIDE DEF R
<1>2. PICK x \in T : \A y \in T : ~(<<y, x>> \in R)
  BY <1>1, WFMin
<1>3. \A y \in T : ~(y < x)
  BY <1>2 DEF R
<1> QED BY <1>3

\* Induction up to a number.
LEMMA UpTo ==
  ASSUME NEW T, NEW n \in Nat, 0 \in T, \A k \in 0..(n - 1) : k \in T => k + 1 \in T
  PROVE  0..n \subseteq T
<1> DEFINE Bad == {k \in 0..n : k \notin T}
<1>1. SUFFICES ASSUME Bad # {} PROVE FALSE
  OBVIOUS
<1>2. PICK x \in Bad : \A y \in Bad : x <= y
  <2>1. Bad \subseteq Nat
    OBVIOUS
  <2> HIDE DEF Bad
  <2> QED BY <2>1, <1>1, LeastNat
<1>3. x # 0 /\ x \in Nat /\ x <= n
  BY <1>2
<1>4. x - 1 \in 0..n /\ x - 1 \in 0..(n - 1) /\ (x - 1) + 1 = x /\ x - 1 < x
  BY <1>3
<1>5. x - 1 \in T
  BY <1>2, <1>4
<1> QED BY <1>2, <1>4, <1>5

\* Arithmetic on distances.
LEMMA RingFacts ==
  /\ RxNum \in Nat /\ RxNum > 1 /\ 0 \in Ring /\ 0 \in 0..RxNum /\ RxNum \in 0..RxNum
  /\ \A k \in Ring : /\ k \in Nat /\ k < RxNum /\ k \in 0..RxNum
                     /\ k + 1 \in 0..RxNum /\ (k # RxNum - 1 => k + 1 \in Ring)
  /\ \A k \in 0..RxNum : k \in Nat /\ (k # RxNum => k \in Ring) /\ (k # 0 => k - 1 \in Ring)
BY DmaAssumption DEF Ring

LEMMA SmallRemainder ==
  ASSUME NEW N \in Nat \ {0}, NEW x \in Nat, x < N PROVE x % N = x
OBVIOUS

LEMMA OnceAround ==
  ASSUME NEW N \in Nat \ {0}, NEW u \in Nat, NEW k \in Nat, u + k >= N, u + k < 2 * N
  PROVE  (u + k) % N = u + k - N
OBVIOUS

\* The remainder of a position that went at most once around the ring.
LEMMA PosIs ==
  \A u \in Ring, k \in 0..RxNum : Pos(u, k) = IF u + k < RxNum THEN u + k ELSE u + k - RxNum
<1> SUFFICES ASSUME NEW u \in Ring, NEW k \in 0..RxNum
             PROVE  Pos(u, k) = IF u + k < RxNum THEN u + k ELSE u + k - RxNum
  OBVIOUS
<1>1. u \in Nat /\ k \in Nat /\ u + k \in Nat /\ u + k < 2 * RxNum /\ RxNum \in Nat \ {0}
  BY RingFacts DEF Ring
<1>2. CASE u + k < RxNum
  <2>1. (u + k) % RxNum = u + k
    BY <1>1, <1>2, SmallRemainder
  <2> QED BY <2>1, <1>2 DEF Pos
<1>3. CASE ~(u + k < RxNum)
  <2>1. u + k >= RxNum
    BY <1>1, <1>3
  <2>2. (u + k) % RxNum = u + k - RxNum
    BY <1>1, <2>1, OnceAround, Zenon
  <2> QED BY <2>2, <1>3 DEF Pos
<1> QED BY <1>2, <1>3

LEMMA PosType ==
  \A u \in Ring, k \in 0..RxNum : Pos(u, k) \in Ring
BY PosIs, RingFacts DEF Ring

\* Different distances below RxNum are different descriptors.
LEMMA PosInjective ==
  \A u \in Ring, j \in Ring, k \in Ring : Pos(u, j) = Pos(u, k) => j = k
BY PosIs, RingFacts DEF Ring

\* Every descriptor is at some distance.
LEMMA PosOnto ==
  \A u \in Ring, i \in Ring : \E k \in Ring : i = Pos(u, k)
<1> SUFFICES ASSUME NEW u \in Ring, NEW i \in Ring PROVE \E k \in Ring : i = Pos(u, k)
  OBVIOUS
<1> DEFINE k == IF i >= u THEN i - u ELSE i - u + RxNum
<1>1. k \in Ring /\ k \in 0..RxNum
  BY RingFacts DEF Ring
<1>2. i = IF u + k < RxNum THEN u + k ELSE u + k - RxNum
  BY RingFacts DEF Ring
<1> HIDE DEF k
<1> QED BY <1>1, <1>2, PosIs

\* The position after the k-th one is the (k+1)-th.
LEMMA NextOfPos ==
  \A u \in Ring, k \in Ring : NextRx(Pos(u, k)) = Pos(u, k + 1)
<1> SUFFICES ASSUME NEW u \in Ring, NEW k \in Ring PROVE NextRx(Pos(u, k)) = Pos(u, k + 1)
  OBVIOUS
<1>1. NextRx(Pos(u, k)) = Pos(Pos(u, k), 1)
  BY DEF NextRx, Pos
<1>0. 1 \in 0..RxNum
  BY RingFacts
<1>2. Pos(u, k) \in Ring /\ 1 \in 0..RxNum /\ k \in 0..RxNum /\ k + 1 \in 0..RxNum
  BY <1>0, PosType, RingFacts
<1>3. Pos(Pos(u, k), 1)
        = IF Pos(u, k) + 1 < RxNum THEN Pos(u, k) + 1 ELSE Pos(u, k) + 1 - RxNum
  BY <1>2, PosIs
<1>4. /\ Pos(u, k) = IF u + k < RxNum THEN u + k ELSE u + k - RxNum
      /\ Pos(u, k + 1) = IF u + (k + 1) < RxNum THEN u + (k + 1) ELSE u + (k + 1) - RxNum
  BY <1>2, PosIs
<1> QED BY <1>1, <1>3, <1>4, RingFacts DEF Ring

\* The k-th position from the m-th is the (m+k)-th.
LEMMA PosAdd ==
  \A u \in Ring, m \in 0..RxNum, k \in 0..RxNum :
    m + k <= RxNum => Pos(Pos(u, m), k) = Pos(u, m + k)
<1> SUFFICES ASSUME NEW u \in Ring, NEW m \in 0..RxNum, NEW k \in 0..RxNum, m + k <= RxNum
             PROVE  Pos(Pos(u, m), k) = Pos(u, m + k)
  OBVIOUS
<1>1. Pos(u, m) \in Ring /\ m + k \in 0..RxNum
  BY PosType, RingFacts
<1>2. Pos(Pos(u, m), k)
        = IF Pos(u, m) + k < RxNum THEN Pos(u, m) + k ELSE Pos(u, m) + k - RxNum
  BY <1>1, PosIs
<1>3. /\ Pos(u, m) = IF u + m < RxNum THEN u + m ELSE u + m - RxNum
      /\ Pos(u, m + k) = IF u + (m + k) < RxNum THEN u + (m + k) ELSE u + (m + k) - RxNum
  BY <1>1, PosIs
<1> QED BY <1>2, <1>3, RingFacts DEF Ring

\* Distance zero, and a whole turn, is the position itself.
LEMMA PosZero ==
  \A u \in Ring : Pos(u, 0) = u /\ Pos(u, RxNum) = u
BY PosIs, RingFacts DEF Ring

\* A frame of the line has between one part and as many as the ring has descriptors.
LEMMA ArrivalFacts ==
  /\ Len(Arrivals) \in Nat
  /\ \A f \in 1..Len(Arrivals) : Arrivals[f] \in 1..RxNum /\ Arrivals[f] \in Nat
<1>1. Arrivals \in Seq(1..RxNum)
  BY DmaAssumption
<1>2. \A f \in 1..Len(Arrivals) : Arrivals[f] \in 1..RxNum
  BY <1>1, ElementOfSeq
<1> QED BY <1>1, <1>2, LenProperties, RingFacts

\* A function on 1..n is a sequence.
LEMMA FunctionIsSeq ==
  ASSUME NEW S, NEW n \in Nat, NEW g \in [1..n -> S]
  PROVE  g \in Seq(S) /\ Len(g) = n
OBVIOUS

\* The user's k-th descriptor in terms of its position.
LEMMA UserIsPos == \A k : User(k) = Pos(user_rx_desc, k)
BY DEF User, Pos

\* A walk that reaches beyond the last position comes to the taken ones again.
LEMMA PosTurn ==
  \A u \in Ring, m \in 0..RxNum, k \in Ring :
    m + k >= RxNum => m + k - RxNum \in Ring /\ Pos(Pos(u, m), k) = Pos(u, m + k - RxNum)
<1> SUFFICES ASSUME NEW u \in Ring, NEW m \in 0..RxNum, NEW k \in Ring, m + k >= RxNum
             PROVE  m + k - RxNum \in Ring /\ Pos(Pos(u, m), k) = Pos(u, m + k - RxNum)
  OBVIOUS
<1> DEFINE d == m + k - RxNum
<1>1. Pos(u, m) \in Ring /\ k \in 0..RxNum /\ d \in Ring /\ d \in 0..RxNum
  BY PosType, RingFacts DEF Ring
<1>2. Pos(Pos(u, m), k)
        = IF Pos(u, m) + k < RxNum THEN Pos(u, m) + k ELSE Pos(u, m) + k - RxNum
  BY <1>1, PosIs
<1>3. /\ Pos(u, m) = IF u + m < RxNum THEN u + m ELSE u + m - RxNum
      /\ Pos(u, d) = IF u + d < RxNum THEN u + d ELSE u + d - RxNum
  BY <1>1, PosIs
<1> QED BY <1>1, <1>2, <1>3, RingFacts DEF Ring

-----------------------------------------------------------------------------
(* Chains.                                                                 *)

\* No part is in an empty ring.
LEMMA ChainEmpty ==
  ASSUME NEW u \in Ring, NEW next, next.part = 1
  PROVE  Chain([i \in Ring |-> RxFree], u, next, 0)
<1>1. \A k \in Ring : Pos(u, k) \in Ring
  BY PosType, RingFacts
<1>0. \A k \in Ring : ~(k < 0)
  BY DEF Ring
<1>2. \A k \in Ring : [i \in Ring |-> RxFree][Pos(u, k)] # RxFree <=> k < 0
  BY <1>0, <1>1
<1>3. Item([i \in Ring |-> RxFree], u, next, 0, 0) = next
  BY DEF Item
<1>4. \A k \in 0..(0 - 1) : FALSE
  OBVIOUS
<1> QED BY <1>2, <1>3, <1>4 DEF Chain

\* The next part lengthens the chain.
LEMMA ChainGrows ==
  ASSUME NEW ring \in [Ring -> Cell], NEW u \in Ring, NEW next \in Part, NEW n \in Ring,
         Chain(ring, u, next, n),
         NEW cell \in Cell, cell # RxFree, cell.frame = next.frame, cell.part = next.part
  PROVE  Chain([ring EXCEPT ![Pos(u, n)] = cell], u, Follow(next), n + 1)
<1> DEFINE new == [ring EXCEPT ![Pos(u, n)] = cell]
<1>0. n \in Nat /\ n < RxNum /\ n \in 0..RxNum /\ Pos(u, n) \in Ring
  BY RingFacts, PosType
<1>1. new[Pos(u, n)] = cell
  BY <1>0
<1>2. \A k \in Ring : k # n => new[Pos(u, k)] = ring[Pos(u, k)]
  <2> TAKE k \in Ring
  <2>1. Pos(u, k) \in Ring
    BY RingFacts, PosType
  <2>2. k # n => Pos(u, k) # Pos(u, n)
    BY PosInjective
  <2> QED BY <2>1, <2>2
<1> HIDE DEF new
<1>3. \A k \in Ring : k \in Nat /\ (k < n + 1 <=> k < n \/ k = n)
  BY <1>0, RingFacts
<1>4. \A k \in Ring : new[Pos(u, k)] # RxFree <=> k < n + 1
  BY <1>1, <1>2, <1>3 DEF Chain
<1>5. next = [frame |-> next.frame, part |-> next.part]
  BY DEF Part
<1>6. \A k \in 0..n : Item(new, u, Follow(next), n + 1, k) = Item(ring, u, next, n, k)
  <2> TAKE k \in 0..n
  <2>1. k \in Ring /\ k < n + 1 /\ ~(n < n) /\ (k # n => k < n)
    BY <1>0, RingFacts DEF Ring
  <2>2. CASE k = n
    BY <2>1, <2>2, <1>1, <1>5 DEF Item
  <2>3. CASE k # n
    BY <2>1, <2>3, <1>2 DEF Item
  <2> QED BY <2>2, <2>3
<1>7. Item(new, u, Follow(next), n + 1, n + 1) = Follow(next)
  BY <1>0 DEF Item
<1>8. Item(ring, u, next, n, n) = next
  BY <1>0 DEF Item
<1>9. Item(new, u, Follow(next), n + 1, 0).part = 1
  BY <1>0, <1>6 DEF Chain
<1>10. \A k \in 0..((n + 1) - 1) :
         Item(new, u, Follow(next), n + 1, k + 1) = Follow(Item(new, u, Follow(next), n + 1, k))
  <2> TAKE k \in 0..((n + 1) - 1)
  <2>1. k \in 0..n /\ (k # n => k \in 0..(n - 1) /\ k + 1 \in 0..n)
    BY <1>0
  <2>2. CASE k = n
    BY <2>1, <2>2, <1>6, <1>7, <1>8
  <2>3. CASE k # n
    BY <2>1, <2>3, <1>6 DEF Chain
  <2> QED BY <2>2, <2>3
<1> QED BY <1>4, <1>9, <1>10 DEF Chain, new

\* The finished descriptors without a gap are those of the chain.
LEMMA ChainRun ==
  ASSUME NEW ring, NEW u \in Ring, NEW next, NEW n \in 0..RxNum, Chain(ring, u, next, n)
  PROVE  {k \in Ring : \A j \in 0..k : ring[Pos(u, j)] # RxFree} = {k \in Ring : k < n}
<1>1. \A k \in Ring : /\ k \in 0..k
                      /\ \A j \in 0..k : j \in Ring /\ (k < n => j < n)
  BY RingFacts DEF Ring
<1> QED BY <1>1 DEF Chain

\* Up to the first end the parts are those of one frame, counted from one.
LEMMA ChainParts ==
  ASSUME NEW ring, NEW u \in Ring, NEW next, NEW n \in 0..RxNum, Chain(ring, u, next, n),
         NEW c \in Ring, c < n,
         \A k \in Ring : k < c =>
           Item(ring, u, next, n, k).part # Arrivals[Item(ring, u, next, n, k).frame]
  PROVE  \A k \in 0..c : Item(ring, u, next, n, k)
                           = [frame |-> Item(ring, u, next, n, 0).frame, part |-> k + 1]
<1> DEFINE it(k) == Item(ring, u, next, n, k)
           Good == {k \in 0..c : it(k) = [frame |-> it(0).frame, part |-> k + 1]}
<1>0. c \in Nat /\ n \in Nat /\ 0 < n
  BY RingFacts
<1>1. 0 \in Good
  BY <1>0 DEF Chain, Item
<1>2. ASSUME NEW k \in 0..(c - 1), k \in Good PROVE k + 1 \in Good
  <2>1. k \in Ring /\ k < c /\ k \in 0..(n - 1) /\ k + 1 \in 0..c
    BY <1>0, RingFacts DEF Ring
  <2>2. it(k).part # Arrivals[it(k).frame]
    BY <2>1
  <2>3. it(k + 1) = Follow(it(k))
    BY <2>1 DEF Chain
  <2> HIDE DEF it
  <2>4. it(k + 1) = [frame |-> it(k).frame, part |-> it(k).part + 1]
    BY <2>2, <2>3 DEF Follow
  <2> QED BY <2>1, <2>4, <1>2
<1> HIDE DEF Good
<1>3. 0..c \subseteq Good
  BY <1>0, <1>1, <1>2, UpTo
<1> QED BY <1>3 DEF Good

\* What is left when a frame's parts are taken from the front.
Taken(ring, u, m) ==
  [i \in Ring |-> IF i \in {Pos(u, k) : k \in 0..(m - 1)} THEN RxFree ELSE ring[i]]

LEMMA ChainShrinks ==
  ASSUME NEW ring, NEW u \in Ring, NEW next, NEW n \in 0..RxNum, NEW m \in 0..RxNum,
         Chain(ring, u, next, n), m >= 1, m <= n, Item(ring, u, next, n, m).part = 1
  PROVE  /\ n - m \in 0..RxNum /\ Pos(u, m) \in Ring
         /\ Pos(Pos(u, m), n - m) = Pos(u, n)
         /\ Chain(Taken(ring, u, m), Pos(u, m), next, n - m)
         /\ Item(Taken(ring, u, m), Pos(u, m), next, n - m, 0) = Item(ring, u, next, n, m)
<1> DEFINE new == Taken(ring, u, m)
           v == Pos(u, m)
<1>0. n \in Nat /\ m \in Nat /\ m \in 0..RxNum /\ n - m \in 0..RxNum /\ n - m \in Nat /\ n <= RxNum
      /\ m + (n - m) = n /\ m >= 1 /\ m <= n /\ RxNum \in Nat
  BY RingFacts
<1>1. v \in Ring /\ Pos(v, n - m) = Pos(u, n)
  <2>1. v \in Ring
    BY <1>0, PosType
  <2>2. Pos(v, n - m) = Pos(u, m + (n - m))
    BY <1>0, PosAdd
  <2> QED BY <2>1, <2>2, <1>0
<1>2. \A k \in Ring : m + k < RxNum =>
        /\ m + k \in Ring /\ Pos(v, k) = Pos(u, m + k)
        /\ new[Pos(v, k)] = ring[Pos(u, m + k)]
  <2> SUFFICES ASSUME NEW k \in Ring, m + k < RxNum
               PROVE  /\ m + k \in Ring /\ Pos(v, k) = Pos(u, m + k)
                      /\ new[Pos(v, k)] = ring[Pos(u, m + k)]
    OBVIOUS
  <2>1. m + k \in Ring /\ m + k <= RxNum /\ k \in 0..RxNum /\ m + k \in 0..RxNum
    BY <1>0, RingFacts DEF Ring
  <2>2. Pos(v, k) = Pos(u, m + k)
    BY <2>1, <1>0, PosAdd
  <2>3. Pos(u, m + k) \in Ring
    BY <2>1, PosType
  <2>4. \A j \in 0..(m - 1) : j \in Ring /\ j # m + k
    BY <1>0, RingFacts DEF Ring
  <2>5. \A j \in 0..(m - 1) : Pos(u, j) # Pos(u, m + k)
    BY <2>1, <2>4, PosInjective
  <2> QED BY <2>1, <2>2, <2>3, <2>5 DEF Taken
<1>3. \A k \in Ring : ~(m + k < RxNum) => new[Pos(v, k)] = RxFree
  <2> SUFFICES ASSUME NEW k \in Ring, ~(m + k < RxNum) PROVE new[Pos(v, k)] = RxFree
    OBVIOUS
  <2>1. m + k >= RxNum /\ k \in 0..RxNum /\ m + k - RxNum \in 0..(m - 1)
    BY <1>0, RingFacts DEF Ring
  <2>2. Pos(v, k) = Pos(u, m + k - RxNum)
    BY <2>1, <1>0, PosTurn
  <2>3. Pos(v, k) \in Ring
    BY <2>1, <1>1, PosType
  <2> QED BY <2>1, <2>2, <2>3 DEF Taken
<1> HIDE DEF new, v
<1>4. \A k \in Ring : new[Pos(v, k)] # RxFree <=> k < n - m
  <2> TAKE k \in Ring
  <2>0. k \in Nat
    BY RingFacts
  <2>1. CASE m + k < RxNum
    <3>1. m + k < n <=> k < n - m
      BY <1>0, <2>0
    <3> QED BY <2>1, <1>2, <3>1 DEF Chain
  <2>2. CASE ~(m + k < RxNum)
    <3>1. ~(k < n - m)
      BY <1>0, <2>0, <2>2
    <3> QED BY <3>1, <2>2, <1>3
  <2> QED BY <2>1, <2>2
<1>5. \A k \in 0..(n - m) : Item(new, v, next, n - m, k) = Item(ring, u, next, n, m + k)
  <2> TAKE k \in 0..(n - m)
  <2>1. k < n - m => k \in Ring /\ m + k < RxNum
    BY <1>0, RingFacts DEF Ring
  <2>2. k < n - m <=> m + k < n
    BY <1>0
  <2> QED BY <2>1, <2>2, <1>2 DEF Item
<1>6. Item(new, v, next, n - m, 0).part = 1
  BY <1>0, <1>5
<1>7. \A k \in 0..((n - m) - 1) :
        Item(new, v, next, n - m, k + 1) = Follow(Item(new, v, next, n - m, k))
  <2> TAKE k \in 0..((n - m) - 1)
  <2>1. /\ k \in 0..(n - m) /\ k + 1 \in 0..(n - m) /\ m + k \in 0..(n - 1)
        /\ m + (k + 1) = (m + k) + 1
    BY <1>0
  <2>2. Item(ring, u, next, n, (m + k) + 1) = Follow(Item(ring, u, next, n, m + k))
    BY <2>1 DEF Chain
  <2> QED BY <2>1, <2>2, <1>5
<1>8. Item(new, v, next, n - m, 0) = Item(ring, u, next, n, m)
  <2>1. 0 \in 0..(n - m) /\ m + 0 = m
    BY <1>0
  <2> QED BY <2>1, <1>5
<1> QED BY <1>0, <1>1, <1>4, <1>6, <1>7, <1>8 DEF Chain, new, v

-----------------------------------------------------------------------------
(* The steps.                                                              *)

Receiver == <<rx, stamp, user_rx_desc, engineR, arriving, clock, got>>

\* Every other step leaves the receiver alone.
Aside == UNCHANGED Receiver /\ purge'.rx = purge.rx /\ purge' \in [tx : {"idle", "base"}, rx : {"idle", "base"}, left : Nat]

LEMMA WritersAside ==
  TypeInv => \A w \in Writers : Write(w) => Aside
BY DEF TypeInv, Aside, Receiver, Write, WriteCheck, WriteLock, WriteFill, WriteTest, WriteBase,
       fscc_io_execute_transmit, rxvars

LEMMA TxPurgeAside ==
  TypeInv /\ (fscc_io_purge_tx \/ PurgeTxBase) => Aside
<1> SUFFICES ASSUME TypeInv, fscc_io_purge_tx \/ PurgeTxBase PROVE Aside
  OBVIOUS
<1>1. UNCHANGED Receiver
  BY DEF fscc_io_purge_tx, PurgeTxBase, rxvars, Receiver
<1>2. purge \in [tx : {"idle", "base"}, rx : {"idle", "base"}, left : Nat]
  BY DEF TypeInv
<1>3. CASE fscc_io_purge_tx
  <2>1. purge' = [purge EXCEPT !.tx = "base", !.left = purge.left - 1] /\ purge.left - 1 \in Nat
    BY <1>2, <1>3 DEF fscc_io_purge_tx
  <2>2. [purge EXCEPT !.tx = "base"] \in [tx : {"idle", "base"}, rx : {"idle", "base"}, left : Nat]
    BY <1>2
  <2> QED BY <1>1, <1>2, <2>1, <2>2 DEF Aside
<1>4. CASE PurgeTxBase
  BY <1>1, <1>2, <1>4 DEF PurgeTxBase, Aside
<1> QED BY <1>3, <1>4

LEMMA NextSplit ==
  TypeInv /\ [Next]_vars =>
    \/ EngineReceive \/ EngineFull \/ timestamp_worker \/ FsccProcessRead
    \/ fscc_io_purge_rx \/ PurgeRxStart \/ Aside
<1> SUFFICES ASSUME TypeInv, [Next]_vars
             PROVE  \/ EngineReceive \/ EngineFull \/ timestamp_worker \/ FsccProcessRead
                    \/ fscc_io_purge_rx \/ PurgeRxStart \/ Aside
  OBVIOUS
<1>1. UNCHANGED vars => Aside
  BY DEF vars, rxvars, Aside, Receiver, TypeInv
<1>2. EngineTransmit \/ timer_handler \/ FsccEvtIoRead => Aside
  BY DEF EngineTransmit, timer_handler, FsccEvtIoRead, rxvars, Aside, Receiver, TypeInv
<1> QED BY <1>1, <1>2, WritersAside, TxPurgeAside DEF Next, Engines

LEMMA AsideKeeps == RxInv /\ Aside => RxInv'
<1> SUFFICES ASSUME RxInv, Aside PROVE RxInv'
  OBVIOUS
<1>1. TypeInv'
  BY DEF RxInv, TypeInv, Aside, Receiver
<1>2. CellInv' /\ LineInv' /\ StampInv' /\ PurgeInv'
  BY DEF RxInv, CellInv, LineInv, StampInv, PurgeInv, Aside, Receiver
<1>3. ChainInv'
  BY DEF RxInv, ChainInv, Aside, Receiver
<1>4. GotInv'
  BY DEF RxInv, GotInv, Aside, Receiver
<1> QED BY <1>1, <1>2, <1>3, <1>4 DEF RxInv

LEMMA RxInit == Init => RxInv
<1> SUFFICES ASSUME Init PROVE RxInv
  OBVIOUS
<1>1. rx = [i \in Ring |-> RxFree] /\ stamp = [i \in Ring |-> 0] /\ user_rx_desc = 0 /\ 0 \in Ring
  BY RingFacts DEF Init, Ring
<1>2. RxFree \in Cell
  BY DEF RxFree, Cell
<1>3. engineR \in [run : BOOLEAN, at : Ring, seen : BOOLEAN] /\ engineR.at = 0
  BY <1>1 DEF Init, Going
<1>4. purge \in [tx : {"idle", "base"}, rx : {"idle", "base"}, left : Nat]
  BY DmaAssumption DEF Init
<1>5. arriving \in [frame : Nat \ {0}, part : Nat \ {0}] /\ arriving.part = 1
  BY DEF Init
<1>6. got = << >> /\ clock = 0
  BY DEF Init
<1>7. TypeInv
  <2>1. << >> \in Seq(Frame)
    BY EmptySeq
  <2> QED BY <1>1, <1>2, <1>3, <1>4, <1>5, <1>6, <2>1 DEF TypeInv
<1>8. CellInv /\ StampInv
  BY <1>1 DEF CellInv, StampInv
<1>9. LineInv
  <2>1. arriving.frame = 1
    BY DEF Init
  <2>2. arriving.frame <= Len(Arrivals) => Arrivals[arriving.frame] \in 1..RxNum
    BY <2>1, ArrivalFacts
  <2> QED BY <2>2, <1>5, RingFacts DEF LineInv
<1>10. ChainInv
  <2>1. Chain(rx, user_rx_desc, arriving, 0)
    BY <1>1, <1>5, ChainEmpty
  <2>2. engineR.at = Pos(user_rx_desc, 0)
    BY <1>1, <1>3, PosZero
  <2> QED BY <2>1, <2>2, RingFacts DEF ChainInv
<1>11. PurgeInv
  BY DEF Init, PurgeInv
<1>12. GotInv
  BY <1>6 DEF GotInv
<1> QED BY <1>7, <1>8, <1>9, <1>10, <1>11, <1>12 DEF RxInv

\* The engine stops at a descriptor that still belongs to the user.
LEMMA FullKeeps == RxInv /\ EngineFull => RxInv'
<1> SUFFICES ASSUME RxInv, EngineFull PROVE RxInv'
  OBVIOUS
<1>1. engineR' = [engineR EXCEPT !.run = FALSE]
      /\ UNCHANGED <<rx, stamp, user_rx_desc, arriving, clock, got, purge>>
  BY DEF EngineFull
<1>2. engineR' \in [run : BOOLEAN, at : Ring, seen : BOOLEAN] /\ engineR'.at = engineR.at /\ ~engineR'.run
  BY <1>1 DEF RxInv, TypeInv
<1>3. TypeInv'
  BY <1>1, <1>2 DEF RxInv, TypeInv
<1>4. CellInv' /\ LineInv' /\ StampInv' /\ PurgeInv'
  BY <1>1, <1>2 DEF RxInv, CellInv, LineInv, StampInv, PurgeInv
<1>5. ChainInv'
  BY <1>1, <1>2 DEF RxInv, ChainInv
<1>6. GotInv'
  BY <1>1 DEF RxInv, GotInv
<1> QED BY <1>3, <1>4, <1>5, <1>6 DEF RxInv

\* timestamp_worker stamps finished descriptors only, with the present time.
LEMMA StampKeeps == RxInv /\ timestamp_worker => RxInv'
<1> SUFFICES ASSUME RxInv, timestamp_worker PROVE RxInv'
  OBVIOUS
<1>1. UNCHANGED <<rx, user_rx_desc, engineR, arriving, clock, got, purge>>
  BY DEF timestamp_worker
<1> DEFINE Mark(i) == stamp[i] = 0 /\ \E k \in FinishedRun : i = User(k)
<1>2. stamp' = [i \in Ring |-> IF Mark(i) THEN clock ELSE stamp[i]]
  BY DEF timestamp_worker, fscc_dma_apply_timestamps, Ring
<1>3. \A i \in Ring : Mark(i) => rx[i] # RxFree
  <2> SUFFICES ASSUME NEW k \in FinishedRun PROVE rx[User(k)] # RxFree
    OBVIOUS
  <2>1. k \in Ring /\ \A j \in 0..k : rx[User(j)] # RxFree
    BY DEF FinishedRun, Ring
  <2>2. k \in 0..k
    BY <2>1, RingFacts
  <2> QED BY <2>1, <2>2
<1> HIDE DEF Mark
<1>4. stamp' \in [Ring -> Nat]
  BY <1>2 DEF RxInv, TypeInv
<1>5. StampInv'
  BY <1>1, <1>2, <1>3 DEF RxInv, StampInv, CellInv
<1>6. TypeInv'
  BY <1>1, <1>4 DEF RxInv, TypeInv
<1>7. CellInv' /\ LineInv' /\ PurgeInv'
  BY <1>1 DEF RxInv, CellInv, LineInv, PurgeInv
<1>8. ChainInv'
  BY <1>1 DEF RxInv, ChainInv
<1>9. GotInv'
  BY <1>1 DEF RxInv, GotInv
<1> QED BY <1>5, <1>6, <1>7, <1>8, <1>9 DEF RxInv

\* The engine starts on an empty ring.
LEMMA StartKeeps == RxInv /\ PurgeRxStart => RxInv'
<1> SUFFICES ASSUME RxInv, PurgeRxStart PROVE RxInv'
  OBVIOUS
<1>1. UNCHANGED <<rx, stamp, user_rx_desc, arriving, clock, got>> /\ engineR' = Going
      /\ purge.rx = "base" /\ purge' = [purge EXCEPT !.rx = "idle"]
  BY DEF PurgeRxStart
<1>2. engineR' \in [run : BOOLEAN, at : Ring, seen : BOOLEAN] /\ engineR'.at = 0
  BY <1>1, RingFacts DEF Going
<1>3. purge' \in [tx : {"idle", "base"}, rx : {"idle", "base"}, left : Nat] /\ purge'.rx = "idle"
  BY <1>1 DEF RxInv, TypeInv
<1>4. TypeInv'
  BY <1>1, <1>2, <1>3 DEF RxInv, TypeInv
<1>5. CellInv' /\ LineInv' /\ StampInv' /\ PurgeInv'
  BY <1>1, <1>3 DEF RxInv, CellInv, LineInv, StampInv, PurgeInv
<1>6. ChainInv'
  <2>1. user_rx_desc = 0 /\ \A i \in Ring : rx[i] = RxFree
    BY <1>1 DEF RxInv, PurgeInv
  <2>2. PICK n \in 0..RxNum : Chain(rx, user_rx_desc, arriving, n)
    BY DEF RxInv, ChainInv
  <2>3. n = 0
    <3>1. ~(0 < n)
      <4>1. Pos(0, 0) \in Ring
        BY RingFacts, PosType
      <4> QED BY <2>1, <2>2, <4>1, RingFacts DEF Chain
    <3> QED BY <3>1, RingFacts
  <2>4. 0 = Pos(0, 0)
    BY RingFacts, PosZero
  <2> QED BY <1>1, <1>2, <2>1, <2>2, <2>3, <2>4 DEF ChainInv
<1>7. GotInv'
  BY <1>1 DEF RxInv, GotInv
<1> QED BY <1>4, <1>5, <1>6, <1>7 DEF RxInv

\* fscc_io_reset_rx: what is left of a frame that was coming in is lost with the rest.
LEMMA PurgeKeeps == RxInv /\ fscc_io_purge_rx => RxInv'
<1> SUFFICES ASSUME RxInv, fscc_io_purge_rx PROVE RxInv'
  OBVIOUS
<1>1. /\ rx' = [i \in Ring |-> RxFree] /\ stamp' = [i \in Ring |-> 0] /\ user_rx_desc' = 0
      /\ engineR' = Stopped /\ UNCHANGED <<clock, got>> /\ purge.left > 0
      /\ purge' = [purge EXCEPT !.rx = "base", !.left = purge.left - 1]
      /\ arriving' = IF arriving.part = 1 THEN arriving
                                          ELSE [frame |-> arriving.frame + 1, part |-> 1]
  BY DEF fscc_io_purge_rx, Ring
<1>2. engineR' \in [run : BOOLEAN, at : Ring, seen : BOOLEAN] /\ engineR'.at = 0 /\ ~engineR'.run
  BY <1>1, RingFacts DEF Stopped
<1>3. purge' \in [tx : {"idle", "base"}, rx : {"idle", "base"}, left : Nat]
  <2>1. [purge EXCEPT !.rx = "base"] \in [tx : {"idle", "base"}, rx : {"idle", "base"}, left : Nat]
    BY DEF RxInv, TypeInv
  <2>2. purge.left - 1 \in Nat
    BY <1>1 DEF RxInv, TypeInv
  <2> QED BY <1>1, <2>1, <2>2
<1>4. arriving \in [frame : Nat \ {0}, part : Nat \ {0}]
  BY DEF RxInv, TypeInv
<1>5. arriving' \in [frame : Nat \ {0}, part : Nat \ {0}] /\ arriving'.part = 1
  BY <1>1, <1>4
<1>6. RxFree \in Cell
  BY DEF RxFree, Cell
<1>7. TypeInv'
  BY <1>1, <1>2, <1>3, <1>5, <1>6, RingFacts DEF RxInv, TypeInv
<1>8. CellInv' /\ StampInv'
  BY <1>1 DEF CellInv, StampInv
<1>9. PurgeInv'
  BY <1>1, <1>2 DEF PurgeInv
<1>10. LineInv'
  <2>1. arriving'.frame <= Len(Arrivals) => Arrivals[arriving'.frame] \in 1..RxNum
    BY <1>5, ArrivalFacts
  <2> QED BY <2>1, <1>5, RingFacts DEF LineInv
<1>11. ChainInv'
  <2>1. Chain(rx', 0, arriving', 0)
    BY <1>1, <1>5, ChainEmpty, RingFacts
  <2>2. 0 = Pos(0, 0)
    BY RingFacts, PosZero
  <2> QED BY <1>1, <1>2, <2>1, <2>2, RingFacts DEF ChainInv
<1>12. GotInv'
  BY <1>1 DEF RxInv, GotInv
<1> QED BY <1>7, <1>8, <1>9, <1>10, <1>11, <1>12 DEF RxInv

\* The engine writes the next part.
LEMMA ReceiveKeeps == RxInv /\ EngineReceive => RxInv'
<1> SUFFICES ASSUME RxInv, EngineReceive PROVE RxInv'
  OBVIOUS
<1> DEFINE end == arriving.part = Arrivals[arriving.frame]
           cell == [frame |-> arriving.frame, part |-> arriving.part, end |-> end, at |-> clock + 1]
<1>1. /\ arriving.frame <= Len(Arrivals) /\ rx[engineR.at] = RxFree /\ engineR.run
      /\ rx' = [rx EXCEPT ![engineR.at] = cell]
      /\ arriving' = IF end THEN [frame |-> arriving.frame + 1, part |-> 1]
                            ELSE [arriving EXCEPT !.part = arriving.part + 1]
      /\ engineR' = [engineR EXCEPT !.at = NextRx(engineR.at)]
      /\ clock' = clock + 1 /\ UNCHANGED <<stamp, user_rx_desc, got, purge>>
  BY DEF EngineReceive
<1>2. /\ arriving \in [frame : Nat \ {0}, part : Nat \ {0}] /\ clock \in Nat
      /\ rx \in [Ring -> Cell] /\ engineR.at \in Ring /\ user_rx_desc \in Ring
      /\ engineR \in [run : BOOLEAN, at : Ring, seen : BOOLEAN]
  BY DEF RxInv, TypeInv
<1>3. arriving' = Follow(arriving)
  BY <1>1, <1>2 DEF Follow
<1>4. arriving' \in [frame : Nat \ {0}, part : Nat \ {0}]
  BY <1>2, <1>3 DEF Follow
<1>5. end \in BOOLEAN
  BY DEF end
<1>6. cell \in Cell /\ cell # RxFree /\ cell.frame = arriving.frame /\ cell.part = arriving.part
      /\ cell.at = clock + 1
  <2> HIDE DEF end
  <2>1. cell \in Cell
    BY <1>2, <1>5 DEF Cell
  <2>2. cell.frame # RxFree.frame
    BY <1>2 DEF RxFree
  <2> QED BY <2>1, <2>2
<1>7. cell.end <=> cell.part = Arrivals[cell.frame]
  OBVIOUS
<1>8. PICK n \in 0..RxNum : engineR.at = Pos(user_rx_desc, n) /\ Chain(rx, user_rx_desc, arriving, n)
  BY DEF RxInv, ChainInv
<1>9. n \in Ring
  <2>1. n # RxNum
    <3>1. SUFFICES ASSUME n = RxNum PROVE FALSE
      OBVIOUS
    <3>2. engineR.at = Pos(user_rx_desc, 0)
      BY <1>2, <1>8, <3>1, PosZero
    <3> QED BY <3>1, <3>2, <1>1, <1>8, RingFacts DEF Chain
  <2> QED BY <2>1, RingFacts
<1>10. NextRx(engineR.at) = Pos(user_rx_desc, n + 1) /\ n + 1 \in 0..RxNum
  BY <1>2, <1>8, <1>9, NextOfPos, RingFacts
<1>11. arriving \in Part
  BY <1>2 DEF Part
<1> HIDE DEF cell, end
<1>12. Chain(rx', user_rx_desc, arriving', n + 1)
  <2>1. Chain([rx EXCEPT ![Pos(user_rx_desc, n)] = cell], user_rx_desc, Follow(arriving), n + 1)
    BY <1>2, <1>6, <1>8, <1>9, <1>11, ChainGrows, Zenon
  <2>2. rx' = [rx EXCEPT ![Pos(user_rx_desc, n)] = cell]
    BY <1>1, <1>8, Zenon
  <2> QED BY <2>1, <2>2, <1>3, Zenon
<1>13. engineR' \in [run : BOOLEAN, at : Ring, seen : BOOLEAN] /\ engineR'.at = Pos(user_rx_desc, n + 1)
  <2>1. Pos(user_rx_desc, n + 1) \in Ring
    BY <1>2, <1>10, PosType
  <2> QED BY <1>1, <1>2, <1>10, <2>1
<1>14. ChainInv'
  BY <1>1, <1>10, <1>12, <1>13 DEF ChainInv
<1>15. TypeInv'
  <2>1. rx' \in [Ring -> Cell]
    BY <1>1, <1>2, <1>6
  <2>2. clock' \in Nat /\ UNCHANGED <<stamp, user_rx_desc, got, purge>>
    BY <1>1, <1>2
  <2> QED BY <1>4, <1>13, <2>1, <2>2 DEF RxInv, TypeInv
<1>16. CellInv'
  <2> SUFFICES ASSUME NEW i \in Ring, rx'[i] # RxFree
               PROVE  /\ rx'[i].frame \in 1..Len(Arrivals) /\ rx'[i].part \in 1..Arrivals[rx'[i].frame]
                      /\ rx'[i].end <=> rx'[i].part = Arrivals[rx'[i].frame]
                      /\ rx'[i].at <= clock'
    BY DEF CellInv
  <2>1. CASE i = engineR.at
    <3>1. rx'[i] = cell
      BY <1>1, <1>2, <2>1
    <3>2. cell.frame \in 1..Len(Arrivals)
      BY <1>1, <1>2, <1>6, ArrivalFacts
    <3>3. cell.part \in 1..Arrivals[cell.frame]
      <4>1. arriving.part <= Arrivals[arriving.frame]
        BY <1>1 DEF RxInv, LineInv
      <4> QED BY <4>1, <1>2, <1>6, <3>2, ArrivalFacts
    <3>4. cell.at <= clock'
      BY <1>1, <1>2, <1>6
    <3> QED BY <3>1, <3>2, <3>3, <3>4, <1>7
  <2>2. CASE i # engineR.at
    <3>1. rx'[i] = rx[i]
      BY <1>1, <1>2, <2>2
    <3>2. rx[i].at <= clock /\ rx[i].at \in Nat
      BY <3>1, <1>2 DEF RxInv, CellInv, Cell
    <3>3. rx[i].at <= clock'
      BY <3>2, <1>1, <1>2
    <3> QED BY <3>1, <3>3 DEF RxInv, CellInv
  <2> QED BY <2>1, <2>2
<1>17. LineInv'
  <2>1. CASE arriving.part = Arrivals[arriving.frame]
    <3>1. arriving' = [frame |-> arriving.frame + 1, part |-> 1]
      BY <1>3, <2>1 DEF Follow
    <3>2. arriving'.frame <= Len(Arrivals) => Arrivals[arriving'.frame] \in 1..RxNum
      BY <1>4, ArrivalFacts
    <3> QED BY <3>1, <3>2, RingFacts DEF LineInv
  <2>2. CASE arriving.part # Arrivals[arriving.frame]
    <3>1. arriving' = [frame |-> arriving.frame, part |-> arriving.part + 1]
      BY <1>3, <2>2 DEF Follow
    <3>2. Arrivals[arriving.frame] \in Nat /\ arriving.part <= Arrivals[arriving.frame]
      BY <1>1, <1>2, ArrivalFacts DEF RxInv, LineInv
    <3> QED BY <3>1, <3>2, <2>2, <1>2 DEF LineInv
  <2> QED BY <2>1, <2>2
<1>18. StampInv'
  <2> SUFFICES ASSUME NEW i \in Ring, stamp'[i] # 0 PROVE rx'[i] # RxFree /\ stamp'[i] >= rx'[i].at
    BY DEF StampInv
  <2>1. rx[i] # RxFree /\ stamp[i] >= rx[i].at
    BY <1>1 DEF RxInv, StampInv
  <2>2. rx'[i] = rx[i]
    BY <1>1, <1>2, <2>1
  <2> QED BY <2>1, <2>2, <1>1
<1>19. PurgeInv'
  BY <1>1 DEF RxInv, PurgeInv
<1>20. GotInv'
  BY <1>1 DEF RxInv, GotInv
<1> QED BY <1>14, <1>15, <1>16, <1>17, <1>18, <1>19, <1>20 DEF RxInv

-----------------------------------------------------------------------------
(* Reading.                                                                *)

\* fscc_user_next_read_size: where the first finished frame ends, its parts are
\* at the front of the chain.
LEMMA EndIs ==
  ASSUME RxInv, Ends # {}, NEW n \in 0..RxNum, Chain(rx, user_rx_desc, arriving, n)
  PROVE  LET it(k) == Item(rx, user_rx_desc, arriving, n, k)
             f     == it(0).frame
         IN /\ f \in 1..Len(Arrivals) /\ FrameLength = Arrivals[f] /\ FrameLength \in 1..n
            /\ \A k \in 0..(FrameLength - 1) :
                 /\ it(k) = [frame |-> f, part |-> k + 1]
                 /\ rx[User(k)] # RxFree /\ rx[User(k)].frame = f /\ rx[User(k)].part = k + 1
            /\ it(FrameLength) = [frame |-> f + 1, part |-> 1]
<1> DEFINE it(k) == Item(rx, user_rx_desc, arriving, n, k)
           f == it(0).frame
           c == FrameLength - 1
<1>0. n \in Nat /\ user_rx_desc \in Ring /\ rx \in [Ring -> Cell]
  BY RingFacts DEF RxInv, TypeInv
<1>1. Ends = {k \in Ring : k < n /\ rx[User(k)].end}
  <2>1. FinishedRun = {k \in Ring : \A j \in 0..k : rx[Pos(user_rx_desc, j)] # RxFree}
    BY UserIsPos DEF FinishedRun, Ring
  <2>2. {k \in Ring : \A j \in 0..k : rx[Pos(user_rx_desc, j)] # RxFree} = {k \in Ring : k < n}
    BY <1>0, ChainRun
  <2> QED BY <2>1, <2>2 DEF Ends
<1>2. c \in Ends /\ \A j \in Ends : c <= j
  <2>1. Ends \subseteq Nat
    BY <1>1, RingFacts
  <2>2. \E k \in Ends : \A j \in Ends : k <= j
    BY <2>1, LeastNat
  <2> DEFINE k0 == CHOOSE k \in Ends : \A j \in Ends : k <= j
  <2>3. k0 \in Ends /\ \A j \in Ends : k0 <= j
    BY <2>2
  <2>4. FrameLength = 1 + k0
    BY DEF FrameLength
  <2> HIDE DEF k0
  <2> QED BY <2>1, <2>3, <2>4
<1>3. c \in Ring /\ c < n /\ rx[User(c)].end /\ c \in Nat /\ FrameLength = c + 1 /\ FrameLength \in 1..n
  <2>1. c \in Ring /\ c < n /\ rx[User(c)].end
    BY <1>1, <1>2
  <2>2. FrameLength \in Int
    <3> DEFINE k0 == CHOOSE k \in Ends : \A j \in Ends : k <= j
    <3>2. Ends \subseteq Nat
      BY <1>1, RingFacts
    <3>3. \E k \in Ends : \A j \in Ends : k <= j
      BY <3>2, LeastNat
    <3>4. k0 \in Ends
      BY <3>3
    <3>5. FrameLength = 1 + k0
      BY DEF FrameLength
    <3> HIDE DEF k0
    <3> QED BY <3>2, <3>4, <3>5
  <2> QED BY <2>1, <2>2, <1>0, RingFacts
<1>4. \A k \in Ring : k < n =>
        /\ it(k) = [frame |-> rx[User(k)].frame, part |-> rx[User(k)].part]
        /\ User(k) \in Ring /\ rx[User(k)] # RxFree
  BY <1>0, UserIsPos, PosType, RingFacts DEF Item, Chain
<1> HIDE DEF c
<1>5. \A k \in Ring : k < c => it(k).part # Arrivals[it(k).frame]
  <2> SUFFICES ASSUME NEW k \in Ring, k < c PROVE it(k).part # Arrivals[it(k).frame]
    OBVIOUS
  <2>1. k < n /\ k \notin Ends
    BY <1>0, <1>2, <1>3, RingFacts
  <2>2. ~rx[User(k)].end
    BY <2>1, <1>1
  <2> QED BY <2>1, <2>2, <1>4 DEF RxInv, CellInv
<1>6. \A k \in 0..c : it(k) = [frame |-> f, part |-> k + 1]
  BY <1>0, <1>3, <1>5, ChainParts
<1>7. \A k \in 0..c : k \in Ring /\ k < n /\ k \in 0..(n - 1)
  BY <1>0, <1>3, RingFacts DEF Ring
<1> HIDE DEF it, f
<1>8. \A k \in 0..c : rx[User(k)] # RxFree /\ rx[User(k)].frame = f /\ rx[User(k)].part = k + 1
  BY <1>4, <1>6, <1>7
<1>9. c \in 0..c
  BY <1>3
<1>10. f \in 1..Len(Arrivals) /\ c + 1 = Arrivals[f]
  BY <1>3, <1>4, <1>8, <1>9 DEF RxInv, CellInv
<1>11. it(c + 1) = [frame |-> f + 1, part |-> 1]
  <2>1. it(c + 1) = Follow(it(c))
    BY <1>7, <1>9 DEF Chain, it
  <2> QED BY <2>1, <1>6, <1>9, <1>10 DEF Follow
<1> QED BY <1>3, <1>6, <1>8, <1>10, <1>11 DEF it, f, c

\* FsccProcessRead takes the first frame off the ring, or nothing.
Reading == FsccProcessRead /\ Ends # {} /\ reads > 0

LEMMA ReadOrNot == TypeInv /\ FsccProcessRead => Reading \/ Aside
BY DEF FsccProcessRead, Reading, Aside, Receiver, TypeInv

LEMMA ReadEffect ==
  ASSUME RxInv, Reading, NEW n \in 0..RxNum, Chain(rx, user_rx_desc, arriving, n),
         engineR.at = Pos(user_rx_desc, n)
  PROVE  LET f == Item(rx, user_rx_desc, arriving, n, 0).frame
             m == FrameLength
         IN /\ f \in 1..Len(Arrivals) /\ m = Arrivals[f] /\ m \in 1..n
            /\ rx' = Taken(rx, user_rx_desc, m) /\ user_rx_desc' = Pos(user_rx_desc, m)
            /\ n - m \in 0..RxNum /\ engineR.at = Pos(user_rx_desc', n - m)
            /\ Chain(rx', user_rx_desc', arriving, n - m)
            /\ Item(rx', user_rx_desc', arriving, n - m, 0) = [frame |-> f + 1, part |-> 1]
            /\ UNCHANGED <<engineR, arriving, clock, purge>>
            /\ stamp' = [i \in Ring |-> IF i \in {Pos(user_rx_desc, k) : k \in 0..(m - 1)}
                                        THEN 0 ELSE stamp[i]]
            /\ \E g \in Frame : got' = Append(got, g) /\ Whole(g) /\ g.parts[1].frame = f
<1> DEFINE f == Item(rx, user_rx_desc, arriving, n, 0).frame
           m == FrameLength
           u == user_rx_desc
           last == User(m - 1)
           g == [parts |-> [k \in 1..m |-> [frame |-> rx[User(k - 1)].frame,
                                            part |-> rx[User(k - 1)].part]],
                 stamp |-> IF stamp[last] = 0 THEN clock ELSE stamp[last],
                 at    |-> rx[last].at]
<1>0. n \in Nat /\ u \in Ring /\ rx \in [Ring -> Cell] /\ stamp \in [Ring -> Nat] /\ clock \in Nat
  BY RingFacts DEF RxInv, TypeInv
<1>1. /\ f \in 1..Len(Arrivals) /\ m = Arrivals[f] /\ m \in 1..n
      /\ \A k \in 0..(m - 1) : rx[User(k)] # RxFree /\ rx[User(k)].frame = f /\ rx[User(k)].part = k + 1
      /\ Item(rx, u, arriving, n, m) = [frame |-> f + 1, part |-> 1]
  BY EndIs DEF Reading
<1>2. m \in Nat /\ m - 1 \in 0..(m - 1) /\ m - 1 \in Ring
  BY <1>0, <1>1, RingFacts DEF Ring
<1>3. /\ got' = Append(got, g)
      /\ rx' = [i \in Ring |-> IF i \in {User(k) : k \in 0..(m - 1)} THEN RxFree ELSE rx[i]]
      /\ stamp' = [i \in Ring |-> IF i \in {User(k) : k \in 0..(m - 1)} THEN 0 ELSE stamp[i]]
      /\ user_rx_desc' = User(m)
      /\ UNCHANGED <<engineR, arriving, clock, purge>>
  <2>1. reads \in Int => reads > 0
    BY DEF Reading
  <2> QED BY DEF Reading, FsccProcessRead, Ring
<1>4. {User(k) : k \in 0..(m - 1)} = {Pos(u, k) : k \in 0..(m - 1)} /\ User(m) = Pos(u, m)
  BY UserIsPos
<1>5. rx' = Taken(rx, u, m)
  BY <1>3, <1>4 DEF Taken
<1>6. Item(rx, u, arriving, n, m).part = 1
  BY <1>1
<1> HIDE DEF m, f
<1>7. /\ n - m \in 0..RxNum /\ Pos(u, m) \in Ring
      /\ Pos(Pos(u, m), n - m) = Pos(u, n)
      /\ Chain(Taken(rx, u, m), Pos(u, m), arriving, n - m)
      /\ Item(Taken(rx, u, m), Pos(u, m), arriving, n - m, 0) = Item(rx, u, arriving, n, m)
  <2>1. m \in 0..RxNum /\ m >= 1 /\ m <= n
    BY <1>0, <1>1, RingFacts
  <2> QED BY <2>1, <1>0, <1>6, ChainShrinks
<1>8. Item(rx', user_rx_desc', arriving, n - m, 0) = [frame |-> f + 1, part |-> 1]
  BY <1>1, <1>3, <1>4, <1>5, <1>7
<1>9. g.parts = [k \in 1..m |-> [frame |-> f, part |-> k]]
  <2>1. \A k \in 1..m : rx[User(k - 1)].frame = f /\ rx[User(k - 1)].part = k
    <3> TAKE k \in 1..m
    <3>1. k - 1 \in 0..(m - 1) /\ (k - 1) + 1 = k
      BY <1>2
    <3> QED BY <3>1, <1>1
  <2> QED BY <2>1
<1>10. g.parts \in Seq(Part)
  <2>1. g.parts \in [1..m -> Part]
    <3>1. f \in Nat
      BY <1>1, ArrivalFacts
    <3>2. \A k \in 1..m : [frame |-> f, part |-> k] \in Part
      BY <3>1, <1>2 DEF Part
    <3> HIDE DEF g
    <3> QED BY <3>2, <1>9
  <2> HIDE DEF g
  <2> QED BY <2>1, <1>2, FunctionIsSeq
<1>11. g.stamp \in Nat /\ g.at \in Nat /\ g.stamp >= g.at
  <2>1. last \in Ring /\ rx[last] # RxFree
    <3>1. last \in Ring
      BY <1>0, <1>2, UserIsPos, PosType, RingFacts
    <3> QED BY <3>1, <1>1, <1>2
  <2>2. rx[last].at \in Nat /\ rx[last].at <= clock
    BY <2>1, <1>0 DEF RxInv, CellInv, Cell
  <2>3. stamp[last] \in Nat /\ (stamp[last] # 0 => stamp[last] >= rx[last].at)
    BY <2>1, <1>0 DEF RxInv, StampInv
  <2> HIDE DEF last
  <2> QED BY <2>2, <2>3, <1>0
<1>12. g \in Frame
  <2>1. g = [parts |-> g.parts, stamp |-> g.stamp, at |-> g.at]
    OBVIOUS
  <2> HIDE DEF g
  <2> QED BY <2>1, <1>10, <1>11 DEF Frame
<1> HIDE DEF g
<1>13. g.parts[1].frame = f
  <2>1. 1 \in 1..m
    BY <1>1, <1>2
  <2> QED BY <2>1, <1>9
<1>14. Whole(g)
  BY <1>1, <1>9, <1>11, <1>13 DEF Whole
<1> QED BY <1>1, <1>3, <1>4, <1>5, <1>7, <1>8, <1>12, <1>13, <1>14 DEF m, f

LEMMA ReadKeeps == RxInv /\ Reading => RxInv'
<1> SUFFICES ASSUME RxInv, Reading PROVE RxInv'
  OBVIOUS
<1>1. PICK n \in 0..RxNum : engineR.at = Pos(user_rx_desc, n) /\ Chain(rx, user_rx_desc, arriving, n)
  BY DEF RxInv, ChainInv
<1> DEFINE m == FrameLength
           taken == {Pos(user_rx_desc, k) : k \in 0..(m - 1)}
<1>2. /\ m \in 1..n
      /\ rx' = Taken(rx, user_rx_desc, m) /\ user_rx_desc' = Pos(user_rx_desc, m)
      /\ n - m \in 0..RxNum /\ engineR.at = Pos(user_rx_desc', n - m)
      /\ Chain(rx', user_rx_desc', arriving, n - m)
      /\ UNCHANGED <<engineR, arriving, clock, purge>>
      /\ stamp' = [i \in Ring |-> IF i \in taken THEN 0 ELSE stamp[i]]
      /\ \E g \in Frame : got' = Append(got, g) /\ Whole(g)
  BY <1>1, ReadEffect
<1>3. rx' = [i \in Ring |-> IF i \in taken THEN RxFree ELSE rx[i]]
  BY <1>2 DEF Taken
<1>4. rx \in [Ring -> Cell] /\ stamp \in [Ring -> Nat] /\ user_rx_desc \in Ring /\ got \in Seq(Frame)
  BY DEF RxInv, TypeInv
<1>5. PICK g \in Frame : got' = Append(got, g) /\ Whole(g)
  BY <1>2
<1>6. user_rx_desc' \in Ring
  <2>1. m \in 0..RxNum
    BY <1>2, RingFacts
  <2> QED BY <2>1, <1>2, <1>4, PosType
<1> HIDE DEF m, taken
<1>7. RxFree \in Cell
  BY DEF RxFree, Cell
<1>8. rx' \in [Ring -> Cell] /\ stamp' \in [Ring -> Nat]
  BY <1>2, <1>3, <1>4, <1>7
<1>9. got' \in Seq(Frame) /\ Len(got') = Len(got) + 1 /\ got'[Len(got) + 1] = g
      /\ \A i \in 1..Len(got) : got'[i] = got[i]
  BY <1>4, <1>5, AppendProperties
<1>10. TypeInv'
  BY <1>2, <1>6, <1>8, <1>9 DEF RxInv, TypeInv
<1>11. CellInv'
  BY <1>2, <1>3 DEF RxInv, CellInv
<1>12. LineInv' /\ PurgeInv'
  <2>1. LineInv'
    BY <1>2 DEF RxInv, LineInv
  <2>2. purge.rx # "base"
    <3>1. ASSUME \A i \in Ring : rx[i] = RxFree, user_rx_desc = 0 PROVE FALSE
      <4>1. 0 < n /\ Pos(user_rx_desc, 0) \in Ring
        BY <1>2, <1>4, RingFacts, PosType
      <4> QED BY <4>1, <3>1, <1>1, RingFacts DEF Chain
    <3> QED BY <3>1 DEF RxInv, PurgeInv
  <2> QED BY <2>1, <2>2, <1>2 DEF PurgeInv
<1>13. StampInv'
  BY <1>2, <1>3 DEF RxInv, StampInv
<1>14. ChainInv'
  BY <1>2 DEF ChainInv
<1>15. GotInv'
  <2> SUFFICES ASSUME NEW i \in 1..Len(got') PROVE Whole(got'[i])
    BY DEF GotInv
  <2>1. Len(got) \in Nat
    BY <1>4, LenProperties
  <2>2. i \in 1..Len(got) \/ i = Len(got) + 1
    BY <2>1, <1>9
  <2> QED BY <2>2, <1>5, <1>9 DEF RxInv, GotInv
<1> QED BY <1>10, <1>11, <1>12, <1>13, <1>14, <1>15 DEF RxInv

-----------------------------------------------------------------------------
(* The theorems.                                                           *)

LEMMA RxStep == RxInv /\ [Next]_vars => RxInv'
<1> SUFFICES ASSUME RxInv, [Next]_vars PROVE RxInv'
  OBVIOUS
<1>1. TypeInv
  BY DEF RxInv
<1> QED BY <1>1, NextSplit, ReadOrNot, AsideKeeps, FullKeeps, StampKeeps, StartKeeps, PurgeKeeps,
            ReceiveKeeps, ReadKeeps

\* Whatever the engines, the writers and the purges do, the receive half of the
\* program keeps its invariant.
THEOREM DmaInvariance == Spec => []RxInv
BY RxInit, RxStep, PTL DEF Spec

\* fscc_user_read_frame: a read returns all the descriptors of one frame and nothing
\* else, on a ring of any size, while the engine goes on writing behind the frame and
\* purges come in between.
THEOREM ReadSafety == Spec => []ReadsWhole
<1>1. RxInv => ReadsWhole
  BY DEF RxInv, GotInv, Whole, ReadsWhole
<1> QED BY <1>1, DmaInvariance, PTL

\* fscc_dma_apply_timestamps and fscc_user_read_frame: a frame's timestamp is never
\* older than its last descriptor, so never one of an earlier user of the descriptor.
THEOREM StampSafety == Spec => []StampedAfterArrival
<1>1. RxInv => StampedAfterArrival
  BY DEF RxInv, GotInv, Whole, StampedAfterArrival
<1> QED BY <1>1, DmaInvariance, PTL

-----------------------------------------------------------------------------
(* The receiver is a queue of frames.                                      *)

\* The numbers from a up to, but without, b in a sequence.
From(a, b) == [i \in 1..(b - a) |-> a + i - 1]

\* The frames of an interval in the order they were accepted.
LEMMA InOrderIs ==
  ASSUME NEW a \in Nat, NEW b \in Nat, a <= b
  PROVE  InOrder(a..(b - 1)) = From(a, b)
<1> DEFINE N == b - a
           S == a..(b - 1)
           Up(s) == \A i, j \in 1..N : i < j => s[i] < s[j]
<1>1. N \in Nat /\ Cardinality(S) = N
  <2>1. Cardinality(S) = IF a > b - 1 THEN 0 ELSE (b - 1) - a + 1
    BY FS_Interval
  <2> QED BY <2>1
<1>2. From(a, b) \in [1..N -> S] /\ Up(From(a, b))
  BY DEF From
<1>3. ASSUME NEW s \in [1..N -> S], Up(s) PROVE s = From(a, b)
  <2> DEFINE Above == {k \in 0..N : k # 0 => s[k] >= a + k - 1}
             Below == {k \in 0..N : k # N => s[N - k] <= b - 1 - k}
  <2>1. \A k \in 1..N : s[k] \in Int /\ s[k] >= a /\ s[k] <= b - 1
    OBVIOUS
  <2>2. 0..N \subseteq Above
    <3>1. 0 \in Above
      BY <1>1
    <3>2. ASSUME NEW k \in 0..(N - 1), k \in Above PROVE k + 1 \in Above
      <4>1. k + 1 \in 1..N /\ k + 1 \in 0..N
        BY <1>1
      <4>2. CASE k = 0
        BY <4>1, <4>2, <2>1
      <4>3. CASE k # 0
        <5>1. k \in 1..N /\ k < k + 1 /\ s[k] >= a + k - 1
          BY <4>3, <3>2, <1>1
        <5>2. s[k] < s[k + 1]
          BY <5>1, <4>1, <1>3
        <5>3. s[k + 1] >= a + (k + 1) - 1
          BY <5>1, <5>2, <4>1, <2>1
        <5> QED BY <5>3, <4>1
      <4> QED BY <4>2, <4>3
    <3> HIDE DEF Above
    <3> QED BY <3>1, <3>2, <1>1, UpTo
  <2>3. 0..N \subseteq Below
    <3>1. 0 \in Below
      <4>1. 0 # N => N \in 1..N
        BY <1>1
      <4> QED BY <4>1, <2>1, <1>1
    <3>2. ASSUME NEW k \in 0..(N - 1), k \in Below PROVE k + 1 \in Below
      <4>1. k + 1 \in 0..N /\ k # N /\ s[N - k] <= b - 1 - k
        BY <3>2, <1>1
      <4>2. CASE k + 1 = N
        BY <4>1, <4>2
      <4>3. CASE k + 1 # N
        <5>1. N - k \in 1..N /\ N - (k + 1) \in 1..N /\ N - (k + 1) < N - k
          BY <4>1, <4>3, <1>1
        <5>2. s[N - (k + 1)] < s[N - k]
          BY <5>1, <1>3
        <5>3. s[N - (k + 1)] <= b - 1 - (k + 1)
          BY <5>1, <5>2, <4>1, <2>1
        <5> QED BY <5>3, <4>1
      <4> QED BY <4>2, <4>3
    <3> HIDE DEF Below
    <3> QED BY <3>1, <3>2, <1>1, UpTo
  <2>4. \A k \in 1..N : s[k] = a + k - 1
    <3> TAKE k \in 1..N
    <3>1. s[k] >= a + k - 1
      BY <2>2, <1>1
    <3>2. s[k] <= a + k - 1
      <4>1. N - k \in 0..N /\ N - k # N /\ N - (N - k) = k /\ b - 1 - (N - k) = a + k - 1
        BY <1>1
      <4>2. N - k \in Below
        BY <4>1, <2>3
      <4> QED BY <4>1, <4>2
    <3> QED BY <3>1, <3>2, <2>1
  <2> QED BY <2>4 DEF From
<1> HIDE DEF N, S
<1>4. InOrder(S) = CHOOSE s \in [1..N -> S] : Up(s)
  BY <1>1 DEF InOrder
<1>5. \E s \in [1..N -> S] : Up(s)
  BY <1>2
<1> HIDE DEF Up
<1>6. InOrder(S) \in [1..N -> S] /\ Up(InOrder(S))
  BY <1>4, <1>5
<1>7. InOrder(S) = From(a, b)
  BY <1>3, <1>6
<1> QED BY <1>7 DEF S

\* What a queue of consecutive frames discards, accepts and delivers.
LEMMA FromEmpty ==
  ASSUME NEW a \in Nat PROVE From(a, a) = << >>
BY DEF From

LEMMA InOrderNone == InOrder({}) = << >>
<1>1. {} = 0..(0 - 1)
  OBVIOUS
<1>2. InOrder(0..(0 - 1)) = From(0, 0)
  BY InOrderIs
<1> QED BY <1>1, <1>2, FromEmpty

LEMMA FromGrows ==
  ASSUME NEW a \in Nat, NEW b \in Nat, a <= b
  PROVE  From(a, b + 1) = Append(From(a, b), b)
BY DEF From

LEMMA FromShrinks ==
  ASSUME NEW a \in Nat, NEW b \in Nat, a < b
  PROVE  /\ From(a, b) # << >> /\ Head(From(a, b)) = a
         /\ Tail(From(a, b)) = From(a + 1, b)
<1>1. From(a, b) \in Seq(Nat) /\ Len(From(a, b)) = b - a
  BY DEF From
<1>2. From(a, b) # << >> /\ Head(From(a, b)) = a
  <2>1. 1 \in 1..(b - a) /\ From(a, b)[1] = a
    BY DEF From
  <2> QED BY <2>1, <1>1, EmptySeq
<1>3. /\ Tail(From(a, b)) \in Seq(Nat) /\ Len(Tail(From(a, b))) = (b - a) - 1
      /\ \A i \in 1..((b - a) - 1) : Tail(From(a, b))[i] = From(a, b)[i + 1]
  BY <1>1, <1>2, HeadTailProperties
<1>4. Tail(From(a, b)) \in [1..((b - a) - 1) -> Nat]
  BY <1>3, LenProperties
<1>5. \A i \in 1..((b - a) - 1) : From(a, b)[i + 1] = (a + 1) + i - 1
  BY DEF From
<1>6. Tail(From(a, b)) = [i \in 1..((b - a) - 1) |-> (a + 1) + i - 1]
  BY <1>3, <1>4, <1>5
<1>7. (b - a) - 1 = b - (a + 1)
  OBVIOUS
<1> QED BY <1>2, <1>6, <1>7 DEF From

\* The cells of a ring hold parts of frames of the line.
Cells(ring) ==
  \A i \in Ring : ring[i] # RxFree =>
    /\ ring[i].frame \in Nat /\ ring[i].part \in Nat
    /\ ring[i].end <=> ring[i].part = Arrivals[ring[i].frame]

\* The frames with an end in the ring are those from the frame at the front to the
\* one that is coming in.
LEMMA EndFramesIs ==
  ASSUME NEW ring, Cells(ring), NEW u \in Ring, NEW next \in Part, NEW n \in 0..RxNum,
         Chain(ring, u, next, n)
  PROVE  LET a == Item(ring, u, next, n, 0).frame
         IN a \in Nat /\ a <= next.frame /\ EndFrames(ring) = a..(next.frame - 1)
<1> DEFINE it(k) == Item(ring, u, next, n, k)
           F(k) == it(k).frame
           Ended(k) == it(k).part = Arrivals[F(k)]
           Good == {k \in 0..n : /\ \A j \in 0..k : F(j) <= F(k)
                                 /\ \A f \in F(0)..(F(k) - 1) : \E j \in 0..(k - 1) : Ended(j) /\ F(j) = f}
<1>0. n \in Nat
  BY RingFacts
<1>1. \A k \in 0..(n - 1) :
        /\ k \in Ring /\ k < n /\ Pos(u, k) \in Ring /\ ring[Pos(u, k)] # RxFree
        /\ it(k) = [frame |-> ring[Pos(u, k)].frame, part |-> ring[Pos(u, k)].part]
        /\ ring[Pos(u, k)].end <=> Ended(k)
  <2> TAKE k \in 0..(n - 1)
  <2>1. k \in Ring /\ k < n /\ k \in 0..RxNum
    BY <1>0, RingFacts DEF Ring
  <2>2. Pos(u, k) \in Ring
    BY <2>1, PosType
  <2>3. ring[Pos(u, k)] # RxFree
    BY <2>1 DEF Chain
  <2>4. it(k) = [frame |-> ring[Pos(u, k)].frame, part |-> ring[Pos(u, k)].part]
    BY <2>1 DEF Item
  <2>5. ring[Pos(u, k)].end <=> ring[Pos(u, k)].part = Arrivals[ring[Pos(u, k)].frame]
    BY <2>2, <2>3 DEF Cells
  <2> HIDE DEF it
  <2> QED BY <2>1, <2>2, <2>3, <2>4, <2>5
<1>2. \A k \in 0..n : F(k) \in Nat
  <2> TAKE k \in 0..n
  <2>1. CASE k = n
    BY <2>1, <1>0 DEF Item, Part
  <2>2. CASE k # n
    BY <2>2, <1>0, <1>1 DEF Cells
  <2> QED BY <2>1, <2>2
<1>3. \A k \in 0..(n - 1) : F(k + 1) = IF Ended(k) THEN F(k) + 1 ELSE F(k)
  <2> TAKE k \in 0..(n - 1)
  <2>1. it(k + 1) = Follow(it(k))
    BY DEF Chain
  <2> HIDE DEF it
  <2> QED BY <2>1 DEF Follow
<1>4. F(n) = next.frame
  BY <1>0 DEF Item
<1> HIDE DEF F, it, Ended
<1>5. 0 \in Good
  BY <1>0, <1>2
<1>6. ASSUME NEW k \in 0..(n - 1), k \in Good PROVE k + 1 \in Good
  <2>1. k \in 0..n /\ k + 1 \in 0..n /\ k \in Nat /\ F(k) \in Nat /\ F(k + 1) \in Nat
    BY <1>0, <1>2
  <2>2. F(k) <= F(k + 1)
    BY <1>3, <2>1
  <2>3. \A j \in 0..(k + 1) : F(j) <= F(k + 1)
    <3> TAKE j \in 0..(k + 1)
    <3>1. CASE j = k + 1
      BY <3>1, <2>1
    <3>2. CASE j # k + 1
      <4>1. j \in 0..k /\ j \in 0..n
        BY <3>2, <2>1, <1>0
      <4>2. F(j) <= F(k) /\ F(j) \in Nat
        BY <4>1, <1>6, <1>2
      <4> QED BY <4>2, <2>1, <2>2
    <3> QED BY <3>1, <3>2
  <2>4. \A f \in F(0)..(F(k + 1) - 1) : \E j \in 0..((k + 1) - 1) : Ended(j) /\ F(j) = f
    <3> TAKE f \in F(0)..(F(k + 1) - 1)
    <3>0. F(0) \in Nat
      BY <1>0, <1>2
    <3>1. CASE f <= F(k) - 1
      <4>1. f \in F(0)..(F(k) - 1)
        BY <3>0, <3>1, <2>1
      <4>2. PICK j \in 0..(k - 1) : Ended(j) /\ F(j) = f
        BY <4>1, <1>6
      <4>3. j \in 0..((k + 1) - 1)
        BY <2>1
      <4> QED BY <4>2, <4>3
    <3>2. CASE ~(f <= F(k) - 1)
      <4>1. Ended(k) /\ f = F(k)
        BY <3>0, <3>2, <2>1, <1>3
      <4>2. k \in 0..((k + 1) - 1)
        BY <2>1
      <4> QED BY <4>1, <4>2
    <3> QED BY <3>1, <3>2
  <2> QED BY <2>1, <2>3, <2>4
<1>7. 0..n \subseteq Good
  <2> HIDE DEF Good
  <2> QED BY <1>0, <1>5, <1>6, UpTo
<1>8. n \in Good /\ 0 \in 0..n /\ F(0) \in Nat /\ F(0) <= F(n) /\ F(n) \in Nat
  BY <1>0, <1>2, <1>7
<1>9. \A j \in 0..(n - 1) : Ended(j) => F(j) \in F(0)..(F(n) - 1)
  <2> SUFFICES ASSUME NEW j \in 0..(n - 1), Ended(j) PROVE F(j) \in F(0)..(F(n) - 1)
    OBVIOUS
  <2>1. j \in 0..n /\ j + 1 \in 0..n /\ 0 \in 0..j
    BY <1>0
  <2>2. F(j + 1) = F(j) + 1 /\ F(j) \in Nat
    BY <1>2, <1>3, <2>1
  <2>3. F(0) <= F(j)
    BY <2>1, <1>7
  <2>4. F(j + 1) <= F(n)
    BY <2>1, <1>8
  <2> QED BY <2>2, <2>3, <2>4, <1>8
<1>10. EndFrames(ring) = {F(j) : j \in {k \in 0..(n - 1) : Ended(k)}}
  <2>1. ASSUME NEW i \in Ring, ring[i] # RxFree, ring[i].end
        PROVE  \E j \in 0..(n - 1) : Ended(j) /\ F(j) = ring[i].frame
    <3>1. PICK j \in Ring : i = Pos(u, j)
      BY PosOnto
    <3>2. j \in 0..(n - 1)
      BY <2>1, <3>1, <1>0, RingFacts DEF Chain
    <3>3. Ended(j) /\ F(j) = ring[i].frame
      BY <2>1, <3>1, <3>2, <1>1 DEF F
    <3> QED BY <3>2, <3>3
  <2>2. ASSUME NEW j \in 0..(n - 1), Ended(j)
        PROVE  Pos(u, j) \in Ring /\ ring[Pos(u, j)] # RxFree /\ ring[Pos(u, j)].end
               /\ F(j) = ring[Pos(u, j)].frame
    BY <2>2, <1>1 DEF F
  <2>3. EndFrames(ring) = {ring[i].frame : i \in {j \in Ring : ring[j] # RxFree /\ ring[j].end}}
    BY DEF EndFrames, Ring
  <2> QED BY <2>1, <2>2, <2>3
<1>11. EndFrames(ring) = F(0)..(F(n) - 1)
  <2>1. \A f \in F(0)..(F(n) - 1) : \E j \in 0..(n - 1) : Ended(j) /\ F(j) = f
    BY <1>8
  <2> HIDE DEF Good
  <2> QED BY <2>1, <1>9, <1>10
<1> QED BY <1>4, <1>8, <1>11 DEF F, it

\* rxqueue holds the frames from the one at the front up to the one that comes in.
LEMMA QueueIs ==
  ASSUME NEW ring \in [Ring -> Cell], Cells(ring), NEW u \in Ring, NEW next \in Part,
         NEW n \in 0..RxNum, Chain(ring, u, next, n)
  PROVE  LET a == Item(ring, u, next, n, 0).frame
         IN a \in Nat /\ next.frame \in Nat /\ a <= next.frame
            /\ InOrder(EndFrames(ring)) = From(a, next.frame)
<1> DEFINE a == Item(ring, u, next, n, 0).frame
<1>1. a \in Nat /\ a <= next.frame /\ EndFrames(ring) = a..(next.frame - 1) /\ next.frame \in Nat
  BY EndFramesIs DEF Part
<1> HIDE DEF a
<1>2. InOrder(a..(next.frame - 1)) = From(a, next.frame)
  BY <1>1, InOrderIs
<1> QED BY <1>1, <1>2 DEF a

LEMMA CellsOf == RxInv => Cells(rx) /\ arriving \in Part /\ rx \in [Ring -> Cell] /\ user_rx_desc \in Ring
BY DEF RxInv, TypeInv, CellInv, Cells, Cell, Part

\* A part that is not a frame's last one changes nothing; the last one is accepted.
LEMMA ReceiveAccepts ==
  RxInv /\ RxInv' /\ EngineReceive => RxQueue!Accept \/ UNCHANGED <<rxqueue, rxout>>
<1> SUFFICES ASSUME RxInv, RxInv', EngineReceive
             PROVE  RxQueue!Accept \/ UNCHANGED <<rxqueue, rxout>>
  OBVIOUS
<1> DEFINE u == user_rx_desc
<1>1. PICK n \in 0..RxNum : engineR.at = Pos(u, n) /\ Chain(rx, u, arriving, n)
  BY DEF RxInv, ChainInv
<1>2. PICK k \in 0..RxNum : engineR'.at = Pos(u', k) /\ Chain(rx', u', arriving', k)
  BY DEF RxInv, ChainInv
<1> DEFINE a == Item(rx, u, arriving, n, 0).frame
           c == Item(rx', u', arriving', k, 0).frame
<1>3. a \in Nat /\ arriving.frame \in Nat /\ a <= arriving.frame /\ rxqueue = From(a, arriving.frame)
  BY <1>1, CellsOf, QueueIs DEF rxqueue
<1>4. Cells(rx') /\ arriving' \in Part /\ rx' \in [Ring -> Cell] /\ u' \in Ring
  BY DEF RxInv, TypeInv, CellInv, Cells, Cell, Part
<1>5. c \in Nat /\ c <= arriving'.frame /\ rxqueue' = From(c, arriving'.frame)
  BY <1>2, <1>4, QueueIs DEF rxqueue
<1> DEFINE cell == [frame |-> arriving.frame, part |-> arriving.part,
                    end |-> arriving.part = Arrivals[arriving.frame], at |-> clock + 1]
<1>6. /\ u' = u /\ u \in Ring /\ rx \in [Ring -> Cell] /\ engineR.at \in Ring
      /\ rx[engineR.at] = RxFree /\ arriving.frame \in 1..Len(Arrivals)
  <2>1. arriving.frame <= Len(Arrivals) /\ rx[engineR.at] = RxFree /\ u' = u
    BY DEF EngineReceive
  <2>2. u \in Ring /\ rx \in [Ring -> Cell] /\ engineR.at \in Ring /\ arriving.frame \in Nat \ {0}
    BY DEF RxInv, TypeInv
  <2> QED BY <2>1, <2>2, ArrivalFacts
<1>7. c = a
  <2>1. rx' = [rx EXCEPT ![engineR.at] = cell] /\ cell.frame = arriving.frame /\ cell # RxFree
    <3>1. rx' = [rx EXCEPT ![engineR.at] = cell]
      BY DEF EngineReceive
    <3>2. cell.frame = arriving.frame
      OBVIOUS
    <3>3. cell.frame # RxFree.frame
      BY <1>6 DEF RxFree
    <3> HIDE DEF cell
    <3> QED BY <3>1, <3>2, <3>3
  <2> HIDE DEF cell
  <2>2. Pos(u, 0) \in Ring /\ 0 \in Ring
    BY <1>6, PosType, RingFacts
  <2>3. CASE engineR.at = Pos(u, 0)
    <3>1. rx'[Pos(u, 0)] = cell /\ rx[Pos(u, 0)] = RxFree
      BY <1>6, <2>1, <2>2, <2>3
    <3>2. ~(0 < n) /\ 0 < k
      BY <1>1, <1>2, <1>6, <2>1, <2>2, <3>1 DEF Chain
    <3>3. a = arriving.frame
      BY <3>2 DEF Item
    <3>4. c = cell.frame
      BY <1>6, <3>1, <3>2 DEF Item
    <3> QED BY <2>1, <3>3, <3>4
  <2>4. CASE engineR.at # Pos(u, 0)
    <3>1. rx'[Pos(u, 0)] = rx[Pos(u, 0)]
      BY <1>6, <2>1, <2>2, <2>4
    <3>2. 0 < n
      <4>1. n # 0
        BY <1>1, <2>4
      <4> QED BY <4>1, RingFacts
    <3>3. 0 < k
      BY <1>1, <1>2, <1>6, <2>2, <3>1, <3>2 DEF Chain
    <3> QED BY <1>6, <3>1, <3>2, <3>3 DEF Item
  <2> QED BY <2>3, <2>4
<1> HIDE DEF a, c
<1>8. UNCHANGED rxout
  BY DEF EngineReceive, rxout
<1>9. CASE arriving.part = Arrivals[arriving.frame]
  <2>1. arriving'.frame = arriving.frame + 1
    BY <1>9 DEF EngineReceive
  <2>2. rxqueue' = Append(rxqueue, arriving.frame)
    <3>1. From(a, arriving.frame + 1) = Append(From(a, arriving.frame), arriving.frame)
      BY <1>3, FromGrows
    <3> QED BY <1>3, <1>5, <1>7, <2>1, <3>1
  <2> QED BY <1>6, <1>8, <2>2 DEF RxQueue!Accept
<1>10. CASE arriving.part # Arrivals[arriving.frame]
  <2>1. arriving' = [arriving EXCEPT !.part = arriving.part + 1]
    BY <1>10 DEF EngineReceive
  <2>2. arriving'.frame = arriving.frame
    <3>1. arriving \in [frame : Nat \ {0}, part : Nat \ {0}]
      BY DEF RxInv, TypeInv
    <3> QED BY <2>1, <3>1
  <2> QED BY <1>3, <1>5, <1>7, <1>8, <2>2
<1> QED BY <1>9, <1>10

\* A read delivers the frame at the front.
LEMMA ReadDelivers == RxInv /\ RxInv' /\ Reading => RxQueue!Deliver
<1> SUFFICES ASSUME RxInv, RxInv', Reading PROVE RxQueue!Deliver
  OBVIOUS
<1>1. PICK n \in 0..RxNum : engineR.at = Pos(user_rx_desc, n) /\ Chain(rx, user_rx_desc, arriving, n)
  BY DEF RxInv, ChainInv
<1> DEFINE a == Item(rx, user_rx_desc, arriving, n, 0).frame
           m == FrameLength
<1>2. a \in Nat /\ arriving.frame \in Nat /\ a <= arriving.frame /\ rxqueue = From(a, arriving.frame)
  BY <1>1, CellsOf, QueueIs DEF rxqueue
<1>3. /\ n - m \in 0..RxNum /\ Chain(rx', user_rx_desc', arriving, n - m) /\ arriving' = arriving
      /\ Item(rx', user_rx_desc', arriving, n - m, 0) = [frame |-> a + 1, part |-> 1]
      /\ \E g \in Frame : got' = Append(got, g) /\ g.parts[1].frame = a
  BY <1>1, ReadEffect
<1>4. Cells(rx') /\ arriving \in Part /\ rx' \in [Ring -> Cell] /\ user_rx_desc' \in Ring
  BY <1>3 DEF RxInv, TypeInv, CellInv, Cells, Cell, Part
<1> HIDE DEF a, m
<1>5. a + 1 <= arriving.frame /\ rxqueue' = From(a + 1, arriving.frame)
  <2> DEFINE d == n - m
  <2>1. d \in 0..RxNum /\ Chain(rx', user_rx_desc', arriving, d)
        /\ Item(rx', user_rx_desc', arriving, d, 0).frame = a + 1
    BY <1>3
  <2> HIDE DEF d
  <2> QED BY <1>4, <2>1, QueueIs DEF rxqueue
<1>6. rxqueue # << >> /\ Head(rxqueue) = a /\ Tail(rxqueue) = rxqueue'
  <2>1. a < arriving.frame
    BY <1>2, <1>5
  <2>2. /\ From(a, arriving.frame) # << >> /\ Head(From(a, arriving.frame)) = a
        /\ Tail(From(a, arriving.frame)) = From(a + 1, arriving.frame)
    BY <2>1, <1>2, FromShrinks
  <2> QED BY <1>2, <1>5, <2>2
<1>7. rxout' = Append(rxout, a)
  <2>1. PICK g \in Frame : got' = Append(got, g) /\ g.parts[1].frame = a
    BY <1>3
  <2>2. got \in Seq(Frame) /\ Len(got) \in Nat
    BY LenProperties DEF RxInv, TypeInv
  <2>3. /\ Len(got') = Len(got) + 1 /\ got'[Len(got) + 1] = g
        /\ \A i \in 1..Len(got) : got'[i] = got[i]
    BY <2>1, <2>2, AppendProperties
  <2>4. rxout' = [i \in 1..(Len(got) + 1) |-> got'[i].parts[1].frame]
    BY <2>3 DEF rxout
  <2>5. \A i \in 1..(Len(got) + 1) :
          got'[i].parts[1].frame = IF i \in 1..Len(got) THEN got[i].parts[1].frame ELSE a
    <3> TAKE i \in 1..(Len(got) + 1)
    <3>1. i \in 1..Len(got) \/ (i = Len(got) + 1 /\ i \notin 1..Len(got))
      BY <2>2
    <3> QED BY <3>1, <2>1, <2>3
  <2>6. Append(rxout, a) = [i \in 1..(Len(got) + 1) |-> IF i \in 1..Len(got) THEN got[i].parts[1].frame ELSE a]
    BY <2>2 DEF rxout
  <2> QED BY <2>4, <2>5, <2>6
<1> QED BY <1>6, <1>7 DEF RxQueue!Deliver

\* A purge discards what is there.
LEMMA PurgeDiscards == RxInv /\ RxInv' /\ fscc_io_purge_rx => RxQueue!Discard
<1> SUFFICES ASSUME RxInv, RxInv', fscc_io_purge_rx PROVE RxQueue!Discard
  OBVIOUS
<1>1. rx' = [i \in Ring |-> RxFree] /\ UNCHANGED got
  BY DEF fscc_io_purge_rx, Ring
<1>2. EndFrames(rx') = {}
  BY <1>1 DEF EndFrames, Ring
<1>4. rxqueue' = << >>
  BY <1>2, InOrderNone DEF rxqueue
<1> QED BY <1>1, <1>4 DEF RxQueue!Discard, rxout

\* The other steps do not show.
LEMMA StutterOthers ==
  EngineFull \/ timestamp_worker \/ PurgeRxStart \/ Aside => UNCHANGED <<rxqueue, rxout>>
<1>1. EngineFull \/ timestamp_worker \/ PurgeRxStart \/ Aside => UNCHANGED <<rx, got>>
  BY DEF EngineFull, timestamp_worker, PurgeRxStart, Aside, Receiver
<1>2. UNCHANGED <<rx, got>> => UNCHANGED <<rxqueue, rxout>>
  BY DEF rxqueue, rxout
<1> QED BY <1>1, <1>2

LEMMA QueueInit == Init => RxQueue!Init
<1> SUFFICES ASSUME Init PROVE RxQueue!Init
  OBVIOUS
<1>1. EndFrames(rx) = {}
  BY DEF EndFrames, Init
<1>3. rxqueue = << >>
  BY <1>1, InOrderNone DEF rxqueue
<1>4. rxout = << >>
  BY DEF Init, rxout
<1> QED BY <1>3, <1>4 DEF RxQueue!Init

LEMMA QueueStep ==
  RxInv /\ RxInv' /\ [Next]_vars => [RxQueue!Next]_<<rxqueue, rxout>>
<1> SUFFICES ASSUME RxInv, RxInv', [Next]_vars
             PROVE  RxQueue!Next \/ UNCHANGED <<rxqueue, rxout>>
  OBVIOUS
<1>1. TypeInv
  BY DEF RxInv
<1> QED BY <1>1, NextSplit, ReadOrNot, ReceiveAccepts, ReadDelivers, PurgeDiscards, StutterOthers
        DEF RxQueue!Next

\* What the receive half promises its user, proved step by step: a frame is in the
\* queue from its last descriptor on (EngineReceive), a read takes the first one
\* (FsccProcessRead), and only a purge drops frames, all of them at once.
THEOREM QueueRefinement == Spec => RxIsQueue
BY RxInit, RxStep, QueueInit, QueueStep, PTL DEF Spec, RxIsQueue, RxQueue!Ordered

=============================================================================
