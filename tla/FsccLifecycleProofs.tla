------------------------ MODULE FsccLifecycleProofs -------------------------
(***************************************************************************)
(* Proofs about FsccLifecycle, for every set of devices, every number of   *)
(* descriptors asked for and obtained, and every resource list.            *)
(***************************************************************************)
EXTENDS FsccLifecycle, WellFoundedInduction, TLAPS

\* A ring as fscc_io_create_rx and _tx make it, and one without its array.
Made == {[array |-> TRUE, num |-> i, next |-> fscc_io_link_desc(i)] : i \in Nat}
Gone == {[array |-> FALSE, num |-> i, next |-> <<>>] : i \in Nat}

\* The blocks allocated are those of the two rings; a port that is not started has
\* none, one that is started has both rings, and its engine has a ring to write to.
MemoryInv ==
  /\ rx \in [Devices -> Made \cup Gone] /\ tx \in [Devices -> Made \cup Gone]
  /\ \A d \in Devices :
       /\ allocated[d] = Blocks(rx[d]) + Blocks(tx[d])
       /\ pnp[d] \in {"absent", "added"} => rx[d] \in Gone /\ tx[d] \in Gone
       /\ pnp[d] = "prepared" => rx[d] \in Made /\ tx[d] \in Made
       /\ engine[d] => dma[d] /\ rx[d] \in Made

\* The inductive invariant about memory.
MemIndInv == TypeOK /\ MemoryInv

\* A device that is present has the link of its number, and no other has it.
LinkInv ==
  \A d \in Present :
    link[d] = portNumber[d] /\ \A e \in Present \ {d} : link[e] # link[d]

\* A number is given once.
Stays == \A d \in Devices : portNumber[d] # None => portNumber'[d] = portNumber[d]

-----------------------------------------------------------------------------
(* The links of a ring.                                                    *)

\* Every nonempty set of natural numbers has a least element.
LEMMA LeastNat ==
  ASSUME NEW T, T \subseteq Nat, T # {}
  PROVE  \E x \in T : \A y \in T : x <= y
<1> DEFINE R == {ss \in Nat \X Nat : ss[1] < ss[2]}
<1>1. IsWellFoundedOn(R, Nat)
  BY NatLessThanWellFounded, Zenon DEF OpToRel
<1> HIDE DEF R
<1>2. PICK x \in T : \A y \in T : ~(<<y, x>> \in R)
  BY <1>1, WFMin
<1>3. \A y \in T : ~(y < x)
  BY <1>2 DEF R
<1> QED BY <1>3

\* Following the links of a ring of n descriptors k times from the first leads to
\* the k-th, and n times back to the first.
LEMMA AfterLinks ==
  ASSUME NEW n \in Nat, NEW ring,
         ring = [array |-> TRUE, num |-> n, next |-> fscc_io_link_desc(n)]
  PROVE  /\ \A k \in 0..(n - 1) : After(ring)[k] = k
         /\ After(ring)[n] = 0
<1> DEFINE next == fscc_io_link_desc(n)
           g == [k \in 0..n |-> IF k = n THEN 0 ELSE k]
           Eqn(f) == f = [k \in 0..n |-> IF k = 0 THEN 0 ELSE next[f[k - 1] + 1]]
           at == CHOOSE f : Eqn(f)
<1>1. After(ring) = at
  BY DEF After
<1>2. \A i \in 0..(n - 1) : next[i + 1] = IF i + 1 < n THEN i + 1 ELSE 0
  BY DEF fscc_io_link_desc
<1> HIDE DEF next
<1>3. Eqn(g)
  <2>1. ASSUME NEW k \in 0..n
        PROVE  g[k] = IF k = 0 THEN 0 ELSE next[g[k - 1] + 1]
    <3>1. CASE k = 0
      BY <3>1
    <3>2. CASE k # 0
      <4>1. k - 1 \in 0..(n - 1) /\ k - 1 \in 0..n /\ k - 1 # n
        BY <3>2
      <4>2. g[k - 1] = k - 1
        BY <4>1
      <4>3. next[k - 1 + 1] = IF k - 1 + 1 < n THEN k - 1 + 1 ELSE 0
        BY <1>2, <4>1
      <4> QED BY <3>2, <4>2, <4>3
    <3> QED BY <3>1, <3>2
  <2> QED BY <2>1
<1>4. Eqn(at)
  BY <1>3
<1> HIDE DEF at, g
<1>5. at[0] = 0 /\ \A k \in 1..n : at[k] = next[at[k - 1] + 1]
  BY <1>4
<1>6. \A k \in 0..(n - 1) : at[k] = k
  <2> DEFINE T == {k \in 0..(n - 1) : at[k] # k}
  <2>1. CASE T = {}
    BY <2>1
  <2>2. CASE T # {}
    <3>0. T \subseteq Nat
      OBVIOUS
    <3>1. PICK x \in T : \A y \in T : x <= y
      <4> HIDE DEF T
      <4> QED BY <2>2, <3>0, LeastNat
    <3>2. x # 0 /\ x \in 1..n /\ x - 1 \in 0..(n - 1) /\ x - 1 \notin T
      BY <1>5, <3>1
    <3>3. at[x - 1] = x - 1 /\ x - 1 + 1 < n
      BY <3>1, <3>2
    <3>4. at[x] = next[x - 1 + 1]
      BY <1>5, <3>2, <3>3
    <3>5. next[x - 1 + 1] = x - 1 + 1
      BY <1>2, <3>2, <3>3
    <3> QED BY <3>1, <3>2, <3>4, <3>5
  <2> QED BY <2>1, <2>2
<1>7. at[n] = 0
  <2>1. CASE n = 0
    BY <1>5, <2>1
  <2>2. CASE n # 0
    <3>1. n \in 1..n /\ n - 1 \in 0..(n - 1)
      BY <2>2
    <3>2. at[n] = next[n - 1 + 1]
      BY <1>5, <1>6, <3>1
    <3> QED BY <1>2, <3>1, <3>2
  <2> QED BY <2>1, <2>2
<1> QED BY <1>1, <1>6, <1>7

-----------------------------------------------------------------------------
(* Memory.                                                                 *)

\* What creating a ring leaves, and what destroying one frees.
LEMMA CreatedMade ==
  ASSUME NEW n \in Nat, NEW r \in Created(n) \ {NoRing}
  PROVE  r \in Made /\ r.num \in Nat
<1>1. PICK i \in 0..AskedFor(n) :
         r = [array |-> TRUE, num |-> i, next |-> fscc_io_link_desc(i)]
  BY DEF Created
<1>2. AskedFor(n) \in Nat
  BY DEF AskedFor
<1>3. i \in Nat
  BY <1>2
<1> QED BY <1>1, <1>3 DEF Made

LEMMA NoRingGone == NoRing \in Gone /\ Blocks(NoRing) = 0
BY DEF NoRing, Gone, Blocks

LEMMA DestroyedGone ==
  ASSUME NEW r \in Made \cup Gone
  PROVE  /\ Destroyed(r) \in Gone /\ Blocks(Destroyed(r)) = 0
         /\ Blocks(r) \in Nat /\ Freed(r) = Blocks(r)
<1>1. CASE r \in Made
  <2>1. PICK i \in Nat : r = [array |-> TRUE, num |-> i, next |-> fscc_io_link_desc(i)]
    BY <1>1 DEF Made
  <2>2. Destroyed(r) = [array |-> FALSE, num |-> i, next |-> <<>>]
    BY <2>1 DEF Destroyed
  <2>3. Blocks(r) = 1 + 3 * i /\ Blocks(Destroyed(r)) = 0
    BY <2>1, <2>2 DEF Blocks, FrameBlocks
  <2>4. Destroyed(r) \in Gone
    BY <2>2 DEF Gone
  <2>5. Blocks(r) \in Nat
    BY <2>3
  <2> QED BY <2>3, <2>4, <2>5 DEF Freed
<1>2. CASE r \in Gone
  <2>1. PICK i \in Nat : r = [array |-> FALSE, num |-> i, next |-> <<>>]
    BY <1>2 DEF Gone
  <2>2. Destroyed(r) = r
    BY <2>1 DEF Destroyed
  <2>3. Blocks(r) = 0
    BY <2>1 DEF Blocks
  <2> QED BY <1>2, <2>2, <2>3 DEF Freed
<1> QED BY <1>1, <1>2

LEMMA GoneBlocks == ASSUME NEW r \in Gone PROVE Blocks(r) = 0
BY DEF Gone, Blocks

LEMMA MadeNotGone ==
  ASSUME NEW r \in Made
  PROVE  r \notin Gone /\ r.array /\ r.num \in Nat
                       /\ r = [array |-> TRUE, num |-> r.num, next |-> fscc_io_link_desc(r.num)]
BY DEF Made, Gone

LEMMA MemInit == Init => MemIndInv
BY NoRingGone, LifecycleAssumption DEF Init, MemIndInv, TypeOK, MemoryInv, None

LEMMA MemAdd ==
  ASSUME MemIndInv, NEW d \in Devices, FSCCEvtDeviceAdd(d)
  PROVE  MemIndInv'
<1> DEFINE num == NewNumber(d)
<1>1. num \in Int /\ LastOrInitial \in Int
  BY DEF MemIndInv, TypeOK, NewNumber, LastOrInitial, None
<1>2. pnp' \in {pnp, [pnp EXCEPT ![d] = "added"]}
  BY DEF FSCCEvtDeviceAdd
<1>3. link' \in {link, [link EXCEPT ![d] = num]}
  BY DEF FSCCEvtDeviceAdd
<1>4. portNumber' \in {portNumber, [portNumber EXCEPT ![d] = num]}
  BY DEF FSCCEvtDeviceAdd
<1>5. lastPortNumber' \in {num, LastOrInitial}
  BY DEF FSCCEvtDeviceAdd
<1>6. UNCHANGED <<dma, rings, engine, timers>> /\ pnp[d] = "absent"
  BY DEF FSCCEvtDeviceAdd
<1> HIDE DEF num
<1>7. TypeOK'
  BY <1>1, <1>2, <1>3, <1>4, <1>5, <1>6 DEF MemIndInv, TypeOK, rings
<1>8. MemoryInv'
  BY <1>2, <1>6 DEF MemIndInv, TypeOK, MemoryInv, rings
<1> QED BY <1>7, <1>8 DEF MemIndInv

LEMMA MemRemove ==
  ASSUME MemIndInv, NEW d \in Devices, RemoveDevice(d)
  PROVE  MemIndInv'
<1>1. TypeOK'
  BY LifecycleAssumption DEF MemIndInv, TypeOK, RemoveDevice, registry, None
<1>2. rx[d] \in Gone /\ tx[d] \in Gone /\ allocated[d] = 0 /\ ~engine[d]
  BY GoneBlocks, MadeNotGone DEF MemIndInv, TypeOK, MemoryInv, RemoveDevice
<1>3. MemoryInv'
  BY <1>2, NoRingGone DEF MemIndInv, TypeOK, MemoryInv, RemoveDevice
<1> QED BY <1>1, <1>3 DEF MemIndInv

LEMMA MemPrepareNoChannel ==
  ASSUME MemIndInv, NEW d \in Devices, PrepareNoChannel(d)
  PROVE  MemIndInv'
<1>1. TypeOK'
  BY DEF MemIndInv, TypeOK, PrepareNoChannel, registry, rings
<1>2. MemoryInv'
  BY DEF MemIndInv, TypeOK, MemoryInv, PrepareNoChannel, registry, rings
<1> QED BY <1>1, <1>2 DEF MemIndInv

LEMMA MemPrepareNoMemory ==
  ASSUME MemIndInv, NEW d \in Devices, PrepareNoMemory(d)
  PROVE  MemIndInv'
<1>1. /\ rx[d] \in Gone /\ tx[d] \in Gone /\ allocated[d] = 0 /\ ~engine[d]
      /\ Freed(tx[d]) = 0
  BY GoneBlocks, MadeNotGone, DestroyedGone DEF MemIndInv, TypeOK, MemoryInv, PrepareNoMemory
<1>2. PICK n \in RingNums, has \in BOOLEAN :
       /\ dma' = [dma EXCEPT ![d] = has]
       /\ \/ /\ rx' = [rx EXCEPT ![d] = NoRing] /\ tx' = [tx EXCEPT ![d] = Destroyed(@)]
             /\ allocated' = [allocated EXCEPT ![d] = @ - Freed(tx[d])]
          \/ \E r \in Created(n) \ {NoRing} :
             /\ rx' = [rx EXCEPT ![d] = Destroyed(r)] /\ tx' = [tx EXCEPT ![d] = NoRing]
             /\ allocated' = [allocated EXCEPT ![d] = @ + Blocks(r) - Freed(r)]
       /\ engine' = IF has THEN [engine EXCEPT ![d] = FALSE] ELSE engine
  BY Zenon DEF PrepareNoMemory
<1>3. PICK r, t \in Gone :
         rx' = [rx EXCEPT ![d] = r] /\ tx' = [tx EXCEPT ![d] = t]
         /\ allocated' = [allocated EXCEPT ![d] = 0]
  <2>1. CASE /\ rx' = [rx EXCEPT ![d] = NoRing] /\ tx' = [tx EXCEPT ![d] = Destroyed(@)]
             /\ allocated' = [allocated EXCEPT ![d] = @ - Freed(tx[d])]
    <3>1. Destroyed(tx[d]) \in Gone
      BY <1>1, DestroyedGone
    <3>2. tx' = [tx EXCEPT ![d] = Destroyed(tx[d])]
      BY <2>1 DEF MemIndInv, MemoryInv
    <3>3. allocated' = [allocated EXCEPT ![d] = 0]
      BY <1>1, <2>1 DEF MemIndInv, TypeOK
    <3> QED BY <2>1, <3>1, <3>2, <3>3, NoRingGone, Zenon
  <2>2. CASE \E r \in Created(n) \ {NoRing} :
             /\ rx' = [rx EXCEPT ![d] = Destroyed(r)] /\ tx' = [tx EXCEPT ![d] = NoRing]
             /\ allocated' = [allocated EXCEPT ![d] = @ + Blocks(r) - Freed(r)]
    <3>1. PICK r \in Created(n) \ {NoRing} :
             /\ rx' = [rx EXCEPT ![d] = Destroyed(r)] /\ tx' = [tx EXCEPT ![d] = NoRing]
             /\ allocated' = [allocated EXCEPT ![d] = @ + Blocks(r) - Freed(r)]
      BY <2>2
    <3>2. n \in Nat
      BY LifecycleAssumption
    <3>3. r \in Made
      BY <3>2, CreatedMade
    <3>4. Destroyed(r) \in Gone /\ Blocks(r) \in Nat /\ Freed(r) = Blocks(r)
      BY <3>3, DestroyedGone
    <3>5. 0 + Blocks(r) - Freed(r) = 0
      BY <3>4
    <3>6. allocated' = [allocated EXCEPT ![d] = 0]
      BY <1>1, <3>1, <3>5 DEF MemIndInv, TypeOK
    <3> QED BY <3>1, <3>4, <3>6, NoRingGone, Zenon
  <2> QED BY <1>2, <2>1, <2>2
<1>4. /\ pnp[d] = "added" /\ pnp' = [pnp EXCEPT ![d] = "failed"]
      /\ engine' \in [Devices -> BOOLEAN] /\ \A e \in Devices : engine'[e] = engine[e]
      /\ UNCHANGED <<registry, link, timers>>
  <2>1. engine \in [Devices -> BOOLEAN]
    BY DEF MemIndInv, TypeOK
  <2>2. engine' \in [Devices -> BOOLEAN] /\ \A e \in Devices : engine'[e] = engine[e]
    BY <1>1, <1>2, <2>1
  <2> QED BY <2>2 DEF PrepareNoMemory
<1>5. TypeOK'
  BY <1>2, <1>3, <1>4 DEF MemIndInv, TypeOK, registry
<1>6. MemoryInv'
  <2>1. Blocks(r) = 0 /\ Blocks(t) = 0
    BY GoneBlocks
  <2> QED BY <1>1, <1>2, <1>3, <1>4, <2>1 DEF MemIndInv, TypeOK, MemoryInv
<1> QED BY <1>5, <1>6 DEF MemIndInv

LEMMA MemPrepare ==
  ASSUME MemIndInv, NEW d \in Devices, Prepare(d)
  PROVE  MemIndInv'
<1>1. rx[d] \in Gone /\ tx[d] \in Gone /\ allocated[d] = 0
  BY GoneBlocks DEF MemIndInv, TypeOK, MemoryInv, Prepare
<1> DEFINE Does(r, t, has, enabler, timer) ==
       /\ dma' = [dma EXCEPT ![d] = fscc_io_initialize(has, enabler)]
       /\ rx' = [rx EXCEPT ![d] = r] /\ tx' = [tx EXCEPT ![d] = t]
       /\ allocated' = [allocated EXCEPT ![d] = @ + Blocks(r) + Blocks(t)]
       /\ engine' = [engine EXCEPT ![d] = fscc_io_initialize(has, enabler)]
       /\ timers' = [timers EXCEPT ![d] = IF timer THEN @ + 1 ELSE @]
       /\ pnp' = [pnp EXCEPT ![d] = IF timer THEN "prepared" ELSE "failed"]
<1>0. PICK n \in RingNums, has \in BOOLEAN, enabler \in BOOLEAN, timer \in BOOLEAN :
        \E r \in Created(n) \ {NoRing}, t \in Created(n) \ {NoRing} :
           Does(r, t, has, enabler, timer)
  BY Zenon DEF Prepare
<1>2. PICK r \in Created(n) \ {NoRing}, t \in Created(n) \ {NoRing} :
        Does(r, t, has, enabler, timer)
  BY <1>0
<1>3. /\ pnp[d] = "added" /\ timers[d] < MaxTimers /\ UNCHANGED <<registry, link>>
  BY DEF Prepare
<1>4. n \in Nat /\ MaxTimers \in Nat /\ fscc_io_initialize(has, enabler) \in BOOLEAN
  BY LifecycleAssumption DEF fscc_io_initialize
<1>5. r \in Made /\ t \in Made
  BY <1>4, CreatedMade
<1>6. Blocks(r) \in Nat /\ Blocks(t) \in Nat
  BY <1>5, DestroyedGone
<1>7. allocated' = [allocated EXCEPT ![d] = Blocks(r) + Blocks(t)]
  <2>1. allocated[d] + Blocks(r) + Blocks(t) = Blocks(r) + Blocks(t)
    BY <1>1, <1>6
  <2> QED BY <1>2, <2>1 DEF MemIndInv, TypeOK
<1>8. TypeOK'
  <2>1. timers' \in [Devices -> 0..MaxTimers]
    BY <1>2, <1>3, <1>4 DEF MemIndInv, TypeOK
  <2>3. allocated' \in [Devices -> Int]
    BY <1>6, <1>7 DEF MemIndInv, TypeOK
  <2> QED BY <1>2, <1>3, <1>4, <2>1, <2>3 DEF MemIndInv, TypeOK, registry
<1>9. MemoryInv'
  BY <1>2, <1>3, <1>4, <1>5, <1>7 DEF MemIndInv, TypeOK, MemoryInv
<1> QED BY <1>8, <1>9 DEF MemIndInv

LEMMA MemRelease ==
  ASSUME MemIndInv, NEW d \in Devices, FsccEvtDeviceReleaseHardware(d)
  PROVE  MemIndInv'
<1> DEFINE r == Destroyed(rx[d])
           t == Destroyed(tx[d])
<1>1. r \in Gone /\ t \in Gone /\ Blocks(r) = 0 /\ Blocks(t) = 0
  BY DestroyedGone DEF MemIndInv, MemoryInv
<1>2. rx' = [rx EXCEPT ![d] = r] /\ tx' = [tx EXCEPT ![d] = t]
  BY DEF FsccEvtDeviceReleaseHardware, MemIndInv, MemoryInv
<1>3. allocated' = [allocated EXCEPT ![d] = 0]
  <2>1. /\ Blocks(rx[d]) \in Nat /\ Freed(rx[d]) = Blocks(rx[d])
        /\ Blocks(tx[d]) \in Nat /\ Freed(tx[d]) = Blocks(tx[d])
    BY DestroyedGone DEF MemIndInv, MemoryInv
  <2>2. allocated[d] = Blocks(rx[d]) + Blocks(tx[d])
    BY DEF MemIndInv, MemoryInv
  <2>3. allocated[d] - Freed(rx[d]) - Freed(tx[d]) = 0
    BY <2>1, <2>2
  <2> QED BY <2>3 DEF FsccEvtDeviceReleaseHardware, MemIndInv, TypeOK
<1>4. engine' = [engine EXCEPT ![d] = FALSE]
  BY DEF FsccEvtDeviceReleaseHardware, MemIndInv, TypeOK, MemoryInv
<1>5. pnp' = [pnp EXCEPT ![d] = "added"] /\ UNCHANGED <<registry, link, dma, timers>>
  BY DEF FsccEvtDeviceReleaseHardware
<1> HIDE DEF r, t
<1>6. TypeOK'
  BY <1>3, <1>4, <1>5 DEF MemIndInv, TypeOK, registry
<1>7. MemoryInv'
  BY <1>1, <1>2, <1>3, <1>4, <1>5 DEF MemIndInv, TypeOK, MemoryInv
<1> QED BY <1>6, <1>7 DEF MemIndInv

LEMMA MemBooted ==
  ASSUME MemIndInv, Booted, lastPortNumber' \in Int, portNumber' \in [Devices -> Int]
  PROVE  MemIndInv'
<1>1. TypeOK'
  BY LifecycleAssumption DEF MemIndInv, TypeOK, Booted, None
<1>2. MemoryInv'
  BY NoRingGone DEF MemoryInv, Booted
<1> QED BY <1>1, <1>2 DEF MemIndInv

LEMMA MemNext == MemIndInv /\ [Next]_vars => MemIndInv'
<1> SUFFICES ASSUME MemIndInv, [Next]_vars PROVE MemIndInv'
  OBVIOUS
<1>2. ASSUME NEW d \in Devices, CrashInAdd(d) PROVE MemIndInv'
  <2>1. NewNumber(d) \in Int /\ LastOrInitial \in Int
    BY DEF MemIndInv, TypeOK, NewNumber, LastOrInitial, None
  <2>2. lastPortNumber' \in Int /\ portNumber' \in [Devices -> Int]
    BY <1>2, <2>1 DEF CrashInAdd, MemIndInv, TypeOK
  <2> QED BY <1>2, <2>2, MemBooted DEF CrashInAdd
<1>3. CASE Reboot
  BY <1>3, MemBooted DEF Reboot, registry, MemIndInv, TypeOK
<1>4. CASE UNCHANGED vars
  BY <1>4 DEF vars, registry, rings, MemIndInv, TypeOK, MemoryInv
<1> QED BY <1>2, <1>3, <1>4, MemAdd, MemRemove, MemPrepareNoChannel,
           MemPrepareNoMemory, MemPrepare, MemRelease DEF Next

\* The inductive invariant holds in every state.
THEOREM LifecycleInvariance == Spec => []MemIndInv
BY MemInit, MemNext, PTL DEF Spec

\* Whatever fails and however often the device restarts, a device without hardware
\* has nothing allocated: no block is leaked, none is freed twice.
THEOREM LeakSafety == Spec => []NoLeak
<1>1. MemIndInv => NoLeak
  BY GoneBlocks DEF MemIndInv, MemoryInv, NoLeak
<1> QED BY <1>1, LifecycleInvariance, PTL

\* The receive engine never goes with its ring freed.
THEOREM DmaSafety == Spec => []DmaIntoOwnedMemory
<1>1. MemIndInv => DmaIntoOwnedMemory
  BY MadeNotGone DEF MemIndInv, MemoryInv, DmaIntoOwnedMemory
<1> QED BY <1>1, LifecycleInvariance, PTL

\* The links of a started port's rings make one circle, for every number of
\* descriptors asked for and every number obtained.
THEOREM RingSafety == Spec => []RingsClosed
<1>1. ASSUME NEW ring \in Made
      PROVE  /\ ring.array
             /\ {After(ring)[k] : k \in 0..(ring.num - 1)} = 0..(ring.num - 1)
             /\ After(ring)[ring.num] = 0
  <2>1. /\ ring.array /\ ring.num \in Nat
        /\ ring = [array |-> TRUE, num |-> ring.num, next |-> fscc_io_link_desc(ring.num)]
    BY MadeNotGone
  <2>2. /\ \A k \in 0..(ring.num - 1) : After(ring)[k] = k
        /\ After(ring)[ring.num] = 0
    BY <2>1, AfterLinks
  <2> QED BY <2>1, <2>2
<1>2. MemIndInv => RingsClosed
  BY <1>1 DEF MemIndInv, MemoryInv, RingsClosed
<1> QED BY <1>2, LifecycleInvariance, PTL

-----------------------------------------------------------------------------
(* Port numbers.                                                           *)

LEMMA LinkAdd ==
  ASSUME TypeOK, LinkInv, NEW d \in Devices, FSCCEvtDeviceAdd(d)
  PROVE  LinkInv' /\ Stays
<1> DEFINE num == NewNumber(d)
<1>1. num \in Int /\ (portNumber[d] # None => num = portNumber[d])
  BY DEF TypeOK, NewNumber, LastOrInitial, None
<1>2. PICK stage \in AddFaults \cup (IF \E e \in Present : link[e] = num
                                       THEN {"counted"} ELSE {"done"}) :
        /\ portNumber' = IF stage = "device" THEN portNumber
                                             ELSE [portNumber EXCEPT ![d] = num]
        /\ pnp'  = IF stage = "done" THEN [pnp EXCEPT ![d] = "added"] ELSE pnp
        /\ link' = IF stage = "done" THEN [link EXCEPT ![d] = num] ELSE link
  BY DEF FSCCEvtDeviceAdd
<1>3. stage = "done" => \A e \in Present : link[e] # num
  BY <1>2, LifecycleAssumption
<1>4. pnp[d] = "absent" /\ d \notin Present
  BY DEF FSCCEvtDeviceAdd, Present
<1> HIDE DEF num
<1>5. Stays
  BY <1>1, <1>2 DEF Stays, TypeOK
<1>6. \A e \in Devices \ {d} : UNCHANGED <<portNumber[e], link[e], pnp[e]>>
  BY <1>2 DEF TypeOK
<1>7. CASE stage = "done"
  <2>1. Present' = Present \cup {d} /\ link'[d] = num /\ portNumber'[d] = num
    BY <1>2, <1>7 DEF Present, TypeOK
  <2> QED BY <1>3, <1>4, <1>5, <1>6, <1>7, <2>1 DEF LinkInv, Present
<1>8. CASE stage # "done"
  <2>1. Present' = Present
    BY <1>2, <1>8 DEF Present
  <2> QED BY <1>4, <1>5, <1>6, <2>1 DEF LinkInv, Present
<1> QED BY <1>7, <1>8

LEMMA LinkNext ==
  ASSUME TypeOK, LinkInv, [Next]_vars
  PROVE  LinkInv' /\ Stays
<1>1. ASSUME NEW d \in Devices, RemoveDevice(d) PROVE LinkInv' /\ Stays
  <2>1. Present' = Present \ {d} /\ UNCHANGED portNumber
    BY <1>1 DEF RemoveDevice, Present, TypeOK, registry
  <2>2. \A e \in Present \ {d} : link'[e] = link[e]
    BY <1>1 DEF RemoveDevice, Present, TypeOK
  <2> QED BY <2>1, <2>2 DEF LinkInv, Stays
<1>2. ASSUME NEW d \in Devices, CrashInAdd(d) PROVE LinkInv' /\ Stays
  <2>1. Present' = {}
    BY <1>2 DEF CrashInAdd, Booted, Present
  <2>2. Stays
    BY <1>2 DEF CrashInAdd, NewNumber, Stays, TypeOK
  <2> QED BY <2>1, <2>2 DEF LinkInv
<1>3. CASE Reboot
  BY <1>3 DEF Reboot, Booted, Present, registry, LinkInv, Stays
<1>4. ASSUME NEW d \in Devices,
             PrepareNoChannel(d) \/ PrepareNoMemory(d) \/ Prepare(d)
               \/ FsccEvtDeviceReleaseHardware(d)
      PROVE  LinkInv' /\ Stays
  <2>1. UNCHANGED <<portNumber, link>>
    BY <1>4 DEF PrepareNoChannel, PrepareNoMemory, Prepare, FsccEvtDeviceReleaseHardware,
                registry
  <2>2. pnp[d] # "absent" /\ \E v \in {"added", "prepared", "failed"} : pnp' = [pnp EXCEPT ![d] = v]
    BY <1>4 DEF PrepareNoChannel, PrepareNoMemory, Prepare, FsccEvtDeviceReleaseHardware
  <2>3. Present' = Present
    BY <2>2 DEF Present, TypeOK
  <2> QED BY <2>1, <2>3 DEF LinkInv, Stays
<1>5. CASE UNCHANGED vars
  BY <1>5 DEF vars, registry, LinkInv, Present, Stays
<1> QED BY <1>1, <1>2, <1>3, <1>4, <1>5, LinkAdd DEF Next

\* For every set of devices, whatever fails in an addition, in whichever order devices
\* come and go and wherever the machine stops: a device keeps the number it was given
\* first, its link is of that number, and no two present devices have the same link.
THEOREM NumberSafety == Spec => NumbersStay
<1>1. Init => LinkInv
  BY DEF Init, LinkInv, Present
<1>2. TypeOK /\ LinkInv /\ [Next]_vars => LinkInv'
  BY LinkNext
<1>3. TypeOK /\ LinkInv /\ [Next]_vars =>
        [\A d \in Devices :
           /\ portNumber[d] # None => portNumber'[d] = portNumber[d]
           /\ pnp'[d] # "absent" =>
                /\ link'[d] = portNumber'[d]
                /\ \A e \in Devices \ {d} : pnp'[e] # "absent" => link'[e] # link'[d]]_vars
  <2> SUFFICES ASSUME TypeOK, LinkInv, Next
               PROVE  \A d \in Devices :
                        /\ portNumber[d] # None => portNumber'[d] = portNumber[d]
                        /\ pnp'[d] # "absent" =>
                             /\ link'[d] = portNumber'[d]
                             /\ \A e \in Devices \ {d} : pnp'[e] # "absent" => link'[e] # link'[d]
    OBVIOUS
  <2>1. LinkInv' /\ Stays
    BY LinkNext
  <2> QED BY <2>1 DEF LinkInv, Stays, Present
<1>4. MemIndInv => TypeOK
  BY DEF MemIndInv
<1> QED BY <1>1, <1>2, <1>3, <1>4, LifecycleInvariance, PTL DEF Spec, NumbersStay
=============================================================================
