--------------------------- MODULE FsccLifecycle ----------------------------
(***************************************************************************)
(* The life of a port: FSCCEvtDeviceAdd with fscc_port_new and the port    *)
(* numbers in the registry, PrepareHardware and ReleaseHardware with the   *)
(* card's BARs, the descriptor rings, the DMA engine of the receiver and   *)
(* the timer.  Each callback of the framework is one action; the places    *)
(* where it can fail are choices of the action.  Devices come, go, restart *)
(* (stop and start for a rebalance) and the machine reboots.               *)
(***************************************************************************)
EXTENDS Integers, FiniteSets, Sequences

CONSTANTS
  Devices,          \* device instances, each with a registry key of its own
  RingNums,         \* TxNum and RxNum in the registry: numbers asked for
  AddFaults,        \* steps at which fscc_port_new may fail
  Resources,        \* the translated resources of a device, a sequence of types
  MaxTimers         \* bound: starts of a device between two additions

ASSUME LifecycleAssumption ==
  /\ IsFiniteSet(Devices) /\ RingNums \subseteq Nat /\ MaxTimers \in Nat \ {0}
  /\ AddFaults \subseteq {"device", "numbered", "counted"}
  /\ Resources \in Seq({"port", "memory", "private", "interrupt"})

None == -2      \* no value in the registry; -1 is a LastPortNumber

VARIABLES
  lastPortNumber,   \* registry: LastPortNumber in the driver's key
  portNumber,       \* registry: PortNumber in each device's key
  pnp,              \* "absent", "added", "prepared" or "failed" (PrepareHardware failed)
  link,             \* the number in the device's symbolic link
  dma,              \* has_dma
  rx, tx,           \* the rings: descriptor array, its length, next_descriptor
  engine,           \* the receive DMA engine is going
  bars, mapped,     \* card.bar[]: the resource each holds; resources mapped by MmMapIoSpace
  timers,           \* timers created for the device and running
  allocated         \* pool blocks and common buffers not freed

registry == <<lastPortNumber, portNumber>>
rings    == <<rx, tx, allocated>>
vars == <<registry, pnp, link, dma, rings, engine, bars, mapped, timers>>

NoRing == [array |-> FALSE, num |-> 0, next |-> << >>]

-----------------------------------------------------------------------------
(* fscc_port_new and the registry.                                         *)

\* fscc_driver_get_last_port_num: -1 is stored when there is no value.
LastOrInitial == IF lastPortNumber = None THEN -1 ELSE lastPortNumber

\* Mutant: numbers a device anew each time.
NewNumber_Anew(d) == LastOrInitial + 1

NewNumber(d) == IF portNumber[d] = None THEN LastOrInitial + 1 ELSE portNumber[d]

Present == {d \in Devices : pnp[d] # "absent"}
Numbered == {d \in Devices : portNumber[d] # None}

\* A failure deletes the device but not what is in the registry by then: "device"
\* is one before set_port_num, "numbered" one of set_port_num's successor, "counted"
\* one after set_last_port_num.  A symbolic link that exists is such a failure.
FSCCEvtDeviceAdd(d) ==
  /\ pnp[d] = "absent"
  /\ LET num   == NewNumber(d)
         taken == \E e \in Present : link[e] = num
     IN \E stage \in AddFaults \cup (IF taken THEN {"counted"} ELSE {"done"}) :
          /\ portNumber' = IF stage = "device" THEN portNumber
                                               ELSE [portNumber EXCEPT ![d] = num]
          /\ lastPortNumber' = IF stage \in {"device", "numbered"} THEN LastOrInitial ELSE num
          /\ pnp'  = IF stage = "done" THEN [pnp EXCEPT ![d] = "added"] ELSE pnp
          /\ link' = IF stage = "done" THEN [link EXCEPT ![d] = num] ELSE link
  /\ UNCHANGED <<dma, rings, engine, bars, mapped, timers>>

-----------------------------------------------------------------------------
(* The descriptor rings.                                                   *)

\* Mutant: the last descriptor points past the ring.
fscc_io_link_desc_Open(num) == [i \in 1..num |-> IF i - 1 < num THEN i ELSE 0]

\* fscc_io_link_desc.  Descriptors are numbered from 0.
fscc_io_link_desc(num) == [i \in 1..num |-> IF i - 1 < num - 1 THEN i ELSE 0]

AskedFor(n) == IF n < 2 THEN 2 ELSE n
FrameBlocks == 3                    \* the frame, its descriptor, its data
Blocks(ring) == IF ring.array THEN 1 + FrameBlocks * ring.num ELSE 0

\* What fscc_io_create_rx or _tx leaves: no array, or as many frames as could be
\* made (a frame that cannot be made gives back its blocks).
Created(n) ==
  {NoRing} \cup
  {[array |-> TRUE, num |-> i, next |-> fscc_io_link_desc(i)] :
     i \in 0..AskedFor(n)}

\* fscc_io_destroy_rx or _tx: frees the array and leaves the length.
Destroyed(ring) == [array |-> FALSE, num |-> ring.num, next |-> << >>]

-----------------------------------------------------------------------------
(* The card.                                                               *)

\* fscc_card_init: resource 0 is BAR 2 and resource 2 is BAR 0; one in between
\* goes where the one before it went.
BarOf(i) == IF i >= 3 THEN 0 ELSE 2
Holding == {i \in 1..Len(Resources) : Resources[i] \in {"port", "memory"}}
InitBars ==
  [b \in 0..2 |-> LET here == {i \in Holding : BarOf(i) = b}
                  IN IF here = {} THEN 0 ELSE CHOOSE i \in here : \A j \in here : j <= i]
Mapped == {i \in 1..Len(Resources) : Resources[i] = "memory"}

\* fscc_card_delete counts the BARs from 0; 0 here is an address never set.
Unmapped(d) ==
  {bars[d][Cardinality({j \in Holding : j < i})] : i \in Mapped}

-----------------------------------------------------------------------------
(* PrepareHardware and ReleaseHardware.                                    *)

\* Mutant: the loop ends before the last frame.
Freed_ButOne(ring) == IF ring.array THEN Blocks(ring) - FrameBlocks ELSE 0

\* Blocks that destroying a ring gives back.
Freed(ring) == Blocks(ring) - Blocks(Destroyed(ring))

\* has_dma: what the revision says, unless the enabler cannot be created.
fscc_io_initialize(has, enabler) == has /\ enabler

\* The channel is not recognised: nothing is allocated.
PrepareNoChannel(d) ==
  /\ pnp[d] = "added"
  /\ bars' = [bars EXCEPT ![d] = InitBars] /\ mapped' = [mapped EXCEPT ![d] = Mapped]
  /\ pnp' = [pnp EXCEPT ![d] = "failed"]
  /\ UNCHANGED <<registry, link, dma, rings, engine, timers>>

\* An array cannot be allocated: both rings are destroyed again.
PrepareNoMemory(d) ==
  /\ pnp[d] = "added"
  /\ bars' = [bars EXCEPT ![d] = InitBars] /\ mapped' = [mapped EXCEPT ![d] = Mapped]
  /\ \E n \in RingNums, has \in BOOLEAN :
       /\ dma' = [dma EXCEPT ![d] = has]
       /\ \/ /\ rx' = [rx EXCEPT ![d] = NoRing] /\ tx' = [tx EXCEPT ![d] = Destroyed(@)]
             /\ allocated' = [allocated EXCEPT ![d] = @ - Freed(tx[d])]
          \/ \E r \in Created(n) \ {NoRing} :
             /\ rx' = [rx EXCEPT ![d] = Destroyed(r)] /\ tx' = [tx EXCEPT ![d] = NoRing]
             /\ allocated' = [allocated EXCEPT ![d] = @ + Blocks(r) - Freed(r)]
       /\ engine' = IF has THEN [engine EXCEPT ![d] = FALSE] ELSE engine
  /\ pnp' = [pnp EXCEPT ![d] = "failed"]
  /\ UNCHANGED <<registry, link, timers>>

\* The rings are made, the receiver is purged and started, and the timer runs, or
\* it cannot be created and the call fails with all the rest in place.
Prepare(d) ==
  /\ pnp[d] = "added" /\ timers[d] < MaxTimers
  /\ bars' = [bars EXCEPT ![d] = InitBars] /\ mapped' = [mapped EXCEPT ![d] = Mapped]
  /\ \E n \in RingNums, has \in BOOLEAN, enabler \in BOOLEAN, timer \in BOOLEAN :
     \E r \in Created(n) \ {NoRing}, t \in Created(n) \ {NoRing} :
       /\ dma' = [dma EXCEPT ![d] = fscc_io_initialize(has, enabler)]
       /\ rx' = [rx EXCEPT ![d] = r] /\ tx' = [tx EXCEPT ![d] = t]
       /\ allocated' = [allocated EXCEPT ![d] = @ + Blocks(r) + Blocks(t)]
       /\ engine' = [engine EXCEPT ![d] = fscc_io_initialize(has, enabler)]
       /\ timers' = [timers EXCEPT ![d] = IF timer THEN @ + 1 ELSE @]
       /\ pnp' = [pnp EXCEPT ![d] = IF timer THEN "prepared" ELSE "failed"]
  /\ UNCHANGED <<registry, link>>

\* Mutant: the engine is left going.
FsccEvtDeviceReleaseHardware_NoStop(d) ==
  /\ pnp[d] \in {"prepared", "failed"}
  /\ rx' = [rx EXCEPT ![d] = Destroyed(@)] /\ tx' = [tx EXCEPT ![d] = Destroyed(@)]
  /\ allocated' = [allocated EXCEPT ![d] = @ - Freed(rx[d]) - Freed(tx[d])]
  /\ mapped' = [mapped EXCEPT ![d] = @ \ Unmapped(d)]
  /\ pnp' = [pnp EXCEPT ![d] = "added"]
  /\ UNCHANGED <<registry, link, dma, engine, bars, timers>>

\* The engines are stopped before the rings are freed, the timer is not stopped.
FsccEvtDeviceReleaseHardware(d) ==
  /\ pnp[d] \in {"prepared", "failed"}
  /\ rx' = [rx EXCEPT ![d] = Destroyed(@)] /\ tx' = [tx EXCEPT ![d] = Destroyed(@)]
  /\ allocated' = [allocated EXCEPT ![d] = @ - Freed(rx[d]) - Freed(tx[d])]
  /\ engine' = IF dma[d] THEN [engine EXCEPT ![d] = FALSE] ELSE engine
  /\ mapped' = [mapped EXCEPT ![d] = @ \ Unmapped(d)]
  /\ pnp' = [pnp EXCEPT ![d] = "added"]
  /\ UNCHANGED <<registry, link, dma, bars, timers>>

\* The framework deletes the device, its link, its timers and its context.
RemoveDevice(d) ==
  /\ pnp[d] = "added"
  /\ pnp' = [pnp EXCEPT ![d] = "absent"] /\ link' = [link EXCEPT ![d] = None]
  /\ timers' = [timers EXCEPT ![d] = 0]
  /\ rx' = [rx EXCEPT ![d] = NoRing] /\ tx' = [tx EXCEPT ![d] = NoRing]
  /\ dma' = [dma EXCEPT ![d] = FALSE]
  /\ UNCHANGED <<registry, allocated, engine, bars, mapped>>

Booted ==
  /\ pnp' = [d \in Devices |-> "absent"] /\ link' = [d \in Devices |-> None]
  /\ dma' = [d \in Devices |-> FALSE] /\ engine' = [d \in Devices |-> FALSE]
  /\ rx' = [d \in Devices |-> NoRing] /\ tx' = [d \in Devices |-> NoRing]
  /\ allocated' = [d \in Devices |-> 0] /\ timers' = [d \in Devices |-> 0]
  /\ bars' = [d \in Devices |-> [b \in 0..2 |-> 0]] /\ mapped' = [d \in Devices |-> {}]

\* The registry is what a reboot leaves.
Reboot == Present # {} /\ Booted /\ UNCHANGED registry

\* The machine stops in fscc_port_new after the number was written to the device's
\* key, before it is in the driver's.
CrashInAdd(d) ==
  /\ pnp[d] = "absent"
  /\ portNumber' = [portNumber EXCEPT ![d] = NewNumber(d)]
  /\ lastPortNumber' = LastOrInitial
  /\ Booted

Init ==
  /\ lastPortNumber = None /\ portNumber = [d \in Devices |-> None]
  /\ pnp = [d \in Devices |-> "absent"] /\ link = [d \in Devices |-> None]
  /\ dma = [d \in Devices |-> FALSE] /\ engine = [d \in Devices |-> FALSE]
  /\ rx = [d \in Devices |-> NoRing] /\ tx = [d \in Devices |-> NoRing]
  /\ allocated = [d \in Devices |-> 0] /\ timers = [d \in Devices |-> 0]
  /\ bars = [d \in Devices |-> [b \in 0..2 |-> 0]] /\ mapped = [d \in Devices |-> {}]

Next ==
  \/ \E d \in Devices :
       \/ FSCCEvtDeviceAdd(d) \/ RemoveDevice(d) \/ CrashInAdd(d)
       \/ PrepareNoChannel(d) \/ PrepareNoMemory(d) \/ Prepare(d)
       \/ FsccEvtDeviceReleaseHardware(d)
  \/ Reboot

Spec == Init /\ [][Next]_vars

-----------------------------------------------------------------------------
(* Correctness.                                                            *)

TypeOK ==
  /\ lastPortNumber \in Int /\ portNumber \in [Devices -> Int]
  /\ pnp \in [Devices -> {"absent", "added", "prepared", "failed"}]
  /\ link \in [Devices -> Int] /\ dma \in [Devices -> BOOLEAN] /\ engine \in [Devices -> BOOLEAN]
  /\ allocated \in [Devices -> Int] /\ timers \in [Devices -> 0..MaxTimers]

\* Whatever fails in an addition, in whichever order devices come and go, and wherever
\* the machine stops: a device keeps the number it was given first, its link is of that
\* number, and no two devices that are present have the same link.
NumbersStay ==
  [][\A d \in Devices :
       /\ portNumber[d] # None => portNumber'[d] = portNumber[d]
       /\ pnp'[d] # "absent" =>
            /\ link'[d] = portNumber'[d]
            /\ \A e \in Devices \ {d} : pnp'[e] # "absent" => link'[e] # link'[d]]_vars

\* Two devices never own the same FSCC number.
PortNumbersUnique ==
  \A d, e \in Numbered : d # e => portNumber[d] # portNumber[e]

\* Whatever step of PrepareHardware fails, and however often the device restarts,
\* ReleaseHardware gives back every block: nothing is left and nothing goes twice.
NoLeak == \A d \in Devices : pnp[d] \in {"absent", "added"} => allocated[d] = 0

\* The descriptor reached by k links from the first.
After(ring) == LET at[k \in 0..ring.num] == IF k = 0 THEN 0 ELSE ring.next[at[k - 1] + 1] IN at

\* The links of a started port's rings make one circle through every descriptor
\* allocated, whatever the number asked for and the number obtained.
RingsClosed ==
  \A d \in Devices : pnp[d] = "prepared" =>
    \A ring \in {rx[d], tx[d]} :
      /\ ring.array
      /\ {After(ring)[k] : k \in 0..(ring.num - 1)} = 0..(ring.num - 1)
      /\ After(ring)[ring.num] = 0

\* The card never writes by DMA to a ring that was freed.
DmaIntoOwnedMemory == \A d \in Devices : engine[d] => rx[d].array

\* timer_handler and the worker it queues, which walks rx_num descriptors, find the
\* array; the purge that starts the port finds a first descriptor of each ring.
NoBadAccess ==
  \A d \in Devices :
    /\ timers[d] > 0 /\ rx[d].num > 0 => rx[d].array
    /\ pnp[d] = "prepared" /\ dma[d] => rx[d].num > 0 /\ tx[d].num > 0

\* What MmMapIoSpace mapped is unmapped when the hardware is released.
BarsUnmapped == \A d \in Devices : pnp[d] \in {"absent", "added"} => mapped[d] = {}
=============================================================================
