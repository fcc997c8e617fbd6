------------------------------- MODULE FsccIsr ------------------------------
(***************************************************************************)
(* Interrupt tracking: fscc_isr collects interrupt bits in last_isr_value, *)
(* isr_alert_worker (a DPC, of which several executions may overlap) takes *)
(* them and completes the FSCC_TRACK_INTERRUPTS requests in isr_queue whose *)
(* mask they match.  last_isr_value is not protected: its update by the    *)
(* interrupt handler and its taking by the DPC are two accesses each.      *)
(***************************************************************************)
EXTENDS Integers, Sequences, FiniteSets

CONSTANTS
  Bits,         \* interrupt sources
  Masks,        \* the masks applications track
  Workers,      \* executions of isr_alert_worker that may overlap
  MaxRaises,    \* bound on the number of interrupts
  MaxRequests   \* bound on the number of FSCC_TRACK_INTERRUPTS requests

ASSUME IsrAssumption ==
  Masks \subseteq SUBSET Bits /\ MaxRaises \in Nat /\ MaxRequests \in Nat

VARIABLES
  hw,              \* the card's ISR register: bits latched since it was read
  last_isr_value,  \* port->last_isr_value
  isr,             \* [pc, value, old]: fscc_isr in progress
  isr_alert_dpc,   \* DPC queued?
  alert,           \* [Workers -> locals of isr_alert_worker]
  isr_queue,       \* waiting requests, by number
  masks,           \* the mask of each request so far
  malformed,       \* requests whose buffers are too short for a mask
  completed,       \* history: completed requests
  raises           \* interrupts so far

vars == <<hw, last_isr_value, isr, isr_alert_dpc, alert, isr_queue, masks, malformed, completed, raises>>

Queued(id) == \E j \in 1..Len(isr_queue) : isr_queue[j] = id

\* Where a waiting request is, and the queue without it.
Place(id) == CHOOSE j \in 1..Len(isr_queue) : isr_queue[j] = id

RemoveAt(s, j) == SubSeq(s, 1, j - 1) \o SubSeq(s, j + 1, Len(s))
Without(id)    == RemoveAt(isr_queue, Place(id))

-----------------------------------------------------------------------------
(* The card and the interrupt handler.                                     *)

Raise(b) ==
  /\ raises < MaxRaises
  /\ raises' = raises + 1
  /\ hw' = hw \cup {b}
  /\ UNCHANGED <<last_isr_value, isr, isr_alert_dpc, alert, isr_queue, masks, malformed, completed>>

\* fscc_isr reads, and so clears, ISR and begins to add it to last_isr_value.
IsrRead ==
  /\ isr.pc = "idle" /\ hw # {}
  /\ hw' = {}
  /\ isr' = [pc |-> "add", value |-> hw, old |-> last_isr_value]
  /\ UNCHANGED <<last_isr_value, isr_alert_dpc, alert, isr_queue, masks, malformed, completed, raises>>

IsrAdd ==
  /\ isr.pc = "add"
  /\ last_isr_value' = isr.old \cup isr.value
  /\ isr_alert_dpc' = TRUE
  /\ isr' = [pc |-> "idle", value |-> {}, old |-> {}]
  /\ UNCHANGED <<hw, alert, isr_queue, masks, malformed, completed, raises>>

-----------------------------------------------------------------------------
(* isr_alert_worker.                                                       *)

IdleAlert == [pc |-> "idle", value |-> {}, prev |-> 0, tag |-> 0]

\* isr_value = port->last_isr_value;
AlertTake(w) ==
  /\ isr_alert_dpc /\ alert[w].pc = "idle"
  /\ isr_alert_dpc' = FALSE
  /\ alert' = [alert EXCEPT ![w] = [IdleAlert EXCEPT !.pc = "clear", !.value = last_isr_value]]
  /\ UNCHANGED <<hw, last_isr_value, isr, isr_queue, masks, malformed, completed, raises>>

\* port->last_isr_value = 0;
AlertClear(w) ==
  /\ alert[w].pc = "clear"
  /\ last_isr_value' = {}
  /\ alert' = [alert EXCEPT ![w].pc = "find"]
  /\ UNCHANGED <<hw, isr, isr_alert_dpc, isr_queue, masks, malformed, completed, raises>>

\* The requests behind the one looked at last, or all of them.
Behind(w) ==
  IF alert[w].prev = 0 THEN isr_queue
  ELSE SubSeq(isr_queue, Place(alert[w].prev) + 1, Len(isr_queue))

\* WdfRequestRetrieveInputBuffer or ...OutputBuffer fails on the next one.
NextIsMalformed(w) == Behind(w) # <<>> /\ Head(Behind(w)) \in malformed

Matches(w, id) == alert[w].value \cap masks[id]

\* Mutant: after a request that does not match the search begins again.
SkipTo_Restart(w, id) == [alert[w] EXCEPT !.prev = 0]

SkipTo(w, id) == [alert[w] EXCEPT !.prev = id]

\* Mutant: gives up when the last one looked at is gone.
FindRequest_GiveUp(w) ==
  /\ alert[w].pc = "find"
  /\ IF /\ alert[w].prev # 0 => Queued(alert[w].prev)
        /\ Behind(w) # <<>> /\ ~NextIsMalformed(w)
       THEN LET id == Head(Behind(w))
            IN alert' = [alert EXCEPT ![w] =
                 IF Matches(w, id) = {} THEN SkipTo(w, id)
                 ELSE [alert[w] EXCEPT !.pc = "retrieve", !.tag = id]]
       ELSE alert' = [alert EXCEPT ![w] = IdleAlert]
  /\ UNCHANGED <<hw, last_isr_value, isr, isr_alert_dpc, isr_queue, masks, malformed, completed, raises>>

\* WdfIoQueueFindRequest: the last one looked at is gone and the search starts
\* again, or there are no more, or there is a next one to look at.  A next one
\* whose buffers cannot be retrieved ends the search and stays in the queue.
FindRequest(w) ==
  /\ alert[w].pc = "find"
  /\ \/ /\ alert[w].prev # 0 /\ ~Queued(alert[w].prev)
        /\ alert' = [alert EXCEPT ![w].prev = 0]
     \/ /\ alert[w].prev # 0 => Queued(alert[w].prev)
        /\ Behind(w) = <<>> \/ NextIsMalformed(w)
        /\ alert' = [alert EXCEPT ![w] = IdleAlert]
     \/ /\ alert[w].prev # 0 => Queued(alert[w].prev)
        /\ Behind(w) # <<>> /\ ~NextIsMalformed(w)
        /\ LET id == Head(Behind(w))
           IN alert' = [alert EXCEPT ![w] =
                IF Matches(w, id) = {} THEN SkipTo(w, id)
                ELSE [alert[w] EXCEPT !.pc = "retrieve", !.tag = id]]
  /\ UNCHANGED <<hw, last_isr_value, isr, isr_alert_dpc, isr_queue, masks, malformed, completed, raises>>

\* Mutant: completes the request although another has taken it.
RetrieveFoundRequest_Always(w) ==
  /\ alert[w].pc = "retrieve"
  /\ LET id == alert[w].tag
     IN /\ isr_queue' = IF Queued(id) THEN Without(id) ELSE isr_queue
        /\ completed' = Append(completed, [id |-> id, matches |-> Matches(w, id)])
  /\ alert' = [alert EXCEPT ![w] = [@ EXCEPT !.pc = "find", !.prev = 0, !.tag = 0]]
  /\ UNCHANGED <<hw, last_isr_value, isr, isr_alert_dpc, masks, malformed, raises>>

\* A match is taken from the queue and completed, unless it has disappeared;
\* either way the search starts again.
RetrieveFoundRequest(w) ==
  /\ alert[w].pc = "retrieve"
  /\ LET id == alert[w].tag
     IN IF Queued(id)
          THEN /\ isr_queue' = Without(id)
               /\ completed' = Append(completed, [id |-> id, matches |-> Matches(w, id)])
          ELSE UNCHANGED <<isr_queue, completed>>
  /\ alert' = [alert EXCEPT ![w] = [@ EXCEPT !.pc = "find", !.prev = 0, !.tag = 0]]
  /\ UNCHANGED <<hw, last_isr_value, isr, isr_alert_dpc, masks, malformed, raises>>

-----------------------------------------------------------------------------
(* Applications.                                                           *)

\* FSCC_TRACK_INTERRUPTS forwards the request to isr_queue without a look at the
\* length of its buffers.
TrackInterrupts(m, valid) ==
  /\ Len(masks) < MaxRequests
  /\ masks' = Append(masks, m)
  /\ malformed' = IF valid THEN malformed ELSE malformed \cup {Len(masks) + 1}
  /\ isr_queue' = Append(isr_queue, Len(masks) + 1)
  /\ UNCHANGED <<hw, last_isr_value, isr, isr_alert_dpc, alert, completed, raises>>

\* A waiting request is cancelled; the framework takes it out of the queue.
Cancel(id) ==
  /\ Queued(id)
  /\ isr_queue' = Without(id)
  /\ UNCHANGED <<hw, last_isr_value, isr, isr_alert_dpc, alert, masks, malformed, completed, raises>>

-----------------------------------------------------------------------------
Init ==
  /\ hw = {} /\ last_isr_value = {} /\ isr = [pc |-> "idle", value |-> {}, old |-> {}]
  /\ isr_alert_dpc = FALSE /\ alert = [w \in Workers |-> IdleAlert]
  /\ isr_queue = <<>> /\ masks = <<>> /\ malformed = {} /\ completed = <<>> /\ raises = 0

AlertStep(w) == AlertClear(w) \/ FindRequest(w) \/ RetrieveFoundRequest(w)

Next ==
  \/ \E b \in Bits : Raise(b)
  \/ IsrRead
  \/ IsrAdd
  \/ \E w \in Workers : AlertTake(w) \/ AlertStep(w)
  \/ \E m \in Masks, valid \in BOOLEAN : TrackInterrupts(m, valid)
  \/ \E id \in 1..Len(masks) : Cancel(id)

Spec == Init /\ [][Next]_vars

\* Interrupts are served and DPCs run to their end.
FairSpec ==
  /\ Spec /\ WF_vars(IsrRead) /\ WF_vars(IsrAdd)
  /\ \A w \in Workers : WF_vars(AlertTake(w)) /\ WF_vars(AlertStep(w))

-----------------------------------------------------------------------------
(* Properties.                                                             *)

AlertState == [pc : {"idle", "clear", "find", "retrieve"}, value : SUBSET Bits,
               prev : 0..MaxRequests, tag : 0..MaxRequests]

\* Type invariant of the tracking state in struct fscc_port and its DPC.
TypeOK ==
  /\ hw \subseteq Bits /\ last_isr_value \subseteq Bits
  /\ isr \in [pc : {"idle", "add"}, value : SUBSET Bits, old : SUBSET Bits]
  /\ isr_alert_dpc \in BOOLEAN /\ raises \in 0..MaxRaises
  /\ alert \in [Workers -> AlertState]
  /\ masks \in Seq(SUBSET Bits) /\ isr_queue \in Seq(1..MaxRequests)
  /\ malformed \subseteq 1..MaxRequests

\* A request is completed at most once, with bits it asked for, and is then no
\* longer in the queue, whatever overlaps: two workers, cancellation, new requests.
CompletedOnce ==
  \A i \in 1..Len(completed) :
    /\ completed[i].matches # {} /\ completed[i].matches \subseteq masks[completed[i].id]
    /\ ~Queued(completed[i].id)
    /\ \A j \in 1..Len(completed) : completed[i].id = completed[j].id => i = j

\* When a search ends, nobody who tracks one of its interrupts is left waiting,
\* whatever was cancelled, completed or added under it (isr.c: "There might be other
\* requests that match the criteria, so restart the search"); but a request with a
\* short buffer ends every search, and those behind it are not looked at.
SearchComplete ==
  [][\A w \in Workers :
       alert[w].pc = "find" /\ alert'[w].pc = "idle" =>
         \A j \in 1..Len(isr_queue) :
           (\A i \in 1..j : isr_queue[i] \notin malformed) =>
             alert[w].value \cap masks[isr_queue[j]] = {}]_vars

\* What an application that tracks an interrupt counts on: a search leaves no
\* matching request with sound buffers waiting.  A request with a short buffer ahead
\* of it breaks that (isr.c:142).
NobodyLeft ==
  [][\A w \in Workers :
       alert[w].pc = "find" /\ alert'[w].pc = "idle" =>
         \A j \in 1..Len(isr_queue) :
           isr_queue[j] \notin malformed => alert[w].value \cap masks[isr_queue[j]] = {}]_vars

\* A search ends: restarting it, after a match or when a request has disappeared
\* under it, does not go on for ever.
SearchEnds == \A w \in Workers : []<>(alert[w].pc = "idle")
=============================================================================
