------------------------------- MODULE FsccFcr ------------------------------
(***************************************************************************)
(* The feature control register, which the two ports of a card share with  *)
(* each other and with the serialfc driver: opening and closing handles    *)
(* marks a port as synchronous, programming the clock drives its pins, and *)
(* FSCC_SET_REGISTERS writes all of it.  Every use is a read, a            *)
(* computation and a write of the whole register; board_settings_spinlock  *)
(* belongs to one port (struct fscc_port), not to the card.                *)
(***************************************************************************)
EXTENDS Integers, FiniteSets

CONSTANTS
  Ports,      \* the ports of the card
  Threads,    \* threads that call into the driver
  Ops,        \* the kinds of calls made: create, close, clock, registers, serial
  MaxCalls    \* bound on the number of calls

ASSUME FcrAssumption ==
  /\ "free" \notin Threads /\ MaxCalls \in Nat
  /\ Ops \subseteq {"create", "close", "clock", "registers", "serial"}

VARIABLES
  fcr,                      \* [sync, async, pins]: the register
  open_counter,             \* port->open_counter
  board_settings_spinlock,  \* of each port: "free" or the holder
  thread,                   \* [Threads -> the call in progress]
  handles,                  \* handles on the port that are open
  calls,                    \* calls made so far
  cleared,                  \* history: open ports whose mark FSCC_SET_REGISTERS took away
  given,                    \* history: [async, pins] as set by those who mean to set them
  crossed                   \* history: calls have overlapped that no lock keeps apart

history == <<cleared, given, crossed>>
vars == <<fcr, open_counter, board_settings_spinlock, thread, handles, calls, history>>

IdleThread == [pc |-> "idle", p |-> "none", count |-> 0, orig |-> "none"]

Free(p) == board_settings_spinlock[p] = "free"
Take(p, t) == board_settings_spinlock' = [board_settings_spinlock EXCEPT ![p] = t]
Release(t) ==
  board_settings_spinlock' = [board_settings_spinlock EXCEPT ![thread[t].p] = "free"]

Call(op, t) ==
  /\ op \in Ops /\ calls < MaxCalls /\ thread[t].pc = "idle"
  /\ calls' = calls + 1

Begin(t, pc, p, count, orig) ==
  thread' = [thread EXCEPT ![t] = [pc |-> pc, p |-> p, count |-> count, orig |-> orig]]
Step(t, from, to) == thread[t].pc = from /\ thread' = [thread EXCEPT ![t].pc = to]
Done(t, from)     == thread[t].pc = from /\ thread' = [thread EXCEPT ![t] = IdleThread]

\* Calls that have read FCR and are yet to write it, that have read open_counter to
\* change it, and that have found it 0 and are yet to take the mark away.
Writing   == {"mark_write", "unmark_write", "clock_drive", "clock_restore"}
Unmarking == {"close_lock", "unmark_read", "unmark_write"}

\* Port p is about to use FCR between another port's read and write of it: each of
\* them holds a lock of its own (port.c:655, 695, 1475).
CrossesPorts(p) == \E u \in Threads : thread[u].p # p /\ thread[u].pc \in Writing

\* A count on port p begins while a close of it is under way, which counts without the
\* lock and decides before it takes it (port.c:690); or the other way round.
CrossesClose(p, t, pcs) == \E u \in Threads \ {t} : thread[u].p = p /\ thread[u].pc \in pcs

Crossing(c) == crossed' = (crossed \/ c) /\ UNCHANGED <<cleared, given>>

-----------------------------------------------------------------------------
(* FsccDeviceFileCreate.                                                   *)

\* The bit serialfc sets for the port, read from the register itself.
fscc_port_using_async(p) == p \in fcr.async

\* Mutant: counts down, as closing does.
CreateEnter_Down(t, p) ==
  /\ Call("create", t) /\ Free(p)
  /\ IF fscc_port_using_async(p)
       THEN UNCHANGED <<board_settings_spinlock, thread, history>>
       ELSE /\ Take(p, t)
            /\ Begin(t, "count", p, open_counter[p] - 1, "none")
            /\ Crossing(CrossesClose(p, t, {"uncount"} \cup Unmarking))
  /\ UNCHANGED <<fcr, open_counter, handles>>

\* Take the lock; a port in use by serialfc is refused, otherwise the counter
\* is read to be incremented.
CreateEnter(t, p) ==
  /\ Call("create", t) /\ Free(p)
  /\ IF fscc_port_using_async(p)
       THEN UNCHANGED <<board_settings_spinlock, thread, history>>
       ELSE /\ Take(p, t)
            /\ Begin(t, "count", p, open_counter[p] + 1, "none")
            /\ Crossing(CrossesClose(p, t, {"uncount"} \cup Unmarking))
  /\ UNCHANGED <<fcr, open_counter, handles>>

\* open_counter++, and only the first handle touches the register.
CreateCount(t) ==
  /\ Step(t, "count", IF thread[t].count = 1 THEN "mark_read" ELSE "created")
  /\ open_counter' = [open_counter EXCEPT ![thread[t].p] = thread[t].count]
  /\ UNCHANGED <<fcr, board_settings_spinlock, handles, calls, history>>

CreateRead(t) ==
  /\ thread[t].pc = "mark_read"
  /\ thread' = [thread EXCEPT ![t].pc = "mark_write", ![t].orig = fcr]
  /\ Crossing(CrossesPorts(thread[t].p))
  /\ UNCHANGED <<fcr, open_counter, board_settings_spinlock, handles, calls>>

CreateWrite(t) ==
  /\ Step(t, "mark_write", "created")
  /\ fcr' = [thread[t].orig EXCEPT !.sync = @ \cup {thread[t].p}]
  /\ UNCHANGED <<open_counter, board_settings_spinlock, handles, calls, history>>

CreateDone(t) ==
  /\ Done(t, "created")
  /\ Release(t)
  /\ handles' = [handles EXCEPT ![thread[t].p] = @ + 1]
  /\ UNCHANGED <<fcr, open_counter, calls, history>>

-----------------------------------------------------------------------------
(* FsccFileClose.                                                          *)

\* The handle is gone; open_counter-- happens without the lock.
CloseRead(t, p) ==
  /\ Call("close", t) /\ handles[p] > 0
  /\ handles' = [handles EXCEPT ![p] = @ - 1]
  /\ Begin(t, "uncount", p, open_counter[p] - 1, "none")
  /\ Crossing(CrossesClose(p, t, {"count", "uncount"} \cup Unmarking))
  /\ UNCHANGED <<fcr, open_counter, board_settings_spinlock>>

CloseCount(t) ==
  /\ IF thread[t].count = 0 THEN Step(t, "uncount", "close_lock") ELSE Done(t, "uncount")
  /\ open_counter' = [open_counter EXCEPT ![thread[t].p] = thread[t].count]
  /\ UNCHANGED <<fcr, board_settings_spinlock, handles, calls, history>>

CloseLock(t) ==
  /\ Step(t, "close_lock", "unmark_read") /\ Free(thread[t].p)
  /\ Take(thread[t].p, t)
  /\ UNCHANGED <<fcr, open_counter, handles, calls, history>>

CloseReadFcr(t) ==
  /\ thread[t].pc = "unmark_read"
  /\ thread' = [thread EXCEPT ![t].pc = "unmark_write", ![t].orig = fcr]
  /\ Crossing(CrossesPorts(thread[t].p))
  /\ UNCHANGED <<fcr, open_counter, board_settings_spinlock, handles, calls>>

CloseWrite(t) ==
  /\ Done(t, "unmark_write")
  /\ fcr' = [thread[t].orig EXCEPT !.sync = @ \ {thread[t].p}]
  /\ Release(t)
  /\ cleared' = cleared \ {thread[t].p}
  /\ UNCHANGED <<open_counter, handles, calls, given, crossed>>

-----------------------------------------------------------------------------
(* fscc_port_set_clock_bits.                                               *)

\* Mutant: does not wait for the lock.
ClockLock_NoWait(t, p) ==
  /\ Call("clock", t)
  /\ Take(p, t)
  /\ Begin(t, "clock_drive", p, 0, fcr)
  /\ Crossing(CrossesPorts(p))
  /\ UNCHANGED <<fcr, open_counter, handles>>

\* FSCC_SET_CLOCK_BITS, or the default clock as the port starts.
ClockLock(t, p) ==
  /\ Call("clock", t) /\ Free(p)
  /\ Take(p, t)
  /\ Begin(t, "clock_drive", p, 0, fcr)
  /\ Crossing(CrossesPorts(p))
  /\ UNCHANGED <<fcr, open_counter, handles>>

\* The prepared sequence of values, all made from the one that was read: the pins
\* of both ports are cleared and those of this one toggled bit by bit ...
ClockDrive(t) ==
  /\ Step(t, "clock_drive", "clock_restore")
  /\ fcr' = [thread[t].orig EXCEPT !.pins = {thread[t].p}]
  /\ UNCHANGED <<open_counter, board_settings_spinlock, handles, calls, history>>

\* ... and the last value is the one that was read.
ClockRestore(t) ==
  /\ Done(t, "clock_restore")
  /\ fcr' = thread[t].orig
  /\ Release(t)
  /\ UNCHANGED <<open_counter, handles, calls, history>>

-----------------------------------------------------------------------------
(* FSCC_SET_REGISTERS with an FCR value, under the lock: the caller's whole *)
(* value with bits 30 and 31, the marks of both ports, masked off.         *)

SetRegisters(t, p, async, pins) ==
  /\ Call("registers", t) /\ handles[p] > 0 /\ Free(p)
  /\ fcr' = [sync |-> {}, async |-> async, pins |-> pins]
  /\ cleared' = cleared \cup fcr.sync
  /\ given' = [async |-> async, pins |-> pins]
  /\ crossed' = (crossed \/ CrossesPorts(p))
  /\ UNCHANGED <<open_counter, board_settings_spinlock, thread, handles>>

-----------------------------------------------------------------------------
(* The serialfc driver opens or closes its COM port.                       *)

SerialToggle(p) ==
  /\ "serial" \in Ops /\ calls < MaxCalls
  /\ calls' = calls + 1
  /\ \/ /\ p \notin fcr.sync /\ p \notin fcr.async
        /\ fcr' = [fcr EXCEPT !.async = @ \cup {p}]
        /\ given' = [given EXCEPT !.async = @ \cup {p}]
     \/ /\ p \in fcr.async
        /\ fcr' = [fcr EXCEPT !.async = @ \ {p}]
        /\ given' = [given EXCEPT !.async = @ \ {p}]
  /\ crossed' = (crossed \/ \E u \in Threads : thread[u].pc \in Writing)
  /\ UNCHANGED <<open_counter, board_settings_spinlock, thread, handles, cleared>>

-----------------------------------------------------------------------------
Init ==
  /\ fcr = [sync |-> {}, async |-> {}, pins |-> {}]
  /\ open_counter = [p \in Ports |-> 0] /\ handles = [p \in Ports |-> 0]
  /\ board_settings_spinlock = [p \in Ports |-> "free"]
  /\ thread = [t \in Threads |-> IdleThread]
  /\ calls = 0
  /\ cleared = {} /\ given = [async |-> {}, pins |-> {}] /\ crossed = FALSE

CreateStep(t) == CreateCount(t) \/ CreateRead(t) \/ CreateWrite(t) \/ CreateDone(t)
CloseStep(t)  == CloseCount(t) \/ CloseLock(t) \/ CloseReadFcr(t) \/ CloseWrite(t)
ClockStep(t)  == ClockDrive(t) \/ ClockRestore(t)

Next ==
  \/ \E t \in Threads : CreateStep(t) \/ CloseStep(t) \/ ClockStep(t)
  \/ \E t \in Threads, p \in Ports :
       CreateEnter(t, p) \/ CloseRead(t, p) \/ ClockLock(t, p)
  \/ \E t \in Threads, p \in Ports, async, pins \in SUBSET Ports :
       SetRegisters(t, p, async, pins)
  \/ \E p \in Ports : SerialToggle(p)

Spec == Init /\ [][Next]_vars

-----------------------------------------------------------------------------
(* Properties.                                                             *)

Fcr == [sync : SUBSET Ports, async : SUBSET Ports, pins : SUBSET Ports]

\* Type invariant: in particular the unsigned open_counter goes below zero only after
\* a close has overlapped with another count.
TypeOK ==
  /\ fcr \in Fcr
  /\ open_counter \in [Ports -> Int] /\ (~crossed => open_counter \in [Ports -> Nat])
  /\ handles \in [Ports -> Nat] /\ calls \in 0..MaxCalls
  /\ cleared \subseteq Ports /\ crossed \in BOOLEAN
  /\ given \in [async : SUBSET Ports, pins : SUBSET Ports]
  /\ board_settings_spinlock \in [Ports -> {"free"} \cup Threads]
  /\ \A t \in Threads : thread[t] = IdleThread \/ thread[t].p \in Ports

AtRest == \A t \in Threads : thread[t].pc = "idle"

\* Whenever no call is in progress, nobody's bits of FCR have been lost in another's
\* read and write of it: the ports with an open handle are marked (port.c: "Mark the
\* port as open in synchronous mode (so async won't open)"), but for marks that
\* FSCC_SET_REGISTERS has taken away since; the marks of serialfc and the pins are as
\* they were set last; and open_counter is the number of handles.  The exceptions are
\* what no lock keeps apart: the two ports, and a close and another open or close of
\* its port.
BitsKept ==
  AtRest /\ ~crossed =>
    /\ fcr = [sync  |-> {p \in Ports : handles[p] > 0} \ cleared,
              async |-> given.async, pins |-> given.pins]
    /\ open_counter = handles

\* What port.c means by its comment: an open port is marked, come what may.
OpenMarked ==
  AtRest => /\ fcr.sync = {p \in Ports : handles[p] > 0} \ cleared
            /\ open_counter = handles

\* No register write takes away the mark of an open port.
MarksKept == cleared = {}
=============================================================================
