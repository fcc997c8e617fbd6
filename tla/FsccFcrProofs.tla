---------------------------- MODULE FsccFcrProofs ---------------------------
(***************************************************************************)
(* Proofs about FsccFcr, for every set of ports and of threads: the types, *)
(* the ownership of each port's lock, and that nobody's bits are lost for  *)
(* as long as no calls overlap that no lock keeps apart.                   *)
(***************************************************************************)
EXTENDS FsccFcr, TLAPS

Pcs == {"idle", "count", "mark_read", "mark_write", "created", "uncount", "close_lock",
        "unmark_read", "unmark_write", "clock_drive", "clock_restore"}
Locked == {"count", "mark_read", "mark_write", "created", "unmark_read", "unmark_write",
           "clock_drive", "clock_restore"}

\* A call in progress: its port, and the register as it was read.
CallState ==
  [pc : Pcs, p : Ports \cup {"none"}, count : Int, orig : Fcr \cup {"none"}]

ThreadInv ==
  /\ thread \in [Threads -> CallState]
  /\ \A t \in Threads :
       /\ thread[t].pc = "idle" => thread[t] = IdleThread
       /\ thread[t].pc # "idle" => thread[t].p \in Ports
       /\ thread[t].pc \in Writing => thread[t].orig \in Fcr

\* The lock of a port is held by the thread that is in its critical section.
LockInv ==
  \A t \in Threads : thread[t].pc \in Locked => board_settings_spinlock[thread[t].p] = t

HistoryInv ==
  /\ cleared \subseteq Ports /\ crossed \in BOOLEAN
  /\ given \in [async : SUBSET Ports, pins : SUBSET Ports]

\* Types, and who holds the locks.
Base ==
  /\ fcr \in Fcr /\ calls \in 0..MaxCalls /\ HistoryInv
  /\ open_counter \in [Ports -> Int] /\ handles \in [Ports -> Nat]
  /\ board_settings_spinlock \in [Ports -> {"free"} \cup Threads]
  /\ ThreadInv /\ LockInv

-----------------------------------------------------------------------------
LEMMA BaseInit == Init => Base
<1> SUFFICES ASSUME Init PROVE Base
  OBVIOUS
<1>1. fcr \in Fcr /\ HistoryInv
  BY DEF Init, Fcr, HistoryInv
<1>2. IdleThread \in CallState /\ IdleThread.pc = "idle"
  BY DEF IdleThread, CallState, Pcs
<1>3. thread = [t \in Threads |-> IdleThread]
  BY DEF Init
<1>4. ThreadInv /\ LockInv
  BY <1>2, <1>3 DEF ThreadInv, LockInv, Locked, Writing
<1> QED BY <1>1, <1>4, FcrAssumption DEF Init, Base

\* What the update of the call of one thread leaves of the rest.
LEMMA Update ==
  ASSUME ThreadInv, NEW t \in Threads, NEW c \in CallState,
         thread' = [thread EXCEPT ![t] = c],
         c.pc = "idle" => c = IdleThread, c.pc # "idle" => c.p \in Ports,
         c.pc \in Writing => c.orig \in Fcr
  PROVE  /\ ThreadInv' /\ thread'[t] = c
         /\ \A u \in Threads \ {t} : thread'[u] = thread[u]
BY DEF ThreadInv

\* A step that only goes on to the next place of the call.
LEMMA StepUpdate ==
  ASSUME ThreadInv, NEW t \in Threads, NEW from, NEW to \in Pcs \ {"idle"}, Step(t, from, to),
         thread[t].pc # "idle", to \in Writing => thread[t].orig \in Fcr
  PROVE  /\ ThreadInv' /\ thread[t].pc = from /\ thread'[t].pc = to
         /\ thread'[t].p = thread[t].p /\ thread'[t].count = thread[t].count
         /\ thread'[t].orig = thread[t].orig
         /\ \A u \in Threads \ {t} : thread'[u] = thread[u]
<1> DEFINE c == [thread[t] EXCEPT !.pc = to]
<1>1. thread[t] \in CallState /\ thread[t].p \in Ports
  BY DEF ThreadInv
<1>2. /\ c \in CallState /\ c.pc = to /\ c.p = thread[t].p /\ c.count = thread[t].count
      /\ c.orig = thread[t].orig
  BY <1>1 DEF CallState
<1>3. thread' = [thread EXCEPT ![t] = c] /\ thread[t].pc = from
  BY DEF Step, ThreadInv
<1> HIDE DEF c
<1> QED BY <1>1, <1>2, <1>3, Update

\* A step that reads the register and goes on to a write.
LEMMA ReadUpdate ==
  ASSUME ThreadInv, fcr \in Fcr, NEW t \in Threads, NEW to \in Writing,
         thread[t].pc # "idle",
         thread' = [thread EXCEPT ![t].pc = to, ![t].orig = fcr]
  PROVE  /\ ThreadInv' /\ thread'[t].pc = to
         /\ thread'[t].p = thread[t].p /\ thread'[t].count = thread[t].count
         /\ thread'[t].orig = fcr
         /\ \A u \in Threads \ {t} : thread'[u] = thread[u]
<1> DEFINE c == [thread[t] EXCEPT !.pc = to, !.orig = fcr]
<1>1. thread[t] \in CallState /\ thread[t].p \in Ports /\ to \in Pcs /\ to # "idle"
  BY DEF ThreadInv, Writing, Pcs
<1>2. /\ c \in CallState /\ c.pc = to /\ c.p = thread[t].p /\ c.count = thread[t].count
      /\ c.orig = fcr
  BY <1>1 DEF CallState
<1>3. thread' = [thread EXCEPT ![t] = c]
  BY DEF ThreadInv
<1> HIDE DEF c
<1> QED BY <1>1, <1>2, <1>3, Update

\* A call that ends.
LEMMA DoneUpdate ==
  ASSUME ThreadInv, NEW t \in Threads, NEW from, Done(t, from)
  PROVE  /\ ThreadInv' /\ thread[t].pc = from /\ thread'[t] = IdleThread
         /\ \A u \in Threads \ {t} : thread'[u] = thread[u]
<1>1. IdleThread \in CallState /\ IdleThread.pc = "idle"
  BY DEF IdleThread, CallState, Pcs
<1>2. thread' = [thread EXCEPT ![t] = IdleThread] /\ thread[t].pc = from
  BY DEF Done
<1> QED BY <1>1, <1>2, Update DEF Writing

\* A call that begins.
LEMMA BeginUpdate ==
  ASSUME ThreadInv, NEW t \in Threads, NEW p \in Ports, NEW pc \in Pcs \ {"idle"},
         NEW count \in Int, NEW orig \in Fcr \cup {"none"}, pc \in Writing => orig \in Fcr,
         Begin(t, pc, p, count, orig)
  PROVE  /\ ThreadInv' /\ thread'[t].pc = pc /\ thread'[t].p = p
         /\ thread'[t].count = count /\ thread'[t].orig = orig
         /\ \A u \in Threads \ {t} : thread'[u] = thread[u]
<1> DEFINE c == [pc |-> pc, p |-> p, count |-> count, orig |-> orig]
<1>1. c \in CallState /\ c.pc = pc /\ c.p = p /\ c.count = count /\ c.orig = orig
  BY DEF CallState
<1>2. thread' = [thread EXCEPT ![t] = c]
  BY DEF Begin
<1> HIDE DEF c
<1> QED BY <1>1, <1>2, Update

-----------------------------------------------------------------------------
(* The lock.                                                               *)

LEMMA LockKept ==
  ASSUME Base, NEW t \in Threads, \A u \in Threads \ {t} : thread'[u] = thread[u],
         UNCHANGED board_settings_spinlock,
         thread'[t].pc \in Locked => board_settings_spinlock[thread'[t].p] = t
  PROVE  LockInv'
BY DEF Base, LockInv

LEMMA LockTaken ==
  ASSUME Base, NEW t \in Threads, \A u \in Threads \ {t} : thread'[u] = thread[u],
         NEW p \in Ports, Free(p), Take(p, t), thread'[t].p = p
  PROVE  /\ LockInv'
         /\ board_settings_spinlock' \in [Ports -> {"free"} \cup Threads]
BY FcrAssumption DEF Base, LockInv, Free, Take

LEMMA LockReleased ==
  ASSUME Base, NEW t \in Threads, \A u \in Threads \ {t} : thread'[u] = thread[u],
         thread[t].pc \in Locked, thread'[t].pc \notin Locked, Release(t)
  PROVE  /\ LockInv'
         /\ board_settings_spinlock' \in [Ports -> {"free"} \cup Threads]
<1>1. thread[t].p \in Ports /\ board_settings_spinlock[thread[t].p] = t
  BY DEF Base, LockInv, ThreadInv, Locked
<1>2. \A u \in Threads \ {t} : thread'[u].pc \in Locked =>
         thread'[u].p \in Ports /\ board_settings_spinlock[thread'[u].p] = u
  BY DEF Base, LockInv, ThreadInv, Locked
<1> QED BY <1>1, <1>2 DEF Base, LockInv, Release

\* The values written to the register.
LEMMA FcrValues ==
  ASSUME NEW f \in Fcr, NEW p \in Ports
  PROVE  /\ [f EXCEPT !.sync = @ \cup {p}] \in Fcr
         /\ [f EXCEPT !.sync = @ \cup {p}].sync = f.sync \cup {p}
         /\ [f EXCEPT !.sync = @ \cup {p}].async = f.async
         /\ [f EXCEPT !.sync = @ \cup {p}].pins = f.pins
         /\ [f EXCEPT !.sync = @ \ {p}] \in Fcr
         /\ [f EXCEPT !.sync = @ \ {p}].sync = f.sync \ {p}
         /\ [f EXCEPT !.sync = @ \ {p}].async = f.async
         /\ [f EXCEPT !.sync = @ \ {p}].pins = f.pins
         /\ [f EXCEPT !.pins = {p}] \in Fcr
         /\ [f EXCEPT !.pins = {p}].sync = f.sync
         /\ [f EXCEPT !.pins = {p}].async = f.async
         /\ [f EXCEPT !.pins = {p}].pins = {p}
         /\ [[f EXCEPT !.pins = {p}] EXCEPT !.pins = f.pins] = f
         /\ [f EXCEPT !.async = @ \cup {p}] \in Fcr
         /\ [f EXCEPT !.async = @ \cup {p}].sync = f.sync
         /\ [f EXCEPT !.async = @ \cup {p}].async = f.async \cup {p}
         /\ [f EXCEPT !.async = @ \cup {p}].pins = f.pins
         /\ [f EXCEPT !.async = @ \ {p}] \in Fcr
         /\ [f EXCEPT !.async = @ \ {p}].sync = f.sync
         /\ [f EXCEPT !.async = @ \ {p}].async = f.async \ {p}
         /\ [f EXCEPT !.async = @ \ {p}].pins = f.pins
BY DEF Fcr

-----------------------------------------------------------------------------
(* What each action does to the call of its thread, and that it keeps Base.*)

\* A step that notes whether it crosses another call.
LEMMA CrossingBase ==
  ASSUME Base, NEW c \in BOOLEAN, Crossing(c)
  PROVE  /\ HistoryInv' /\ UNCHANGED <<cleared, given>>
         /\ (crossed => crossed') /\ (~crossed' => ~c)
BY DEF Base, HistoryInv, Crossing

LEMMA CallBase ==
  ASSUME Base, NEW t, NEW op, Call(op, t)
  PROVE  calls' \in 0..MaxCalls /\ thread[t].pc = "idle"
BY FcrAssumption DEF Base, Call

Others(t) == \A u \in Threads \ {t} : thread'[u] = thread[u]

LEMMA CreateEnterBase ==
  ASSUME Base, NEW t \in Threads, NEW p \in Ports, CreateEnter(t, p)
  PROVE  /\ Base' /\ Others(t) /\ thread[t].pc = "idle"
         /\ \/ UNCHANGED <<fcr, open_counter, board_settings_spinlock, thread, handles, history>>
            \/ /\ thread'[t].pc = "count" /\ thread'[t].p = p
               /\ thread'[t].count = open_counter[p] + 1
               /\ ~crossed' => ~CrossesClose(p, t, {"uncount"} \cup Unmarking)
               /\ UNCHANGED <<fcr, open_counter, handles, cleared, given>> /\ (crossed => crossed')
               /\ Free(p)
<1>1. thread[t].pc = "idle" /\ calls' \in 0..MaxCalls /\ Free(p)
  BY CallBase DEF CreateEnter
<1>2. UNCHANGED <<fcr, open_counter, handles>>
  BY DEF CreateEnter
<1>3. CASE fscc_port_using_async(p)
  <2>1. UNCHANGED <<board_settings_spinlock, thread, history>>
    BY <1>3 DEF CreateEnter
  <2> QED BY <1>1, <1>2, <2>1 DEF Base, ThreadInv, LockInv, Others, HistoryInv, history
<1>4. CASE ~fscc_port_using_async(p)
  <2>1. /\ Take(p, t) /\ Begin(t, "count", p, open_counter[p] + 1, "none")
        /\ Crossing(CrossesClose(p, t, {"uncount"} \cup Unmarking))
    BY <1>4 DEF CreateEnter
  <2>2. open_counter[p] + 1 \in Int /\ ThreadInv
    BY DEF Base
  <2>3. "count" \in Pcs \ {"idle"} /\ "count" \notin Writing
    BY DEF Pcs, Writing
  <2>4. /\ ThreadInv' /\ thread'[t].pc = "count" /\ thread'[t].p = p
        /\ thread'[t].count = open_counter[p] + 1
        /\ \A u \in Threads \ {t} : thread'[u] = thread[u]
    BY <2>1, <2>2, <2>3, BeginUpdate
  <2>5. LockInv' /\ board_settings_spinlock' \in [Ports -> {"free"} \cup Threads]
    BY <1>1, <2>1, <2>4, LockTaken
  <2>6. CrossesClose(p, t, {"uncount"} \cup Unmarking) \in BOOLEAN
    BY DEF CrossesClose
  <2>7. /\ HistoryInv' /\ UNCHANGED <<cleared, given>> /\ (crossed => crossed')
        /\ ~crossed' => ~CrossesClose(p, t, {"uncount"} \cup Unmarking)
    BY <2>1, <2>6, CrossingBase
  <2> QED BY <1>1, <1>2, <2>4, <2>5, <2>7 DEF Base, Others
<1> QED BY <1>3, <1>4

LEMMA CreateCountBase ==
  ASSUME Base, NEW t \in Threads, CreateCount(t)
  PROVE  /\ Base' /\ Others(t) /\ thread[t].pc = "count"
         /\ thread'[t].pc = (IF thread[t].count = 1 THEN "mark_read" ELSE "created")
         /\ thread'[t].p = thread[t].p
<1> DEFINE to == IF thread[t].count = 1 THEN "mark_read" ELSE "created"
<1>1. /\ Step(t, "count", to) /\ thread[t].pc = "count" /\ thread[t].pc # "idle"
      /\ open_counter' = [open_counter EXCEPT ![thread[t].p] = thread[t].count]
      /\ UNCHANGED <<fcr, board_settings_spinlock, handles, history, calls>>
  BY DEF CreateCount, Step
<1>2. to \in Pcs \ {"idle"} /\ to \notin Writing /\ to \in Locked
  BY DEF Pcs, Writing, Locked
<1> HIDE DEF to
<1>3. /\ ThreadInv' /\ thread'[t].pc = to /\ thread'[t].p = thread[t].p
      /\ \A u \in Threads \ {t} : thread'[u] = thread[u]
  BY <1>1, <1>2, StepUpdate DEF Base
<1>4. thread[t].p \in Ports /\ thread[t].count \in Int /\ board_settings_spinlock[thread[t].p] = t
  BY <1>1 DEF Base, ThreadInv, CallState, LockInv, Locked
<1>5. LockInv'
  BY <1>1, <1>3, <1>4, LockKept
<1> QED BY <1>1, <1>3, <1>4, <1>5 DEF Base, Others, HistoryInv, history, to

LEMMA CreateReadBase ==
  ASSUME Base, NEW t \in Threads, CreateRead(t)
  PROVE  /\ Base' /\ Others(t) /\ thread[t].pc = "mark_read" /\ thread'[t].pc = "mark_write"
         /\ thread'[t].p = thread[t].p /\ thread'[t].orig = fcr
         /\ UNCHANGED <<cleared, given>> /\ (crossed => crossed')
         /\ ~crossed' => ~CrossesPorts(thread[t].p)
<1>1. /\ thread[t].pc = "mark_read" /\ thread[t].pc # "idle"
      /\ thread' = [thread EXCEPT ![t].pc = "mark_write", ![t].orig = fcr]
      /\ UNCHANGED <<fcr, open_counter, board_settings_spinlock, handles, calls>>
      /\ Crossing(CrossesPorts(thread[t].p))
  BY DEF CreateRead
<1>2. /\ ThreadInv' /\ thread'[t].pc = "mark_write" /\ thread'[t].p = thread[t].p
      /\ thread'[t].orig = fcr /\ \A u \in Threads \ {t} : thread'[u] = thread[u]
  BY <1>1, ReadUpdate DEF Base, Writing
<1>3. thread[t].p \in Ports /\ board_settings_spinlock[thread[t].p] = t
  BY <1>1 DEF Base, ThreadInv, LockInv, Locked
<1>4. LockInv'
  BY <1>1, <1>2, <1>3, LockKept
<1>5. CrossesPorts(thread[t].p) \in BOOLEAN
  BY DEF CrossesPorts
<1>6. /\ HistoryInv' /\ UNCHANGED <<cleared, given>> /\ (crossed => crossed')
      /\ ~crossed' => ~CrossesPorts(thread[t].p)
  BY <1>1, <1>5, CrossingBase
<1> QED BY <1>1, <1>2, <1>4, <1>6 DEF Base, Others

LEMMA CreateWriteBase ==
  ASSUME Base, NEW t \in Threads, CreateWrite(t)
  PROVE  /\ Base' /\ Others(t) /\ thread[t].pc = "mark_write" /\ thread'[t].pc = "created"
         /\ thread'[t].p = thread[t].p
         /\ thread[t].orig \in Fcr /\ thread[t].p \in Ports
<1>1. /\ Step(t, "mark_write", "created") /\ thread[t].pc = "mark_write" /\ thread[t].pc # "idle"
      /\ fcr' = [thread[t].orig EXCEPT !.sync = @ \cup {thread[t].p}]
      /\ UNCHANGED <<open_counter, board_settings_spinlock, handles, history, calls>>
  BY DEF CreateWrite, Step
<1>2. "created" \in Pcs \ {"idle"} /\ "created" \notin Writing
  BY DEF Pcs, Writing
<1>3. /\ ThreadInv' /\ thread'[t].pc = "created" /\ thread'[t].p = thread[t].p
      /\ \A u \in Threads \ {t} : thread'[u] = thread[u]
  BY <1>1, <1>2, StepUpdate DEF Base
<1>4. /\ thread[t].p \in Ports /\ board_settings_spinlock[thread[t].p] = t
      /\ thread[t].orig \in Fcr
  BY <1>1 DEF Base, ThreadInv, LockInv, Locked, Writing
<1>5. LockInv'
  BY <1>1, <1>3, <1>4, LockKept
<1>6. fcr' \in Fcr
  BY <1>1, <1>4, FcrValues
<1> QED BY <1>1, <1>3, <1>4, <1>5, <1>6 DEF Base, Others, HistoryInv, history

LEMMA CreateDoneBase ==
  ASSUME Base, NEW t \in Threads, CreateDone(t)
  PROVE  /\ Base' /\ Others(t) /\ thread[t].pc = "created" /\ thread'[t] = IdleThread
         /\ thread[t].p \in Ports
<1>1. /\ Done(t, "created") /\ thread[t].pc = "created" /\ Release(t)
      /\ handles' = [handles EXCEPT ![thread[t].p] = @ + 1]
      /\ UNCHANGED <<fcr, open_counter, history, calls>>
  BY DEF CreateDone, Done
<1>2. ThreadInv' /\ thread'[t] = IdleThread /\ \A u \in Threads \ {t} : thread'[u] = thread[u]
  BY <1>1, DoneUpdate DEF Base
<1>3. thread[t].pc \in Locked /\ thread'[t].pc \notin Locked
  BY <1>1, <1>2 DEF IdleThread, Locked
<1>4. LockInv' /\ board_settings_spinlock' \in [Ports -> {"free"} \cup Threads]
  BY <1>1, <1>2, <1>3, LockReleased
<1>5. thread[t].p \in Ports
  BY <1>1 DEF Base, ThreadInv
<1>6. handles' \in [Ports -> Nat]
  BY <1>1, <1>5 DEF Base
<1> QED BY <1>1, <1>2, <1>4, <1>5, <1>6 DEF Base, Others, HistoryInv, history

LEMMA CloseReadBase ==
  ASSUME Base, NEW t \in Threads, NEW p \in Ports, CloseRead(t, p)
  PROVE  /\ Base' /\ Others(t) /\ thread[t].pc = "idle" /\ thread'[t].pc = "uncount"
         /\ thread'[t].p = p /\ thread'[t].count = open_counter[p] - 1
         /\ UNCHANGED <<cleared, given>> /\ (crossed => crossed')
         /\ ~crossed' => ~CrossesClose(p, t, {"count", "uncount"} \cup Unmarking)
<1>1. /\ thread[t].pc = "idle" /\ calls' \in 0..MaxCalls /\ handles[p] > 0
      /\ handles' = [handles EXCEPT ![p] = @ - 1]
      /\ UNCHANGED <<fcr, open_counter, board_settings_spinlock>>
  BY CallBase DEF CloseRead
<1>2. Begin(t, "uncount", p, open_counter[p] - 1, "none")
  BY DEF CloseRead
<1>3. open_counter[p] - 1 \in Int /\ ThreadInv
  BY DEF Base
<1>4. "uncount" \in Pcs \ {"idle"} /\ 0 \in Int /\ ("uncount" \notin Writing)
  BY DEF Pcs, Writing
<1>5. /\ ThreadInv' /\ thread'[t].pc = "uncount" /\ thread'[t].p = p
      /\ thread'[t].count = open_counter[p] - 1 /\ thread'[t].orig = "none"
      /\ \A u \in Threads \ {t} : thread'[u] = thread[u]
  BY <1>2, <1>3, <1>4, BeginUpdate
<1>6. LockInv'
  BY <1>1, <1>5, LockKept DEF Locked
<1>7. handles' \in [Ports -> Nat]
  BY <1>1 DEF Base
<1>8. /\ CrossesClose(p, t, {"count", "uncount"} \cup Unmarking) \in BOOLEAN
      /\ Crossing(CrossesClose(p, t, {"count", "uncount"} \cup Unmarking))
  BY DEF CrossesClose, CloseRead
<1>9. /\ HistoryInv' /\ UNCHANGED <<cleared, given>> /\ (crossed => crossed')
      /\ ~crossed' => ~CrossesClose(p, t, {"count", "uncount"} \cup Unmarking)
  BY <1>8, CrossingBase
<1> QED BY <1>1, <1>5, <1>6, <1>7, <1>9 DEF Base, Others

LEMMA CloseCountBase ==
  ASSUME Base, NEW t \in Threads, CloseCount(t)
  PROVE  /\ Base' /\ Others(t) /\ thread[t].pc = "uncount" /\ thread[t].p \in Ports
         /\ \/ /\ thread[t].count = 0
               /\ thread'[t].pc = "close_lock" /\ thread'[t].p = thread[t].p
            \/ thread[t].count # 0 /\ thread'[t] = IdleThread
<1>1. /\ thread[t].pc = "uncount" /\ thread[t].pc # "idle"
      /\ open_counter' = [open_counter EXCEPT ![thread[t].p] = thread[t].count]
      /\ UNCHANGED <<fcr, board_settings_spinlock, handles, history, calls>>
  BY DEF CloseCount, Step, Done
<1>2. thread[t].p \in Ports /\ thread[t].count \in Int
  BY <1>1 DEF Base, ThreadInv, CallState
<1>3. CASE thread[t].count = 0
  <2>1. "close_lock" \in Pcs \ {"idle"} /\ "close_lock" \notin Writing
    BY DEF Pcs, Writing
  <2>2. Step(t, "uncount", "close_lock")
    BY <1>3 DEF CloseCount
  <2>3. /\ ThreadInv' /\ thread'[t].pc = "close_lock" /\ thread'[t].p = thread[t].p
        /\ \A u \in Threads \ {t} : thread'[u] = thread[u]
    BY <1>1, <2>1, <2>2, StepUpdate DEF Base
  <2>4. LockInv'
    BY <1>1, <2>3, LockKept DEF Locked
  <2> QED BY <1>1, <1>2, <1>3, <2>3, <2>4 DEF Base, Others, HistoryInv, history
<1>4. CASE thread[t].count # 0
  <2>1. Done(t, "uncount")
    BY <1>4 DEF CloseCount
  <2>2. ThreadInv' /\ thread'[t] = IdleThread /\ \A u \in Threads \ {t} : thread'[u] = thread[u]
    BY <2>1, DoneUpdate DEF Base
  <2>3. LockInv'
    BY <1>1, <2>2, LockKept DEF Locked, IdleThread
  <2> QED BY <1>1, <1>2, <1>4, <2>2, <2>3 DEF Base, Others, HistoryInv, history
<1> QED BY <1>3, <1>4

LEMMA CloseLockBase ==
  ASSUME Base, NEW t \in Threads, CloseLock(t)
  PROVE  /\ Base' /\ Others(t) /\ thread[t].pc = "close_lock" /\ thread'[t].pc = "unmark_read"
         /\ thread'[t].p = thread[t].p /\ thread[t].p \in Ports
<1>1. /\ Step(t, "close_lock", "unmark_read") /\ thread[t].pc = "close_lock"
      /\ thread[t].pc # "idle" /\ Free(thread[t].p) /\ Take(thread[t].p, t)
      /\ UNCHANGED <<fcr, open_counter, handles, history, calls>>
  BY DEF CloseLock, Step
<1>2. "unmark_read" \in Pcs \ {"idle"} /\ "unmark_read" \notin Writing
  BY DEF Pcs, Writing
<1>3. /\ ThreadInv' /\ thread'[t].pc = "unmark_read" /\ thread'[t].p = thread[t].p
      /\ \A u \in Threads \ {t} : thread'[u] = thread[u]
  BY <1>1, <1>2, StepUpdate DEF Base
<1>4. thread[t].p \in Ports
  BY <1>1 DEF Base, ThreadInv
<1>5. LockInv' /\ board_settings_spinlock' \in [Ports -> {"free"} \cup Threads]
  BY <1>1, <1>3, <1>4, LockTaken
<1> QED BY <1>1, <1>3, <1>4, <1>5 DEF Base, Others, HistoryInv, history

LEMMA CloseReadFcrBase ==
  ASSUME Base, NEW t \in Threads, CloseReadFcr(t)
  PROVE  /\ Base' /\ Others(t) /\ thread[t].pc = "unmark_read" /\ thread'[t].pc = "unmark_write"
         /\ thread'[t].p = thread[t].p /\ thread'[t].orig = fcr
         /\ UNCHANGED <<cleared, given>> /\ (crossed => crossed')
         /\ ~crossed' => ~CrossesPorts(thread[t].p)
<1>1. /\ thread[t].pc = "unmark_read" /\ thread[t].pc # "idle"
      /\ thread' = [thread EXCEPT ![t].pc = "unmark_write", ![t].orig = fcr]
      /\ UNCHANGED <<fcr, open_counter, board_settings_spinlock, handles, calls>>
      /\ Crossing(CrossesPorts(thread[t].p))
  BY DEF CloseReadFcr
<1>2. /\ ThreadInv' /\ thread'[t].pc = "unmark_write" /\ thread'[t].p = thread[t].p
      /\ thread'[t].orig = fcr /\ \A u \in Threads \ {t} : thread'[u] = thread[u]
  BY <1>1, ReadUpdate DEF Base, Writing
<1>3. thread[t].p \in Ports /\ board_settings_spinlock[thread[t].p] = t
  BY <1>1 DEF Base, ThreadInv, LockInv, Locked
<1>4. LockInv'
  BY <1>1, <1>2, <1>3, LockKept
<1>5. CrossesPorts(thread[t].p) \in BOOLEAN
  BY DEF CrossesPorts
<1>6. /\ HistoryInv' /\ UNCHANGED <<cleared, given>> /\ (crossed => crossed')
      /\ ~crossed' => ~CrossesPorts(thread[t].p)
  BY <1>1, <1>5, CrossingBase
<1> QED BY <1>1, <1>2, <1>4, <1>6 DEF Base, Others

LEMMA CloseWriteBase ==
  ASSUME Base, NEW t \in Threads, CloseWrite(t)
  PROVE  /\ Base' /\ Others(t) /\ thread[t].pc = "unmark_write" /\ thread'[t] = IdleThread
         /\ thread[t].orig \in Fcr /\ thread[t].p \in Ports
<1>1. /\ Done(t, "unmark_write") /\ thread[t].pc = "unmark_write" /\ Release(t)
      /\ fcr' = [thread[t].orig EXCEPT !.sync = @ \ {thread[t].p}]
      /\ cleared' = cleared \ {thread[t].p} /\ UNCHANGED <<open_counter, handles, calls, given, crossed>>
  BY DEF CloseWrite, Done
<1>2. ThreadInv' /\ thread'[t] = IdleThread /\ \A u \in Threads \ {t} : thread'[u] = thread[u]
  BY <1>1, DoneUpdate DEF Base
<1>3. thread[t].pc \in Locked /\ thread'[t].pc \notin Locked
  BY <1>1, <1>2 DEF IdleThread, Locked
<1>4. LockInv' /\ board_settings_spinlock' \in [Ports -> {"free"} \cup Threads]
  BY <1>1, <1>2, <1>3, LockReleased
<1>5. thread[t].p \in Ports /\ thread[t].orig \in Fcr
  BY <1>1 DEF Base, ThreadInv, Writing
<1>6. fcr' \in Fcr
  BY <1>1, <1>5, FcrValues
<1> QED BY <1>1, <1>2, <1>4, <1>5, <1>6 DEF Base, Others, HistoryInv

LEMMA ClockLockBase ==
  ASSUME Base, NEW t \in Threads, NEW p \in Ports, ClockLock(t, p)
  PROVE  /\ Base' /\ Others(t) /\ thread[t].pc = "idle" /\ thread'[t].pc = "clock_drive"
         /\ thread'[t].p = p /\ thread'[t].orig = fcr /\ Free(p)
         /\ UNCHANGED <<cleared, given>> /\ (crossed => crossed')
         /\ ~crossed' => ~CrossesPorts(p)
<1>1. /\ thread[t].pc = "idle" /\ calls' \in 0..MaxCalls /\ Free(p) /\ Take(p, t)
      /\ UNCHANGED <<fcr, open_counter, handles>>
  BY CallBase DEF ClockLock
<1>2. Begin(t, "clock_drive", p, 0, fcr)
  BY DEF ClockLock
<1>3. fcr \in Fcr /\ ThreadInv
  BY DEF Base
<1>4. "clock_drive" \in Pcs \ {"idle"} /\ 0 \in Int /\ ("clock_drive" \in Writing)
  BY DEF Pcs, Writing
<1>5. /\ ThreadInv' /\ thread'[t].pc = "clock_drive" /\ thread'[t].p = p
      /\ thread'[t].count = 0 /\ thread'[t].orig = fcr
      /\ \A u \in Threads \ {t} : thread'[u] = thread[u]
  BY <1>2, <1>3, <1>4, BeginUpdate
<1>6. LockInv' /\ board_settings_spinlock' \in [Ports -> {"free"} \cup Threads]
  BY <1>1, <1>4, <1>5, LockTaken
<1>7. CrossesPorts(p) \in BOOLEAN /\ Crossing(CrossesPorts(p))
  BY DEF CrossesPorts, ClockLock
<1>8. /\ HistoryInv' /\ UNCHANGED <<cleared, given>> /\ (crossed => crossed')
      /\ ~crossed' => ~CrossesPorts(p)
  BY <1>7, CrossingBase
<1> QED BY <1>1, <1>4, <1>5, <1>6, <1>8 DEF Base, Others

LEMMA ClockDriveBase ==
  ASSUME Base, NEW t \in Threads, ClockDrive(t)
  PROVE  /\ Base' /\ Others(t) /\ thread[t].pc = "clock_drive" /\ thread'[t].pc = "clock_restore"
         /\ thread'[t].p = thread[t].p /\ thread'[t].orig = thread[t].orig
         /\ thread[t].orig \in Fcr /\ thread[t].p \in Ports
<1>1. /\ Step(t, "clock_drive", "clock_restore") /\ thread[t].pc = "clock_drive"
      /\ thread[t].pc # "idle" /\ fcr' = [thread[t].orig EXCEPT !.pins = {thread[t].p}]
      /\ UNCHANGED <<open_counter, board_settings_spinlock, handles, history, calls>>
  BY DEF ClockDrive, Step
<1>2. /\ thread[t].p \in Ports /\ board_settings_spinlock[thread[t].p] = t
      /\ thread[t].orig \in Fcr
  BY <1>1 DEF Base, ThreadInv, LockInv, Locked, Writing
<1>3. "clock_restore" \in Pcs \ {"idle"}
  BY DEF Pcs
<1>4. /\ ThreadInv' /\ thread'[t].pc = "clock_restore" /\ thread'[t].p = thread[t].p
      /\ thread'[t].orig = thread[t].orig /\ \A u \in Threads \ {t} : thread'[u] = thread[u]
  BY <1>1, <1>2, <1>3, StepUpdate DEF Base
<1>5. LockInv'
  BY <1>1, <1>2, <1>4, LockKept
<1>6. fcr' \in Fcr
  BY <1>1, <1>2, FcrValues
<1> QED BY <1>1, <1>2, <1>4, <1>5, <1>6 DEF Base, Others, HistoryInv, history

LEMMA ClockRestoreBase ==
  ASSUME Base, NEW t \in Threads, ClockRestore(t)
  PROVE  /\ Base' /\ Others(t) /\ thread[t].pc = "clock_restore" /\ thread'[t] = IdleThread
<1>1. /\ Done(t, "clock_restore") /\ thread[t].pc = "clock_restore" /\ Release(t)
      /\ fcr' = thread[t].orig /\ UNCHANGED <<open_counter, handles, history, calls>>
  BY DEF ClockRestore, Done
<1>2. ThreadInv' /\ thread'[t] = IdleThread /\ \A u \in Threads \ {t} : thread'[u] = thread[u]
  BY <1>1, DoneUpdate DEF Base
<1>3. thread[t].pc \in Locked /\ thread'[t].pc \notin Locked /\ thread[t].orig \in Fcr
  BY <1>1, <1>2 DEF IdleThread, Locked, Writing, Base, ThreadInv
<1>4. LockInv' /\ board_settings_spinlock' \in [Ports -> {"free"} \cup Threads]
  BY <1>1, <1>2, <1>3, LockReleased
<1> QED BY <1>1, <1>2, <1>3, <1>4 DEF Base, Others, HistoryInv, history

LEMMA SetRegistersBase ==
  ASSUME Base, NEW t \in Threads, NEW p \in Ports, NEW async \in SUBSET Ports,
         NEW pins \in SUBSET Ports, SetRegisters(t, p, async, pins)
  PROVE  /\ Base' /\ UNCHANGED <<thread, handles, open_counter>> /\ Free(p)
         /\ fcr' = [sync |-> {}, async |-> async, pins |-> pins]
         /\ given' = [async |-> async, pins |-> pins] /\ cleared' = cleared \cup fcr.sync
         /\ (crossed => crossed') /\ (~crossed' => ~CrossesPorts(p))
<1>1. /\ calls' \in 0..MaxCalls /\ Free(p)
      /\ fcr' = [sync |-> {}, async |-> async, pins |-> pins] /\ cleared' = cleared \cup fcr.sync
      /\ given' = [async |-> async, pins |-> pins] /\ crossed' = (crossed \/ CrossesPorts(p))
      /\ UNCHANGED <<open_counter, board_settings_spinlock, thread, handles>>
  BY CallBase DEF SetRegisters
<1>2. fcr' \in Fcr /\ fcr.sync \subseteq Ports
  BY <1>1 DEF Base, Fcr
<1>3. HistoryInv'
  BY <1>1, <1>2 DEF Base, HistoryInv
<1> QED BY <1>1, <1>2, <1>3 DEF Base, ThreadInv, LockInv

LEMMA SerialToggleBase ==
  ASSUME Base, NEW p \in Ports, SerialToggle(p)
  PROVE  /\ Base' /\ UNCHANGED <<thread, handles, open_counter, cleared>>
         /\ fcr'.sync = fcr.sync /\ fcr'.pins = fcr.pins /\ given'.pins = given.pins
         /\ fcr.async = given.async => fcr'.async = given'.async
         /\ (crossed => crossed') /\ (~crossed' => \A u \in Threads : thread[u].pc \notin Writing)
<1>1. /\ calls' \in 0..MaxCalls
      /\ crossed' = (crossed \/ \E u \in Threads : thread[u].pc \in Writing)
      /\ UNCHANGED <<open_counter, board_settings_spinlock, thread, handles, cleared>>
  BY FcrAssumption DEF SerialToggle, Base
<1>2. fcr \in Fcr /\ given \in [async : SUBSET Ports, pins : SUBSET Ports]
  BY DEF Base, HistoryInv
<1>3. /\ fcr' \in Fcr /\ fcr'.sync = fcr.sync /\ fcr'.pins = fcr.pins
      /\ given' \in [async : SUBSET Ports, pins : SUBSET Ports] /\ given'.pins = given.pins
      /\ fcr.async = given.async => fcr'.async = given'.async
  <2>1. CASE /\ fcr' = [fcr EXCEPT !.async = @ \cup {p}]
             /\ given' = [given EXCEPT !.async = @ \cup {p}]
    BY <1>2, <2>1 DEF Fcr
  <2>2. CASE /\ fcr' = [fcr EXCEPT !.async = @ \ {p}]
             /\ given' = [given EXCEPT !.async = @ \ {p}]
    BY <1>2, <2>2 DEF Fcr
  <2> QED BY <2>1, <2>2 DEF SerialToggle
<1>4. HistoryInv'
  BY <1>1, <1>3 DEF Base, HistoryInv
<1> QED BY <1>1, <1>3, <1>4 DEF Base, ThreadInv, LockInv

LEMMA BaseNext == Base /\ [Next]_vars => Base'
<1> SUFFICES ASSUME Base, [Next]_vars PROVE Base'
  OBVIOUS
<1>1. CASE UNCHANGED vars
  BY <1>1 DEF vars, Base, ThreadInv, LockInv, HistoryInv, history
<1>2. ASSUME NEW t \in Threads, CreateStep(t) \/ CloseStep(t) \/ ClockStep(t) PROVE Base'
  BY <1>2, CreateCountBase, CreateReadBase, CreateWriteBase, CreateDoneBase, CloseCountBase,
     CloseLockBase, CloseReadFcrBase, CloseWriteBase, ClockDriveBase, ClockRestoreBase
     DEF CreateStep, CloseStep, ClockStep
<1>3. ASSUME NEW t \in Threads, NEW p \in Ports,
             CreateEnter(t, p) \/ CloseRead(t, p) \/ ClockLock(t, p)
      PROVE  Base'
  BY <1>3, CreateEnterBase, CloseReadBase, ClockLockBase
<1>4. ASSUME NEW t \in Threads, NEW p \in Ports, NEW async \in SUBSET Ports,
             NEW pins \in SUBSET Ports, SetRegisters(t, p, async, pins)
      PROVE  Base'
  BY <1>4, SetRegistersBase
<1> QED BY <1>1, <1>2, <1>3, <1>4, SerialToggleBase DEF Next

-----------------------------------------------------------------------------
(* The register, as long as no calls cross.                                *)

Past     == {"mark_read", "mark_write", "created"}
Marking  == {"mark_read", "mark_write"}
Counting == {"count", "uncount"} \cup Unmarking

\* A call on port q is in one of the places of `pcs`; and one other than that of t.
In(pcs, q) == \E u \in Threads : thread[u].p = q /\ thread[u].pc \in pcs
OthersIn(t, pcs, q) == \E u \in Threads \ {t} : thread[u].p = q /\ thread[u].pc \in pcs
Uncounted(q) == (IF In(Past, q) THEN 1 ELSE 0) + (IF In({"uncount"}, q) THEN 1 ELSE 0)

\* The counter of port q: one call at a time works on it, and it is ahead of the
\* handles by the one that is being made and by the one that is gone already.
CountInv(q) ==
  /\ \A t, u \in Threads : thread[t].p = q /\ thread[u].p = q
                          /\ thread[t].pc \in Counting /\ thread[u].pc \in Counting => t = u
  /\ open_counter[q] = handles[q] + Uncounted(q)
  /\ \A t \in Threads : thread[t].p = q =>
       /\ thread[t].pc = "count" => thread[t].count = open_counter[q] + 1
       /\ thread[t].pc = "uncount" => thread[t].count = open_counter[q] - 1
  /\ In(Marking, q) => open_counter[q] = 1
  /\ In(Unmarking, q) => open_counter[q] = 0

\* The mark of port q is due: it is counted as open and not about to be marked, or
\* about to be unmarked.
Due(q) == (open_counter[q] > 0 /\ ~In(Marking, q)) \/ In(Unmarking, q)

MarkInv(q) ==
  /\ q \in fcr.sync <=> Due(q) /\ q \notin cleared
  /\ q \in cleared => Due(q)

\* One call at a time is between a read of FCR and its write, and what it writes back
\* is what is there, but for what it means to change.
RegisterInv ==
  /\ \A t, u \in Threads : thread[t].pc \in Writing /\ thread[u].pc \in Writing => t = u
  /\ \A t \in Threads :
       /\ thread[t].pc \in Writing \ {"clock_restore"} => thread[t].orig = fcr
       /\ thread[t].pc = "clock_restore" => thread[t].orig = [fcr EXCEPT !.pins = given.pins]
  /\ fcr.async = given.async
  /\ (\A t \in Threads : thread[t].pc # "clock_restore") => fcr.pins = given.pins

KeptInv == RegisterInv /\ \A q \in Ports : CountInv(q) /\ MarkInv(q)

-----------------------------------------------------------------------------
LEMMA InSplit ==
  ASSUME NEW t \in Threads, Others(t), NEW pcs, NEW q
  PROVE  /\ In(pcs, q) <=> (thread[t].p = q /\ thread[t].pc \in pcs) \/ OthersIn(t, pcs, q)
         /\ In(pcs, q)' <=> (thread'[t].p = q /\ thread'[t].pc \in pcs) \/ OthersIn(t, pcs, q)
BY DEF In, OthersIn, Others

\* The lock keeps one call in the critical section of a port.
LEMMA OneInside ==
  ASSUME Base, NEW t \in Threads, NEW q, thread[t].p = q, thread[t].pc \in Locked
  PROVE  ~OthersIn(t, Locked, q)
BY DEF Base, LockInv, OthersIn

LEMMA NoneInside ==
  ASSUME Base, NEW q, Free(q)
  PROVE  ~In(Locked, q)
BY FcrAssumption DEF Base, LockInv, In, Free

LEMMA InMonotone ==
  ASSUME NEW t, NEW S, NEW T, S \subseteq T, NEW q
  PROVE  /\ ~In(T, q) => ~In(S, q)
         /\ ~OthersIn(t, T, q) => ~OthersIn(t, S, q)
BY DEF In, OthersIn

\* A step that leaves the count of port q alone, and its thread in the same class of
\* places, or that is about another port.
Classes == {Past, Marking, Counting, Unmarking, {"count"}, {"uncount"}}

LEMMA SameCount ==
  ASSUME NEW t \in Threads, Others(t), NEW q \in Ports, CountInv(q),
         \A S \in Classes : thread'[t].p = q /\ thread'[t].pc \in S <=>
                            thread[t].p = q /\ thread[t].pc \in S,
         thread'[t].p = q /\ thread'[t].pc \in {"count", "uncount"} =>
           thread'[t].count = thread[t].count,
         open_counter'[q] = open_counter[q], handles'[q] = handles[q]
  PROVE  CountInv(q)' /\ (Due(q)' <=> Due(q))
<1>1. \A S \in Classes : In(S, q)' <=> In(S, q)
  BY InSplit
<1>2. /\ In(Past, q)' <=> In(Past, q)
      /\ In(Marking, q)' <=> In(Marking, q)
      /\ In(Unmarking, q)' <=> In(Unmarking, q)
      /\ In({"uncount"}, q)' <=> In({"uncount"}, q)
  BY <1>1 DEF Classes
<1>3. ASSUME NEW u \in Threads, NEW S \in Classes
      PROVE  thread'[u].p = q /\ thread'[u].pc \in S <=> thread[u].p = q /\ thread[u].pc \in S
  BY <1>3 DEF Others
<1>4. \A u \in Threads : thread'[u].p = q /\ thread'[u].pc \in Counting <=>
                         thread[u].p = q /\ thread[u].pc \in Counting
  BY <1>3 DEF Classes
<1>5. \A u, v \in Threads : thread'[u].p = q /\ thread'[v].p = q
        /\ thread'[u].pc \in Counting /\ thread'[v].pc \in Counting => u = v
  BY <1>4 DEF CountInv
<1>6. ASSUME NEW u \in Threads, thread'[u].p = q
      PROVE  /\ thread'[u].pc = "count" => thread'[u].count = open_counter[q] + 1
             /\ thread'[u].pc = "uncount" => thread'[u].count = open_counter[q] - 1
  <2>1. thread'[u].pc \in {"count"} => thread[u].pc \in {"count"} /\ thread[u].p = q
    BY <1>3, <1>6 DEF Classes
  <2>2. thread'[u].pc \in {"uncount"} => thread[u].pc \in {"uncount"} /\ thread[u].p = q
    BY <1>3, <1>6 DEF Classes
  <2>3. thread'[u].pc \in {"count", "uncount"} => thread'[u].count = thread[u].count
    BY <1>6 DEF Others
  <2> QED BY <2>1, <2>2, <2>3 DEF CountInv
<1>7. Uncounted(q)' = Uncounted(q) /\ (Due(q)' <=> Due(q))
  BY <1>2 DEF Uncounted, Due
<1>8. /\ open_counter'[q] = handles'[q] + Uncounted(q)'
      /\ (In(Marking, q) => open_counter[q] = 1)'
      /\ (In(Unmarking, q) => open_counter[q] = 0)'
  BY <1>2, <1>7 DEF CountInv
<1> QED BY <1>5, <1>6, <1>7, <1>8 DEF CountInv

\* ... and that leaves the mark of q alone as well.
LEMMA SameMark ==
  ASSUME NEW q, MarkInv(q), Due(q)' <=> Due(q),
         q \in fcr'.sync <=> q \in fcr.sync, q \in cleared' <=> q \in cleared
  PROVE  MarkInv(q)'
BY DEF MarkInv

\* A step that leaves the register alone.
LEMMA SameRegister ==
  ASSUME NEW t \in Threads, Others(t), RegisterInv, UNCHANGED <<fcr, given>>,
         thread[t].pc \notin Writing, thread'[t].pc \notin Writing
  PROVE  RegisterInv'
<1>1. \A u \in Threads : thread'[u].pc \in Writing \/ thread[u].pc \in Writing =>
                         thread'[u] = thread[u]
  BY DEF Others
<1>2. \A u \in Threads : thread'[u].pc = "clock_restore" <=> thread[u].pc = "clock_restore"
  BY <1>1 DEF Writing
<1>3. (\A u, v \in Threads : thread[u].pc \in Writing /\ thread[v].pc \in Writing => u = v)'
  BY <1>1 DEF RegisterInv
<1>4. ASSUME NEW u \in Threads
      PROVE  /\ thread'[u].pc \in Writing \ {"clock_restore"} => thread'[u].orig = fcr
             /\ thread'[u].pc = "clock_restore" =>
                  thread'[u].orig = [fcr EXCEPT !.pins = given.pins]
  BY <1>1, <1>2 DEF RegisterInv, Writing
<1>5. (\A u \in Threads : thread'[u].pc # "clock_restore") => fcr.pins = given.pins
  BY <1>2 DEF RegisterInv
<1> QED BY <1>3, <1>4, <1>5 DEF RegisterInv
LEMMA KeptUnchanged ==
  ASSUME KeptInv, UNCHANGED <<fcr, open_counter, thread, handles, cleared, given>>
  PROVE  KeptInv'
<1>1. ASSUME NEW pcs, NEW q PROVE In(pcs, q)' <=> In(pcs, q)
  BY DEF In
<1>2. ASSUME NEW q \in Ports PROVE CountInv(q)' /\ MarkInv(q)'
  <2>1. Uncounted(q)' = Uncounted(q) /\ (Due(q)' <=> Due(q))
    BY <1>1 DEF Uncounted, Due
  <2>2. (In(Marking, q)' <=> In(Marking, q)) /\ (In(Unmarking, q)' <=> In(Unmarking, q))
    BY <1>1
  <2>3. CountInv(q) /\ MarkInv(q)
    BY DEF KeptInv
  <2>4. CountInv(q)'
    BY <2>1, <2>2, <2>3 DEF CountInv
  <2> QED BY <2>1, <2>3, <2>4 DEF MarkInv
<1>3. RegisterInv'
  BY DEF KeptInv, RegisterInv
<1> QED BY <1>2, <1>3 DEF KeptInv

LEMMA OneCounting ==
  ASSUME NEW t \in Threads, NEW q, CountInv(q), thread[t].p = q, thread[t].pc \in Counting
  PROVE  ~OthersIn(t, Counting, q)
BY DEF CountInv, OthersIn

\* A step that counts, or begins or ends to.
LEMMA OwnCount ==
  ASSUME NEW t \in Threads, Others(t), NEW q \in Ports, CountInv(q),
         \/ ~OthersIn(t, Counting, q)
         \/ /\ ~(thread'[t].p = q /\ thread'[t].pc \in Counting)
            /\ open_counter'[q] = open_counter[q],
         thread'[t].p = q => /\ thread'[t].pc = "count" => thread'[t].count = open_counter'[q] + 1
                             /\ thread'[t].pc = "uncount" => thread'[t].count = open_counter'[q] - 1,
         open_counter'[q] = handles'[q] + Uncounted(q)',
         In(Marking, q)' => open_counter'[q] = 1,
         In(Unmarking, q)' => open_counter'[q] = 0
  PROVE  CountInv(q)'
<1>1. \A u, v \in Threads : thread'[u].p = q /\ thread'[v].p = q
        /\ thread'[u].pc \in Counting /\ thread'[v].pc \in Counting => u = v
  <2>1. \A u \in Threads \ {t} : thread'[u] = thread[u]
    BY DEF Others
  <2> SUFFICES ASSUME NEW u \in Threads, NEW v \in Threads,
                      thread'[u].p = q, thread'[u].pc \in Counting,
                      thread'[v].p = q, thread'[v].pc \in Counting, u # v
               PROVE  FALSE
    OBVIOUS
  <2>2. CASE ~OthersIn(t, Counting, q)
    <3>1. u \in Threads \ {t} \/ v \in Threads \ {t}
      OBVIOUS
    <3> QED BY <2>1, <2>2, <3>1 DEF OthersIn
  <2>3. CASE ~(thread'[t].p = q /\ thread'[t].pc \in Counting)
    <3>1. thread'[u] = thread[u] /\ thread'[v] = thread[v]
      BY <2>1, <2>3
    <3> QED BY <3>1 DEF CountInv
  <2> QED BY <2>2, <2>3
<1>2. ASSUME NEW u \in Threads, thread'[u].p = q
      PROVE  /\ thread'[u].pc = "count" => thread'[u].count = open_counter'[q] + 1
             /\ thread'[u].pc = "uncount" => thread'[u].count = open_counter'[q] - 1
  <2>1. CASE u = t
    BY <1>2, <2>1
  <2>2. CASE u # t
    <3>1. thread'[u] = thread[u]
      BY <2>2 DEF Others
    <3>2. CASE thread[u].pc \notin {"count", "uncount"}
      BY <3>1, <3>2
    <3>3. CASE thread[u].pc \in {"count", "uncount"}
      <4>1. OthersIn(t, Counting, q)
        BY <1>2, <2>2, <3>1, <3>3 DEF OthersIn, Counting
      <4> QED BY <1>2, <3>1, <4>1 DEF CountInv
    <3> QED BY <3>2, <3>3
  <2> QED BY <2>1, <2>2
<1> QED BY <1>1, <1>2 DEF CountInv

\* Between the ports and by the lock of one: who begins to write is alone.
LEMMA NoneWriting ==
  ASSUME Base, NEW p \in Ports, Free(p), ~CrossesPorts(p)
  PROVE  \A u \in Threads : thread[u].pc \notin Writing
<1> SUFFICES ASSUME NEW u \in Threads, thread[u].pc \in Writing PROVE FALSE
  OBVIOUS
<1>1. thread[u].p = p
  BY DEF CrossesPorts
<1>2. thread[u].pc \in Locked
  BY DEF Writing, Locked
<1> QED BY <1>1, <1>2, NoneInside DEF In

LEMMA AloneWriting ==
  ASSUME Base, NEW t \in Threads, thread[t].pc \in Locked \ Writing, ~CrossesPorts(thread[t].p)
  PROVE  \A u \in Threads : thread[u].pc \notin Writing
<1> SUFFICES ASSUME NEW u \in Threads, thread[u].pc \in Writing PROVE FALSE
  OBVIOUS
<1>1. thread[u].p = thread[t].p /\ u # t
  BY DEF CrossesPorts
<1>2. thread[u].pc \in Locked
  BY DEF Writing, Locked
<1> QED BY <1>1, <1>2, OneInside DEF OthersIn

LEMMA StartWriting ==
  ASSUME NEW t \in Threads, Others(t), RegisterInv, UNCHANGED <<fcr, given>>,
         \A u \in Threads : thread[u].pc \notin Writing,
         thread'[t].pc \in Writing \ {"clock_restore"}, thread'[t].orig = fcr
  PROVE  RegisterInv'
<1>1. \A u \in Threads : u # t => thread'[u].pc \notin Writing
  BY DEF Others
<1>2. fcr.pins = given.pins /\ fcr.async = given.async
  BY DEF RegisterInv, Writing
<1>3. \A u \in Threads : thread'[u].pc # "clock_restore"
  BY <1>1 DEF Writing
<1> QED BY <1>1, <1>2, <1>3 DEF RegisterInv

LEMMA EndWriting ==
  ASSUME NEW t \in Threads, Others(t), RegisterInv, thread[t].pc \in Writing,
         thread'[t].pc \notin Writing, fcr'.async = given.async, fcr'.pins = given.pins,
         UNCHANGED given
  PROVE  RegisterInv'
<1>1. \A u \in Threads : thread'[u].pc \notin Writing
  BY DEF Others, RegisterInv
<1> QED BY <1>1 DEF RegisterInv, Writing

\* What a writer that does not drive the pins finds.
LEMMA WriterReads ==
  ASSUME NEW t \in Threads, RegisterInv, thread[t].pc \in Writing \ {"clock_restore"}
  PROVE  thread[t].orig = fcr /\ fcr.pins = given.pins /\ fcr.async = given.async
<1>1. \A u \in Threads : thread[u].pc # "clock_restore"
  BY DEF RegisterInv, Writing
<1> QED BY <1>1 DEF RegisterInv

-----------------------------------------------------------------------------
(* Each action keeps the register, for as long as no calls have crossed.   *)

\* A step of a call that neither counts nor writes.
LEMMA PlainStep ==
  ASSUME KeptInv, NEW t \in Threads, Others(t),
         thread'[t].pc # "idle" /\ thread[t].pc # "idle" =>
           thread'[t].p = thread[t].p /\ thread'[t].count = thread[t].count,
         \A S \in Classes : thread'[t].pc \in S <=> thread[t].pc \in S,
         UNCHANGED <<open_counter, handles, cleared>>, fcr'.sync = fcr.sync, RegisterInv'
  PROVE  KeptInv'
<1>1. /\ thread[t].pc = "idle" \/ thread'[t].pc = "idle" =>
           \A S \in Classes : thread'[t].pc \notin S /\ thread[t].pc \notin S
      /\ thread'[t].pc \in {"count", "uncount"} => thread[t].pc # "idle"
  BY DEF Classes, Past, Marking, Counting, Unmarking
<1>2. ASSUME NEW q \in Ports PROVE CountInv(q)' /\ MarkInv(q)'
  <2>1. CountInv(q) /\ MarkInv(q)
    BY DEF KeptInv
  <2>2. \A S \in Classes : thread'[t].p = q /\ thread'[t].pc \in S <=>
                           thread[t].p = q /\ thread[t].pc \in S
    BY <1>1
  <2>3. CountInv(q)' /\ (Due(q)' <=> Due(q))
    BY <1>1, <2>1, <2>2, SameCount
  <2> QED BY <2>1, <2>3, SameMark
<1> QED BY <1>2 DEF KeptInv

\* What a step about port p leaves of the others.
LEMMA OtherPorts ==
  ASSUME KeptInv, NEW t \in Threads, Others(t), NEW p \in Ports,
         thread[t].pc # "idle" => thread[t].p = p,
         thread'[t].pc # "idle" => thread'[t].p = p,
         NEW q \in Ports \ {p}, open_counter'[q] = open_counter[q], handles'[q] = handles[q],
         q \in fcr'.sync <=> q \in fcr.sync, q \in cleared' <=> q \in cleared
  PROVE  CountInv(q)' /\ MarkInv(q)'
<1>1. CountInv(q) /\ MarkInv(q)
  BY DEF KeptInv
<1>2. \A S \in Classes : "idle" \notin S
  BY DEF Classes, Past, Marking, Counting, Unmarking
<1>3. \A S \in Classes : thread'[t].p = q /\ thread'[t].pc \in S <=>
                         thread[t].p = q /\ thread[t].pc \in S
  BY <1>2
<1>4. CountInv(q)' /\ (Due(q)' <=> Due(q))
  BY <1>1, <1>3, SameCount
<1> QED BY <1>1, <1>4, SameMark

LEMMA CreateEnterKept ==
  ASSUME Base, KeptInv, NEW t \in Threads, NEW p \in Ports, CreateEnter(t, p), ~crossed'
  PROVE  KeptInv'
<1>1. CASE UNCHANGED <<fcr, open_counter, board_settings_spinlock, thread, handles, history>>
  BY <1>1, KeptUnchanged DEF history
<1>2. CASE /\ thread'[t].pc = "count" /\ thread'[t].p = p
           /\ thread'[t].count = open_counter[p] + 1
           /\ ~crossed' => ~CrossesClose(p, t, {"uncount"} \cup Unmarking)
           /\ UNCHANGED <<fcr, open_counter, handles, cleared, given>> /\ (crossed => crossed')
           /\ Free(p)
  <2>1. Others(t) /\ thread[t].pc = "idle"
    BY <1>2, CreateEnterBase
  <2>2. RegisterInv'
    BY <1>2, <2>1, SameRegister DEF KeptInv, Writing
  <2>3. ASSUME NEW q \in Ports \ {p} PROVE CountInv(q)' /\ MarkInv(q)'
    BY <1>2, <2>1, OtherPorts
  <2>4. ~OthersIn(t, {"uncount"} \cup Unmarking, p) /\ ~In(Locked, p)
    BY <1>2, NoneInside DEF CrossesClose, OthersIn
  <2>5. ~OthersIn(t, Counting, p)
    BY <2>4 DEF OthersIn, In, Counting, Locked
  <2>6. ~OthersIn(t, {"uncount"}, p) /\ ~OthersIn(t, Unmarking, p)
    BY <2>4, InMonotone
  <2>7. ~OthersIn(t, Past, p) /\ ~OthersIn(t, Marking, p)
    BY <2>4 DEF OthersIn, In, Locked, Past, Marking
  <2>8. /\ ~In(Past, p) /\ ~In(Past, p)' /\ ~In(Marking, p) /\ ~In(Marking, p)'
        /\ ~In(Unmarking, p) /\ ~In(Unmarking, p)'
        /\ ~In({"uncount"}, p) /\ ~In({"uncount"}, p)'
    BY <1>2, <2>1, <2>6, <2>7, InSplit DEF Past, Marking, Unmarking
  <2>9. CountInv(p) /\ MarkInv(p)
    BY DEF KeptInv
  <2>10. Uncounted(p)' = Uncounted(p) /\ (Due(p)' <=> Due(p))
    BY <1>2, <2>8 DEF Uncounted, Due
  <2>11. open_counter'[p] = handles'[p] + Uncounted(p)'
    BY <1>2, <2>9, <2>10 DEF CountInv
  <2>12. CountInv(p)'
    BY <1>2, <2>1, <2>5, <2>8, <2>9, <2>11, OwnCount
  <2>13. MarkInv(p)'
    BY <1>2, <2>9, <2>10, SameMark
  <2> QED BY <2>2, <2>3, <2>12, <2>13 DEF KeptInv
<1> QED BY <1>1, <1>2, CreateEnterBase

LEMMA CreateCountKept ==
  ASSUME Base, KeptInv, NEW t \in Threads, CreateCount(t)
  PROVE  KeptInv'
<1>0. PICK p : p = thread[t].p
  OBVIOUS
<1>1. /\ Others(t) /\ thread[t].pc = "count" /\ thread'[t].p = p
      /\ thread'[t].pc = (IF thread[t].count = 1 THEN "mark_read" ELSE "created")
  BY <1>0, CreateCountBase
<1>2. /\ open_counter' = [open_counter EXCEPT ![p] = thread[t].count]
      /\ UNCHANGED <<fcr, handles, cleared, given>>
  BY <1>0 DEF CreateCount, history
<1>3. p \in Ports /\ open_counter \in [Ports -> Int] /\ handles \in [Ports -> Nat]
  BY <1>0, <1>1 DEF Base, ThreadInv
<1>4. CountInv(p) /\ MarkInv(p)
  BY <1>0, <1>3 DEF KeptInv
<1>5. RegisterInv'
  BY <1>0, <1>1, <1>2, SameRegister DEF KeptInv, Writing
<1>6. ASSUME NEW q \in Ports \ {p} PROVE CountInv(q)' /\ MarkInv(q)'
  BY <1>0, <1>1, <1>2, <1>3, OtherPorts
<1>7. ~OthersIn(t, Counting, p) /\ ~OthersIn(t, Locked, p)
  BY <1>0, <1>1, <1>4, OneCounting, OneInside DEF Counting, Locked
<1>8. ~OthersIn(t, {"uncount"}, p) /\ ~OthersIn(t, Unmarking, p)
  BY <1>0, <1>7, InMonotone DEF Counting
<1>9. ~OthersIn(t, Past, p) /\ ~OthersIn(t, Marking, p)
  BY <1>0, <1>7, InMonotone DEF Past, Marking, Locked
<1>10. /\ ~In(Past, p) /\ In(Past, p)' /\ ~In(Marking, p)
       /\ In(Marking, p)' <=> thread[t].count = 1
       /\ ~In(Unmarking, p) /\ ~In(Unmarking, p)'
       /\ ~In({"uncount"}, p) /\ ~In({"uncount"}, p)'
  BY <1>0, <1>1, <1>8, <1>9, InSplit DEF Past, Marking, Unmarking
<1>11. thread[t].count = open_counter[p] + 1 /\ open_counter[p] = handles[p]
  BY <1>0, <1>1, <1>3, <1>4, <1>10 DEF CountInv, Uncounted
<1>12. open_counter'[p] = open_counter[p] + 1 /\ open_counter[p] \in Nat
  BY <1>0, <1>2, <1>3, <1>11
<1>13. open_counter'[p] = handles'[p] + Uncounted(p)'
  BY <1>0, <1>2, <1>3, <1>10, <1>11, <1>12 DEF Uncounted
<1>14. CountInv(p)'
  BY <1>0, <1>1, <1>3, <1>4, <1>7, <1>10, <1>11, <1>12, <1>13, OwnCount
<1>15. Due(p)' <=> Due(p)
  BY <1>0, <1>10, <1>11, <1>12 DEF Due
<1>16. MarkInv(p)'
  BY <1>0, <1>2, <1>4, <1>15, SameMark
<1> QED BY <1>5, <1>6, <1>14, <1>16 DEF KeptInv

LEMMA CreateReadKept ==
  ASSUME Base, KeptInv, NEW t \in Threads, CreateRead(t), ~crossed'
  PROVE  KeptInv'
<1>1. /\ Others(t) /\ thread[t].pc = "mark_read" /\ thread'[t].pc = "mark_write"
      /\ thread'[t].p = thread[t].p /\ thread'[t].orig = fcr /\ UNCHANGED <<cleared, given>>
      /\ ~CrossesPorts(thread[t].p)
  BY CreateReadBase
<1>2. UNCHANGED <<fcr, open_counter, handles>> /\ thread'[t].count = thread[t].count
  BY DEF CreateRead, Base, ThreadInv, CallState
<1>3. thread[t].pc \in Locked \ Writing
  BY <1>1 DEF Locked, Writing
<1>4. \A u \in Threads : thread[u].pc \notin Writing
  BY <1>1, <1>3, AloneWriting
<1>5. RegisterInv'
  BY <1>1, <1>2, <1>4, StartWriting DEF KeptInv, Writing
<1>6. \A S \in Classes : thread'[t].pc \in S <=> thread[t].pc \in S
  BY <1>1 DEF Classes, Past, Marking, Counting, Unmarking
<1> QED BY <1>1, <1>2, <1>5, <1>6, PlainStep

LEMMA CreateWriteKept ==
  ASSUME Base, KeptInv, NEW t \in Threads, CreateWrite(t)
  PROVE  KeptInv'
<1>0. PICK p : p = thread[t].p
  OBVIOUS
<1>1. /\ Others(t) /\ thread[t].pc = "mark_write" /\ thread'[t].pc = "created"
      /\ thread'[t].p = p /\ thread[t].orig \in Fcr /\ p \in Ports
  BY <1>0, CreateWriteBase
<1>2. /\ fcr' = [thread[t].orig EXCEPT !.sync = @ \cup {p}]
      /\ UNCHANGED <<open_counter, handles, cleared, given>>
  BY <1>0 DEF CreateWrite, history
<1>3. RegisterInv /\ CountInv(p) /\ MarkInv(p)
  BY <1>0, <1>1 DEF KeptInv
<1>4. thread[t].orig = fcr /\ fcr.pins = given.pins /\ fcr.async = given.async
  BY <1>0, <1>1, <1>3, WriterReads DEF Writing
<1>5. fcr'.sync = fcr.sync \cup {p} /\ fcr'.async = fcr.async /\ fcr'.pins = fcr.pins
  BY <1>0, <1>1, <1>2, <1>4, FcrValues
<1>6. RegisterInv'
  BY <1>0, <1>1, <1>2, <1>3, <1>4, <1>5, EndWriting DEF Writing
<1>7. ASSUME NEW q \in Ports \ {p} PROVE CountInv(q)' /\ MarkInv(q)'
  BY <1>0, <1>1, <1>2, <1>5, <1>7, OtherPorts
<1>8. ~OthersIn(t, Locked, p)
  BY <1>0, <1>1, OneInside DEF Locked
<1>9. ~OthersIn(t, Past, p) /\ ~OthersIn(t, Marking, p)
  BY <1>0, <1>8, InMonotone DEF Past, Marking, Locked
<1>10. /\ In(Past, p) /\ In(Past, p)' /\ In(Marking, p) /\ ~In(Marking, p)'
       /\ In(Unmarking, p)' <=> In(Unmarking, p)
       /\ In({"uncount"}, p)' <=> In({"uncount"}, p)
  BY <1>0, <1>1, <1>9, InSplit DEF Past, Marking, Unmarking
<1>11. open_counter[p] = 1 /\ ~In(Unmarking, p) /\ Uncounted(p)' = Uncounted(p)
  BY <1>0, <1>3, <1>10 DEF CountInv, Uncounted
<1>12. open_counter'[p] = handles'[p] + Uncounted(p)'
  BY <1>0, <1>2, <1>3, <1>11 DEF CountInv
<1>13. thread'[t].pc \notin Counting /\ thread'[t].pc \notin {"count", "uncount"}
  BY <1>0, <1>1 DEF Counting, Unmarking
<1>14. CountInv(p)'
  BY <1>0, <1>1, <1>2, <1>3, <1>10, <1>11, <1>12, <1>13, OwnCount
<1>15. ~Due(p) /\ Due(p)'
  BY <1>0, <1>2, <1>10, <1>11 DEF Due
<1>16. MarkInv(p)'
  BY <1>0, <1>2, <1>3, <1>5, <1>15 DEF MarkInv
<1> QED BY <1>6, <1>7, <1>14, <1>16 DEF KeptInv

LEMMA CreateDoneKept ==
  ASSUME Base, KeptInv, NEW t \in Threads, CreateDone(t)
  PROVE  KeptInv'
<1>0. PICK p : p = thread[t].p
  OBVIOUS
<1>1. /\ Others(t) /\ thread[t].pc = "created" /\ thread'[t] = IdleThread /\ p \in Ports
      /\ thread'[t].pc = "idle"
  BY <1>0, CreateDoneBase DEF IdleThread
<1>2. /\ handles' = [handles EXCEPT ![p] = @ + 1]
      /\ UNCHANGED <<fcr, open_counter, cleared, given>>
  BY <1>0 DEF CreateDone, history
<1>3. open_counter \in [Ports -> Int] /\ handles \in [Ports -> Nat]
  BY <1>0 DEF Base
<1>4. RegisterInv /\ CountInv(p) /\ MarkInv(p)
  BY <1>0, <1>1 DEF KeptInv
<1>5. RegisterInv'
  BY <1>0, <1>1, <1>2, <1>4, SameRegister DEF Writing
<1>6. ASSUME NEW q \in Ports \ {p} PROVE CountInv(q)' /\ MarkInv(q)'
  BY <1>0, <1>1, <1>2, <1>3, OtherPorts
<1>7. ~OthersIn(t, Locked, p)
  BY <1>0, <1>1, OneInside DEF Locked
<1>8. ~OthersIn(t, Past, p) /\ ~OthersIn(t, Marking, p)
  BY <1>0, <1>7, InMonotone DEF Past, Marking, Locked
<1>9. /\ In(Past, p) /\ ~In(Past, p)' /\ ~In(Marking, p) /\ ~In(Marking, p)'
      /\ In(Unmarking, p)' <=> In(Unmarking, p)
      /\ In({"uncount"}, p)' <=> In({"uncount"}, p)
  BY <1>0, <1>1, <1>8, InSplit DEF Past, Marking, Unmarking
<1>10. handles'[p] = handles[p] + 1
  BY <1>0, <1>1, <1>2, <1>3
<1>11. Uncounted(p) = Uncounted(p)' + 1 /\ Uncounted(p)' \in Nat
  BY <1>0, <1>9 DEF Uncounted
<1>12. open_counter'[p] = handles'[p] + Uncounted(p)'
  BY <1>0, <1>1, <1>2, <1>3, <1>4, <1>10, <1>11 DEF CountInv
<1>13. thread'[t].pc \notin Counting /\ thread'[t].pc \notin {"count", "uncount"}
  BY <1>0, <1>1 DEF Counting, Unmarking
<1>14. In(Unmarking, p)' => open_counter'[p] = 0
  BY <1>0, <1>2, <1>4, <1>9 DEF CountInv
<1>15. CountInv(p)'
  BY <1>0, <1>1, <1>2, <1>4, <1>9, <1>12, <1>13, <1>14, OwnCount
<1>16. Due(p)' <=> Due(p)
  BY <1>0, <1>2, <1>9 DEF Due
<1>17. MarkInv(p)'
  BY <1>0, <1>2, <1>4, <1>16, SameMark
<1> QED BY <1>5, <1>6, <1>15, <1>17 DEF KeptInv

LEMMA CloseReadKept ==
  ASSUME Base, KeptInv, NEW t \in Threads, NEW p \in Ports, CloseRead(t, p), ~crossed'
  PROVE  KeptInv'
<1>1. /\ Others(t) /\ thread[t].pc = "idle" /\ thread'[t].pc = "uncount" /\ thread'[t].p = p
      /\ thread'[t].count = open_counter[p] - 1 /\ UNCHANGED <<cleared, given>>
      /\ ~CrossesClose(p, t, {"count", "uncount"} \cup Unmarking)
  BY CloseReadBase
<1>2. /\ handles' = [handles EXCEPT ![p] = @ - 1] /\ handles[p] > 0
      /\ UNCHANGED <<fcr, open_counter>>
  BY DEF CloseRead
<1>3. open_counter \in [Ports -> Int] /\ handles \in [Ports -> Nat]
  BY DEF Base
<1>4. RegisterInv /\ CountInv(p) /\ MarkInv(p)
  BY DEF KeptInv
<1>5. RegisterInv'
  BY <1>1, <1>2, <1>4, SameRegister DEF Writing
<1>6. ASSUME NEW q \in Ports \ {p} PROVE CountInv(q)' /\ MarkInv(q)'
  BY <1>1, <1>2, <1>3, OtherPorts
<1>7. ~OthersIn(t, Counting, p)
  BY <1>1 DEF CrossesClose, OthersIn, Counting
<1>8. ~OthersIn(t, {"uncount"}, p) /\ ~OthersIn(t, Unmarking, p)
  BY <1>7, InMonotone DEF Counting
<1>9. /\ In(Past, p)' <=> In(Past, p)
      /\ In(Marking, p)' <=> In(Marking, p)
      /\ ~In(Unmarking, p)' /\ ~In(Unmarking, p)
      /\ ~In({"uncount"}, p) /\ In({"uncount"}, p)'
  BY <1>1, <1>8, InSplit DEF Past, Marking, Unmarking
<1>10. handles'[p] = handles[p] - 1
  BY <1>2, <1>3
<1>11. Uncounted(p)' = Uncounted(p) + 1 /\ Uncounted(p) \in Nat
  BY <1>9 DEF Uncounted
<1>12. open_counter'[p] = handles'[p] + Uncounted(p)'
  BY <1>2, <1>3, <1>4, <1>10, <1>11 DEF CountInv
<1>13. In(Marking, p)' => open_counter'[p] = 1
  BY <1>2, <1>4, <1>9 DEF CountInv
<1>14. CountInv(p)'
  BY <1>1, <1>2, <1>4, <1>7, <1>9, <1>12, <1>13, OwnCount
<1>15. Due(p)' <=> Due(p)
  BY <1>2, <1>9 DEF Due
<1>16. MarkInv(p)'
  BY <1>1, <1>2, <1>4, <1>15, SameMark
<1> QED BY <1>5, <1>6, <1>14, <1>16 DEF KeptInv

LEMMA CloseCountKept ==
  ASSUME Base, KeptInv, NEW t \in Threads, CloseCount(t)
  PROVE  KeptInv'
<1>0. PICK p : p = thread[t].p
  OBVIOUS
<1>1. /\ Others(t) /\ thread[t].pc = "uncount" /\ p \in Ports
      /\ \/ /\ thread[t].count = 0
            /\ thread'[t].pc = "close_lock" /\ thread'[t].p = p
         \/ thread[t].count # 0 /\ thread'[t].pc = "idle"
  BY <1>0, CloseCountBase DEF IdleThread
<1>2. /\ open_counter' = [open_counter EXCEPT ![p] = thread[t].count]
      /\ UNCHANGED <<fcr, handles, cleared, given>>
  BY <1>0 DEF CloseCount, history
<1>3. open_counter \in [Ports -> Int] /\ handles \in [Ports -> Nat]
  BY DEF Base
<1>4. RegisterInv /\ CountInv(p) /\ MarkInv(p)
  BY <1>1 DEF KeptInv
<1>5. RegisterInv'
  BY <1>1, <1>2, <1>4, SameRegister DEF Writing
<1>6. ASSUME NEW q \in Ports \ {p} PROVE CountInv(q)' /\ MarkInv(q)'
  BY <1>0, <1>1, <1>2, <1>3, OtherPorts
<1>7. ~OthersIn(t, Counting, p)
  BY <1>0, <1>1, <1>4, OneCounting DEF Counting
<1>8. ~OthersIn(t, {"uncount"}, p) /\ ~OthersIn(t, Unmarking, p)
  BY <1>7, InMonotone DEF Counting
<1>9. /\ In(Past, p)' <=> In(Past, p)
      /\ In(Marking, p)' <=> In(Marking, p)
      /\ In(Unmarking, p)' <=> thread[t].count = 0
      /\ ~In(Unmarking, p)
      /\ In({"uncount"}, p) /\ ~In({"uncount"}, p)'
  BY <1>0, <1>1, <1>8, InSplit DEF Past, Marking, Unmarking
<1>10. open_counter'[p] = open_counter[p] - 1 /\ thread[t].count = open_counter[p] - 1
  BY <1>0, <1>1, <1>2, <1>3, <1>4 DEF CountInv
<1>11. Uncounted(p) = Uncounted(p)' + 1 /\ Uncounted(p)' \in Nat
  BY <1>9 DEF Uncounted
<1>12. open_counter[p] \in Int /\ handles[p] \in Nat /\ open_counter[p] = handles[p] + Uncounted(p)
  BY <1>1, <1>3, <1>4 DEF CountInv
<1>13. open_counter'[p] = handles'[p] + Uncounted(p)' /\ open_counter[p] > 0
  BY <1>2, <1>10, <1>11, <1>12
<1>14. ~In(Marking, p) \/ thread[t].count = 0
  BY <1>4, <1>10 DEF CountInv
<1>15. In(Marking, p) => In(Past, p)
  BY DEF In, Marking, Past
<1>16. ~In(Marking, p)
  <2>1. ASSUME In(Marking, p) PROVE FALSE
    <3>1. open_counter[p] = 1 /\ In(Past, p) /\ Uncounted(p)' = 1
      BY <1>4, <1>9, <1>15, <2>1 DEF CountInv, Uncounted
    <3> QED BY <1>11, <1>12, <3>1
  <2> QED BY <2>1
<1>17. ~In(Marking, p)' /\ (In(Unmarking, p)' => open_counter'[p] = 0)
  BY <1>9, <1>10, <1>16
<1>18. CountInv(p)'
  BY <1>1, <1>4, <1>7, <1>13, <1>17, OwnCount
<1>19. Due(p)' /\ Due(p)
  BY <1>9, <1>10, <1>12, <1>13, <1>16, <1>17 DEF Due
<1>20. MarkInv(p)'
  BY <1>2, <1>4, <1>19, SameMark
<1> QED BY <1>5, <1>6, <1>18, <1>20 DEF KeptInv

LEMMA CloseLockKept ==
  ASSUME Base, KeptInv, NEW t \in Threads, CloseLock(t)
  PROVE  KeptInv'
<1>1. /\ Others(t) /\ thread[t].pc = "close_lock" /\ thread'[t].pc = "unmark_read"
      /\ thread'[t].p = thread[t].p
  BY CloseLockBase
<1>2. /\ UNCHANGED <<fcr, open_counter, handles, cleared, given>>
      /\ thread'[t].count = thread[t].count
  BY DEF CloseLock, Step, Base, ThreadInv, CallState, history
<1>3. RegisterInv'
  BY <1>1, <1>2, SameRegister DEF KeptInv, Writing
<1>4. \A S \in Classes : thread'[t].pc \in S <=> thread[t].pc \in S
  BY <1>1 DEF Classes, Past, Marking, Counting, Unmarking
<1> QED BY <1>1, <1>2, <1>3, <1>4, PlainStep

LEMMA CloseReadFcrKept ==
  ASSUME Base, KeptInv, NEW t \in Threads, CloseReadFcr(t), ~crossed'
  PROVE  KeptInv'
<1>1. /\ Others(t) /\ thread[t].pc = "unmark_read" /\ thread'[t].pc = "unmark_write"
      /\ thread'[t].p = thread[t].p /\ thread'[t].orig = fcr /\ UNCHANGED <<cleared, given>>
      /\ ~CrossesPorts(thread[t].p)
  BY CloseReadFcrBase
<1>2. UNCHANGED <<fcr, open_counter, handles>> /\ thread'[t].count = thread[t].count
  BY DEF CloseReadFcr, Base, ThreadInv, CallState
<1>3. thread[t].pc \in Locked \ Writing
  BY <1>1 DEF Locked, Writing
<1>4. \A u \in Threads : thread[u].pc \notin Writing
  BY <1>1, <1>3, AloneWriting
<1>5. RegisterInv'
  BY <1>1, <1>2, <1>4, StartWriting DEF KeptInv, Writing
<1>6. \A S \in Classes : thread'[t].pc \in S <=> thread[t].pc \in S
  BY <1>1 DEF Classes, Past, Marking, Counting, Unmarking
<1> QED BY <1>1, <1>2, <1>5, <1>6, PlainStep

LEMMA CloseWriteKept ==
  ASSUME Base, KeptInv, NEW t \in Threads, CloseWrite(t)
  PROVE  KeptInv'
<1>0. PICK p : p = thread[t].p
  OBVIOUS
<1>1. /\ Others(t) /\ thread[t].pc = "unmark_write" /\ thread'[t].pc = "idle"
      /\ thread[t].orig \in Fcr /\ p \in Ports
  BY <1>0, CloseWriteBase DEF IdleThread
<1>2. /\ fcr' = [thread[t].orig EXCEPT !.sync = @ \ {p}] /\ cleared' = cleared \ {p}
      /\ UNCHANGED <<open_counter, handles, given>>
  BY <1>0 DEF CloseWrite
<1>3. RegisterInv /\ CountInv(p) /\ MarkInv(p)
  BY <1>1 DEF KeptInv
<1>4. thread[t].orig = fcr /\ fcr.pins = given.pins /\ fcr.async = given.async
  BY <1>1, <1>3, WriterReads DEF Writing
<1>5. fcr'.sync = fcr.sync \ {p} /\ fcr'.async = fcr.async /\ fcr'.pins = fcr.pins
  BY <1>1, <1>2, <1>4, FcrValues
<1>6. RegisterInv'
  BY <1>1, <1>2, <1>3, <1>4, <1>5, EndWriting DEF Writing
<1>7. ASSUME NEW q \in Ports \ {p} PROVE CountInv(q)' /\ MarkInv(q)'
  BY <1>0, <1>1, <1>2, <1>5, <1>7, OtherPorts
<1>8. ~OthersIn(t, Counting, p)
  BY <1>0, <1>1, <1>3, OneCounting DEF Counting, Unmarking
<1>9. ~OthersIn(t, {"uncount"}, p) /\ ~OthersIn(t, Unmarking, p)
  BY <1>8, InMonotone DEF Counting
<1>10. /\ In(Past, p)' <=> In(Past, p)
       /\ In(Marking, p)' <=> In(Marking, p)
       /\ In(Unmarking, p) /\ ~In(Unmarking, p)'
       /\ ~In({"uncount"}, p) /\ ~In({"uncount"}, p)'
  BY <1>0, <1>1, <1>9, InSplit DEF Past, Marking, Unmarking
<1>11. open_counter[p] = 0 /\ Uncounted(p)' = Uncounted(p) /\ ~In(Marking, p)
  BY <1>3, <1>10 DEF CountInv, Uncounted
<1>12. open_counter'[p] = handles'[p] + Uncounted(p)' /\ ~In(Marking, p)'
  BY <1>2, <1>3, <1>10, <1>11 DEF CountInv
<1>13. CountInv(p)'
  BY <1>1, <1>3, <1>8, <1>10, <1>12, OwnCount
<1>14. ~Due(p)'
  BY <1>2, <1>10, <1>11 DEF Due
<1>15. MarkInv(p)'
  BY <1>2, <1>5, <1>14 DEF MarkInv
<1> QED BY <1>6, <1>7, <1>13, <1>15 DEF KeptInv

LEMMA ClockLockKept ==
  ASSUME Base, KeptInv, NEW t \in Threads, NEW p \in Ports, ClockLock(t, p), ~crossed'
  PROVE  KeptInv'
<1>1. /\ Others(t) /\ thread[t].pc = "idle" /\ thread'[t].pc = "clock_drive"
      /\ thread'[t].p = p /\ thread'[t].orig = fcr /\ Free(p) /\ UNCHANGED <<cleared, given>>
      /\ ~CrossesPorts(p)
  BY ClockLockBase
<1>2. UNCHANGED <<fcr, open_counter, handles>>
  BY DEF ClockLock
<1>3. \A u \in Threads : thread[u].pc \notin Writing
  BY <1>1, NoneWriting
<1>4. RegisterInv'
  BY <1>1, <1>2, <1>3, StartWriting DEF KeptInv, Writing
<1>5. \A S \in Classes : thread'[t].pc \in S <=> thread[t].pc \in S
  BY <1>1 DEF Classes, Past, Marking, Counting, Unmarking
<1> QED BY <1>1, <1>2, <1>4, <1>5, PlainStep

LEMMA ClockDriveKept ==
  ASSUME Base, KeptInv, NEW t \in Threads, ClockDrive(t)
  PROVE  KeptInv'
<1>1. /\ Others(t) /\ thread[t].pc = "clock_drive" /\ thread'[t].pc = "clock_restore"
      /\ thread'[t].p = thread[t].p /\ thread'[t].orig = thread[t].orig
      /\ thread[t].orig \in Fcr /\ thread[t].p \in Ports
  BY ClockDriveBase
<1>2. /\ fcr' = [thread[t].orig EXCEPT !.pins = {thread[t].p}]
      /\ UNCHANGED <<open_counter, handles, cleared, given>>
      /\ thread'[t].count = thread[t].count
  BY DEF ClockDrive, Step, Base, ThreadInv, CallState, history
<1>3. RegisterInv
  BY DEF KeptInv
<1>4. thread[t].orig = fcr /\ fcr.pins = given.pins /\ fcr.async = given.async
  BY <1>1, <1>3, WriterReads DEF Writing
<1>5. /\ fcr'.sync = fcr.sync /\ fcr'.async = fcr.async
      /\ [fcr' EXCEPT !.pins = given.pins] = fcr
  <2>1. fcr \in Fcr /\ fcr' = [fcr EXCEPT !.pins = {thread[t].p}] /\ {thread[t].p} \in SUBSET Ports
    BY <1>1, <1>2, <1>4
  <2>2. fcr'.sync = fcr.sync /\ fcr'.async = fcr.async
    BY <2>1 DEF Fcr
  <2>3. [fcr' EXCEPT !.pins = fcr.pins] = fcr
    BY <2>1 DEF Fcr
  <2> QED BY <1>4, <2>2, <2>3
<1>6. \A u \in Threads : u # t => thread'[u].pc \notin Writing
  BY <1>1, <1>3 DEF Others, RegisterInv, Writing
<1>7. RegisterInv'
  <2>1. \A u \in Threads : thread'[u].pc \in Writing => u = t
    BY <1>6
  <2>2. \A u \in Threads : thread'[u].pc = "clock_restore" => u = t
    BY <1>6 DEF Writing
  <2>3. ~(\A u \in Threads : thread'[u].pc # "clock_restore")
    BY <1>1
  <2> QED BY <1>1, <1>2, <1>4, <1>5, <2>1, <2>2, <2>3 DEF RegisterInv
<1>8. \A S \in Classes : thread'[t].pc \in S <=> thread[t].pc \in S
  BY <1>1 DEF Classes, Past, Marking, Counting, Unmarking
<1> QED BY <1>1, <1>2, <1>5, <1>7, <1>8, PlainStep

LEMMA ClockRestoreKept ==
  ASSUME Base, KeptInv, NEW t \in Threads, ClockRestore(t)
  PROVE  KeptInv'
<1>1. Others(t) /\ thread[t].pc = "clock_restore" /\ thread'[t].pc = "idle"
  BY ClockRestoreBase DEF IdleThread
<1>2. fcr' = thread[t].orig /\ UNCHANGED <<open_counter, handles, cleared, given>>
  BY DEF ClockRestore, history
<1>3. RegisterInv /\ fcr \in Fcr
  BY DEF KeptInv, Base
<1>4. fcr' = [fcr EXCEPT !.pins = given.pins]
  BY <1>1, <1>2, <1>3 DEF RegisterInv
<1>5. fcr'.sync = fcr.sync /\ fcr'.async = fcr.async /\ fcr'.pins = given.pins
  BY <1>3, <1>4 DEF Fcr
<1>6. fcr.async = given.async
  BY <1>3 DEF RegisterInv
<1>7. RegisterInv'
  BY <1>1, <1>2, <1>3, <1>5, <1>6, EndWriting DEF Writing
<1>8. \A S \in Classes : thread'[t].pc \in S <=> thread[t].pc \in S
  BY <1>1 DEF Classes, Past, Marking, Counting, Unmarking
<1> QED BY <1>1, <1>2, <1>5, <1>7, <1>8, PlainStep

LEMMA SetRegistersKept ==
  ASSUME Base, KeptInv, NEW t \in Threads, NEW p \in Ports, NEW async \in SUBSET Ports,
         NEW pins \in SUBSET Ports, SetRegisters(t, p, async, pins), ~crossed'
  PROVE  KeptInv'
<1>1. /\ UNCHANGED <<thread, handles, open_counter>> /\ Free(p)
      /\ fcr' = [sync |-> {}, async |-> async, pins |-> pins]
      /\ given' = [async |-> async, pins |-> pins] /\ cleared' = cleared \cup fcr.sync
      /\ ~CrossesPorts(p)
  BY SetRegistersBase
<1>2. \A u \in Threads : thread[u].pc \notin Writing
  BY <1>1, NoneWriting
<1>3. RegisterInv'
  BY <1>1, <1>2 DEF RegisterInv, Writing
<1>4. Others(t)
  BY <1>1 DEF Others
<1>5. ASSUME NEW q \in Ports PROVE CountInv(q)' /\ MarkInv(q)'
  <2>1. CountInv(q) /\ MarkInv(q)
    BY DEF KeptInv
  <2>2. CountInv(q)' /\ (Due(q)' <=> Due(q))
    BY <1>1, <1>4, <2>1, SameCount
  <2> QED BY <1>1, <2>1, <2>2 DEF MarkInv
<1> QED BY <1>3, <1>5 DEF KeptInv

LEMMA SerialToggleKept ==
  ASSUME Base, KeptInv, NEW p \in Ports, SerialToggle(p), ~crossed'
  PROVE  KeptInv'
<1>1. /\ UNCHANGED <<thread, handles, open_counter, cleared>>
      /\ fcr'.sync = fcr.sync /\ fcr'.pins = fcr.pins /\ given'.pins = given.pins
      /\ fcr.async = given.async => fcr'.async = given'.async
      /\ \A u \in Threads : thread[u].pc \notin Writing
  BY SerialToggleBase
<1>2. RegisterInv'
  BY <1>1 DEF KeptInv, RegisterInv, Writing
<1>3. ASSUME NEW q \in Ports PROVE CountInv(q)' /\ MarkInv(q)'
  <2>1. CountInv(q) /\ MarkInv(q)
    BY DEF KeptInv
  <2>2. \A pcs : In(pcs, q)' <=> In(pcs, q)
    BY <1>1 DEF In
  <2>3. Uncounted(q)' = Uncounted(q) /\ (Due(q)' <=> Due(q))
    BY <1>1, <2>2 DEF Uncounted, Due
  <2>4. CountInv(q)'
    BY <1>1, <2>1, <2>2, <2>3 DEF CountInv
  <2> QED BY <1>1, <2>1, <2>3, <2>4, SameMark
<1> QED BY <1>2, <1>3 DEF KeptInv

-----------------------------------------------------------------------------
SafeInv == Base /\ (~crossed => KeptInv)

LEMMA KeptInit == Init => KeptInv
<1> SUFFICES ASSUME Init PROVE KeptInv
  OBVIOUS
<1>1. \A u \in Threads : thread[u].pc = "idle"
  BY DEF Init, IdleThread
<1>2. RegisterInv
  BY <1>1 DEF Init, RegisterInv, Writing
<1>3. ASSUME NEW q \in Ports PROVE CountInv(q) /\ MarkInv(q)
  <2>1. /\ ~In(Past, q) /\ ~In(Marking, q) /\ ~In(Unmarking, q) /\ ~In({"uncount"}, q)
        /\ \A u \in Threads : thread[u].pc \notin Counting
    BY <1>1 DEF In, Past, Marking, Unmarking, Counting
  <2>2. open_counter[q] = 0 /\ handles[q] = 0 /\ q \notin fcr.sync /\ q \notin cleared
    BY DEF Init
  <2>3. CountInv(q)
    BY <1>1, <2>1, <2>2 DEF CountInv, Uncounted
  <2> QED BY <2>1, <2>2, <2>3 DEF MarkInv, Due
<1> QED BY <1>2, <1>3 DEF KeptInv

\* Calls that have crossed stay crossed.
LEMMA CrossedStays == Base /\ [Next]_vars /\ crossed => crossed'
<1> SUFFICES ASSUME Base, [Next]_vars, crossed PROVE crossed'
  OBVIOUS
<1>1. CASE UNCHANGED vars
  BY <1>1 DEF vars, history
<1>2. ASSUME NEW t \in Threads, CreateStep(t) \/ CloseStep(t) \/ ClockStep(t) PROVE crossed'
  BY <1>2 DEF CreateStep, CloseStep, ClockStep, CreateCount, CreateRead, CreateWrite, CreateDone,
     CloseCount, CloseLock, CloseReadFcr, CloseWrite, ClockDrive, ClockRestore, Crossing, history
<1>3. ASSUME NEW t \in Threads, NEW p \in Ports,
             CreateEnter(t, p) \/ CloseRead(t, p) \/ ClockLock(t, p)
      PROVE  crossed'
  BY <1>3 DEF CreateEnter, CloseRead, ClockLock, Crossing, history
<1>4. ASSUME NEW t \in Threads, NEW p \in Ports, NEW async, NEW pins,
             SetRegisters(t, p, async, pins)
      PROVE  crossed'
  BY <1>4 DEF SetRegisters
<1>5. ASSUME NEW p \in Ports, SerialToggle(p) PROVE crossed'
  BY <1>5 DEF SerialToggle
<1> QED BY <1>1, <1>2, <1>3, <1>4, <1>5 DEF Next

LEMMA KeptNext == Base /\ KeptInv /\ [Next]_vars /\ ~crossed' => KeptInv'
<1> SUFFICES ASSUME Base, KeptInv, [Next]_vars, ~crossed' PROVE KeptInv'
  OBVIOUS
<1>1. CASE UNCHANGED vars
  BY <1>1, KeptUnchanged DEF vars, history
<1>2. ASSUME NEW t \in Threads, CreateStep(t) PROVE KeptInv'
  BY <1>2, CreateCountKept, CreateReadKept, CreateWriteKept, CreateDoneKept DEF CreateStep
<1>3. ASSUME NEW t \in Threads, CloseStep(t) PROVE KeptInv'
  BY <1>3, CloseCountKept, CloseLockKept, CloseReadFcrKept, CloseWriteKept DEF CloseStep
<1>4. ASSUME NEW t \in Threads, ClockStep(t) PROVE KeptInv'
  BY <1>4, ClockDriveKept, ClockRestoreKept DEF ClockStep
<1>5. ASSUME NEW t \in Threads, NEW p \in Ports,
             CreateEnter(t, p) \/ CloseRead(t, p) \/ ClockLock(t, p)
      PROVE  KeptInv'
  BY <1>5, CreateEnterKept, CloseReadKept, ClockLockKept
<1>6. ASSUME NEW t \in Threads, NEW p \in Ports, NEW async \in SUBSET Ports,
             NEW pins \in SUBSET Ports, SetRegisters(t, p, async, pins)
      PROVE  KeptInv'
  BY <1>6, SetRegistersKept
<1> QED BY <1>1, <1>2, <1>3, <1>4, <1>5, <1>6, SerialToggleKept DEF Next

LEMMA SafeInvariance == Spec => []SafeInv
<1>1. Init => SafeInv
  BY BaseInit, KeptInit DEF SafeInv
<1>2. SafeInv /\ [Next]_vars => SafeInv'
  BY BaseNext, CrossedStays, KeptNext DEF SafeInv
<1> QED BY <1>1, <1>2, PTL DEF Spec

\* For every set of ports and threads: types, and the unsigned open_counter goes below
\* zero only once a close has overlapped with another count of its port.
THEOREM FcrTypeSafety == Spec => []TypeOK
<1>1. SafeInv => TypeOK
  <2> SUFFICES ASSUME SafeInv PROVE TypeOK
    OBVIOUS
  <2>1. Base
    BY DEF SafeInv
  <2>2. ~crossed => open_counter \in [Ports -> Nat]
    <3> SUFFICES ASSUME ~crossed PROVE open_counter \in [Ports -> Nat]
      OBVIOUS
    <3>1. ASSUME NEW q \in Ports PROVE open_counter[q] \in Nat
      <4>1. open_counter[q] = handles[q] + Uncounted(q)
        BY DEF SafeInv, KeptInv, CountInv
      <4> QED BY <2>1, <4>1 DEF Base, Uncounted
    <3> QED BY <2>1, <3>1 DEF Base
  <2>3. \A t \in Threads : thread[t] = IdleThread \/ thread[t].p \in Ports
    BY <2>1 DEF Base, ThreadInv
  <2> QED BY <2>1, <2>2, <2>3 DEF Base, HistoryInv, TypeOK
<1> QED BY <1>1, SafeInvariance, PTL

\* For every set of ports and threads, whatever they call and whatever serialfc does:
\* as long as no calls have overlapped that no lock keeps apart, exactly the open ports
\* are marked but for those FSCC_SET_REGISTERS has unmarked, open_counter is the number
\* of handles, and the marks of serialfc and the pins are as they were set last.
THEOREM BitsKeptSafety == Spec => []BitsKept
<1>1. SafeInv => BitsKept
  <2> SUFFICES ASSUME SafeInv, AtRest, ~crossed
               PROVE  /\ fcr = [sync  |-> {p \in Ports : handles[p] > 0} \ cleared,
                                async |-> given.async, pins |-> given.pins]
                      /\ open_counter = handles
    BY DEF BitsKept
  <2>1. Base /\ KeptInv
    BY DEF SafeInv
  <2>2. \A t \in Threads : thread[t].pc = "idle"
    BY DEF AtRest
  <2>3. fcr.async = given.async /\ fcr.pins = given.pins
    BY <2>1, <2>2 DEF KeptInv, RegisterInv
  <2>4. ASSUME NEW q \in Ports
        PROVE  open_counter[q] = handles[q] /\ (q \in fcr.sync <=> handles[q] > 0 /\ q \notin cleared)
    <3>1. ~In(Past, q) /\ ~In(Marking, q) /\ ~In(Unmarking, q) /\ ~In({"uncount"}, q)
      BY <2>2 DEF In, Past, Marking, Unmarking
    <3>2. CountInv(q) /\ MarkInv(q) /\ handles[q] \in Nat
      BY <2>1 DEF KeptInv, Base
    <3>3. Uncounted(q) = 0
      BY <3>1 DEF Uncounted
    <3>4. open_counter[q] = handles[q]
      BY <3>2, <3>3 DEF CountInv
    <3> QED BY <3>1, <3>2, <3>4 DEF MarkInv, Due
  <2>5. open_counter = handles
    BY <2>1, <2>4 DEF Base
  <2>6. fcr.sync = {p \in Ports : handles[p] > 0} \ cleared
    BY <2>1, <2>4 DEF Base, Fcr
  <2> QED BY <2>1, <2>3, <2>5, <2>6 DEF Base, Fcr
<1> QED BY <1>1, SafeInvariance, PTL
=============================================================================
