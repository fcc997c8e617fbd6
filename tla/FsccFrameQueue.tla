--------------------------- MODULE FsccFrameQueue ---------------------------
(***************************************************************************)
(* What the receiver of a port promises its user: a queue of whole frames. *)
(* A frame is accepted when the line completes it, it is delivered to a    *)
(* read once and in order, or it is discarded with all the others by a     *)
(* purge.                                                                  *)
(***************************************************************************)
EXTENDS Naturals, Sequences

CONSTANT Frame      \* the frames that can be accepted

VARIABLES
  queue,            \* accepted, neither delivered nor discarded
  out               \* delivered

Init == queue = << >> /\ out = << >>

Accept  == \E f \in Frame : queue' = Append(queue, f) /\ out' = out
Deliver == queue # << >> /\ out' = Append(out, Head(queue)) /\ queue' = Tail(queue)
Discard == queue' = << >> /\ out' = out

Next == Accept \/ Deliver \/ Discard

\* The promise.
Ordered == Init /\ [][Next]_<<queue, out>>
=============================================================================
