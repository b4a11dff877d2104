---------------------------- MODULE FifoChannel ----------------------------
(***************************************************************************)
(* What the frame layer promises the protocol: the receiver's handler is   *)
(* called with exactly the frames the sender queued, in that order, each   *)
(* once, and every queued frame is eventually handled.  The other modules  *)
(* take their channels to be of this kind.                                 *)
(***************************************************************************)
EXTENDS Naturals, Sequences

CONSTANT Frame

VARIABLES accepted,    \* the frames queued so far, in order
          delivered    \* the frames dispatched so far, in order

vars == <<accepted, delivered>>

Init == accepted = <<>> /\ delivered = <<>>

Send(f) == accepted' = Append(accepted, f) /\ UNCHANGED delivered

Deliver ==
  /\ Len(delivered) < Len(accepted)
  /\ delivered' = Append(delivered, accepted[Len(delivered) + 1])
  /\ UNCHANGED accepted

Next == (\E f \in Frame : Send(f)) \/ Deliver

\* Exactly the frames that were queued, each once and in their order.
Safety == Init /\ [][Next]_vars

Spec == Safety /\ WF_vars(Deliver)
=============================================================================
