------------------------- MODULE ControlFrameDelivery -------------------------
(***************************************************************************)
(* What QuicControlFrameManager promises its session (spec.md 4.3), with   *)
(* no storage layout: control frames get ids in order, each is outstanding *)
(* until its first ack, and only an outstanding frame can wait for         *)
(* retransmission.  A loss marks it pending, a re-send or the ack clears   *)
(* the mark.  ControlFrameLedger is shown to implement this specification. *)
(***************************************************************************)
EXTENDS Naturals

VARIABLES
  next_id,      \* the id the next new frame gets
  outstanding,  \* ids saved and not yet acked
  pending       \* ids waiting for retransmission

vars == <<next_id, outstanding, pending>>

Init ==
  /\ next_id = 1
  /\ outstanding = {}
  /\ pending = {}

\* A new frame is saved under the next id.
Save ==
  /\ next_id' = next_id + 1
  /\ outstanding' = outstanding \cup {next_id}
  /\ UNCHANGED pending

\* A copy of an outstanding frame was lost.
Lose(id) ==
  /\ id \in outstanding
  /\ pending' = pending \cup {id}
  /\ UNCHANGED <<next_id, outstanding>>

\* A pending frame was re-sent.
Resend(id) ==
  /\ id \in pending
  /\ pending' = pending \ {id}
  /\ UNCHANGED <<next_id, outstanding>>

\* The first ack of a frame: it is no longer outstanding nor pending.
Ack(id) ==
  /\ id \in outstanding
  /\ outstanding' = outstanding \ {id}
  /\ pending' = pending \ {id}
  /\ UNCHANGED next_id

Next ==
  \/ Save
  \/ \E id \in outstanding : Lose(id) \/ Ack(id)
  \/ \E id \in pending : Resend(id)

Spec == Init /\ [][Next]_vars

=============================================================================
