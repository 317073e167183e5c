-------------------------- MODULE ControlFrameManager --------------------------
(***************************************************************************)
(* QuicControlFrameManager                                                 *)
(* (src/quic/net/quic/core/quic_control_frame_manager.cc).                 *)
(*                                                                         *)
(* A saved control frame is abstracted to the control frame id stored in   *)
(* its copy; 0 is kInvalidControlFrameId, the mark of an acked copy.  The  *)
(* five saved kinds (RST_STREAM, GOAWAY, WINDOW_UPDATE, BLOCKED, PING)     *)
(* take the same branch, so the kind is left out.  A throw of              *)
(* control_frames_.at() (std::out_of_range, fatal in a build without       *)
(* exceptions) sets `aborted`, after which nothing runs.                   *)
(***************************************************************************)
EXTENDS Integers, Sequences, FiniteSets

VARIABLES
  least_unacked,            \* least_unacked_
  control_frames,           \* control_frames_: the saved ids, 0 once acked
  pending_retransmissions,  \* pending_retransmissions_, as a set of ids
  aborted                   \* an at() out of range was hit

managerVars == <<least_unacked, control_frames, pending_retransmissions, aborted>>

kInvalidControlFrameId == 0

\* least_unacked_ + control_frames_.size(): one past the tracked ids.
TrackedEnd == least_unacked + Len(control_frames)

\* control_frames_.at(id - least_unacked_), for id in range.
StoredId(id) == control_frames[id - least_unacked + 1]

InRange(id) == id >= least_unacked /\ id < TrackedEnd

ManagerInit ==
  /\ least_unacked = 1
  /\ control_frames = << >>
  /\ pending_retransmissions = {}
  /\ aborted = FALSE

\* at() with an index outside control_frames_ throws.
Abort ==
  /\ aborted' = TRUE
  /\ UNCHANGED <<least_unacked, control_frames, pending_retransmissions>>

-----------------------------------------------------------------------------

\* A new id is saved; a pending id is being retransmitted, so it is no
\* longer pending; any other id is a copy the manager ignores.
OnControlFrameSent(id) ==
  /\ IF id = TrackedEnd
     THEN /\ control_frames' = Append(control_frames, id)
          /\ UNCHANGED pending_retransmissions
     ELSE /\ pending_retransmissions' = pending_retransmissions \ {id}
          /\ UNCHANGED control_frames
  /\ UNCHANGED <<least_unacked, aborted>>

\* The number of acked copies at the front of a sequence of stored ids.
AckedPrefix(cf) ==
  CHOOSE k \in 0..Len(cf) :
    /\ \A i \in 1..k : cf[i] = kInvalidControlFrameId
    /\ k = Len(cf) \/ cf[k + 1] # kInvalidControlFrameId

\* Mutants of OnControlFrameAcked: the erase from pending_retransmissions_
\* is dropped; ++least_unacked_ is dropped; ++least_unacked_ runs once per
\* ack, outside the loop, instead of once per popped frame.
AckedUpdate(id, erase, Step(_)) ==
  IF id < least_unacked \/ id >= TrackedEnd
  THEN UNCHANGED managerVars
  ELSE LET cf == [control_frames EXCEPT ![id - least_unacked + 1] = kInvalidControlFrameId]
           k  == AckedPrefix(cf)
       IN /\ control_frames' = SubSeq(cf, k + 1, Len(cf))
          /\ least_unacked' = least_unacked + Step(k)
          /\ pending_retransmissions' = IF erase THEN pending_retransmissions \ {id}
                                                 ELSE pending_retransmissions
          /\ UNCHANGED aborted
OnControlFrameAckedKeepsPending(id) == AckedUpdate(id, FALSE, LAMBDA k : k)
OnControlFrameAckedNoIncrement(id) == AckedUpdate(id, TRUE, LAMBDA k : 0)
OnControlFrameAckedIncrementOnce(id) == AckedUpdate(id, TRUE, LAMBDA k : 1)

\* Mutant of OnControlFrameLost: `id <= least_unacked_` taken as already acked.
OnControlFrameLostOffByOne(id) ==
  CASE id <= least_unacked -> UNCHANGED managerVars
    [] id >= TrackedEnd -> Abort
    [] StoredId(id) = kInvalidControlFrameId -> UNCHANGED managerVars
    [] OTHER -> /\ pending_retransmissions' = pending_retransmissions \cup {id}
                /\ UNCHANGED <<least_unacked, control_frames, aborted>>

\* Mark the copy acked, forget its retransmission, and pop every acked copy
\* off the front.
OnControlFrameAcked(id) ==
  IF id < least_unacked \/ id >= TrackedEnd
  THEN UNCHANGED managerVars
  ELSE LET cf == [control_frames EXCEPT ![id - least_unacked + 1] = kInvalidControlFrameId]
           k  == AckedPrefix(cf)
       IN /\ control_frames' = SubSeq(cf, k + 1, Len(cf))
          /\ least_unacked' = least_unacked + k
          /\ pending_retransmissions' = pending_retransmissions \ {id}
          /\ UNCHANGED aborted

\* The already-acked test reads control_frames_.at() before the test of the
\* upper bound, so a lost id at or beyond TrackedEnd throws.
OnControlFrameLost(id) ==
  CASE id < least_unacked -> UNCHANGED managerVars
    [] id >= TrackedEnd -> Abort
    [] StoredId(id) = kInvalidControlFrameId -> UNCHANGED managerVars
    [] OTHER -> /\ pending_retransmissions' = pending_retransmissions \cup {id}
                /\ UNCHANGED <<least_unacked, control_frames, aborted>>

IsControlFrameOutstanding(id) ==
  /\ id # kInvalidControlFrameId
  /\ InRange(id)
  /\ StoredId(id) # kInvalidControlFrameId

HasPendingRetransmission == pending_retransmissions # {}

=============================================================================
