--------------------------- MODULE ControlFrameLedger ---------------------------
(***************************************************************************)
(* The connection's use of QuicControlFrameManager (spec.md 4.3 and 2):    *)
(* control frames are sent in packets, each packet carrying a copy is      *)
(* acked or declared lost, a copy declared lost may still be acked later,  *)
(* and a pending retransmission is re-sent and reported sent again.  The   *)
(* caller is not part of this repository, so these handlers follow the    *)
(* spec; the manager's operations come from ControlFrameManager.           *)
(***************************************************************************)
EXTENDS ControlFrameManager, FiniteSets

CONSTANTS
  MaxId,           \* control frame ids 1..MaxId are created
  MaxLosses,       \* the network loses a given frame's copies at most this often
  InOrderSends     \* TRUE: frames are first sent in id order

ASSUME MaxId \in Nat \ {0} /\ MaxLosses \in Nat /\ InOrderSends \in BOOLEAN

Ids == 1..MaxId

VARIABLES
  sent,      \* ids whose first copy has been sent
  inflight,  \* inflight[id]: copies in flight, not yet acked or declared lost
  late,      \* late[id]: copies declared lost that may still arrive
  losses,    \* losses[id]: copies of id declared lost so far
  acked      \* ids the peer has acknowledged (ghost)

envVars == <<sent, inflight, late, losses, acked>>
vars == <<managerVars, envVars>>

Init ==
  /\ ManagerInit
  /\ sent = {}
  /\ inflight = [id \in Ids |-> 0]
  /\ late = [id \in Ids |-> 0]
  /\ losses = [id \in Ids |-> 0]
  /\ acked = {}

-----------------------------------------------------------------------------

\* The session writes a new control frame; the connection reports it sent.
SendNewControlFrame(id) ==
  /\ ~aborted
  /\ id \notin sent
  /\ InOrderSends => id = Cardinality(sent) + 1
  /\ OnControlFrameSent(id)
  /\ sent' = sent \cup {id}
  /\ inflight' = [inflight EXCEPT ![id] = @ + 1]
  /\ UNCHANGED <<late, losses, acked>>

\* The session re-sends NextPendingRetransmission(), a copy bearing its
\* stored id; the order the container yields ids in is left open.  A frame
\* has at most 1 + MaxLosses copies out, one per loss; the bound only binds
\* a manager that re-sends a frame that was not lost.
RetransmitPending(id) ==
  /\ ~aborted
  /\ id \in pending_retransmissions
  /\ inflight[id] + late[id] <= MaxLosses
  /\ IF InRange(id)
     THEN LET fid == StoredId(id) IN
          /\ IF fid = kInvalidControlFrameId
             THEN UNCHANGED managerVars
             ELSE OnControlFrameSent(fid)
          /\ inflight' = [inflight EXCEPT ![id] = @ + 1]
     ELSE Abort /\ UNCHANGED inflight
  /\ UNCHANGED <<sent, late, losses, acked>>

\* Loss detection declares the packet carrying a copy of id lost.
DeclareLost(id) ==
  /\ ~aborted
  /\ inflight[id] > 0
  /\ losses[id] < MaxLosses
  /\ OnControlFrameLost(id)
  /\ inflight' = [inflight EXCEPT ![id] = @ - 1]
  /\ late' = [late EXCEPT ![id] = @ + 1]
  /\ losses' = [losses EXCEPT ![id] = @ + 1]
  /\ UNCHANGED <<sent, acked>>

\* An ack arrives for a packet carrying a copy still in flight ...
AckInFlight(id) ==
  /\ ~aborted
  /\ inflight[id] > 0
  /\ OnControlFrameAcked(id)
  /\ inflight' = [inflight EXCEPT ![id] = @ - 1]
  /\ acked' = acked \cup {id}
  /\ UNCHANGED <<sent, late, losses>>

\* ... or for one already declared lost.
AckLate(id) ==
  /\ ~aborted
  /\ late[id] > 0
  /\ OnControlFrameAcked(id)
  /\ late' = [late EXCEPT ![id] = @ - 1]
  /\ acked' = acked \cup {id}
  /\ UNCHANGED <<sent, inflight, losses>>

Next ==
  \E id \in Ids :
    \/ SendNewControlFrame(id)
    \/ RetransmitPending(id)
    \/ DeclareLost(id)
    \/ AckInFlight(id)
    \/ AckLate(id)

\* The session re-sends pending frames while it can write, and a copy left
\* in flight is eventually acked (losses of one frame are bounded).
Fairness ==
  \A id \in Ids : WF_vars(RetransmitPending(id)) /\ WF_vars(AckInFlight(id))

Spec == Init /\ [][Next]_vars /\ Fairness

-----------------------------------------------------------------------------

TypeOK ==
  /\ least_unacked \in 1..MaxId + 1
  /\ control_frames \in Seq({kInvalidControlFrameId} \cup Ids)
  /\ \A i \in 1..Len(control_frames) :
       control_frames[i] \in {kInvalidControlFrameId, least_unacked + i - 1}
  /\ pending_retransmissions \subseteq Ids
  /\ aborted \in BOOLEAN
  /\ sent \subseteq Ids /\ acked \subseteq sent
  /\ inflight \in [Ids -> Nat] /\ late \in [Ids -> Nat]
  /\ losses \in [Ids -> 0..MaxLosses]

\* The refinement mapping: the ids tracked and not marked acked are the
\* outstanding frames, pending_retransmissions_ the pending ones, and
\* least_unacked_ + control_frames_.size() the next id.
Delivery == INSTANCE ControlFrameDelivery WITH
  next_id     <- TrackedEnd,
  outstanding <- {id \in least_unacked..(TrackedEnd - 1) : StoredId(id) # kInvalidControlFrameId},
  pending     <- pending_retransmissions

\* The manager implements ControlFrameDelivery: every step of the session,
\* the network and the manager saves the next id, marks an outstanding
\* frame pending, clears a pending mark, acks exactly one outstanding frame
\* or changes nothing the session can see.  So the trimming of acked
\* copies off the front never drops an unacked one, a late ack of a copy
\* declared lost clears its pending retransmission, and no acked or unsaved
\* id is ever handed back for retransmission.
ImplementsControlFrameDelivery == Delivery!Spec

\* No control frame is forgotten: until the peer acks it, its copy is still
\* stored and either a copy is in flight or it waits for retransmission.
NoFrameForgotten ==
  \A id \in sent \ acked :
    /\ IsControlFrameOutstanding(id)
    /\ inflight[id] > 0 \/ id \in pending_retransmissions

\* OnControlFrameLost never reads control_frames_.at() out of range.
NeverAborted == ~aborted

\* Every control frame sent is eventually acked and pruned from the front.
EveryFrameAcked ==
  \A id \in Ids : id \in sent ~> (id \in acked /\ id < least_unacked)

=============================================================================
