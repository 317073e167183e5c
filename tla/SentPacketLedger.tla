--------------------------- MODULE SentPacketLedger ---------------------------
(***************************************************************************)
(* The unacked-packet map driven by its caller.  The caller, the sent      *)
(* packet manager and the connection's writer, is not in this repository;  *)
(* its handlers are modelled from spec.md (sections 2, 4.2) and call the   *)
(* map's operations, which are translated from the source in module        *)
(* UnackedPacketMap.  Each action is one handler of the single connection  *)
(* thread, run to completion.                                              *)
(*                                                                         *)
(* The peer and the network are free: any sent packet may be acked, at any *)
(* time and any number of times; a packet may be declared lost and still   *)
(* be acked later; a write may block, leaving a serialized retransmission  *)
(* queued while acks for its original keep arriving.                       *)
(***************************************************************************)
EXTENDS Integers, Sequences, FiniteSets, Functions, TLC

CONSTANTS
  MaxPacket,        \* largest packet number the model sends
  Streams,          \* stream ids with data in flight
  CryptoStream,     \* the crypto stream; a frame on it makes a handshake packet
  PacketSizes,      \* encrypted lengths a packet may have
  MaxBulk,          \* how many times keys/version may change (bulk retransmit)
  CounterModulus,
  LOSS_RETRANSMISSION, ALL_UNACKED_RETRANSMISSION, ALL_INITIAL_RETRANSMISSION

ASSUME CryptoStream \in Streams
ASSUME MaxPacket \in Nat /\ MaxBulk \in Nat

BulkTypes == {ALL_INITIAL_RETRANSMISSION, ALL_UNACKED_RETRANSMISSION}
RetransmissionTypes == {LOSS_RETRANSMISSION} \cup BulkTypes

M == INSTANCE UnackedPacketMap

VARIABLES
  upm,        \* the QuicUnackedPacketMap
  pending,    \* pending_retransmissions_: packet number -> transmission type
  queued,     \* serialized packets waiting for a blocked writer (at most one)
  wire,       \* ghost: packet number -> the data that packet carried
  delivered,  \* ghost: data in some packet the peer acknowledged
  cancelled,  \* streams that were reset
  bulks       \* number of bulk retransmissions so far

vars == <<upm, pending, queued, wire, delivered, cancelled, bulks>>

Data == (1..MaxPacket) \X Streams
FramesOf(pn, streams) == {<<pn, s>> : s \in streams}
HasCrypto(frames) == \E f \in frames : f[2] = CryptoStream
TrackedPackets == {pn \in 1..upm.largest_sent_packet : M!Tracked(upm, pn)}

\* Apply Op to the map for every tracked packet, lowest first.
RECURSIVE ForEachTracked(_, _, _)
ForEachTracked(m, Op(_, _), pn) ==
  IF pn >= m.least_unacked + Len(m.packets) THEN m
  ELSE ForEachTracked(Op(m, pn), Op, pn + 1)

\* GetNewestRetransmission of the caller: the end of the retransmission chain.
RECURSIVE Newest(_, _)
Newest(m, pn) ==
  IF M!Info(m, pn).retransmission = 0 THEN pn
  ELSE Newest(m, M!Info(m, pn).retransmission)

Init ==
  /\ upm = M!InitMap
  /\ pending = << >>
  /\ queued = << >>
  /\ wire = << >>
  /\ delivered = {}
  /\ cancelled = {}
  /\ bulks = 0

-----------------------------------------------------------------------------
(* The caller's handlers.                                                  *)

\* Send a new packet carrying fresh data on `streams` (none: an ack-only
\* packet, which is not in flight).  Packet numbers may skip one.
SendNewPacket(streams, bytes, skip) ==
  LET pn == upm.largest_sent_packet + 1 + skip IN
  /\ queued = << >>
  /\ pn <= MaxPacket
  /\ streams \cap cancelled = {}
  /\ upm' = M!AddSentPacket(upm,
              [pn |-> pn, bytes |-> bytes, crypto |-> CryptoStream \in streams,
               frames |-> FramesOf(pn, streams)],
              0, "NOT_RETRANSMISSION", streams # {})
  /\ wire' = wire @@ (pn :> FramesOf(pn, streams))
  /\ UNCHANGED <<pending, queued, delivered, cancelled, bulks>>

\* Write the retransmission of a pending packet.  The write either goes out
\* now (OnPacketSent: AddSentPacket, then erase the original from the
\* pending set) or blocks, leaving the serialized packet queued.
SendRetransmission(old, bytes, blocks) ==
  LET pn     == upm.largest_sent_packet + 1
      frames == M!Info(upm, old).retransmittable_frames
      pkt    == [pn |-> pn, bytes |-> bytes, crypto |-> HasCrypto(frames),
                 frames |-> frames, old |-> old, type |-> pending[old]]
  IN
  /\ queued = << >>
  /\ old \in DOMAIN pending
  /\ M!HasRetransmittableFrames(upm, old)
  /\ pn <= MaxPacket
  /\ IF blocks
     THEN /\ queued' = << pkt >>
          /\ UNCHANGED <<upm, pending, wire>>
     ELSE /\ upm' = M!AddSentPacket(upm, pkt, old, pkt.type, TRUE)
          /\ pending' = [p \in DOMAIN pending \ {old} |-> pending[p]]
          /\ wire' = wire @@ (pn :> frames)
          /\ UNCHANGED queued
  /\ UNCHANGED <<delivered, cancelled, bulks>>

\* The writer unblocks and the queued packet is written.
WriteQueuedPacket ==
  LET pkt == Head(queued) IN
  /\ queued # << >>
  /\ upm' = M!AddSentPacket(upm, pkt, pkt.old, pkt.type, TRUE)
  /\ pending' = [p \in DOMAIN pending \ {pkt.old} |-> pending[p]]
  /\ wire' = wire @@ (pkt.pn :> pkt.frames)
  /\ queued' = << >>
  /\ UNCHANGED <<delivered, cancelled, bulks>>

\* MarkPacketHandled for an acked packet pn.
MarkPacketHandled(m, pn) ==
  LET newest == Newest(m, pn)
      m1 == IF newest # pn /\ M!Info(m, newest).has_crypto_handshake
            THEN M!RemoveFromInFlight(m, newest) ELSE m
      m2 == M!RemoveRetransmittability(M!RemoveFromInFlight(m1, pn), pn)
  IN M!SetInfo(m2, pn, [M!Info(m2, pn) EXCEPT !.is_unackable = TRUE])

\* An ack frame acknowledging packet pn.
OnAck(pn) ==
  LET m0      == IF pn > upm.largest_observed
                 THEN M!IncreaseLargestObserved(upm, pn) ELSE upm
      handled == M!Tracked(m0, pn) /\ ~M!Info(m0, pn).is_unackable
      newest  == Newest(m0, pn)
  IN
  /\ pn \in DOMAIN wire
  /\ upm' = M!RemoveObsoletePackets(IF handled THEN MarkPacketHandled(m0, pn) ELSE m0)
  /\ pending' = IF handled
                THEN [p \in DOMAIN pending \ {newest} |-> pending[p]]
                ELSE pending
  /\ delivered' = delivered \cup wire[pn]
  /\ UNCHANGED <<queued, wire, cancelled, bulks>>

\* Loss detection declares in-flight packet pn lost (a later packet was
\* acked): out of flight, and queued for retransmission if it has data.
OnLoss(pn) ==
  LET m1 == M!RemoveFromInFlight(upm, pn) IN
  /\ pn \in TrackedPackets
  /\ pn < upm.largest_observed
  /\ M!Info(upm, pn).in_flight
  /\ upm' = M!RemoveObsoletePackets(m1)
  /\ pending' = IF M!HasRetransmittableFrames(upm, pn)
                THEN pending @@ (pn :> LOSS_RETRANSMISSION) ELSE pending
  /\ UNCHANGED <<queued, wire, delivered, cancelled, bulks>>

\* RetransmitUnackedPackets on a key or version change: every packet with
\* data leaves flight and is marked for bulk retransmission.
RetransmitAllUnacked(type) ==
  LET Mark(m, pn) == IF M!HasRetransmittableFrames(m, pn)
                     THEN M!RemoveFromInFlight(m, pn) ELSE m
      marked      == {pn \in TrackedPackets : M!HasRetransmittableFrames(upm, pn)}
  IN
  /\ bulks < MaxBulk
  /\ upm' = ForEachTracked(upm, Mark, upm.least_unacked)
  /\ pending' = [p \in DOMAIN pending \cup marked |->
                   IF p \in marked THEN type ELSE pending[p]]
  /\ bulks' = bulks + 1
  /\ UNCHANGED <<queued, wire, delivered, cancelled>>

\* A stream is reset: its data is no longer retransmitted, and pending
\* retransmissions left without data are dropped.
CancelStream(s) ==
  LET m1 == M!CancelRetransmissionsForStream(upm, s) IN
  /\ s \notin cancelled \cup {CryptoStream}
  /\ upm' = m1
  /\ pending' = [p \in {q \in DOMAIN pending : M!HasRetransmittableFrames(m1, q)}
                   |-> pending[p]]
  /\ cancelled' = cancelled \cup {s}
  /\ UNCHANGED <<queued, wire, delivered, bulks>>

Next ==
  \/ \E streams \in SUBSET Streams, b \in PacketSizes, skip \in 0..1 :
        SendNewPacket(streams, b, skip)
  \/ \E old \in DOMAIN pending, b \in PacketSizes, blocks \in BOOLEAN :
        SendRetransmission(old, b, blocks)
  \/ WriteQueuedPacket
  \/ \E pn \in DOMAIN wire : OnAck(pn)
  \/ \E pn \in TrackedPackets : OnLoss(pn)
  \/ RetransmitAllUnacked(ALL_UNACKED_RETRANSMISSION)
  \/ \E s \in Streams : CancelStream(s)

Spec == Init /\ [][Next]_vars

-----------------------------------------------------------------------------
(* Properties.                                                             *)

Info0 == [bytes_sent: PacketSizes \cup {0}, in_flight: BOOLEAN,
          is_unackable: BOOLEAN, has_crypto_handshake: BOOLEAN,
          retransmittable_frames: SUBSET Data, retransmission: 0..MaxPacket]

TypeOK ==
  /\ upm.least_unacked \in 1..(MaxPacket + 1)
  /\ upm.packets \in Seq(Info0)
  /\ upm.least_unacked + Len(upm.packets) = upm.largest_sent_packet + 1
  /\ upm.largest_observed \in 0..MaxPacket
  /\ upm.bytes_in_flight \in 0..(CounterModulus - 1)
  /\ upm.pending_crypto_packet_count \in 0..(CounterModulus - 1)
  /\ DOMAIN pending \subseteq 1..MaxPacket
  /\ \A p \in DOMAIN pending : pending[p] \in RetransmissionTypes
  /\ Len(queued) <= 1
  /\ DOMAIN wire \subseteq 1..MaxPacket
  /\ delivered \subseteq Data
  /\ cancelled \subseteq Streams \ {CryptoStream}

\* bytes_in_flight_ equals the bytes of the tracked packets still in flight:
\* every AddSentPacket that counts a packet, every RemoveFromInFlight from
\* loss, ack, bulk retransmission or the crypto shortcut of the ack
\* handler, and every pruning keep the counter and the flags in step.
BytesInFlightConserved ==
  upm.bytes_in_flight =
    M!Wrap(SumFunction([i \in DOMAIN upm.packets |->
             IF upm.packets[i].in_flight THEN upm.packets[i].bytes_sent ELSE 0]))

\* No data is forgotten: data that was ever sent, was never in a packet the
\* peer acknowledged and whose stream was not reset is still owned by some
\* tracked entry, whatever transfers, bulk retransmissions, early returns
\* of TransferRetransmissionInfo and prunings happened in between.
DataNeverForgotten ==
  \A pn \in DOMAIN wire : \A d \in wire[pn] :
    \/ d \in delivered
    \/ d[2] \in cancelled
    \/ \E i \in DOMAIN upm.packets : d \in upm.packets[i].retransmittable_frames

\* A frame is owned by one entry at a time: TransferRetransmissionInfo moves
\* the frames to the new copy instead of sharing them.
FramesOwnedOnce ==
  \A i, j \in DOMAIN upm.packets :
    i # j => upm.packets[i].retransmittable_frames
               \cap upm.packets[j].retransmittable_frames = {}

\* pending_crypto_packet_count_ counts the tracked entries that carry
\* handshake data, so HasPendingCryptoPackets() is true exactly while one
\* is outstanding.
CryptoCountExact ==
  upm.pending_crypto_packet_count =
    Cardinality({i \in DOMAIN upm.packets : upm.packets[i].has_crypto_handshake})

=============================================================================
