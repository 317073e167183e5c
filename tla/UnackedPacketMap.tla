--------------------------- MODULE UnackedPacketMap ---------------------------
(***************************************************************************)
(* QuicUnackedPacketMap (src/quic/net/quic/core/quic_unacked_packet_map.cc) *)
(* as operators on one record, the map's state.  Every public method that  *)
(* changes state is an operator from a map to a map, so that a caller's    *)
(* handler, which calls several of them in a row on one thread, is their   *)
(* composition.                                                            *)
(*                                                                         *)
(* A frame is abstracted to the data it carries: <<origin, stream>>, the   *)
(* packet number of the data's first transmission and its stream id.      *)
(* Sent times, encryption levels, packet-number lengths, padding and the   *)
(* piggybacked largest_acked are left out: no branch of this file reads    *)
(* them.                                                                   *)
(***************************************************************************)
EXTENDS Integers, Sequences

CONSTANTS
  CounterModulus,   \* 2^64: QuicByteCount and size_t counters wrap modulo it
  BulkTypes         \* {ALL_INITIAL_RETRANSMISSION, ALL_UNACKED_RETRANSMISSION}

ASSUME CounterModulus \in Nat \ {0}

\* Unsigned arithmetic of bytes_in_flight_ and pending_crypto_packet_count_.
Wrap(x) == x % CounterModulus

\* QuicTransmissionInfo as built by AddSentPacket's constructor call.
NewTransmissionInfo(bytes, crypto) ==
  [bytes_sent             |-> bytes,
   in_flight              |-> FALSE,
   is_unackable           |-> FALSE,
   has_crypto_handshake   |-> crypto,
   retransmittable_frames |-> {},
   retransmission         |-> 0]

\* The default QuicTransmissionInfo() pushed to fill a gap, made unackable.
GapInfo == [NewTransmissionInfo(0, FALSE) EXCEPT !.is_unackable = TRUE]

\* The constructor: nothing sent, least_unacked_ = 1.
InitMap ==
  [least_unacked               |-> 1,
   packets                     |-> << >>,
   largest_sent_packet         |-> 0,
   largest_observed            |-> 0,
   bytes_in_flight             |-> 0,
   pending_crypto_packet_count |-> 0]

\* unacked_packets_[packet_number - least_unacked_]
Info(m, pn) == m.packets[pn - m.least_unacked + 1]
SetInfo(m, pn, info) == [m EXCEPT !.packets[pn - m.least_unacked + 1] = info]
Tracked(m, pn) == pn >= m.least_unacked /\ pn < m.least_unacked + Len(m.packets)

-----------------------------------------------------------------------------
(* The usefulness predicates.                                              *)

IsPacketUsefulForMeasuringRtt(m, pn, info) ==
  ~info.is_unackable /\ pn > m.largest_observed

IsPacketUsefulForCongestionControl(info) == info.in_flight

\* Mutant: forgets that a packet still owning frames is useful.
IsPacketUsefulForRetransmittableDataLinkOnly(m, info) ==
  info.retransmission > m.largest_observed

IsPacketUsefulForRetransmittableData(m, info) ==
  \/ info.retransmittable_frames # {}
  \/ info.retransmission > m.largest_observed

IsPacketUseless(m, pn, info) ==
  /\ ~IsPacketUsefulForMeasuringRtt(m, pn, info)
  /\ ~IsPacketUsefulForCongestionControl(info)
  /\ ~IsPacketUsefulForRetransmittableData(m, info)

IsUnacked(m, pn) == Tracked(m, pn) /\ ~IsPacketUseless(m, pn, Info(m, pn))

HasRetransmittableFrames(m, pn) == Info(m, pn).retransmittable_frames # {}

-----------------------------------------------------------------------------
(* The operations.                                                         *)

\* Pop useless entries off the front, raising least_unacked_.
RECURSIVE RemoveObsoletePackets(_)
RemoveObsoletePackets(m) ==
  IF m.packets # << >> /\ IsPacketUseless(m, m.least_unacked, Head(m.packets))
  THEN RemoveObsoletePackets([m EXCEPT !.packets = Tail(@),
                                       !.least_unacked = @ + 1])
  ELSE m

\* Mutant: copies the frames to the new entry instead of swapping them.
TransferRetransmissionInfoCopying(m, old_pn, new_pn, type, info) ==
  IF old_pn < m.least_unacked \/ old_pn > m.largest_sent_packet
  THEN [map |-> m, info |-> info]
  ELSE LET t == Info(m, old_pn)
       IN [map  |-> RemoveObsoletePackets(SetInfo(m, old_pn,
                      [t EXCEPT !.retransmission = new_pn])),
           info |-> [info EXCEPT !.retransmittable_frames = t.retransmittable_frames,
                                 !.has_crypto_handshake = t.has_crypto_handshake]]

\* Move the frames and the crypto flag of old_pn to the entry being built
\* for new_pn, then link (or, for a bulk type, disown) the old entry and
\* prune.  Returns the new map and the updated new entry.
TransferRetransmissionInfo(m, old_pn, new_pn, type, info) ==
  IF old_pn < m.least_unacked \/ old_pn > m.largest_sent_packet
  THEN [map |-> m, info |-> info]
  ELSE LET t  == Info(m, old_pn)
           t1 == [t EXCEPT !.retransmittable_frames = info.retransmittable_frames,
                           !.has_crypto_handshake = FALSE,
                           !.is_unackable = IF type \in BulkTypes THEN TRUE ELSE @,
                           !.retransmission = IF type \in BulkTypes THEN @ ELSE new_pn]
       IN [map  |-> RemoveObsoletePackets(SetInfo(m, old_pn, t1)),
           info |-> [info EXCEPT !.retransmittable_frames = t.retransmittable_frames,
                                 !.has_crypto_handshake = t.has_crypto_handshake]]

\* Mutant: the gap-filling loop pushes one placeholder too many.
AddSentPacketGapOffByOne(m, pkt, old_pn, type, set_in_flight) ==
  LET gap    == pkt.pn - (m.least_unacked + Len(m.packets)) + 1
      filled == [m EXCEPT !.packets = @ \o [i \in 1..gap |-> GapInfo]]
      tr     == IF old_pn > 0
                THEN TransferRetransmissionInfo(filled, old_pn, pkt.pn, type,
                        NewTransmissionInfo(pkt.bytes, pkt.crypto))
                ELSE [map |-> filled, info |-> NewTransmissionInfo(pkt.bytes, pkt.crypto)]
      info   == [tr.info EXCEPT
                   !.in_flight = set_in_flight,
                   !.retransmittable_frames = IF old_pn = 0 THEN pkt.frames ELSE @]
  IN [tr.map EXCEPT
        !.largest_sent_packet = pkt.pn,
        !.bytes_in_flight = IF set_in_flight THEN Wrap(@ + pkt.bytes) ELSE @,
        !.packets = Append(@, info),
        !.pending_crypto_packet_count =
            IF old_pn = 0 /\ pkt.crypto THEN Wrap(@ + 1) ELSE @]

\* AddSentPacket(packet, old_packet_number, transmission_type, _, set_in_flight)
\* with packet = [pn, bytes, crypto, frames].  The packet's frames are moved
\* into the entry only for an original transmission.
AddSentPacket(m, pkt, old_pn, type, set_in_flight) ==
  LET gap    == pkt.pn - (m.least_unacked + Len(m.packets))
      filled == [m EXCEPT !.packets = @ \o [i \in 1..gap |-> GapInfo]]
      tr     == IF old_pn > 0
                THEN TransferRetransmissionInfo(filled, old_pn, pkt.pn, type,
                        NewTransmissionInfo(pkt.bytes, pkt.crypto))
                ELSE [map |-> filled, info |-> NewTransmissionInfo(pkt.bytes, pkt.crypto)]
      info   == [tr.info EXCEPT
                   !.in_flight = set_in_flight,
                   !.retransmittable_frames = IF old_pn = 0 THEN pkt.frames ELSE @]
  IN [tr.map EXCEPT
        !.largest_sent_packet = pkt.pn,
        !.bytes_in_flight = IF set_in_flight THEN Wrap(@ + pkt.bytes) ELSE @,
        !.packets = Append(@, info),
        !.pending_crypto_packet_count =
            IF old_pn = 0 /\ pkt.crypto THEN Wrap(@ + 1) ELSE @]

\* Follow the retransmission links to the newest copy, clearing each link,
\* then drop that copy's frames and its crypto flag.
RECURSIVE RemoveRetransmittability(_, _)
RemoveRetransmittability(m, pn) ==
  LET info == Info(m, pn) IN
  IF info.retransmission # 0
  THEN RemoveRetransmittability(SetInfo(m, pn, [info EXCEPT !.retransmission = 0]),
                                info.retransmission)
  ELSE [SetInfo(m, pn, [info EXCEPT !.has_crypto_handshake = FALSE,
                                    !.retransmittable_frames = {}])
          EXCEPT !.pending_crypto_packet_count =
                    IF info.has_crypto_handshake THEN Wrap(@ - 1) ELSE @]

IncreaseLargestObserved(m, largest_observed) ==
  [m EXCEPT !.largest_observed = largest_observed]

\* Mutant: subtracts the bytes without testing in_flight.
RemoveFromInFlightUnguarded(m, pn) ==
  [SetInfo(m, pn, [Info(m, pn) EXCEPT !.in_flight = FALSE])
     EXCEPT !.bytes_in_flight = Wrap(@ - Info(m, pn).bytes_sent)]

RemoveFromInFlight(m, pn) ==
  LET info == Info(m, pn) IN
  IF info.in_flight
  THEN [SetInfo(m, pn, [info EXCEPT !.in_flight = FALSE])
          EXCEPT !.bytes_in_flight = Wrap(@ - info.bytes_sent)]
  ELSE m

\* The loop of CancelRetransmissionsForStream from packet pn onward.
RECURSIVE CancelFrom(_, _, _)
CancelFrom(m, stream, pn) ==
  IF pn >= m.least_unacked + Len(m.packets) THEN m
  ELSE LET frames == Info(m, pn).retransmittable_frames
           kept   == {f \in frames : f[2] # stream}
           m1     == SetInfo(m, pn, [Info(m, pn) EXCEPT !.retransmittable_frames = kept])
       IN CancelFrom(IF frames = {} THEN m
                     ELSE IF kept = {} THEN RemoveRetransmittability(m1, pn)
                     ELSE m1,
                     stream, pn + 1)

CancelRetransmissionsForStream(m, stream) == CancelFrom(m, stream, m.least_unacked)

=============================================================================
