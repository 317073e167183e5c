------------------------- MODULE MC_RawServerReadLoop -------------------------
(* Datagrams for model checking RawServerReadLoop: a plain packet, a CHLO, *)
(* an empty UDP datagram, and a socket error (ERR_FAILED).                 *)
EXTENDS RawServerReadLoop

ERR_FAILED == -2

DataPacket == [len |-> 1350, chlo |-> FALSE]
ChloPacket == [len |-> 1350, chlo |-> TRUE]
EmptyDatagram == [len |-> 0, chlo |-> FALSE]
SocketError == [len |-> ERR_FAILED, chlo |-> FALSE]

\* Packets and every kind of read failure, without CHLO buffering.
FaultDatagrams == {DataPacket, EmptyDatagram, SocketError}
\* Packets and CHLOs on a healthy socket.
ChloDatagrams == {DataPacket, ChloPacket}
\* Everything at once.
AllDatagrams == {DataPacket, ChloPacket, EmptyDatagram, SocketError}
=============================================================================
