------------------------- MODULE MC_SentPacketLedger -------------------------
EXTENDS SentPacketLedger

CONSTANTS c, s

MCStreams == {c, s}

=============================================================================
