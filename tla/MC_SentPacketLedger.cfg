CONSTANTS
  c = c
  s = s
  Streams <- MCStreams
  CryptoStream = c
  MaxPacket = 4
  PacketSizes = {1, 2}
  MaxBulk = 1
  CounterModulus = 256
  LOSS_RETRANSMISSION = LOSS_RETRANSMISSION
  ALL_UNACKED_RETRANSMISSION = ALL_UNACKED_RETRANSMISSION
  ALL_INITIAL_RETRANSMISSION = ALL_INITIAL_RETRANSMISSION

SPECIFICATION Spec

INVARIANT TypeOK
INVARIANT BytesInFlightConserved
INVARIANT DataNeverForgotten
INVARIANT FramesOwnedOnce
