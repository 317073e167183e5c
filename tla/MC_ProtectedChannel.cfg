\* Both nonce modes, two IVs, two diversification nonces, four packet
\* numbers chosen at byte boundaries.  Once every packet number is used and
\* every packet received, the server has nothing left to send: not a deadlock.
CONSTANTS
  k1 = k1
  d1 = d1
  d2 = d2
  NonceSize = 12
  KdfPrefix <- MCKdfPrefix
  Keys <- MCKeys
  IVs <- MCIVs
  DivNonces <- MCDivNonces
  PacketNumbers <- MCPacketNumbers
  Versions <- MCVersions
SPECIFICATION Spec
INVARIANTS TypeOK NonceMatchesReference NoncesUnique NoAuthenticPacketRefused
CHECK_DEADLOCK FALSE
