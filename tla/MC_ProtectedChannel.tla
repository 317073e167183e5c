------------------------- MODULE MC_ProtectedChannel --------------------------
EXTENDS ProtectedChannel

CONSTANTS k1, d1, d2

MCKeys == {k1}
MCDivNonces == {d1, d2}

\* Two IVs: one with distinct bytes, one of all 0xff (every XOR flips).
MCIVs == {<<1, 2, 3, 4, 5, 6, 7, 8, 9, 10, 11, 12>>, [j \in 1..12 |-> 255]}

\* The largest one-byte number, the first two-byte one, and one above 2^16
\* whose wire-truncated two bytes equal 1.
MCPacketNumbers == {1, 255, 256, 65537}

\* A version up to QUIC_VERSION_35, whose null hash has no role label, and
\* one after it.
MCVersions == {35, 39}

\* A stand-in for HKDF's derived prefix: a different function of the
\* prefix for each salt.
MCKdfPrefix(key, prefix, nonce) ==
  [j \in 1..Len(prefix) |-> (prefix[j] + IF nonce = d1 THEN 17 ELSE 91) % 256]
=============================================================================
