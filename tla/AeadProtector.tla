----------------------------- MODULE AeadProtector -----------------------------
(***************************************************************************)
(* AeadBaseEncrypter and AeadBaseDecrypter                                 *)
(* (src/quic/net/quic/core/crypto/aead_base_{en,de}crypter.cc) and         *)
(* QuicDecrypter::DiversifyPreliminaryKey (quic_decrypter.cc).             *)
(*                                                                         *)
(* A protector is a record: its nonce-construction mode, its key, the     *)
(* bytes of iv_ and, for a decrypter, have_preliminary_key_.  Nonces are   *)
(* built byte by byte as the code builds them.  The AEAD is ideal: a       *)
(* ciphertext is the record of the key and nonce it was sealed under, and *)
(* opening succeeds exactly when both match.  HKDF is a deterministic      *)
(* function of its inputs: the derived key is the record of them, and the *)
(* derived prefix bytes are given by the operator KdfPrefix.  Keys are    *)
(* always of key_size_ (they come from the key derivation), so the size   *)
(* tests of SetKey never fail and are left out.                           *)
(***************************************************************************)
EXTENDS Integers, Sequences, Bitwise

CONSTANTS
  NonceSize,        \* nonce_size_ (12 for the AES-GCM and ChaCha20 AEADs)
  KdfPrefix(_, _, _)   \* HKDF's server_write_iv for (key, prefix, salt)

PnSize == 8                          \* sizeof(QuicPacketNumber)
PrefixLen == NonceSize - PnSize      \* prefix_len

ASSUME NonceSize \in Nat /\ PrefixLen >= 0

\* x >> b for 0 <= x < 2^31, the packet numbers TLC can represent: shifts
\* of 31 bits or more give 0.
ShiftRight(x, b) == IF b >= 31 THEN 0 ELSE x \div 2^b

\* (x >> (8 * i)) & 0xff
ByteOf(x, i) == ShiftRight(x, 8 * i) % 256

\* The first PrefixLen bytes of iv_.
NoncePrefixOf(iv) == SubSeq(iv, 1, PrefixLen)

\* Mutant: the IETF loop shifts by one byte too many.
IetfNonceShiftOffByOne(iv, pn) ==
  [j \in 1..NonceSize |->
     IF j <= PrefixLen THEN iv[j]
     ELSE iv[j] ^^ ByteOf(pn, PnSize - (j - PrefixLen) + 1)]

\* Mutant: the IETF loop drops the & 0xff mask.
IetfNonceUnmasked(iv, pn) ==
  [j \in 1..NonceSize |->
     IF j <= PrefixLen THEN iv[j]
     ELSE iv[j] ^^ ShiftRight(pn, 8 * (PnSize - (j - PrefixLen)))]

\* IETF mode: byte prefix_len + i ^= (pn >> ((8 - i - 1) * 8)) & 0xff.
IetfNonce(iv, pn) ==
  [j \in 1..NonceSize |->
     IF j <= PrefixLen THEN iv[j]
     ELSE iv[j] ^^ ByteOf(pn, PnSize - (j - PrefixLen))]

\* Mutant: the nonce is built from the packet number as truncated on the
\* wire (PACKET_2BYTE_PACKET_NUMBER) instead of the full one.
NonIetfNonceTruncated(iv, pn) ==
  [j \in 1..NonceSize |->
     IF j <= PrefixLen THEN iv[j] ELSE ByteOf(pn % 65536, j - PrefixLen - 1)]

\* Non-IETF mode: memcpy of the packet number in native (little-endian)
\* byte order after the prefix.
NonIetfNonce(iv, pn) ==
  [j \in 1..NonceSize |->
     IF j <= PrefixLen THEN iv[j] ELSE ByteOf(pn, j - PrefixLen - 1)]

\* The nonce_buffer EncryptPacket and DecryptPacket build.
PacketNonce(p, pn) == IF p.ietf THEN IetfNonce(p.iv, pn) ELSE NonIetfNonce(p.iv, pn)

-----------------------------------------------------------------------------

\* A protector as constructed: no key yet; iv_ is never read before it is
\* set, so its initial bytes are taken as zero.
NewProtector(ietf) ==
  [ietf |-> ietf, key |-> "none", iv |-> [j \in 1..NonceSize |-> 0],
   have_preliminary_key |-> FALSE]

\* QuicEncrypter::Create and QuicDecrypter::Create: the gQUIC AEADs
\* (AES-128-GCM-12, ChaCha20-Poly1305) build non-IETF nonces; any other tag
\* gives nullptr.
Create(algorithm) ==
  IF algorithm \in {"kAESG", "kCC20"} THEN NewProtector(FALSE) ELSE "nullptr"

\* CreateFromCipherSuite: the TLS 1.3 suites' AEADs use IETF nonces.
TlsSuites == {"TLS1_CK_AES_128_GCM_SHA256", "TLS1_CK_AES_256_GCM_SHA384",
              "TLS1_CK_CHACHA20_POLY1305_SHA256"}
CreateFromCipherSuite(suite) ==
  IF suite \in TlsSuites THEN NewProtector(TRUE) ELSE "nullptr"

SetKey(p, key) == [p EXCEPT !.key = key]

\* SetNoncePrefix fails in IETF mode; otherwise it overwrites the first
\* PrefixLen bytes of iv_ and leaves the others.
SetNoncePrefixOk(p) == ~p.ietf
SetNoncePrefix(p, prefix) ==
  IF SetNoncePrefixOk(p)
  THEN [p EXCEPT !.iv = [j \in 1..NonceSize |-> IF j <= PrefixLen THEN prefix[j] ELSE @[j]]]
  ELSE p

\* SetIV fails outside IETF mode.
SetIV(p, iv) == IF p.ietf THEN [p EXCEPT !.iv = iv] ELSE p

\* SetKey's result is ignored; the preliminary flag is set regardless.
SetPreliminaryKey(p, key) ==
  [SetKey(p, key) EXCEPT !.have_preliminary_key = TRUE]

\* HKDF(preliminary_key + nonce_prefix, salt = nonce): the key and prefix.
DiversifyPreliminaryKey(key, prefix, nonce) ==
  [key    |-> [secret |-> <<key, prefix>>, salt |-> nonce],
   prefix |-> KdfPrefix(key, prefix, nonce)]

\* Mutant: the early return is taken when a preliminary key IS pending.
SetDiversificationNonceInverted(p, nonce) ==
  IF p.have_preliminary_key THEN [p |-> p, ok |-> TRUE]
  ELSE LET d  == DiversifyPreliminaryKey(p.key, NoncePrefixOf(p.iv), nonce)
           p1 == SetKey(p, d.key)
       IN IF ~SetNoncePrefixOk(p1) THEN [p |-> p1, ok |-> FALSE]
          ELSE [p |-> [SetNoncePrefix(p1, d.prefix) EXCEPT !.have_preliminary_key = FALSE],
                ok |-> TRUE]

\* Re-key from the preliminary key and prefix.  SetKey runs before
\* SetNoncePrefix, so when the latter fails the key is already replaced and
\* the preliminary flag stays set.
SetDiversificationNonce(p, nonce) ==
  IF ~p.have_preliminary_key THEN [p |-> p, ok |-> TRUE]
  ELSE LET d  == DiversifyPreliminaryKey(p.key, NoncePrefixOf(p.iv), nonce)
           p1 == SetKey(p, d.key)
       IN IF ~SetNoncePrefixOk(p1) THEN [p |-> p1, ok |-> FALSE]
          ELSE [p |-> [SetNoncePrefix(p1, d.prefix) EXCEPT !.have_preliminary_key = FALSE],
                ok |-> TRUE]

\* EncryptPacket: seal under the key with this packet number's nonce.
EncryptPacket(p, pn) == [key |-> p.key, nonce |-> PacketNonce(p, pn)]

\* DecryptPacket succeeds iff no preliminary key is pending and the ideal
\* AEAD opens: same key, same nonce.
DecryptPacket(p, pn, ct) ==
  /\ ~p.have_preliminary_key
  /\ ct.key = p.key
  /\ ct.nonce = PacketNonce(p, pn)

=============================================================================
