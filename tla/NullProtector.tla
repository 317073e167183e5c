----------------------------- MODULE NullProtector -----------------------------
(***************************************************************************)
(* NullDecrypter (src/quic/net/quic/core/crypto/null_decrypter.cc) and    *)
(* the NullEncrypter it pairs with (null_encrypter.cc is not in the        *)
(* repository; it follows spec.md 4.1).  QuicRawServerHandshaker installs  *)
(* them at ENCRYPTION_INITIAL and ENCRYPTION_FORWARD_SECURE unless         *)
(* USE_QUIC_ENCRYPTION is defined, and nothing in the repository defines   *)
(* it.  A null "ciphertext" is a 12-byte hash of the associated data and   *)
(* the plaintext, then the plaintext.  The hash (FNV-1a 128, its top 32    *)
(* bits cleared) is ideal: the record of what it covers.                   *)
(***************************************************************************)
EXTENDS Integers

QUIC_VERSION_35 == 35

\* The crypter records: only the perspective is state.
NewNullDecrypter(perspective) == [perspective |-> perspective]
NewNullEncrypter(perspective) == [perspective |-> perspective]

\* NullDecrypter::ComputeHash: after version 35 the hash mixes in the
\* peer's role: a client's decrypter expects "Server", a server's "Client".
ComputeHash(d, version, ad, pt) ==
  [covers |-> <<ad, pt>>,
   label  |-> IF version > QUIC_VERSION_35
              THEN IF d.perspective = "client" THEN "Server" ELSE "Client"
              ELSE "none"]

\* NullEncrypter::EncryptPacket: the hash under the sender's own role,
\* then the plaintext.
NullEncryptPacket(e, version, ad, pt) ==
  [hash |-> [covers |-> <<ad, pt>>,
             label  |-> IF version > QUIC_VERSION_35
                        THEN IF e.perspective = "server" THEN "Server" ELSE "Client"
                        ELSE "none"],
   pt   |-> pt]

\* NullDecrypter::SetDiversificationNonce accepts the nonce and ignores it.
NullSetDiversificationNonce(d, nonce) == [p |-> d, ok |-> TRUE]

\* NullDecrypter::DecryptPacket: ReadHash takes the 12 hash bytes (the
\* null encrypter always writes them), the plaintext fits the output
\* buffer the framer gives, and the hash must match the one recomputed.
NullDecryptPacket(d, version, ad, ct) ==
  ct.hash = ComputeHash(d, version, ad, ct.pt)

=============================================================================
