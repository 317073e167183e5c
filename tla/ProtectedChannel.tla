---------------------------- MODULE ProtectedChannel ----------------------------
(***************************************************************************)
(* One direction of one encryption level: the server's encrypter and the   *)
(* client's decrypter, set up by the handshake's key derivation, with the  *)
(* server sealing packets and the network delivering them to the client    *)
(* in any order, any number of times.  The key derivation and the framer   *)
(* that calls SetDiversificationNonce are not part of this repository:     *)
(* they follow spec.md 4.1; the protector operations are AeadProtector's.  *)
(*                                                                         *)
(* Two setups are possible.  A gQUIC-crypto cipher (non-IETF nonces): the  *)
(* server encrypts under the key already diversified with its nonce, the  *)
(* client holds the preliminary key until a packet header brings the      *)
(* diversification nonce.  A TLS cipher suite (IETF nonces): both sides    *)
(* install the key and full IV directly.  And the null crypters the      *)
(* server handshaker installs when USE_QUIC_ENCRYPTION is undefined (the  *)
(* repository's build): NullEncrypter at the server, and at the client the *)
(* NullDecrypter a client QuicFramer starts with.  The header nonce is     *)
(* still sent (SetDiversificationNonce on the connection).                 *)
(***************************************************************************)
EXTENDS AeadProtector, NullProtector, SequencesExt

CONSTANTS
  Keys,            \* preliminary / initial keys the handshake can derive
  IVs,             \* nonce material: sequences of NonceSize bytes
  DivNonces,       \* diversification nonces the server can choose
  PacketNumbers,   \* packet numbers the server may use (TLC's integers stop at 2^31)
  Versions         \* QuicTransportVersion numbers the connection may use

NoNonce == "none"

VARIABLES
  setup,      \* "gquic", "tls" or "null"
  version,    \* the connection's transport version
  server,     \* the server's encrypter
  client,     \* the client's decrypter
  div_nonce,  \* the nonce carried in the server's packet headers, or NoNonce
  last_pn,    \* the largest packet number the server has used
  wire,       \* packets sent: [pn, nonce (header), ct]
  accepted,   \* packet numbers the client decrypted
  refused     \* packet numbers of authentic packets the client failed to open

vars == <<setup, version, server, client, div_nonce, last_pn, wire, accepted, refused>>

Setups == {"gquic", "tls", "null"}

\* The handshake's crypter installation for one setup.
Installed(st, k, iv, d) ==
  CASE st = "tls" ->
         LET p == SetIV(SetKey(CreateFromCipherSuite("TLS1_CK_AES_128_GCM_SHA256"), k), iv)
         IN [server |-> p, client |-> p, nonce |-> NoNonce]
    [] st = "gquic" ->
         LET div == DiversifyPreliminaryKey(k, NoncePrefixOf(iv), d) IN
         [server |-> SetNoncePrefix(SetKey(Create("kAESG"), div.key), div.prefix),
          client |-> SetNoncePrefix(SetPreliminaryKey(Create("kAESG"), k),
                                    NoncePrefixOf(iv)),
          nonce  |-> d]
    [] st = "null" ->
         [server |-> NewNullEncrypter("server"), client |-> NewNullDecrypter("client"),
          nonce  |-> d]

Init ==
  \E st \in Setups, k \in Keys, iv \in IVs, d \in DivNonces, v \in Versions :
    LET s == Installed(st, k, iv, d) IN
    /\ setup = st
    /\ version = v
    /\ server = s.server
    /\ client = s.client
    /\ div_nonce = s.nonce
    /\ last_pn = 0
    /\ wire = {}
    /\ accepted = {}
    /\ refused = {}

\* The packet header, which null protection authenticates.
Header(pn, nonce) == <<pn, nonce>>

\* QuicFramer's EncryptPayload with the level's encrypter.
Seal(pn) ==
  IF setup = "null" THEN NullEncryptPacket(server, version, Header(pn, div_nonce), pn)
  ELSE EncryptPacket(server, pn)

\* The server seals the packet numbered pn; packet numbers only grow.
ServerSend(pn) ==
  /\ pn > last_pn
  /\ wire' = wire \cup {[pn |-> pn, nonce |-> div_nonce, ct |-> Seal(pn)]}
  /\ last_pn' = pn
  /\ UNCHANGED <<setup, version, server, client, div_nonce, accepted, refused>>

\* The client receives a packet: a nonce in its header is handed to
\* SetDiversificationNonce first, then the payload is decrypted.
ClientReceive(pkt) ==
  LET null == setup = "null"
      r  == IF pkt.nonce = NoNonce THEN [p |-> client, ok |-> TRUE]
            ELSE IF null THEN NullSetDiversificationNonce(client, pkt.nonce)
            ELSE SetDiversificationNonce(client, pkt.nonce)
      ok == /\ r.ok
            /\ IF null THEN NullDecryptPacket(r.p, version, Header(pkt.pn, pkt.nonce), pkt.ct)
               ELSE DecryptPacket(r.p, pkt.pn, pkt.ct)
  IN
  /\ client' = r.p
  /\ accepted' = IF ok THEN accepted \cup {pkt.pn} ELSE accepted
  /\ refused' = IF ok THEN refused ELSE refused \cup {pkt.pn}
  /\ UNCHANGED <<setup, version, server, div_nonce, last_pn, wire>>

Next ==
  \/ \E pn \in PacketNumbers : ServerSend(pn)
  \/ \E pkt \in wire : ClientReceive(pkt)

Spec == Init /\ [][Next]_vars

-----------------------------------------------------------------------------

Bytes == 0..255

TypeOK ==
  /\ setup \in Setups /\ version \in Versions
  /\ setup # "null" =>
       /\ server.iv \in [1..NonceSize -> Bytes] /\ client.iv \in [1..NonceSize -> Bytes]
       /\ \A pkt \in wire : pkt.ct.nonce \in [1..NonceSize -> Bytes]
  /\ setup = "null" => \A pkt \in wire : pkt.ct.pt = pkt.pn
  /\ last_pn \in {0} \cup PacketNumbers
  /\ \A pkt \in wire : pkt.pn \in PacketNumbers
  /\ accepted \cup refused \subseteq PacketNumbers

\* The n base-256 digits of x, most significant first.
RECURSIVE Digits(_, _)
Digits(x, n) == IF n = 0 THEN << >> ELSE Digits(x \div 256, n - 1) \o << x % 256 >>

\* The nonce a protector would build, defined without indexing bytes by
\* shifts: in IETF mode the IV XOR the packet number written as NonceSize
\* big-endian digits; otherwise the prefix followed by the packet number's
\* eight digits in native (little-endian) order.
ReferenceNonce(p, pn) ==
  IF p.ietf THEN [j \in 1..NonceSize |-> p.iv[j] ^^ Digits(pn, NonceSize)[j]]
  ELSE NoncePrefixOf(p.iv) \o Reverse(Digits(pn, PnSize))

\* Every packet is sealed under the nonce of its definition, for the IVs
\* and derived prefixes of both setups and packet numbers that cross byte
\* boundaries.
NonceMatchesReference ==
  setup # "null" => \A pkt \in wire : pkt.ct.nonce = ReferenceNonce(server, pkt.pn)

\* No (key, nonce) pair is ever used twice: two packets sealed under one
\* key have different nonces, given the increasing packet numbers the
\* sender uses (EncryptPacket itself does not check; see its TODO).
NoncesUnique ==
  setup # "null" => \A a, b \in wire :
    a # b /\ a.ct.key = b.ct.key => a.ct.nonce # b.ct.nonce

\* Every packet the server sealed opens at the client, whatever order and
\* duplication the network delivers in: the first header nonce moves the
\* decrypter from the preliminary key to the server's key and prefix, and
\* later ones leave it alone.  Under null protection the client's
\* NullDecrypter must expect the label the server's NullEncrypter writes,
\* in every transport version.
NoAuthenticPacketRefused == refused = {}

=============================================================================
