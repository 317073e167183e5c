-------------------------- MODULE RawServerHandshaker --------------------------
(***************************************************************************)
(* QuicRawServerHandshaker                                                 *)
(* (src/quic/net/tools/quic/relay/quic_raw_server_handshaker.cc): the     *)
(* server side of the gQUIC crypto handshake, with the three callbacks it *)
(* hands to QuicCryptoServerConfig (validate CHLO, process CHLO, build a   *)
(* server config update) and their cancellation.                           *)
(*                                                                         *)
(* QuicCryptoServerConfig, the session helper and the connection are not  *)
(* in this repository.  The crypto config owns each callback object; it   *)
(* runs it either inside the call (synchronously) or later, once, and     *)
(* frees it after Run returns.  A callback object is a record in          *)
(* `callbacks`; the handshaker's raw pointer is its id, or 0 for nullptr. *)
(* Run through a pointer to a freed object, or a live callback calling a  *)
(* destroyed handshaker, sets `uaf`.  Message contents are abstracted to  *)
(* the fields the handshaker reads: the tag, stateless-reject support,    *)
(* a PUBS value, and a server nonce in the validation result.             *)
(***************************************************************************)
EXTENDS Integers, Sequences, FiniteSets

CONSTANTS
  ClientMessages,   \* [tag, srej, pubs, nonce] records the client may send
  UseStatelessRejectsIfPeerSupported,
  MaxMessages,      \* bound on handshake messages the client sends
  MaxScupRequests   \* bound on SendServerConfigUpdate calls by the session

NULL == 0
Levels == {"NONE", "INITIAL", "FORWARD_SECURE"}

\* What ProcessClientHello's done callback can be run with: an error, or a
\* reply tag together with the outcome of ProcessPeerHello for a SHLO.
Outcomes(stateless) ==
  [error : {TRUE}, reply : {"none"}, peer_hello_ok : {FALSE}] \cup
  [error : {FALSE}, reply : {"SHLO", "REJ"} \cup (IF stateless THEN {"SREJ"} ELSE {}),
   peer_hello_ok : BOOLEAN]

VARIABLES
  hs,         \* the handshaker's members, and whether it still exists
  conn,       \* the connection state the handshaker changes
  callbacks,  \* callback objects held by the crypto config
  next_cb,    \* id of the next callback object
  sent,       \* handshake messages written: [tag, level]
  uaf,        \* a freed object was used
  messages,   \* handshake messages the client has sent
  scups       \* SendServerConfigUpdate calls made

vars == <<hs, conn, callbacks, next_cb, sent, uaf, messages, scups>>

World == [hs |-> hs, conn |-> conn, callbacks |-> callbacks, next_cb |-> next_cb,
          sent |-> sent, uaf |-> uaf]

Become(w) ==
  /\ hs' = w.hs /\ conn' = w.conn /\ callbacks' = w.callbacks
  /\ next_cb' = w.next_cb /\ sent' = w.sent /\ uaf' = w.uaf

\* The constructor's member initialisers.
NewHandshaker ==
  [alive |-> TRUE, num_handshake_messages |-> 0,
   num_handshake_messages_with_server_nonces |-> 0,
   validate_client_hello_cb |-> NULL, process_client_hello_cb |-> NULL,
   send_server_config_update_cb |-> NULL, peer_supports_stateless_rejects |-> FALSE,
   zero_rtt_attempted |-> FALSE, encryption_established |-> FALSE,
   handshake_confirmed |-> FALSE, num_server_config_update_messages_sent |-> 0]

NewConnection ==
  [closed |-> FALSE, saving_crypto_packets |-> FALSE, encryption_level |-> "NONE",
   decrypter |-> "NONE", alternative_decrypter |-> "none", diversification_nonce |-> FALSE]

-----------------------------------------------------------------------------
(* The connection and stream calls.                                        *)

CloseConnection(w) == [w EXCEPT !.conn.closed = TRUE]

\* A closed connection writes nothing.
SendHandshakeMessage(w, tag) ==
  IF w.conn.closed THEN w
  ELSE [w EXCEPT !.sent = Append(@, [tag |-> tag, level |-> w.conn.encryption_level])]

\* A new callback object with parent_ set, handed to the crypto config.
AddCallback(w, kind, data) ==
  [w EXCEPT !.callbacks = @ \cup {[id |-> w.next_cb, kind |-> kind, parent |-> TRUE,
                                   data |-> data]},
            !.next_cb = @ + 1]

\* The crypto config releases a callback after its Run returned.
FreeCallback(w, cb) == [w EXCEPT !.callbacks = @ \ {cb}]

\* cb->Cancel() through the handshaker's pointer.
CancelCallback(w, id) ==
  IF id = NULL THEN w
  ELSE IF \E cb \in w.callbacks : cb.id = id
       THEN LET cb == CHOOSE c \in w.callbacks : c.id = id IN
            [w EXCEPT !.callbacks = (@ \ {cb}) \cup {[cb EXCEPT !.parent = FALSE]}]
       ELSE [w EXCEPT !.uaf = TRUE]

-----------------------------------------------------------------------------
(* The handshaker's methods, as maps from a world to its possible          *)
(* successors.                                                             *)

\* Mutant: the SHLO is written after the switch to the forward-secure keys.
FinishAfterProcessShloLate(w, msg, o) ==
  LET w1 == [w EXCEPT !.hs.process_client_hello_cb = NULL]
      w2 == [w1 EXCEPT !.conn.saving_crypto_packets = @ \/ o.reply = "SREJ"]
      w3 == SendHandshakeMessage(w2, o.reply)
      k  == [w1 EXCEPT !.conn.encryption_level = "FORWARD_SECURE", !.conn.decrypter = "INITIAL",
                       !.conn.diversification_nonce = TRUE,
                       !.conn.alternative_decrypter = "FORWARD_SECURE"]
      f  == [SendHandshakeMessage(k, "SHLO") EXCEPT
               !.hs.encryption_established = TRUE, !.hs.handshake_confirmed = TRUE]
  IN CASE o.error -> CloseConnection(w1)
       [] o.reply # "SHLO" -> IF o.reply = "SREJ" THEN CloseConnection(w3) ELSE w3
       [] ~o.peer_hello_ok -> CloseConnection(w1)
       [] OTHER -> f

\* A reply other than SHLO is written unencrypted; an SREJ first makes the
\* connection save crypto packets, then closes it silently.  A SHLO is
\* sent under the initial keys, after which the connection moves to the
\* forward-secure keys and the handshake is confirmed.
FinishProcessingHandshakeMessageAfterProcessClientHello(w, msg, o) ==
  LET w1 == [w EXCEPT !.hs.process_client_hello_cb = NULL]
      w2 == [w1 EXCEPT !.conn.saving_crypto_packets = @ \/ o.reply = "SREJ"]
      w3 == SendHandshakeMessage(w2, o.reply)
      k  == [w1 EXCEPT !.conn.encryption_level = "INITIAL", !.conn.decrypter = "INITIAL",
                       !.conn.diversification_nonce = TRUE]
      f  == [SendHandshakeMessage(k, "SHLO") EXCEPT
               !.conn.encryption_level = "FORWARD_SECURE",
               !.conn.alternative_decrypter = "FORWARD_SECURE",
               !.hs.encryption_established = TRUE, !.hs.handshake_confirmed = TRUE]
  IN CASE o.error -> CloseConnection(w1)
       [] o.reply # "SHLO" -> IF o.reply = "SREJ" THEN CloseConnection(w3) ELSE w3
       [] ~o.peer_hello_ok -> CloseConnection(w1)
       [] OTHER -> f

\* ProcessClientHelloCallback::Run, then the crypto config frees it.
RunProcessCallback(w, cb, o) ==
  LET r == CASE ~cb.parent -> w
             [] ~w.hs.alive -> [w EXCEPT !.uaf = TRUE]
             [] OTHER -> FinishProcessingHandshakeMessageAfterProcessClientHello(w, cb.data.msg, o)
  IN FreeCallback(r, cb)

\* The helper may refuse the CHLO, which runs done_cb at once with an
\* error; otherwise the counters are updated and the crypto config runs
\* done_cb now or later.
ProcessClientHello(w, msg, id) ==
  LET cb == CHOOSE c \in w.callbacks : c.id = id
      w1 == [w EXCEPT
               !.hs.num_handshake_messages_with_server_nonces =
                  IF msg.nonce THEN (@ + 1) % 256 ELSE @,
               !.hs.zero_rtt_attempted =
                  IF w.hs.num_handshake_messages = 1 THEN msg.pubs ELSE @]
  IN {RunProcessCallback(w, cb, [error |-> TRUE, reply |-> "none", peer_hello_ok |-> FALSE])}
     \cup {w1}
     \cup {RunProcessCallback(w1, cb, o) : o \in Outcomes(cb.data.stateless)}

\* Mutant: validate_client_hello_cb_ is not cleared.
FinishProcessingHandshakeMessageKeepsPointer(w, msg) ==
  LET stateless == UseStatelessRejectsIfPeerSupported /\ w.hs.peer_supports_stateless_rejects
      w2 == [AddCallback(w, "process", [msg |-> msg, stateless |-> stateless])
               EXCEPT !.hs.process_client_hello_cb = w.next_cb]
  IN ProcessClientHello(w2, msg, w.next_cb)

\* Clear the validation pointer, note stateless-reject support, and start
\* processing with a new callback.
FinishProcessingHandshakeMessage(w, msg) ==
  LET w1 == [w EXCEPT !.hs.validate_client_hello_cb = NULL,
                      !.hs.peer_supports_stateless_rejects =
                         IF UseStatelessRejectsIfPeerSupported THEN msg.srej ELSE @]
      stateless == UseStatelessRejectsIfPeerSupported /\ w1.hs.peer_supports_stateless_rejects
      w2 == [AddCallback(w1, "process", [msg |-> msg, stateless |-> stateless])
               EXCEPT !.hs.process_client_hello_cb = w1.next_cb]
  IN ProcessClientHello(w2, msg, w1.next_cb)

\* ValidateCallback::Run, then the crypto config frees it.
RunValidateCallback(w, cb) ==
  CASE ~cb.parent -> {FreeCallback(w, cb)}
    [] ~w.hs.alive -> {FreeCallback([w EXCEPT !.uaf = TRUE], cb)}
    [] OTHER -> {FreeCallback(x, cb) : x \in FinishProcessingHandshakeMessage(w, cb.data)}

\* The guards of OnHandshakeMessage, after the message count is bumped.
RejectsMessage(w, m) ==
  \/ w.hs.handshake_confirmed
  \/ m.tag # "CHLO"
  \/ w.hs.validate_client_hello_cb # NULL \/ w.hs.process_client_hello_cb # NULL

\* Mutant: validate_client_hello_cb_ is set after ValidateClientHello
\* returns, so a synchronous validation leaves it pointing at a freed object.
OnHandshakeMessageLateAssign(w, m) ==
  LET w1 == [w EXCEPT !.hs.num_handshake_messages = (@ + 1) % 256]
      w2 == AddCallback(w1, "validate", m)
      cb == CHOOSE c \in w2.callbacks : c.id = w1.next_cb
  IN IF RejectsMessage(w1, m) THEN {CloseConnection(w1)}
     ELSE {[x EXCEPT !.hs.validate_client_hello_cb = w1.next_cb] :
             x \in {w2} \cup RunValidateCallback(w2, cb)}

\* A handshake message after confirmation, a message other than CHLO, or
\* a CHLO while another is in progress closes the connection; otherwise
\* the CHLO is validated now or later.
OnHandshakeMessage(w, m) ==
  LET w1 == [w EXCEPT !.hs.num_handshake_messages = (@ + 1) % 256]
      w2 == [AddCallback(w1, "validate", m)
               EXCEPT !.hs.validate_client_hello_cb = w1.next_cb]
      cb == CHOOSE c \in w2.callbacks : c.id = w1.next_cb
  IN IF RejectsMessage(w1, m) THEN {CloseConnection(w1)}
     ELSE {w2} \cup RunValidateCallback(w2, cb)

\* Clear the pointer; on success write the SCUP and count it.
FinishSendServerConfigUpdate(w, ok) ==
  LET w1 == [w EXCEPT !.hs.send_server_config_update_cb = NULL] IN
  IF ~ok THEN w1
  ELSE [SendHandshakeMessage(w1, "SCUP")
          EXCEPT !.hs.num_server_config_update_messages_sent = @ + 1]

\* SendServerConfigUpdateCallback::Run, then the crypto config frees it.
RunScupCallback(w, cb, ok) ==
  LET r == CASE ~cb.parent -> w
             [] ~w.hs.alive -> [w EXCEPT !.uaf = TRUE]
             [] OTHER -> FinishSendServerConfigUpdate(w, ok)
  IN FreeCallback(r, cb)

\* Only after confirmation, one update at a time.
SendServerConfigUpdate(w) ==
  LET w1 == [AddCallback(w, "scup", NULL)
               EXCEPT !.hs.send_server_config_update_cb = w.next_cb]
      cb == CHOOSE c \in w1.callbacks : c.id = w.next_cb
  IN IF ~w.hs.handshake_confirmed \/ w.hs.send_server_config_update_cb # NULL THEN {w}
     ELSE {w1} \cup {RunScupCallback(w1, cb, ok) : ok \in BOOLEAN}

\* Mutant: the process callback is not cancelled.
CancelOutstandingCallbacksSkipsProcess(w) ==
  LET w1 == CancelCallback(CancelCallback(w, w.hs.validate_client_hello_cb),
                           w.hs.send_server_config_update_cb)
  IN [w1 EXCEPT !.hs.validate_client_hello_cb = NULL,
                !.hs.send_server_config_update_cb = NULL,
                !.hs.process_client_hello_cb = NULL]

\* Detach from every outstanding callback.
CancelOutstandingCallbacks(w) ==
  LET w1 == CancelCallback(CancelCallback(CancelCallback(w, w.hs.validate_client_hello_cb),
                                          w.hs.send_server_config_update_cb),
                           w.hs.process_client_hello_cb)
  IN [w1 EXCEPT !.hs.validate_client_hello_cb = NULL,
                !.hs.send_server_config_update_cb = NULL,
                !.hs.process_client_hello_cb = NULL]

-----------------------------------------------------------------------------

Init ==
  /\ hs = NewHandshaker
  /\ conn = NewConnection
  /\ callbacks = {}
  /\ next_cb = 1
  /\ sent = << >>
  /\ uaf = FALSE
  /\ messages = 0
  /\ scups = 0

\* The crypto stream delivers a handshake message from the client.
ReceiveHandshakeMessage(m) ==
  /\ hs.alive /\ ~conn.closed /\ ~uaf
  /\ messages < MaxMessages
  /\ \E w \in OnHandshakeMessage(World, m) : Become(w)
  /\ messages' = messages + 1
  /\ UNCHANGED scups

\* The crypto config completes an operation it took asynchronously.
RunCallback(cb) ==
  /\ ~uaf
  /\ \E w \in CASE cb.kind = "validate" -> RunValidateCallback(World, cb)
                [] cb.kind = "process" ->
                     {RunProcessCallback(World, cb, o) : o \in Outcomes(cb.data.stateless)}
                [] cb.kind = "scup" -> {RunScupCallback(World, cb, ok) : ok \in BOOLEAN} :
       Become(w)
  /\ UNCHANGED <<messages, scups>>

\* The session asks for a server config update.
RequestServerConfigUpdate ==
  /\ hs.alive /\ ~conn.closed /\ ~uaf
  /\ scups < MaxScupRequests
  /\ \E w \in SendServerConfigUpdate(World) : Become(w)
  /\ scups' = scups + 1
  /\ UNCHANGED messages

\* The connection closes for a reason of its own: idle timeout, the
\* peer's CONNECTION_CLOSE, a write error.
ConnectionClosed ==
  /\ hs.alive /\ ~conn.closed /\ ~uaf
  /\ conn' = [conn EXCEPT !.closed = TRUE]
  /\ UNCHANGED <<hs, callbacks, next_cb, sent, uaf, messages, scups>>

\* The dispatcher deletes the closed session, and with it the handshaker.
DestroyHandshaker ==
  /\ hs.alive /\ conn.closed /\ ~uaf
  /\ Become([CancelOutstandingCallbacks(World) EXCEPT !.hs.alive = FALSE])
  /\ UNCHANGED <<messages, scups>>

Next ==
  \/ \E m \in ClientMessages : ReceiveHandshakeMessage(m)
  \/ \E cb \in callbacks : RunCallback(cb)
  \/ RequestServerConfigUpdate
  \/ ConnectionClosed
  \/ DestroyHandshaker

\* Bound on the callback objects a run creates.
MaxCallbacks == 2 * MaxMessages + MaxScupRequests

\* Every operation the crypto config took eventually completes.
Fairness ==
  \A id \in 1..MaxCallbacks :
    WF_vars(\E cb \in callbacks : cb.id = id /\ RunCallback(cb))

Spec == Init /\ [][Next]_vars /\ Fairness

-----------------------------------------------------------------------------

Kinds == {"validate", "process", "scup"}

\* The handshaker's pointer for callbacks of a kind.
Pointer(h, kind) ==
  CASE kind = "validate" -> h.validate_client_hello_cb
    [] kind = "process" -> h.process_client_hello_cb
    [] kind = "scup" -> h.send_server_config_update_cb

TypeOK ==
  /\ hs.num_handshake_messages = messages % 256
  /\ hs.num_handshake_messages_with_server_nonces \in 0..255
  /\ \A k \in Kinds : Pointer(hs, k) \in 0..MaxCallbacks
  /\ {hs.alive, hs.handshake_confirmed, hs.encryption_established, conn.closed, uaf}
       \subseteq BOOLEAN
  /\ conn.encryption_level \in Levels /\ conn.decrypter \in Levels
  /\ \A cb \in callbacks : cb.id \in 1..MaxCallbacks /\ cb.kind \in Kinds
  /\ next_cb \in 1..MaxCallbacks + 1
  /\ \A i \in 1..Len(sent) : sent[i].level \in Levels

\* The handshaker's callback pointers and the crypto config's callbacks
\* agree: a pointer that is not null names a callback still held, of its
\* kind and not cancelled; every callback that will call back into the
\* handshaker is the one its pointer names; at most one CHLO is in
\* progress; and once the handshaker is destroyed no callback can reach it.
CallbackPointersValid ==
  /\ hs.alive =>
       /\ \A k \in Kinds : Pointer(hs, k) # NULL =>
            \E cb \in callbacks : cb.id = Pointer(hs, k) /\ cb.kind = k /\ cb.parent
       /\ \A cb \in callbacks : cb.parent => Pointer(hs, cb.kind) = cb.id
       /\ hs.validate_client_hello_cb = NULL \/ hs.process_client_hello_cb = NULL
  /\ ~hs.alive => \A cb \in callbacks : ~cb.parent

\* No callback runs into a destroyed handshaker and no pointer to a freed
\* callback is used.
NoUseAfterFree == ~uaf

\* Every handshake message goes out under the keys the client can open it
\* with at that point: rejections unencrypted, the SHLO under the initial
\* keys (before the switch to forward-secure), and a server config update
\* under the forward-secure keys.
HandshakeMessagesProtected ==
  \A i \in 1..Len(sent) :
    sent[i].level = CASE sent[i].tag = "SHLO" -> "INITIAL"
                      [] sent[i].tag = "SCUP" -> "FORWARD_SECURE"
                      [] OTHER -> "NONE"

\* The handshake is confirmed to the session only with a SHLO sent on the
\* connection: a CHLO whose connection was closed while it was being
\* validated or processed is abandoned.
ConfirmedOnlyWithShlo ==
  hs.handshake_confirmed => \E i \in 1..Len(sent) : sent[i].tag = "SHLO"

\* A CHLO being validated or processed is eventually finished.
ChloEventuallyFinished ==
  (hs.validate_client_hello_cb # NULL \/ hs.process_client_hello_cb # NULL)
    ~> (hs.validate_client_hello_cb = NULL /\ hs.process_client_hello_cb = NULL)

=============================================================================
