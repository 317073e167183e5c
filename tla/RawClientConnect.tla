--------------------------- MODULE RawClientConnect ---------------------------
(***************************************************************************)
(* The relay client's synchronous connect (quic_raw_client.cc): the loop  *)
(* of Connect() that starts a new session after a stateless reject, the   *)
(* nested Connect() that WaitForEvents() starts when the session it waited *)
(* on was statelessly rejected, the counting of client hellos across      *)
(* sessions, and the packet reader that RunEventLoop() starts once and    *)
(* OnReadError() -> Disconnect() destroys.                                 *)
(*                                                                         *)
(* The crypto stream and the packet reader are not in the repository      *)
(* (only quic_chromium_packet_reader.h is): the server's answer to a CHLO *)
(* is any of REJ, SREJ and SHLO, the crypto stream closes with            *)
(* TOO_MANY_REJECTS after PerSessionHellos hellos, the handshake alarm     *)
(* may close the connection, and the reader keeps reading only while its   *)
(* visitor's OnPacket returns true (ProcessReadResult, "Return true if     *)
(* reading should continue").                                              *)
(*                                                                         *)
(* Connect() is a call stack: each frame is a Connect() activation at the  *)
(* head of its outer loop ("loop") or of its inner                        *)
(* while (EncryptionBeingEstablished()) loop ("inner").                   *)
(***************************************************************************)
EXTENDS Integers, Sequences, SequencesExt

CONSTANTS
  kMaxClientHellos,    \* QuicCryptoClientStream::kMaxClientHellos
  PerSessionHellos,    \* hellos one crypto stream sends before TOO_MANY_REJECTS
  MaxEventsPerRun      \* events one RunUntilIdle() handles

ASSUME kMaxClientHellos \in Nat /\ PerSessionHellos \in Nat \ {0}
       /\ MaxEventsPerRun \in Nat \ {0}

\* QuicErrorCode values the client distinguishes.
Errors == {"NO_ERROR", "STATELESS_REJECT", "TOO_MANY_REJECTS",
           "HANDSHAKE_TIMEOUT", "NETWORK_IDLE_TIMEOUT", "PEER_GOING_AWAY",
           "PEER_CLOSED"}

NoSession == [connected |-> FALSE, established |-> FALSE, hellos |-> 0,
              error |-> "NO_ERROR", exists |-> FALSE, requested |-> FALSE]
NoResult == [ok |-> FALSE, established |-> FALSE, returned |-> FALSE]

VARIABLES
  app,                              \* the caller (frtc.cpp): init, connecting, serving, done
  stack,                            \* Connect() activations, innermost last
  initialized,                      \* initialized_
  packet_reader,                    \* packet_reader_: none (null), idle, reading, stopped
  packet_reader_started,            \* packet_reader_started_
  writer,                           \* writer_ is non-null
  session,                          \* session_ and its connection
  connected_or_attempting_connect,  \* connected_or_attempting_connect_
  num_sent_client_hellos,           \* num_sent_client_hellos_
  num_stateless_rejects_received,   \* num_stateless_rejects_received_
  connection_error,                 \* connection_error_
  history,                          \* ghost: sessions replaced by StartConnect
  crashed,                          \* a null pointer was dereferenced
  result                            \* ghost: what the caller's Connect() returned

vars == <<app, stack, initialized, packet_reader, packet_reader_started, writer,
          session, connected_or_attempting_connect, num_sent_client_hellos,
          num_stateless_rejects_received, connection_error, history, crashed,
          result>>

World == [app |-> app, stack |-> stack, initialized |-> initialized,
          reader |-> packet_reader, started |-> packet_reader_started,
          writer |-> writer, sess |-> session,
          coa |-> connected_or_attempting_connect,
          num_sent |-> num_sent_client_hellos,
          num_srej |-> num_stateless_rejects_received,
          conn_error |-> connection_error, history |-> history,
          crashed |-> crashed, result |-> result]

Become(w) ==
  /\ app' = w.app /\ stack' = w.stack /\ initialized' = w.initialized
  /\ packet_reader' = w.reader /\ packet_reader_started' = w.started
  /\ writer' = w.writer /\ session' = w.sess
  /\ connected_or_attempting_connect' = w.coa
  /\ num_sent_client_hellos' = w.num_sent
  /\ num_stateless_rejects_received' = w.num_srej
  /\ connection_error' = w.conn_error /\ history' = w.history
  /\ crashed' = w.crashed /\ result' = w.result

-----------------------------------------------------------------------------
(* The client's helpers.                                                   *)

Connected(w) == w.sess.exists /\ w.sess.connected

\* QuicRawSession::GetNumSentClientHellos: the crypto stream's count.
SessionHellos(w) == w.sess.hellos

GetNumSentClientHellos(w) ==
  w.num_sent + (IF ~w.coa THEN 0 ELSE SessionHellos(w))

UpdateStats(w) ==
  [w EXCEPT !.num_sent = @ + SessionHellos(w),
            !.num_srej = IF w.sess.error = "STATELESS_REJECT" THEN @ + 1 ELSE @]

\* A new QuicRawSession over a new, connected QuicRawConnection.
CreateQuicRawSession(w) ==
  [w EXCEPT !.sess = [connected |-> TRUE, established |-> FALSE, hellos |-> 0,
                      error |-> "NO_ERROR", exists |-> TRUE, requested |-> FALSE]]

\* QuicRawSession::StartCryptoHandshake, client side: the crypto stream's
\* CryptoConnect sends the first CHLO.
StartCryptoHandshake(w) == [w EXCEPT !.sess.hellos = 1]

\* CreateQuicPacketWriter, the stats of the replaced session, a new session
\* whose StartCryptoHandshake sends the first CHLO.  The data to resend is
\* always empty: nothing in the repository calls MaybeAddDataToResend.
StartConnect(w) ==
  LET w1 == IF w.coa
            THEN [UpdateStats(w) EXCEPT !.history = Append(@, w.sess)]
            ELSE w
  IN [StartCryptoHandshake(CreateQuicRawSession(w1)) EXCEPT !.writer = TRUE,
                                                            !.coa = TRUE]

EncryptionBeingEstablishedIgnoresClose(w) == ~w.sess.established

EncryptionBeingEstablishedInverted(w) == w.sess.established /\ w.sess.connected

EncryptionBeingEstablished(w) == ~w.sess.established /\ w.sess.connected

CloseConnection(w, err) ==
  [w EXCEPT !.sess.connected = FALSE, !.sess.error = err]

CleanUpAllUDPSockets(w) ==
  [w EXCEPT !.writer = FALSE, !.reader = "none", !.started = FALSE]

DisconnectKeepsConnection(w) ==
  CleanUpAllUDPSockets([w EXCEPT !.initialized = FALSE])

Disconnect(w) ==
  LET w1 == IF Connected(w) THEN CloseConnection(w, "PEER_GOING_AWAY") ELSE w
  IN CleanUpAllUDPSockets([w1 EXCEPT !.initialized = FALSE])

OnReadError(w) == Disconnect(w)

\* OnPacket: the connection processes the packet; a false return (the
\* connection is closed) stops the reader.
OnPacket(w) ==
  IF Connected(w) THEN w ELSE [w EXCEPT !.reader = "stopped"]

-----------------------------------------------------------------------------
(* The network and the crypto stream, in one RunUntilIdle().               *)

\* The server's answer to the current CHLO, or any packet once the
\* handshake is done (data, or the peer closing); a packet for a closed
\* connection is dropped.
ServerPacket(w) ==
  LET s == w.sess IN
  IF ~Connected(w) THEN {OnPacket(w)}
  ELSE IF s.established
       THEN {w, OnPacket(CloseConnection(w, "PEER_CLOSED"))}
  ELSE {OnPacket(IF s.hellos < PerSessionHellos
                 THEN [w EXCEPT !.sess.hellos = @ + 1]
                 ELSE CloseConnection(w, "TOO_MANY_REJECTS")),
        OnPacket([w EXCEPT !.sess.established = TRUE]),
        OnPacket(CloseConnection(w, "STATELESS_REJECT"))}

\* The connection's handshake or idle alarm.
Timeout(w) ==
  IF ~Connected(w) THEN {}
  ELSE {CloseConnection(w, IF w.sess.established THEN "NETWORK_IDLE_TIMEOUT"
                                              ELSE "HANDSHAKE_TIMEOUT")}

\* A read the reader completes: a packet or a read error.
ReaderEvent(w) ==
  IF w.reader = "reading" THEN ServerPacket(w) \cup {OnReadError(w)} ELSE {}

\* One event of RunUntilIdle: a completed read, or an alarm.
Event(w) == ReaderEvent(w) \cup Timeout(w)

\* The reader's StartReading may complete reads synchronously, calling
\* OnPacket or OnReadError before it returns; packet_reader_started_ is set
\* after it returns, also when OnReadError destroyed the reader meanwhile.
StartPacketReaderIfNotStarted(w) ==
  IF w.started THEN {w}
  ELSE IF w.reader = "none" THEN {[w EXCEPT !.crashed = TRUE]}
  ELSE LET r == [w EXCEPT !.reader = "reading"] IN
       {[v EXCEPT !.started = TRUE] : v \in {r} \cup ReaderEvent(r)}


RECURSIVE RunUntilIdle(_, _)
RunUntilIdle(w, n) ==
  IF n = 0 THEN {w} ELSE UNION {RunUntilIdle(v, n - 1) : v \in Event(w)}

RunEventLoop(w) ==
  UNION {IF w1.crashed THEN {w1}
         ELSE UNION {RunUntilIdle(w1, n) : n \in 1..MaxEventsPerRun}
         : w1 \in StartPacketReaderIfNotStarted(w)}

\* WaitForEvents: after the event loop, a stateless reject of the session
\* starts a nested Connect().
WaitForEvents(w) ==
  {IF ~v.crashed /\ ~Connected(v) /\ v.sess.error = "STATELESS_REJECT"
   THEN [v EXCEPT !.stack = Append(@, "loop")]
   ELSE v : v \in RunEventLoop(w)}

-----------------------------------------------------------------------------
(* Connect().                                                              *)

\* QuicRawClient::CreateClientStream: nullptr unless connected(), else the
\* session's new outgoing stream with the client's stream delegate.
CreateClientStream(w) == IF ~Connected(w) THEN "nullptr" ELSE "stream"

\* QuicRawClient::SendData: stream->Write of the request, without fin; a
\* null stream is dereferenced.
SendData(w, stream) ==
  IF stream = "nullptr" THEN [w EXCEPT !.crashed = TRUE]
  ELSE [w EXCEPT !.sess.requested = TRUE]

\* frtc.cpp after a successful Connect(): a client stream, and the device's
\* uuid and token sent on it.
SendRequest(w) == SendData(w, CreateClientStream(w))

SetTop(w, pc) == [w EXCEPT !.stack[Len(w.stack)] = pc]

\* The code after the outer loop: TOO_MANY_REJECTS when the hellos ran out
\* on stateless rejects, then the return.  The outermost return goes back
\* to the caller, a nested one back into WaitForEvents.
ConnectReturn(w) ==
  LET w1 == IF /\ ~Connected(w)
               /\ GetNumSentClientHellos(w) > kMaxClientHellos
               /\ w.sess.exists
               /\ w.sess.error = "STATELESS_REJECT"
            THEN [w EXCEPT !.conn_error = "TOO_MANY_REJECTS"]
            ELSE w
      ok == w1.sess.connected
      w2 == [w1 EXCEPT !.stack = Front(@)]
      w3 == [w2 EXCEPT !.result = [ok |-> ok, established |-> w1.sess.established,
                                   returned |-> TRUE]]
  IN IF w2.stack = << >> /\ w2.app = "connecting"
     THEN IF ok THEN SendRequest([w3 EXCEPT !.app = "serving"])
          ELSE [w3 EXCEPT !.app = "done"]
     ELSE w2

\* The head of the outer while loop.
ConnectLoop(w) ==
  IF ~Connected(w) /\ GetNumSentClientHellos(w) <= kMaxClientHellos
  THEN {SetTop(StartConnect(w), "inner")}
  ELSE {ConnectReturn(w)}

\* The head of the inner loop, and after it ResendSavedData (a no-op: the
\* data to resend is always empty) and the test that gives up unless the
\* session was statelessly rejected.
ConnectInner(w) ==
  IF EncryptionBeingEstablished(w) THEN WaitForEvents(w)
  ELSE IF w.sess.exists /\ w.sess.error # "STATELESS_REJECT"
       THEN {ConnectReturn(w)}
       ELSE {SetTop(w, "loop")}

-----------------------------------------------------------------------------
(* The caller, as frtc.cpp uses the client.                                *)

\* A newly constructed QuicRawClient, as a World.
InitWorld ==
  [app |-> "init", stack |-> << >>, initialized |-> FALSE, reader |-> "none",
   started |-> FALSE, writer |-> FALSE, sess |-> NoSession, coa |-> FALSE,
   num_sent |-> 0, num_srej |-> 0, conn_error |-> "NO_ERROR",
   history |-> << >>, crashed |-> FALSE, result |-> NoResult]

Init ==
  /\ app = "init" /\ stack = << >> /\ initialized = FALSE
  /\ packet_reader = "none" /\ packet_reader_started = FALSE /\ writer = FALSE
  /\ session = NoSession /\ connected_or_attempting_connect = FALSE
  /\ num_sent_client_hellos = 0 /\ num_stateless_rejects_received = 0
  /\ connection_error = "NO_ERROR" /\ history = << >> /\ crashed = FALSE
  /\ result = NoResult

\* Initialize() resets the counters and creates the socket and the reader;
\* on success the caller calls Connect(), on failure it gives up.
Initialize ==
  /\ app = "init"
  /\ \/ Become([World EXCEPT !.num_sent = 0, !.num_srej = 0,
                 !.conn_error = "NO_ERROR", !.coa = FALSE, !.reader = "idle",
                 !.initialized = TRUE, !.app = "connecting",
                 !.stack = << "loop" >>])
     \/ Become([World EXCEPT !.app = "done"])

ConnectStep ==
  /\ ~crashed /\ stack # << >>
  /\ \E w \in (IF Last(stack) = "loop" THEN ConnectLoop(World)
               ELSE ConnectInner(World)) : Become(w)

\* The caller's while (client.connected()) client.WaitForEvents(); loop.
Serve ==
  /\ ~crashed /\ app = "serving" /\ stack = << >>
  /\ IF Connected(World)
     THEN \E w \in WaitForEvents(World) : Become(w)
     ELSE Become([World EXCEPT !.app = "done"])

Next == Initialize \/ ConnectStep \/ Serve

\* The client runs on one thread; the connection's alarms fire.
Fairness == WF_vars(ConnectStep) /\ WF_vars(Serve)

Spec == Init /\ [][Next]_vars /\ Fairness

-----------------------------------------------------------------------------

Apps == {"init", "connecting", "serving", "done"}
Sessions == [connected : BOOLEAN, established : BOOLEAN,
             hellos : 0..PerSessionHellos, error : Errors, exists : BOOLEAN,
             requested : BOOLEAN]

TypeOK ==
  /\ app \in Apps
  /\ stack \in Seq({"loop", "inner"})
  /\ packet_reader \in {"none", "idle", "reading", "stopped"}
  /\ {initialized, packet_reader_started, writer, crashed,
      connected_or_attempting_connect} \subseteq BOOLEAN
  /\ session \in Sessions
  /\ history \in Seq(Sessions)
  /\ num_sent_client_hellos \in Nat /\ num_stateless_rejects_received \in Nat
  /\ connection_error \in Errors
  /\ result \in [ok : BOOLEAN, established : BOOLEAN, returned : BOOLEAN]
  /\ (app = "connecting") = (stack # << >>)

\* Connect() reports success only for a connection whose encryption is
\* established, however many nested Connect() calls ran in between.
ConnectSuccessEstablished ==
  result.returned /\ result.ok => result.established

\* No null pointer is dereferenced: StartPacketReaderIfNotStarted never
\* uses the null packet_reader_ that OnReadError -> Disconnect ->
\* CleanUpAllUDPSockets leaves, and frtc.cpp never sends its request on the
\* null stream CreateClientStream returns when the connection is down.
NoNullDereference == ~crashed

\* Every Connect() the caller makes returns.
ConnectReturns == app = "connecting" ~> app # "connecting"

\* While Connect() waits for a handshake in progress, the packet reader is
\* reading or will be started by the next RunEventLoop: the loop of
\* Connect() exists to recover from a stateless reject with a new session,
\* which needs the server's answer to be read.
HandshakeCanHearServer ==
  (app = "connecting" /\ Connected(World) /\ ~session.established)
    => \/ packet_reader = "reading"
       \/ packet_reader = "idle" /\ ~packet_reader_started

====
