--------------------------- MODULE GearStreamRelay ---------------------------
(***************************************************************************)
(* The relay client's session delegate (quic_gear_session_delegate.cc):   *)
(* QuicGearSessionDelegate gives every stream the server opens a          *)
(* QuicGearIncomeStreamDelegate, which connects a TCP socket to the local  *)
(* service on the stream's first data, writes the stream's data to the    *)
(* socket (buffering it while the connect or the previous write is in     *)
(* progress) and writes what it reads from the socket back to the stream.  *)
(*                                                                         *)
(* The socket is a TCPClientSocket (not in the repository) over the      *)
(* repository's TCPSocketWin (net/socket/tcp_socket_win.cc), whose         *)
(* Connect, Write and Read complete synchronously or return ERR_IO_PENDING *)
(* and complete later through the callback; the local service (outside   *)
(* the repository) may refuse the connect; a Write may write fewer bytes  *)
(* than asked when PartialWrites holds; a socket whose connect failed     *)
(* fails every Write and Read.  QuartcStream calls OnClose synchronously  *)
(* from Close().                                                           *)
(*                                                                         *)
(* Data is a sequence of tokens <<chunk, byte>>, so the order in which    *)
(* bytes reach the service is visible; the service's k-th answer is k.    *)
(* Per stream, relay[s] holds the delegate's members, the socket's and    *)
(* the service's state, and ghosts: received (the bytes OnReceived        *)
(* delivered), tcp_in (the bytes the service got), replied (the answers   *)
(* written back to the stream).                                            *)
(***************************************************************************)
EXTENDS Integers, Sequences, SequencesExt

CONSTANTS
  Streams,         \* the streams the server opens
  ChunkSizes,      \* sizes of the data one OnReceived delivers
  MaxChunks,       \* OnReceived calls per stream
  MaxResponses,    \* chunks the local service sends back per stream
  ConnectMayFail,  \* the local service may refuse the connect
  PartialWrites    \* a Write may complete with fewer bytes than asked

ASSUME ChunkSizes \subseteq Nat /\ MaxChunks \in Nat /\ MaxResponses \in Nat
       /\ ConnectMayFail \in BOOLEAN /\ PartialWrites \in BOOLEAN

\* net_errors.h
OK == 0
ERR_IO_PENDING == -1
ERR_SOCKET_NOT_CONNECTED == -15
ERR_CONNECTION_REFUSED == -102

NewStream ==
  [opened |-> FALSE, stream_closed |-> FALSE, read_completed |-> FALSE,
   read_times |-> 0, connected |-> FALSE, buffered |-> << >>, wbuf |-> << >>,
   bytes_to_write |-> 0, offset |-> 0, wpending |-> FALSE, rpending |-> FALSE,
   tcp |-> "none", svc |-> << >>, svc_sent |-> 0, svc_eof |-> FALSE,
   received |-> << >>, chunks |-> 0, tcp_in |-> << >>, replied |-> << >>,
   closed_use |-> FALSE]

VARIABLES
  relay,             \* per stream: its delegate, socket and service
  stream_delegates   \* QuicGearSessionDelegate::stream_delegates_

gvars == <<relay, stream_delegates>>

-----------------------------------------------------------------------------
(* QuicGearIncomeStreamDelegate.  Each operator maps a stream's record to *)
(* the records the call can leave, one per outcome of the socket.         *)

LastWriteCompleted(r) == r.offset = r.bytes_to_write

IsConnected(r) == r.connected

ReadyToWriteIgnoresPendingWrite(r) == IsConnected(r)

ReadyToWrite(r) == LastWriteCompleted(r) /\ IsConnected(r)

\* stream_->Close(), which calls OnClose; on a stream already closed the
\* pointer may name a stream the session has destroyed.
StreamClose(r) ==
  [r EXCEPT !.stream_closed = TRUE, !.closed_use = @ \/ r.stream_closed]

WriteResults(n) == IF PartialWrites THEN 1..n ELSE {n}

\* The first k bytes of write_buffer_ reach the service.
Sent(r, k) == [r EXCEPT !.tcp_in = @ \o SubSeq(r.wbuf, 1, k)]

\* TCPSocketWin::Write: WSASend completes at once with the count written,
\* or is pending with waiting_write_ set and the write event watched.  A
\* WSASend error other than WSA_IO_PENDING is not modelled.  Each outcome
\* is [rc, r].
SocketWrite(r) ==
  {[rc |-> ERR_IO_PENDING, r |-> [r EXCEPT !.wpending = TRUE]]}
    \cup {[rc |-> k, r |-> Sent(r, k)] : k \in WriteResults(r.bytes_to_write)}

RECURSIVE TcpWrite(_), OnWriteCompleted(_, _), TrySendBufferedData(_)

\* rc = tcp_socket_->Write(write_buffer_, bytes_to_write_, write_callback_);
\* if (rc != ERR_IO_PENDING) OnWriteCompleted(rc);
TcpWrite(r) ==
  IF r.tcp = "refused" THEN OnWriteCompleted(r, ERR_SOCKET_NOT_CONNECTED)
  ELSE UNION {IF o.rc = ERR_IO_PENDING THEN {o.r} ELSE OnWriteCompleted(o.r, o.rc)
              : o \in SocketWrite(r)}

OnWriteCompleted(r, rc) ==
  IF rc > 0 THEN TrySendBufferedData([r EXCEPT !.offset = @ + rc]) ELSE {r}

TrySendBufferedData(r) ==
  IF ReadyToWrite(r) /\ r.buffered # << >>
  THEN TcpWrite([r EXCEPT !.wbuf = Head(r.buffered), !.buffered = Tail(@),
                          !.bytes_to_write = Len(Head(r.buffered)), !.offset = 0])
  ELSE {r}

WriteOrBufferData(r, data) ==
  IF ~ReadyToWrite(r) THEN {[r EXCEPT !.buffered = Append(@, data)]}
  ELSE TcpWrite([r EXCEPT !.bytes_to_write = Len(data), !.offset = 0,
                          !.wbuf = data])

\* TCPSocketWin::ReadIfReady: recv() returns some of what the service has
\* sent (TCP may deliver it in pieces), 0 once the service closed, or
\* WSAEWOULDBLOCK, which arms waiting_read_ and the read event.  Each
\* outcome is [rc, data, r].
ReadIfReady(r) ==
  IF r.svc # << >>
  THEN {[rc |-> k, data |-> SubSeq(r.svc, 1, k),
         r |-> [r EXCEPT !.svc = SubSeq(@, k + 1, Len(@))]] : k \in 1..Len(r.svc)}
  ELSE IF r.svc_eof THEN {[rc |-> 0, data |-> << >>, r |-> r]}
  ELSE {[rc |-> ERR_IO_PENDING, data |-> << >>, r |-> [r EXCEPT !.rpending = TRUE]]}

\* tcp_socket_->Read on a socket whose connect failed.
SocketRead(r) ==
  IF r.tcp = "refused"
  THEN {[rc |-> ERR_SOCKET_NOT_CONNECTED, data |-> << >>, r |-> r]}
  ELSE ReadIfReady(r)

\* TCPSocketWin::RetryRead, after the read event: ReadIfReady again; if it
\* would still block it stays armed and read_callback_ does not run.
RetryRead(r) == {o \in ReadIfReady(r) : o.rc # ERR_IO_PENDING}

\* Mutant: a read that got data does not arm the next read.
OnReadCompletedNoReread(r, rc, data) ==
  IF r.stream_closed THEN {r}
  ELSE IF rc > 0 THEN {[r EXCEPT !.replied = @ \o data]}
  ELSE IF rc = 0 THEN {[r EXCEPT !.read_completed = TRUE]}
  ELSE {r}

RECURSIVE StartRead(_), OnReadCompleted(_, _, _)

\* rc = tcp_socket_->Read(read_buffer_, ...);
\* if (rc != ERR_IO_PENDING) OnReadCompleted(rc);
StartRead(r) ==
  UNION {IF o.rc = ERR_IO_PENDING THEN {o.r} ELSE OnReadCompleted(o.r, o.rc, o.data)
         : o \in SocketRead(r)}

OnReadCompleted(r, rc, data) ==
  IF r.stream_closed THEN {r}
  ELSE IF rc > 0 THEN StartRead([r EXCEPT !.replied = @ \o data])
  ELSE IF rc = 0 THEN {[r EXCEPT !.read_completed = TRUE]}
  ELSE {r}

AfterConnect(r, rc) == [r EXCEPT !.tcp = IF rc = OK THEN "open" ELSE "refused"]

OnConnectCompletedNoFlush(r, rc) ==
  LET r1 == IF rc < 0 THEN StreamClose(r) ELSE r
  IN StartRead([r1 EXCEPT !.connected = TRUE])

OnConnectCompleted(r, rc) ==
  LET r1 == IF rc < 0 THEN StreamClose(r) ELSE r
  IN UNION {StartRead(v) : v \in TrySendBufferedData([r1 EXCEPT !.connected = TRUE])}

\* TCPSocketWin::DoConnect: a non-blocking connect() fails at once with a
\* mapped error, or gives WSAEWOULDBLOCK and ERR_IO_PENDING; its "connected
\* without waiting" branch is dead code by the MSDN page it cites, but
\* returns OK when the event is already signalled.
ConnectResults ==
  {OK} \cup (IF ConnectMayFail THEN {ERR_CONNECTION_REFUSED} ELSE {})

DoConnect == {ERR_IO_PENDING} \cup ConnectResults

\* TCPSocketWin::DidCompleteConnect: the FD_CONNECT event's error code,
\* mapped; waiting_connect_ is cleared and read_callback_ run.
DidCompleteConnect == ConnectResults

\* TCPSocketWin::Connect: DoConnect, then waiting_connect_ with the
\* callback kept as read_callback_, or DoConnectComplete at once; the
\* result is returned either way.
SocketConnect(r) ==
  {[rc |-> rc,
    r  |-> IF rc = ERR_IO_PENDING THEN [r EXCEPT !.tcp = "connecting"]
           ELSE AfterConnect(r, rc)]
   : rc \in DoConnect}

\* A synchronous failure closes the stream unless OnConnectCompleted left
\* the delegate connected.
CreateTcpClientSocket(r) ==
  UNION {IF o.rc = ERR_IO_PENDING THEN {o.r}
         ELSE {IF ~IsConnected(v) THEN StreamClose(v) ELSE v
               : v \in OnConnectCompleted(o.r, o.rc)}
         : o \in SocketConnect(r)}

OnReceived(r, data) ==
  IF Len(data) = 0 THEN {r}
  ELSE LET rs == IF r.read_times = 0 THEN CreateTcpClientSocket(r) ELSE {r}
       IN {[v EXCEPT !.read_times = @ + 1]
           : v \in UNION {WriteOrBufferData(u, data) : u \in rs}}

-----------------------------------------------------------------------------
(* QuicGearSessionDelegate, and the events that call the delegates.       *)

GearInit ==
  /\ relay = [s \in Streams |-> NewStream]
  /\ stream_delegates = {}

\* ~QuicGearSessionDelegate deletes every stream delegate, whose socket
\* closes and detaches its Core, so no callback of it runs again; the next
\* client's QuicGearSessionDelegate starts empty.
DeleteSessionDelegate ==
  /\ relay' = [s \in Streams |-> NewStream]
  /\ stream_delegates' = {}

Update(s, rs) == \E v \in rs : relay' = [relay EXCEPT ![s] = v]

\* OnIncomingStream: delete the delegates of closed streams (which
\* destroys their sockets and cancels their callbacks), then give the new
\* stream a delegate.
OnIncomingStream(s) ==
  /\ ~relay[s].opened
  /\ stream_delegates' = {t \in stream_delegates : ~relay[t].stream_closed} \cup {s}
  /\ relay' = [relay EXCEPT ![s].opened = TRUE]

\* The stream delivers data to OnReceived.
StreamData(s) ==
  LET r == relay[s] IN
  /\ s \in stream_delegates /\ ~r.stream_closed /\ r.chunks < MaxChunks
  /\ \E n \in ChunkSizes :
       LET data == [j \in 1..n |-> <<r.chunks + 1, j>>]
       IN Update(s, OnReceived([r EXCEPT !.chunks = @ + 1,
                                         !.received = @ \o data], data))
  /\ UNCHANGED stream_delegates

\* The peer closes the stream: OnClose.
OnClose(s) ==
  /\ relay[s].opened /\ ~relay[s].stream_closed
  /\ relay' = [relay EXCEPT ![s].stream_closed = TRUE]
  /\ UNCHANGED stream_delegates

\* connect_callback_ runs.
ConnectCompleted(s) ==
  /\ s \in stream_delegates /\ relay[s].tcp = "connecting"
  /\ \E rc \in DidCompleteConnect :
       Update(s, OnConnectCompleted(AfterConnect(relay[s], rc), rc))
  /\ UNCHANGED stream_delegates

\* write_callback_ runs with the bytes the pending Write wrote.
WriteCompleted(s) ==
  LET r == [relay[s] EXCEPT !.wpending = FALSE] IN
  /\ s \in stream_delegates /\ relay[s].wpending
  /\ \E k \in WriteResults(r.bytes_to_write) : Update(s, OnWriteCompleted(Sent(r, k), k))
  /\ UNCHANGED stream_delegates

\* The read event is signalled with FD_READ or FD_CLOSE (TCPSocketWin::
\* DidSignalRead): RetryRead calls ReadIfReady again and runs read_callback_
\* with its result.  A signal without events only re-arms the watch, and a
\* retry that finds nothing stays pending: neither changes the state.
ReadCompleted(s) ==
  LET r == [relay[s] EXCEPT !.rpending = FALSE] IN
  /\ s \in stream_delegates /\ relay[s].rpending
  /\ \E o \in RetryRead(r) : Update(s, OnReadCompleted(o.r, o.rc, o.data))
  /\ UNCHANGED stream_delegates

\* The local service answers on an open connection, or closes it.
ServiceSends(s) ==
  LET r == relay[s] IN
  /\ s \in stream_delegates /\ r.tcp = "open" /\ ~r.svc_eof
  /\ r.svc_sent < MaxResponses
  /\ relay' = [relay EXCEPT ![s].svc = Append(@, r.svc_sent + 1),
                            ![s].svc_sent = @ + 1]
  /\ UNCHANGED stream_delegates

ServiceCloses(s) ==
  /\ s \in stream_delegates /\ relay[s].tcp = "open" /\ ~relay[s].svc_eof
  /\ relay' = [relay EXCEPT ![s].svc_eof = TRUE]
  /\ UNCHANGED stream_delegates

\* The callbacks the socket runs on the client's message loop.
IoCompletion(s) == ConnectCompleted(s) \/ WriteCompleted(s) \/ ReadCompleted(s)

GearNext ==
  \E s \in Streams :
    \/ OnIncomingStream(s) \/ StreamData(s) \/ OnClose(s)
    \/ IoCompletion(s) \/ ServiceSends(s) \/ ServiceCloses(s)

-----------------------------------------------------------------------------

Tokens == (1..MaxChunks) \X (1..Max(ChunkSizes))

\* The service gets a prefix of the stream's bytes, in the stream's order:
\* data buffered during the connect or a write in progress is never
\* overtaken by later data written directly, and write_buffer_ is never
\* refilled under a write in progress.
RelayedInOrder == \A s \in Streams : IsPrefix(relay[s].tcp_in, relay[s].received)

\* The delegate never calls its stream after the stream closed (the
\* session may have destroyed it): OnConnectCompleted closes the stream on
\* a failed connect without testing stream_closed_.
NoClosedStreamUse == \A s \in Streams : ~relay[s].closed_use
====
