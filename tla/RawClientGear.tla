---------------------------- MODULE RawClientGear ----------------------------
(***************************************************************************)
(* The relay client as frtc.cpp runs it: RawClientConnect's Connect() and *)
(* serve loop, and the QuicGearSessionDelegate that ResetSessionDelegate  *)
(* installs and CreateQuicRawSession gives every session.  The session's  *)
(* stream events and the TCP socket's callbacks run on the client's one    *)
(* message loop, so they happen only inside the serve loop's               *)
(* WaitForEvents, while the connection is up.                             *)
(***************************************************************************)
EXTENDS RawClientConnect, GearStreamRelay

VARIABLE retry_times   \* frtc.cpp's retry_times

\* const size_t max_retry_times = 1;
max_retry_times == 1

allvars == <<vars, gvars, retry_times>>

\* The caller is in while (client.connected()) client.WaitForEvents();
Serving == app = "serving" /\ stack = << >> /\ ~crashed /\ Connected(World)

\* A step of the client alone.
ClientStep(A) == A /\ UNCHANGED <<gvars, retry_times>>

\* A callback the client's message loop runs while it serves.
RelayStep(A) == Serving /\ A /\ UNCHANGED <<vars, retry_times>>

RelayInit == Init /\ GearInit /\ retry_times = 0

\* A failed Connect() continues the do-while loop and the serve loop ends
\* when the connection closes; both reach while (retry_times++ <
\* max_retry_times), which builds a new client after destroying the old one
\* (with it session_delegate_, so ~QuicGearSessionDelegate deletes every
\* stream delegate and closes its socket).  A failed Initialize() returns
\* from main instead, before initialized_ is set.
Retry ==
  /\ app = "done" /\ initialized
  /\ retry_times < max_retry_times
  /\ retry_times' = retry_times + 1
  /\ Become(InitWorld)
  /\ DeleteSessionDelegate

RelayNext ==
  \/ ClientStep(Initialize) \/ ClientStep(ConnectStep) \/ ClientStep(Serve)
  \/ Retry
  \/ \E s \in Streams :
       \/ RelayStep(OnIncomingStream(s)) \/ RelayStep(StreamData(s))
       \/ RelayStep(OnClose(s)) \/ RelayStep(ConnectCompleted(s))
       \/ RelayStep(WriteCompleted(s)) \/ RelayStep(ReadCompleted(s))
       \/ RelayStep(ServiceSends(s)) \/ RelayStep(ServiceCloses(s))

\* Connect() runs to its end, and the socket completes the operations it
\* accepted while the loop runs.  Nothing forces the connection to close:
\* the peer and the alarms may leave it up for ever.
RelayFairness ==
  /\ WF_allvars(ClientStep(ConnectStep))
  /\ \A s \in Streams : WF_allvars(RelayStep(IoCompletion(s)))

RelaySpec == RelayInit /\ [][RelayNext]_allvars /\ RelayFairness

MaxBytes == MaxChunks * Max(ChunkSizes)

\* Every byte a stream delivers reaches the local service while the
\* connection is up, unless the service refused the connect or the stream
\* was reset: buffered data is flushed by the connect and write callbacks.
StreamDataRelayed ==
  \A s \in Streams, n \in 1..MaxBytes :
    Len(relay[s].received) >= n
      ~> \/ Len(relay[s].tcp_in) >= n
         \/ relay[s].tcp = "refused" \/ relay[s].stream_closed \/ ~Serving

\* Every answer the local service sends reaches the stream while the
\* connection is up, unless the stream was reset: the first read is armed
\* only by OnConnectCompleted, and OnReadCompleted must arm the next one
\* after every answer, whether the read completed at once or later.
RepliesRelayed ==
  \A s \in Streams, n \in 1..MaxResponses :
    relay[s].svc_sent >= n
      ~> \/ Len(relay[s].replied) >= n
         \/ relay[s].stream_closed \/ ~Serving

====
