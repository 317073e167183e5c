# TLA+ models of libquic: reliability, packet protection, relay and scheduling

This directory holds TLA+ specifications of the parts of libquic (the QUIC
library under `src/src/quic`) whose correctness depends on orderings that unit
tests rarely reach, together with the TLC configurations that check them.
Each model is written from the C++ source. `PROJECT.json` maps every
definition to the lines it translates.

## The system

`spec.md` names three core components. Each is used by the connection on its
single thread (spec.md section 5):

| Component | Source | State kept |
|---|---|---|
| SentPacketLedger | `net/quic/core/quic_unacked_packet_map.cc` | a deque of `QuicTransmissionInfo` indexed by `pn - least_unacked_`; `largest_sent_packet_`, `largest_observed_`, `bytes_in_flight_` and `pending_crypto_packet_count_` |
| ControlFrameLedger | `net/quic/core/quic_control_frame_manager.cc` | `least_unacked_`, a deque of saved control frames (an acked one keeps id 0), and the pending-retransmission ids |
| PacketProtector | `net/quic/core/crypto/aead_base_{en,de}crypter.cc`, `quic_decrypter.cc` | key, `iv_` (a prefix or a full IV), the nonce mode, `have_preliminary_key_` |

How they interact:

- The sender seals each packet with the encrypter, under a nonce built from
  the packet number.
- It then registers the packet with the unacked map, and control frames with
  the control frame manager.
- Acks and loss detection drive both ledgers.
- Each ledger prunes entries from its front once they become useless.
- The receiver hands each header's diversification nonce to the decrypter,
  then decrypts.

The callers are not in this repository: the sent-packet manager, the
session, the framer and the key derivation (`CryptoUtils`). Their handlers
are modelled from spec.md and marked `spec_modelled` in the map.

The rest of the repository is listed under "components" in `PROJECT.json`:

- the relay tool (`net/tools/quic/relay`): server read loop, handshaker,
  client connect loop, session/connection/stream;
- the base scheduling code: RunLoop, Thread, the simple thread pool,
  PostTaskAndReply, task runners;
- the SSL session cache;
- the gear session delegate (`src/tests/linux`), which frtc.cpp installs in
  the client: it bridges each stream the relay server opens to a TCP
  connection to a local service;
- platform, string and file utilities.

## Modules

| Module | Models | Kind |
|---|---|---|
| `UnackedPacketMap` | `QuicUnackedPacketMap` | operators from a map record to a map record, one per method |
| `SentPacketLedger` | the sent-packet manager's use of the map | state machine; `M == INSTANCE UnackedPacketMap` |
| `ControlFrameManager` | `QuicControlFrameManager` | one action per notification |
| `ControlFrameLedger` | the session and network around it | `EXTENDS ControlFrameManager` |
| `ControlFrameDelivery` | what the control frame manager promises its session, with no storage layout | abstract specification; `ControlFrameLedger` refines it |
| `AeadProtector` | encrypter, decrypter and `DiversifyPreliminaryKey` | operators on a protector record |
| `NullProtector` | `NullDecrypter` and its paired `NullEncrypter` | operators on a crypter record |
| `ProtectedChannel` | one direction of one encryption level | state machine over `AeadProtector` and `NullProtector` |
| `RawServerReadLoop` | `QuicRawServer` socket read loop, posted tasks, `Shutdown` | state machine; each handler's call chain is one action |
| `RawServerHandshaker` | `QuicRawServerHandshaker` with its crypto-config callbacks | state machine; callbacks run synchronously or later |
| `RawClientConnect` | `QuicRawClient::Initialize`, `Connect` (nested through `WaitForEvents`), `Disconnect`, the packet reader | state machine; Connect activations are a stack of frames |
| `GearStreamRelay` | `QuicGearSessionDelegate` and its per-stream `QuicGearIncomeStreamDelegate` | state machine; each callback's synchronous call chain is one step, over mutually recursive operators |
| `RawClientGear` | the client serving with the gear delegate installed | `EXTENDS RawClientConnect, GearStreamRelay` |
| `RunLoopPump` | `RunLoop` nested Run/Quit over `MessagePumpForIO`, and a posting thread | state machine of two threads; run loops are a stack of pump frames |
| `ThreadLifecycle` | `base::Thread`: Start, StopSoon, Stop, ThreadMain | `EXTENDS RunLoopPump`; the owner is the pump's posting thread |
| `SimpleThreadPool` | `DelegateSimpleThreadPool` and its `DelegateSimpleThread` workers | state machine of an owner and `NumThreads` workers |
| `SslClientSessionCache` | `SSLClientSessionCache` with its `Entry` and the `MRUCache` it uses | state machine; each locked method is one step, over operators for the entry and cache calls |
| `MC_*` | model values and bounds for TLC | |

### UnackedPacketMap and SentPacketLedger

The map is one record, `upm`. `packets[i]` is the entry for packet number
`least_unacked + i - 1`. Every method that changes state is an operator
`map -> map`. A caller's handler, which calls several methods in a row on one
thread, is their composition inside one action. For example, `OnAck` is
`IncreaseLargestObserved`, then `MarkPacketHandled`, then
`RemoveObsoletePackets`.

A frame is abstracted to the data it carries: `<<first packet number,
stream>>`. `bytes_in_flight_` and `pending_crypto_packet_count_` keep their
unsigned wrap-around (`Wrap`, modulo `CounterModulus`).

The caller's actions:

- `SendNewPacket`: data on any set of streams; a packet without data is
  ack-only and not in flight; packet numbers may skip.
- `SendRetransmission`: the write may block. The serialized packet is then
  queued while acks keep arriving, and `WriteQueuedPacket` writes it later.
- `OnAck`: any packet, any number of times, also after it was pruned.
- `OnLoss`: a tracked in-flight packet below `largest_observed`.
- `RetransmitAllUnacked`: the bulk retransmission of a key or version change.
- `CancelStream`: a stream reset.

### ControlFrameManager and ControlFrameLedger

A saved frame is its id; 0 (`kInvalidControlFrameId`) marks it acked. The
manager's variables are the C++ members. `aborted` records a throw from
`deque::at`, after which nothing runs. `OnControlFrameLost` keeps the code's
order: the `at()` read comes before the upper-bound test.

The session side:

- sends new frames, in id order unless `InOrderSends` is FALSE;
- keeps a bag of copies in flight and a bag of copies declared lost that may
  still be acked;
- re-sends a pending id, reporting it with `OnControlFrameSent` again.

The container order of `pending_retransmissions_` is declared in a header
that is not in the repository. The model therefore lets
`NextPendingRetransmission` return any pending id.

`ControlFrameDelivery` is the abstract specification of the manager. Ids are
handed out in order. An id stays outstanding until its first ack. Only an
outstanding id can wait for retransmission. A loss marks it pending, and a
re-send or the ack clears the mark. `ControlFrameLedger` instantiates it as
`Delivery == INSTANCE ControlFrameDelivery WITH ...`, using this mapping:

- `next_id` is the end of the tracked range;
- `outstanding` is the ids in `least_unacked_ .. end` whose deque slot is
  not 0;
- `pending` is `pending_retransmissions_`.

`ImplementsControlFrameDelivery == Delivery!Spec` is checked as a property.
It fails if an ack leaves the id pending, or if a re-send or a duplicate ack
moves `least_unacked_` wrongly. Notifications the manager ignores (a late or
duplicate ack, an out-of-range id) are stuttering steps of the abstract
specification.

### AeadProtector and ProtectedChannel

Nonces are built byte by byte, as `EncryptPacket` and `DecryptPacket` build
them:

- non-IETF mode copies the packet number in little-endian order after the
  prefix;
- IETF mode XORs its big-endian bytes into the IV, using Bitwise `^^`.

The AEAD is ideal: a ciphertext records its key and nonce, and it opens
exactly when both match. HKDF is deterministic: the derived key is the
record of its inputs, and the derived prefix is `KdfPrefix`.
`SetDiversificationNonce` keeps the code's order: `SetKey` runs first, then
`SetNoncePrefix`, and the flag is cleared last.

`ProtectedChannel` starts after the key derivation, in one of three setups
(`Installed`, which follows `QuicRawServerHandshaker`'s choice):

- a gQUIC cipher: the server uses the diversified key, the client holds the
  preliminary key;
- a TLS cipher suite: IETF nonces and a full IV;
- the null crypters. `USE_QUIC_ENCRYPTION` is defined nowhere in the
  repository, so this is the setup the relay server really installs. A null
  packet is a hash of the associated data and the plaintext. After version
  35 the hash mixes in the sender's role (`ComputeHash`), so a decrypter
  accepts only packets sealed by the other side. The diversification nonce
  is accepted and ignored.

The QUIC version is chosen from `Versions` at the start.

Then the server seals packets with increasing numbers. The client receives
them in any order and any number of times, passing the header's
diversification nonce first.

### RawServerReadLoop

The state is the server's members (`socket_` open or null, `read_pending_`,
`synchronous_read_count_`, `read_buffer_`), the dispatcher's buffered-CHLO
count, and the message loop's posted tasks as a FIFO sequence. The socket has a
receive queue of datagrams. A `RecvFrom` with data returns it synchronously;
an empty queue returns `ERR_IO_PENDING` and arms an asynchronous read.

`StartReading` and `OnReadComplete` call each other. They are RECURSIVE
operators from a server record to the set of records the chain can end in, so
one action is a whole call chain of the code: `AsyncReadComplete` (the socket's
callback), `RunStartReadingTask` and `RunOnReadCompleteTask` (posted tasks).
The 32-read budget (`kMaxSynchronousReads`) makes a chain yield by posting
`OnReadComplete`. `ProcessBufferedChlos` takes up to 16 CHLOs per call. A
datagram is abstracted to its length and whether it carries a CHLO. A socket
error is a datagram with a negative result.

### RawServerHandshaker

The handshaker's members, and the connection parts it touches: closed,
`saving_crypto_packets`, the encryption level, the decrypters and the
diversification nonce. The crypto config is not in the repository. Its
`ValidateClientHello`, `ProcessClientHello` and `BuildServerConfigUpdateMessage`
either run the callback at once or keep it in `callbacks` and run it later
(`RunCallback`). The result of processing is any of the outcomes the config
can produce: an error, REJ, SREJ, or SHLO with the peer hello accepted or not.
`CancelOutstandingCallbacks` and the destructor are modelled as the code
orders them. A callback that runs into a freed handshaker sets `uaf`.

### RawClientConnect

The state is the client's members (`packet_reader_` none/idle/reading/stopped,
`packet_reader_started_`, `writer_`, `connected_or_attempting_connect_`, the
two statistics counters, `connection_error_`), the current session (connected,
encryption established, hellos sent, its close error) and `frtc.cpp`'s state
(`app`). `Connect` calls `WaitForEvents`, which on a stateless reject calls
`Connect` again, so the activations of `Connect` are a sequence of frames;
`ConnectStep` runs the top frame up to its next wait and one
`RunEventLoop`. `RunEventLoop` starts the reader if it is not started, then
runs 1 to `MaxEventsPerRun` network events: a server REJ, SHLO or SREJ, a
handshake timeout, or a read error. A read error may complete synchronously
inside `StartReading`, which is how `Disconnect` can destroy the reader while
the client goes on using it (`crashed`). `history` keeps the replaced sessions
so the hellos of all sessions can be summed. `InitWorld` is a newly
constructed client; `Become(InitWorld)` is how `RawClientGear`'s `Retry`
builds the next one. After a successful outermost `Connect`, `SendRequest` is
`frtc.cpp` sending its request: `CreateClientStream` returns `nullptr`
unless the client is connected, and `SendData` on it is a null
dereference (`crashed`, checked by `NoNullDereference`).

### GearStreamRelay and RawClientGear

`relay[s]` holds one stream's delegate members: `connected_`,
`stream_closed_`, `read_completed_`, `read_times_`, `buffered_writes_`,
`write_buffer_` with `bytes_to_write_` and `bytes_written_offset_`. It also
holds whether a write or read callback is armed, and the socket state
(none, connecting, open, refused). The local service's unread answers and
ghost histories are kept too: `received` (what `OnReceived` got), `tcp_in`
(what the service got) and `replied` (what went back to the stream).
`stream_delegates` is the session delegate's set.

The socket is a `TCPClientSocket` over `TCPSocketWin`, the repository's only
TCP socket (`tcp_socket_win.cc`). `SocketConnect` (over `DoConnect`)
and `ReadIfReady` are its `Connect` and `ReadIfReady`. `SocketWrite` is its `Write`. A connect or a write either
completes at once or leaves `waiting_connect_` or `waiting_write_` set (a
`WSASend` error is not modelled); a read returns some nonempty prefix of
the waiting bytes, 0 at end of stream, or `ERR_IO_PENDING`. A pending read
is retried when the OS signals it (`RetryRead`), and is never pending
again then.

A socket operation is an operator that returns every record the call can
leave. It completes synchronously, running its completion handler at once,
or returns `ERR_IO_PENDING` and arms a callback. `TcpWrite`,
`OnWriteCompleted` and `TrySendBufferedData` are mutually recursive, as in
the code, and so are `StartRead` and `OnReadCompleted`. The actions are the
callers:

- `OnIncomingStream`;
- the stream delivering data (`OnReceived`) or closing (`OnClose`);
- the three socket callbacks;
- the service answering or closing.

`RawClientGear` lets these actions run only while `frtc.cpp` is in its
serve loop with the connection up. The delegate runs on the client's
message loop, and the loop runs only inside `WaitForEvents`. `Retry` is
`frtc.cpp`'s `while (retry_times++ < max_retry_times)`: once the client is
done it builds a fresh client. Destroying the old one runs
`~QuicGearSessionDelegate` (`DeleteSessionDelegate`), which deletes every
stream delegate and its socket.


The loop thread's state: one record per `RunLoop` (type, `quit_called_`,
`quit_when_idle_received_`, `running_`), and the stack of `MessagePumpWin`
`RunState`s, one per active loop, each with `should_quit` and the point
`DoRunLoop` has reached (`work`, `io`, `idle`, `wait`). The pump's
`work_state_` and the completion port (a count of kicks) are shared with a
posting thread, which appends a task to the incoming queue and then calls
`ScheduleWork` in two steps: the `InterlockedExchange`, then
`PostQueuedCompletionStatus`, which may fail when `PostMayFail`. A task can
be plain, quit the root loop, quit it when idle, quit the innermost loop, or
run a nested loop that allows nestable tasks or one that quits when idle.
`MessageLoop` (the pump's delegate) is not in the repository; its `DoWork`
is modelled as running the head task when application tasks are allowed.
`null_state` records a failed post while `state_` is null.

### ThreadLifecycle

`ThreadLifecycle` extends `RunLoopPump` with `Thread`'s members:
`message_loop_` (0 or the id of a MessageLoop), `stopping_`, `running_`,
`thread_` (a handle or not), `start_event_`. It also tracks the set of
MessageLoops not yet destroyed, the new thread's point in `ThreadMain`, and
the owner's point in `Stop` or `WaitUntilThreadStarted`.

- The owner is the pump's posting thread. Its `PostTask`, and the
  `ThreadQuitHelper` that `StopSoon` posts (the `quit_idle_root` task, which
  calls `QuitWhenIdle` on the root loop), both go through `ScheduleWork`.
- A successful `StartWithOptions` creates a MessageLoop. It also resets the
  pump and run-loop state (`FreshLoop`). A failed thread creation destroys
  the loop at once.
- `ThreadMain` is three steps: everything up to `Run`, the reset of
  `running_` with `CleanUp`, and the reset of `message_loop_` with the
  loop's destruction.
- `StopSoon` is two steps, because it reads `message_loop_` twice: once for
  its test and once in `task_runner()`.
- `Stop` then waits in `Join` for `ThreadMain` to end.

### SimpleThreadPool

`SimpleThreadPool` models `base/threading/simple_thread.cc`. Its variables
are the pool's members: `delegates_` (a sequence of work items and nulls),
`dry_`'s signalled flag, and each thread's `event_`. It also tracks the
owner's point in `Start`/`JoinAll`, each worker's point in `ThreadMain` and
`Run`, and ghost counts of the work queued and run.

- `AddWork` is one step, because it runs under `lock_`. It pushes
  `repeat_count` copies and leaves `dry_` signalled.
- `Start` creates the threads one at a time. `SimpleThread::Start` waits for
  the new thread's `ThreadMain` to signal `event_`.
- `JoinAll` is `AddWork(nullptr, num_threads_)`, followed by joining the
  threads in index order.
- A worker's loop is three steps:
  1. `dry_.Wait()` returns;
  2. the `lock_` section re-checks `dry_`, pops the front, and resets `dry_`
     if the queue is now empty;
  3. `work->Run()` runs, unless the delegate was null, in which case the
     worker quits.
- Between steps 1 and 2, another worker may drain the queue. `empty_pop`
  records a `front()` on an empty queue, which is undefined behaviour.

Nothing in the repository uses the pool, and its header is not in the
repository. The model follows the code's own order: `AddWork`s, `Start`,
more `AddWork`s, then `JoinAll`.

### SslClientSessionCache

`SslClientSessionCache` models `net/ssl/ssl_client_session_cache.cc`. Its
variables are `cache_` and `lookups_since_flush_`, and the wall clock. The
cache is a sequence of key/entry pairs, most recently used first. An entry
holds the two slots `sessions[0]` and `sessions[1]`. A session is a record
of an id, `SSL_SESSION_should_be_single_use`, its time and its timeout.
Ghost variables record the sessions inserted, how often each was handed
out (counted up to 2).

- Every public method takes `lock_`, so each is one step. `Lookup`'s step
  includes the counter, the periodic `FlushExpiredSessions`, `Get`, `Pop`,
  `ExpireSessions`, the `Erase` and the final `IsExpired` test.
- `Entry::Push`, `Pop` and `ExpireSessions`, `IsExpired` and
  `FlushExpiredSessions` are operators, each a translation of its method.
- `MRUCache` (`base/containers/mru_cache.h`) is not in the repository. The
  model follows its documented behaviour: `Get` moves a hit to the front,
  and `Put` shrinks the cache to `max_entries - 1` entries before it
  inserts at the front.
- The clock may take any of its values at any time, backwards included, as
  the wall clock `base::DefaultClock` may.
- No property states that a handed-out session is within its lifetime:
  the test at line 52 is exactly that statement, so such a property would
  only restate the guard. The expiry tests are modelled because they decide
  which entries the flush and `Lookup` erase, which the single-use property
  depends on.

## Runs

| Run | Result | What it shows |
|---|---|---|
| `ledger_safety` | pass, about 970k states | `BytesInFlightConserved`: the counter equals the sum over in-flight entries. `DataNeverForgotten`: data not yet acked and on a stream not reset is held by some entry. `FramesOwnedOnce`: no frame is in two entries. All three hold across blocked writes, late and repeated acks, losses, a bulk retransmission and resets. |
| `control_frames` | pass, 2,955 states | `NoFrameForgotten`, `NeverAborted`, the liveness `EveryFrameAcked`, and `ImplementsControlFrameDelivery`: the manager refines `ControlFrameDelivery`. |
| `read_loop_faults` | pass, about 219k states | `ReadLoopArmed`: while the socket is open exactly one read is outstanding (an async read or a posted completion). `SyncReadsBounded`: a chain does at most 33 reads before it yields. Liveness `DatagramsEventuallyRead`. 35 datagrams exceed the 32-read budget; one socket error shuts down. |
| `read_loop_chlos` | pass, 887 states | `ChlosScheduled`: buffered CHLOs always have a `StartReading` posted or a chain about to process them; liveness `ChlosEventuallyProcessed`. |
| `read_loop_null_socket` | violation of `NoNullSocketUse` | Finding 1 below. |
| `server_handshake` | pass, 1,569 states | `CallbackPointersValid`: the handshaker's callback pointers name live callbacks; `NoUseAfterFree` across cancellation and destruction; `HandshakeMessagesProtected`: SHLO goes out at INITIAL, SCUP at FORWARD_SECURE, the rest unencrypted; liveness `ChloEventuallyFinished`. |
| `client_connect` | pass, 34,680 states (`MC_RawClientGear`) | `RelayedInOrder`: the local service gets a prefix of the stream's bytes in order, across buffered and direct writes and synchronous and later completions. `StreamDataRelayed`: every byte reaches the service while the connection is up, unless the connect was refused or the stream reset. `ConnectSuccessEstablished`: `Connect` returns true only with encryption established. `NoNullDereference`: the destroyed reader is never used. `ConnectReturns`: every `Connect` returns. `RepliesRelayed`: every answer of the local service reaches the stream while the connection is up, unless the stream was reset; `OnReadCompleted` must re-arm the read after each answer. The run includes `frtc.cpp`'s retry with a fresh client. |
| `client_srej_deaf` | violation of `HandshakeCanHearServer` | Finding 2 below. |
| `thread_run_loop` | pass, 143,382 states, creation and posts may fail | `AtMostOneKick`: at most one kick waits in the completion port, and only while `work_state_` is `HAVE_WORK`, however the posting thread's `InterlockedExchange` races the loop thread's reset to `READY`. `IsRunningAccurate`: `IsRunning()` holds while the loop runs, and not after `Stop` joined. `OwnerCallsReturn`: `Stop` and `WaitUntilThreadStarted` return. Also the pump's `NoSpuriousReturn` (a loop returns only after its own Quit), `NoSleepWithWork` (the pump never sleeps with a task queued), `QuitHonoured` (an innermost quit loop returns) and `TasksEventuallyRun`. The last three allow for a failed post that left a task without a kick. |
| `thread_pool` | pass, 1,326 states | `NoEmptyPop`: no worker pops an empty queue, although `dry_.Wait()` and `lock_` are separate steps. `WorkNeverStranded`: `dry_` is signalled while work is queued. Liveness `JoinAllCompletes`: `JoinAll` returns, and by then every queued delegate has run. |
| `ssl_session_cache` | pass, 531,138 states | `SingleUseServedOnce`: no single-use session is handed out twice, across `Insert`s on one key, `Pop`, `Erase` of an emptied entry, flushes and evictions. |
| `packet_protection` | pass, 1,296 states | `NonceMatchesReference`: nonces equal an independent definition (digits, XOR, reversal). `NoncesUnique`: no (key, nonce) pair repeats. `NoAuthenticPacketRefused`: every sealed packet opens at the client in any delivery order, in the gQUIC, TLS and null setups. |

Every property of a passing run has a mutant in `PROJECT.json`. A mutant is
an operator placed next to the definition it replaces, with a plausible bug:
a dropped guard, an off-by-one, a missing erase, a misplaced increment, a
truncated packet number or an inverted test. TLC finds each property
violated under its mutant.

### Findings

1. **`StartReading` uses `socket_` after `Shutdown` reset it**
   (`quic_raw_server.cc:192`, `:178`, `:200`). The trace:
   1. A CHLO is buffered.
   2. The async read completes, and with CHLOs buffered `StartReading` posts
      itself.
   3. A socket error arrives next, and `OnReadComplete` calls `Shutdown`,
      which resets `socket_`.
   4. The posted `StartReading` runs and calls `socket_->RecvFrom` on null.
      Nothing checks `socket_` first.
2. **After a stateless reject the client no longer reads**
   (`quic_raw_client.cc:484`, `:523`). The SREJ closes the connection, so
   `OnPacket` returns false and the packet reader stops reading. The nested
   `Connect` starts a new session. `StartPacketReaderIfNotStarted` sees
   `packet_reader_started_` still true and does not restart the reader. The
   new session can only time out, although the comment at lines 141-143 says
   the loop is there to recover from a stateless reject.
Nine more defects are reachable in the models. They are listed as hazards
in `PROJECT.json`, without a run of their own:

- **`pending_crypto_packet_count_` undercounts, then wraps**
  (`quic_unacked_packet_map.cc:85`, `:59-62`). A handshake packet is sent
  and marked for retransmission, the retransmission's write blocks, and
  the original is acked and pruned. When the queued packet is written,
  `TransferRetransmissionInfo` returns early: the new entry keeps
  `has_crypto_handshake`, but the count is incremented only for original
  transmissions. Acking that entry decrements past zero, and
  `HasPendingCryptoPackets()` stays true. With the `ledger_safety`
  constants, `CryptoStream = c` and `CryptoCountExact` as the only
  invariant, TLC finds the violation in 6 states. The trace depends on the
  order of the callers, which the model takes from spec.md.

- **`OnControlFrameLost` throws on an id it never saved**
  (`quic_control_frame_manager.cc:95`). The `at()` read comes before the
  range test at line 100, while spec.md 4.3 says such ids are ignored.
  `OnControlFrameSent` silently drops a frame sent out of id order (line 26),
  and a loss notification for that frame then aborts. `control_frames` sends
  in id order, as the session does. With `InOrderSends = FALSE`, TLC finds
  `NeverAborted` violated.
- **`AddWork(d, 0)` wakes a worker on an empty queue**
  (`simple_thread.cc:119`). `AddWork` signals `dry_` even when it pushed
  nothing. A waiting worker passes the re-check and calls `front()` on an
  empty `std::queue`. With 0 in `RepeatCounts`, TLC finds `NoEmptyPop`
  violated in 7 states. No caller in the repository passes 0.

- **A short TCP write stops the relay for good**
  (`quic_gear_session_delegate.cc:231`). `OnWriteCompleted` adds the count
  to `bytes_written_offset_` and never writes the rest. `ReadyToWrite()`
  then stays false, and every later chunk is queued for ever. The
  repository's socket layer does report short writes:
  `tcp_socket_win.cc:768` rejects only counts above the buffer length.
  `client_connect` lets every write complete in full. With
  `PartialWrites = TRUE`, TLC finds `StreamDataRelayed` violated after one
  1-byte write of a 2-byte chunk.
- **A refused connect closes a stream that may already be gone**
  (`quic_gear_session_delegate.cc:117`, `:120`). `OnConnectCompleted`
  calls `stream_->Close()` without testing `stream_closed_`. It then sets
  `connected_` anyway, so the `!Connected()` test at line 260 never holds,
  and buffered data goes to the failed socket. `GearStreamRelay`'s
  `NoClosedStreamUse` is violated in 9 states: data, the peer resets the
  stream, the connect is refused.

- **Handshake confirmed on a closed connection**
  (`quic_raw_server_handshaker.cc:125`, `:268`). `OnHandshakeMessage`
  closes the connection when a second CHLO arrives during validation, but
  leaves the validation callback armed. When it completes with SHLO, the
  handshaker installs keys and sets `handshake_confirmed_`, although the
  SHLO could not be sent. `RawServerHandshaker`'s `ConfirmedOnlyWithShlo`
  states the property.
- **A failed `ScheduleWork` post writes through a null `state_`**
  (`message_pump_win.cc:110`). When `PostQueuedCompletionStatus` fails,
  the posting thread increments `state_->schedule_work_error_count`, and
  `state_` is null until the loop thread enters `MessagePumpWin::Run`.
  `RunLoopPump`'s `NoNullRunStateUse` fails in three steps: post before
  the loop starts, the exchange finds READY, the post fails.
- **`StopSoon` can post through a null `message_loop_`**
  (`thread.cc:166`, `:179`). The test at line 166 and the `task_runner()`
  at line 179 read `message_loop_` separately. If the thread's root loop
  quit by itself, `ThreadMain` resets the member (line 294) in between.
  `ThreadLifecycle`'s `NoNullLoopPost` states the property. Under the
  `thread_run_loop` constants TLC finds it violated in 12 steps:
  - a posted `quit_root` task ends the root loop;
  - `StopSoon` passes its test during `ThreadMain`'s clean-up;
  - `ThreadMain` nulls `message_loop_`;
  - the post then dereferences it.
- **`Stop` hangs after a failed post** (`thread.cc:159`). If the
  `PostQueuedCompletionStatus` of the quit task fails, the pump sleeps with
  the task queued, and `Join` waits for ever. `OwnerCallsReturn` allows for
  this case, so the run still checks every other path.

## Bounds and why they suffice

- **Ledger:** packet numbers up to 4; two streams, one of them the crypto
  stream; sizes {1, 2}; one bulk retransmission; `CounterModulus` 256. That
  is enough for a packet retransmitted twice, a gap from a skipped number, a
  blocked write overtaken by an ack, and a loss followed by a late ack.
- **Control frames:** 3 ids, each lost at most twice. That covers a
  retransmission of a retransmission, a late ack racing a pending re-send,
  and trimming across several acked frames.
- **Protection:** packet numbers 1, 255, 256 and 65537 cross the first byte
  boundaries. One IV has all bits set, so every XOR flips. There are two
  diversification nonces. TLC's integers stop at 2^31, so the upper four
  bytes of a packet number are zero in every run (`ShiftRight`). Versions
  35 and 39 are on both sides of the null hash's change at 35.

- **Read loop:** 35 datagrams, so one chain reaches the 32-read budget
  and yields. One fault, because `Shutdown` ends the loop. Two buffered CHLOs
  are enough for the CHLO run, since one `ProcessBufferedChlos` takes 16.
- **Handshaker:** three client messages and two SCUP requests. That covers a
  second CHLO while the first is still validating, a SCUP racing a CHLO, and
  cancellation with two callbacks outstanding.

- **Client:** `kMaxClientHellos` 3 and up to 4 hellos per session, so both
  the per-session REJ cap and the cross-session bound are reached. Two
  events per `RunEventLoop` are enough for a synchronous read error to be
  followed by another event in the same run.
- **Gear delegate:** one stream, two chunks of 0 or 2 bytes, two answers.
  An empty chunk takes the early return. Two bytes allow a short write.
  Two chunks let the second be queued behind the connect or a write in
  progress. Two answers need the read re-armed after the first. Two
  streams, which would let the clean-up in `OnIncomingStream` delete a
  delegate, do not finish within the time limit.
- **Thread and run loop:** two starts (one restart after `Stop`) and three
  application posts over four run loops. The tasks are `nest`, `quit_root`
  and `quit_top`. Three posts are the fewest that reach the deferred quit:
  nest, quit the root from inside, quit the nested loop. Every post, and
  `StopSoon`'s quit task, races the loop thread's reset of `work_state_`.
  The plain task, `nest_idle` and an application `quit_idle_root` are left
  out of the run to keep it within the time limit. `StopSoon` posts
  `quit_idle_root` itself.

- **Thread pool:** two workers, so one can drain the queue between the
  other's `dry_.Wait()` and its lock. Up to three `AddWork` calls of one or
  two delegates, before and after `Start`. That puts work ahead of the
  nulls and lets a single pop leave more work behind.

- **SSL session cache:** two keys in a cache of one entry, so inserting
  the other key evicts. A flush every second `Lookup`, so some lookups
  flush and some do not. Sessions live one or two seconds on a clock of
  values 0 to 2 that may go back. Three inserted sessions, so a key can
  hold a single-use session behind another and a third `Insert` pushes
  onto both slots. The clock stays non-negative, so `IsExpired`'s
  `now < 0` branch is not exercised.

## Fairness

`RawServerReadLoop` assumes weak fairness on the message loop running the
head posted task, and on the socket completing an armed read once a datagram
is queued. The loop runs every posted task, and the socket's callback fires
once data arrives. `RawServerHandshaker` assumes weak fairness on each
outstanding crypto-config callback: the config finishes the work it took.

`RawClientConnect` assumes weak fairness on `ConnectStep` and `Serve`:
`frtc.cpp` calls them in a loop on one thread. Timeouts are always possible,
so no `Connect` can wait forever. `RawClientGear` keeps fairness on
`ConnectStep` and adds it on the socket's callbacks: the OS completes an
operation it accepted, and the serve loop runs the callback. It drops
fairness on `Serve`, whose only state-changing outcomes close the
connection. The connection may stay up for ever, so the relay must make
progress while it is up. `ThreadLifecycle` assumes weak fairness on every step of `ThreadMain`
and the pump, on `StopSoon`'s post, on `Join` and the wait for
`start_event_`, and on each step of `ScheduleWork`. Both
are threads that the OS schedules. A failed post gets no fairness: the
failure is an OS error, not a step the code takes.

`ControlFrameLedger` assumes:

- weak fairness on re-sending a pending frame: the session writes pending
  control frames whenever it can write;
- weak fairness on acking a copy in flight: the network loses a given frame
  at most `MaxLosses` times, after which its copy is delivered.

The code cannot guarantee delivery. This is the network assumption under
which spec.md promises eventual delivery.

`SimpleThreadPool` assumes weak fairness on each worker's steps and on the
owner's steps inside `Start` and `JoinAll`: they are OS threads, and each
blocks only on an event or a join. The owner's `AddWork`, `Start` and
`JoinAll` calls get no fairness, because they are the caller's choice.

`SslClientSessionCache` is checked for safety only, with no fairness: the
cache makes no promise that anything eventually happens.

## Not modelled yet, and the plan

The modules below are the plan, in this order:

1. `PostTaskAndReply`: the task and its reply across two sequences
   (`base/threading/post_task_and_reply_impl.cc`).
2. The order in which `QuicRawClient` destroys its members:
   `session_delegate_` is declared after `session_`, so it is destroyed
   first while the session may still name it.
3. An abstract reliable-delivery specification, with `SentPacketLedger` shown
   to refine it through `INSTANCE ... WITH`, as `ControlFrameLedger` already
   refines `ControlFrameDelivery`.
4. The client's migration and stream writes.

Left out for good:

- Windows-only code other than the I/O pump and the TCP socket's connect
  and read: COM and the condition variable.
- Filesystem and string utilities.
- The P256 key exchange and the FNV-1a arithmetic of the null hash: pure
  data conversions without state. The hash is modelled as the record of
  what it covers.
- Option parsing and the command-line tool.
- Byte counts against buffer sizes in the gear delegate.
  `WriteOrBufferData` copies a chunk into the 64 KiB `write_buffer_`
  without a bound test (`quic_gear_session_delegate.cc:165`), so a chunk of
  64 KiB or more overflows it. The model abstracts data to a few tokens per
  chunk, so it cannot reach this.
