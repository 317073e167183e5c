--------------------------- MODULE RawServerReadLoop ---------------------------
(***************************************************************************)
(* The read loop of QuicRawServer                                          *)
(* (src/quic/net/tools/quic/relay/quic_raw_server.cc): Listen,             *)
(* StartReading, OnReadComplete and Shutdown, on the server's one message  *)
(* loop thread.                                                            *)
(*                                                                         *)
(* Three kinds of event run handlers: a task posted to the message loop    *)
(* (StartReading, or OnReadComplete(result)), run in FIFO order; the       *)
(* completion of the socket's outstanding asynchronous RecvFrom, which     *)
(* calls OnReadComplete; and a datagram arriving in the kernel's receive   *)
(* queue.  A handler's synchronous recursion (StartReading reads a queued  *)
(* datagram, OnReadComplete processes it and calls StartReading again) is  *)
(* one step, computed by the RECURSIVE operators below as the set of its   *)
(* possible outcomes.                                                      *)
(*                                                                         *)
(* The dispatcher (QuicDispatcher) and the UDP socket are not in this      *)
(* repository.  ProcessPacket of a CHLO either creates a session or        *)
(* buffers the CHLO, as the dispatcher's per-event session budget decides; *)
(* the model leaves that choice open.  ProcessBufferedChlos(n) creates up  *)
(* to n sessions.  Close() cancels the pending read's callback.  A         *)
(* dereference of socket_ after socket_.reset() sets `crashed`, after      *)
(* which nothing runs.                                                     *)
(***************************************************************************)
EXTENDS Integers, Sequences, FiniteSets

CONSTANTS
  Datagrams,      \* what a RecvFrom can return: [len |-> result, chlo |-> BOOLEAN]
  MaxDatagrams,   \* bound on datagrams (and socket errors) the network delivers
  MaxFaults,      \* bound on those with a result <= 0
  MaxChlos        \* bound on CHLOs the dispatcher holds in its buffer

\* net_error_list.h
OK == 0
ERR_IO_PENDING == -1
ERR_CONNECTION_CLOSED == -100

kNumSessionsToCreatePerSocketEvent == 16
kMaxSynchronousReads == 32     \* the literal of `++synchronous_read_count_ > 32`

ASSUME \A d \in Datagrams : d.len # ERR_IO_PENDING

NoDatagram == [len |-> OK, chlo |-> FALSE]
StartReadingTask == [task |-> "StartReading"]
OnReadCompleteTask(r) == [task |-> "OnReadComplete", result |-> r]

VARIABLES
  socket,            \* socket_: "open", or "null" after reset()
  dispatcher_shut,   \* dispatcher_->Shutdown() has run
  read_pending,      \* read_pending_
  sync_count,        \* synchronous_read_count_
  read_buffer,       \* read_buffer_: the datagram last read into it
  async_read,        \* a RecvFrom returned ERR_IO_PENDING; its callback is armed
  tasks,             \* tasks posted to the message loop, oldest first
  chlos,             \* CHLOs buffered in the dispatcher
  rcvq,              \* the kernel's receive queue for the socket
  crashed,           \* socket_ was dereferenced while null
  arrived,           \* datagrams delivered so far
  faults,            \* of which with a result <= 0
  max_chain          \* most synchronous reads one handler made (ghost)

vars == <<socket, dispatcher_shut, read_pending, sync_count, read_buffer,
          async_read, tasks, chlos, rcvq, crashed, arrived, faults, max_chain>>

\* The server's state as one record, for the handler operators; `reads`
\* counts the synchronous reads of the handler being run.
Server ==
  [socket |-> socket, dispatcher_shut |-> dispatcher_shut,
   read_pending |-> read_pending, sync_count |-> sync_count,
   read_buffer |-> read_buffer, async_read |-> async_read, tasks |-> tasks,
   chlos |-> chlos, rcvq |-> rcvq, crashed |-> crashed, reads |-> 0]

\* The state a handler leaves behind.
Become(s) ==
  /\ socket' = s.socket
  /\ dispatcher_shut' = s.dispatcher_shut
  /\ read_pending' = s.read_pending
  /\ sync_count' = s.sync_count
  /\ read_buffer' = s.read_buffer
  /\ async_read' = s.async_read
  /\ tasks' = s.tasks
  /\ chlos' = s.chlos
  /\ rcvq' = s.rcvq
  /\ crashed' = s.crashed
  /\ max_chain' = IF s.reads > max_chain THEN s.reads ELSE max_chain
  /\ UNCHANGED <<arrived, faults>>

-----------------------------------------------------------------------------

\* Shutdown: the dispatcher closes its sessions, then socket_->Close() and
\* socket_.reset(); a second Shutdown dereferences the null socket_.
Shutdown(s) ==
  IF s.socket = "null" THEN [s EXCEPT !.crashed = TRUE]
  ELSE [s EXCEPT !.dispatcher_shut = TRUE, !.socket = "null", !.async_read = FALSE]

\* dispatcher_->ProcessPacket: a CHLO may be buffered.
ProcessPacket(s) ==
  {s} \cup IF s.read_buffer.chlo /\ s.chlos < MaxChlos
           THEN {[s EXCEPT !.chlos = @ + 1]} ELSE {}

\* dispatcher_->ProcessBufferedChlos(kNumSessionsToCreatePerSocketEvent).
ProcessBufferedChlos(s) ==
  [s EXCEPT !.chlos = IF @ > kNumSessionsToCreatePerSocketEvent
                      THEN @ - kNumSessionsToCreatePerSocketEvent ELSE 0]

RECURSIVE StartReading(_), OnReadComplete(_, _)

\* Mutant: the read path keeps the count of synchronous reads (post-increment).
SyncReadPostIncrement(s, r) ==
  IF s.sync_count > kMaxSynchronousReads
  THEN {[s EXCEPT !.sync_count = 0, !.tasks = Append(@, OnReadCompleteTask(r))]}
  ELSE OnReadComplete([s EXCEPT !.sync_count = @ + 1], r)

\* Mutant: the reset of synchronous_read_count_ before posting is dropped.
SyncReadNoReset(s, r) ==
  IF s.sync_count + 1 > kMaxSynchronousReads
  THEN {[s EXCEPT !.sync_count = @ + 1, !.tasks = Append(@, OnReadCompleteTask(r))]}
  ELSE OnReadComplete([s EXCEPT !.sync_count = @ + 1], r)

\* A RecvFrom that returned `r` synchronously: after 32 in a row the
\* completion is posted to the message loop, otherwise handled at once.
SyncRead(s, r) ==
  IF s.sync_count + 1 > kMaxSynchronousReads
  THEN {[s EXCEPT !.sync_count = 0, !.tasks = Append(@, OnReadCompleteTask(r))]}
  ELSE OnReadComplete([s EXCEPT !.sync_count = @ + 1], r)

\* Mutant: no StartReading is posted when CHLOs are buffered.
PendingReadNoYield(s) == [s EXCEPT !.sync_count = 0, !.async_read = TRUE]

\* RecvFrom returned ERR_IO_PENDING: yield to the message loop so the
\* buffered CHLOs are processed at the next StartReading.
PendingRead(s) ==
  [s EXCEPT !.sync_count = 0, !.async_read = TRUE,
            !.tasks = IF s.chlos > 0 THEN Append(@, StartReadingTask) ELSE @]

StartReading(s) ==
  LET s1 == IF s.sync_count = 0 THEN ProcessBufferedChlos(s) ELSE s
      s2 == [s1 EXCEPT !.read_pending = TRUE]
  IN
  CASE s1.read_pending -> {s1}
    [] s1.socket = "null" -> {[s2 EXCEPT !.crashed = TRUE]}
    [] s1.rcvq = << >> -> {PendingRead(s2)}
    [] OTHER -> SyncRead([s2 EXCEPT !.read_buffer = Head(s1.rcvq),
                                    !.rcvq = Tail(@), !.reads = @ + 1],
                         Head(s1.rcvq).len)

\* Mutant: read_pending_ is not cleared.
OnReadCompleteKeepsPending(s, result) ==
  LET r == IF result = 0 THEN ERR_CONNECTION_CLOSED ELSE result IN
  IF r < 0 THEN {Shutdown(s)}
  ELSE UNION {StartReading(t) : t \in ProcessPacket(s)}

OnReadComplete(s, result) ==
  LET s1 == [s EXCEPT !.read_pending = FALSE]
      r  == IF result = 0 THEN ERR_CONNECTION_CLOSED ELSE result
  IN
  IF r < 0 THEN {Shutdown(s1)}
  ELSE UNION {StartReading(t) : t \in ProcessPacket(s1)}

-----------------------------------------------------------------------------

\* Listen: either a socket call fails and nothing is set up, or the socket
\* and dispatcher are installed and StartReading runs on an empty queue.
Listen(ok) ==
  LET s0 == [socket |-> IF ok THEN "open" ELSE "null", dispatcher_shut |-> FALSE,
             read_pending |-> FALSE, sync_count |-> 0, read_buffer |-> NoDatagram,
             async_read |-> FALSE, tasks |-> << >>, chlos |-> 0, rcvq |-> << >>,
             crashed |-> FALSE, reads |-> 0]
  IN IF ok THEN CHOOSE t \in StartReading(s0) : TRUE ELSE s0

Init ==
  \E ok \in BOOLEAN :
    LET s == Listen(ok) IN
    /\ socket = s.socket
    /\ dispatcher_shut = s.dispatcher_shut
    /\ read_pending = s.read_pending
    /\ sync_count = s.sync_count
    /\ read_buffer = s.read_buffer
    /\ async_read = s.async_read
    /\ tasks = s.tasks
    /\ chlos = s.chlos
    /\ rcvq = s.rcvq
    /\ crashed = s.crashed
    /\ arrived = 0 /\ faults = 0 /\ max_chain = 0

\* A datagram, or a socket error, reaches the open socket.
Arrive(d) ==
  /\ ~crashed /\ socket = "open"
  /\ arrived < MaxDatagrams
  /\ d.len <= 0 => faults < MaxFaults
  /\ rcvq' = Append(rcvq, d)
  /\ arrived' = arrived + 1
  /\ faults' = IF d.len <= 0 THEN faults + 1 ELSE faults
  /\ UNCHANGED <<socket, dispatcher_shut, read_pending, sync_count, read_buffer,
                 async_read, tasks, chlos, crashed, max_chain>>

\* The pending RecvFrom completes: the datagram is read into read_buffer_
\* and the callback runs OnReadComplete.
AsyncReadComplete ==
  /\ ~crashed /\ async_read /\ rcvq # << >>
  /\ LET s == [Server EXCEPT !.async_read = FALSE, !.read_buffer = Head(rcvq),
                             !.rcvq = Tail(@)]
     IN \E t \in OnReadComplete(s, Head(rcvq).len) : Become(t)

\* The message loop runs the oldest posted task.
RunStartReadingTask ==
  /\ ~crashed /\ tasks # << >> /\ Head(tasks).task = "StartReading"
  /\ \E t \in StartReading([Server EXCEPT !.tasks = Tail(@)]) : Become(t)

RunOnReadCompleteTask ==
  /\ ~crashed /\ tasks # << >> /\ Head(tasks).task = "OnReadComplete"
  /\ \E t \in OnReadComplete([Server EXCEPT !.tasks = Tail(@)], Head(tasks).result) :
       Become(t)

Next ==
  \/ \E d \in Datagrams : Arrive(d)
  \/ AsyncReadComplete
  \/ RunStartReadingTask
  \/ RunOnReadCompleteTask

\* The message loop runs every posted task, and the socket's readiness is
\* reported whenever a datagram waits under an armed read.
Fairness ==
  /\ WF_vars(AsyncReadComplete)
  /\ WF_vars(RunStartReadingTask)
  /\ WF_vars(RunOnReadCompleteTask)

Spec == Init /\ [][Next]_vars /\ Fairness

-----------------------------------------------------------------------------

\* The posted OnReadComplete tasks: each carries the result of a read
\* already made into read_buffer_.
PostedCompletions == {i \in 1..Len(tasks) : tasks[i].task = "OnReadComplete"}

TypeOK ==
  /\ socket \in {"open", "null"}
  /\ {dispatcher_shut, read_pending, async_read, crashed} \subseteq BOOLEAN
  /\ sync_count \in 0..kMaxSynchronousReads
  /\ read_buffer \in Datagrams \cup {NoDatagram}
  /\ \A i \in 1..Len(tasks) :
       tasks[i] \in {StartReadingTask} \cup {OnReadCompleteTask(d.len) : d \in Datagrams}
  /\ chlos \in 0..MaxChlos
  /\ rcvq \in Seq(Datagrams) /\ Len(rcvq) <= arrived
  /\ arrived \in 0..MaxDatagrams /\ faults \in 0..MaxFaults

\* While the socket is open exactly one read is in progress, and
\* read_pending_ says so: either the RecvFrom callback is armed or one
\* posted OnReadComplete holds the result of the last read.  So the server
\* always has a read that will deliver the next datagram, and read_buffer_
\* is never overwritten before the datagram in it is processed.  After
\* Shutdown no callback is armed.
ReadLoopArmed ==
  ~crashed =>
    /\ socket = "open" =>
         /\ read_pending
         /\ (IF async_read THEN 1 ELSE 0) + Cardinality(PostedCompletions) = 1
    /\ socket = "null" => ~async_read

\* One handler never makes more than 33 synchronous reads: the
\* `++synchronous_read_count_ > 32` test posts the 33rd completion to the
\* message loop, which bounds the StartReading/OnReadComplete recursion.
SyncReadsBounded == max_chain <= kMaxSynchronousReads + 1

\* While the dispatcher holds buffered CHLOs and the server is up, a task
\* is posted that will reach ProcessBufferedChlos with the count at 0.
ChlosScheduled ==
  ~crashed /\ socket = "open" /\ chlos > 0 => tasks # << >>

\* A socket_ that Shutdown has reset is never dereferenced.
NoNullSocketUse == ~crashed

\* Every datagram queued at the open socket is eventually read.
DatagramsEventuallyRead ==
  rcvq # << >> ~> (rcvq = << >> \/ socket = "null")

\* Every buffered CHLO is eventually turned into a session, unless the
\* server shuts down first.
ChlosEventuallyProcessed ==
  chlos > 0 ~> (chlos = 0 \/ socket = "null")

=============================================================================
