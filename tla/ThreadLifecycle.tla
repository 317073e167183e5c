--------------------------- MODULE ThreadLifecycle ---------------------------
(***************************************************************************)
(* base::Thread (threading/thread.cc): the owning thread's Start, StopSoon, *)
(* Stop, WaitUntilThreadStarted and PostTask, and the new thread's         *)
(* ThreadMain, which runs the root RunLoop of RunLoopPump.                 *)
(*                                                                         *)
(* The owner is RunLoopPump's posting thread: its PostTask and the         *)
(* ThreadQuitHelper that StopSoon posts go through the same ScheduleWork.  *)
(* Each successful StartWithOptions creates a new MessageLoop (an id in    *)
(* 1..MaxStarts) and with it a fresh pump and run-loop state.  ThreadMain  *)
(* is three steps: up to Run, from Run's return to CleanUp, and the reset  *)
(* of message_loop_ with the loop's destruction; the owner interleaves     *)
(* with each.  StopSoon tests message_loop_ and later reads it again in    *)
(* task_runner() for the post; the two reads are separate steps.  Only     *)
(* joinable threads are modelled (a non-joinable Thread cannot be Stopped  *)
(* or restarted).                                                          *)
(***************************************************************************)
EXTENDS RunLoopPump

CONSTANTS
  MaxStarts,       \* StartWithOptions calls
  CreateMayFail    \* whether PlatformThread::CreateWithPriority can fail

VARIABLES
  message_loop,    \* Thread::message_loop_: 0 (null) or a MessageLoop id
  alive,           \* the MessageLoops not yet destroyed
  starts,          \* MessageLoops created so far
  stopping,        \* Thread::stopping_
  thread_running,  \* Thread::running_
  thread_handle,   \* Thread::thread_ is a handle (not yet joined)
  start_event,     \* Thread::start_event_ is signaled
  tmain,           \* the new thread: "none", "created", "looping", "cleanup", "exited"
  owner,           \* the owner's step, and whether it is inside Stop
  null_post        \* task_runner()->PostTask ran with message_loop_ null

tvars == <<message_loop, alive, starts, stopping, thread_running, thread_handle,
           start_event, tmain, owner, null_post>>
allvars == <<vars, tvars>>

\* Thread::IsRunning.
IsRunning ==
  (message_loop # 0 /\ ~stopping) \/ thread_running

\* The pump and run-loop state of a MessageLoop that StartWithOptions has
\* just created: no loop running, no task, an empty port.
FreshLoop ==
  /\ loops' = [rl \in 1..MaxLoops |-> NewLoop("default")]
  /\ frames' = << >> /\ next_loop' = Root + 1 /\ queue' = << >>
  /\ port' = 0 /\ work_state' = READY /\ returned' = {} /\ lost_kick' = FALSE

-----------------------------------------------------------------------------
(* The owning thread.                                                      *)

OwnerIdle == owner.pc = "idle" /\ poster.pc = "idle"

ThreadInit ==
  /\ Init
  /\ message_loop = 0 /\ alive = {} /\ starts = 0 /\ stopping = FALSE
  /\ thread_running = FALSE /\ thread_handle = FALSE /\ start_event = FALSE
  /\ tmain = "none" /\ owner = [pc |-> "idle", in_stop |-> FALSE]
  /\ null_post = FALSE

\* StartWithOptions: a new unbound MessageLoop in message_loop_,
\* start_event_ reset, then the thread is created under thread_lock_.  A
\* thread that is running or not yet joined is never started again.
Start ==
  /\ OwnerIdle /\ ~thread_handle /\ tmain \in {"none", "exited"}
  /\ starts < MaxStarts
  /\ starts' = starts + 1
  /\ \/ /\ message_loop' = starts + 1 /\ alive' = alive \cup {starts + 1}
        /\ start_event' = FALSE /\ thread_handle' = TRUE /\ tmain' = "created"
        /\ FreshLoop
        /\ UNCHANGED <<poster, null_state>>
     \/ /\ CreateMayFail
        /\ message_loop' = 0 /\ start_event' = FALSE
        /\ UNCHANGED <<alive, thread_handle, tmain, vars>>
  /\ UNCHANGED <<stopping, thread_running, owner, null_post>>

StopSoonCallNoPost(in_stop) ==
  /\ OwnerIdle
  /\ owner' = [pc |-> IF in_stop THEN "join" ELSE "idle", in_stop |-> in_stop]
  /\ stopping' = (stopping \/ message_loop # 0)
  /\ UNCHANGED <<vars, message_loop, alive, starts, thread_running, thread_handle,
                 start_event, tmain, null_post>>

\* StopSoon's test: nothing to do when already stopping or when
\* message_loop_ is null; otherwise stopping_ is set and the quit task
\* is posted next.  Stop calls it with thread_lock_ held, then joins.
StopSoonCall(in_stop) ==
  /\ OwnerIdle
  /\ IF stopping \/ message_loop = 0
     THEN owner' = [pc |-> IF in_stop THEN "join" ELSE "idle", in_stop |-> in_stop]
          /\ UNCHANGED stopping
     ELSE owner' = [pc |-> "post_quit", in_stop |-> in_stop] /\ stopping' = TRUE
  /\ UNCHANGED <<vars, message_loop, alive, starts, thread_running, thread_handle,
                 start_event, tmain, null_post>>

\* task_runner()->PostTask(ThreadQuitHelper): message_loop_ is read again.
StopSoonPost ==
  /\ owner.pc = "post_quit"
  /\ IF message_loop = 0
     THEN null_post' = TRUE /\ UNCHANGED vars
     ELSE /\ AddToIncomingQueue("quit_idle_root")
          /\ poster' = [poster EXCEPT !.pc = "exchange"]
          /\ UNCHANGED null_post
  /\ owner' = [owner EXCEPT !.pc = IF owner.in_stop THEN "join" ELSE "idle"]
  /\ UNCHANGED <<message_loop, alive, starts, stopping, thread_running,
                 thread_handle, start_event, tmain>>

\* The rest of Stop, once StopSoon's ScheduleWork is done: return when
\* there is no thread to join, else PlatformThread::Join, reset thread_
\* and stopping_.
Join ==
  /\ owner.pc = "join" /\ poster.pc = "idle"
  /\ thread_handle => tmain = "exited"
  /\ owner' = [pc |-> "idle", in_stop |-> FALSE]
  /\ IF thread_handle THEN thread_handle' = FALSE /\ stopping' = FALSE
     ELSE UNCHANGED <<thread_handle, stopping>>
  /\ UNCHANGED <<vars, message_loop, alive, starts, thread_running, start_event,
                 tmain, null_post>>

\* WaitUntilThreadStarted: false at once when message_loop_ is null, else
\* wait for start_event_.
WaitUntilThreadStarted ==
  /\ OwnerIdle /\ message_loop # 0
  /\ owner' = [owner EXCEPT !.pc = "wait_started"]
  /\ UNCHANGED <<vars, message_loop, alive, starts, stopping, thread_running,
                 thread_handle, start_event, tmain, null_post>>

WaitReturn ==
  /\ owner.pc = "wait_started" /\ start_event
  /\ owner' = [owner EXCEPT !.pc = "idle"]
  /\ UNCHANGED <<vars, message_loop, alive, starts, stopping, thread_running,
                 thread_handle, start_event, tmain, null_post>>

\* An application task posted through task_runner() while message_loop_ is
\* set.
OwnerPostTask(t) ==
  /\ OwnerIdle /\ message_loop # 0
  /\ PostTask(t)
  /\ UNCHANGED tvars

-----------------------------------------------------------------------------
(* The new thread: ThreadMain.                                             *)

\* Up to Run: id_, BindToCurrentThread, Init(), running_ under
\* running_lock_, start_event_.Signal(), then the root RunLoop's Run().
ThreadMainStart ==
  /\ tmain = "created"
  /\ StartRoot
  /\ thread_running' = TRUE /\ start_event' = TRUE /\ tmain' = "looping"
  /\ UNCHANGED <<message_loop, alive, starts, stopping, thread_handle, owner,
                 null_post>>

ThreadLoopStep ==
  /\ tmain = "looping" /\ LoopStep /\ UNCHANGED tvars

\* Run returned: running_ is cleared, then CleanUp().
ThreadMainCleanUp ==
  /\ tmain = "looping" /\ frames = << >>
  /\ thread_running' = FALSE /\ tmain' = "cleanup"
  /\ UNCHANGED <<vars, message_loop, alive, starts, stopping, thread_handle,
                 start_event, owner, null_post>>

ThreadMainExitKeepsPointer ==
  /\ tmain = "cleanup" /\ poster.pc = "idle"
  /\ alive' = alive \ {message_loop} /\ tmain' = "exited"
  /\ UNCHANGED <<vars, message_loop, starts, stopping, thread_running, thread_handle,
                 start_event, owner, null_post>>

\* message_loop_ = nullptr, and the MessageLoop is destroyed at the end of
\* ThreadMain.  Its incoming queue holds the lock a ScheduleWork in
\* progress holds, so the destruction waits for it.
ThreadMainExit ==
  /\ tmain = "cleanup" /\ poster.pc = "idle"
  /\ message_loop' = 0 /\ alive' = alive \ {message_loop} /\ tmain' = "exited"
  /\ UNCHANGED <<vars, starts, stopping, thread_running, thread_handle,
                 start_event, owner, null_post>>

-----------------------------------------------------------------------------

\* ScheduleWork's steps, on the owner's behalf.
ScheduleWorkStep ==
  /\ ScheduleWorkExchange \/ ScheduleWorkPost \/ ScheduleWorkPostFailed
  /\ UNCHANGED tvars

ThreadNext ==
  \/ Start \/ StopSoonCall(FALSE) \/ StopSoonCall(TRUE) \/ StopSoonPost \/ Join
  \/ WaitUntilThreadStarted \/ WaitReturn
  \/ \E t \in PostableTasks : OwnerPostTask(t)
  \/ ThreadMainStart \/ ThreadLoopStep \/ ThreadMainCleanUp \/ ThreadMainExit
  \/ ScheduleWorkStep

\* Both threads are scheduled by the OS; a Join, a wait on start_event_
\* and a post in progress all complete once they can.
ThreadFairness ==
  /\ WF_allvars(ThreadMainStart) /\ WF_allvars(ThreadLoopStep)
  /\ WF_allvars(ThreadMainCleanUp) /\ WF_allvars(ThreadMainExit)
  /\ WF_allvars(StopSoonPost) /\ WF_allvars(Join) /\ WF_allvars(WaitReturn)
  /\ WF_allvars(ScheduleWorkExchange /\ UNCHANGED tvars)
  /\ WF_allvars(ScheduleWorkPost /\ UNCHANGED tvars)

ThreadSpec == ThreadInit /\ [][ThreadNext]_allvars /\ ThreadFairness

-----------------------------------------------------------------------------

\* IsRunning() is true while the thread is inside its run loop, and false
\* once Stop() has joined it: Stop waits for ThreadMain's end, which resets
\* running_ and message_loop_, and then resets stopping_.
IsRunningAccurate ==
  /\ (tmain = "looping" /\ frames # << >>) => IsRunning
  /\ ~thread_handle => ~IsRunning /\ tmain \in {"none", "exited"}

\* Stop() and WaitUntilThreadStarted() return, unless a nested run loop
\* that nobody quits holds the thread, or a failed post left the queued
\* quit task without a kick (then Join waits for ever).
OwnerCallsReturn ==
  owner.pc # "idle" ~> (owner.pc = "idle" \/ Len(frames) > 1 \/ lost_kick)

\* StopSoon never posts through a null message_loop_: its test and its
\* task_runner() read the member at two points that ThreadMain's reset of
\* message_loop_ can fall between.
NoNullLoopPost == ~null_post

=============================================================================
