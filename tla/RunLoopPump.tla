------------------------------ MODULE RunLoopPump ------------------------------
(***************************************************************************)
(* base::RunLoop (run_loop.cc) on a MessagePumpForIO (message_pump_win.cc) *)
(* with tasks posted from another thread through MessageLoopTaskRunner    *)
(* (message_loop_task_runner.cc).                                          *)
(*                                                                         *)
(* The loop thread runs nested RunLoop::Run activations; each one is a     *)
(* MessagePumpForIO::Run with its RunState and its DoRunLoop, whose steps  *)
(* are separate actions because the posting thread interleaves with them.  *)
(* A frame records the RunLoop, the RunState's should_quit, the step of    *)
(* DoRunLoop it is at, and the local more_work_is_plausible.               *)
(*                                                                         *)
(* The posting thread adds a task to the incoming queue and calls          *)
(* ScheduleWork, whose InterlockedExchange and PostQueuedCompletionStatus  *)
(* are separate atomic steps.  The MessageLoop (the RunLoop::Delegate and  *)
(* the pump's delegate) is not in the repository: its DoWork runs the next *)
(* task when application tasks are allowed, DoDelayedWork finds no delayed *)
(* task, and DoIdleWork quits the pump when ShouldQuitWhenIdle().          *)
(*                                                                         *)
(* Tasks: "plain"; "quit_root" and "quit_idle_root", the root loop's       *)
(* QuitClosure and QuitWhenIdleClosure; "quit_top", QuitCurrentDeprecated; *)
(* "nest", a task running RunLoop(kNestableTasksAllowed).Run(); and        *)
(* "nest_idle", a task running RunLoop().RunUntilIdle().                   *)
(***************************************************************************)
EXTENDS Integers, Sequences, SequencesExt

CONSTANTS
  PostableTasks,    \* the tasks the other thread may post
  MaxPosts,         \* how many tasks it posts
  MaxLoops,         \* run loops created, the root one included
  PostMayFail       \* whether PostQueuedCompletionStatus can fail

Tasks == {"plain", "quit_root", "quit_idle_root", "quit_top", "nest", "nest_idle"}
ASSUME PostableTasks \subseteq Tasks /\ MaxPosts \in Nat /\ MaxLoops \in Nat \ {0}

READY == "READY"
HAVE_WORK == "HAVE_WORK"
Root == 1

VARIABLES
  loops,       \* RunLoop members: type_, quit_called_, quit_when_idle_received_, running_
  frames,      \* the loop thread's Run activations, innermost last
  next_loop,   \* the id of the next RunLoop a task creates
  queue,       \* the MessageLoop's incoming and work queues, in order
  port,        \* kick packets (ScheduleWork's completion status) in the port
  work_state,  \* MessagePumpForIO::work_state_
  poster,      \* the other thread: its step and how many tasks it posted
  returned,    \* ghost: the run loops whose Run() returned
  lost_kick,   \* ghost: a failed post left a scheduled task without a kick
  null_state   \* the failure path wrote through a null state_

vars == <<loops, frames, next_loop, queue, port, work_state, poster, returned,
          lost_kick, null_state>>

NewLoop(type) ==
  [type |-> type, quit_called |-> FALSE, quit_when_idle |-> FALSE, running |-> FALSE]

World == [loops |-> loops, frames |-> frames, next_loop |-> next_loop,
          queue |-> queue, port |-> port, work_state |-> work_state]

Become(w) ==
  /\ loops' = w.loops /\ frames' = w.frames /\ next_loop' = w.next_loop
  /\ queue' = w.queue /\ port' = w.port /\ work_state' = w.work_state

Top(w) == w.frames[Len(w.frames)]
TopLoop(w) == Top(w).rl
SetTop(w, f) == [w EXCEPT !.frames[Len(w.frames)] = f]

-----------------------------------------------------------------------------
(* MessagePumpForIO.                                                       *)

\* MessagePumpWin::Quit.
PumpQuit(w) == SetTop(w, [Top(w) EXCEPT !.should_quit = TRUE])

\* ScheduleWork called on the loop thread itself: the exchange and the post
\* run back to back.
ScheduleWorkHere(w) ==
  IF w.work_state # READY THEN w
  ELSE [w EXCEPT !.work_state = HAVE_WORK, !.port = @ + 1]

ProcessInternalIOItemKeepsState(w) == [w EXCEPT !.port = @ - 1]

\* GetIOItem takes the kick, ProcessInternalIOItem resets work_state_.
ProcessInternalIOItem(w) == [w EXCEPT !.port = @ - 1, !.work_state = READY]

-----------------------------------------------------------------------------
(* RunLoop.                                                                *)

\* ShouldQuitWhenIdle: the Delegate's callback reads the innermost loop.
ShouldQuitWhenIdleBottom(w) == w.loops[w.frames[1].rl].quit_when_idle

ShouldQuitWhenIdle(w) == w.loops[TopLoop(w)].quit_when_idle

QuitNoTopCheck(w, rl) ==
  LET w1 == [w EXCEPT !.loops[rl].quit_called = TRUE] IN
  IF w1.loops[rl].running THEN PumpQuit(w1) ELSE w1

\* RunLoop::Quit on the loop thread: quit now if rl is the innermost
\* running loop, else only record it for AfterRun.
Quit(w, rl) ==
  LET w1 == [w EXCEPT !.loops[rl].quit_called = TRUE] IN
  IF w1.loops[rl].running /\ TopLoop(w1) = rl THEN PumpQuit(w1) ELSE w1

QuitWhenIdle(w, rl) == [w EXCEPT !.loops[rl].quit_when_idle = TRUE]

\* RunLoop::BeforeRun: nothing if Quit came first; otherwise the loop is
\* pushed on active_run_loops_ with the pump's fresh RunState (one frame
\* here), and a nested nestable loop calls EnsureWorkScheduled.
BeforeRun(w, rl) ==
  IF w.loops[rl].quit_called THEN w
  ELSE LET w1 == [w EXCEPT !.loops[rl].running = TRUE,
                           !.frames = Append(@, [rl |-> rl, should_quit |-> FALSE,
                                                 pc |-> "work", more |-> FALSE])]
       IN IF Len(w1.frames) > 1 /\ w1.loops[rl].type = "nestable" /\ w1.queue # << >>
          THEN ScheduleWorkHere(w1) ELSE w1

\* RunLoop::Run: BeforeRun, then the pump's DoRunLoop in the frame it
\* pushed; LoopStep runs that loop and AfterRun ends it.
Run(w, rl) == BeforeRun(w, rl)

AfterRunNoDeferredQuit(w) ==
  LET rl == TopLoop(w)
  IN [w EXCEPT !.loops[rl].running = FALSE, !.frames = Front(@)]

\* The pump's Run restores the previous RunState; AfterRun pops the loop
\* and executes a Quit that was deferred for the loop below.
AfterRun(w) ==
  LET rl == TopLoop(w)
      w1 == [w EXCEPT !.loops[rl].running = FALSE, !.frames = Front(@)]
  IN IF w1.frames # << >> /\ w1.loops[TopLoop(w1)].quit_called
     THEN PumpQuit(w1) ELSE w1

TasksAllowedRootOnly(w) == Len(w.frames) = 1

\* application_tasks_allowed of RunLoop::Run.
TasksAllowed(w) == Len(w.frames) = 1 \/ w.loops[TopLoop(w)].type = "nestable"

\* Thread::ThreadQuitHelper, the task Thread::StopSoon posts: QuitWhenIdle
\* on the thread's root run loop (SetThreadWasQuitProperly only sets a
\* debug flag).
ThreadQuitHelper(w) == QuitWhenIdle(w, Root)

\* A task, run by DoWork on the loop thread.
RunTask(w, t) ==
  CASE t = "plain"          -> w
    [] t = "quit_root"      -> Quit(w, Root)
    [] t = "quit_idle_root" -> ThreadQuitHelper(w)
    [] t = "quit_top"       -> Quit(w, TopLoop(w))
    [] t \in {"nest", "nest_idle"} ->
         LET rl == w.next_loop
             w1 == [w EXCEPT !.next_loop = @ + 1,
                             !.loops[rl] = NewLoop(IF t = "nest" THEN "nestable"
                                                   ELSE "default")]
         IN Run(IF t = "nest_idle" THEN QuitWhenIdle(w1, rl) ELSE w1, rl)

-----------------------------------------------------------------------------
(* MessagePumpForIO::DoRunLoop on the loop thread, one step per call.      *)

\* state_->delegate->DoWork(): the MessageLoop runs the next task if
\* application tasks are allowed.  A task that runs a nested loop leaves
\* this frame at its next step.
DoWork(w) ==
  IF TasksAllowed(w) /\ w.queue # << >>
  THEN RunTask([SetTop(w, [Top(w) EXCEPT !.pc = "io", !.more = TRUE])
                EXCEPT !.queue = Tail(@)], Head(w.queue))
  ELSE SetTop(w, [Top(w) EXCEPT !.pc = "io", !.more = FALSE])

\* The should_quit test after DoWork (a break returns from the pump's Run
\* and from RunLoop::Run), WaitForIOCompletion(0) (only kicks
\* reach this port), DoDelayedWork (no delayed tasks) and the continue.
DoIO(w) ==
  IF Top(w).should_quit THEN AfterRun(w)
  ELSE LET got == w.port > 0
           w1  == IF got THEN ProcessInternalIOItem(w) ELSE w
           more == Top(w).more \/ got
       IN SetTop(w1, [Top(w1) EXCEPT !.more = more,
                                     !.pc = IF more THEN "work" ELSE "idle"])

\* state_->delegate->DoIdleWork(), which quits the pump when the innermost
\* loop asked to quit when idle, then the should_quit test.
DoIdle(w) ==
  IF ShouldQuitWhenIdle(w) THEN AfterRun(PumpQuit(w))
  ELSE SetTop(w, [Top(w) EXCEPT !.pc = "wait"])

\* WaitForWork: WaitForIOCompletion(INFINITE) returns with the next kick.
DoWait(w) ==
  IF w.port = 0 THEN {}
  ELSE {SetTop(ProcessInternalIOItem(w), [Top(w) EXCEPT !.pc = "work"])}

Step(w) ==
  CASE Top(w).pc = "work" -> {DoWork(w)}
    [] Top(w).pc = "io"   -> {DoIO(w)}
    [] Top(w).pc = "idle" -> {DoIdle(w)}
    [] Top(w).pc = "wait" -> DoWait(w)

-----------------------------------------------------------------------------
(* The posting thread.                                                     *)

Init ==
  /\ loops = [rl \in 1..MaxLoops |-> NewLoop("default")]
  /\ frames = << >> /\ next_loop = Root + 1 /\ queue = << >> /\ port = 0
  /\ work_state = READY /\ poster = [pc |-> "idle", posted |-> 0]
  /\ returned = {} /\ lost_kick = FALSE /\ null_state = FALSE

\* The loop thread's Thread::Run: the root RunLoop's Run().
StartRoot ==
  /\ frames = << >> /\ ~loops[Root].running /\ Root \notin returned
  /\ Become(Run(World, Root))
  /\ UNCHANGED <<poster, returned, lost_kick, null_state>>

LoopStep ==
  /\ frames # << >>
  /\ \E w \in Step(World) :
       /\ Become(w)
       /\ returned' = returned \cup {rl \in DOMAIN loops :
                                       loops[rl].running /\ ~w.loops[rl].running}
  /\ UNCHANGED <<poster, lost_kick, null_state>>

\* IncomingTaskQueue::AddToIncomingQueue appends the task; the poster then
\* calls ScheduleWork.  The loop's incoming queue schedules on every post.
AddToIncomingQueue(t) ==
  /\ poster.pc = "idle"
  /\ queue' = Append(queue, t)
  /\ UNCHANGED <<loops, frames, next_loop, port, work_state, returned, lost_kick, null_state>>

\* PostTask through the MessageLoopTaskRunner.
PostTask(t) ==
  /\ poster.posted < MaxPosts
  /\ AddToIncomingQueue(t)
  /\ poster' = [pc |-> "exchange", posted |-> poster.posted + 1]

\* Mutant: ScheduleWork posts whatever the exchange returned.
ScheduleWorkExchangeAlwaysPosts ==
  /\ poster.pc = "exchange"
  /\ work_state' = HAVE_WORK
  /\ poster' = [poster EXCEPT !.pc = "post"]
  /\ UNCHANGED <<loops, frames, next_loop, queue, port, returned, lost_kick, null_state>>

\* ScheduleWork: InterlockedExchange(&work_state_, HAVE_WORK); someone
\* else continues the pumping unless the state was READY.
ScheduleWorkExchange ==
  /\ poster.pc = "exchange"
  /\ work_state' = HAVE_WORK
  /\ poster' = [poster EXCEPT !.pc = IF work_state = READY THEN "post" ELSE "idle"]
  /\ UNCHANGED <<loops, frames, next_loop, queue, port, returned, lost_kick, null_state>>

\* PostQueuedCompletionStatus puts the kick into the port.
ScheduleWorkPost ==
  /\ poster.pc = "post"
  /\ port' = port + 1
  /\ poster' = [poster EXCEPT !.pc = "idle"]
  /\ UNCHANGED <<loops, frames, next_loop, queue, work_state, returned, null_state>>
  /\ lost_kick' = FALSE

\* A failed post: work_state_ goes back to READY with no kick in the port,
\* and the error is counted through state_, the loop thread's current
\* RunState, which is null outside the pump's Run.
ScheduleWorkPostFailed ==
  /\ PostMayFail /\ poster.pc = "post"
  /\ work_state' = READY
  /\ lost_kick' = TRUE
  /\ null_state' = (null_state \/ frames = << >>)
  /\ poster' = [poster EXCEPT !.pc = "idle"]
  /\ UNCHANGED <<loops, frames, next_loop, queue, port, returned>>

Next ==
  \/ StartRoot \/ LoopStep
  \/ \E t \in PostableTasks : PostTask(t)
  \/ ScheduleWorkExchange \/ ScheduleWorkPost \/ ScheduleWorkPostFailed

\* The loop thread and the posting thread are both scheduled.
Fairness ==
  /\ WF_vars(StartRoot) /\ WF_vars(LoopStep)
  /\ WF_vars(ScheduleWorkExchange) /\ WF_vars(ScheduleWorkPost)

Spec == Init /\ [][Next]_vars /\ Fairness

-----------------------------------------------------------------------------

Frames == [rl : 1..MaxLoops, should_quit : BOOLEAN,
           pc : {"work", "io", "idle", "wait"}, more : BOOLEAN]

\* The members' types, and running_ set exactly for the loops the loop
\* thread is inside (BeforeRun sets it, AfterRun clears it).
TypeOK ==
  /\ loops \in [1..MaxLoops -> [type : {"default", "nestable"},
                                quit_called : BOOLEAN, quit_when_idle : BOOLEAN,
                                running : BOOLEAN]]
  /\ frames \in Seq(Frames) /\ queue \in Seq(Tasks)
  /\ port \in Nat /\ work_state \in {READY, HAVE_WORK}
  /\ poster \in [pc : {"idle", "exchange", "post"}, posted : 0..MaxPosts]
  /\ \A rl \in 1..MaxLoops :
       loops[rl].running = (\E i \in 1..Len(frames) : frames[i].rl = rl)

\* A RunLoop's Run() returns only after Quit() or QuitWhenIdle() was called
\* on that loop: a Quit() aimed at an outer loop never ends an inner one.
NoSpuriousReturn ==
  \A rl \in returned : loops[rl].quit_called \/ loops[rl].quit_when_idle

\* The loop thread never sleeps in WaitForWork on an empty port while a
\* task waits in its queue and no ScheduleWork is under way: every post
\* either kicks the port or finds a kick the pump has yet to take, unless
\* PostQueuedCompletionStatus failed since the last kick.
NoSleepWithWork ==
  (frames # << >> /\ Top(World).pc = "wait" /\ port = 0 /\ poster.pc = "idle")
    => queue = << >> \/ lost_kick

\* A loop on which Quit() was called returns once it is the innermost
\* one, also when the Quit() came while a nested loop ran above it and
\* AfterRun of that nested loop has to carry it out.
QuitHonoured ==
  \A rl \in 1..MaxLoops :
    (/\ loops[rl].running /\ loops[rl].quit_called
     /\ frames # << >> /\ TopLoop(World) = rl) ~> ~loops[rl].running

\* A posted task is eventually run, unless the loop thread has left every
\* loop or a failed post left the task without a kick.
TasksEventuallyRun ==
  (queue # << >> /\ frames # << >>) ~> (queue = << >> \/ frames = << >> \/ lost_kick)

\* At most one kick waits in the completion port, and only while
\* work_state_ is HAVE_WORK: of the posting thread and the loop thread's
\* own ScheduleWork, only the caller whose InterlockedExchange found READY
\* posts, and the loop thread resets READY only after GetIOItem took the
\* kick.  A second kick would make the pump run an extra DoWork pass for
\* nothing; a kick with READY would let the next post add another.
AtMostOneKick == port <= 1 /\ (port = 1 => work_state = HAVE_WORK)

\* ScheduleWork, called from another thread, touches state_ only while the
\* loop thread is inside the pump's Run.
NoNullRunStateUse == ~null_state

====
