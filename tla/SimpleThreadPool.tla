--------------------------- MODULE SimpleThreadPool ---------------------------
(***************************************************************************)
(* DelegateSimpleThreadPool of base/threading/simple_thread.cc: an owner   *)
(* thread that Start()s NumThreads DelegateSimpleThreads, AddWork()s       *)
(* delegates to a shared FIFO and finally JoinAll()s the workers by        *)
(* queueing one null delegate per worker.  Each worker runs the pool's     *)
(* Run() loop: wait on the manual-reset event dry_, take lock_, re-check   *)
(* dry_, pop the front delegate, reset dry_ when the queue is empty, and   *)
(* run the delegate or quit on null.  The lock_ sections are atomic steps; *)
(* dry_.Wait() returning and the lock being taken are separate steps, so   *)
(* another worker may drain the queue in between.                          *)
(***************************************************************************)
EXTENDS Naturals, Sequences

CONSTANTS
  NumThreads,     \* num_threads_
  RepeatCounts,   \* the repeat_count values AddWork is called with
  MaxAddWork      \* bound on the owner's AddWork calls

Threads == 1..NumThreads

\* A delegate is a work item or the null pointer JoinAll queues.
Work == "work"
Null == "null"

VARIABLES
  delegates,  \* delegates_, the std::queue of Delegate*
  dry,        \* dry_.IsSignaled()
  event,      \* event_.IsSignaled() of each DelegateSimpleThread
  worker,     \* each worker thread's position in ThreadMain/Run
  owner,      \* the owner's position in Start / AddWork / JoinAll
  added,      \* work delegates queued by AddWork (history)
  ran,        \* work delegates whose Run() returned (history)
  calls,      \* AddWork calls made by the owner
  empty_pop   \* a worker called front()/pop() on an empty delegates_

vars == <<delegates, dry, event, worker, owner, added, ran, calls, empty_pop>>

WorkerPcs == {"none", "init", "wait", "woke", "run", "exited", "joined"}
OwnerPcs  == {"idle", "create", "start_wait", "started", "join", "done"}

\* The constructors: num_threads_ set, dry_ and every event_ MANUAL and not
\* signalled, no thread created yet.
Init ==
  /\ delegates = << >>
  /\ dry = FALSE
  /\ event = [t \in Threads |-> FALSE]
  /\ worker = [t \in Threads |-> "none"]
  /\ owner = [pc |-> "idle", i |-> 1]
  /\ added = 0 /\ ran = 0 /\ calls = 0
  /\ empty_pop = FALSE

\* Mutant: AddWork puts the delegates at the front of the queue (LIFO).
AddWorkLifo(d, repeat_count) ==
  /\ delegates' = [k \in 1..repeat_count |-> d] \o delegates
  /\ dry' = TRUE

\* DelegateSimpleThreadPool::AddWork: under lock_, push delegate
\* repeat_count times, then signal dry_ if it is not signalled.
AddWork(d, repeat_count) ==
  /\ delegates' = delegates \o [k \in 1..repeat_count |-> d]
  /\ dry' = TRUE

\* The owner calls AddWork(delegate, repeat_count), before or after Start().
OwnerAddWork ==
  /\ owner.pc \in {"idle", "started"}
  /\ calls < MaxAddWork
  /\ \E n \in RepeatCounts :
       /\ AddWork(Work, n)
       /\ added' = added + n
  /\ calls' = calls + 1
  /\ UNCHANGED <<event, worker, owner, ran, empty_pop>>

\* DelegateSimpleThreadPool::Start: the loop over num_threads_ begins.
Start ==
  /\ owner.pc = "idle"
  /\ owner' = [pc |-> IF NumThreads = 0 THEN "started" ELSE "create", i |-> 1]
  /\ UNCHANGED <<delegates, dry, event, worker, added, ran, calls, empty_pop>>

\* The SimpleThread constructor: event_ MANUAL and not signalled.
NewSimpleThread(t) == event' = [event EXCEPT ![t] = FALSE]

\* Iteration i of Start's loop: new DelegateSimpleThread, and in
\* SimpleThread::Start PlatformThread::CreateWithPriority.
CreateThread ==
  /\ owner.pc = "create"
  /\ NewSimpleThread(owner.i)
  /\ worker' = [worker EXCEPT ![owner.i] = "init"]
  /\ owner' = [owner EXCEPT !.pc = "start_wait"]
  /\ UNCHANGED <<delegates, dry, added, ran, calls, empty_pop>>

\* SimpleThread::Start returns once event_.Wait() does; Start pushes the
\* thread and goes on to the next one.
StartReturns ==
  /\ owner.pc = "start_wait"
  /\ event[owner.i]
  /\ owner' = IF owner.i = NumThreads THEN [pc |-> "started", i |-> 1]
              ELSE [pc |-> "create", i |-> owner.i + 1]
  /\ UNCHANGED <<delegates, dry, event, worker, added, ran, calls, empty_pop>>

\* DelegateSimpleThread::Run: the thread's delegate is the pool, whose
\* Run() loop starts at dry_.Wait().
DelegateRun(t) == worker' = [worker EXCEPT ![t] = "wait"]

\* SimpleThread::ThreadMain: name the thread, signal event_, enter Run().
ThreadMain(t) ==
  /\ worker[t] = "init"
  /\ event' = [event EXCEPT ![t] = TRUE]
  /\ DelegateRun(t)
  /\ UNCHANGED <<delegates, dry, owner, added, ran, calls, empty_pop>>

\* DelegateSimpleThreadPool::JoinAll: AddWork(nullptr, num_threads_), then
\* join the threads in order.
JoinAll ==
  /\ owner.pc = "started"
  /\ AddWork(Null, NumThreads)
  /\ owner' = [pc |-> IF NumThreads = 0 THEN "done" ELSE "join", i |-> 1]
  /\ UNCHANGED <<event, worker, added, ran, calls, empty_pop>>

\* SimpleThread::Join: PlatformThread::Join returns once the thread has
\* left ThreadMain.
Join(t) == worker[t] = "exited"

\* threads_[i]->Join() returns; the thread is deleted and, after the last
\* one, threads_ cleared.
JoinThread ==
  /\ owner.pc = "join"
  /\ Join(owner.i)
  /\ worker' = [worker EXCEPT ![owner.i] = "joined"]
  /\ owner' = IF owner.i = NumThreads THEN [pc |-> "done", i |-> 1]
              ELSE [owner EXCEPT !.i = owner.i + 1]
  /\ UNCHANGED <<delegates, dry, event, added, ran, calls, empty_pop>>

\* Run(): dry_.Wait() returns once dry_ is signalled.
WaitDry(t) ==
  /\ worker[t] = "wait"
  /\ dry
  /\ worker' = [worker EXCEPT ![t] = "woke"]
  /\ UNCHANGED <<delegates, dry, event, owner, added, ran, calls, empty_pop>>

\* Mutant: Run() pops without re-checking dry_ after taking lock_.
TakeWorkNoRecheck(t) ==
  /\ worker[t] = "woke"
  /\ IF delegates = << >>
       THEN /\ empty_pop' = TRUE
            /\ worker' = [worker EXCEPT ![t] = "wait"]
            /\ UNCHANGED <<delegates, dry>>
     ELSE /\ delegates' = Tail(delegates)
          /\ dry' = (Tail(delegates) # << >>)
          /\ worker' = [worker EXCEPT ![t] =
                          IF Head(delegates) = Null THEN "exited" ELSE "run"]
          /\ UNCHANGED empty_pop
  /\ UNCHANGED <<event, owner, added, ran, calls>>

\* Mutant: dry_ is reset when at most one delegate is left, not none.
TakeWorkResetEarly(t) ==
  /\ worker[t] = "woke"
  /\ IF ~dry
       THEN /\ worker' = [worker EXCEPT ![t] = "wait"]
            /\ UNCHANGED <<delegates, dry, empty_pop>>
     ELSE IF delegates = << >>
       THEN /\ empty_pop' = TRUE
            /\ worker' = [worker EXCEPT ![t] = "wait"]
            /\ UNCHANGED <<delegates, dry>>
     ELSE /\ delegates' = Tail(delegates)
          /\ dry' = (Len(Tail(delegates)) > 1)
          /\ worker' = [worker EXCEPT ![t] =
                          IF Head(delegates) = Null THEN "exited" ELSE "run"]
          /\ UNCHANGED empty_pop
  /\ UNCHANGED <<event, owner, added, ran, calls>>

\* Run(), under lock_: if dry_ is no longer signalled go back to the Wait;
\* otherwise take front(), pop(), reset dry_ if delegates_ is now empty,
\* and leave the loop on null.  front() of an empty queue is undefined.
TakeWork(t) ==
  /\ worker[t] = "woke"
  /\ IF ~dry
       THEN /\ worker' = [worker EXCEPT ![t] = "wait"]
            /\ UNCHANGED <<delegates, dry, empty_pop>>
     ELSE IF delegates = << >>
       THEN /\ empty_pop' = TRUE
            /\ worker' = [worker EXCEPT ![t] = "wait"]
            /\ UNCHANGED <<delegates, dry>>
     ELSE /\ delegates' = Tail(delegates)
          /\ dry' = (Tail(delegates) # << >>)
          /\ worker' = [worker EXCEPT ![t] =
                          IF Head(delegates) = Null THEN "exited" ELSE "run"]
          /\ UNCHANGED empty_pop
  /\ UNCHANGED <<event, owner, added, ran, calls>>

\* Run(): work->Run() returns and the loop goes back to dry_.Wait().
RunWork(t) ==
  /\ worker[t] = "run"
  /\ ran' = ran + 1
  /\ worker' = [worker EXCEPT ![t] = "wait"]
  /\ UNCHANGED <<delegates, dry, event, owner, added, calls, empty_pop>>

\* JoinAll has returned: the owner is done with the pool.
Finished ==
  /\ owner.pc = "done"
  /\ UNCHANGED vars

Next ==
  \/ OwnerAddWork \/ Start \/ CreateThread \/ StartReturns \/ JoinAll
  \/ JoinThread \/ Finished
  \/ \E t \in Threads : ThreadMain(t) \/ WaitDry(t) \/ TakeWork(t) \/ RunWork(t)

\* The OS runs every created thread, and the owner's own steps inside
\* Start and JoinAll; the owner's calls themselves are its choice.
Fairness ==
  /\ WF_vars(CreateThread) /\ WF_vars(StartReturns) /\ WF_vars(JoinThread)
  /\ \A t \in Threads :
       WF_vars(ThreadMain(t) \/ WaitDry(t) \/ TakeWork(t) \/ RunWork(t))

Spec == Init /\ [][Next]_vars /\ Fairness

-----------------------------------------------------------------------------

\* No worker ever calls front() and pop() on an empty delegates_: a worker
\* woken by dry_ may find the queue drained and dry_ reset by another worker
\* before it gets lock_, and Run() must notice that.
NoEmptyPop == ~empty_pop

\* Queued delegates are never stranded behind an unsignalled dry_: while
\* delegates_ is non-empty, dry_ is signalled, so waiting workers wake.
WorkNeverStranded == delegates # << >> => dry

\* JoinAll() returns, and by then every delegate AddWork queued has run
\* and delegates_ is empty: one null per worker, queued behind the work,
\* makes each worker quit only after the work ahead of it was taken.
JoinAllCompletes ==
  owner.pc = "join" ~> (owner.pc = "done" /\ ran = added /\ delegates = << >>)

==============================================================================
