---------------------------- MODULE QshWorker ----------------------------
(***************************************************************************)
(* utils/inc/qshWorker.h: a thread with a task queue.  Clients, and the    *)
(* tasks the thread runs, call addTask and shutdownWorker; the queue is    *)
(* guarded by mMutex, and the thread waits on mConditionVar.               *)
(*                                                                         *)
(* A step is the code between two points where another thread can take     *)
(* part: an acquisition or a release of mMutex, a wait, a notification, an *)
(* access to the atomic mAlive outside the mutex, the call of a task and   *)
(* the join.  A task is known by the number of the call that handed it in. *)
(***************************************************************************)
EXTENDS Naturals, Sequences, FiniteSets

CONSTANTS Clients,       \* the threads that use the worker
          WorkerThread,  \* the thread in mThread
          NoThread,      \* the owner of a free mutex
          Stoppers,      \* the threads that call shutdownWorker
          MaxCalls       \* bound: calls of addTask and shutdownWorker

Threads == Clients \cup {WorkerThread}

ASSUME ThreadsAssumption ==
    /\ WorkerThread \notin Clients
    /\ NoThread \notin Threads
    /\ Stoppers \subseteq Threads
ASSUME MaxCallsAssumption == MaxCalls \in Nat

Tasks == 1..MaxCalls
NoTask == 0

VARIABLES pc,          \* where each thread is
          mMutex,      \* the thread that holds mMutex, or NoThread
          mAlive,
          mTaskQueue,
          joinable,    \* mThread.joinable()
          life,        \* "live", "destroying", "destroyed", "terminated"
          cur,         \* the task the thread is running, or NoTask
          arg,         \* the task each thread is adding, or NoTask
          calls,       \* calls made so far
          accepted,    \* history: the tasks pushed, in order
          started,     \* history: the tasks run, in order
          stopper      \* history: the thread that cleared mAlive

hist == <<accepted, started>>
rest == <<mAlive, mTaskQueue, joinable, life, cur, arg, calls, hist, stopper>>
vars == <<pc, mMutex, rest>>

InAdd == {"addLock", "addTest", "addPush", "addNotify"}
InShutdown == {"shutLock", "shutTest", "shutClear", "shutNotify", "join"}
InLoop == {"loop", "lock", "test", "sleep", "wait", "woken", "pick", "relock",
           "unlock"}

\* Where a thread makes its calls: a client anywhere in its own code, the
\* worker's thread in the body of a task.
Home(t) == IF t = WorkerThread THEN "task" ELSE "idle"

TypeOK ==
    /\ pc \in [Threads -> {"idle", "task", "exit"}
                             \cup InAdd \cup InShutdown \cup InLoop]
    /\ mMutex \in Threads \cup {NoThread}
    /\ mAlive \in BOOLEAN
    /\ mTaskQueue \in Seq(Tasks)
    /\ joinable \in BOOLEAN
    /\ life \in {"live", "destroying", "destroyed", "terminated"}
    /\ cur \in Tasks \cup {NoTask}
    /\ arg \in [Threads -> Tasks \cup {NoTask}]
    /\ calls \in 0..MaxCalls
    /\ accepted \in Seq(Tasks)
    /\ started \in Seq(Tasks)
    /\ stopper \in Threads \cup {NoThread}

\* The constructor starts the thread before it returns to its caller.
Init ==
    /\ pc = [t \in Threads |-> IF t = WorkerThread THEN "loop" ELSE "idle"]
    /\ mMutex = NoThread
    /\ mAlive = TRUE
    /\ mTaskQueue = <<>>
    /\ joinable = TRUE
    /\ life = "live"
    /\ cur = NoTask
    /\ arg = [t \in Threads |-> NoTask]
    /\ calls = 0
    /\ accepted = <<>>
    /\ started = <<>>
    /\ stopper = NoThread

------------------------------------------------------------------------
(* The mutex and the condition variable.                                *)

Acquire(t) == mMutex = NoThread /\ mMutex' = t
Release(t) == mMutex = t /\ mMutex' = NoThread

Goto(t, from, to) == pc[t] = from /\ pc' = [pc EXCEPT ![t] = to]

\* A thread that blocks on mMutex at "from" goes on at "to" as its owner.
Lock(t, from, to) ==
    /\ Goto(t, from, to)
    /\ Acquire(t)
    /\ UNCHANGED rest

\* notify_one: only mThread ever waits on mConditionVar.
NotifyGoto(t, from, to) ==
    /\ pc[t] = from
    /\ pc' = [pc EXCEPT ![t] = to,
                        ![WorkerThread] = IF @ = "wait" THEN "woken" ELSE @]

------------------------------------------------------------------------
(* addTask                                                              *)

\* Clients use the object until it is being destroyed; a task may call
\* whenever it runs.
MayCall(t) ==
    /\ pc[t] = Home(t)
    /\ life = "live" \/ (t = WorkerThread /\ life = "destroying")
    /\ calls < MaxCalls
    /\ calls' = calls + 1

AddCall(t) ==
    /\ MayCall(t)
    /\ pc' = [pc EXCEPT ![t] = "addLock"]
    /\ arg' = [arg EXCEPT ![t] = calls + 1]
    /\ UNCHANGED <<mMutex, mAlive, mTaskQueue, joinable, life, cur, hist,
                   stopper>>

AddTest(t) ==
    /\ mAlive
    /\ Goto(t, "addTest", "addPush")
    /\ UNCHANGED <<mMutex, rest>>

\* Returns without a push: a shutdown has begun, or push threw.
AddDrop(t) ==
    /\ \/ ~mAlive /\ Goto(t, "addTest", Home(t))
       \/ Goto(t, "addPush", Home(t))
    /\ Release(t)
    /\ arg' = [arg EXCEPT ![t] = NoTask]
    /\ UNCHANGED <<mAlive, mTaskQueue, joinable, life, cur, calls, hist,
                   stopper>>

\* Slip: the task is moved out of before it is pushed.
AddPushMoved(t) ==
    /\ Goto(t, "addPush", "addNotify")
    /\ mTaskQueue' = Append(mTaskQueue, NoTask)
    /\ accepted' = Append(accepted, NoTask)
    /\ arg' = [arg EXCEPT ![t] = NoTask]
    /\ UNCHANGED <<mMutex, mAlive, joinable, life, cur, calls, started,
                   stopper>>

AddPush(t) ==
    /\ Goto(t, "addPush", "addNotify")
    /\ mTaskQueue' = Append(mTaskQueue, arg[t])
    /\ accepted' = Append(accepted, arg[t])
    /\ arg' = [arg EXCEPT ![t] = NoTask]
    /\ UNCHANGED <<mMutex, mAlive, joinable, life, cur, calls, started,
                   stopper>>

\* Slip: addTask does not notify.
AddSilent(t) ==
    /\ Goto(t, "addNotify", Home(t))
    /\ Release(t)
    /\ UNCHANGED rest

AddNotify(t) ==
    /\ NotifyGoto(t, "addNotify", Home(t))
    /\ Release(t)
    /\ UNCHANGED rest

AddTask(t) ==
    \/ Lock(t, "addLock", "addTest")
    \/ AddTest(t)
    \/ AddDrop(t)
    \/ AddPush(t)
    \/ AddNotify(t)

------------------------------------------------------------------------
(* shutdownWorker and the destructor                                    *)

ShutdownCall(t) ==
    /\ t \in Stoppers
    /\ MayCall(t)
    /\ pc' = [pc EXCEPT ![t] = "shutLock"]
    /\ UNCHANGED <<mMutex, mAlive, mTaskQueue, joinable, life, cur, arg, hist,
                   stopper>>

\* What follows the return of shutdownWorker: in the destructor, the
\* destruction of the members, where a std::thread that is still joinable
\* calls std::terminate.
Returned(stillJoinable) ==
    life' = IF life # "destroying" THEN life
            ELSE IF stillJoinable THEN "terminated" ELSE "destroyed"

\* A shutdown has begun already: this call returns at once.
ShutEarly(t) ==
    /\ ~mAlive
    /\ Goto(t, "shutTest", Home(t))
    /\ Release(t)
    /\ IF t = WorkerThread THEN UNCHANGED life ELSE Returned(joinable)
    /\ UNCHANGED <<mAlive, mTaskQueue, joinable, cur, arg, calls, hist,
                   stopper>>

ShutTest(t) ==
    /\ mAlive
    /\ Goto(t, "shutTest", "shutClear")
    /\ UNCHANGED <<mMutex, rest>>

ShutClear(t) ==
    /\ Goto(t, "shutClear", "shutNotify")
    /\ mAlive' = FALSE
    /\ stopper' = t
    /\ UNCHANGED <<mMutex, mTaskQueue, joinable, life, cur, arg, calls, hist>>

\* Slip: shutdownWorker does not notify.
ShutSilent(t) ==
    /\ Goto(t, "shutNotify", "join")
    /\ Release(t)
    /\ UNCHANGED rest

ShutNotify(t) ==
    /\ NotifyGoto(t, "shutNotify", "join")
    /\ Release(t)
    /\ UNCHANGED rest

\* Slip: the thread is detached, not joined.
Detach(t) ==
    /\ Goto(t, "join", Home(t))
    /\ joinable' = FALSE
    /\ IF t = WorkerThread THEN UNCHANGED life ELSE Returned(FALSE)
    /\ UNCHANGED <<mMutex, mAlive, mTaskQueue, cur, arg, calls, hist, stopper>>

\* join waits for the thread; a thread that joins itself gets the exception
\* resource_deadlock_would_occur instead, inside its task.
Join(t) ==
    /\ t # WorkerThread => pc[WorkerThread] = "exit"
    /\ Goto(t, "join", Home(t))
    /\ joinable' = IF t = WorkerThread THEN joinable ELSE FALSE
    /\ IF t = WorkerThread THEN UNCHANGED life ELSE Returned(FALSE)
    /\ UNCHANGED <<mMutex, mAlive, mTaskQueue, cur, arg, calls, hist, stopper>>

Shutdown(t) ==
    \/ Lock(t, "shutLock", "shutTest")
    \/ ShutEarly(t)
    \/ ShutTest(t)
    \/ ShutClear(t)
    \/ ShutNotify(t)
    \/ Join(t)

\* The owner destroys the worker when no client is inside a call, and never
\* from the worker's own thread.
Destroy(c) ==
    /\ life = "live"
    /\ \A d \in Clients : pc[d] = "idle"
    /\ life' = "destroying"
    /\ pc' = [pc EXCEPT ![c] = "shutLock"]
    /\ UNCHANGED <<mMutex, mAlive, mTaskQueue, joinable, cur, arg, calls, hist,
                   stopper>>

------------------------------------------------------------------------
(* run, the main loop of the thread                                     *)

W == WorkerThread

RunLoop ==
    /\ Goto(W, "loop", IF mAlive THEN "lock" ELSE "exit")
    /\ UNCHANGED <<mMutex, rest>>

RunLock ==
    \/ Lock(W, "lock", "test")
    \/ Lock(W, "woken", "test")

\* The inner loop: wait on while there is nothing to do and no shutdown.
RunTest ==
    /\ Goto(W, "test", IF mTaskQueue = <<>> /\ mAlive THEN "sleep" ELSE "pick")
    /\ UNCHANGED <<mMutex, rest>>

\* wait gives the mutex up and goes to sleep in one step.
RunWait ==
    /\ Goto(W, "sleep", "wait")
    /\ Release(W)
    /\ UNCHANGED rest

SpuriousWakeup ==
    /\ Goto(W, "wait", "woken")
    /\ UNCHANGED <<mMutex, rest>>

\* Slip: the newest task is taken first.
RunPickNewest ==
    /\ mAlive
    /\ mTaskQueue # <<>>
    /\ Goto(W, "pick", "task")
    /\ cur' = mTaskQueue[Len(mTaskQueue)]
    /\ started' = Append(started, cur')
    /\ mTaskQueue' = SubSeq(mTaskQueue, 1, Len(mTaskQueue) - 1)
    /\ Release(W)
    /\ UNCHANGED <<mAlive, joinable, life, arg, calls, accepted, stopper>>

\* Slip: a queued task is run although the worker was shut down.
RunPickAlways ==
    /\ mTaskQueue # <<>>
    /\ Goto(W, "pick", "task")
    /\ cur' = Head(mTaskQueue)
    /\ started' = Append(started, Head(mTaskQueue))
    /\ mTaskQueue' = Tail(mTaskQueue)
    /\ Release(W)
    /\ UNCHANGED <<mAlive, joinable, life, arg, calls, accepted, stopper>>

RunPick ==
    /\ mAlive
    /\ mTaskQueue # <<>>
    /\ Goto(W, "pick", "task")
    /\ cur' = Head(mTaskQueue)
    /\ started' = Append(started, Head(mTaskQueue))
    /\ mTaskQueue' = Tail(mTaskQueue)
    /\ Release(W)
    /\ UNCHANGED <<mAlive, joinable, life, arg, calls, accepted, stopper>>

RunStop ==
    /\ ~(mAlive /\ mTaskQueue # <<>>)
    /\ Goto(W, "pick", "loop")
    /\ Release(W)
    /\ UNCHANGED rest

\* The task returns, or throws a std::exception that is logged.
TaskEnd ==
    /\ Goto(W, "task", "relock")
    /\ cur' = NoTask
    /\ UNCHANGED <<mMutex, mAlive, mTaskQueue, joinable, life, arg, calls, hist,
                   stopper>>

RunRelock == Lock(W, "relock", "unlock")

\* Slip: run handles one task and returns.
RunOnce ==
    /\ Goto(W, "unlock", "exit")
    /\ Release(W)
    /\ UNCHANGED rest

RunUnlock ==
    /\ Goto(W, "unlock", "loop")
    /\ Release(W)
    /\ UNCHANGED rest

Run ==
    \/ RunLoop
    \/ RunLock
    \/ RunTest
    \/ RunWait
    \/ RunPick
    \/ RunStop
    \/ TaskEnd
    \/ RunRelock
    \/ RunUnlock

------------------------------------------------------------------------

\* The object is gone, or the process is.
Done ==
    /\ life = "terminated" \/ (life = "destroyed" /\ pc[W] = "exit")
    /\ UNCHANGED vars

Next ==
    \/ /\ life # "terminated"
       /\ \/ \E t \in Threads : \/ AddCall(t)
                                \/ AddTask(t)
                                \/ ShutdownCall(t)
                                \/ Shutdown(t)
          \/ \E c \in Clients : Destroy(c)
          \/ Run
          \/ SpuriousWakeup
    \/ Done

Spec == Init /\ [][Next]_vars

\* A thread inside a call, and the loop of the thread, keep going, a task
\* ends, and a thread that keeps asking for the mutex gets it in the end.
\* Nobody is obliged to call anything, and no wakeup is spurious by duty.
Locking(t) ==
    \E step \in {<<"addLock", "addTest">>, <<"shutLock", "shutTest">>} :
        Lock(t, step[1], step[2])

Fairness ==
    /\ WF_vars(life # "terminated" /\ Run)
    /\ SF_vars(life # "terminated" /\ (RunLock \/ RunRelock))
    /\ \A t \in Threads :
         /\ WF_vars(life # "terminated" /\ (AddTask(t) \/ Shutdown(t)))
         /\ SF_vars(life # "terminated" /\ Locking(t))

FairSpec == Spec /\ Fairness

------------------------------------------------------------------------
(* Properties                                                           *)

\* Tasks "will be performed in order": what was started, followed by what
\* is still queued, is what was pushed, nothing lost, doubled or reordered.
ServedInOrder == accepted = started \o mTaskQueue

\* No wakeup is lost: the thread sleeps on mConditionVar with a task queued
\* or a shutdown begun only while somebody is about to notify it.
NoLostWakeup ==
    pc[W] = "wait" /\ (mTaskQueue # <<>> \/ ~mAlive) =>
        \E t \in Threads : pc[t] \in {"addNotify", "shutNotify"}

\* Once a shutdown has begun no task is taken in and none is started.
ClosedAfterShutdown == [][~mAlive => UNCHANGED hist]_vars

\* The client whose call began the shutdown gets control back only when the
\* thread has left run().
ReturnedStopper ==
    /\ stopper \in Clients
    /\ ~mAlive
    /\ pc[stopper] \notin InShutdown
FirstShutdownWaits == ReturnedStopper => pc[W] = "exit"

\* The destructor finds the thread joined, unless a task of the worker shut
\* it down: then nobody joins it and std::thread ends the process.
StopsWhenDestroyed ==
    /\ life = "destroyed" => pc[W] = "exit" /\ ~joinable
    /\ life = "terminated" => stopper = W

\* A task that was pushed is started, unless a shutdown begins first.
EventuallyStarted ==
    \A k \in Tasks :
        (\E i \in DOMAIN accepted : accepted[i] = k) ~>
            (~mAlive \/ \E i \in DOMAIN started : started[i] = k)

\* A call of shutdownWorker by a client comes to an end.
ShutdownReturns ==
    \A c \in Clients :
        pc[c] \in InShutdown ~> (pc[c] \notin InShutdown \/ life = "terminated")

ExecutorPhase ==
    IF life = "terminated" THEN "aborted"
    ELSE IF pc[W] = "exit" THEN "exited"
    ELSE IF mAlive THEN "open" ELSE "closed"

Abstract ==
    INSTANCE Executor WITH
        pending <- mTaskQueue,
        current <- cur,
        phase <- ExecutorPhase

\* The locks, the waits and the threads implement the serial executor.
ImplementsExecutor == Abstract!FairSpec
=============================================================================
