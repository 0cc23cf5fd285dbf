-------------------------- MODULE QshWorkerProofs --------------------------
(***************************************************************************)
(* Proofs about QshWorker, for any number of clients, any choice of the    *)
(* threads that shut the worker down, and any number of calls.             *)
(***************************************************************************)
EXTENDS QshWorker, TLAPS

------------------------------------------------------------------------
(* The inductive invariant.                                             *)

\* A client is idle or in a call; the worker's thread is in its loop, in a
\* task, in a call made by a task, or has left run.
Placement ==
    /\ pc[W] \in {"task", "exit"} \cup InAdd \cup InShutdown \cup InLoop
    /\ \A c \in Clients : pc[c] \in {"idle"} \cup InAdd \cup InShutdown

\* The code between an acquisition and a release of mMutex.
Critical == {"addTest", "addPush", "addNotify", "shutTest", "shutClear",
             "shutNotify", "test", "sleep", "pick", "unlock"}
MutualExclusion == \A t \in Threads : pc[t] \in Critical => mMutex = t

\* A thread on its way to the push holds a task.
ArgReady ==
    \A t \in Threads : pc[t] \in {"addLock", "addTest", "addPush"} => arg[t] \in Tasks

\* The thread has no task in hand while it is in its own loop, nor at the end.
CurInv == pc[W] \in InLoop \cup {"exit"} => cur = NoTask

\* Who asked for the mutex to push, or to clear mAlive, saw mAlive set under
\* the mutex, and nobody can have cleared it since.
TestedAlive ==
    \A t \in Threads : pc[t] \in {"addPush", "shutClear"} => mAlive

\* A thread that goes to sleep saw nothing to do under the mutex.
TestedIdle == pc[W] = "sleep" => mTaskQueue = <<>> /\ mAlive

\* mAlive is cleared once, by stopper, and until the thread is joined a
\* client that cleared it is on its way to the join.
StopperInv ==
    /\ mAlive <=> stopper = NoThread
    /\ pc[W] = "exit" => ~mAlive
    /\ ~joinable => pc[W] = "exit"
    /\ joinable /\ stopper \in Clients => pc[stopper] \in {"shutNotify", "join"}

\* During the destruction one client is in shutdownWorker, the others idle.
DestroyInv ==
    /\ life = "destroying" =>
          \E c \in Clients : /\ pc[c] \in InShutdown
                             /\ \A d \in Clients \ {c} : pc[d] = "idle"
    /\ StopsWhenDestroyed

IInv ==
    /\ TypeOK
    /\ Placement
    /\ MutualExclusion
    /\ ArgReady
    /\ CurInv
    /\ TestedAlive
    /\ TestedIdle
    /\ StopperInv
    /\ DestroyInv
    /\ ServedInOrder
    /\ NoLostWakeup

------------------------------------------------------------------------
(* Every step keeps the invariant.                                      *)

\* The queue and the histories change in two places only.
LEMMA QuietStep ==
    ASSUME [Next]_vars
    PROVE  \/ \E t \in Threads : AddPush(t)
           \/ RunPick
           \/ UNCHANGED <<accepted, started, mTaskQueue>>
<1> USE DEF hist, rest
<1>1. ASSUME NEW t \in Threads, AddTask(t), ~AddPush(t)
      PROVE  UNCHANGED <<accepted, started, mTaskQueue>>
  BY <1>1 DEF AddTask, Lock, AddTest, AddDrop, AddNotify
<1>2. ASSUME NEW t \in Threads, Shutdown(t)
      PROVE  UNCHANGED <<accepted, started, mTaskQueue>>
  BY <1>2 DEF Shutdown, Lock, ShutEarly, ShutTest, ShutClear, ShutNotify, Join
<1>3. ASSUME NEW t \in Threads, AddCall(t) \/ ShutdownCall(t)
      PROVE  UNCHANGED <<accepted, started, mTaskQueue>>
  BY <1>3 DEF AddCall, ShutdownCall
<1>4. ASSUME NEW c \in Clients, Destroy(c)
      PROVE  UNCHANGED <<accepted, started, mTaskQueue>>
  BY <1>4 DEF Destroy
<1>5. ASSUME Run, ~RunPick
      PROVE  UNCHANGED <<accepted, started, mTaskQueue>>
  BY <1>5 DEF Run, RunLoop, RunLock, Lock, RunTest, RunWait, RunStop, TaskEnd,
              RunRelock, RunUnlock
<1>6. ASSUME SpuriousWakeup \/ UNCHANGED vars
      PROVE  UNCHANGED <<accepted, started, mTaskQueue>>
  BY <1>6 DEF SpuriousWakeup, vars
<1> QED
  BY <1>1, <1>2, <1>3, <1>4, <1>5, <1>6 DEF Next, Done

\* Every step keeps the types, and a task in the hand of a thread that adds it.
LEMMA TypeStep ==
    ASSUME TypeOK, Placement, ArgReady, [Next]_vars
    PROVE  (TypeOK /\ ArgReady)'
<1> DEFINE Goal == (TypeOK /\ ArgReady)'
<1> USE ThreadsAssumption, MaxCallsAssumption DEF Threads, W, Home, hist, rest, TypeOK, Placement, ArgReady, Tasks, NoTask,
        InAdd, InShutdown, InLoop
<1>1. CASE UNCHANGED vars
  BY <1>1 DEF vars, hist
<1>2. ASSUME NEW t \in Threads, AddCall(t)
      PROVE  Goal
  BY <1>2 DEF AddCall, MayCall
<1>3. ASSUME NEW t \in Threads, Lock(t, "addLock", "addTest")
      PROVE  Goal
  BY <1>3 DEF Lock, Goto, Acquire
<1>4. ASSUME NEW t \in Threads, AddTest(t)
      PROVE  Goal
  BY <1>4 DEF AddTest, Goto
<1>5. ASSUME NEW t \in Threads, AddDrop(t)
      PROVE  Goal
  <2>1. pc' = [pc EXCEPT ![t] = Home(t)]
    BY <1>5 DEF AddDrop, Goto
  <2>2. arg' = [arg EXCEPT ![t] = NoTask]
    BY <1>5 DEF AddDrop
  <2>3. TypeOK'
    BY <1>5, <2>1, <2>2 DEF AddDrop, Release
  <2>4. ArgReady'
    BY <2>1, <2>2
  <2> QED
    BY <2>3, <2>4
<1>6. ASSUME NEW t \in Threads, AddPush(t)
      PROVE  Goal
  BY <1>6 DEF AddPush, Goto
<1>7. ASSUME NEW t \in Threads, AddNotify(t)
      PROVE  Goal
  <2>1. pc' = [pc EXCEPT ![t] = Home(t),
                         ![WorkerThread] = IF @ = "wait" THEN "woken" ELSE @]
    BY <1>7 DEF AddNotify, NotifyGoto
  <2>2. TypeOK'
    BY <1>7, <2>1 DEF AddNotify, Release
  <2>3. ArgReady'
    BY <1>7, <2>1 DEF AddNotify
  <2> QED
    BY <2>2, <2>3
<1>8. ASSUME NEW t \in Threads, ShutdownCall(t)
      PROVE  Goal
  BY <1>8 DEF ShutdownCall, MayCall
<1>9. ASSUME NEW t \in Threads, Lock(t, "shutLock", "shutTest")
      PROVE  Goal
  BY <1>9 DEF Lock, Goto, Acquire
<1>10. ASSUME NEW t \in Threads, ShutEarly(t)
      PROVE  Goal
  BY <1>10 DEF ShutEarly, Goto, Release, Returned
<1>11. ASSUME NEW t \in Threads, ShutTest(t)
      PROVE  Goal
  BY <1>11 DEF ShutTest, Goto
<1>12. ASSUME NEW t \in Threads, ShutClear(t)
      PROVE  Goal
  BY <1>12 DEF ShutClear, Goto
<1>13. ASSUME NEW t \in Threads, ShutNotify(t)
      PROVE  Goal
  BY <1>13 DEF ShutNotify, NotifyGoto, Release
<1>14. ASSUME NEW t \in Threads, Join(t)
      PROVE  Goal
  BY <1>14 DEF Join, Goto, Returned
<1>15. ASSUME NEW t \in Clients, Destroy(t)
      PROVE  Goal
  BY <1>15 DEF Destroy
<1>16. ASSUME RunLoop
      PROVE  Goal
  BY <1>16 DEF RunLoop, Goto
<1>17. ASSUME RunLock
      PROVE  Goal
  BY <1>17 DEF RunLock, Lock, Goto, Acquire
<1>18. ASSUME RunTest
      PROVE  Goal
  BY <1>18 DEF RunTest, Goto
<1>19. ASSUME RunWait
      PROVE  Goal
  BY <1>19 DEF RunWait, Goto, Release
<1>20. ASSUME RunPick
      PROVE  Goal
  BY <1>20 DEF RunPick, Goto, Release
<1>21. ASSUME RunStop
      PROVE  Goal
  BY <1>21 DEF RunStop, Goto, Release
<1>22. ASSUME TaskEnd
      PROVE  Goal
  BY <1>22 DEF TaskEnd, Goto
<1>23. ASSUME RunRelock
      PROVE  Goal
  BY <1>23 DEF RunRelock, Lock, Goto, Acquire
<1>24. ASSUME RunUnlock
      PROVE  Goal
  BY <1>24 DEF RunUnlock, Goto, Release
<1>25. ASSUME SpuriousWakeup
      PROVE  Goal
  BY <1>25 DEF SpuriousWakeup, Goto
<1>q. QED
  BY <1>1, <1>2, <1>3, <1>4, <1>5, <1>6, <1>7, <1>8, <1>9, <1>10, <1>11, <1>12, <1>13, <1>14, <1>15, <1>16, <1>17, <1>18, <1>19, <1>20, <1>21, <1>22, <1>23, <1>24, <1>25 DEF Next, AddTask, Shutdown, Run, Done

\* Every step keeps the code regions exclusive, and what a thread saw under
\* mMutex true until it lets go of it.
LEMMA ControlStep ==
    ASSUME TypeOK, Placement, MutualExclusion, CurInv, TestedAlive, TestedIdle, [Next]_vars
    PROVE  (Placement /\ MutualExclusion /\ CurInv /\ TestedAlive /\ TestedIdle)'
<1> DEFINE Goal == (Placement /\ MutualExclusion /\ CurInv /\ TestedAlive /\ TestedIdle)'
<1> USE ThreadsAssumption DEF Threads, W, Home, hist, rest, TypeOK, Placement, MutualExclusion,
        Critical, CurInv, TestedAlive, TestedIdle, InAdd, InShutdown, InLoop
<1>1. CASE UNCHANGED vars
  BY <1>1 DEF vars, hist
<1>2. ASSUME NEW t \in Threads, AddCall(t)
      PROVE  Goal
  BY <1>2 DEF AddCall, MayCall
<1>3. ASSUME NEW t \in Threads, Lock(t, "addLock", "addTest")
      PROVE  Goal
  BY <1>3 DEF Lock, Goto, Acquire
<1>4. ASSUME NEW t \in Threads, AddTest(t)
      PROVE  Goal
  BY <1>4 DEF AddTest, Goto
<1>5. ASSUME NEW t \in Threads, AddDrop(t)
      PROVE  Goal
  <2>1. Placement'
    BY <1>5 DEF AddDrop, Goto, Release
  <2>2. MutualExclusion'
    BY <1>5 DEF AddDrop, Goto, Release
  <2>3. CurInv'
    BY <1>5 DEF AddDrop, Goto, Release
  <2>4. TestedAlive' /\ TestedIdle'
    BY <1>5 DEF AddDrop, Goto, Release
  <2> QED
    BY <2>1, <2>2, <2>3, <2>4
<1>6. ASSUME NEW t \in Threads, AddPush(t)
      PROVE  Goal
  BY <1>6 DEF AddPush, Goto
<1>7. ASSUME NEW t \in Threads, AddNotify(t)
      PROVE  Goal
  <2>1. Placement'
    BY <1>7 DEF AddNotify, NotifyGoto, Release
  <2>2. MutualExclusion'
    <3>1. \A u \in Threads : u # t => pc'[u] = pc[u] \/ pc'[u] = "woken"
      BY <1>7 DEF AddNotify, NotifyGoto
    <3>2. pc'[t] \notin Critical /\ mMutex = t
      BY <1>7 DEF AddNotify, NotifyGoto, Release
    <3>3. \A u \in Threads : u # t => pc[u] \notin Critical
      BY <3>2
    <3> QED
      BY <3>1, <3>2, <3>3
  <2>3. CurInv'
    BY <1>7 DEF AddNotify, NotifyGoto, Release
  <2>4. TestedAlive' /\ TestedIdle'
    BY <1>7 DEF AddNotify, NotifyGoto, Release
  <2> QED
    BY <2>1, <2>2, <2>3, <2>4
<1>8. ASSUME NEW t \in Threads, ShutdownCall(t)
      PROVE  Goal
  BY <1>8 DEF ShutdownCall, MayCall
<1>9. ASSUME NEW t \in Threads, Lock(t, "shutLock", "shutTest")
      PROVE  Goal
  BY <1>9 DEF Lock, Goto, Acquire
<1>10. ASSUME NEW t \in Threads, ShutEarly(t)
      PROVE  Goal
  BY <1>10 DEF ShutEarly, Goto, Release, Returned
<1>11. ASSUME NEW t \in Threads, ShutTest(t)
      PROVE  Goal
  BY <1>11 DEF ShutTest, Goto
<1>12. ASSUME NEW t \in Threads, ShutClear(t)
      PROVE  Goal
  BY <1>12 DEF ShutClear, Goto
<1>13. ASSUME NEW t \in Threads, ShutNotify(t)
      PROVE  Goal
  <2>1. Placement'
    BY <1>13 DEF ShutNotify, NotifyGoto, Release
  <2>2. MutualExclusion'
    <3>1. \A u \in Threads : u # t => pc'[u] = pc[u] \/ pc'[u] = "woken"
      BY <1>13 DEF ShutNotify, NotifyGoto
    <3>2. pc'[t] \notin Critical /\ mMutex = t
      BY <1>13 DEF ShutNotify, NotifyGoto, Release
    <3>3. \A u \in Threads : u # t => pc[u] \notin Critical
      BY <3>2
    <3> QED
      BY <3>1, <3>2, <3>3
  <2>3. CurInv'
    BY <1>13 DEF ShutNotify, NotifyGoto, Release
  <2>4. TestedAlive' /\ TestedIdle'
    BY <1>13 DEF ShutNotify, NotifyGoto, Release
  <2> QED
    BY <2>1, <2>2, <2>3, <2>4
<1>14. ASSUME NEW t \in Threads, Join(t)
      PROVE  Goal
  BY <1>14 DEF Join, Goto, Returned
<1>15. ASSUME NEW t \in Clients, Destroy(t)
      PROVE  Goal
  BY <1>15 DEF Destroy
<1>16. ASSUME RunLoop
      PROVE  Goal
  BY <1>16 DEF RunLoop, Goto
<1>17. ASSUME RunLock
      PROVE  Goal
  BY <1>17 DEF RunLock, Lock, Goto, Acquire
<1>18. ASSUME RunTest
      PROVE  Goal
  BY <1>18 DEF RunTest, Goto
<1>19. ASSUME RunWait
      PROVE  Goal
  BY <1>19 DEF RunWait, Goto, Release
<1>20. ASSUME RunPick
      PROVE  Goal
  BY <1>20 DEF RunPick, Goto, Release
<1>21. ASSUME RunStop
      PROVE  Goal
  BY <1>21 DEF RunStop, Goto, Release
<1>22. ASSUME TaskEnd
      PROVE  Goal
  BY <1>22 DEF TaskEnd, Goto
<1>23. ASSUME RunRelock
      PROVE  Goal
  BY <1>23 DEF RunRelock, Lock, Goto, Acquire
<1>24. ASSUME RunUnlock
      PROVE  Goal
  BY <1>24 DEF RunUnlock, Goto, Release
<1>25. ASSUME SpuriousWakeup
      PROVE  Goal
  BY <1>25 DEF SpuriousWakeup, Goto
<1>q. QED
  BY <1>1, <1>2, <1>3, <1>4, <1>5, <1>6, <1>7, <1>8, <1>9, <1>10, <1>11, <1>12, <1>13, <1>14, <1>15, <1>16, <1>17, <1>18, <1>19, <1>20, <1>21, <1>22, <1>23, <1>24, <1>25 DEF Next, AddTask, Shutdown, Run, Done

\* Every step keeps what ties mAlive, the join and the destruction together.
LEMMA ShutdownStep ==
    ASSUME TypeOK, Placement, TestedAlive, StopperInv, DestroyInv, [Next]_vars
    PROVE  (StopperInv /\ DestroyInv)'
<1> DEFINE Goal == (StopperInv /\ DestroyInv)'
<1> USE ThreadsAssumption DEF Threads, W, Home, hist, rest, TypeOK, Placement, TestedAlive,
        StopperInv, DestroyInv, StopsWhenDestroyed, InAdd, InShutdown, InLoop
<1>1. CASE UNCHANGED vars
  BY <1>1 DEF vars, hist
<1>2. ASSUME NEW t \in Threads, AddCall(t), life # "terminated"
      PROVE  Goal
  BY <1>2 DEF AddCall, MayCall
<1>3. ASSUME NEW t \in Threads, Lock(t, "addLock", "addTest"), life # "terminated"
      PROVE  Goal
  BY <1>3 DEF Lock, Goto, Acquire
<1>4. ASSUME NEW t \in Threads, AddTest(t), life # "terminated"
      PROVE  Goal
  BY <1>4 DEF AddTest, Goto
<1>5. ASSUME NEW t \in Threads, AddDrop(t), life # "terminated"
      PROVE  Goal
  BY <1>5 DEF AddDrop, Goto, Release
<1>6. ASSUME NEW t \in Threads, AddPush(t), life # "terminated"
      PROVE  Goal
  BY <1>6 DEF AddPush, Goto
<1>7. ASSUME NEW t \in Threads, AddNotify(t), life # "terminated"
      PROVE  Goal
  BY <1>7 DEF AddNotify, NotifyGoto, Release
<1>8. ASSUME NEW t \in Threads, ShutdownCall(t), life # "terminated"
      PROVE  Goal
  BY <1>8 DEF ShutdownCall, MayCall
<1>9. ASSUME NEW t \in Threads, Lock(t, "shutLock", "shutTest"), life # "terminated"
      PROVE  Goal
  BY <1>9 DEF Lock, Goto, Acquire
<1>10. ASSUME NEW t \in Threads, ShutEarly(t), life # "terminated"
      PROVE  Goal
  <2>1. pc[t] = "shutTest" /\ ~mAlive /\ pc' = [pc EXCEPT ![t] = Home(t)]
    BY <1>10 DEF ShutEarly, Goto
  <2>2. UNCHANGED <<mAlive, joinable, stopper>>
    BY <1>10 DEF ShutEarly
  <2>3. StopperInv'
    BY <2>1, <2>2
  <2>4. CASE t = WorkerThread
    <3>1. UNCHANGED life
      BY <1>10, <2>4 DEF ShutEarly
    <3> QED
      BY <2>1, <2>2, <2>3, <2>4, <3>1
  <2>5. CASE t \in Clients
    <3>1. life' = IF life # "destroying" THEN life
                  ELSE IF joinable THEN "terminated" ELSE "destroyed"
      BY <1>10, <2>5 DEF ShutEarly, Returned
    <3>2. CASE life # "destroying"
      BY <2>1, <2>2, <2>3, <2>5, <3>1, <3>2
    <3>3. CASE life = "destroying"
      \* The destroyer is the only client in a call, and not the stopper.
      <4>1. \A d \in Clients \ {t} : pc[d] = "idle"
        BY <2>1, <2>5, <3>3
      <4>2. joinable => stopper = WorkerThread
        BY <2>1, <2>5, <4>1
      <4>3. ~joinable => pc[WorkerThread] = "exit"
        OBVIOUS
      <4>4. pc'[WorkerThread] = pc[WorkerThread]
        BY <2>1, <2>5
      <4> QED
        BY <2>2, <2>3, <3>1, <3>3, <4>2, <4>3, <4>4
    <3> QED
      BY <3>2, <3>3
  <2> QED
    BY <2>4, <2>5
<1>11. ASSUME NEW t \in Threads, ShutTest(t), life # "terminated"
      PROVE  Goal
  BY <1>11 DEF ShutTest, Goto
<1>12. ASSUME NEW t \in Threads, ShutClear(t), life # "terminated"
      PROVE  Goal
  BY <1>12 DEF ShutClear, Goto
<1>13. ASSUME NEW t \in Threads, ShutNotify(t), life # "terminated"
      PROVE  Goal
  BY <1>13 DEF ShutNotify, NotifyGoto, Release
<1>14. ASSUME NEW t \in Threads, Join(t), life # "terminated"
      PROVE  Goal
  BY <1>14 DEF Join, Goto, Returned
<1>15. ASSUME NEW t \in Clients, Destroy(t)
      PROVE  Goal
  BY <1>15 DEF Destroy
<1>16. ASSUME RunLoop, life # "terminated"
      PROVE  Goal
  BY <1>16 DEF RunLoop, Goto
<1>17. ASSUME RunLock, life # "terminated"
      PROVE  Goal
  BY <1>17 DEF RunLock, Lock, Goto, Acquire
<1>18. ASSUME RunTest, life # "terminated"
      PROVE  Goal
  BY <1>18 DEF RunTest, Goto
<1>19. ASSUME RunWait, life # "terminated"
      PROVE  Goal
  BY <1>19 DEF RunWait, Goto, Release
<1>20. ASSUME RunPick, life # "terminated"
      PROVE  Goal
  BY <1>20 DEF RunPick, Goto, Release
<1>21. ASSUME RunStop, life # "terminated"
      PROVE  Goal
  BY <1>21 DEF RunStop, Goto, Release
<1>22. ASSUME TaskEnd, life # "terminated"
      PROVE  Goal
  BY <1>22 DEF TaskEnd, Goto
<1>23. ASSUME RunRelock, life # "terminated"
      PROVE  Goal
  BY <1>23 DEF RunRelock, Lock, Goto, Acquire
<1>24. ASSUME RunUnlock, life # "terminated"
      PROVE  Goal
  BY <1>24 DEF RunUnlock, Goto, Release
<1>25. ASSUME SpuriousWakeup, life # "terminated"
      PROVE  Goal
  BY <1>25 DEF SpuriousWakeup, Goto
<1>q. QED
  BY <1>1, <1>2, <1>3, <1>4, <1>5, <1>6, <1>7, <1>8, <1>9, <1>10, <1>11, <1>12, <1>13, <1>14, <1>15, <1>16, <1>17, <1>18, <1>19, <1>20, <1>21, <1>22, <1>23, <1>24, <1>25 DEF Next, AddTask, Shutdown, Run, Done

\* Every step keeps the notifier of a sleeping thread on its way.
LEMMA WakeupStep ==
    ASSUME TypeOK, Placement, TestedIdle, NoLostWakeup, [Next]_vars
    PROVE  NoLostWakeup'
<1> DEFINE Goal == NoLostWakeup'
<1> USE ThreadsAssumption DEF Threads, W, Home, hist, rest, TypeOK, Placement, TestedIdle, NoLostWakeup,
        InAdd, InShutdown, InLoop
<1>1. CASE UNCHANGED vars
  BY <1>1 DEF vars, hist
<1>2. ASSUME NEW t \in Threads, AddCall(t)
      PROVE  Goal
  BY <1>2 DEF AddCall, MayCall
<1>3. ASSUME NEW t \in Threads, Lock(t, "addLock", "addTest")
      PROVE  Goal
  BY <1>3 DEF Lock, Goto, Acquire
<1>4. ASSUME NEW t \in Threads, AddTest(t)
      PROVE  Goal
  BY <1>4 DEF AddTest, Goto
<1>5. ASSUME NEW t \in Threads, AddDrop(t)
      PROVE  Goal
  BY <1>5 DEF AddDrop, Goto, Release
<1>6. ASSUME NEW t \in Threads, AddPush(t)
      PROVE  Goal
  BY <1>6 DEF AddPush, Goto
<1>7. ASSUME NEW t \in Threads, AddNotify(t)
      PROVE  Goal
  BY <1>7 DEF AddNotify, NotifyGoto, Release
<1>8. ASSUME NEW t \in Threads, ShutdownCall(t)
      PROVE  Goal
  BY <1>8 DEF ShutdownCall, MayCall
<1>9. ASSUME NEW t \in Threads, Lock(t, "shutLock", "shutTest")
      PROVE  Goal
  BY <1>9 DEF Lock, Goto, Acquire
<1>10. ASSUME NEW t \in Threads, ShutEarly(t)
      PROVE  Goal
  BY <1>10 DEF ShutEarly, Goto, Release, Returned
<1>11. ASSUME NEW t \in Threads, ShutTest(t)
      PROVE  Goal
  BY <1>11 DEF ShutTest, Goto
<1>12. ASSUME NEW t \in Threads, ShutClear(t)
      PROVE  Goal
  BY <1>12 DEF ShutClear, Goto
<1>13. ASSUME NEW t \in Threads, ShutNotify(t)
      PROVE  Goal
  BY <1>13 DEF ShutNotify, NotifyGoto, Release
<1>14. ASSUME NEW t \in Threads, Join(t)
      PROVE  Goal
  BY <1>14 DEF Join, Goto, Returned
<1>15. ASSUME NEW t \in Clients, Destroy(t)
      PROVE  Goal
  BY <1>15 DEF Destroy
<1>16. ASSUME RunLoop
      PROVE  Goal
  BY <1>16 DEF RunLoop, Goto
<1>17. ASSUME RunLock
      PROVE  Goal
  BY <1>17 DEF RunLock, Lock, Goto, Acquire
<1>18. ASSUME RunTest
      PROVE  Goal
  BY <1>18 DEF RunTest, Goto
<1>19. ASSUME RunWait
      PROVE  Goal
  BY <1>19 DEF RunWait, Goto, Release
<1>20. ASSUME RunPick
      PROVE  Goal
  BY <1>20 DEF RunPick, Goto, Release
<1>21. ASSUME RunStop
      PROVE  Goal
  BY <1>21 DEF RunStop, Goto, Release
<1>22. ASSUME TaskEnd
      PROVE  Goal
  BY <1>22 DEF TaskEnd, Goto
<1>23. ASSUME RunRelock
      PROVE  Goal
  BY <1>23 DEF RunRelock, Lock, Goto, Acquire
<1>24. ASSUME RunUnlock
      PROVE  Goal
  BY <1>24 DEF RunUnlock, Goto, Release
<1>25. ASSUME SpuriousWakeup
      PROVE  Goal
  BY <1>25 DEF SpuriousWakeup, Goto
<1>q. QED
  BY <1>1, <1>2, <1>3, <1>4, <1>5, <1>6, <1>7, <1>8, <1>9, <1>10, <1>11, <1>12, <1>13, <1>14, <1>15, <1>16, <1>17, <1>18, <1>19, <1>20, <1>21, <1>22, <1>23, <1>24, <1>25 DEF Next, AddTask, Shutdown, Run, Done

\* A push extends the history and the queue alike, a pop moves a task from
\* the queue to the history, and no other step touches either.
LEMMA OrderStep ==
    ASSUME TypeOK, ArgReady, ServedInOrder, [Next]_vars
    PROVE  ServedInOrder'
<1>1. ASSUME NEW t \in Threads, AddPush(t) PROVE ServedInOrder'
  <2>1. arg[t] \in Tasks
    BY <1>1 DEF AddPush, Goto, ArgReady
  <2>2. /\ accepted' = Append(accepted, arg[t])
        /\ started' \o mTaskQueue' = started \o Append(mTaskQueue, arg[t])
    BY <1>1 DEF AddPush
  <2>3. Append(started \o mTaskQueue, arg[t]) = started \o Append(mTaskQueue, arg[t])
    <3> DEFINE l == Append(started \o mTaskQueue, arg[t])
               r == started \o Append(mTaskQueue, arg[t])
    <3>1. started \in Seq(Tasks) /\ mTaskQueue \in Seq(Tasks)
      BY DEF TypeOK
    <3>2. l \in Seq(Tasks) /\ r \in Seq(Tasks)
      BY <2>1, <3>1
    <3>3. Len(l) = Len(r)
      BY <2>1, <3>1
    <3>4. ASSUME NEW i \in 1..Len(l) PROVE l[i] = r[i]
      BY <2>1, <3>1
    <3> HIDE DEF l, r
    <3>5. l = r
      BY <3>2, <3>3, <3>4
    <3> QED
      BY <3>5 DEF l, r
  <2> QED
    BY <2>2, <2>3 DEF ServedInOrder
<1>2. CASE RunPick
  BY <1>2 DEF RunPick, TypeOK, ServedInOrder
<1>3. CASE UNCHANGED <<accepted, started, mTaskQueue>>
  BY <1>3 DEF ServedInOrder
<1> QED
  BY <1>1, <1>2, <1>3, QuietStep

------------------------------------------------------------------------
(* The theorems.                                                        *)

LEMMA InitIInv == Init => IInv
  BY ThreadsAssumption, MaxCallsAssumption
     DEF Init, IInv, TypeOK, Placement, MutualExclusion, Critical, ArgReady,
         CurInv, TestedAlive, TestedIdle, StopperInv, DestroyInv,
         StopsWhenDestroyed, ServedInOrder, NoLostWakeup, Threads, W, Tasks,
         NoTask, InAdd, InShutdown, InLoop

LEMMA NextIInv == IInv /\ [Next]_vars => IInv'
  BY TypeStep, ControlStep, ShutdownStep, WakeupStep, OrderStep DEF IInv

\* The inductive invariant holds of the worker, whatever its users do.
THEOREM Invariant == Spec => []IInv
  BY InitIInv, NextIInv, PTL DEF Spec

\* Every variable keeps its type.
THEOREM TypeCorrect == Spec => []TypeOK
<1>1. IInv => TypeOK
  BY DEF IInv
<1> QED
  BY <1>1, Invariant, PTL

\* Tasks are started in the order in which addTask queued them.
THEOREM Order == Spec => []ServedInOrder
<1>1. IInv => ServedInOrder
  BY DEF IInv
<1> QED
  BY <1>1, Invariant, PTL

\* The thread of the worker does not sleep through a task or a shutdown.
THEOREM Wakeup == Spec => []NoLostWakeup
<1>1. IInv => NoLostWakeup
  BY DEF IInv
<1> QED
  BY <1>1, Invariant, PTL

\* The client that begins the shutdown gets control back after the thread.
THEOREM ShutdownJoins == Spec => []FirstShutdownWaits
<1>1. IInv => FirstShutdownWaits
  BY DEF IInv, StopperInv, FirstShutdownWaits, ReturnedStopper, InShutdown
<1> QED
  BY <1>1, Invariant, PTL

\* The destructor ends the process only after a shutdown by a task.
THEOREM DestructorJoins == Spec => []StopsWhenDestroyed
<1>1. IInv => StopsWhenDestroyed
  BY DEF IInv, DestroyInv
<1> QED
  BY <1>1, Invariant, PTL

\* A shutdown that has begun closes the queue at both ends.
THEOREM ShutdownCloses == Spec => ClosedAfterShutdown
<1>1. IInv /\ [Next]_vars => [~mAlive => UNCHANGED hist]_vars
  <2> SUFFICES ASSUME IInv, [Next]_vars, ~mAlive
               PROVE  UNCHANGED hist
    OBVIOUS
  <2>1. ASSUME NEW t \in Threads, AddPush(t) PROVE FALSE
    BY <2>1 DEF AddPush, Goto, IInv, TestedAlive
  <2>2. ~RunPick
    BY DEF RunPick
  <2> QED
    BY <2>1, <2>2, QuietStep DEF hist
<1> QED
  BY <1>1, Invariant, PTL DEF Spec, ClosedAfterShutdown

------------------------------------------------------------------------
(* The worker implements the serial executor of module Executor.         *)

\* The steps of the worker that an observer of the executor sees; all the
\* others leave the queue, the task in hand and the executor's phase alone.
LEMMA StepRefines ==
    ASSUME IInv, [Next]_vars
    PROVE  [Abstract!Next]_(Abstract!vars)
<1> DEFINE Seen == <<mTaskQueue, cur, ExecutorPhase>>
<1> USE ThreadsAssumption DEF IInv, TypeOK, Placement, Threads, W, Home, hist, rest,
        InAdd, InShutdown, InLoop, ExecutorPhase
<1>1. ASSUME NEW t \in Threads, AddPush(t), life # "terminated"
      PROVE  Abstract!Submit(arg[t]) /\ arg[t] \in Tasks
  BY <1>1 DEF AddPush, Goto, ArgReady, TestedAlive, StopperInv, Abstract!Submit
<1>2. ASSUME RunPick, life # "terminated"
      PROVE  Abstract!Start
  BY <1>2 DEF RunPick, Goto, CurInv, NoTask, Abstract!Start
<1>3. ASSUME TaskEnd, life # "terminated"
      PROVE  [Abstract!Finish]_(Abstract!vars)
  BY <1>3 DEF TaskEnd, Goto, NoTask, Abstract!Finish, Abstract!vars
<1>4. ASSUME NEW t \in Threads, ShutClear(t), life # "terminated"
      PROVE  Abstract!Close
  BY <1>4 DEF ShutClear, Goto, TestedAlive, StopperInv, Abstract!Close
<1>5. ASSUME RunLoop, life # "terminated"
      PROVE  [Abstract!Exit]_(Abstract!vars)
  BY <1>5 DEF RunLoop, Goto, CurInv, NoTask, StopperInv, Abstract!Exit, Abstract!vars
<1>6. ASSUME NEW t \in Threads, ShutEarly(t), life # "terminated"
      PROVE  [Abstract!Abort]_(Abstract!vars)
  BY <1>6 DEF ShutEarly, Goto, Returned, Abstract!Abort, Abstract!vars
<1>7. ASSUME NEW t \in Threads, Join(t), life # "terminated"
      PROVE  UNCHANGED Seen
  BY <1>7 DEF Join, Goto, Returned
<1>8. ASSUME NEW t \in Threads, life # "terminated",
             AddCall(t) \/ ShutdownCall(t) \/ ShutTest(t)
                \/ Lock(t, "addLock", "addTest") \/ Lock(t, "shutLock", "shutTest")
                \/ AddTest(t) \/ AddDrop(t)
      PROVE  UNCHANGED Seen
  BY <1>8 DEF AddCall, ShutdownCall, MayCall, ShutTest, Lock, AddTest, AddDrop, Goto
<1>9. ASSUME NEW t \in Threads, AddNotify(t) \/ ShutNotify(t), life # "terminated"
      PROVE  UNCHANGED Seen
  BY <1>9 DEF AddNotify, ShutNotify, NotifyGoto
<1>10. ASSUME NEW c \in Clients, Destroy(c)
       PROVE  UNCHANGED Seen
  BY <1>10 DEF Destroy
<1>11. ASSUME RunLock \/ RunTest \/ RunWait \/ RunStop \/ RunRelock \/ RunUnlock
                 \/ SpuriousWakeup, life # "terminated"
       PROVE  UNCHANGED Seen
  BY <1>11 DEF RunLock, RunTest, RunWait, RunStop, RunRelock, RunUnlock,
               SpuriousWakeup, Lock, Goto
<1>12. CASE UNCHANGED vars
  BY <1>12 DEF vars, Abstract!vars
<1>13. UNCHANGED Seen => UNCHANGED Abstract!vars
  BY DEF Abstract!vars
<1> QED
  BY <1>1, <1>2, <1>3, <1>4, <1>5, <1>6, <1>7, <1>8, <1>9, <1>10, <1>11, <1>12,
     <1>13
     DEF Next, Done, AddTask, Shutdown, Run, Abstract!Next

\* Its behaviours are behaviours of a serial, first-in first-out executor.
THEOREM Refinement == Spec => Abstract!Spec
<1>1. Init => Abstract!Init
  BY ThreadsAssumption
     DEF Init, Abstract!Init, ExecutorPhase, Threads, W, NoTask
<1> QED
  BY <1>1, Invariant, StepRefines, PTL DEF Spec, Abstract!Spec

=============================================================================
