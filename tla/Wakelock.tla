---------------------------- MODULE Wakelock ----------------------------
(***************************************************************************)
(* utils/src/qshWakelock.cpp: the wakelock of the kernel, held while       *)
(* wakeup samples are outstanding.  Threads get the instance from          *)
(* getInstance, which takes no lock, and then call acquire(count) and      *)
(* release(count), which run under the mMutex of the instance and are one  *)
(* step each.                                                              *)
(*                                                                         *)
(* An instance is known by the thread whose getInstance made it.  All      *)
(* threads ask for the same lock name, so the kernel has one lock: writing *)
(* the name to wake_lock again changes nothing, and writing it once to     *)
(* wake_unlock drops the lock.  The destructor is private and no code      *)
(* calls it.                                                               *)
(***************************************************************************)
EXTENDS Integers, FiniteSets

CONSTANTS Threads,
          NoInstance,  \* the null pointer
          MaxUInt,     \* the largest unsigned int
          MaxCalls     \* bound: calls of acquire and release

ASSUME NoInstanceAssumption == NoInstance \notin Threads
ASSUME MaxUIntAssumption == MaxUInt \in Nat
ASSUME MaxCallsAssumption == MaxCalls \in Nat

UInt == 0..MaxUInt
Wrap(n) == n % (MaxUInt + 1)

VARIABLES pc,          \* where each thread is in getInstance, or "using"
          ptr,         \* what getInstance gave each thread
          mSelf,
          made,        \* the instances constructed so far
          mFds,        \* TRUE: both files of the instance are open
          mAcqCount,   \* of each instance
          mIsHeld,     \* of each instance
          kernelHeld,  \* the kernel's lock of that name is held
          calls,
          taken,       \* history: the sum of the counts acquired, unbounded
          given,       \* history: the sum of the counts released, unbounded
          idleHold     \* history: why the lock is held with a count of zero

vars == <<pc, ptr, mSelf, made, mFds, mAcqCount, mIsHeld, kernelHeld, calls,
          taken, given, idleHold>>
getVars == <<pc, ptr, mSelf, made, mFds>>
lockVars == <<mAcqCount, mIsHeld, kernelHeld, calls, taken, given, idleHold>>

TypeOK ==
    /\ pc \in [Threads -> {"start", "create", "assign", "return", "using"}]
    /\ ptr \in [Threads -> Threads \cup {NoInstance}]
    /\ mSelf \in Threads \cup {NoInstance}
    /\ made \subseteq Threads
    /\ mFds \in [Threads -> BOOLEAN]
    /\ mAcqCount \in [Threads -> UInt]
    /\ mIsHeld \in [Threads -> BOOLEAN]
    /\ kernelHeld \in BOOLEAN
    /\ calls \in 0..MaxCalls
    /\ taken \in [Threads -> Nat]
    /\ given \in [Threads -> Nat]
    /\ idleHold \in {"none", "zeroAcquire", "failedRelease"}

Init ==
    /\ pc = [t \in Threads |-> "start"]
    /\ ptr = [t \in Threads |-> NoInstance]
    /\ mSelf = NoInstance
    /\ made = {}
    /\ mFds = [t \in Threads |-> FALSE]
    /\ mAcqCount = [t \in Threads |-> 0]
    /\ mIsHeld = [t \in Threads |-> FALSE]
    /\ kernelHeld = FALSE
    /\ calls = 0
    /\ taken = [t \in Threads |-> 0]
    /\ given = [t \in Threads |-> 0]
    /\ idleHold = "none"

------------------------------------------------------------------------
(* getInstance                                                             *)

\* The test of mSelf; without an instance the thread goes on to make one.  (A
\* call with no lock name gets null then, and leaves everything as it is.)
TestSelf(t) ==
    /\ pc[t] = "start"
    /\ IF mSelf # NoInstance
       THEN /\ pc' = [pc EXCEPT ![t] = "using"]
            /\ ptr' = [ptr EXCEPT ![t] = mSelf]
       ELSE /\ pc' = [pc EXCEPT ![t] = "create"]
            /\ UNCHANGED ptr
    /\ UNCHANGED <<mSelf, made, mFds, lockVars>>

\* The constructor opens both files, or neither.
Construct(t) ==
    /\ pc[t] = "create"
    /\ pc' = [pc EXCEPT ![t] = "assign"]
    /\ made' = made \cup {t}
    /\ \E opened \in BOOLEAN : mFds' = [mFds EXCEPT ![t] = opened]
    /\ UNCHANGED <<ptr, mSelf, lockVars>>

AssignSelf(t) ==
    /\ pc[t] = "assign"
    /\ pc' = [pc EXCEPT ![t] = "return"]
    /\ mSelf' = t
    /\ UNCHANGED <<ptr, made, mFds, lockVars>>

\* return mSelf reads the pointer once more.
ReturnSelf(t) ==
    /\ pc[t] = "return"
    /\ pc' = [pc EXCEPT ![t] = "using"]
    /\ ptr' = [ptr EXCEPT ![t] = mSelf]
    /\ UNCHANGED <<mSelf, made, mFds, lockVars>>

------------------------------------------------------------------------
(* acquire(count) and release(count) on the instance i of a thread         *)

Using(t) ==
    /\ pc[t] = "using"
    /\ calls < MaxCalls
    /\ calls' = calls + 1
    /\ UNCHANGED getVars

\* Slip: the sum is not checked.
NeverOverflows(i, n) == FALSE

\* The count is refused: added up it would not fit an unsigned int.
Overflows(i, n) == n > MaxUInt - mAcqCount[i]

Add(i, n) ==
    /\ mAcqCount' = [mAcqCount EXCEPT ![i] = Wrap(@ + n)]
    /\ taken' = [taken EXCEPT ![i] = @ + n]
    /\ UNCHANGED given

\* The lock is not held: the name is written to wake_lock first.
AcquireFirst(t, n) ==
    LET i == ptr[t] IN
    /\ Using(t)
    /\ ~Overflows(i, n)
    /\ mAcqCount[i] = 0 /\ ~mIsHeld[i]
    /\ mFds[i]
    /\ kernelHeld' = TRUE
    /\ mIsHeld' = [mIsHeld EXCEPT ![i] = TRUE]
    /\ Add(i, n)
    /\ idleHold' = IF n = 0 THEN "zeroAcquire" ELSE "none"

\* The lock is held already, and only the count grows.
AcquireMore(t, n) ==
    LET i == ptr[t] IN
    /\ Using(t)
    /\ ~Overflows(i, n)
    /\ mAcqCount[i] # 0 \/ mIsHeld[i]
    /\ Add(i, n)
    /\ idleHold' = IF n = 0 THEN idleHold ELSE "none"
    /\ UNCHANGED <<mIsHeld, kernelHeld>>

\* Refused, or the lock is not held and could not be taken.
AcquireFails(t, n) ==
    LET i == ptr[t] IN
    /\ Using(t)
    /\ Overflows(i, n) \/ (mAcqCount[i] = 0 /\ ~mIsHeld[i])
    /\ UNCHANGED <<mAcqCount, mIsHeld, kernelHeld, taken, given, idleHold>>

\* Slip: one more than was acquired can be released.
SubtractOneMore(i, n) ==
    /\ n <= mAcqCount[i] + 1
    /\ mAcqCount' = [mAcqCount EXCEPT ![i] = @ - n]
    /\ given' = [given EXCEPT ![i] = @ + n]
    /\ UNCHANGED taken

Subtract(i, n) ==
    /\ n <= mAcqCount[i]
    /\ mAcqCount' = [mAcqCount EXCEPT ![i] = @ - n]
    /\ given' = [given EXCEPT ![i] = @ + n]
    /\ UNCHANGED taken

\* Slip: every release drops the lock.
ReleaseSomeDrops(t, n) ==
    LET i == ptr[t] IN
    /\ Using(t)
    /\ Subtract(i, n)
    /\ mAcqCount[i] # n /\ mIsHeld[i]
    /\ kernelHeld' = FALSE
    /\ mIsHeld' = [mIsHeld EXCEPT ![i] = FALSE]
    /\ UNCHANGED idleHold

\* The count stays above zero, or the instance holds no lock.
ReleaseSome(t, n) ==
    LET i == ptr[t] IN
    /\ Using(t)
    /\ Subtract(i, n)
    /\ ~(mAcqCount[i] = n /\ mIsHeld[i])
    /\ UNCHANGED <<mIsHeld, kernelHeld, idleHold>>

\* Slip: the last release does not write to wake_unlock.
ReleaseLastKeeps(t, n) ==
    /\ Using(t)
    /\ Subtract(ptr[t], n)
    /\ mAcqCount[ptr[t]] = n /\ mIsHeld[ptr[t]]
    /\ UNCHANGED <<mIsHeld, kernelHeld, idleHold>>

\* Slip: the flag is cleared before the write, which may fail.
ReleaseLastForgets(t, n) ==
    LET i == ptr[t] IN
    /\ Using(t)
    /\ Subtract(i, n)
    /\ mAcqCount[i] = n /\ mIsHeld[i]
    /\ mIsHeld' = [mIsHeld EXCEPT ![i] = FALSE]
    /\ \/ mFds[i] /\ kernelHeld' = FALSE /\ idleHold' = "none"
       \/ idleHold' = "failedRelease" /\ UNCHANGED kernelHeld

\* The count reaches zero: the name is written to wake_unlock, and a failure
\* of that leaves the lock held.
ReleaseLast(t, n) ==
    LET i == ptr[t] IN
    /\ Using(t)
    /\ Subtract(i, n)
    /\ mAcqCount[i] = n /\ mIsHeld[i]
    /\ \/ /\ mFds[i]
          /\ kernelHeld' = FALSE
          /\ mIsHeld' = [mIsHeld EXCEPT ![i] = FALSE]
          /\ idleHold' = "none"
       \/ /\ idleHold' = "failedRelease"
          /\ UNCHANGED <<mIsHeld, kernelHeld>>

ReleaseRefused(t, n) ==
    /\ Using(t)
    /\ n > mAcqCount[ptr[t]]
    /\ UNCHANGED <<mAcqCount, mIsHeld, kernelHeld, taken, given, idleHold>>

------------------------------------------------------------------------

\* The bound is used up.
Done ==
    /\ \A t \in Threads : pc[t] = "using"
    /\ calls = MaxCalls
    /\ UNCHANGED vars

GetInstance(t) ==
    \/ TestSelf(t)
    \/ Construct(t)
    \/ AssignSelf(t)
    \/ ReturnSelf(t)

AcquireOrRelease(t, n) ==
    \/ AcquireFirst(t, n)
    \/ AcquireMore(t, n)
    \/ AcquireFails(t, n)
    \/ ReleaseSome(t, n)
    \/ ReleaseLast(t, n)
    \/ ReleaseRefused(t, n)

Next ==
    \/ \E t \in Threads :
          \/ GetInstance(t)
          \/ \E n \in UInt : AcquireOrRelease(t, n)
    \/ Done

Spec == Init /\ [][Next]_vars

------------------------------------------------------------------------
(* Properties                                                              *)

\* No two threads ran into each other in getInstance.
OneInstance == \A i, j \in made : i = j

\* Samples that are outstanding keep the kernel awake: whatever sequence of
\* calls and of failed writes went before, a positive count means the lock.
LockHeldWhileCounted ==
    OneInstance => \A i \in made : mAcqCount[i] > 0 => kernelHeld

\* The count is the difference of what was acquired and what was released,
\* as integers: no call makes it wrap round.
CountIsBalance == \A i \in Threads : mAcqCount[i] = taken[i] - given[i]

\* The lock is held for nobody only after an acquire of no samples, or when
\* the kernel refused to drop it.
HeldForSamples ==
    OneInstance /\ kernelHeld =>
        (\E i \in made : mAcqCount[i] > 0) \/ idleHold # "none"

\* mIsHeld is what the kernel has, through every sequence of failed writes: a
\* lock that could not be dropped, or was taken for no samples, is not
\* forgotten, so that a later call takes it over or drops it
\* (qshWakelock.cpp 86, 109, 122-160).
HeldAsRecorded ==
    OneInstance => \A i \in made : mIsHeld[i] = kernelHeld

\* "Singleton class which will interact with qshWakelock to acuire / release
\* the wakelock based on the number of wakeup events": the threads share one
\* count, so the lock is held while any of them has samples outstanding.
SharedCount == \A i \in made : mAcqCount[i] > 0 => kernelHeld
=============================================================================
