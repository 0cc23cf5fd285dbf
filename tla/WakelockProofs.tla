-------------------------- MODULE WakelockProofs --------------------------
(***************************************************************************)
(* Proofs about Wakelock, for any number of threads, any width of the      *)
(* counter and any number of calls.                                        *)
(***************************************************************************)
EXTENDS Wakelock, TLAPS

------------------------------------------------------------------------
(* The inductive invariant.                                                *)

\* A thread that may call acquire and release has a constructed instance,
\* and mSelf never points to anything else.
PointerInv ==
    /\ mSelf \in made \cup {NoInstance}
    /\ \A t \in Threads :
         /\ pc[t] = "using" => ptr[t] \in made
         /\ pc[t] = "assign" => t \in made
         /\ pc[t] = "return" => mSelf \in made

\* An instance that does not exist yet has neither a count nor the lock.
UnmadeInv ==
    \A i \in Threads \ made : mAcqCount[i] = 0 /\ ~mIsHeld[i]

\* A positive count means that this instance took the lock, and with one
\* instance its mIsHeld is the state of the kernel's lock.
HeldInv ==
    /\ \A i \in Threads : mAcqCount[i] > 0 => mIsHeld[i]
    /\ OneInstance => (kernelHeld <=> \E i \in made : mIsHeld[i])

IInv ==
    /\ TypeOK
    /\ PointerInv
    /\ UnmadeInv
    /\ HeldInv
    /\ CountIsBalance
    /\ HeldForSamples

------------------------------------------------------------------------
(* Every step keeps the invariant.                                         *)

\* A sum that fits an unsigned int does not wrap round.
LEMMA WrapExact ==
    ASSUME NEW n \in UInt
    PROVE  Wrap(n) = n
  BY MaxUIntAssumption DEF UInt, Wrap

\* Getting an instance changes no count and no lock.
LEMMA GetInstanceStep ==
    ASSUME IInv, NEW t \in Threads, GetInstance(t)
    PROVE  IInv'
<1> USE NoInstanceAssumption DEF IInv, TypeOK, lockVars
<1>1. CASE TestSelf(t)
  <2>1. TypeOK'
    BY <1>1 DEF TestSelf
  <2>2. PointerInv'
    BY <1>1 DEF TestSelf, PointerInv
  <2>3. UnmadeInv' /\ HeldInv' /\ CountIsBalance' /\ HeldForSamples'
    BY <1>1 DEF TestSelf, UnmadeInv, HeldInv, CountIsBalance, HeldForSamples,
                OneInstance
  <2> QED
    BY <2>1, <2>2, <2>3
<1>2. CASE Construct(t)
  <2>1. TypeOK' /\ PointerInv' /\ UnmadeInv' /\ CountIsBalance'
    BY <1>2 DEF Construct, PointerInv, UnmadeInv, CountIsBalance
  <2>2. \A i \in made' \ made : mAcqCount[i] = 0 /\ ~mIsHeld[i]
    BY <1>2 DEF Construct, UnmadeInv
  <2>3. HeldInv'
    BY <1>2, <2>2 DEF Construct, HeldInv, OneInstance
  <2>4. HeldForSamples'
    BY <1>2, <2>2 DEF Construct, HeldForSamples, OneInstance
  <2> QED
    BY <2>1, <2>3, <2>4
<1>3. CASE AssignSelf(t)
  BY <1>3 DEF AssignSelf, PointerInv, UnmadeInv, HeldInv, CountIsBalance,
              HeldForSamples, OneInstance
<1>4. CASE ReturnSelf(t)
  BY <1>4 DEF ReturnSelf, PointerInv, UnmadeInv, HeldInv, CountIsBalance,
              HeldForSamples, OneInstance
<1> QED
  BY <1>1, <1>2, <1>3, <1>4 DEF GetInstance

\* acquire and release keep the books of their instance.
LEMMA AcquireOrReleaseStep ==
    ASSUME IInv, NEW t \in Threads, NEW n \in UInt, AcquireOrRelease(t, n)
    PROVE  IInv'
<1> DEFINE i == ptr[t]
<1>1. /\ i \in made /\ i \in Threads
      /\ UNCHANGED getVars
      /\ calls < MaxCalls /\ calls' = calls + 1
  BY DEF IInv, TypeOK, PointerInv, AcquireOrRelease, AcquireFirst, AcquireMore,
         AcquireFails, ReleaseSome, ReleaseLast, ReleaseRefused, Using
<1>2. TypeOK
  BY DEF IInv
<1>3. PointerInv' /\ (OneInstance' <=> OneInstance) /\ (OneInstance => made = {i})
  BY <1>1 DEF IInv, PointerInv, OneInstance, getVars
<1>4. calls' \in 0..MaxCalls
  BY <1>1, <1>2, MaxCallsAssumption DEF TypeOK
<1> USE MaxUIntAssumption DEF UInt, getVars
<1>5. CASE AcquireFirst(t, n)
  <2>1. mAcqCount'[i] = mAcqCount[i] + n /\ mAcqCount[i] + n \in UInt
    BY <1>1, <1>2, <1>5, WrapExact DEF AcquireFirst, Overflows, Add, TypeOK
  <2>2. TypeOK'
    BY <1>1, <1>2, <1>4, <1>5, <2>1 DEF AcquireFirst, Add, TypeOK
  <2>3. UnmadeInv' /\ CountIsBalance'
    <3>1. UnmadeInv'
      BY <1>1, <1>2, <1>5 DEF AcquireFirst, Add, IInv, TypeOK, UnmadeInv
    <3>2. CountIsBalance'
      BY <1>1, <1>2, <1>5, <2>1 DEF AcquireFirst, Add, IInv, TypeOK, CountIsBalance
    <3> QED
      BY <3>1, <3>2
  <2>4. HeldInv'
    BY <1>1, <1>2, <1>3, <1>5, <2>1 DEF AcquireFirst, Add, IInv, TypeOK, HeldInv
  <2>5. HeldForSamples'
    BY <1>1, <1>2, <1>3, <1>5, <2>1 DEF AcquireFirst, Add, IInv, TypeOK, HeldInv, HeldForSamples
  <2> QED
    BY <1>3, <2>2, <2>3, <2>4, <2>5 DEF IInv
<1>6. CASE AcquireMore(t, n)
  <2>1. mAcqCount'[i] = mAcqCount[i] + n /\ mAcqCount[i] + n \in UInt
    BY <1>1, <1>2, <1>6, WrapExact DEF AcquireMore, Overflows, Add, TypeOK
  <2>2. TypeOK'
    BY <1>1, <1>2, <1>4, <1>6, <2>1 DEF AcquireMore, Add, TypeOK
  <2>3. UnmadeInv' /\ CountIsBalance'
    <3>1. UnmadeInv'
      BY <1>1, <1>2, <1>6 DEF AcquireMore, Add, IInv, TypeOK, UnmadeInv
    <3>2. CountIsBalance'
      BY <1>1, <1>2, <1>6, <2>1 DEF AcquireMore, Add, IInv, TypeOK, CountIsBalance
    <3> QED
      BY <3>1, <3>2
  <2>4. HeldInv'
    BY <1>1, <1>2, <1>3, <1>6, <2>1 DEF AcquireMore, Add, IInv, TypeOK, HeldInv
  <2>5. HeldForSamples'
    BY <1>1, <1>2, <1>3, <1>6, <2>1 DEF AcquireMore, Add, IInv, TypeOK, HeldInv, HeldForSamples
  <2> QED
    BY <1>3, <2>2, <2>3, <2>4, <2>5 DEF IInv
<1>7. CASE AcquireFails(t, n)
  BY <1>1, <1>3, <1>4, <1>7 DEF AcquireFails, IInv, TypeOK, UnmadeInv, HeldInv,
                                 CountIsBalance, HeldForSamples, OneInstance
<1>8. CASE ReleaseSome(t, n)
  <2>1. mAcqCount'[i] = mAcqCount[i] - n /\ mAcqCount[i] - n \in UInt
    BY <1>1, <1>2, <1>8 DEF ReleaseSome, Subtract, TypeOK
  <2>2. TypeOK'
    BY <1>1, <1>2, <1>4, <1>8, <2>1 DEF ReleaseSome, Subtract, TypeOK
  <2>3. UnmadeInv' /\ CountIsBalance'
    <3>1. UnmadeInv'
      BY <1>1, <1>2, <1>8 DEF ReleaseSome, Subtract, IInv, TypeOK, UnmadeInv
    <3>2. CountIsBalance'
      BY <1>1, <1>2, <1>8, <2>1 DEF ReleaseSome, Subtract, IInv, TypeOK, CountIsBalance
    <3> QED
      BY <3>1, <3>2
  <2>4. HeldInv'
    BY <1>1, <1>2, <1>3, <1>8, <2>1 DEF ReleaseSome, Subtract, IInv, TypeOK, HeldInv
  <2>5. HeldForSamples'
    BY <1>1, <1>2, <1>3, <1>8, <2>1 DEF ReleaseSome, Subtract, IInv, TypeOK, HeldInv, HeldForSamples
  <2> QED
    BY <1>3, <2>2, <2>3, <2>4, <2>5 DEF IInv
<1>9. CASE ReleaseLast(t, n)
  <2>1. mAcqCount'[i] = 0
    BY <1>1, <1>2, <1>9 DEF ReleaseLast, Subtract, TypeOK
  <2>2. TypeOK'
    <3>1. mAcqCount' \in [Threads -> UInt] /\ given' \in [Threads -> Nat]
      BY <1>1, <1>2, <1>9, <2>1 DEF ReleaseLast, Subtract, TypeOK
    <3>2. mIsHeld' \in [Threads -> BOOLEAN] /\ kernelHeld' \in BOOLEAN
      BY <1>2, <1>9 DEF ReleaseLast, TypeOK
    <3>3. idleHold' \in {"none", "zeroAcquire", "failedRelease"} /\ UNCHANGED taken
      BY <1>9 DEF ReleaseLast, Subtract
    <3> QED
      BY <1>1, <1>2, <1>4, <3>1, <3>2, <3>3 DEF TypeOK
  <2>3. UnmadeInv' /\ CountIsBalance'
    <3>1. UnmadeInv'
      BY <1>1, <1>2, <1>9 DEF ReleaseLast, Subtract, IInv, TypeOK, UnmadeInv
    <3>2. CountIsBalance'
      BY <1>1, <1>2, <1>9, <2>1 DEF ReleaseLast, Subtract, IInv, TypeOK, CountIsBalance
    <3> QED
      BY <3>1, <3>2
  <2>4. HeldInv'
    BY <1>1, <1>2, <1>3, <1>9, <2>1 DEF ReleaseLast, Subtract, IInv, TypeOK, HeldInv
  <2>5. HeldForSamples'
    BY <1>1, <1>2, <1>3, <1>9, <2>1 DEF ReleaseLast, Subtract, IInv, TypeOK, HeldInv, HeldForSamples
  <2> QED
    BY <1>3, <2>2, <2>3, <2>4, <2>5 DEF IInv
<1>10. CASE ReleaseRefused(t, n)
  BY <1>1, <1>3, <1>4, <1>10 DEF ReleaseRefused, IInv, TypeOK, UnmadeInv, HeldInv,
                                 CountIsBalance, HeldForSamples, OneInstance
<1> QED
  BY <1>5, <1>6, <1>7, <1>8, <1>9, <1>10 DEF AcquireOrRelease

LEMMA InitIInv == Init => IInv
<1> SUFFICES ASSUME Init PROVE IInv
  OBVIOUS
<1>1. TypeOK
  <2>1. 0 \in UInt /\ 0 \in 0..MaxCalls /\ 0 \in Nat
    BY MaxUIntAssumption, MaxCallsAssumption DEF UInt
  <2> QED
    BY <2>1 DEF Init, TypeOK
<1>2. PointerInv /\ UnmadeInv /\ HeldInv /\ HeldForSamples
  BY DEF Init, PointerInv, UnmadeInv, HeldInv, HeldForSamples, OneInstance
<1>3. CountIsBalance
  BY DEF Init, CountIsBalance
<1> QED
  BY <1>1, <1>2, <1>3 DEF IInv

LEMMA NextIInv == IInv /\ [Next]_vars => IInv'
<1> SUFFICES ASSUME IInv, [Next]_vars
             PROVE  IInv'
  OBVIOUS
<1>1. ASSUME NEW t \in Threads, GetInstance(t) PROVE IInv'
  BY <1>1, GetInstanceStep
<1>2. ASSUME NEW t \in Threads, NEW n \in UInt, AcquireOrRelease(t, n) PROVE IInv'
  BY <1>2, AcquireOrReleaseStep
<1>3. CASE UNCHANGED vars
  BY <1>3 DEF vars, IInv, TypeOK, PointerInv, UnmadeInv, HeldInv, OneInstance,
              CountIsBalance, HeldForSamples
<1> QED
  BY <1>1, <1>2, <1>3 DEF Next, Done

------------------------------------------------------------------------
(* The theorems.                                                           *)

\* The inductive invariant holds, whatever the threads acquire and release
\* and whichever writes fail.
THEOREM Invariant == Spec => []IInv
  BY InitIInv, NextIInv, PTL DEF Spec

\* Every variable keeps its type, the count in particular its width.
THEOREM TypeCorrect == Spec => []TypeOK
<1>1. IInv => TypeOK
  BY DEF IInv
<1> QED
  BY <1>1, Invariant, PTL

\* The check of acquire(count) against the maximum excludes a wrap-around.
THEOREM NoWrapAround == Spec => []CountIsBalance
<1>1. IInv => CountIsBalance
  BY DEF IInv
<1> QED
  BY <1>1, Invariant, PTL

\* With one instance, outstanding samples keep the kernel's lock held.
THEOREM LockHeld == Spec => []LockHeldWhileCounted
<1>1. IInv => LockHeldWhileCounted
  BY DEF IInv, TypeOK, HeldInv, LockHeldWhileCounted
<1> QED
  BY <1>1, Invariant, PTL

\* With one instance, the lock is held for nobody only for a known reason.
THEOREM LockDropped == Spec => []HeldForSamples
<1>1. IInv => HeldForSamples
  BY DEF IInv
<1> QED
  BY <1>1, Invariant, PTL

\* With one instance, its mIsHeld is the state of the kernel's lock.
THEOREM FlagIsTrue == Spec => []HeldAsRecorded
<1>1. IInv => HeldAsRecorded
  <2> SUFFICES ASSUME IInv, OneInstance, NEW i \in made
               PROVE  mIsHeld[i] = kernelHeld
    BY DEF HeldAsRecorded
  <2>1. mIsHeld[i] \in BOOLEAN /\ kernelHeld \in BOOLEAN
    BY DEF IInv, TypeOK
  <2>2. kernelHeld <=> mIsHeld[i]
    BY DEF IInv, HeldInv, OneInstance
  <2> QED
    BY <2>1, <2>2
<1> QED
  BY <1>1, Invariant, PTL

=============================================================================
