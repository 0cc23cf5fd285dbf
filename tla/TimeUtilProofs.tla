--------------------------- MODULE TimeUtilProofs ---------------------------
(***************************************************************************)
(* Proofs about TimeUtil, for any set of threads, any clock steps and any  *)
(* schedule, threshold and iteration limit.                                *)
(***************************************************************************)
EXTENDS TimeUtil, TLAPS

--------------------------------------------------------------------------------
(* The inductive invariant.                                                *)

\* The clocks as they are now are a reading, and none is in the future or
\* negative.
ReadingInv ==
  /\ [at |-> now, skew |-> skew] \in readings
  /\ \A r \in readings : r.at <= now /\ r.at + r.skew >= 0
  /\ storedAt <= now

\* The measurement of a thread is of one moment after its reading of the
\* QTimer; it has been stored once the thread tests the gap.
Measured(t) ==
  \E r \in readings :
    /\ ns[t] <= r.at
    /\ curr[t] = r.at + r.skew
    /\ pc[t] = "check" => r.at <= storedAt

MeasureInv ==
  \A t \in Threads :
    /\ Updating(t) => iter[t] < QTIMER_GAP_MAX_ITERATION
    /\ pc[t] \in {"clock", "store", "check"} => ns[t] <= now
    /\ pc[t] \in {"store", "check"} => Measured(t)
    /\ pc[t] \in {"check", "publish"} \/ changed[t] => storedAt # -1

\* A stored offset is not below every skew there was.
BehindInv == storedAt # -1 => \E r \in readings : mOffsetNs >= r.skew

\* The thread that answers for an offset that may be bad: it has yet to test
\* the measurement, or it measures again.
Owes(t) ==
  \/ pc[t] = "check" /\ mOffsetNs = curr[t] - ns[t]
  \/ pc[t] \in {"measure", "clock", "store"} /\ iter[t] > 0

OwedInv ==
  storedAt # -1 /\ ~gaveUp => Accurate \/ \E t \in Threads : Owes(t)

IInv == TypeOK /\ ReadingInv /\ MeasureInv /\ BehindInv /\ OwedInv

--------------------------------------------------------------------------------
(* The initial states and the steps.                                       *)

LEMMA InitInv == Init => IInv
<1> SUFFICES ASSUME Init PROVE IInv
  OBVIOUS
<1> USE ClockAssumption DEF Init
<1>1. TypeOK
  <2>1. now \in Nat /\ skew \in Int /\ mOffsetNs \in Int /\ mLastRealtimeNs \in Int
    OBVIOUS
  <2>2. NoCall \in [op : Ops, ts : Int, force : BOOLEAN]
    BY DEF NoCall, Ops
  <2>3. 0 \in 0 .. QTIMER_GAP_MAX_ITERATION
    OBVIOUS
  <2>4. now \in Nat /\ readings \subseteq Reading
    BY <2>1 DEF Reading
  <2>5. /\ pc \in [Threads -> {"idle", "test", "measure", "clock", "store", "check",
                              "publish", "return"}]
        /\ androidTS \in [Threads -> Int] /\ ns \in [Threads -> Nat]
        /\ curr \in [Threads -> Int] /\ changed \in [Threads -> BOOLEAN]
        /\ gaveUp \in BOOLEAN
    <3>1. pc \in [Threads -> {"idle", "test", "measure", "clock", "store", "check",
                              "publish", "return"}]
      OBVIOUS
    <3>2. androidTS \in [Threads -> Int] /\ ns \in [Threads -> Nat]
      OBVIOUS
    <3>3. curr \in [Threads -> Int]
      OBVIOUS
    <3>4. changed \in [Threads -> BOOLEAN] /\ gaveUp \in BOOLEAN
      OBVIOUS
    <3> QED BY <3>1, <3>2, <3>3, <3>4
  <2>6. -1 \in Int
    OBVIOUS
  <2>7. /\ call \in [Threads -> [op : Ops, ts : Int, force : BOOLEAN]]
        /\ iter \in [Threads -> 0 .. QTIMER_GAP_MAX_ITERATION]
    BY <2>2, <2>3
  <2> QED BY <2>1, <2>4, <2>5, <2>6, <2>7 DEF TypeOK
<1>2. now \in Nat /\ skew \in Int /\ now >= Boot /\ Boot + skew >= 0
  OBVIOUS
<1>3. now + skew >= 0
  BY <1>2
<1>4. ReadingInv
  BY <1>2, <1>3 DEF ReadingInv
<1>5. MeasureInv /\ BehindInv /\ OwedInv
  BY DEF MeasureInv, BehindInv, OwedInv, Updating
<1> QED BY <1>1, <1>4, <1>5 DEF IInv

\* The clocks go on: readings are added and none is lost.
LEMMA ClockStep ==
  ASSUME IInv, Tick \/ \E s \in Skews : SetClock(s)
  PROVE  IInv'
<1> USE ClockAssumption DEF IInv
<1>1. /\ now' \in Nat /\ skew' \in Int /\ now <= now' /\ now' + skew' >= 0
      /\ readings' = readings \cup {[at |-> now', skew |-> skew']}
      /\ UNCHANGED <<mOffsetNs, mLastRealtimeNs, pc, call, androidTS, ns, curr, iter,
                     changed, storedAt, gaveUp>>
  BY DEF Tick, SetClock, atomics, locals, history, TypeOK, ReadingInv
<1>2. TypeOK'
  BY <1>1 DEF TypeOK, Reading
<1>3. ReadingInv'
  <2>1. PICK n \in Int, s \in Int : n = now' /\ s = skew'
    BY <1>1
  <2>2. readings' = readings \cup {[at |-> n, skew |-> s]} /\ now <= n /\ n + s >= 0
    BY <1>1, <2>1
  <2>3. \A r \in readings : r.at <= n /\ r.at + r.skew >= 0
    BY <2>2 DEF ReadingInv, TypeOK, Reading
  <2>4. \A r \in {[at |-> n, skew |-> s]} : r.at <= n /\ r.at + r.skew >= 0
    BY <2>2
  <2>5. storedAt' <= now'
    BY <1>1 DEF TypeOK, ReadingInv
  <2> QED BY <2>1, <2>2, <2>3, <2>4, <2>5 DEF ReadingInv
<1>4. \A t \in Threads : Measured(t) => Measured(t)'
  BY <1>1 DEF Measured
<1>5. MeasureInv'
  BY <1>1, <1>4 DEF MeasureInv, TypeOK, Updating
<1>6. BehindInv'
  BY <1>1 DEF BehindInv
<1>7. (Accurate => Accurate') /\ \A t \in Threads : Owes(t) => Owes(t)'
  BY <1>1 DEF Accurate, Owes
<1>8. OwedInv'
  BY <1>1, <1>7 DEF OwedInv
<1> QED BY <1>2, <1>3, <1>5, <1>6, <1>8

\* A thread that has not measured yet, or no longer does, changes neither the
\* clocks nor the offset, and owes nothing.
LEMMA OutsideStep ==
  ASSUME IInv, NEW t \in Threads,
         \/ qtimerNsToElapsedRealtimeNano(t)
         \/ elapsedRealtimeNanoToQtimerNs(t)
         \/ recalculateOffset(t)
         \/ Test(t) \/ Publish(t) \/ Return(t)
  PROVE  IInv'
<1> USE ClockAssumption DEF IInv
<1>1. /\ UNCHANGED <<now, skew, readings, mOffsetNs, storedAt, gaveUp>>
      /\ pc[t] \in {"idle", "test", "publish", "return"}
      /\ pc'[t] \in {"test", "measure", "return", "idle"}
      /\ pc'[t] = "measure" => iter'[t] = 0
      /\ changed'[t] => changed[t] \/ pc[t] = "publish"
      /\ \A u \in Threads \ {t} : /\ pc'[u] = pc[u] /\ ns'[u] = ns[u]
                                  /\ curr'[u] = curr[u] /\ iter'[u] = iter[u]
                                  /\ changed'[u] = changed[u]
  BY DEF qtimerNsToElapsedRealtimeNano, elapsedRealtimeNanoToQtimerNs,
         recalculateOffset, Enter, Test, Publish, Return, GoTo, clocks, atomics,
         locals, history, TypeOK
<1>2. TypeOK'
  <2>1. CASE Test(t)
    BY <2>1 DEF Test, GoTo, TypeOK, clocks, atomics, history
  <2>2. CASE Publish(t)
    BY <2>2 DEF Publish, GoTo, TypeOK, clocks, history
  <2>3. CASE Return(t)
    <3>1. NoCall \in [op : Ops, ts : Int, force : BOOLEAN]
      BY DEF NoCall, Ops
    <3> QED BY <2>3, <3>1 DEF Return, GoTo, TypeOK, clocks, atomics, history
  <2>4. ASSUME NEW op \in Ops, NEW ts \in Int, NEW force \in BOOLEAN,
               NEW android \in Int, Enter(t, op, ts, force, android)
        PROVE  TypeOK'
    BY <2>4 DEF Enter, TypeOK, clocks, atomics, history
  <2>5. CASE qtimerNsToElapsedRealtimeNano(t)
    <3>1. PICK age \in Ages :
            Enter(t, "toRealtime", now - age, FALSE, now - age + mOffsetNs)
      BY <2>5 DEF qtimerNsToElapsedRealtimeNano
    <3>2. now - age \in Int /\ now - age + mOffsetNs \in Int /\ "toRealtime" \in Ops
      BY DEF TypeOK, Ops
    <3> QED BY <2>4, <3>1, <3>2
  <2>6. CASE elapsedRealtimeNanoToQtimerNs(t)
    <3>1. PICK age \in Ages : Enter(t, "toQtimer", 0, FALSE, Realtime - age)
      BY <2>6 DEF elapsedRealtimeNanoToQtimerNs
    <3>2. /\ Realtime - age \in Int /\ "toQtimer" \in Ops
          /\ 0 \in Int /\ FALSE \in BOOLEAN
      BY DEF TypeOK, Ops, Realtime
    <3> QED BY <2>4, <3>1, <3>2
  <2>7. CASE recalculateOffset(t)
    <3>1. Realtime \in Int /\ "recalculate" \in Ops
      BY DEF TypeOK, Ops, Realtime
    <3> QED BY <2>4, <2>7, <3>1 DEF recalculateOffset
  <2> QED BY <2>1, <2>2, <2>3, <2>5, <2>6, <2>7
<1>3. ReadingInv' /\ BehindInv'
  BY <1>1 DEF ReadingInv, BehindInv
<1>4. \A u \in Threads \ {t} : Measured(u) => Measured(u)'
  BY <1>1 DEF Measured
<1>5. MeasureInv'
  BY <1>1, <1>4 DEF MeasureInv, TypeOK, Updating
<1>6. (Accurate => Accurate') /\ ~Owes(t)
  BY <1>1 DEF Accurate, Owes
<1>7. \A u \in Threads \ {t} : Owes(u) => Owes(u)'
  BY <1>1 DEF Owes
<1>8. OwedInv'
  BY <1>1, <1>6, <1>7 DEF OwedInv
<1> QED BY <1>2, <1>3, <1>5, <1>8

\* Reading the QTimer and then the realtime clock makes a measurement.
LEMMA ReadStep ==
  ASSUME IInv, NEW t \in Threads, ReadQtimer(t) \/ ReadClock(t)
  PROVE  IInv'
<1> USE ClockAssumption DEF IInv
<1>1. /\ UNCHANGED <<now, skew, readings, mOffsetNs, storedAt, gaveUp, changed, iter>>
      /\ \/ /\ pc[t] = "measure" /\ pc'[t] = "clock" /\ ns'[t] = now
         \/ /\ pc[t] = "clock" /\ pc'[t] = "store" /\ ns'[t] = ns[t]
            /\ curr'[t] = now + skew
      /\ \A u \in Threads \ {t} : /\ pc'[u] = pc[u] /\ ns'[u] = ns[u]
                                  /\ curr'[u] = curr[u]
  BY DEF ReadQtimer, ReadClock, GoTo, Realtime, clocks, atomics, history, TypeOK
<1>2. TypeOK'
  BY DEF ReadQtimer, ReadClock, GoTo, Realtime, clocks, atomics, history, TypeOK
<1>3. ReadingInv' /\ BehindInv'
  BY <1>1 DEF ReadingInv, BehindInv
<1>4. \A u \in Threads \ {t} : Measured(u) => Measured(u)'
  BY <1>1 DEF Measured
<1>5. pc'[t] = "store" => Measured(t)'
  <2> SUFFICES ASSUME pc'[t] = "store" PROVE Measured(t)'
    OBVIOUS
  <2>1. ns'[t] <= now /\ curr'[t] = now + skew
    BY <1>1 DEF MeasureInv
  <2>2. [at |-> now, skew |-> skew] \in readings'
    BY <1>1 DEF ReadingInv
  <2> QED BY <2>1, <2>2 DEF Measured
<1>6. MeasureInv'
  BY <1>1, <1>4, <1>5 DEF MeasureInv, TypeOK, Updating
<1>7. (Accurate => Accurate') /\ \A u \in Threads : Owes(u) => Owes(u)'
  BY <1>1 DEF Accurate, Owes
<1>8. OwedInv'
  BY <1>1, <1>7 DEF OwedInv
<1> QED BY <1>2, <1>3, <1>6, <1>8

\* Whatever is stored is a measurement, and the thread that stored it owes
\* the test of it.
LEMMA StoreStep ==
  ASSUME IInv, NEW t \in Threads, Store(t)
  PROVE  IInv'
<1> USE ClockAssumption DEF IInv
<1>1. PICK r \in readings : ns[t] <= r.at /\ curr[t] = r.at + r.skew
  BY DEF Store, GoTo, MeasureInv, Measured
<1>2. curr[t] >= 0 /\ r.at \in Int /\ r.skew \in Int /\ r.at <= now
  BY <1>1 DEF ReadingInv, TypeOK, Reading
<1>3. /\ UNCHANGED <<now, skew, readings, call, androidTS, mLastRealtimeNs, ns, curr,
                     iter, changed, gaveUp>>
      /\ pc[t] = "store" /\ pc' = [pc EXCEPT ![t] = "check"]
      /\ mOffsetNs' = curr[t] - ns[t] /\ storedAt' = now
  BY <1>2 DEF Store, GoTo, clocks, locals
<1>4. TypeOK'
  BY <1>3 DEF TypeOK
<1>5. ReadingInv'
  BY <1>3 DEF ReadingInv, TypeOK
<1>6. \A u \in Threads : Measured(u) => Measured(u)'
  BY <1>3 DEF Measured, ReadingInv
<1>7. MeasureInv'
  BY <1>3, <1>6 DEF MeasureInv, TypeOK, Updating
<1>8. mOffsetNs' >= r.skew
  BY <1>1, <1>2, <1>3 DEF TypeOK
<1>9. BehindInv'
  BY <1>3, <1>8 DEF BehindInv
<1>10. Owes(t)'
  BY <1>3 DEF Owes, TypeOK
<1> QED BY <1>4, <1>5, <1>7, <1>9, <1>10 DEF OwedInv

\* A measurement that passes the test makes the offset accurate, if it is the
\* one stored; otherwise another thread answers for the offset.
LEMMA CheckStep ==
  ASSUME IInv, NEW t \in Threads, Check(t)
  PROVE  IInv'
<1> USE ClockAssumption DEF IInv
<1> DEFINE again == TookTooLong(t) /\ iter[t] + 1 < QTIMER_GAP_MAX_ITERATION
<1>1. /\ UNCHANGED <<now, skew, readings, mOffsetNs, mLastRealtimeNs, call, androidTS,
                     ns, curr, changed, storedAt>>
      /\ pc[t] = "check"
      /\ pc' = [pc EXCEPT ![t] = IF again THEN "measure" ELSE "publish"]
      /\ iter' = [iter EXCEPT ![t] = @ + 1]
      /\ gaveUp' = (gaveUp \/ (TookTooLong(t) /\ ~again))
  BY DEF Check, GoTo, clocks, atomics
<1>2. iter[t] \in Nat /\ iter[t] < QTIMER_GAP_MAX_ITERATION
  BY <1>1 DEF MeasureInv, Updating, TypeOK
<1>3. TypeOK'
  BY <1>1, <1>2 DEF TypeOK
<1>4. ReadingInv' /\ BehindInv'
  BY <1>1 DEF ReadingInv, BehindInv
<1>5. \A u \in Threads \ {t} : Measured(u) => Measured(u)'
  BY <1>1 DEF Measured, TypeOK
<1>6. MeasureInv'
  BY <1>1, <1>2, <1>5 DEF MeasureInv, TypeOK, Updating
<1>7. (Accurate => Accurate') /\ \A u \in Threads \ {t} : Owes(u) => Owes(u)'
  BY <1>1 DEF Accurate, Owes, TypeOK
<1>8. again => Owes(t)'
  BY <1>1, <1>2 DEF Owes, TypeOK
<1>9. Owes(t) /\ ~TookTooLong(t) => Accurate
  <2> SUFFICES ASSUME Owes(t), ~TookTooLong(t) PROVE Accurate
    OBVIOUS
  <2>1. mOffsetNs = curr[t] - ns[t]
    BY <1>1 DEF Owes
  <2>2. PICK r \in readings :
          ns[t] <= r.at /\ curr[t] = r.at + r.skew /\ r.at <= storedAt
    BY <1>1 DEF MeasureInv, Measured
  <2>3. /\ ns[t] \in Int /\ r.at \in Int /\ r.skew \in Int
        /\ storedAt \in Int /\ now \in Int
        /\ r.at <= now /\ storedAt <= now
        /\ now - ns[t] <= QTIMER_GAP_THRESHOLD_NS
    BY DEF TypeOK, Reading, ReadingInv, TookTooLong
  <2>4. storedAt - r.at \in 0 .. QTIMER_GAP_THRESHOLD_NS
    BY <2>2, <2>3
  <2>5. mOffsetNs - r.skew \in 0 .. QTIMER_GAP_THRESHOLD_NS
    BY <2>1, <2>2, <2>3
  <2> QED BY <2>4, <2>5 DEF Accurate
<1>10. OwedInv'
  BY <1>1, <1>7, <1>8, <1>9 DEF OwedInv
<1> QED BY <1>3, <1>4, <1>6, <1>10

LEMMA NextInv == IInv /\ [Next]_vars => IInv'
<1> SUFFICES ASSUME IInv, [Next]_vars PROVE IInv'
  OBVIOUS
<1>1. CASE Tick \/ \E s \in Skews : SetClock(s)
  BY <1>1, ClockStep
<1>2. ASSUME NEW t \in Threads,
             \/ qtimerNsToElapsedRealtimeNano(t)
             \/ elapsedRealtimeNanoToQtimerNs(t)
             \/ recalculateOffset(t)
             \/ Test(t) \/ Publish(t) \/ Return(t)
      PROVE IInv'
  BY <1>2, OutsideStep
<1>3. ASSUME NEW t \in Threads, ReadQtimer(t) \/ ReadClock(t) PROVE IInv'
  BY <1>3, ReadStep
<1>4. ASSUME NEW t \in Threads, Store(t) PROVE IInv'
  BY <1>4, StoreStep
<1>5. ASSUME NEW t \in Threads, Check(t) PROVE IInv'
  BY <1>5, CheckStep
<1>6. CASE UNCHANGED vars
  BY <1>6 DEF vars, clocks, atomics, locals, history, IInv, TypeOK, ReadingInv,
              MeasureInv, Measured, Updating, BehindInv, OwedInv, Owes, Accurate
<1> QED BY <1>1, <1>2, <1>3, <1>4, <1>5, <1>6 DEF Next

THEOREM Invariance == Spec => []IInv
<1> QED BY InitInv, NextInv, PTL DEF Spec

--------------------------------------------------------------------------------
(* The theorems.                                                           *)

\* The clocks, the atomics and the locals have their types and no update
\* measures more often than the limit (qshTimeUtil.h 193-214).
THEOREM TypeCorrect == Spec => []TypeOK
<1>1. IInv => TypeOK
  BY DEF IInv
<1> QED BY <1>1, Invariance, PTL

\* Whatever other threads store meanwhile, a call that refreshed does not
\* give a sample too early a realtime (qshTimeUtil.h 111-130, 197-206).
THEOREM RefreshedIsNotEarly == Spec => []NeverEarly
<1>1. IInv => NeverEarly
  <2> SUFFICES ASSUME IInv, NEW t \in Threads, pc[t] = "return", changed[t]
               PROVE  \E r \in readings :
                        CASE call[t].op = "toRealtime" -> Result(t) >= call[t].ts + r.skew
                          [] call[t].op = "toQtimer" -> Result(t) <= androidTS[t] - r.skew
                          [] OTHER -> TRUE
    BY DEF NeverEarly
  <2>1. PICK r \in readings : mOffsetNs >= r.skew
    BY DEF IInv, MeasureInv, BehindInv
  <2>2. /\ r.skew \in Int /\ mOffsetNs \in Int /\ call[t].ts \in Int
        /\ androidTS[t] \in Int
    BY DEF IInv, TypeOK, Reading
  <2>3. CASE call[t].op = "toRealtime"
    BY <2>1, <2>2, <2>3 DEF Result
  <2>4. CASE call[t].op = "toQtimer"
    BY <2>1, <2>2, <2>4 DEF Result
  <2>5. CASE call[t].op \notin {"toRealtime", "toQtimer"}
    BY <2>5
  <2> QED BY <2>3, <2>4, <2>5
<1> QED BY <1>1, Invariance, PTL

\* Once nobody measures, the offset is a recent and accurate one, for any
\* number of threads (qshTimeUtil.h 196-214).
THEOREM OffsetSettles == Spec => []Settled
<1>1. IInv => Settled
  BY DEF IInv, OwedInv, Settled, Owes, Updating
<1> QED BY <1>1, Invariance, PTL
=============================================================================
