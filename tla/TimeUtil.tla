------------------------------ MODULE TimeUtil ------------------------------
(***************************************************************************)
(* qshTimeUtil (src/utils/inc/qshTimeUtil.h): the process-wide object that *)
(* converts time stamps between the QTimer (the counter the sensor hub     *)
(* stamps samples with) and the system's realtime clock.  Threads call it  *)
(* without a lock: the offset and the time stamp of its last refresh are   *)
(* two separate atomics, and a conversion that finds the refresh due       *)
(* measures the offset anew, again and again while a measurement took too  *)
(* long.  Each access to an atomic and each reading of a clock is a step   *)
(* of its own.  A unit of model time stands for a few microseconds.        *)
(***************************************************************************)
EXTENDS Integers

CONSTANTS
  Threads,                    \* threads that convert time stamps
  Skews,                      \* values of realtime minus QTimer: the clock is set or drifts
  OFFSET_UPDATE_SCHEDULE_NS,  \* an offset older than this is refreshed
  QTIMER_GAP_THRESHOLD_NS,    \* a measurement that took longer is repeated
  QTIMER_GAP_MAX_ITERATION,   \* ... at most this many times in all
  Boot,                       \* QTimer when the singleton is made
  MaxInitGap,                 \* how long the constructor may be interrupted
  Ages,                       \* how old the time stamps to convert are
  MaxTime                     \* bound: the QTimer stops here

ASSUME ClockAssumption ==
  /\ Skews \subseteq Int
  /\ Ages \subseteq Nat
  /\ OFFSET_UPDATE_SCHEDULE_NS \in Nat
  /\ QTIMER_GAP_THRESHOLD_NS \in Nat
  /\ QTIMER_GAP_MAX_ITERATION \in Nat \ {0}
  /\ Boot \in Nat
  /\ MaxInitGap \in Nat
  /\ MaxTime \in Nat

VARIABLES
  now,              \* the QTimer
  skew,             \* realtime clock minus QTimer
  mOffsetNs, mLastRealtimeNs,       \* the two atomics
  pc, call, androidTS,              \* per thread: where it is and what it converts
  ns, curr, iter, changed,          \* per thread: locals of the update
  readings,         \* history: every reading the two clocks could have given
  storedAt,         \* history: when mOffsetNs was last stored, -1 before
  gaveUp            \* history: some update ended at the iteration limit

clocks  == <<now, skew, readings>>
atomics == <<mOffsetNs, mLastRealtimeNs>>
locals  == <<call, androidTS, ns, curr, iter, changed>>
history == <<storedAt, gaveUp>>
vars == <<clocks, atomics, pc, locals, history>>

Ops == {"toRealtime", "toQtimer", "recalculate"}
NoCall == [op |-> "recalculate", ts |-> 0, force |-> FALSE]
Realtime == now + skew

\* The constructor reads the realtime clock first and the QTimer after it,
\* and does not look at what lies between them.
Init ==
  /\ skew \in {s \in Skews : Boot + s >= 0}
  /\ now \in Boot .. (Boot + MaxInitGap)
  /\ readings = {[at |-> now, skew |-> skew]}
  /\ mLastRealtimeNs = Boot + skew
  /\ mOffsetNs = mLastRealtimeNs - now
  /\ pc = [t \in Threads |-> "idle"]
  /\ call = [t \in Threads |-> NoCall]
  /\ androidTS = [t \in Threads |-> 0]
  /\ ns = [t \in Threads |-> 0]
  /\ curr = [t \in Threads |-> 0]
  /\ iter = [t \in Threads |-> 0]
  /\ changed = [t \in Threads |-> FALSE]
  /\ storedAt = -1
  /\ gaveUp = FALSE

--------------------------------------------------------------------------------
(* The clocks.                                                             *)

Tick ==
  /\ now < MaxTime
  /\ now' = now + 1
  /\ readings' = readings \cup {[at |-> now', skew |-> skew]}
  /\ UNCHANGED <<skew, atomics, pc, locals, history>>

\* Realtime is set or adjusted; it does not become negative.  (Bound: to
\* each value once.)
SetClock(s) ==
  /\ \A r \in readings : r.skew # s
  /\ now + s >= 0
  /\ skew' = s
  /\ readings' = readings \cup {[at |-> now, skew |-> s]}
  /\ UNCHANGED <<now, atomics, pc, locals, history>>

--------------------------------------------------------------------------------
(* The calls.  Each enters updateQtimerToRealtimeOffset with a realtime    *)
(* time stamp.                                                             *)

Enter(t, op, ts, force, android) ==
  /\ pc[t] = "idle"
  /\ pc' = [pc EXCEPT ![t] = "test"]
  /\ call' = [call EXCEPT ![t] = [op |-> op, ts |-> ts, force |-> force]]
  /\ androidTS' = [androidTS EXCEPT ![t] = android]
  /\ UNCHANGED <<clocks, atomics, ns, curr, iter, changed, history>>

\* The time stamp of a sample, converted with the offset as it is now.
qtimerNsToElapsedRealtimeNano(t) ==
  \E age \in Ages :
    /\ age <= now
    /\ Enter(t, "toRealtime", now - age, FALSE, now - age + mOffsetNs)

elapsedRealtimeNanoToQtimerNs(t) ==
  \E age \in Ages : Enter(t, "toQtimer", 0, FALSE, Realtime - age)

recalculateOffset(t) ==
  \E force \in BOOLEAN : Enter(t, "recalculate", 0, force, Realtime)

--------------------------------------------------------------------------------
(* updateQtimerToRealtimeOffset, an access to a clock or an atomic at a    *)
(* time.                                                                   *)

GoTo(t, from, to) ==
  /\ pc[t] = from
  /\ pc' = [pc EXCEPT ![t] = to]

Due(t) ==
  /\ androidTS[t] > 0
  /\ \/ call[t].force
     \/ androidTS[t] < mLastRealtimeNs
     \/ androidTS[t] - mLastRealtimeNs >= OFFSET_UPDATE_SCHEDULE_NS

Test(t) ==
  /\ GoTo(t, "test", IF Due(t) THEN "measure" ELSE "return")
  /\ iter' = [iter EXCEPT ![t] = 0]
  /\ UNCHANGED <<clocks, atomics, call, androidTS, ns, curr, changed, history>>

ReadQtimer(t) ==
  /\ GoTo(t, "measure", "clock")
  /\ ns' = [ns EXCEPT ![t] = now]
  /\ UNCHANGED <<clocks, atomics, call, androidTS, curr, iter, changed, history>>

ReadClock(t) ==
  /\ GoTo(t, "clock", "store")
  /\ curr' = [curr EXCEPT ![t] = Realtime]
  /\ UNCHANGED <<clocks, atomics, call, androidTS, ns, iter, changed, history>>

\* Slip: the QTimer is read after the realtime clock.
StoreSwapped(t) ==
  /\ GoTo(t, "store", "check")
  /\ mOffsetNs' = curr[t] - now
  /\ storedAt' = now
  /\ UNCHANGED <<clocks, mLastRealtimeNs, locals, gaveUp>>

\* Every measurement is stored, the ones that took too long as well.
Store(t) ==
  /\ GoTo(t, "store", "check")
  /\ IF curr[t] >= 0
     THEN /\ mOffsetNs' = curr[t] - ns[t]
          /\ storedAt' = now
     ELSE UNCHANGED <<mOffsetNs, storedAt>>
  /\ UNCHANGED <<clocks, mLastRealtimeNs, locals, gaveUp>>

\* Slip: one off.
TookTooLongOffByOne(t) == now - ns[t] > QTIMER_GAP_THRESHOLD_NS + 1

TookTooLong(t) == now - ns[t] > QTIMER_GAP_THRESHOLD_NS

\* Slip: the limit is tested with the count before this iteration.
CheckLate(t) ==
  LET again == TookTooLong(t) /\ iter[t] < QTIMER_GAP_MAX_ITERATION
  IN /\ GoTo(t, "check", IF again THEN "measure" ELSE "publish")
     /\ iter' = [iter EXCEPT ![t] = @ + 1]
     /\ gaveUp' = (gaveUp \/ (TookTooLong(t) /\ ~again))
     /\ UNCHANGED <<clocks, atomics, call, androidTS, ns, curr, changed, storedAt>>

Check(t) ==
  LET again == TookTooLong(t) /\ iter[t] + 1 < QTIMER_GAP_MAX_ITERATION
  IN /\ GoTo(t, "check", IF again THEN "measure" ELSE "publish")
     /\ iter' = [iter EXCEPT ![t] = @ + 1]
     /\ gaveUp' = (gaveUp \/ (TookTooLong(t) /\ ~again))
     /\ UNCHANGED <<clocks, atomics, call, androidTS, ns, curr, changed, storedAt>>

\* What is remembered is the time stamp the call came with, not a reading.
Publish(t) ==
  /\ GoTo(t, "publish", "return")
  /\ mLastRealtimeNs' = androidTS[t]
  /\ changed' = [changed EXCEPT ![t] = TRUE]
  /\ UNCHANGED <<clocks, mOffsetNs, call, androidTS, ns, curr, iter, history>>

\* What the call gives back; a conversion that refreshed uses the offset as
\* it is by then, whoever stored it.
Result(t) ==
  CASE call[t].op = "toQtimer" -> androidTS[t] - mOffsetNs
    [] call[t].op = "toRealtime" /\ changed[t] -> call[t].ts + mOffsetNs
    [] OTHER -> androidTS[t]

\* The locals go out of scope.
Return(t) ==
  /\ GoTo(t, "return", "idle")
  /\ call' = [call EXCEPT ![t] = NoCall]
  /\ androidTS' = [androidTS EXCEPT ![t] = 0]
  /\ ns' = [ns EXCEPT ![t] = 0]
  /\ curr' = [curr EXCEPT ![t] = 0]
  /\ iter' = [iter EXCEPT ![t] = 0]
  /\ changed' = [changed EXCEPT ![t] = FALSE]
  /\ UNCHANGED <<clocks, atomics, history>>

Next ==
  \/ Tick
  \/ \E s \in Skews : SetClock(s)
  \/ \E t \in Threads :
       \/ qtimerNsToElapsedRealtimeNano(t)
       \/ elapsedRealtimeNanoToQtimerNs(t)
       \/ recalculateOffset(t)
       \/ Test(t)
       \/ ReadQtimer(t)
       \/ ReadClock(t)
       \/ Store(t)
       \/ Check(t)
       \/ Publish(t)
       \/ Return(t)

Spec == Init /\ [][Next]_vars
--------------------------------------------------------------------------------
(* Properties.                                                             *)

Reading == [at : Int, skew : Int]

\* Type correctness of the clocks, the atomics and the locals of the threads;
\* no update measures more often than the limit.
TypeOK ==
  /\ now \in Nat /\ skew \in Int
  /\ readings \subseteq Reading
  /\ mOffsetNs \in Int /\ mLastRealtimeNs \in Int
  /\ pc \in [Threads -> {"idle", "test", "measure", "clock", "store", "check",
                         "publish", "return"}]
  /\ call \in [Threads -> [op : Ops, ts : Int, force : BOOLEAN]]
  /\ androidTS \in [Threads -> Int]
  /\ ns \in [Threads -> Nat]
  /\ curr \in [Threads -> Int]
  /\ iter \in [Threads -> 0 .. QTIMER_GAP_MAX_ITERATION]
  /\ changed \in [Threads -> BOOLEAN]
  /\ storedAt \in Int
  /\ gaveUp \in BOOLEAN

\* A call that refreshed the offset, however many threads store theirs
\* meanwhile, never gives a sample a realtime before the one it was taken at
\* by every clock there was, nor a realtime a QTimer time stamp after it: the
\* QTimer is read before the realtime clock, so a preempted measurement errs
\* to one side only (qshTimeUtil.h 197-206).
NeverEarly ==
  \A t \in Threads :
    pc[t] = "return" /\ changed[t] =>
      \E r \in readings :
        CASE call[t].op = "toRealtime" -> Result(t) >= call[t].ts + r.skew
          [] call[t].op = "toQtimer" -> Result(t) <= androidTS[t] - r.skew
          [] OTHER -> TRUE

Updating(t) == pc[t] \in {"measure", "clock", "store", "check"}

\* The offset is one that was true, to within the threshold, at a moment at
\* most the threshold before it was stored.
Accurate ==
  \E r \in readings :
    /\ storedAt - r.at \in 0 .. QTIMER_GAP_THRESHOLD_NS
    /\ mOffsetNs - r.skew \in 0 .. QTIMER_GAP_THRESHOLD_NS

\* Bad measurements do not last: although every one of them is published and
\* threads overwrite one another's, once nobody measures any more the offset
\* is accurate and recent, unless an update ended at the iteration limit
\* (qshTimeUtil.h 196-214).
Settled ==
  storedAt # -1 /\ ~gaveUp /\ (\A t \in Threads : ~Updating(t)) => Accurate

=============================================================================
