------------------------ MODULE SuidDiscoveryProofs ------------------------
(***************************************************************************)
(* Proofs about SuidDiscovery, for any sensors, any messages the hub may   *)
(* send and any number of them.                                            *)
(***************************************************************************)
EXTENDS SuidDiscovery, TLAPS

------------------------------------------------------------------------
(* The inductive invariant.                                                *)

\* How far the caller has come tells what it has of the session.
SessionInv ==
    /\ pc \in {"idle", "create"} => ~mSession /\ link = "none"
    /\ pc = "open" => mSession /\ link = "closed"
    /\ pc = "setCallBacks" => mSession /\ link = "open"
    /\ pc \in {"request", "lock", "test", "waiting", "woken", "timedOut", "return",
               "close"} => (link \in {"open", "closing"} <=> mSession)
                           /\ link # "closing"
    /\ pc = "closing" => (link = "closing" <=> mSession) /\ link # "open"
    /\ pc = "returned" => link \notin {"open", "closing"}
                          /\ ~hasCallback /\ ~requested
    /\ hasCallback \/ requested => mSession
    /\ pc \in {"idle", "create", "open", "setCallBacks"} => ~hasCallback
    /\ pc \in {"idle", "create", "open", "setCallBacks", "request"} => ~requested

\* A callback runs only between the delivery and the end of close.
CallbackInv ==
    cbPc # "idle" =>
        /\ link \in {"open", "closing"}
        /\ pc \notin {"idle", "create", "open", "setCallBacks", "request", "returned"}

\* Who holds mMutex.
MutexInv ==
    /\ mMutex = "caller" <=> pc \in {"test", "return"}
    /\ mMutex = "callback" <=> cbPc \in {"clear", "copy"}

\* While the callback copies a list, mSuids is the part copied so far; at
\* any other time it is the last list.
CopyInv ==
    /\ cbPc \in {"clear", "copy"} => batch # <<>>
    /\ cbPc = "copy" => /\ copied <= Len(Head(batch).list)
                        /\ mSuids = SubSeq(Head(batch).list, 1, copied)
    /\ cbPc # "copy" => mSuids = lastList

IInv ==
    /\ TypeOK
    /\ SessionInv
    /\ CallbackInv
    /\ MutexInv
    /\ CopyInv

------------------------------------------------------------------------
(* Every step keeps the invariant.                                         *)

\* The events of a message and their lists have the right types.
LEMMA EventList ==
    ASSUME NEW b \in Seq(Event), b # <<>>
    PROVE  /\ Head(b) \in Event /\ Tail(b) \in Seq(Event)
           /\ Head(b).list \in Seq(Suids)
<1>1. Head(b) \in Event /\ Tail(b) \in Seq(Event)
  OBVIOUS
<1>2. <<>> \in Seq(Suids)
  OBVIOUS
<1> QED
  BY <1>1, <1>2 DEF Event

\* The steps of the caller do not touch mSuids nor the callback.
LEMMA CallerStep ==
    ASSUME IInv, Caller \/ SpuriousWakeup
    PROVE  IInv'
<1> USE DEF IInv, TypeOK, SessionInv, CallbackInv, MutexInv, CopyInv,
        locateVars, sessionVars, cbVars
<1>1. CASE Call
  BY <1>1 DEF Call
<1>2. CASE GetSession
  <2>1. TypeOK'
    BY <1>2 DEF GetSession
  <2>2. SessionInv'
    BY <1>2 DEF GetSession
  <2>3. CallbackInv' /\ MutexInv' /\ CopyInv'
    BY <1>2 DEF GetSession
  <2> QED
    BY <2>1, <2>2, <2>3
<1>3. CASE Open
  BY <1>3 DEF Open
<1>4. CASE SetCallBacks
  <2>1. /\ pc = "setCallBacks" /\ pc' = "request"
        /\ mSession /\ link = "open" /\ ~requested /\ cbPc = "idle"
        /\ UNCHANGED <<requested, locateVars, cbVars>>
    BY <1>4 DEF SetCallBacks
  <2>2. CASE hasCallback' = TRUE /\ UNCHANGED <<mSession, link>>
    <3>1. TypeOK' /\ SessionInv'
      BY <2>1, <2>2
    <3>2. CallbackInv' /\ MutexInv' /\ CopyInv'
      BY <2>1, <2>2
    <3> QED
      BY <3>1, <3>2
  <2>3. CASE mSession' = FALSE /\ link' = "closed" /\ UNCHANGED hasCallback
    <3>1. TypeOK' /\ SessionInv'
      BY <2>1, <2>3
    <3>2. CallbackInv' /\ MutexInv' /\ CopyInv'
      BY <2>1, <2>3
    <3> QED
      BY <3>1, <3>2
  <2> QED
    BY <1>4, <2>2, <2>3 DEF SetCallBacks
<1>5. CASE RequestSuid
  BY <1>5 DEF RequestSuid
<1>6. CASE Lock \/ Relock \/ RelockTimedOut
  BY <1>6 DEF Lock, Relock, RelockTimedOut, CallerLock
<1>7. CASE Test
  BY <1>7 DEF Test
<1>8. CASE Timeout \/ SpuriousWakeup
  BY <1>8 DEF Timeout, SpuriousWakeup
<1>9. CASE Unlock
  BY <1>9 DEF Unlock
<1>10. CASE Close
  BY <1>10 DEF Close
<1>11. CASE Closed
  BY <1>11 DEF Closed
<1> QED
  BY <1>1, <1>2, <1>3, <1>4, <1>5, <1>6, <1>7, <1>8, <1>9, <1>10, <1>11 DEF Caller

\* A delivery starts the callback on a list of events; a reset of the hub
\* only forgets the request.
LEMMA HubStep ==
    ASSUME IInv, (\E m \in Messages : Deliver(m)) \/ HubReset
    PROVE  IInv'
<1> USE DEF IInv, TypeOK, SessionInv, CallbackInv, MutexInv, CopyInv,
        locateVars, sessionVars, cbVars
<1>1. ASSUME NEW m \in Messages, Deliver(m) PROVE IInv'
  <2>1. m \in Seq(Event)
    BY MessagesAssumption
  <2>2. batch' \in Seq(Event)
    BY <1>1, <2>1 DEF Deliver
  <2>3. delivered' \in 0..MaxMessages
    BY <1>1, MaxMessagesAssumption DEF Deliver
  <2> QED
    BY <1>1, <2>2, <2>3 DEF Deliver
<1>2. CASE HubReset
  BY <1>2 DEF HubReset
<1> QED
  BY <1>1, <1>2

\* The callback replaces mSuids list by list, under mMutex.
LEMMA CallbackStep ==
    ASSUME IInv, Callback
    PROVE  IInv'
<1> USE DEF IInv, TypeOK, SessionInv, CallbackInv, MutexInv, CopyInv,
        locateVars, sessionVars
<1>1. CASE Skip
  BY <1>1, EventList DEF Skip
<1>2. CASE OnSuidsAvailable
  BY <1>2, EventList DEF OnSuidsAvailable
<1>3. CASE Clear
  BY <1>3, EventList DEF Clear
<1>4. CASE PushBack
  <2> DEFINE l == Head(batch).list
  <2>1. l \in Seq(Suids) /\ copied < Len(l) /\ copied \in Nat
    BY <1>4, EventList DEF PushBack
  <2>2. mSuids' = Append(SubSeq(l, 1, copied), l[copied + 1])
    BY <1>4 DEF PushBack
  <2>3. Append(SubSeq(l, 1, copied), l[copied + 1]) = SubSeq(l, 1, copied + 1)
    <3> HIDE DEF l
    <3> QED
      BY <2>1
  <2>4. mSuids' \in Seq(Suids)
    BY <1>4, <2>1 DEF PushBack
  <2> QED
    BY <1>4, <2>1, <2>2, <2>3, <2>4 DEF PushBack
<1>5. CASE CallbackUnlock
  <2> DEFINE l == Head(batch).list
  <2>1. l \in Seq(Suids) /\ Tail(batch) \in Seq(Event)
    BY <1>5, EventList DEF CallbackUnlock
  <2>2. SubSeq(l, 1, Len(l)) = l
    <3> HIDE DEF l
    <3> QED
      BY <2>1
  <2>3. mSuids = l
    BY <1>5, <2>2 DEF CallbackUnlock
  <2> QED
    BY <1>5, <2>1, <2>3 DEF CallbackUnlock
<1>6. CASE Handled
  BY <1>6 DEF Handled
<1> QED
  BY <1>1, <1>2, <1>3, <1>4, <1>5, <1>6 DEF Callback

LEMMA InitIInv == Init => IInv
<1> SUFFICES ASSUME Init PROVE IInv
  OBVIOUS
<1>1. TypeOK
  <2>1. <<>> \in Seq(Suids) /\ <<>> \in Seq(Event) /\ 0 \in 0..MaxMessages
    BY MaxMessagesAssumption
  <2> QED
    BY <2>1 DEF Init, TypeOK
<1>2. SessionInv
  BY DEF Init, SessionInv
<1>3. CallbackInv /\ MutexInv /\ CopyInv
  BY DEF Init, CallbackInv, MutexInv, CopyInv
<1> QED
  BY <1>1, <1>2, <1>3 DEF IInv

LEMMA NextIInv == IInv /\ [Next]_vars => IInv'
<1>1. CASE UNCHANGED vars
  BY <1>1 DEF vars, IInv, TypeOK, SessionInv, CallbackInv, MutexInv, CopyInv
<1> QED
  BY <1>1, CallerStep, HubStep, CallbackStep DEF Next, Terminated

------------------------------------------------------------------------
(* The theorems.                                                           *)

\* The inductive invariant holds, whatever fails and whatever the hub sends.
THEOREM Invariant == Spec => []IInv
  BY InitIInv, NextIInv, PTL DEF Spec

\* Every variable keeps its type.
THEOREM TypeCorrect == Spec => []TypeOK
<1>1. IInv => TypeOK
  BY DEF IInv
<1> QED
  BY <1>1, Invariant, PTL

\* The caller sees whole lists only.
THEOREM ListIsWhole == Spec => []WholeList
<1>1. IInv => WholeList
  BY DEF IInv, MutexInv, CopyInv, WholeList
<1> QED
  BY <1>1, Invariant, PTL

\* lookUp returns the last list that was handed over.
THEOREM ResultIsLast == Spec => []ResultIsLastList
<1>1. IInv => ResultIsLastList
  BY DEF IInv, TypeOK, CallbackInv, CopyInv, ResultIsLastList
<1> QED
  BY <1>1, Invariant, PTL

\* lookUp leaves no open session and no callback behind.
THEOREM CleanReturn == Spec => []NothingLeftBehind
<1>1. IInv => NothingLeftBehind
  BY DEF IInv, SessionInv, CallbackInv, NothingLeftBehind
<1> QED
  BY <1>1, Invariant, PTL

\* The result does not change in the hands of the caller.
THEOREM ResultIsStable == Spec => StableResult
<1>1. IInv /\ [Next]_vars => [pc = "returned" => UNCHANGED mSuids]_vars
  <2> SUFFICES ASSUME IInv, Next, pc = "returned"
               PROVE  UNCHANGED mSuids
    BY DEF vars
  <2>1. cbPc = "idle"
    BY DEF IInv, CallbackInv
  <2> QED
    BY <2>1 DEF Next, Caller, Callback, Call, GetSession, Open, SetCallBacks,
                RequestSuid, Lock, Relock, RelockTimedOut, CallerLock, Test,
                Timeout, SpuriousWakeup, Unlock, Close, Closed, Deliver,
                HubReset, Skip, OnSuidsAvailable, Clear, PushBack,
                CallbackUnlock, Handled, Terminated, locateVars, vars
<1> QED
  BY <1>1, Invariant, PTL DEF Spec, StableResult

------------------------------------------------------------------------
(* SuidDiscovery implements LookUp.                                        *)

\* What the callback has before it was sent by the hub and decoded; what it
\* copies from is no done event; and nothing is over before the call.
Sent(e) == e.kind # "bad" /\ (e.kind = "suids" => e.list \in ListsOfTheHub)
EventsInv ==
    /\ \A i \in DOMAIN batch : Sent(batch[i])
    /\ cbPc \in {"clear", "copy"} => HandedOn(Head(batch))
    /\ pc = "idle" => ~mLookupDone

\* The events that Deliver takes from a message of the hub are its own.
LEMMA DecodedSent ==
    ASSUME NEW m \in Messages, NEW k \in 0..Len(m), Decoded(m, k)
    PROVE  \A i \in DOMAIN SubSeq(m, 1, k) : Sent(SubSeq(m, 1, k)[i])
<1>1. m \in Seq(Event)
  BY MessagesAssumption
<1> SUFFICES ASSUME NEW i \in DOMAIN SubSeq(m, 1, k)
             PROVE  Sent(SubSeq(m, 1, k)[i])
  OBVIOUS
<1>2. i \in 1..k /\ i \in DOMAIN m /\ SubSeq(m, 1, k)[i] = m[i]
  BY <1>1
<1>3. m[i].kind # "bad"
  BY <1>2 DEF Decoded
<1>4. m[i].kind = "suids" => m[i].list \in ListsOfTheHub
  BY <1>2 DEF ListsOfTheHub
<1> QED
  BY <1>2, <1>3, <1>4 DEF Sent

\* The events behind the first one are events of the same batch.
LEMMA TailSent ==
    ASSUME NEW b \in Seq(Event), b # <<>>, \A i \in DOMAIN b : Sent(b[i])
    PROVE  Sent(Head(b)) /\ \A i \in DOMAIN Tail(b) : Sent(Tail(b)[i])
<1>1. 1 \in DOMAIN b /\ Head(b) = b[1]
  OBVIOUS
<1>2. \A i \in DOMAIN Tail(b) : i + 1 \in DOMAIN b /\ Tail(b)[i] = b[i + 1]
  OBVIOUS
<1> QED
  BY <1>1, <1>2

LEMMA InitEvents == Init => EventsInv
  BY DEF Init, EventsInv

LEMMA NextEvents ==
    ASSUME IInv, EventsInv, [Next]_vars
    PROVE  EventsInv'
<1>1. batch \in Seq(Event)
  BY DEF IInv, TypeOK
<1>2. ASSUME Caller \/ SpuriousWakeup PROVE EventsInv'
  <2>1. UNCHANGED <<batch, cbPc, mLookupDone>> /\ pc' # "idle"
    BY <1>2 DEF Caller, Call, GetSession, Open, SetCallBacks, RequestSuid, Lock,
                Relock, RelockTimedOut, CallerLock, Test, Timeout,
                SpuriousWakeup, Unlock, Close, Closed, locateVars, cbVars
  <2> QED
    BY <2>1 DEF EventsInv
<1>3. ASSUME NEW m \in Messages, Deliver(m) PROVE EventsInv'
  <2>1. PICK k \in 0..Len(m) : Decoded(m, k) /\ batch' = SubSeq(m, 1, k)
    BY <1>3 DEF Deliver
  <2>2. cbPc' = "dispatch" /\ UNCHANGED <<pc, mLookupDone>>
    BY <1>3 DEF Deliver, locateVars
  <2> QED
    BY <2>1, <2>2, DecodedSent DEF EventsInv
<1>4. CASE Skip \/ CallbackUnlock
  <2>1. batch # <<>> /\ batch' = Tail(batch) /\ cbPc' = "dispatch"
    BY <1>4 DEF Skip, CallbackUnlock, IInv, CopyInv
  <2>2. UNCHANGED <<pc, mLookupDone>>
    BY <1>4 DEF Skip, CallbackUnlock, locateVars
  <2> QED
    BY <1>1, <2>1, <2>2, TailSent DEF EventsInv
<1>5. CASE OnSuidsAvailable
  <2>1. pc # "idle" /\ pc' # "idle"
    BY <1>5 DEF OnSuidsAvailable, IInv, CallbackInv
  <2>2. batch # <<>> /\ HandedOn(Head(batch))
    BY <1>5 DEF OnSuidsAvailable
  <2>3. UNCHANGED batch
    BY <1>5, <2>2 DEF OnSuidsAvailable, HandedOn
  <2> QED
    BY <2>1, <2>2, <2>3 DEF EventsInv
<1>6. CASE Clear \/ PushBack \/ Handled \/ HubReset
  BY <1>6 DEF Clear, PushBack, Handled, HubReset, EventsInv, locateVars, cbVars
<1>7. CASE UNCHANGED vars
  BY <1>7 DEF vars, EventsInv
<1> QED
  BY <1>2, <1>3, <1>4, <1>5, <1>6, <1>7 DEF Next, Callback, Terminated

\* What the caller may rely on does not change but by the unlock of the
\* callback, which publishes a list of the hub; the lookup begins with the
\* call and is over when the session is closed.
LEMMA StepRefines ==
    ASSUME IInv, EventsInv, [Next]_vars
    PROVE  [Abstract!Next]_(Abstract!vars)
<1> DEFINE Seen == <<Stage, SettledList>>
<1> USE DEF Stage, SettledList
<1>1. ASSUME Call
      PROVE  Abstract!Ask
  BY <1>1 DEF Call, EventsInv, locateVars, cbVars, Abstract!Ask
<1>2. ASSUME Closed
      PROVE  Abstract!Return
  BY <1>2 DEF Closed, locateVars, cbVars, Abstract!Return
<1>3. ASSUME CallbackUnlock
      PROVE  \E l \in ListsOfTheHub : Abstract!Publish(l)
  <2> DEFINE e == Head(batch)
  <2>1. batch \in Seq(Event) /\ batch # <<>> /\ e \in Event
    BY <1>3, EventList DEF CallbackUnlock, IInv, TypeOK, CopyInv
  <2>2. e.kind # "bad" /\ (e.kind = "suids" => e.list \in ListsOfTheHub)
    BY <2>1, TailSent DEF EventsInv, Sent
  <2>3. e.kind # "done"
    BY <1>3 DEF CallbackUnlock, EventsInv, HandedOn
  <2>4. e.list \in ListsOfTheHub
    BY <2>1, <2>2, <2>3 DEF Event
  <2>5. mSuids' = e.list
    <3>1. e.list \in Seq(Suids)
      BY <2>1, EventList
    <3>2. SubSeq(e.list, 1, Len(e.list)) = e.list
      <4> HIDE DEF e
      <4> QED
        BY <3>1
    <3> QED
      BY <1>3, <3>2 DEF CallbackUnlock, IInv, CopyInv
  <2>6. Stage = "asking" /\ UNCHANGED Stage
    BY <1>3 DEF CallbackUnlock, IInv, CallbackInv
  <2>7. SettledList' = e.list
    BY <1>3, <2>5 DEF CallbackUnlock
  <2> QED
    BY <2>4, <2>6, <2>7 DEF Abstract!Publish
<1>4. ASSUME GetSession \/ Open \/ SetCallBacks \/ RequestSuid \/ Lock \/ Relock
                \/ RelockTimedOut \/ Test \/ Timeout \/ SpuriousWakeup \/ Unlock
                \/ Close
      PROVE  UNCHANGED Seen
  BY <1>4 DEF GetSession, Open, SetCallBacks, RequestSuid, Lock, Relock,
              RelockTimedOut, CallerLock, Test, Timeout, SpuriousWakeup, Unlock,
              Close, locateVars, cbVars
<1>5. ASSUME NEW m \in Messages, Deliver(m)
      PROVE  UNCHANGED Seen
  BY <1>5 DEF Deliver, locateVars
<1>6. ASSUME Skip \/ Handled \/ HubReset
      PROVE  UNCHANGED Seen
  BY <1>6 DEF Skip, Handled, HubReset, locateVars, cbVars
<1>7. ASSUME OnSuidsAvailable
      PROVE  UNCHANGED Seen
  BY <1>7 DEF OnSuidsAvailable, HandedOn, IInv, CopyInv
<1>8. ASSUME Clear \/ PushBack
      PROVE  UNCHANGED Seen
  BY <1>8 DEF Clear, PushBack
<1>9. ASSUME UNCHANGED vars
      PROVE  UNCHANGED Seen
  BY <1>9 DEF vars
<1>10. UNCHANGED Seen => UNCHANGED Abstract!vars
  BY DEF Abstract!vars
<1>11. Abstract!Ask \/ Abstract!Return \/ (\E l \in ListsOfTheHub : Abstract!Publish(l))
          => Abstract!Next
  BY DEF Abstract!Next
<1> HIDE DEF Seen, Stage, SettledList
<1> QED
  BY <1>1, <1>2, <1>3, <1>4, <1>5, <1>6, <1>7, <1>8, <1>9, <1>10, <1>11
     DEF Next, Caller, Callback, Terminated

\* To its caller the lookup is one that publishes lists of the hub, each at
\* once and whole, between the call and the return and at no other time.
THEOREM Refinement == Spec => ImplementsLookUp
<1>1. Init => Abstract!Init
  BY DEF Init, Abstract!Init, Stage, SettledList
<1>2. Spec => []EventsInv
  BY InitEvents, NextEvents, Invariant, PTL DEF Spec
<1> QED
  BY <1>1, <1>2, Invariant, StepRefines, PTL
     DEF Spec, ImplementsLookUp, Abstract!Spec

=============================================================================
