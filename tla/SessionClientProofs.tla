----------------------- MODULE SessionClientProofs -----------------------
(***************************************************************************)
(* Proofs about SessionClient, for any sensors, any messages and any       *)
(* number of them.                                                         *)
(***************************************************************************)
EXTENDS SessionClient, SequenceTheorems, TLAPS

------------------------------------------------------------------------
(* The inductive invariant.                                                *)

\* How far a phase has come tells what it has of its session.
SessionInv ==
    /\ link = "none" <=> pc \in {"create", "succeeded", "failed"}
    /\ link = "created" <=> pc = "open"
    /\ link = "closing" <=> pc = "closing"
    /\ pc \in {"create", "open"} => next = 1
    /\ pc = "request" => next <= Len(Targets)
    /\ requested # {} => link \in {"open", "closing"}
    /\ pc \in {"streaming", "stop"} => phase = "data"
    /\ pc \in {"lock", "wait", "waiting", "woken"} => phase # "data"

\* Until getSuid has sent its one request nothing can come in.
AskInv ==
    phase = "suid" =>
        /\ pc = "request" => next = 1
        /\ next = 1 /\ pc # "failed" => requested = {} /\ cbPc = "idle"

\* Only getSuid's callback stores a list.
CallbackInv ==
    /\ CallbackInScope
    /\ cbPc \in {"clear", "resize", "assign"} => phase = "suid" /\ msg.list # <<>>

\* While a list is being stored suidList holds the part assigned so far; at
\* any other time it is the last list.
CopyInv ==
    /\ cbPc = "assign" =>
          /\ Len(suidList) = Len(msg.list)
          /\ assigned < Len(msg.list)
          /\ \A i \in 1..assigned : suidList[i] = msg.list[i]
    /\ cbPc \notin {"resize", "assign"} => suidList = lastList

\* What streams was started by the first loop and is stopped by the second.
Sensors(from) == {suidList[i] : i \in from..Len(suidList)}
StreamInv ==
    phase = "data" =>
        /\ requested \subseteq Sensors(1)
        /\ pc = "stop" => requested \subseteq Sensors(next)
        /\ pc \in {"close", "closing"} => requested = {}

IInv ==
    /\ TypeOK
    /\ SessionInv
    /\ AskInv
    /\ CallbackInv
    /\ CopyInv
    /\ StreamInv

------------------------------------------------------------------------
(* Every step keeps the invariant.                                         *)

\* A step that leaves main and suidList alone keeps the UIDs of the phase.
LEMMA SameTargets ==
    UNCHANGED <<phase, suidList>> => Targets' = Targets
  BY DEF Targets

LEMMA InitIInv == Init => IInv
<1> SUFFICES ASSUME Init PROVE IInv
  OBVIOUS
<1> USE DEF Init
<1>1. TypeOK
  BY MaxMessagesAssumption DEF TypeOK, Phases, Message
<1>2. SessionInv /\ AskInv /\ CallbackInv /\ CopyInv /\ StreamInv
  BY DEF SessionInv, AskInv, CallbackInv, CallbackInScope, CopyInv, StreamInv
<1> QED
  BY <1>1, <1>2 DEF IInv

\* The UID whose turn it is is one of those a request may name.
LEMMA Target ==
    ASSUME IInv, next <= Len(Targets)
    PROVE  /\ Targets[next] \in Suids \cup {SuidSensor}
           /\ phase = "suid" => next = 1
           /\ phase # "suid" => /\ Targets[next] = suidList[next]
                                /\ next \in 1..Len(suidList)
<1> USE DEF IInv, TypeOK, Targets
<1>1. CASE phase = "suid"
  BY <1>1
<1>2. CASE phase # "suid"
  <2>1. suidList \in Seq(Suids)
    BY <1>2 DEF CallbackInv, CopyInv
  <2>2. next \in 1..Len(suidList)
    BY <1>2, <2>1
  <2> QED
    BY <1>2, <2>1, <2>2
<1> QED
  BY <1>1, <1>2

\* A return with TRUE needs a callback that has come to its end; one with
\* FALSE ends the program.
LEMMA ReturnStep ==
    ASSUME IInv, NEW result \in BOOLEAN, Return(result),
           result => cbPc = "idle"
    PROVE  IInv'
<1> USE DEF IInv, Return
<1>1. TypeOK'
  BY DEF TypeOK, Phases, cbVars
<1>2. SessionInv' /\ AskInv'
  BY DEF SessionInv, AskInv, TypeOK, Phases, cbVars
<1>3. CallbackInv' /\ CopyInv'
  BY DEF CallbackInv, CallbackInScope, CopyInv, TypeOK, Phases, cbVars
<1>4. StreamInv'
  BY DEF StreamInv, TypeOK, Phases, cbVars
<1> QED
  BY <1>1, <1>2, <1>3, <1>4

\* A turn of one of the loops.
LEMMA TurnStep ==
    ASSUME IInv,
           \/ pc = "request" /\ next <= Len(Targets) /\ SendRequest
           \/ pc = "request" /\ phase = "data" /\ NextTurn("request", "loop", requested)
           \/ /\ next <= Len(Targets)
              /\ NextTurn("stop", "stop", requested \ {Targets[next]})
    PROVE  IInv'
<1> USE DEF IInv, NextTurn, SendRequest
<1>1. TypeOK'
  BY Target DEF TypeOK, cbVars
<1>2. SessionInv' /\ AskInv'
  BY Target DEF SessionInv, AskInv, TypeOK, cbVars
<1>3. CallbackInv' /\ CopyInv'
  BY DEF CallbackInv, CallbackInScope, CopyInv, SessionInv, cbVars
<1>4. StreamInv'
  <2> SUFFICES ASSUME phase = "data" PROVE StreamInv'
    BY DEF StreamInv
  <2>1. CASE pc = "request"
    BY <2>1, Target DEF StreamInv, Sensors, cbVars
  <2>2. CASE pc # "request"
    <3>1. /\ pc = "stop" /\ pc' = "stop" /\ next' = next + 1
          /\ requested' = requested \ {suidList[next]}
          /\ UNCHANGED <<suidList, phase>>
          /\ next \in Nat
      BY <2>2, Target DEF TypeOK
    <3>2. \A i \in next..Len(suidList) : i = next \/ i \in (next + 1)..Len(suidList)
      BY <3>1 DEF TypeOK
    <3>3. requested' \subseteq Sensors(next)'
      BY <3>1, <3>2 DEF StreamInv, Sensors
    <3> QED
      BY <3>1, <3>3 DEF StreamInv, Sensors
  <2> QED
    BY <2>1, <2>2
<1> QED
  BY <1>1, <1>2, <1>3, <1>4

\* The other steps of the main thread.
LEMMA PlainStep ==
    ASSUME IInv, UNCHANGED <<suidList, cbVars>>,
           \/ CreateSession /\ pc' = "open"
           \/ OpenSession /\ pc' = "loop"
           \/ SetCallBacks
           \/ LoopEnds
           \/ Lock \/ Wait \/ SpuriousWakeup \/ Relock
           \/ Sleep
           \/ Step("stop", "close") /\ next > Len(Targets)
              /\ UNCHANGED <<eventMutex, linkVars>>
           \/ Close
    PROVE  IInv'
<1> USE DEF IInv, Step, linkVars, cbVars
<1>1. CASE CreateSession /\ pc' = "open"
  BY <1>1 DEF CreateSession, Return, TypeOK, SessionInv, AskInv, CallbackInv,
        CallbackInScope, CopyInv, StreamInv, Phases
<1>2. CASE OpenSession /\ pc' = "loop"
  BY <1>2 DEF OpenSession, Return, TypeOK, SessionInv, AskInv, CallbackInv,
        CallbackInScope, CopyInv, StreamInv, Sensors, Phases
<1>3. CASE SetCallBacks
  <2>1. Targets[next] \in Suids \cup {SuidSensor} /\ (phase = "suid" => next = 1)
    BY <1>3, Target DEF SetCallBacks
  <2> QED
    BY <1>3, <2>1, SameTargets DEF SetCallBacks, TypeOK, SessionInv, AskInv,
          CallbackInv, CallbackInScope, CopyInv, StreamInv, Sensors
<1>4. CASE LoopEnds
  BY <1>4 DEF LoopEnds, TypeOK, SessionInv, AskInv, CallbackInv,
        CallbackInScope, CopyInv, StreamInv, Sensors
<1>5. CASE Lock \/ Wait \/ SpuriousWakeup \/ Relock
  BY <1>5 DEF Lock, Wait, SpuriousWakeup, Relock, TypeOK, SessionInv, AskInv,
        CallbackInv, CallbackInScope, CopyInv, StreamInv
<1>6. CASE Sleep
  BY <1>6 DEF Sleep, TypeOK, SessionInv, AskInv, CallbackInv,
        CallbackInScope, CopyInv, StreamInv, Sensors
<1>7. CASE Step("stop", "close") /\ next > Len(Targets)
           /\ UNCHANGED <<eventMutex, linkVars>>
  <2>1. phase = "data" /\ requested = {}
    <3>1. phase = "data" /\ Targets = suidList /\ requested \subseteq Sensors(next)
      BY <1>7 DEF SessionInv, StreamInv, Targets
    <3>2. next..Len(suidList) = {}
      BY <1>7, <3>1 DEF TypeOK
    <3> QED
      BY <3>1, <3>2 DEF Sensors
  <2> QED
    BY <1>7, <2>1 DEF TypeOK, SessionInv, AskInv, CallbackInv,
          CallbackInScope, CopyInv, StreamInv, Sensors
<1>8. CASE Close
  BY <1>8 DEF Close, TypeOK, SessionInv, AskInv, CallbackInv,
        CallbackInScope, CopyInv, StreamInv
<1> QED
  BY <1>1, <1>2, <1>3, <1>4, <1>5, <1>6, <1>7, <1>8

LEMMA MainStep ==
    ASSUME IInv, Main
    PROVE  IInv'
<1>1. CASE \E result \in BOOLEAN : Return(result) /\ (result => cbPc = "idle")
  BY <1>1, ReturnStep
<1>2. CASE AskSuids
  <2>1. phase = "suid" /\ pc = "request" /\ next <= Len(Targets) /\ cbPc = "idle"
    BY <1>2 DEF AskSuids, SendRequest, NextTurn, IInv, SessionInv, AskInv
  <2> QED
    BY <1>2, <2>1, TurnStep, ReturnStep DEF AskSuids
<1>3. CASE AskAttributes \/ StartStreaming
  <2>1. pc = "request" /\ next <= Len(Targets)
    BY <1>3 DEF AskAttributes, StartStreaming, SendRequest, NextTurn, IInv, SessionInv
  <2> QED
    BY <1>3, <2>1, TurnStep, ReturnStep DEF AskAttributes, StartStreaming
<1>4. CASE StopStreaming
  BY <1>4, TurnStep, ReturnStep, PlainStep DEF StopStreaming
<1>5. CASE Closed
  BY <1>5, ReturnStep DEF Closed
<1>6. CASE CreateSession
  BY <1>6, ReturnStep, PlainStep DEF CreateSession, Step
<1>7. CASE OpenSession
  BY <1>7, ReturnStep, PlainStep DEF OpenSession, Step
<1>8. CASE SetCallBacks \/ LoopEnds \/ Lock \/ Wait \/ Relock \/ Sleep \/ Close
  <2>1. UNCHANGED <<suidList, cbVars>>
    BY <1>8 DEF SetCallBacks, LoopEnds, Lock, Wait, Relock, Sleep, Close
  <2> QED
    BY <1>8, <2>1, PlainStep
<1> QED
  BY <1>2, <1>3, <1>4, <1>5, <1>6, <1>7, <1>8 DEF Main

\* A callback runs only when a request was sent; in getSuid, then, the loop
\* is at its end.
LEMMA CallbackStepInv ==
    ASSUME IInv, Callback \/ HubReset \/ \E m \in Messages : Deliver(m)
    PROVE  IInv'
<1> USE DEF IInv, CallbackStep, Ended, mainVars, linkVars, cbVars
<1>1. CASE \E m \in Messages : Deliver(m)
  <2>1. TypeOK'
    BY <1>1, MessagesAssumption, MaxMessagesAssumption DEF Deliver, TypeOK
  <2>2. SessionInv' /\ AskInv'
    BY <1>1, SameTargets DEF Deliver, SessionInv, AskInv
  <2>3. CallbackInv' /\ CopyInv' /\ StreamInv'
    BY <1>1 DEF Deliver, CallbackInv, CallbackInScope, CopyInv, StreamInv, Sensors
  <2> QED
    BY <2>1, <2>2, <2>3
<1>2. CASE HubReset
  <2>1. TypeOK'
    BY <1>2 DEF HubReset, TypeOK
  <2>2. SessionInv' /\ AskInv'
    BY <1>2, SameTargets DEF HubReset, SessionInv, AskInv
  <2>3. CallbackInv' /\ CopyInv' /\ StreamInv'
    BY <1>2 DEF HubReset, CallbackInv, CallbackInScope, CopyInv, StreamInv, Sensors
  <2> QED
    BY <2>1, <2>2, <2>3
<1>3. CASE SuidEvent \/ AttributeEvent \/ DataEvent
  <2>1. TypeOK'
    BY <1>3 DEF SuidEvent, AttributeEvent, DataEvent, TypeOK
  <2>2. SessionInv' /\ AskInv'
    BY <1>3, SameTargets DEF SuidEvent, AttributeEvent, DataEvent, SessionInv, AskInv
  <2>3. CallbackInv' /\ CopyInv' /\ StreamInv'
    BY <1>3 DEF SuidEvent, AttributeEvent, DataEvent, CallbackInv,
          CallbackInScope, CopyInv, StreamInv, Sensors
  <2> QED
    BY <2>1, <2>2, <2>3
<1>4. CASE CallbackLock
  <2>1. TypeOK'
    BY <1>4 DEF CallbackLock, TypeOK
  <2>2. SessionInv' /\ AskInv'
    BY <1>4, SameTargets DEF CallbackLock, SessionInv, AskInv
  <2>3. CallbackInv' /\ CopyInv' /\ StreamInv'
    BY <1>4 DEF CallbackLock, CallbackInv, CallbackInScope, CopyInv, StreamInv, Sensors
  <2> QED
    BY <2>1, <2>2, <2>3
<1>5. CASE Notify
  <2>1. TypeOK'
    BY <1>5 DEF Notify, TypeOK
  <2>2. SessionInv' /\ AskInv'
    BY <1>5, SameTargets DEF Notify, SessionInv, AskInv
  <2>3. CallbackInv' /\ CopyInv' /\ StreamInv'
    BY <1>5 DEF Notify, CallbackInv, CallbackInScope, CopyInv, StreamInv, Sensors
  <2> QED
    BY <2>1, <2>2, <2>3
<1>6. CASE Clear \/ Resize \/ Assign
  <2>1. /\ phase = "suid" /\ msg.list # <<>> /\ msg.list \in Seq(Suids)
        /\ UNCHANGED <<mainVars, linkVars, msg, delivered, eventMutex>>
        /\ cbPc # "idle"
    BY <1>6 DEF Clear, Resize, Assign, CallbackInv, TypeOK, Message
  <2>2. SessionInv' /\ AskInv' /\ StreamInv'
    BY <2>1 DEF SessionInv, AskInv, StreamInv, Targets
  <2>3. TypeOK' /\ CallbackInv' /\ CopyInv'
    <3>1. CASE Clear
      BY <3>1, <2>1 DEF Clear, TypeOK, CallbackInv, CallbackInScope, CopyInv
    <3>2. CASE Resize
      <4>1. Len(msg.list) \in Nat \ {0}
        BY <2>1, EmptySeq
      <4>2. /\ suidList' \in Seq(Suids \cup {NoSuid})
            /\ Len(suidList') = Len(msg.list)
        BY <3>2, <4>1, SeqDef DEF Resize
      <4> QED
        BY <3>2, <2>1, <4>1, <4>2 DEF Resize, TypeOK, CallbackInv,
              CallbackInScope, CopyInv
    <3>3. CASE Assign
      <4> DEFINE k == assigned + 1
      <4>1. /\ k \in 1..Len(suidList) /\ Len(suidList) = Len(msg.list)
            /\ msg.list[k] \in Suids
        BY <3>3, <2>1 DEF Assign, CopyInv, TypeOK
      <4>2. /\ suidList' \in Seq(Suids \cup {NoSuid})
            /\ Len(suidList') = Len(msg.list)
            /\ \A j \in 1..Len(msg.list) :
                  suidList'[j] = IF j = k THEN msg.list[k] ELSE suidList[j]
        BY <3>3, <4>1, ExceptSeq DEF Assign, TypeOK
      <4>3. \A j \in 1..k : suidList'[j] = msg.list[j]
        BY <3>3, <4>1, <4>2 DEF Assign, CopyInv, TypeOK
      <4>4. CASE k = Len(msg.list)
        <5>1. suidList' = msg.list
          <6>1. msg.list \in Seq(Suids \cup {NoSuid})
            BY <2>1
          <6> QED
            BY <6>1, <4>2, <4>3, <4>4, SeqEqual
        <5>2. /\ cbPc = "assign" /\ cbPc' = "lock" /\ lastList' = msg.list
              /\ assigned' = k /\ UNCHANGED <<pc, link>>
          BY <3>3, <2>1, <4>4 DEF Assign
        <5>3. TypeOK'
          BY <2>1, <4>2, <5>2 DEF TypeOK
        <5> QED
          BY <5>1, <5>2, <5>3 DEF CallbackInv, CallbackInScope, CopyInv
      <4>5. CASE k # Len(msg.list)
        BY <3>3, <2>1, <4>1, <4>2, <4>3, <4>5 DEF Assign, TypeOK, CallbackInv,
              CallbackInScope, CopyInv
      <4> QED
        BY <4>4, <4>5
    <3> QED
      BY <1>6, <3>1, <3>2, <3>3
  <2> QED
    BY <2>2, <2>3
<1> QED
  BY <1>1, <1>2, <1>3, <1>4, <1>5, <1>6 DEF Callback

LEMMA StepKeepsIInv == IInv /\ [Next]_vars => IInv'
<1> SUFFICES ASSUME IInv, [Next]_vars PROVE IInv'
  OBVIOUS
<1>1. CASE SpuriousWakeup
  <2>1. UNCHANGED <<suidList, cbVars>>
    BY <1>1 DEF SpuriousWakeup
  <2> QED
    BY <1>1, <2>1, PlainStep
<1>2. CASE UNCHANGED vars
  BY <1>2 DEF vars, mainVars, linkVars, cbVars, IInv, TypeOK, SessionInv,
        AskInv, CallbackInv, CallbackInScope, CopyInv, StreamInv, Sensors, Targets
<1> QED
  BY <1>1, <1>2, MainStep, CallbackStepInv DEF Next, Terminated

------------------------------------------------------------------------
(* The theorems.                                                           *)

\* What is true of main, the session and the callback between any two steps.
THEOREM Invariant == Spec => []IInv
  BY InitIInv, StepKeepsIInv, PTL DEF Spec

\* Every variable keeps its type: in particular nothing but a UID is asked.
THEOREM TypeCorrect == Spec => []TypeOK
  BY Invariant, PTL DEF IInv

\* getAttributes and getSensorData go through a list that arrived whole.
THEOREM ListIsWhole == Spec => []WholeList
<1>1. IInv => WholeList
  BY DEF IInv, CallbackInv, CopyInv, WholeList
<1> QED
  BY <1>1, Invariant, PTL

\* No callback runs after the function whose locals it uses.
THEOREM InScope == Spec => []CallbackInScope
  BY Invariant, PTL DEF IInv, CallbackInv

\* Sensors are stopped before the streaming session is closed.
THEOREM StopsFirst == Spec => []StoppedBeforeClose
<1>1. IInv => StoppedBeforeClose
  BY DEF IInv, StreamInv, StoppedBeforeClose
<1> QED
  BY <1>1, Invariant, PTL

\* The list stays as getSuid left it.
THEOREM ListIsStable == Spec => StableList
<1>1. IInv /\ [Next]_vars => [phase # "suid" => UNCHANGED suidList]_vars
  <2> SUFFICES ASSUME IInv, Next, phase # "suid" PROVE UNCHANGED suidList
    OBVIOUS
  <2>1. CASE Main
    BY <2>1 DEF Main, CreateSession, OpenSession, SetCallBacks, LoopEnds, AskSuids,
          AskAttributes, StartStreaming, SendRequest, NextTurn, Lock, Wait,
          Relock, Sleep, StopStreaming, Close, Closed, Return
  <2>2. CASE Callback
    BY <2>2 DEF Callback, SuidEvent, AttributeEvent, DataEvent, Clear, Resize,
          Assign, CallbackLock, Notify, CallbackStep, IInv, CallbackInv
  <2> QED
    BY <2>1, <2>2 DEF Next, Deliver, HubReset, SpuriousWakeup, Terminated, vars
<1> QED
  BY <1>1, Invariant, PTL DEF Spec, StableList
=============================================================================
