-------------------------- MODULE SessionClient --------------------------
(***************************************************************************)
(* examples/SessionClient/SessionClient.cpp: the example client.  Its main *)
(* thread goes through three phases, each with a session of its own:       *)
(* getSuid fills suidList, getAttributes asks the sensors in it for their  *)
(* attributes, and getSensorData streams from them for a while.  The event *)
(* callbacks run on the thread of the session.                             *)
(*                                                                         *)
(* getSession, open, setCallBacks, sendRequest and the encoding may fail   *)
(* at any call.  The session is external, as in SuidDiscovery: one         *)
(* callback at a time, none before a request, and close() returns when no  *)
(* callback is running.                                                    *)
(***************************************************************************)
EXTENDS Naturals, Sequences

CONSTANTS Suids,       \* the UIDs of sensors
          SuidSensor,  \* the UID of the sensor that knows the others
          NoSuid,      \* a default-constructed suid
          Messages,    \* what the hub may send
          MaxMessages  \* bound: messages delivered

\* What decode_suid_event collects from the events of a message, and whether
\* all of them were decoded.
Message == [decoded : BOOLEAN, list : Seq(Suids)]

ASSUME SuidsAssumption == SuidSensor \notin Suids /\ NoSuid \notin Suids
ASSUME MessagesAssumption == Messages \subseteq Message
ASSUME MaxMessagesAssumption == MaxMessages \in Nat

VARIABLES phase,       \* the function main is in
          pc,          \* where the main thread is in it
          next,        \* the loop over the UIDs: the one whose turn it is
          suidList,
          eventMutex,  \* of this phase: "free", "main" or "callback"
          link,        \* the session of this phase
          registered,  \* the UIDs setCallBacks was called for
          requested,   \* the UIDs whose request the hub works on
          cbPc,        \* where the callback is
          msg,         \* the message it was called with
          assigned,    \* how many elements of suidList it has assigned
          delivered,   \* messages delivered so far
          lastList     \* history: the last list stored

mainVars == <<phase, pc, next>>
linkVars == <<link, registered, requested>>
cbVars == <<cbPc, msg, assigned, delivered, lastList>>
vars == <<mainVars, suidList, eventMutex, linkVars, cbVars>>

Phases == {"suid", "attributes", "data"}
Ended == pc \in {"succeeded", "failed"}

\* The UIDs a phase sends its requests to.
Targets == IF phase = "suid" THEN <<SuidSensor>> ELSE suidList

TypeOK ==
    /\ phase \in Phases
    /\ pc \in {"create", "open", "loop", "request", "lock", "wait", "waiting",
               "woken", "streaming", "stop", "close", "closing", "succeeded",
               "failed"}
    /\ next \in Nat \ {0}
    /\ suidList \in Seq(Suids \cup {NoSuid})
    /\ eventMutex \in {"free", "main", "callback"}
    /\ link \in {"none", "created", "open", "closing"}
    /\ registered \subseteq Suids \cup {SuidSensor}
    /\ requested \subseteq Suids \cup {SuidSensor}
    /\ cbPc \in {"idle", "decode", "clear", "resize", "assign", "lock", "notify"}
    /\ msg \in Message
    /\ assigned \in Nat
    /\ delivered \in 0..MaxMessages
    /\ lastList \in Seq(Suids)

Init ==
    /\ phase = "suid"
    /\ pc = "create"
    /\ next = 1
    /\ suidList = <<>>
    /\ eventMutex = "free"
    /\ link = "none"
    /\ registered = {}
    /\ requested = {}
    /\ cbPc = "idle"
    /\ msg = [decoded |-> FALSE, list |-> <<>>]
    /\ assigned = 0
    /\ delivered = 0
    /\ lastList = <<>>

------------------------------------------------------------------------
(* The main thread: what the three phases have in common.                 *)

Step(from, to) == pc = from /\ pc' = to /\ UNCHANGED <<phase, next>>

\* A phase ends: with TRUE main goes on to the next one, with FALSE it gives
\* up.  Its lock and its session go out of scope, closed or not.
Return(result) ==
    /\ IF result /\ phase # "data"
       THEN /\ phase' = IF phase = "suid" THEN "attributes" ELSE "data"
            /\ pc' = "create"
       ELSE /\ pc' = IF result THEN "succeeded" ELSE "failed"
            /\ UNCHANGED phase
    /\ next' = 1
    /\ link' = "none"
    /\ registered' = {}
    /\ requested' = {}
    /\ eventMutex' = IF eventMutex = "main" THEN "free" ELSE eventMutex
    /\ UNCHANGED <<suidList, cbVars>>

CreateSession ==
    \/ /\ Step("create", "open")
       /\ link' = "created"
       /\ UNCHANGED <<registered, requested, suidList, eventMutex, cbVars>>
    \/ pc = "create" /\ Return(FALSE)

OpenSession ==
    \/ /\ Step("open", "loop")
       /\ link' = "open"
       /\ UNCHANGED <<registered, requested, suidList, eventMutex, cbVars>>
    \/ pc = "open" /\ Return(FALSE)

\* The result of setCallBacks is only printed.
SetCallBacks ==
    /\ next <= Len(Targets)
    /\ Step("loop", "request")
    /\ registered' \in {registered, registered \cup {Targets[next]}}
    /\ UNCHANGED <<link, requested, suidList, eventMutex, cbVars>>

LoopEnds ==
    /\ next > Len(Targets)
    /\ Step("loop", IF phase = "data" THEN "streaming" ELSE "lock")
    /\ UNCHANGED <<suidList, eventMutex, linkVars, cbVars>>

\* The request of one turn of the loop was sent, or skipped.
NextTurn(from, to, hub) ==
    /\ pc = from
    /\ pc' = to
    /\ next' = next + 1
    /\ requested' = hub
    /\ UNCHANGED <<phase, link, registered, suidList, eventMutex, cbVars>>

SendRequest == NextTurn("request", "loop", requested \cup {Targets[next]})

\* The wait of getSuid and getAttributes, which has no condition.
Lock ==
    /\ Step("lock", "wait")
    /\ eventMutex = "free" /\ eventMutex' = "main"
    /\ UNCHANGED <<suidList, linkVars, cbVars>>

Wait ==
    /\ Step("wait", "waiting")
    /\ eventMutex' = "free"
    /\ UNCHANGED <<suidList, linkVars, cbVars>>

SpuriousWakeup ==
    /\ Step("waiting", "woken")
    /\ UNCHANGED <<suidList, eventMutex, linkVars, cbVars>>

Relock ==
    /\ Step("woken", "close")
    /\ eventMutex = "free" /\ eventMutex' = "main"
    /\ UNCHANGED <<suidList, linkVars, cbVars>>

\* Slip: the phase returns without close().
ReturnUnclosed == pc = "close" /\ Return(TRUE)

\* close() is called with eventLock still held.
Close ==
    /\ Step("close", "closing")
    /\ link' = "closing"
    /\ UNCHANGED <<registered, requested, suidList, eventMutex, cbVars>>

Closed == pc = "closing" /\ cbPc = "idle" /\ Return(TRUE)

------------------------------------------------------------------------
(* The main thread: what each phase does of its own.                      *)

\* getSuid.  The two paths on which the request cannot be encoded return 1,
\* which is true.
AskSuids ==
    /\ phase = "suid"
    /\ \/ SendRequest
       \/ pc = "request" /\ Return(FALSE)
       \/ pc = "request" /\ Return(TRUE)

\* getAttributes.
AskAttributes ==
    /\ phase = "attributes"
    /\ SendRequest \/ (pc = "request" /\ Return(FALSE))

\* A sensor whose configuration cannot be encoded is skipped.
StartStreaming ==
    /\ phase = "data"
    /\ \/ SendRequest
       \/ NextTurn("request", "loop", requested)
       \/ pc = "request" /\ Return(FALSE)

\* Slip: the second loop begins one too early.
SleepFromZero ==
    /\ pc = "streaming"
    /\ pc' = "stop"
    /\ next' = 0
    /\ UNCHANGED <<phase, suidList, eventMutex, linkVars, cbVars>>

\* sleep(testDuration)
Sleep ==
    /\ pc = "streaming"
    /\ pc' = "stop"
    /\ next' = 1
    /\ UNCHANGED <<phase, suidList, eventMutex, linkVars, cbVars>>

\* Slip: the sensor that was asked last is not stopped.
StopAllButLast ==
    \/ next < Len(Targets) /\ NextTurn("stop", "stop", requested \ {Targets[next]})
    \/ next <= Len(Targets) /\ pc = "stop" /\ Return(FALSE)
    \/ /\ next >= Len(Targets)
       /\ Step("stop", "close")
       /\ UNCHANGED <<suidList, eventMutex, linkVars, cbVars>>

\* Slip: the loop begins again behind the last sensor.
StopForever ==
    \/ /\ next <= Len(Targets)
       /\ pc = "stop" /\ pc' = "stop"
       /\ next' = (next % Len(Targets)) + 1
       /\ requested' = requested \ {Targets[next]}
       /\ UNCHANGED <<phase, link, registered, suidList, eventMutex, cbVars>>
    \/ next <= Len(Targets) /\ pc = "stop" /\ Return(FALSE)
    \/ /\ next > Len(Targets)
       /\ Step("stop", "close")
       /\ UNCHANGED <<suidList, eventMutex, linkVars, cbVars>>

StopStreaming ==
    \/ next <= Len(Targets) /\ NextTurn("stop", "stop", requested \ {Targets[next]})
    \/ next <= Len(Targets) /\ pc = "stop" /\ Return(FALSE)
    \/ /\ next > Len(Targets)
       /\ Step("stop", "close")
       /\ UNCHANGED <<suidList, eventMutex, linkVars, cbVars>>

Main ==
    \/ CreateSession
    \/ OpenSession
    \/ SetCallBacks
    \/ LoopEnds
    \/ AskSuids
    \/ AskAttributes
    \/ StartStreaming
    \/ Lock
    \/ Wait
    \/ Relock
    \/ Sleep
    \/ StopStreaming
    \/ Close
    \/ Closed

------------------------------------------------------------------------
(* The hub and the callbacks.                                              *)

Deliver(m) ==
    /\ ~Ended
    /\ link = "open"
    /\ registered \cap requested # {}
    /\ cbPc = "idle"
    /\ delivered < MaxMessages
    /\ delivered' = delivered + 1
    /\ cbPc' = "decode"
    /\ msg' = m
    /\ UNCHANGED <<mainVars, suidList, eventMutex, linkVars, assigned, lastList>>

\* After a reset the hub has forgotten the requests of an open session, and
\* the error callbacks of the client send none again.
HubReset ==
    /\ ~Ended
    /\ requested # {}
    /\ requested' = {}
    /\ UNCHANGED <<mainVars, suidList, eventMutex, link, registered, cbVars>>

CallbackStep(from, to) ==
    /\ ~Ended
    /\ cbPc = from
    /\ cbPc' = to
    /\ UNCHANGED <<mainVars, linkVars, delivered>>

\* suidEvent: a list that is not empty is stored, outside eventMutex.  The
\* waiting thread is notified in any case.
SuidEvent ==
    /\ phase = "suid"
    /\ CallbackStep("decode", IF msg.decoded /\ msg.list # <<>> THEN "clear" ELSE "lock")
    /\ UNCHANGED <<suidList, eventMutex, msg, assigned, lastList>>

\* Slip: getAttributes registers the callback of getSuid.
AttributeEventStores ==
    /\ phase = "attributes"
    /\ CallbackStep("decode", IF msg.decoded /\ msg.list # <<>> THEN "clear" ELSE "lock")
    /\ UNCHANGED <<suidList, eventMutex, msg, assigned, lastList>>

AttributeEvent ==
    /\ phase = "attributes"
    /\ CallbackStep("decode", "lock")
    /\ UNCHANGED <<suidList, eventMutex, msg, assigned, lastList>>

DataEvent ==
    /\ phase = "data"
    /\ CallbackStep("decode", "idle")
    /\ UNCHANGED <<suidList, eventMutex, msg, assigned, lastList>>

Clear ==
    /\ CallbackStep("clear", "resize")
    /\ suidList' = <<>>
    /\ UNCHANGED <<eventMutex, msg, assigned, lastList>>

\* Slip: the list is made one element too long.
ResizeOneMore ==
    /\ CallbackStep("resize", "assign")
    /\ suidList' = [i \in 1..Len(msg.list) + 1 |-> NoSuid]
    /\ assigned' = 0
    /\ UNCHANGED <<eventMutex, msg, lastList>>

Resize ==
    /\ CallbackStep("resize", "assign")
    /\ suidList' = [i \in 1..Len(msg.list) |-> NoSuid]
    /\ assigned' = 0
    /\ UNCHANGED <<eventMutex, msg, lastList>>

Assign ==
    /\ assigned < Len(msg.list)
    /\ CallbackStep("assign", IF assigned + 1 = Len(msg.list) THEN "lock" ELSE "assign")
    /\ suidList' = [suidList EXCEPT ![assigned + 1] = msg.list[assigned + 1]]
    /\ assigned' = assigned + 1
    /\ lastList' = IF assigned + 1 = Len(msg.list) THEN msg.list ELSE lastList
    /\ UNCHANGED <<eventMutex, msg>>

CallbackLock ==
    /\ CallbackStep("lock", "notify")
    /\ eventMutex = "free" /\ eventMutex' = "callback"
    /\ UNCHANGED <<suidList, msg, assigned, lastList>>

\* notify_one, and the return of the callback.
Notify ==
    /\ ~Ended
    /\ cbPc = "notify"
    /\ cbPc' = "idle"
    /\ pc' = IF pc = "waiting" THEN "woken" ELSE pc
    /\ eventMutex' = "free"
    /\ UNCHANGED <<phase, next, suidList, linkVars, msg, assigned, delivered,
                   lastList>>

Callback ==
    \/ SuidEvent
    \/ AttributeEvent
    \/ DataEvent
    \/ Clear
    \/ Resize
    \/ Assign
    \/ CallbackLock
    \/ Notify

------------------------------------------------------------------------

Terminated == Ended /\ UNCHANGED vars

Next ==
    \/ Main
    \/ Callback
    \/ \E m \in Messages : Deliver(m)
    \/ HubReset
    \/ SpuriousWakeup
    \/ Terminated

Spec == Init /\ [][Next]_vars

\* Both threads keep running.  The hub owes nobody an event.
FairSpec == Spec /\ WF_vars(Main) /\ WF_vars(Callback)

------------------------------------------------------------------------
(* Properties                                                              *)

\* The phases that read suidList, which has no lock of its own, find a list
\* as the hub sent it, never one that is being stored.
WholeList == phase # "suid" => suidList = lastList

\* The list they go through does not change under them.
StableList == [][phase # "suid" => UNCHANGED suidList]_vars

\* A callback refers to the locals of the phase that registered it: when
\* that phase has returned and main goes on, no callback is running.
CallbackInScope == cbPc # "idle" /\ pc # "failed" => link \in {"open", "closing"}

\* When the streaming session is closed every sensor that was started has
\* been stopped.
StoppedBeforeClose ==
    phase = "data" /\ pc \in {"close", "closing"} => requested = {}

\* Streaming comes to its end, whatever the hub does.
StreamingEnds == (phase = "data") ~> Ended

\* "wait until all suids are received": getSuid does not sleep for a list
\* that has been stored and notified already.
WaitsOnlyForList ==
    phase = "suid" /\ pc = "waiting" /\ lastList # <<>> => cbPc # "idle"

\* "close the session once suids are received": close() does not wait for a
\* callback that waits for the mutex the caller of close() holds.
CloseMeetsNoCallback ==
    ~(pc = "closing" /\ eventMutex = "main" /\ cbPc = "lock")
=============================================================================
