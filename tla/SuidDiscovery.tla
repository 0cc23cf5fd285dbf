-------------------------- MODULE SuidDiscovery --------------------------
(***************************************************************************)
(* utils/src/suidLookUp.cpp: locate::lookUp, the suidLookUp object it      *)
(* makes, and the session and the hub behind them.                         *)
(*                                                                         *)
(* The caller of lookUp runs on one thread, the event callback on the      *)
(* thread of the session, and both work on mSuids under mMutex.  The       *)
(* session is external: it is modelled from ISession.h and from how        *)
(* suidLookUp uses it.  It delivers messages one at a time while it is     *)
(* open, has a callback and has a request the hub still knows, and close() *)
(* returns when no callback is running.                                    *)
(***************************************************************************)
EXTENDS Naturals, Sequences

CONSTANTS Suids,        \* the UIDs sensors have
          Messages,     \* what the hub may send: sequences of Event
          MaxMessages   \* bound: messages delivered

\* One sns_client_event of a message: the UIDs of the sensors that have the
\* requested data type by now, the end of the discovery, or an event that
\* suid_decode_event rejects.
Event == [kind : {"suids"}, list : Seq(Suids)]
            \cup [kind : {"done", "bad"}, list : {<<>>}]

ASSUME MessagesAssumption == Messages \subseteq Seq(Event)
ASSUME MaxMessagesAssumption == MaxMessages \in Nat

VARIABLES pc,            \* where the caller of lookUp is
          mMutex,        \* "free", "caller" or "callback"
          mSuids,
          mLookupDone,
          mSession,      \* mSession is not null
          link,          \* the session: "none", "closed", "open", "closing"
          hasCallback,   \* setCallBacks succeeded on the session
          requested,     \* the hub works on the request
          cbPc,          \* where the callback is
          batch,         \* the events mEventCb is still to be called with
          copied,        \* how many UIDs of the first one are in mSuids
          delivered,     \* messages delivered so far
          lastList,      \* history: the last list that was handed over
          doneSeen       \* history: a message with the done event was handled

vars == <<pc, mMutex, mSuids, mLookupDone, mSession, link, hasCallback, 
          requested, cbPc, batch, copied, delivered, lastList, doneSeen>>
locateVars == <<mMutex, mSuids, mLookupDone>>
sessionVars == <<mSession, link, hasCallback, requested>>
cbVars == <<cbPc, batch, copied, delivered, lastList, doneSeen>>

TypeOK ==
    /\ pc \in {"idle", "create", "open", "setCallBacks", "request", "lock",
               "test", "waiting", "woken", "timedOut", "return", "close",
               "closing", "returned"}
    /\ mMutex \in {"free", "caller", "callback"}
    /\ mSuids \in Seq(Suids)
    /\ mLookupDone \in BOOLEAN
    /\ mSession \in BOOLEAN
    /\ link \in {"none", "closed", "open", "closing"}
    /\ hasCallback \in BOOLEAN
    /\ requested \in BOOLEAN
    /\ cbPc \in {"idle", "dispatch", "clear", "copy"}
    /\ batch \in Seq(Event)
    /\ copied \in Nat
    /\ delivered \in 0..MaxMessages
    /\ lastList \in Seq(Suids)
    /\ doneSeen \in BOOLEAN

Init ==
    /\ pc = "idle"
    /\ mMutex = "free"
    /\ mSuids = <<>>
    /\ mLookupDone = FALSE
    /\ mSession = FALSE
    /\ link = "none"
    /\ hasCallback = FALSE
    /\ requested = FALSE
    /\ cbPc = "idle"
    /\ batch = <<>>
    /\ copied = 0
    /\ delivered = 0
    /\ lastList = <<>>
    /\ doneSeen = FALSE

------------------------------------------------------------------------
(* The constructor of suidLookUp: a session, opened, with a callback.  A   *)
(* step that fails leaves mSession null, and lookUp goes on without.       *)

\* mLookupDone is read without mMutex here, before there is a callback.
Call ==
    /\ pc = "idle"
    /\ pc' = IF mLookupDone THEN "returned" ELSE "create"
    /\ UNCHANGED <<locateVars, sessionVars, cbVars>>

GetSession ==
    /\ pc = "create"
    /\ \/ pc' = "open" /\ mSession' = TRUE /\ link' = "closed"
       \/ pc' = "request" /\ UNCHANGED <<mSession, link>>  \* null, or it threw
    /\ UNCHANGED <<hasCallback, requested, locateVars, cbVars>>

Open ==
    /\ pc = "open"
    /\ \/ pc' = "setCallBacks" /\ link' = "open" /\ UNCHANGED mSession
       \/ pc' = "request" /\ mSession' = FALSE /\ UNCHANGED link
    /\ UNCHANGED <<hasCallback, requested, locateVars, cbVars>>

\* Slip: the session that takes no callbacks is dropped without a close.
SetCallBacksLeaks ==
    /\ pc = "setCallBacks"
    /\ \/ hasCallback' = TRUE /\ UNCHANGED <<mSession, link>>
       \/ mSession' = FALSE /\ UNCHANGED <<link, hasCallback>>
    /\ pc' = "request"
    /\ UNCHANGED <<requested, locateVars, cbVars>>

\* A session that takes no callbacks is closed and given up.
SetCallBacks ==
    /\ pc = "setCallBacks"
    /\ \/ hasCallback' = TRUE /\ UNCHANGED <<mSession, link>>
       \/ mSession' = FALSE /\ link' = "closed" /\ UNCHANGED hasCallback
    /\ pc' = "request"
    /\ UNCHANGED <<requested, locateVars, cbVars>>

\* requestSuid: nothing reaches the hub without a session, or when the
\* request cannot be encoded or sent; lookUp is not told.
RequestSuid ==
    /\ pc = "request"
    /\ requested' \in IF mSession THEN BOOLEAN ELSE {FALSE}
    /\ pc' = "lock"
    /\ UNCHANGED <<mSession, link, hasCallback, locateVars, cbVars>>

------------------------------------------------------------------------
(* The wait in locate::lookUp, with a deadline.                            *)

CallerLock(from, to) ==
    /\ pc = from
    /\ mMutex = "free"
    /\ pc' = to
    /\ mMutex' = "caller"
    /\ UNCHANGED <<mSuids, mLookupDone, sessionVars, cbVars>>

Lock == CallerLock("lock", "test")
Relock == CallerLock("woken", "test")
RelockTimedOut == CallerLock("timedOut", "return")

Test ==
    /\ pc = "test"
    /\ IF mLookupDone
       THEN pc' = "return" /\ UNCHANGED mMutex
       ELSE pc' = "waiting" /\ mMutex' = "free"
    /\ UNCHANGED <<mSuids, mLookupDone, sessionVars, cbVars>>

SpuriousWakeup ==
    /\ pc = "waiting"
    /\ pc' = "woken"
    /\ UNCHANGED <<locateVars, sessionVars, cbVars>>

Timeout ==
    /\ pc = "waiting"
    /\ pc' = "timedOut"
    /\ UNCHANGED <<locateVars, sessionVars, cbVars>>

\* Slip: the session is closed while mMutex is still held.
CloseLocked ==
    /\ pc = "return"
    /\ pc' = "close"
    /\ UNCHANGED <<locateVars, sessionVars, cbVars>>

\* return mSuids copies the pointer; then the locals are destroyed in the
\* reverse order of their declaration: lk unlocks first, and then lookup,
\* whose destructor closes the session.
Unlock ==
    /\ pc = "return"
    /\ pc' = "close"
    /\ mMutex' = "free"
    /\ UNCHANGED <<mSuids, mLookupDone, sessionVars, cbVars>>

\* Slip: the destructor of suidLookUp closes nothing.
CloseForgotten ==
    /\ pc = "close"
    /\ pc' = "returned"
    /\ UNCHANGED <<sessionVars, locateVars, cbVars>>

Close ==
    /\ pc = "close"
    /\ pc' = "closing"
    /\ link' = IF mSession THEN "closing" ELSE link
    /\ UNCHANGED <<mSession, hasCallback, requested, locateVars, cbVars>>

Closed ==
    /\ pc = "closing"
    /\ cbPc = "idle"
    /\ pc' = "returned"
    /\ mSession' = FALSE
    /\ link' = IF mSession THEN "closed" ELSE link
    /\ hasCallback' = FALSE
    /\ requested' = FALSE
    /\ UNCHANGED <<locateVars, cbVars>>

Caller ==
    \/ Call
    \/ GetSession
    \/ Open
    \/ SetCallBacks
    \/ RequestSuid
    \/ Lock
    \/ Test
    \/ Relock
    \/ RelockTimedOut
    \/ Timeout
    \/ Unlock
    \/ Close
    \/ Closed

------------------------------------------------------------------------
(* The hub and the callback.                                               *)

\* pb_decode stops at the first event that suid_decode_event rejects; the k
\* events it decoded before stay, and are handed on.
Decoded(m, k) ==
    /\ \A i \in 1..k : m[i].kind # "bad"
    /\ k < Len(m) => m[k + 1].kind = "bad"

\* The events that handleQshEvent calls mEventCb with: not the done event,
\* which stands in the decoded vectors under a data type of its own.
HandedOn(e) == e.kind # "done"

\* The session calls handleQshEvent.
Deliver(m) ==
    /\ link = "open"
    /\ hasCallback
    /\ requested
    /\ cbPc = "idle"
    /\ delivered < MaxMessages
    /\ delivered' = delivered + 1
    /\ cbPc' = "dispatch"
    /\ \E k \in 0..Len(m) : Decoded(m, k) /\ batch' = SubSeq(m, 1, k)
    /\ UNCHANGED <<pc, copied, lastList, doneSeen, locateVars, sessionVars>>

\* The hub is reset and forgets the request.  suidLookUp has no error
\* callback, so nobody sends the request again.
HubReset ==
    /\ link = "open"
    /\ requested
    /\ requested' = FALSE
    /\ UNCHANGED <<pc, mSession, link, hasCallback, locateVars, cbVars>>

Skip ==
    /\ cbPc = "dispatch"
    /\ batch # <<>>
    /\ ~HandedOn(Head(batch))
    /\ batch' = Tail(batch)
    /\ doneSeen' = (doneSeen \/ Head(batch).kind = "done")
    /\ UNCHANGED <<pc, cbPc, copied, delivered, lastList, locateVars, sessionVars>>

\* onSuidsAvailable: the done event, were it handed on, ends the lookup; a
\* list replaces mSuids.
OnSuidsAvailable ==
    /\ cbPc = "dispatch"
    /\ batch # <<>>
    /\ HandedOn(Head(batch))
    /\ mMutex = "free"
    /\ IF Head(batch).kind = "done"
       THEN /\ mLookupDone' = TRUE
            /\ doneSeen' = TRUE
            /\ batch' = Tail(batch)
            /\ pc' = IF pc = "waiting" THEN "woken" ELSE pc
            /\ UNCHANGED <<mMutex, cbPc>>
       ELSE /\ mMutex' = "callback"
            /\ cbPc' = "clear"
            /\ UNCHANGED <<pc, mLookupDone, doneSeen, batch>>
    /\ UNCHANGED <<mSuids, copied, delivered, lastList, sessionVars>>

\* Slip: a list is added to the one before.
ClearForgotten ==
    /\ cbPc = "clear"
    /\ copied' = 0
    /\ cbPc' = "copy"
    /\ UNCHANGED <<pc, locateVars, batch, delivered, lastList, doneSeen,
                   sessionVars>>

Clear ==
    /\ cbPc = "clear"
    /\ mSuids' = <<>>
    /\ copied' = 0
    /\ cbPc' = "copy"
    /\ UNCHANGED <<pc, mMutex, mLookupDone, batch, delivered, lastList, doneSeen,
                   sessionVars>>

\* Slip: the index of the UID is pushed.
PushBackIndex ==
    /\ cbPc = "copy"
    /\ copied < Len(Head(batch).list)
    /\ copied' = copied + 1
    /\ mSuids' = Append(mSuids, copied)
    /\ UNCHANGED <<pc, mMutex, mLookupDone, cbPc, batch, delivered, lastList,
                   doneSeen, sessionVars>>

PushBack ==
    /\ cbPc = "copy"
    /\ copied < Len(Head(batch).list)
    /\ copied' = copied + 1
    /\ mSuids' = Append(mSuids, Head(batch).list[copied + 1])
    /\ UNCHANGED <<pc, mMutex, mLookupDone, cbPc, batch, delivered, lastList,
                   doneSeen, sessionVars>>

CallbackUnlock ==
    /\ cbPc = "copy"
    /\ copied = Len(Head(batch).list)
    /\ mMutex' = "free"
    /\ cbPc' = "dispatch"
    /\ lastList' = Head(batch).list
    /\ batch' = Tail(batch)
    /\ UNCHANGED <<pc, mSuids, mLookupDone, copied, delivered, doneSeen,
                   sessionVars>>

Handled ==
    /\ cbPc = "dispatch"
    /\ batch = <<>>
    /\ cbPc' = "idle"
    /\ UNCHANGED <<pc, batch, copied, delivered, lastList, doneSeen, locateVars,
                   sessionVars>>

Callback ==
    \/ Skip
    \/ OnSuidsAvailable
    \/ Clear
    \/ PushBack
    \/ CallbackUnlock
    \/ Handled

------------------------------------------------------------------------

Terminated == pc = "returned" /\ UNCHANGED vars

Next ==
    \/ Caller
    \/ Callback
    \/ \E m \in Messages : Deliver(m)
    \/ HubReset
    \/ SpuriousWakeup
    \/ Terminated

Spec == Init /\ [][Next]_vars

\* Both threads keep running, the deadline passes, and a caller that keeps
\* asking for mMutex gets it in the end.  The hub owes nobody an answer.
FairSpec ==
    /\ Spec
    /\ WF_vars(Caller)
    /\ SF_vars(Timeout)
    /\ SF_vars(Lock \/ Relock \/ RelockTimedOut)
    /\ WF_vars(Callback)

------------------------------------------------------------------------
(* Properties                                                              *)

\* Whoever holds mMutex as the caller sees a list as the hub sent it, never
\* a part of it or a mixture of two.
WholeList == mMutex = "caller" => mSuids = lastList

\* What lookUp returns is the last list that was handed over, even when the
\* callback and the deadline, or the callback and close, run into each other
\* (suidLookUp.cpp 316-325).  The deadline takes nothing away: suidLookUp.h
\* 100 speaks of an empty vector after a timeout, but the list that arrived
\* before it, or up to the close, is what the caller gets.
ResultIsLastList == pc = "returned" => mSuids = lastList

\* The vector that lookUp returned does not change any more.
StableResult == [][pc = "returned" => UNCHANGED mSuids]_vars

\* The lists that stand in the hub's messages.
ListsOfTheHub ==
    UNION {{m[i].list : i \in {j \in DOMAIN m : m[j].kind = "suids"}} :
               m \in Messages}

\* What the caller of lookUp is in, and the list it may rely on: mSuids, or
\* the one before while the callback is rewriting it.
Stage == IF pc \in {"idle", "returned"} THEN pc ELSE "asking"
SettledList == IF cbPc \in {"clear", "copy"} THEN lastList ELSE mSuids

Abstract == INSTANCE LookUp
                WITH Lists <- ListsOfTheHub, stage <- Stage, list <- SettledList

\* The lookup publishes lists that the hub sent, each as if in one step
\* although the callback copies it UID by UID, and none once it returned.
ImplementsLookUp == Abstract!Spec

\* When lookUp has returned, no session is left open and no callback is
\* running or can run, on whichever path it left.
NothingLeftBehind ==
    pc = "returned" =>
        /\ link \notin {"open", "closing"}
        /\ cbPc = "idle"
        /\ ~hasCallback /\ ~requested

\* "blocks until either the lookup completes or the timeout expires": every
\* call of lookUp returns, whatever the hub does.
LookUpReturns == (pc # "idle") ~> (pc = "returned")

\* "Notifying callback that SUID discovery is done using special value for
\* datatype": when a message with the done event has been handled, the
\* waiting lookUp knows that it is over.
DoneEndsLookup == doneSeen /\ cbPc = "idle" => mLookupDone
=============================================================================
