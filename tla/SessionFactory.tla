--------------------------- MODULE SessionFactory ---------------------------
(***************************************************************************)
(* sessionFactory (src/session/1.0/src/SessionFactory.cpp): the library    *)
(* that implements ISession is loaded when the first session is asked for, *)
(* and two of its symbols are kept in static variables.  These are plain   *)
(* variables that every factory of the process shares, on any thread, with *)
(* no lock.  A thread's stores are therefore seen by the others in any     *)
(* order (pending), as an ARM processor or the compiler may have it; the   *)
(* thread itself sees them at once.                                        *)
(***************************************************************************)
EXTENDS Naturals

CONSTANT Threads

\* Static variables.  Each starts out null or false and is only ever set: to
\* the symbol of the one library there is, or to true.
Symbols == {"mGetSessionSymbol", "mGetSensingHubIdsSymbol"}
Statics == Symbols \cup {"mSymbolLoaded"}
NoLibrary == {"none"}

VARIABLES
  memory,    \* the statics that are set, as every thread sees them
  pending,   \* per thread: the statics it has set and others do not see yet
  library,   \* the symbols of the loaded library, NoLibrary before
  pcF, op,   \* per thread: where it is and which operation it runs
  session,   \* per thread: it has been given a session
  raced      \* history: mSymbolLoaded was tested while another thread loaded

factoryVars == <<memory, pending, library, pcF, op, session, raced>>

Sees(t) == memory \cup pending[t]

FactoryInit ==
  /\ memory = {}
  /\ pending = [t \in Threads |-> {}]
  /\ library = NoLibrary
  /\ pcF = [t \in Threads |-> "idle"]
  /\ op = [t \in Threads |-> "getSession"]
  /\ session = [t \in Threads |-> FALSE]
  /\ raced = FALSE

FactoryStep(t, from, to) ==
  /\ pcF[t] = from
  /\ pcF' = [pcF EXCEPT ![t] = to]

Set(t, static) == pending' = [pending EXCEPT ![t] = @ \cup {static}]

\* Another thread is in loadSymbol, or what it stored there is not seen yet.
Loading(u) == pcF[u] \in {"dlopen", "dlsym1", "dlsym2", "check"} \/ pending[u] # {}

\* getSession and getSensingHubIds begin alike: only what has not been loaded
\* is loaded.
TestLoaded(t, operation) ==
  /\ FactoryStep(t, "idle", IF "mSymbolLoaded" \in Sees(t) THEN "call" ELSE "dlopen")
  /\ operation = "getSession" => ~session[t]
  /\ op' = [op EXCEPT ![t] = operation]
  /\ raced' = (raced \/ \E u \in Threads \ {t} : Loading(u))
  /\ UNCHANGED <<memory, pending, library, session>>

\* The library may be missing; the one that is found first stays loaded, with
\* or without a symbol.
DlOpen(t) ==
  /\ \/ /\ library = NoLibrary
        /\ FactoryStep(t, "dlopen", "failed")
        /\ UNCHANGED library
     \/ /\ FactoryStep(t, "dlopen", "dlsym1")
        /\ IF library = NoLibrary THEN library' \in SUBSET Symbols ELSE UNCHANGED library
  /\ UNCHANGED <<memory, pending, op, session, raced>>

DlSym(t, symbol, from, to) ==
  /\ FactoryStep(t, from, to)
  /\ IF symbol \in library THEN Set(t, symbol) ELSE UNCHANGED pending
  /\ UNCHANGED <<memory, library, op, session, raced>>

\* Slip: only the symbol that sessions need is tested.
CheckSymbolsOfSession(t) ==
  /\ IF "mGetSensingHubIdsSymbol" \in Sees(t)
     THEN FactoryStep(t, "check", "call") /\ Set(t, "mSymbolLoaded")
     ELSE FactoryStep(t, "check", "failed") /\ UNCHANGED pending
  /\ UNCHANGED <<memory, library, op, session, raced>>

CheckSymbols(t) ==
  /\ IF Symbols \subseteq Sees(t)
     THEN FactoryStep(t, "check", "call") /\ Set(t, "mSymbolLoaded")
     ELSE FactoryStep(t, "check", "failed") /\ UNCHANGED pending
  /\ UNCHANGED <<memory, library, op, session, raced>>

\* A store of t becomes visible to the others.
Propagate(t) ==
  /\ \E static \in pending[t] :
       /\ memory' = memory \cup {static}
       /\ pending' = [pending EXCEPT ![t] = @ \ {static}]
  /\ UNCHANGED <<library, pcF, op, session, raced>>

\* getSession calls its symbol untested: a null one ends the program.  The
\* library may refuse the session.
CallGetSession(t) ==
  /\ op[t] = "getSession"
  /\ IF "mGetSessionSymbol" \in Sees(t)
     THEN /\ FactoryStep(t, "call", "idle")
          /\ \E given \in BOOLEAN : session' = [session EXCEPT ![t] = given]
     ELSE /\ FactoryStep(t, "call", "crashed")
          /\ UNCHANGED session
  /\ UNCHANGED <<memory, pending, library, op, raced>>

\* getSensingHubIds tests its symbol once more and gives an empty list
\* without it.
CallGetSensingHubIds(t) ==
  /\ op[t] = "getSensingHubIds"
  /\ FactoryStep(t, "call", "idle")
  /\ UNCHANGED <<memory, pending, library, op, session, raced>>

\* nullptr or an empty list; the next call tries again.
ReturnFailure(t) ==
  /\ FactoryStep(t, "failed", "idle")
  /\ UNCHANGED <<memory, pending, library, op, session, raced>>

\* The client deletes its session (virtual destructor of ISession).
DeleteSession(t) ==
  /\ pcF[t] = "idle" /\ session[t]
  /\ session' = [session EXCEPT ![t] = FALSE]
  /\ UNCHANGED <<memory, pending, library, pcF, op, raced>>

\* Everything a thread does with a factory.
Factory(t) ==
  \/ TestLoaded(t, "getSession")
  \/ TestLoaded(t, "getSensingHubIds")
  \/ DlOpen(t)
  \/ DlSym(t, "mGetSessionSymbol", "dlsym1", "dlsym2")
  \/ DlSym(t, "mGetSensingHubIdsSymbol", "dlsym2", "check")
  \/ CheckSymbols(t)
  \/ Propagate(t)
  \/ CallGetSession(t)
  \/ CallGetSensingHubIds(t)
  \/ ReturnFailure(t)

FactoryTypeOK ==
  /\ memory \subseteq Statics
  /\ pending \in [Threads -> SUBSET Statics]
  /\ library \in (SUBSET Symbols) \cup {NoLibrary}
  /\ pcF \in [Threads -> {"idle", "dlopen", "dlsym1", "dlsym2", "check", "call",
                          "failed", "crashed"}]
  /\ op \in [Threads -> {"getSession", "getSensingHubIds"}]
  /\ session \in [Threads -> BOOLEAN]
  /\ raced \in BOOLEAN

\* Both symbols are there for every call that is made, through whichever
\* factory and although stores are seen in any order and libraries lack
\* symbols: no call goes through a null pointer and no list of hubs is empty
\* for want of one, unless a thread asked for a session while another was
\* loading (SessionFactory.cpp 23-27, 40-43, 53-60).
CallsResolved ==
  ~raced => \A t \in Threads :
              /\ pcF[t] = "call" => Symbols \subseteq Sees(t)
              /\ pcF[t] # "crashed"
=============================================================================
