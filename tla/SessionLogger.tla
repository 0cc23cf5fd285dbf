---------------------------- MODULE SessionLogger ----------------------------
(***************************************************************************)
(* The loggers of sessions (src/sessionlogger): LoggerFactory::getLogger   *)
(* makes a logger that forwards to the DIAG shim, a library that is loaded *)
(* on first use, or hands out the one that logs nothing.  Whether the shim *)
(* is there is found out under sInitMutex; the log methods use its         *)
(* function pointers without it.  The second service is the table of data  *)
(* types by sensor, under sDtMutex: each of its operations is one step.    *)
(* A thread has at most one logger, for the session it has (Threads is     *)
(* that of SessionFactory).                                                *)
(***************************************************************************)
EXTENDS SessionFactory, Sequences

CONSTANTS
  NoThread,   \* sInitMutex is free
  Suids,      \* sensors
  Datatypes,  \* their data types
  Unknown     \* the data type of a sensor not in the table

ASSUME LoggerAssumption == NoThread \notin Threads /\ Unknown \notin Datatypes

\* The pointers of the shim, in the order they are resolved.
Pointers == <<"req", "evt", "rsp", "setId", "clear">>
PointerSet == {"req", "evt", "rsp", "setId", "clear"}

VARIABLES
  sInitMutex,
  sLibdiagChecked, sLibdiagAvailable,
  diagShim,       \* the members of _diagShim that are not null
  shimLibrary,    \* the symbols the loaded shim has
  todo,           \* the pointers diagShimInit has yet to resolve
  pcL, logger,    \* per thread: where it is and its logger
  registered,     \* the threads whose session the shim knows (external)
  sDtCache,       \* the table of data types
  label           \* per thread: the data type it holds a pointer to, and of which sensor

shimVars == <<sLibdiagChecked, sLibdiagAvailable, diagShim, shimLibrary, todo>>
loggerVars == <<sInitMutex, shimVars, pcL, logger, registered, sDtCache, label>>

NoLabel == [suid |-> Unknown, type |-> Unknown]

LoggerInit ==
  /\ sInitMutex = NoThread
  /\ sLibdiagChecked = FALSE
  /\ sLibdiagAvailable = FALSE
  /\ diagShim = {}
  /\ shimLibrary = {}
  /\ todo = <<>>
  /\ pcL = [t \in Threads |-> "idle"]
  /\ logger = [t \in Threads |-> "none"]
  /\ registered = {}
  /\ sDtCache = [s \in Suids |-> Unknown]
  /\ label = [t \in Threads |-> NoLabel]

LoggerStep(t, from, to) ==
  /\ pcL[t] = from
  /\ pcL' = [pcL EXCEPT ![t] = to]

--------------------------------------------------------------------------------
(* getLogger: SensorsDiagLogger's constructor asks isAvailable.            *)

\* Slip: isAvailable does not lock.
LockInitNot(t) ==
  /\ LoggerStep(t, "idle", "libdiag")
  /\ logger[t] = "none"
  /\ sInitMutex' = t
  /\ UNCHANGED <<shimVars, logger, registered, sDtCache, label>>

LockInit(t) ==
  /\ LoggerStep(t, "idle", "libdiag")
  /\ logger[t] = "none"
  /\ sInitMutex = NoThread
  /\ sInitMutex' = t
  /\ UNCHANGED <<shimVars, logger, registered, sDtCache, label>>

\* Slip: libdiag is looked for every time.
LookForLibdiag(t) ==
  /\ sLibdiagChecked' = TRUE
  /\ sLibdiagAvailable' \in BOOLEAN
  /\ LoggerStep(t, "libdiag", IF sLibdiagAvailable' THEN "shimInit" ELSE "verdict")
  /\ UNCHANGED <<sInitMutex, diagShim, shimLibrary, todo, logger, registered, sDtCache,
                 label>>

\* libdiag is looked for once.
CheckLibdiag(t) ==
  /\ sLibdiagChecked' = TRUE
  /\ IF sLibdiagChecked THEN UNCHANGED sLibdiagAvailable
                        ELSE sLibdiagAvailable' \in BOOLEAN
  /\ LoggerStep(t, "libdiag", IF sLibdiagAvailable' THEN "shimInit" ELSE "verdict")
  /\ UNCHANGED <<sInitMutex, diagShim, shimLibrary, todo, logger, registered, sDtCache,
                 label>>

OpenShim(t) ==
  /\ LoggerStep(t, "shimInit", "dlsym")
  /\ diagShim' = diagShim \cup {"handle"}
  /\ IF "handle" \in diagShim THEN UNCHANGED shimLibrary
                              ELSE shimLibrary' \in SUBSET PointerSet
  /\ todo' = Pointers
  /\ UNCHANGED <<sInitMutex, sLibdiagChecked, sLibdiagAvailable, logger, registered,
                 sDtCache, label>>

SkipShim(t) ==
  /\ LoggerStep(t, "shimInit", "verdict")
  /\ UNCHANGED <<sInitMutex, shimVars, logger, registered, sDtCache, label>>

\* Slip: the shim is opened again and its pointers are resolved anew.
DiagShimInitAgain(t) == OpenShim(t)

\* A shim that is open is left alone; one that could not be opened is looked
\* for again by the next logger.
DiagShimInit(t) ==
  \/ SkipShim(t)
  \/ "handle" \notin diagShim /\ OpenShim(t)

\* A pointer the shim lacks becomes null.
ResolvePointer(t) ==
  /\ todo # <<>>
  /\ todo' = Tail(todo)
  /\ LoggerStep(t, "dlsym", IF Len(todo) = 1 THEN "verdict" ELSE "dlsym")
  /\ diagShim' = IF Head(todo) \in shimLibrary THEN diagShim \cup {Head(todo)}
                                               ELSE diagShim \ {Head(todo)}
  /\ UNCHANGED <<sInitMutex, sLibdiagChecked, sLibdiagAvailable, shimLibrary, logger,
                 registered, sDtCache, label>>

\* Slip: the last pointer is not tested.
IsDiagShimAvailableLess == PointerSet \ {"clear"} \subseteq diagShim

IsDiagShimAvailable == PointerSet \subseteq diagShim
IsAvailable == sLibdiagAvailable /\ IsDiagShimAvailable

\* isAvailable returns; without the shim the constructor throws and
\* getLogger falls back to the NullLogger.
MakeLogger(t) ==
  /\ LoggerStep(t, "verdict", "idle")
  /\ sInitMutex' = NoThread
  /\ logger' = [logger EXCEPT ![t] = IF IsAvailable THEN "diag" ELSE "null"]
  /\ UNCHANGED <<shimVars, registered, sDtCache, label>>

--------------------------------------------------------------------------------
(* Logging, for a logger of the DIAG kind; the other does nothing.         *)

\* logRequest, logResponse, logEvent and updateClientId use one pointer each,
\* if it is not null; the shim thereby knows the session.
Log(t, pointer) ==
  /\ pcL[t] = "idle"
  /\ logger[t] = "diag"
  /\ registered' = IF pointer \in diagShim THEN registered \cup {t} ELSE registered
  /\ UNCHANGED <<sInitMutex, shimVars, pcL, logger, sDtCache, label>>

\* The last reference to the logger goes; ~SensorsDiagLogger unregisters the
\* session.
DestroyLogger(t) ==
  /\ pcL[t] = "idle"
  /\ logger[t] # "none"
  /\ logger' = [logger EXCEPT ![t] = "none"]
  /\ registered' = IF logger[t] = "diag" /\ "clear" \in diagShim THEN registered \ {t}
                                                                ELSE registered
  /\ label' = [label EXCEPT ![t] = NoLabel]
  /\ UNCHANGED <<sInitMutex, shimVars, pcL, sDtCache>>

--------------------------------------------------------------------------------
(* The data types.                                                         *)

\* A pointer into the table, kept after sDtMutex is unlocked; "unknown" is a
\* literal.
getDataType(t, s) ==
  /\ pcL[t] = "idle"
  /\ logger[t] # "none"
  /\ label' = [label EXCEPT ![t] =
                 IF sDtCache[s] = Unknown THEN NoLabel
                                          ELSE [suid |-> s, type |-> sDtCache[s]]]
  /\ UNCHANGED <<sInitMutex, shimVars, pcL, logger, registered, sDtCache>>

\* Slip: the newer data type replaces the older one.
UpdateDataTypeNewest(t, s, type) ==
  /\ pcL[t] = "idle"
  /\ logger[t] # "none"
  /\ sDtCache' = [sDtCache EXCEPT ![s] = type]
  /\ UNCHANGED <<sInitMutex, shimVars, pcL, logger, registered, label>>

\* The first data type of a sensor stays; another one is only complained of.
updateDataType(t, s, type) ==
  /\ pcL[t] = "idle"
  /\ logger[t] # "none"
  /\ sDtCache' = IF sDtCache[s] = Unknown THEN [sDtCache EXCEPT ![s] = type] ELSE sDtCache
  /\ UNCHANGED <<sInitMutex, shimVars, pcL, logger, registered, label>>

\* Everything a thread does with a logger.
Logger(t) ==
  \/ LockInit(t)
  \/ CheckLibdiag(t)
  \/ DiagShimInit(t)
  \/ ResolvePointer(t)
  \/ MakeLogger(t)
  \/ \E pointer \in PointerSet \ {"clear"} : Log(t, pointer)
  \/ DestroyLogger(t)
  \/ \E s \in Suids : getDataType(t, s)
  \/ \E s \in Suids, type \in Datatypes : updateDataType(t, s, type)

--------------------------------------------------------------------------------
(* Properties.                                                             *)

InInit == {"libdiag", "shimInit", "dlsym", "verdict"}

LoggerTypeOK ==
  /\ sInitMutex \in Threads \cup {NoThread}
  /\ sLibdiagChecked \in BOOLEAN /\ sLibdiagAvailable \in BOOLEAN
  /\ diagShim \subseteq PointerSet \cup {"handle"}
  /\ shimLibrary \subseteq PointerSet
  /\ todo \in Seq(PointerSet)
  /\ pcL \in [Threads -> {"idle"} \cup InInit]
  /\ logger \in [Threads -> {"none", "null", "diag"}]
  /\ registered \subseteq Threads
  /\ sDtCache \in [Suids -> Datatypes \cup {Unknown}]
  /\ label \in [Threads -> [suid : Suids \cup {Unknown}, type : Datatypes \cup {Unknown}]]

\* While there is a logger that uses the shim, all of its pointers are
\* resolved and no thread that makes another logger writes them, although
\* they are read without a lock (SensorsDiagLogger.cpp 19, 34-36, 68-120).
ShimIsStable ==
  (\E t \in Threads : logger[t] = "diag") =>
    /\ PointerSet \subseteq diagShim
    /\ \A t \in Threads : pcL[t] # "dlsym"

\* The shim knows no session whose logger is gone, whatever symbols the
\* library lacks (SensorsDiagLogger.cpp 34-36, 115-120).
NoneLeftRegistered == registered \subseteq {t \in Threads : logger[t] = "diag"}

\* A data type someone holds a pointer to stays as it is in the table, so the
\* pointer stays valid and right after the lock is gone (LoggerFactory.cpp
\* 39-60; LoggerFactory.h:76 promises it for the process's lifetime).
LabelsStay ==
  \A t \in Threads : label[t] # NoLabel => sDtCache[label[t].suid] = label[t].type
=============================================================================
