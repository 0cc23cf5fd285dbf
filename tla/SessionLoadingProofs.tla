------------------------ MODULE SessionLoadingProofs ------------------------
(***************************************************************************)
(* Proofs about SessionLoading, for any set of threads, sensors and data   *)
(* types.                                                                  *)
(***************************************************************************)
EXTENDS SessionLoading, SequenceTheorems, TLAPS

--------------------------------------------------------------------------------
(* The factory.                                                            *)

\* A thread that has set mSymbolLoaded, seen by others or not, has set both
\* symbols before it.
FlagInv ==
  /\ \A u \in Threads : "mSymbolLoaded" \in pending[u] => Symbols \subseteq Sees(u)
  /\ "mSymbolLoaded" \in memory => \E u \in Threads : Symbols \subseteq Sees(u)

FactoryInv == FactoryTypeOK /\ FlagInv /\ CallsResolved

LEMMA FactoryInitInv == FactoryInit => FactoryInv
  BY DEF FactoryInit, FactoryInv, FactoryTypeOK, FlagInv, CallsResolved, Sees, Statics,
         Symbols

\* A thread that finds the flag set without a race sees the two symbols:
\* whoever set them, nothing of it is pending any more.
LEMMA TestStep ==
  ASSUME FactoryInv, NEW t \in Threads, NEW operation \in {"getSession", "getSensingHubIds"},
         TestLoaded(t, operation)
  PROVE  FactoryInv'
<1> USE DEF FactoryInv
<1>1. FactoryTypeOK' /\ FlagInv'
  BY DEF TestLoaded, FactoryStep, FactoryTypeOK, FlagInv, Sees
<1>2. ~raced' /\ "mSymbolLoaded" \in Sees(t) => Symbols \subseteq Sees(t)
  <2> SUFFICES ASSUME ~raced', "mSymbolLoaded" \in Sees(t)
               PROVE  Symbols \subseteq Sees(t)
    OBVIOUS
  <2>1. \A u \in Threads \ {t} : pending[u] = {}
    BY DEF TestLoaded, Loading
  <2>2. CASE "mSymbolLoaded" \in pending[t]
    BY <2>2 DEF FlagInv
  <2>3. CASE "mSymbolLoaded" \in memory
    <3>1. PICK u \in Threads : Symbols \subseteq Sees(u)
      BY <2>3 DEF FlagInv
    <3> QED BY <2>1, <3>1 DEF Sees
  <2> QED BY <2>2, <2>3 DEF Sees
<1>3. CallsResolved'
  BY <1>2 DEF TestLoaded, FactoryStep, FactoryTypeOK, CallsResolved, Sees
<1> QED BY <1>1, <1>3

\* No step takes a static away from a thread that sees it.
LEMMA FactoryStepInv ==
  ASSUME FactoryInv, NEW t \in Threads, Factory(t) \/ DeleteSession(t)
  PROVE  FactoryInv'
<1> USE DEF FactoryInv
<1>1. CASE TestLoaded(t, "getSession") \/ TestLoaded(t, "getSensingHubIds")
  BY <1>1, TestStep
<1>2. CASE DlOpen(t)
  BY <1>2 DEF DlOpen, FactoryStep, FactoryTypeOK, FlagInv, CallsResolved, Sees
<1>3. ASSUME NEW symbol \in Symbols, NEW from, NEW to \in {"dlsym2", "check"},
             DlSym(t, symbol, from, to)
      PROVE  FactoryInv'
  <2>1. FactoryTypeOK'
    BY <1>3 DEF DlSym, FactoryStep, Set, FactoryTypeOK, Statics
  <2>2. \A u \in Threads : Sees(u) \subseteq Sees(u)'
    BY <1>3 DEF DlSym, Set, FactoryTypeOK, Sees
  <2>3. FlagInv'
    BY <1>3, <2>2 DEF DlSym, Set, FactoryTypeOK, FlagInv, Symbols
  <2>4. CallsResolved'
    BY <1>3, <2>2 DEF DlSym, FactoryStep, FactoryTypeOK, CallsResolved
  <2> QED BY <2>1, <2>3, <2>4
<1>4. CASE CheckSymbols(t)
  <2>1. FactoryTypeOK'
    BY <1>4 DEF CheckSymbols, FactoryStep, Set, FactoryTypeOK, Statics
  <2>2. \A u \in Threads : Sees(u) \subseteq Sees(u)'
    BY <1>4 DEF CheckSymbols, Set, FactoryTypeOK, Sees
  <2>3. FlagInv'
    BY <1>4, <2>2 DEF CheckSymbols, Set, FactoryTypeOK, FlagInv
  <2>4. CallsResolved'
    BY <1>4, <2>2 DEF CheckSymbols, FactoryStep, FactoryTypeOK, CallsResolved
  <2> QED BY <2>1, <2>3, <2>4
<1>5. CASE Propagate(t)
  <2>1. FactoryTypeOK'
    BY <1>5 DEF Propagate, FactoryTypeOK
  <2>2. \A u \in Threads : Sees(u) \subseteq Sees(u)'
    BY <1>5 DEF Propagate, FactoryTypeOK, Sees
  <2>3. \A u \in Threads : pending'[u] \subseteq pending[u]
    BY <1>5 DEF Propagate, FactoryTypeOK
  <2>4. "mSymbolLoaded" \in memory' =>
          "mSymbolLoaded" \in memory \/ "mSymbolLoaded" \in pending[t]
    BY <1>5 DEF Propagate
  <2>5. FlagInv'
    BY <2>2, <2>3, <2>4 DEF FlagInv
  <2>6. CallsResolved'
    BY <1>5, <2>2 DEF Propagate, CallsResolved
  <2> QED BY <2>1, <2>5, <2>6
<1>6. CASE CallGetSession(t)
  <2>1. FactoryTypeOK' /\ FlagInv'
    BY <1>6 DEF CallGetSession, FactoryStep, FactoryTypeOK, FlagInv, Sees
  <2>2. CallsResolved'
    BY <1>6 DEF CallGetSession, FactoryStep, FactoryTypeOK, CallsResolved, Sees, Symbols
  <2> QED BY <2>1, <2>2
<1>7. CASE CallGetSensingHubIds(t) \/ ReturnFailure(t) \/ DeleteSession(t)
  BY <1>7 DEF CallGetSensingHubIds, ReturnFailure, DeleteSession, FactoryStep,
              FactoryTypeOK, FlagInv, CallsResolved, Sees
<1> QED BY <1>1, <1>2, <1>3, <1>4, <1>5, <1>6, <1>7 DEF Factory, Symbols

LEMMA FactoryUnchanged == FactoryInv /\ UNCHANGED factoryVars => FactoryInv'
  BY DEF FactoryInv, factoryVars, FactoryTypeOK, FlagInv, CallsResolved, Sees

--------------------------------------------------------------------------------
(* The loggers.                                                            *)

\* A thread is on its way through isAvailable exactly while it holds the
\* mutex, and has no logger yet.
MutexInv == \A t \in Threads :
  /\ pcL[t] \in InInit <=> sInitMutex = t
  /\ pcL[t] \in InInit => logger[t] = "none"

\* What a logger of the DIAG kind was made from has not changed.
ShimInv ==
  /\ diagShim # {} => "handle" \in diagShim
  /\ \A t \in Threads : pcL[t] = "dlsym" => "handle" \in diagShim
  /\ sLibdiagAvailable => sLibdiagChecked
  /\ (\E t \in Threads : logger[t] = "diag") => sLibdiagAvailable

\* A pointer into the table is to an entry.
LabelInv == \A t \in Threads : label[t] # NoLabel =>
              label[t].suid \in Suids /\ label[t].type # Unknown

LoggerInv ==
  /\ LoggerTypeOK
  /\ MutexInv
  /\ ShimInv
  /\ ShimIsStable
  /\ NoneLeftRegistered
  /\ LabelInv
  /\ LabelsStay

LEMMA LoggerInitInv == LoggerInit => LoggerInv
<1> SUFFICES ASSUME LoggerInit PROVE LoggerInv
  OBVIOUS
<1> USE LoggerAssumption DEF LoggerInit
<1>1. NoLabel \in [suid : Suids \cup {Unknown}, type : Datatypes \cup {Unknown}]
  BY DEF NoLabel
<1>2. <<>> \in Seq(PointerSet)
  OBVIOUS
<1>3. LoggerTypeOK
  BY <1>1, <1>2 DEF LoggerTypeOK
<1> QED BY <1>3 DEF LoggerInv, MutexInv, ShimInv, ShimIsStable, NoneLeftRegistered,
                    LabelInv, LabelsStay, InInit

\* isAvailable until the shim is looked at.
LEMMA LibdiagStep ==
  ASSUME LoggerInv, NEW t \in Threads, LockInit(t) \/ CheckLibdiag(t)
  PROVE  LoggerInv'
<1> USE LoggerAssumption DEF LoggerInv
<1>1. LoggerTypeOK' /\ MutexInv'
  BY DEF LockInit, CheckLibdiag, LoggerStep, shimVars, LoggerTypeOK, MutexInv, InInit
<1>2. ShimInv' /\ ShimIsStable'
  BY DEF LockInit, CheckLibdiag, LoggerStep, shimVars, LoggerTypeOK, ShimInv,
         ShimIsStable
<1>3. NoneLeftRegistered' /\ LabelInv' /\ LabelsStay'
  BY DEF LockInit, CheckLibdiag, NoneLeftRegistered, LabelInv, LabelsStay
<1> QED BY <1>1, <1>2, <1>3

\* The pointers are written only while no logger uses them.
LEMMA ShimStep ==
  ASSUME LoggerInv, NEW t \in Threads, DiagShimInit(t) \/ ResolvePointer(t)
  PROVE  LoggerInv'
<1> USE LoggerAssumption DEF LoggerInv
<1>1. CASE SkipShim(t)
  BY <1>1 DEF SkipShim, LoggerStep, shimVars, LoggerTypeOK, MutexInv, ShimInv,
              ShimIsStable, NoneLeftRegistered, LabelInv, LabelsStay, InInit
<1>2. CASE "handle" \notin diagShim /\ OpenShim(t)
  <2>1. \A u \in Threads : logger[u] # "diag"
    BY <1>2 DEF ShimIsStable, ShimInv, PointerSet
  <2>2. Pointers \in Seq(PointerSet)
    BY DEF Pointers, PointerSet
  <2>3. LoggerTypeOK' /\ MutexInv'
    BY <1>2, <2>2 DEF OpenShim, LoggerStep, LoggerTypeOK, MutexInv, InInit
  <2>4. ShimInv' /\ ShimIsStable'
    BY <1>2, <2>1 DEF OpenShim, LoggerStep, LoggerTypeOK, ShimInv, ShimIsStable
  <2>5. NoneLeftRegistered' /\ LabelInv' /\ LabelsStay'
    BY <1>2 DEF OpenShim, NoneLeftRegistered, LabelInv, LabelsStay
  <2> QED BY <2>3, <2>4, <2>5
<1>3. CASE ResolvePointer(t)
  <2>1. \A u \in Threads : logger[u] # "diag"
    BY <1>3 DEF ResolvePointer, LoggerStep, ShimIsStable
  <2>2. Head(todo) \in PointerSet /\ Tail(todo) \in Seq(PointerSet)
    BY <1>3, HeadTailProperties DEF ResolvePointer, LoggerTypeOK
  <2>3. LoggerTypeOK' /\ MutexInv'
    BY <1>3, <2>2 DEF ResolvePointer, LoggerStep, LoggerTypeOK, MutexInv, InInit
  <2>4. ShimInv' /\ ShimIsStable'
    BY <1>3, <2>1, <2>2 DEF ResolvePointer, LoggerStep, LoggerTypeOK, ShimInv,
                          ShimIsStable, PointerSet
  <2>5. NoneLeftRegistered' /\ LabelInv' /\ LabelsStay'
    BY <1>3 DEF ResolvePointer, NoneLeftRegistered, LabelInv, LabelsStay
  <2> QED BY <2>3, <2>4, <2>5
<1> QED BY <1>1, <1>2, <1>3 DEF DiagShimInit

\* A logger of the DIAG kind is made of a whole shim, and by the thread that
\* holds the mutex.
LEMMA MakeStep ==
  ASSUME LoggerInv, NEW t \in Threads, MakeLogger(t)
  PROVE  LoggerInv'
<1> USE LoggerAssumption DEF LoggerInv
<1>1. LoggerTypeOK' /\ MutexInv'
  BY DEF MakeLogger, LoggerStep, shimVars, LoggerTypeOK, MutexInv, InInit
<1>2. \A u \in Threads : pcL'[u] # "dlsym"
  BY DEF MakeLogger, LoggerStep, LoggerTypeOK, MutexInv, InInit
<1>3. ShimInv' /\ ShimIsStable'
  BY <1>2 DEF MakeLogger, LoggerStep, IsAvailable, IsDiagShimAvailable, shimVars,
              LoggerTypeOK, ShimInv, ShimIsStable
<1>4. logger[t] # "diag"
  BY DEF MakeLogger, LoggerStep, LoggerTypeOK, MutexInv, InInit
<1>5. NoneLeftRegistered' /\ LabelInv' /\ LabelsStay'
  BY <1>4 DEF MakeLogger, LoggerTypeOK, NoneLeftRegistered, LabelInv, LabelsStay
<1> QED BY <1>1, <1>3, <1>5

\* The logger is used and given up.
LEMMA UseStep ==
  ASSUME LoggerInv, NEW t \in Threads,
         (\E pointer \in PointerSet : Log(t, pointer)) \/ DestroyLogger(t)
  PROVE  LoggerInv'
<1> USE LoggerAssumption DEF LoggerInv
<1>1. NoLabel \in [suid : Suids \cup {Unknown}, type : Datatypes \cup {Unknown}]
  BY DEF NoLabel
<1>2. LoggerTypeOK' /\ MutexInv'
  <2>1. LoggerTypeOK'
    <3>1. registered' \subseteq Threads /\ logger' \in [Threads -> {"none", "null", "diag"}]
      BY DEF Log, DestroyLogger, LoggerTypeOK
    <3>2. label' \in [Threads -> [suid : Suids \cup {Unknown},
                                  type : Datatypes \cup {Unknown}]]
      BY <1>1 DEF Log, DestroyLogger, LoggerTypeOK
    <3>3. UNCHANGED <<sInitMutex, shimVars, pcL, sDtCache>>
      BY DEF Log, DestroyLogger
    <3> QED BY <3>1, <3>2, <3>3 DEF shimVars, LoggerTypeOK
  <2>2. MutexInv'
    BY DEF Log, DestroyLogger, LoggerTypeOK, MutexInv, InInit
  <2> QED BY <2>1, <2>2
<1>3. ShimInv' /\ ShimIsStable'
  BY DEF Log, DestroyLogger, shimVars, LoggerTypeOK, ShimInv, ShimIsStable
<1>4. NoneLeftRegistered'
  BY DEF Log, DestroyLogger, LoggerTypeOK, NoneLeftRegistered, ShimIsStable, PointerSet
<1>5. LabelInv' /\ LabelsStay'
  BY DEF Log, DestroyLogger, LoggerTypeOK, LabelInv, LabelsStay
<1> QED BY <1>2, <1>3, <1>4, <1>5

\* An entry of the table is made once and not changed.
LEMMA LabelStep ==
  ASSUME LoggerInv, NEW t \in Threads, NEW s \in Suids,
         getDataType(t, s) \/ \E type \in Datatypes : updateDataType(t, s, type)
  PROVE  LoggerInv'
<1> USE LoggerAssumption DEF LoggerInv
<1>1. /\ UNCHANGED <<sInitMutex, shimVars, pcL, logger, registered>>
      /\ MutexInv' /\ ShimInv' /\ ShimIsStable' /\ NoneLeftRegistered'
  BY DEF getDataType, updateDataType, shimVars, MutexInv, ShimInv, ShimIsStable,
         NoneLeftRegistered
<1>2. CASE getDataType(t, s)
  <2>1. /\ NoLabel \in [suid : Suids \cup {Unknown}, type : Datatypes \cup {Unknown}]
        /\ [suid |-> s, type |-> sDtCache[s]]
             \in [suid : Suids \cup {Unknown}, type : Datatypes \cup {Unknown}]
    BY DEF NoLabel, LoggerTypeOK
  <2>2. LoggerTypeOK'
    BY <1>1, <1>2, <2>1 DEF getDataType, shimVars, LoggerTypeOK
  <2>3. LabelInv' /\ LabelsStay'
    BY <1>2 DEF getDataType, LoggerTypeOK, LabelInv, LabelsStay
  <2> QED BY <1>1, <2>2, <2>3
<1>3. ASSUME NEW type \in Datatypes, updateDataType(t, s, type)
      PROVE  LoggerInv'
  <2>1. LoggerTypeOK'
    BY <1>1, <1>3 DEF updateDataType, shimVars, LoggerTypeOK
  <2>2. LabelInv' /\ LabelsStay'
    BY <1>3 DEF updateDataType, LoggerTypeOK, LabelInv, LabelsStay
  <2> QED BY <1>1, <2>1, <2>2
<1> QED BY <1>2, <1>3

LEMMA LoggerStepInv ==
  ASSUME LoggerInv, NEW t \in Threads, Logger(t)
  PROVE  LoggerInv'
<1>1. CASE LockInit(t) \/ CheckLibdiag(t)
  BY <1>1, LibdiagStep
<1>2. CASE DiagShimInit(t) \/ ResolvePointer(t)
  BY <1>2, ShimStep
<1>3. CASE MakeLogger(t)
  BY <1>3, MakeStep
<1>4. CASE (\E pointer \in PointerSet \ {"clear"} : Log(t, pointer)) \/ DestroyLogger(t)
  BY <1>4, UseStep
<1>5. CASE \/ \E s \in Suids : getDataType(t, s)
           \/ \E s \in Suids, type \in Datatypes : updateDataType(t, s, type)
  BY <1>5, LabelStep
<1> QED BY <1>1, <1>2, <1>3, <1>4, <1>5 DEF Logger

LEMMA LoggerUnchanged == LoggerInv /\ UNCHANGED loggerVars => LoggerInv'
  BY DEF LoggerInv, loggerVars, shimVars, LoggerTypeOK, MutexInv, ShimInv, ShimIsStable,
         NoneLeftRegistered, LabelInv, LabelsStay

--------------------------------------------------------------------------------
(* The two together.                                                       *)

\* A thread without a session has no logger and makes none; while it asks for
\* one it has none.
SessionInv == \A t \in Threads :
  /\ ~session[t] => logger[t] = "none" /\ pcL[t] = "idle"
  /\ pcF[t] # "idle" /\ op[t] = "getSession" => ~session[t]

IInv == FactoryInv /\ LoggerInv /\ SessionInv

LEMMA InitInv == Init => IInv
<1>1. Init => SessionInv
  BY DEF Init, FactoryInit, LoggerInit, SessionInv
<1> QED BY <1>1, FactoryInitInv, LoggerInitInv DEF Init, IInv

LEMMA UseFactoryStep ==
  ASSUME IInv, NEW t \in Threads, UseFactory(t)
  PROVE  IInv'
<1> USE DEF IInv
<1>1. FactoryInv' /\ LoggerInv'
  BY FactoryStepInv, LoggerUnchanged DEF UseFactory
<1>2. \A u \in Threads : session[u] => session'[u]
  BY DEF UseFactory, Factory, FactoryStep, TestLoaded, DlOpen, DlSym, CheckSymbols,
         Propagate, CallGetSession, CallGetSensingHubIds, ReturnFailure, FactoryInv,
         FactoryTypeOK, SessionInv
<1>3. \A u \in Threads : pcF'[u] # "idle" /\ op'[u] = "getSession" => ~session'[u]
  BY DEF UseFactory, Factory, FactoryStep, TestLoaded, DlOpen, DlSym, CheckSymbols,
         Propagate, CallGetSession, CallGetSensingHubIds, ReturnFailure, FactoryInv,
         FactoryTypeOK, SessionInv
<1>4. SessionInv'
  BY <1>2, <1>3 DEF UseFactory, loggerVars, SessionInv
<1> QED BY <1>1, <1>4

LEMMA UseLoggerStep ==
  ASSUME IInv, NEW t \in Threads, UseLogger(t)
  PROVE  IInv'
<1> USE DEF IInv
<1>1. FactoryInv' /\ LoggerInv'
  BY LoggerStepInv, FactoryUnchanged DEF UseLogger
<1>2. \A u \in Threads \ {t} : logger'[u] = logger[u] /\ pcL'[u] = pcL[u]
  BY DEF UseLogger, Logger, LoggerStep, LockInit, CheckLibdiag, DiagShimInit, SkipShim,
         OpenShim, ResolvePointer, MakeLogger, Log, DestroyLogger, getDataType,
         updateDataType, LoggerInv, LoggerTypeOK
<1>3. SessionInv'
  BY <1>2 DEF UseLogger, factoryVars, SessionInv
<1> QED BY <1>1, <1>3

LEMMA NextInv == IInv /\ [Next]_vars => IInv'
<1> SUFFICES ASSUME IInv, [Next]_vars PROVE IInv'
  OBVIOUS
<1>1. ASSUME NEW t \in Threads, UseFactory(t) PROVE IInv'
  BY <1>1, UseFactoryStep
<1>2. ASSUME NEW t \in Threads, UseLogger(t) PROVE IInv'
  BY <1>2, UseLoggerStep
<1>3. ASSUME NEW t \in Threads, EndSession(t) PROVE IInv'
  <2>1. FactoryInv' /\ LoggerInv'
    BY <1>3, FactoryStepInv, LoggerUnchanged DEF EndSession, IInv
  <2>2. SessionInv'
    BY <1>3 DEF EndSession, DeleteSession, loggerVars, IInv, FactoryInv, FactoryTypeOK,
                SessionInv
  <2> QED BY <2>1, <2>2 DEF IInv
<1>4. CASE UNCHANGED vars
  <2>1. UNCHANGED factoryVars /\ UNCHANGED loggerVars
    BY <1>4 DEF vars
  <2>2. SessionInv'
    BY <2>1 DEF factoryVars, loggerVars, SessionInv, IInv
  <2> QED BY <2>1, <2>2, FactoryUnchanged, LoggerUnchanged DEF IInv
<1> QED BY <1>1, <1>2, <1>3, <1>4 DEF Next

THEOREM Invariance == Spec => []IInv
<1> QED BY InitInv, NextInv, PTL DEF Spec

--------------------------------------------------------------------------------
(* The theorems.                                                           *)

\* The two components keep their types, loggers belong to sessions, and the
\* mutex is held by the thread in isAvailable (SensorsDiagLogger.cpp 45-66).
THEOREM TypeCorrect == Spec => []TypeOK
<1>1. IInv => TypeOK
  BY DEF IInv, FactoryInv, LoggerInv, MutexInv, SessionInv, TypeOK
<1> QED BY <1>1, Invariance, PTL

\* Unless threads raced for the first session, every call through a loaded
\* symbol finds it, in whatever order stores become visible
\* (SessionFactory.cpp 23-27, 40-43, 53-60).
THEOREM SymbolsResolved == Spec => []CallsResolved
<1>1. IInv => CallsResolved
  BY DEF IInv, FactoryInv
<1> QED BY <1>1, Invariance, PTL

\* The function pointers a logger reads without the lock are complete and no
\* longer written (SensorsDiagLogger.cpp 19, 34-36, 68-120).
THEOREM ShimStable == Spec => []ShimIsStable
<1>1. IInv => ShimIsStable
  BY DEF IInv, LoggerInv
<1> QED BY <1>1, Invariance, PTL

\* The shim forgets a session with its logger (SensorsDiagLogger.cpp 115-120).
THEOREM Unregistered == Spec => []NoneLeftRegistered
<1>1. IInv => NoneLeftRegistered
  BY DEF IInv, LoggerInv
<1> QED BY <1>1, Invariance, PTL

\* A pointer to a data type stays valid and right (LoggerFactory.cpp 39-60).
THEOREM DatatypesStay == Spec => []LabelsStay
<1>1. IInv => LabelsStay
  BY DEF IInv, LoggerInv
<1> QED BY <1>1, Invariance, PTL

\* No session goes without DIAG while another has it (SensorsDiagLogger.cpp
\* 50-65).
THEOREM DiagKept == Spec => NeverDowngraded
<1>1. IInv /\ [Next]_vars =>
        \A t \in Threads :
          logger[t] = "none" /\ logger'[t] = "null" => \A u \in Threads : logger[u] # "diag"
  <2> SUFFICES ASSUME IInv, [Next]_vars, NEW t \in Threads,
                      logger[t] = "none", logger'[t] = "null"
               PROVE  \A u \in Threads : logger[u] # "diag"
    OBVIOUS
  <2>1. \E u \in Threads : Logger(u)
    BY DEF Next, vars, UseFactory, UseLogger, EndSession, loggerVars
  <2>2. ~IsAvailable
    BY <2>1 DEF Logger, LockInit, CheckLibdiag, DiagShimInit, SkipShim, OpenShim,
                ResolvePointer, MakeLogger, Log, DestroyLogger, getDataType,
                updateDataType, IInv, LoggerInv, LoggerTypeOK
  <2> QED BY <2>2 DEF IsAvailable, IsDiagShimAvailable, IInv, LoggerInv, ShimInv, ShimIsStable
<1> QED BY <1>1, Invariance, PTL DEF Spec, NeverDowngraded
=============================================================================
