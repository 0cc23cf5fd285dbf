--------------------------- MODULE SessionLoading ---------------------------
(***************************************************************************)
(* A process that uses both libraries that are loaded at run time: its     *)
(* threads get sessions from a sessionFactory, and each session, whose     *)
(* implementation is that of the loaded library, has its logger from       *)
(* LoggerFactory and lets go of it before the client deletes the session.  *)
(***************************************************************************)
EXTENDS SessionLogger

vars == <<factoryVars, loggerVars>>

Init == FactoryInit /\ LoggerInit

UseFactory(t) == pcL[t] = "idle" /\ Factory(t) /\ UNCHANGED loggerVars
UseLogger(t) == session[t] /\ pcF[t] = "idle" /\ Logger(t) /\ UNCHANGED factoryVars
EndSession(t) ==
  /\ pcL[t] = "idle" /\ logger[t] = "none"
  /\ DeleteSession(t)
  /\ UNCHANGED loggerVars

Next == \E t \in Threads : UseFactory(t) \/ UseLogger(t) \/ EndSession(t)

Spec == Init /\ [][Next]_vars

\* Type correctness of the two components; loggers belong to sessions and the
\* thread that looks for the shim holds the mutex.
TypeOK ==
  /\ FactoryTypeOK
  /\ LoggerTypeOK
  /\ \A t \in Threads : ~session[t] => logger[t] = "none" /\ pcL[t] = "idle"
  /\ \A t \in Threads : pcL[t] \in InInit <=> sInitMutex = t

\* Once a session logs to DIAG, no session that is opened while it does goes
\* without: whether DIAG is there is not found out differently later
\* (SensorsDiagLogger.cpp 50-65, LoggerFactory.cpp 29-37).
NeverDowngraded ==
  [][\A t \in Threads :
       logger[t] = "none" /\ logger'[t] = "null" => \A u \in Threads : logger[u] # "diag"
    ]_vars
=============================================================================
