\* Two threads, one sensor that is given two data types; libraries that are
\* missing, whole or without some of their symbols.
CONSTANTS
  Threads = {t1, t2}
  NoThread = noThread
  Suids = {accel}
  Datatypes = {typeA, typeB}
  Unknown = unknown
SPECIFICATION Spec
INVARIANTS
  TypeOK
  CallsResolved
  ShimIsStable
  NoneLeftRegistered
  LabelsStay
PROPERTY
  NeverDowngraded
SYMMETRY ThreadSymmetry
CHECK_DEADLOCK FALSE
