\* Every message of up to three events, decoded by either callback.
CONSTANTS
  Suids = {"a", "b", "c", "d"}
  Datatypes = {"accel", "gyro", "mag"}
  AttrIds = {1, 2}
  Data = {"lsm6dst", "empty", "none", "52", "104", "range", "13"}
  Nothing = nothing
  Messages <- SomeMessages
SPECIFICATION Spec
INVARIANTS
  TypeOK
  SuidsOfWholeEvents
  AttributesHeardLast
  ResultTells
CHECK_DEADLOCK FALSE
