CONSTANTS
    accel0 = accel0
    accel1 = accel1
    Suids <- TwoSuids
    SuidSensor = suidSensor
    NoSuid = noSuid
    Messages <- SomeMessages
    MaxMessages = 3

SPECIFICATION Spec

INVARIANT
    CloseMeetsNoCallback

CHECK_DEADLOCK FALSE
