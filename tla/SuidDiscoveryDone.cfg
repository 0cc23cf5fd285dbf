CONSTANTS
    accel0 = accel0
    accel1 = accel1
    Suids <- TwoSuids
    Messages <- SomeMessages
    MaxMessages = 3

SPECIFICATION Spec

INVARIANT
    DoneEndsLookup
