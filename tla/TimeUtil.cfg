\* Two threads; the clock is set forward and back; a measurement that a tick
\* interrupts is repeated once, a refresh is due after two.
CONSTANTS
  Threads = {t1, t2}
  Skews <- SkewValues
  OFFSET_UPDATE_SCHEDULE_NS = 2
  QTIMER_GAP_THRESHOLD_NS = 0
  QTIMER_GAP_MAX_ITERATION = 2
  Boot = 1
  MaxInitGap = 1
  Ages = {0,1}
  MaxTime = 3
SPECIFICATION Spec
INVARIANTS
  TypeOK
  NeverEarly
  Settled
SYMMETRY ThreadSymmetry
CHECK_DEADLOCK FALSE
