\* Lines of two pieces and a separator; two interruptions and one loss of power.
CONSTANTS
  Writers = {w1, w2}
  Size = 2
  MaxEvents = 3
  MaxFailures = 2
  MaxLosses = 1
  None = None
SPECIFICATION Spec
INVARIANTS TypeOK AcknowledgedIsKept DamageIsTheLastLine RefusedForACause
CHECK_DEADLOCK FALSE
