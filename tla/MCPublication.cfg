\* Four commands by two processes; processes may die twice.
CONSTANTS
  p1 = p1
  p2 = p2
  None = None
  Publishers <- MCPublishers
  MaxAttempts = 4
  MaxCrashes = 2
SPECIFICATION Spec
SYMMETRY Symmetry
CHECK_DEADLOCK FALSE
INVARIANTS
  TypeOK
  PublishedIsFiled
  LoneRetryConverges
PROPERTIES
  LonePublishedIsFinal
