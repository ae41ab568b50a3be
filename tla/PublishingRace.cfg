\* Two commands, none of which dies.
CONSTANTS
  p1 = p1
  p2 = p2
  None = None
  Publishers <- MCPublishers
  MaxAttempts = 2
  MaxCrashes = 0
SPECIFICATION Spec
CHECK_DEADLOCK FALSE
INVARIANT JournalIsAHistory
