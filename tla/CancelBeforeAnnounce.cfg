\* One start, one worker, one cancellation, no fault.
CONSTANTS
  s1 = s1
  s2 = s2
  w1 = w1
  w2 = w2
  c1 = c1
  None = None
  Starters <- MCOneStarter
  Pids <- MCOnePid
  Digests <- MCOnePid
  Cancellers <- MCCancellers
  Executors = {"fake", "sequential", "parallel"}
  Variants <- MCVariants
  MaxFaults = 0
SPECIFICATION Spec
CHECK_DEADLOCK FALSE
INVARIANT EveryExitIsTerminal
