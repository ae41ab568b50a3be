\* Without faults, under the parallel plan.
CONSTANTS
  s1 = s1
  s2 = s2
  w1 = w1
  w2 = w2
  c1 = c1
  None = None
  Starters <- MCStarters
  Pids <- MCPids
  Digests <- MCPids
  Cancellers <- MCCancellers
  Executors = {"parallel"}
  Variants <- MCVariants
  MaxFaults = 0
SPECIFICATION Spec
CHECK_DEADLOCK FALSE
PROPERTIES
  WorkerEndsTheRun
