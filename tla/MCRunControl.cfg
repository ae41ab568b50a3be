\* Two starts of one draft, their workers and a cancellation; one fault.
CONSTANTS
  s1 = s1
  s2 = s2
  w1 = w1
  w2 = w2
  c1 = c1
  None = None
  Starters <- MCStarters
  Pids <- MCPids
  Digests <- MCPids
  Cancellers <- MCCancellers
  Executors = {"fake", "sequential", "parallel"}
  Variants <- MCVariants
  MaxFaults = 1
SPECIFICATION Spec
SYMMETRY StarterSymmetry
CHECK_DEADLOCK FALSE
INVARIANTS
  TypeOK
  CompletedNamesItsReport
  StartRecordHolds
  WorkerExitEndsTheRun
