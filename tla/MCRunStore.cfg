\* RunStore called by two processes in any order, one of which may die.
CONSTANTS
  p1 = p1
  p2 = p2
  w1 = w1
  d1 = d1
  d2 = d2
  None = None
  Procs <- MCProcs
  Pids <- MCPids
  Digests <- MCDigests
  Variants <- MCVariants
  MaxEvents = 8
  MaxReports = 1
  MaxCrashes = 1
SPECIFICATION Spec
SYMMETRY Symmetry
CHECK_DEADLOCK FALSE
INVARIANTS
  JournalIsLegal
  ReaderNeverAhead
  AnnouncedFilesExist
  CancelNeverRejoins
  Inv
PROPERTIES
  HistoryOnlyGrows
  LifecycleSpec
