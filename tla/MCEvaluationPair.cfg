\* The released graces in ticks of ten seconds; one fault.
CONSTANTS
  Schedules = {"parallel", "sequential"}
  WorkerGrace = 3
  SupervisorGrace = 2
  MaxFaults = 1
  None = None
SPECIFICATION Spec
CHECK_DEADLOCK FALSE
INVARIANTS
  TypeOK
  NoEvaluationOutlivesItsSupervisor
  FailedPairIsStopped
PROPERTIES
  EvaluationsDieWithTheWorker
  AskedToStopEnds
