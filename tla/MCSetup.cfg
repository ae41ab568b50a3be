\* Three commands on every host; one killed, one fault.
CONSTANTS
  c1 = c1
  c2 = c2
  c3 = c3
  None = None
  Commands <- MCCommands
  Machines <- MCMachines
  Campaigns <- MCCampaigns
  MaxCrashes = 1
  MaxFaults = 1
SPECIFICATION Spec
SYMMETRY CommandSymmetry
CHECK_DEADLOCK FALSE
INVARIANTS
  TypeOK
  EngineIsWholeOrAnnounced
  ReadyStaysReady
  ReceiptsStayVerifiable
  DoctorSpeaksForTheWorker
