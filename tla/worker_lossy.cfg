SPECIFICATION Spec
CONSTANTS
  c1 = c1
  c2 = c2
  Channels <- MCChannels
  Shots = {"master", "slave", "empty"}
  Stop <- MCStop
  HasWait <- MCHasWait
  First <- MCFirst
  Source <- MCSource
  Empty <- MCEmpty
  ExecModes = {0, 1}
  CompletionBuffer = 1
  QueryInterval = 2
  HardTimeout = 3
  MaxStop = 2
  LostRequests <- MCAllButStart
  LostAnswers <- MCAllButStartAndMan
  WorkerRestarts = FALSE
INVARIANTS
  TypeOK
  ManualLevelsMatch
  StreamKeepsOtherChannels
  NothingPlaysBeforeStartRun
  RunsTheShot
  ManualModeMasksProgram
PROPERTIES
  DoneMeansPlayed
