SPECIFICATION Spec
CONSTANTS
  c1 = c1
  c2 = c2
  Channels <- MCChannels
  Shots = {"master", "slave"}
  Stop <- MCStop
  HasWait <- MCHasWait
  First <- MCFirst
  Source <- MCSource
  Empty <- MCEmpty
  ExecModes = {0, 1}
  CompletionBuffer = 1
  QueryInterval = 2
  HardTimeout = 3
  MaxStop = 2
  LostRequests = {"ABT", "ADM", "READ", "MAN"}
  LostAnswers = {"MAN"}
  WorkerRestarts = TRUE
INVARIANTS
  StreamKeepsOtherChannels
  NothingPlaysBeforeStartRun
  RunsTheShot
  RepetitionApplied
