SPECIFICATION TabSpec
CONSTANTS
  c1 = c1
  c2 = c2
  Channels = {c1, c2}
  Stop <- MCStop
  HasWait <- MCHasWait
  First <- MCFirst
  Source <- MCSource
  Empty <- MCEmpty
  Shots = {"master"}
  ExecModes = {1}
  CompletionBuffer = 1
  QueryInterval = 2
  HardTimeout = 3
  MaxStop = 2
  LostRequests = {}
  LostAnswers = {}
  WorkerRestarts = FALSE
  EarlyUser = TRUE
INVARIANTS
  PanelInForce
