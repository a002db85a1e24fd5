SPECIFICATION Spec
CONSTANTS
  Outputs = {o1, o2}
  NoOutput = NoOutput
  Connections <- SomeConnections
  NoConnection = NoConnection
  ChannelCount = 2
  RepModulus = 4
  MaxInstructions = 4
  Times = {0, 2, 3, 4, 6, 8}
  MaxChanges = 5
SYMMETRY Symmetry
INVARIANTS
  TypeOK
  PlaysOutputs
  PausesAtWaits
  MetadataAgree
  PanelStartsRight
  TracesShowOutputs
CHECK_DEADLOCK FALSE
