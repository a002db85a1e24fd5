SPECIFICATION Spec
CONSTANTS
  Channels = {c0, c1}
  Times <- SomeTimes
  Widths = {0, 4}
  Tick = 4
  EndPulse = 8
  RepModulus = 4
  CountModulus = 5
  MaxCalls = 3
SYMMETRY Symmetry
INVARIANTS
  TypeOK
  PlaysWaveform
  PulsesPlayed
PROPERTY
  LedsCoverProgram
CHECK_DEADLOCK FALSE
