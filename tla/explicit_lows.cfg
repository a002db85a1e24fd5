SPECIFICATION Spec
CONSTANTS
  Channels = {c0, c1}
  Times <- SomeTimes
  Widths = {0, 4}
  Tick = 4
  EndPulse = 8
  RepModulus = 4
  CountModulus = 5
  MaxCalls = 2
INVARIANT
  ExplicitLowsUnchanged
CHECK_DEADLOCK FALSE
