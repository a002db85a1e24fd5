SPECIFICATION Spec
CHECK_DEADLOCK FALSE
CONSTANTS
  RowCounts = {1, 127, 128, 129, 511, 512, 33000, 65535}
  WordBytes = 8
  PacketBytes = 1022
  CountModulus = 65536
  SeqModulus = 256
  Retry = 3
INVARIANTS
  TypeOK
  StreamIsWhole
PROPERTIES
  NumbersTellPacketsApart
