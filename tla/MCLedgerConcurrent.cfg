CONSTANTS
  Writers = {w1, w2}
  Readers = {r1}
  Bodies = {b1, b2}
  MaxCalls = 4
  MaxFailures = 2
SPECIFICATION LedgerSpec
SYMMETRY LedgerSymmetry
INVARIANTS
  ReadableIndexVerifies
  NoFalseAlarm
  ReceiptsKeepTheirFiles
PROPERTIES
  CompleteFilesAreKept
  WreckedForever
CHECK_DEADLOCK FALSE
