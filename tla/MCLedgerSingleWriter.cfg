CONSTANTS
  Writers = {w1}
  Readers = {}
  Bodies = {b1, b2}
  MaxCalls = 5
  MaxFailures = 2
SPECIFICATION FairLedgerSpec
INVARIANTS
  ReceiptsStayIndexed
  OnlyFailuresWreck
PROPERTIES
  ImplementsAppendOnlyLog
  TruncationIsTransient
CHECK_DEADLOCK FALSE
