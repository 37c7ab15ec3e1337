CONSTANTS
  Writers = {w1, w2}
  Readers = {}
  Bodies = {b1}
  MaxCalls = 2
  MaxFailures = 0
SPECIFICATION LedgerSpec
INVARIANT ReceiptsStayIndexed
CHECK_DEADLOCK FALSE
