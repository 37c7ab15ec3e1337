CONSTANTS
  Texts <- Unanswered
  Backends <- Isabelle
  Packages = {v1}
  MaxFindings = 2
  MaxEdits = 0
  MaxUpdates = 0
SPECIFICATION EngineSpec
INVARIANT VerifiedMeansChecked
CHECK_DEADLOCK FALSE
