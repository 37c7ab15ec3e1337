CONSTANTS
  Texts <- AuditTexts
  Backends <- AuditBackends
  Packages = {v1, v2}
  MaxFindings = 2
  MaxEdits = 2
  MaxUpdates = 2
SPECIFICATION EngineSpec
INVARIANTS
  PreflightIsMonotone
  OneEditIsCaught
  OneUpdateIsCaught
  AlarmsAreReal
  StricterAttestsLess
CHECK_DEADLOCK FALSE
