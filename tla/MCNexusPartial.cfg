CONSTANTS
  Runners = {p1}
  Texts <- PartlyAccepted
  Suffixes = {"lean"}
  Installs = {i1}
  MaxRuns = 1
  MaxCrashes = 0
SPECIFICATION NexusSpec
INVARIANT VerifiedMeansAccepted
CHECK_DEADLOCK FALSE
