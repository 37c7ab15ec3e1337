CONSTANTS
  Runners = {p1}
  Texts <- Texts3
  Suffixes = {"lean", "dafny", "prose", "python"}
  Installs = {i1, i2}
  MaxRuns = 2
  MaxCrashes = 1
SPECIFICATION NexusSpec
INVARIANT VerifiedIsEarned
PROPERTY DivergenceIsRecorded
CHECK_DEADLOCK FALSE
