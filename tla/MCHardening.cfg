CONSTANTS
  Texts <- PipelineTexts
  MaxDepth = 2
  Empty <- EmptyText
  Claims <- PipelineClaims
  Installations <- KernelSets
  MaxUpdates = 1
  Files <- Paths
  Entry = "<entry>"
  Names <- FourNames
  DotsOnly <- Dots
  Candidates <- CandidatePaths
  Contents <- PathContents
  max_files = 4
  MaxEdits = 1
SPECIFICATION HardeningSpec
INVARIANTS
  FormalHasKernel
  ConsensusInventsNothing
  PassedEveryGate
  GatesJudgeOneText
  RepairIsZoned
  EnginesAgree
  NothingLeftOut
  FailsClosed
PROPERTIES
  EveryTurnCounts
  ScanEnds
CHECK_DEADLOCK FALSE
