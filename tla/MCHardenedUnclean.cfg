CONSTANTS
  Texts <- PipelineTexts
  MaxDepth = 2
  Empty <- EmptyText
  Claims <- PipelineClaims
  Installations <- KernelSets
  MaxUpdates = 1
SPECIFICATION HardenedSpec
INVARIANT FormalMeansClean
CHECK_DEADLOCK FALSE
