SPECIFICATION FairSpec
CONSTANTS
  Plans <- MCOnePlan
  TransferWorkerTexts = {0}
  DeleteWorkerTexts = {1}
  MaxRuns = 2
  MaxPipelines = 1
PROPERTY
  RunEnds
