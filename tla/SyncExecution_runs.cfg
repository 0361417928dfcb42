SPECIFICATION Spec
CONSTANTS
  Plans <- MCPlans
  TransferWorkerTexts = {0, 1}
  DeleteWorkerTexts = {1}
  MaxRuns = 2
  MaxPipelines = 1
INVARIANTS
  TypeOK
  NoStall
  CountersExact
PROPERTIES
  WorkerLimit
  KeepsPromises
