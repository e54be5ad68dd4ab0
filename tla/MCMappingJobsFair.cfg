\* One job for two workers with every fault, under fairness.
CONSTANTS
  j1 = j1  j2 = j2
  w1 = w1  w2 = w2
  Jobs = {j1}
  Workers = {w1, w2}
  NoJob = NoJob
  NoWorker = NoWorker
  Limit = 1
  MaxAttempts = 2
  Faults = {"crash", "slow", "stage", "local"}
  FaultBudget = 2
  ControlBudget = 1
SPECIFICATION FairSpec
CHECK_DEADLOCK FALSE
PROPERTIES
  JobsSettle
  EndedJobsLetGo
