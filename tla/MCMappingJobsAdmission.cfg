\* Checks AdmissionLimit.
CONSTANTS
  j1 = j1  j2 = j2
  w1 = w1  w2 = w2
  Jobs = {j1, j2}
  Workers = {w1, w2}
  NoJob = NoJob
  NoWorker = NoWorker
  Limit = 1
  MaxAttempts = 2
  Faults = {}
  FaultBudget = 0
  ControlBudget = 0
SPECIFICATION Spec
CHECK_DEADLOCK FALSE
INVARIANT AdmissionLimit
