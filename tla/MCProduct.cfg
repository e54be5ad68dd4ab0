\* One job for two workers with every fault; people pause, resume and cancel.
CONSTANTS
  j1 = j1  j2 = j2
  w1 = w1  w2 = w2
  Jobs = {j1}
  Workers = {w1, w2}
  NoJob = NoJob
  NoWorker = NoWorker
  Limit = 1
  MaxAttempts = 2
  Faults = {"crash", "slow", "stage", "local"}
  FaultBudget = 2
  ControlBudget = 2
  \* Two goals, one run and one hand of the journeys' training.
  Goals = {"g1", "g2"}
  FoundPaths <- TwoPaths
  Capability <- OneCapability
  Wordings = {"w"}
  NoWords = "none"
  Hands = {"h1"}
  KeepVersions = 1
  MaxRuns = 1
  MaxActs = 2
  \* A shop's list and form, which change twice under one step or command.
  Pages <- Shop
  Catalog <- Known
  Actions <- Signed
  Commands <- Requested
  MinimumConfidence = 60
  MaxChanges = 2
  MaxSteps = 1
  \* The rows of two organizations, a product with two versions, two mapping jobs and two hosts.
  Orgs = {"o1", "o2"}
  ProductKeys = {"k"}
  RoleKeys = {"default", "admin"}
  Products = {"p1"}
  Versions = {"v1", "v2"}
  JobIds = {"first", "second"}
  WorkerIds = {"h1", "h2"}
  Sessions = {"s"}
  Grants = {"g"}
  Credentials = {"c"}
  SignalIds = {"x"}
  Events = {"e"}
  Plays = {"t"}
  Maps <- TwoMaps
  Null = "none"
  MaxCalls = 7
  MaxPending = 2
  MaxRevision = 2
SPECIFICATION AnySpec
VIEW OwnView
CHECK_DEADLOCK FALSE
INVARIANTS
  OutputBacksProgress
  WorkIsQueued
  LiveIsReviewed
  VerifiedReplays
  
  AcquiresTheSite
PROPERTIES
  DecisionsStand
  OneHandAtATime
  ImplementsStore
