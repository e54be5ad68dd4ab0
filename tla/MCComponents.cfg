SPECIFICATION AnySpec
CONSTANTS
  \* WorkflowExecutor
  Workflows <- Ws
  MaxSteps = 6
  MaxLoop = 2
  MaxRisk = 2
  ConfirmAt = 2
  \* CatalogContract
  Envelopes <- Envs
  Sources <- Srcs
  Pins <- TwoPins
  TrustKeys = {"k1"}
  LocalMaxRisk = 3
  MaxOpens = 2
  MaxNow = 1
  \* CatalogPublication
  Versions = {1, 2}
  Journeys = {"j"}
  Contents = {1, 2}
  Workers = {"w1"}
  Admins = {"a1", "a2"}
  MaxReviews = 3
  \* HostedTurns
  Turns = {1, 2}
  Batches <- SomeBatches
  FlowSteps = 1
  MaxRounds = 1
  MaxLines = 1
  MaxBarges = 1
  \* Continuity
  Tabs = {1, 2}
  Procs = {1, 2}
  Origins = {"here", "far"}
  JourneyTurns = {1}
  NavTurns = {2}
  MaxActs = 3
  \* TurnAuthority
  Screens = {"home", "list", "item", "deep", "far", "end"}
  ControlIds = {"toList", "toItem", "toDeep", "toFar", "toEnd", "up"}
  JourneyIds = {"tour", "order", "draft", "byhand"}
  Roles = {"member", "guest"}
  Catalogs <- Sites
  Replies <- PlanReplies
  Views <- SomeViews
  Proposals <- SomeProposals
  MaxEdges = 4
  MaxIterations = 3
  Nowhere = "nowhere"
CHECK_DEADLOCK FALSE
INVARIANTS EffectsAreSanctioned StopIsHeard AcceptedRuns ServedIsReviewed CutOffTurnsActOnce RequestsAreWhole ReleasedIsAuthorised
PROPERTY TurnsChangeHandsCleanly
