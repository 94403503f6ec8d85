SPECIFICATION MCSpec
CONSTANTS
  EnvRepo = "own"
  Credential = "app"
  BaseBranch = ""
  DefaultBranch = "trunk"
  trailMaxChanges = 2
  Answers <- MCAnswers
  Payloads <- MCPayloads
  AgentAnswers <- MCAgentAnswers
  Agents = {TRUE, FALSE}
  MaxCycles = 3
  MaxPulls = 1
  MaxPipes = 2
  MaxMoves = 1
  MaxFaults = 1
  None = None
  b1 = b1
  b2 = b2
  p1 = p1
  p2 = p2
  o1 = o1
  o2 = o2
  t1 = t1
  t2 = t2
  Builds <- MCBuilds
  Refs <- MCRefs
  Projects <- MCProjects
  Orgs <- MCOrgs
  ProjectLists <- MCProjectLists
  Tasks <- MCTasks
  Containers = {p1}
  Serving = {o2}
  CatalogueId <- MCCatalogueId
  StoreTask <- MCStoreTask
  RegistryTasks <- MCRegistryTasks
  TTL = 2
  FailureTTL = 1
  MaxBuilds = 2
  MaxClock = 3
  MaxEdits = 1
  MaxMisses = 1
  NoValue = NoValue
INVARIANTS BoundIsReported OneWorld
PROPERTIES CompletedHolds
SYMMETRY MCSym
