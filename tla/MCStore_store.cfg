SPECIFICATION MCSpec
CONSTANTS
  c1 = c1
  c2 = c2
  Clients <- MCClients
  Ports <- MCPorts
  Events <- MCEvents
  Criteria = {"p", "q"}
  Harnesses = {"h1"}
  LiteHarnesses = {"h1", "h2"}
  Roots = {"r1", "r2"}
  Accounts = {"a1", "a2"}
  HasRootIndex = TRUE
  AgentIDBase = 3
  MessageIDBase = 5
  DefaultTurnPageLimit = 2
  MaxTurnPageLimit = 3
  MaxRows = 2
  MaxTurns = 1
  LiteTurns = 2
  MaxStream = 3
  LiteStream = 1
  MaxFaults = 1
  MaxLost = 1
  llmEventFlushSize = 2
INVARIANTS ReplyIsLast OneOwner PollMissesNothing
PROPERTIES ImplementsStore
SYMMETRY MCSym
CHECK_DEADLOCK FALSE
