SPECIFICATION MCSpec
CONSTANTS
  q1 = q1
  q2 = q2
  l1 = l1
  l2 = l2
  Accounts <- MCAccounts
  NoAccount = 0
  Dirs <- MCDirs
  NoDir = "none"
  MaxConvs = 2
  Requests <- MCRequests
  Loans <- MCLoans
  MaxAgents = 3
  Nameable = {1}
  Editable = {1}
  Deployed = {"cline", "codex"}
  OneShot = {FALSE}
  MaxFaults = 1
  MaxInit = 1
  Workspaces = {"w1", "w2"}
  Calls <- MCCalls
  MaxIterations = 2
  ShellIdle = 1
  MaxTurns = 2
  MaxAsides = 1
SYMMETRY MCSym
INVARIANTS FrameBeforeWords SpokenOnItsLoan DiskIsMemory
PROPERTIES PairingKept
CHECK_DEADLOCK FALSE
