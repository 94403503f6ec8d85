SPECIFICATION MCSpec
CONSTANTS
  MaxSends = 2
  MaxEvents = 2
  MaxRuns = 4
  Idle = 1
  Harnesses = {"cline", "codex"}
INVARIANTS OwnEvents NothingLeftActive
PROPERTIES TurnAndRunEnd
CHECK_DEADLOCK FALSE
