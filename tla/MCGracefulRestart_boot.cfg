CONSTANTS
  Tasks = {t1}
  NoTask = NoTask
  MaxMsg = 2
  MaxNotify = 1
  MaxTerm = 1
  MaxKill = 2
  MaxStop = 1
  Forced = TRUE
SPECIFICATION FairSpec
INVARIANTS FirstInstructionSurvives RegistryNamesTheRun
PROPERTIES CutRunsHealed SoleInstructionAnswered
CHECK_DEADLOCK FALSE
