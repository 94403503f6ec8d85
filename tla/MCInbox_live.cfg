CONSTANTS
  Agents = {planner, worker}
  Workers = {worker}
  NoAgent = NoAgent
  Procs = {g1, g2, g3}
  UserKinds = {"instruction"}
  UserWaits = {TRUE}
  MaxMsg = 3
  MaxDrain = 0
  MaxCrash = 0
  MaxFault = 0
  MaxCancel = 0
  DrainExpires = TRUE
SPECIFICATION FairSpec
INVARIANTS NoMessageUnattended
PROPERTIES EveryMessageEnds EveryCallerReturns
CHECK_DEADLOCK FALSE
