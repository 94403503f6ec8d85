CONSTANTS
  Agents = {planner, worker}
  Workers = {worker}
  NoAgent = NoAgent
  Procs = {g1, g2, g3}
  UserKinds = {"instruction"}
  UserWaits = {TRUE}
  MaxMsg = 2
  MaxDrain = 1
  MaxCrash = 1
  MaxFault = 0
  MaxCancel = 1
  DrainExpires = TRUE
SPECIFICATION Spec
SYMMETRY ProcSymmetry
INVARIANTS InOrder HeldIsOwed AnsweredAfterTheEnd WaiterNotStranded
PROPERTIES ImplementsQueue
CHECK_DEADLOCK FALSE
