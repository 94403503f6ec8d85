CONSTANTS
  Agents = {planner}
  Workers = {}
  NoAgent = NoAgent
  Procs = {g1, g2, g3}
  UserKinds = {"instruction", "stop"}
  UserWaits = {FALSE}
  MaxMsg = 2
  MaxDrain = 1
  MaxCrash = 1
  MaxFault = 2
  MaxCancel = 0
  DrainExpires = TRUE
SPECIFICATION Spec
SYMMETRY ProcSymmetry
INVARIANTS OneConsumer ClaimedOnce
CHECK_DEADLOCK FALSE
