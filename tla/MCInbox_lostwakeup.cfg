CONSTANTS
  Agents = {planner}
  Workers = {}
  NoAgent = NoAgent
  Procs = {g1, g2, g3}
  UserKinds = {"instruction", "stop"}
  UserWaits = {TRUE, FALSE}
  MaxMsg = 2
  MaxDrain = 1
  MaxCrash = 0
  MaxFault = 0
  MaxCancel = 0
  DrainExpires = TRUE
SPECIFICATION Spec
SYMMETRY ProcSymmetry
INVARIANTS NoMessageUnattended
CHECK_DEADLOCK FALSE
