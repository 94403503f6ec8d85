SPECIFICATION FairSpec
CONSTANTS
  a = a
  b = b
  World = World
  None = None
  Names <- MCNames
  Plans <- MCPlans
  Contracts <- MCContracts
  Requests <- MCRequests
  Types <- MCTypes
  RequirePlanApproval = TRUE
  MaxSteps = 2
  MaxRuns = 2
  MaxStops = 1
  MaxFaults = 1
INVARIANTS NothingRunsUnapproved ResultsInOrder CompletedIsVerified 
PROPERTIES StopEndsRun
CHECK_DEADLOCK FALSE
