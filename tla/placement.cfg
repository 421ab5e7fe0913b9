SPECIFICATION Spec
CONSTANTS
  MaxInt64 = 9
  TopologyKeys <- MCTopologyKeys
  NodeStates <- MCNodeStates
  Jobs <- MCJobs
INVARIANTS
  PlacedIffFeasible
  PackingIsSoundAndCompact
  BestFitDomain
  OneOutcome
  ReasonIsExact
  RollbackRestores
