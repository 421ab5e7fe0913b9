SPECIFICATION Spec
CONSTANTS
  MaxInt64 = 7
  TopologyKeys <- MCTopologyKeys
  Clusters <- MCClusters
  JobSets <- MCJobSets
  PolicyNames <- MCPolicyNames
  CallerMayCancel = TRUE
PROPERTY
  ImplementsAllocator
INVARIANTS
  TypeOK
  ResourcesAccounted
  BlockedByFirst
  RefusedStaysUnfit
  FailsOnlyForCaller
  Replayable
