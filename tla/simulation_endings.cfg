SPECIFICATION FairSpec
CONSTANTS
  MaxInt64 = 12
  TopologyKeys <- MCTopologyKeys
  Clusters <- EndingClusters
  Workloads <- EndingWorkloads
  PolicyNames <- BothPolicies
  CallerMayCancel = TRUE
PROPERTIES
  Termination
  CancellationHonoured
