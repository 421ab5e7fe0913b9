SPECIFICATION Spec
CONSTANTS
  MaxInt64 = 7
  TopologyKeys <- MCTopologyKeys
  Clusters <- EdgeClusters
  Workloads <- EdgeWorkloads
  PolicyNames <- EdgePolicyNames
  CallerMayCancel = FALSE
INVARIANTS
  TypeOK
  ArithmeticInRange
  OverflowIsReal
