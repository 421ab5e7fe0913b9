SPECIFICATION Spec
CONSTANTS
  MaxInt64 = 20
  TopologyKeys <- MCTopologyKeys
  Clusters <- PolicyClusters
  Workloads <- PolicyWorkloads
  PolicyNames <- BothPolicies
  CallerMayCancel = FALSE
INVARIANTS
  ResourceConservation
  NoEventMissed
  JobsPartitioned
  QueueInArrivalOrder
  NoInternalError
  QueueQuiescent
  StrictAdmitsInArrivalOrder
  TimelineOrdered
  ReportedTimelineRespectsCapacity
  ReportedMetrics
  LeftoversExplained
  GangPlacement
PROPERTIES
  LifecycleFrozen
  ImplementsAllocator
