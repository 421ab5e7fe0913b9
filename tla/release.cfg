SPECIFICATION Spec
CONSTANTS
  MaxInt64 = 5
  TopologyKeys <- MCTopologyKeys
  NodeStates <- MCNodeStates
  ReleasedJobs <- MCReleasedJobs
  Allocations <- MCAllocations
INVARIANT
  AgreesWithRelease
