SPECIFICATION FairSpec
CONSTANTS
  MaxInt64 = 9
  TopologyKeys <- MCTopologyKeys
  Clusters <- MCClusters
  JobSets <- MCJobSets
INVARIANTS
  AnswersForBoth
  BackfillDominates
PROPERTY
  ImplementsAtomic
