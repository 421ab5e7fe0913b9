SPECIFICATION Spec
CONSTANTS
  MaxInt64 = 3
  TopologyKeys <- MCTopologyKeys
  Null = Null
  Absent = Absent
  NoPath = NoPath
  Invocations <- MCInvocations
INVARIANTS
  OutputMatchesExit
  NoWorkloadMistaken
