SPECIFICATION FairSpec
CONSTANTS
  SimulationErrors = {"finish tick overflow", "total delay overflow"}
INVARIANT
  NoGoroutineLeft
PROPERTY
  ImplementsAtomic
