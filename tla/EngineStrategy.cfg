SPECIFICATION Spec
CONSTANTS
  Watches <- MCStrategyWatches
  MaxFaults <- MCFaults
INVARIANTS
  RestoredRowsFitStrategy
