SPECIFICATION Spec
CONSTANTS
  Entry = {e1, e2}
  Addr = {a1, a2}
  RowAddr = {r1}
  Lease = {l1}
  Nil = Nil
  Budgets = {1, 3}
  ByteCharge = 2
  TableCharge = 1
  RowCharge = 1
  MaxArcs = 1
  MaxHandles = 2
  MaxFailures = 1
SYMMETRY PayloadSymmetry
INVARIANTS
  ChargesMatch
  OwnersAreKept
  OverBudgetIsPinned
  PayloadsReachable
  NoPoisonedEngineKept
PROPERTIES
  KeepsBackendContract
