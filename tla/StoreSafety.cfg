SPECIFICATION Spec
CONSTANTS
  c1 = c1  c2 = c2  r1 = r1  r2 = r2  r3 = r3  r4 = r4  q2 = q2  f = f  x = x  y = y
  NoRoot = NoRoot  NoSlot = NoSlot  Torn = Torn  None = None
  Artifact <- MCArtifact
  Root <- MCRoot  Prev <- MCPrev  Arts <- MCArts  Foreign <- MCForeign  Archive <- MCArchive
  Client <- MCClient
  MaxHistory = 3
  MaxDamage = 2
  ErasureMayStop = FALSE
  Wipes = FALSE
INVARIANTS VisibleHistoryIsReadable SaveIsDurable FallbackSurvives
PROPERTIES RunIsNotBlocked ImplementsDurableHead
SYMMETRY ClientSymmetry
