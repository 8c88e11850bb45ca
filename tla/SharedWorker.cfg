SPECIFICATION Spec
CONSTANTS
  Call = {c1, c2, c3}
  Key = {k1, k2}
  Nil = Nil
  MaxWorkers = 3
  MaxFaults = 1
  MaxBundles = 2
SYMMETRY SharedSymmetry
INVARIANTS
  NoWorkerLeaks
  
  NobodyIsStuck
CHECK_DEADLOCK FALSE
