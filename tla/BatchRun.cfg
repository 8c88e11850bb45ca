SPECIFICATION Spec
CONSTANTS
  f1 = f1  f2 = f2  f3 = f3  digest = digest
  before = before  after = after
  Nil = Nil  Outdated = Outdated  Empty = Empty
  File <- MCFile
  KeyOf <- MCKeyOf
  Schedule <- MCSchedule
  Settings <- MCSettings
  LaneCap = 2
  Measure <- MCMeasure
  Baseline = 1
  Budget = 4
  MaxSerial = 2
  MaxPending = 1
SYMMETRY SettingsSymmetry
INVARIANTS
  BatchIsAccountedFor
  ComputedOnce
  OneConfiguration
  
  SavedRunIsKept
