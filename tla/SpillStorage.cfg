SPECIFICATION StorageSpec
CONSTANTS
  Id = {p1, p2, p3, p4}
  MaxLength = 3
  FileLimit = 7
  MaxFailures = 1
  Worker = {w1, w2, w3}
  Nil = Nil
PROPERTIES
  ImplementsBackend
  SweepSparesBooting
  
CHECK_DEADLOCK FALSE
