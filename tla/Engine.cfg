SPECIFICATION Spec
CONSTANTS
  Watches <- MCWatches
  MaxFaults <- MCFaults
INVARIANTS
  AnswersAreFresh
  
  
  OwnBasesSuffice
