SPECIFICATION EventLoopSpec
CONSTANTS
  s1 = s1  s2 = s2  t1 = t1  t2 = t2  t3 = t3  t4 = t4  in1 = in1  in2 = in2
  Slot <- MCSlot
  Input <- MCInput
  WorkerBaseline = 1
  NoInput = NoInput  NoSlot = NoSlot  NoBudget = NoBudget
  Task <- ThreeTasks
  InputOf <- ThreeInputs
  MaxTasksPerWorker = 1
  WasmSizes <- MCWasmSizes
  Budgets <- MCBudgets
  DisposeOnFault = {TRUE, FALSE}
  SpawnMayThrow = TRUE
  TerminateMayThrow = TRUE
PROPERTIES EverySubmissionSettles CancelUnwinds
CHECK_DEADLOCK FALSE
