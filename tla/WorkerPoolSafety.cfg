SPECIFICATION Spec
CONSTANTS
  s1 = s1  s2 = s2  t1 = t1  t2 = t2  t3 = t3  t4 = t4  in1 = in1  in2 = in2
  Slot <- MCSlot
  Input <- MCInput
  WorkerBaseline = 1
  NoInput = NoInput  NoSlot = NoSlot  NoBudget = NoBudget
  Task <- FourTasks
  InputOf <- FourInputs
  MaxTasksPerWorker = 2
  WasmSizes <- MCWasmSizes
  Budgets <- MCBudgets
  DisposeOnFault = {FALSE}
  SpawnMayThrow = FALSE
  TerminateMayThrow = FALSE
INVARIANTS SlotAccounting WaitersWillBeServed RetainedMemoryBound
PROPERTIES ImplementsQueue NoOvertaking RejectedOnlyWhenHopeless
SYMMETRY SlotSymmetry
CHECK_DEADLOCK FALSE
