SPECIFICATION Spec
CONSTANTS
  t1 = t1
  t2 = t2
  Tasks <- MCTasks
  Main = t1
  MaxObjects = 4
  Blocks = TRUE
  Preemptive = TRUE
  Raising = FALSE
INVARIANTS StepIndexesDense
