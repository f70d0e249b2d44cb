SPECIFICATION Spec
CONSTANTS
  t1 = t1
  t2 = t2
  Tasks <- MCTasks
  Main = t1
  MaxObjects = 4
  Blocks = FALSE
  Preemptive = FALSE
  Raising = TRUE
INVARIANTS HandlesKeepApart
