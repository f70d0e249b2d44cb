SPECIFICATION Spec
CONSTANTS
  t1 = t1
  t2 = t2
  Tasks <- MCTasks
  Main = t1
  MaxObjects = 5
  Blocks = TRUE
  Preemptive = FALSE
  Raising = FALSE
INVARIANTS TypeOK ContextFollowsBlocks CollectedByItsRun StepRecordedInItsRun StepIndexesDense EndedWasEmitted TraceHoldsItsSpans NothingLeftBehind
