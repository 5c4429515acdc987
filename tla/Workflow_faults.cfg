SPECIFICATION FairSpec
CONSTANTS
  w1 = w1  w2 = w2  c1 = c1  c2 = c2  e1 = e1  e2 = e2
  NoExecution = NoExecution
  Executions = {e1}
  NumSteps = 2
  Workers = {w1, w2}
  Callers = {c1}
  MaxWaiting = 1
  MaxCrashes = 1
  MaxStalled = 1
  CanFail = TRUE
INVARIANTS RunInv CompletedMeansDone OneRunner CancelledNeverStarts RowsAreClosed NeverForgotten
PROPERTIES EveryRunEnds
CHECK_DEADLOCK FALSE
