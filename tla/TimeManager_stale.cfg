SPECIFICATION HSpec
CONSTANTS
  t1 = t1
  t2 = t2
  NoTask = NoTask
  Tasks <- MCTasks
  Handled <- MCTasks
  NumDescs = 2
  Delays <- MCDelays
  MaxTime = 2
  MaxWakeup = 3
  Disciplined = FALSE
INVARIANTS OwnSchedule
