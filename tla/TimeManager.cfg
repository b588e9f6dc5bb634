SPECIFICATION HSpec
CONSTANTS
  t1 = t1
  t2 = t2
  NoTask = NoTask
  Tasks <- MCTasks
  Handled <- MCHandled
  NumDescs = 2
  Delays <- MCDelays
  MaxTime = 2
  MaxWakeup = 2
  Disciplined = TRUE
INVARIANTS TypeOK UniqueDesc OwnSchedule OncePerPass
PROPERTIES ImplementsTimers ExpiredIsServed
