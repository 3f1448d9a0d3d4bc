SPECIFICATION MCSpec
CONSTANTS
  w1 = w1
  w2 = w2
  w3 = w3
  c1 = c1
  c2 = c2
  t1 = t1
  t2 = t2
  t3 = t3
  NoTask = NoTask
  Workers <- MCWorkers2
  Clients <- MCClients1
  Tasks <- MCTasks
  PoolSize = 1
  SchedulerSize = 1
  Sizes <- MCSizes
  Word = 8
  Timeouts <- MCTimeouts
  Usages = {"any"}
INVARIANTS JoinWaitsForTasks
CHECK_DEADLOCK FALSE
