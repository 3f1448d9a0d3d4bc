SPECIFICATION MCSpec
CONSTANTS
  w1 = w1
  w2 = w2
  w3 = w3
  c1 = c1
  c2 = c2
  t1 = t1
  t2 = t2
  t3 = t3
  NoTask = NoTask
  Workers <- MCWorkers3
  Clients <- MCClients2
  Tasks <- MCTasks3
  PoolSize = 1
  SchedulerSize = 2
  Sizes <- MCSizes
  Word = 8
  Timeouts <- MCTimeouts
  Usages = {"any", "stopping"}
SYMMETRY MCSymmetry
INVARIANTS WorkerAccounting AwakeWorkerPerTask
PROPERTIES ImplementsFifo StoppingLeavesNoThread
CHECK_DEADLOCK FALSE
