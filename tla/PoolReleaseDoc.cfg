SPECIFICATION MCSpec
CONSTANTS
  c1 = c1
  c2 = c2
  c3 = c3
  c4 = c4
  r1 = r1
  r2 = r2
  r3 = r3
  t1 = t1
  t2 = t2
  t3 = t3
  NoRec = NoRec
  Clients <- MCClients3
  Recs <- MCRecs
  StartSize = 0
  MaxSize = 3
  Reservers = {ca, cb, cc}
  ItemIds = {i1, i2, i3}
  NoObject = NoObject
  initial_pool_size = 1
  max_pool_size = 2
  step = 5
  NoItem = NoItem
  Producers = {p1, p2, p3}
  Consumers = {k1, k2}
  Owners = {o1}
  Items = {q1, q2, q3, q4, q5}
  NoTask = NoTask
  GroupClients <- MCClients2
  Tasks <- MCTasks
  MaxParallel = 1
  Usages = {"racing"}
INVARIANTS RacingEveryItemDeleted
CHECK_DEADLOCK FALSE
