CONSTANTS
  c1 = c1
  c2 = c2
  t1 = t1
  t2 = t2
  d1 = d1
  d2 = d2
  NSlots = 2
  NNodes = 2
  Clients = {c1, c2}
  Tokens = {}
  NoToken = NoToken
  Databases = {}
  NoDb = NoDb
  Garbled = Garbled
  OnDisk = {}
  MaxSessions = 1
  MaxTasks = 2
  MaxEvents = 1
  Workload <- CoreWorkload
SPECIFICATION FairSpec
CHECK_DEADLOCK FALSE
PROPERTIES
  DeadRestartedOrStuck
  AwaitEnds
  EveryQueryAnswered
