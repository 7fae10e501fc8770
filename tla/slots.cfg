CONSTANTS
  c1 = c1
  c2 = c2
  t1 = t1
  t2 = t2
  d1 = d1
  d2 = d2
  NSlots = 3
  NNodes = 2
  Clients = {c1, c2}
  Tokens = {}
  NoToken = NoToken
  Databases = {}
  NoDb = NoDb
  Garbled = Garbled
  OnDisk = {}
  MaxSessions = 2
  MaxTasks = 4
  MaxEvents = 0
  Workload <- CoreWorkload
SPECIFICATION Spec
INVARIANTS
  LateWrite
PROPERTIES
  ImplementsService
