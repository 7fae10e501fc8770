CONSTANTS
  c1 = c1
  c2 = c2
  t1 = t1
  t2 = t2
  d1 = d1
  d2 = d2
  NSlots = 2
  NNodes = 2
  Clients = {c1, c2}
  Tokens = {t1}
  NoToken = NoToken
  Databases = {d1}
  NoDb = NoDb
  Garbled = Garbled
  OnDisk = {}
  MaxSessions = 2
  MaxTasks = 2
  MaxEvents = 2
  Workload <- CreatingWorkload
SPECIFICATION Spec
CHECK_DEADLOCK FALSE
INVARIANTS
  TypeOK
  Handshake
  TaskIntact
  BusyWhileWorking
  AtMostOnce
  OneLostPerWorker
  AnswerIsOwn
