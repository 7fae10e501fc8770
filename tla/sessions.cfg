CONSTANTS
  c1 = c1
  c2 = c2
  t1 = t1
  t2 = t2
  d1 = d1
  d2 = d2
  NSlots = 3
  NNodes = 2
  Clients = {c1, c2}
  Tokens = {t1, t2}
  NoToken = NoToken
  Databases = {d1, d2}
  NoDb = NoDb
  Garbled = Garbled
  OnDisk = {d1, d2}
  MaxSessions = 2
  MaxTasks = 3
  MaxEvents = 1
  Workload <- SessionWorkload
SPECIFICATION Spec
CHECK_DEADLOCK FALSE
CONSTRAINT SessionStates
ACTION_CONSTRAINT SessionSteps
INVARIANTS
  SessionFollowsUse
PROPERTIES
  ResolvedAgainstOwnUse
