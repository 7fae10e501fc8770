CONSTANTS
  Workers = {w1, w2}
  Tokens = {t1, t2, t3}
  NoToken = none
  Databases = {d1, d2}
  NoDb = nodb
  MaxSessions = 2
  MaxDeaths = 1
SYMMETRY Alike
CONSTRAINT UntilClash
SPECIFICATION Spec
INVARIANTS TypeOK UniqueSlots OwnDatabase
PROPERTIES GetsAreCurrent ImplementsMap
