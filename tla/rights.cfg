CONSTANTS
  Workers = {w1, w2}
  Admin = admin
  Public = public
  System = system
  User = user
  Other = other
  Group = group
  Group2 = group2
  Db = db
  Ids = {i1, i2}
  Checks <- Reading
  Grants <- EveryReader
  Revokes <- GroupReadsAndWrites
  Joins <- SomeJoins
SYMMETRY Alike
VIEW InUse
SPECIFICATION Spec
INVARIANTS TypeOK DeniedHadGap RevokeRemoves GrantEnters
PROPERTY AllowedWasEntitled
