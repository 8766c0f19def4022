SPECIFICATION FileSpec
CONSTANTS
  Absent = Absent
  NoCopy = NoCopy
  AnyTenant = AnyTenant
  Sessions = {s1, s2}
  Deletable = {s2}
  Clients = {c1, c2}
  Tenants = {x}
  Edits = {e1, e2}
  MaxVersion = 3
INVARIANTS
  FileLock
PROPERTIES
  LostOnlyToTornSaves
