SPECIFICATION Spec
CONSTANTS
  Absent = Absent
  AnyTenant = AnyTenant
  NoCopy = NoCopy
  Sessions = {s1, s2}
  Deletable = {s2}
  Clients = {c1, c2}
  Tenants = {t1, t2}
  Edits = {e1, e2}
  MaxVersion = 2
INVARIANTS
  TypeOK
  OptimisticLock
PROPERTIES
  NoLostUpdate
  KeepsPromise
