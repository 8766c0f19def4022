SPECIFICATION FileSpec
CONSTANTS
  Absent = Absent
  NoCopy = NoCopy
  AnyTenant = AnyTenant
  Sessions = {s1}
  Deletable = {}
  Clients = {c1, c2}
  Tenants = {x}
  Edits = {e1, e2}
  MaxVersion = 3
PROPERTIES
  NoLostUpdate
