CONSTANTS
  None = None
  Users = {u1, u2}
  Founder = u1
  Projects = {p1, p2}
  Names = {n1, n2}
  Keys = {k1, k2}
  Descriptions = {}
  Requests = {r1, r2}
  Asked = {"add", "change", "remove", "create", "update", "archive"}
SYMMETRY Symmetry
SPECIFICATION Spec
INVARIANT TypeOK
INVARIANT OwnerRemains
INVARIANT IdentityIsUnique
PROPERTY RemovedStayRemoved
PROPERTY ArchivedIsFrozen
