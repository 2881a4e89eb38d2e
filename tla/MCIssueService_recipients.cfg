CONSTANTS
  None = None
  Projects = {p1}
  Issues = {i1}
  Users = {u1, u2}
  Texts = {t1}
  Requests = {r1, r2}
  Asked = {"create", "assign", "comment"}
  MayLeave = {}
  MayArchive = {p1}
  MaxVersion = 3
SYMMETRY Symmetry
SPECIFICATION Spec
INVARIANT TypeOK
INVARIANT RecipientsAreCurrent
INVARIANT ArchiveClosesProject
