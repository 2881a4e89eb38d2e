CONSTANTS
  None = None
  Projects = {p1}
  Issues = {i1}
  Users = {u1}
  Texts = {t1}
  Requests = {r1, r2}
  Asked = {"create", "update", "assign", "transition", "comment"}
  MayLeave = {u1}
  MayArchive = {}
  MaxVersion = 3
SYMMETRY Symmetry
SPECIFICATION Spec
INVARIANT StaleIsDetected
INVARIANT HistoryExplainsIssue
PROPERTY ImplementsAtomicIssues
