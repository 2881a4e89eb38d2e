CONSTANTS
  None = None
  Projects = {p1}
  Epics = {e1}
  Sprints = {s1, s2}
  Issues = {1, 2, 3}
  Requests = {r1, r2}
  Days = {1, 2}
  MayArchive = {p1}
  MaxRequests = 3
  MaxTime = 1
  MaxSkew = 1
  PageSize = 1
SYMMETRY Symmetry
CHECK_DEADLOCK FALSE
SPECIFICATION BacklogSpec
INVARIANT TypeOK
INVARIANT ClosedToNewRequests
INVARIANT NumbersAreDense
INVARIANT ListIsExact
PROPERTY CompletedStays
