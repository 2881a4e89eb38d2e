CONSTANTS
  Ids = {n1, n2}
  Requests = {r1}
  Retention = 2
  MaxTime = 4
SPECIFICATION Spec
INVARIANT NeverRecreated
