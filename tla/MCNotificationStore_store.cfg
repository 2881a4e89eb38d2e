CONSTANTS
  Ids = {n1, n2}
  Requests = {r1, r2}
  Retention = 2
  MaxTime = 5
SYMMETRY Symmetry
SPECIFICATION Spec
INVARIANT TypeOK
INVARIANT IndexedWhileLive
INVARIANT DeliveredExpires
PROPERTY ReadStaysRead
PROPERTY AllAreRead
