CONSTANTS
  None = None
  Users = {u1}
  Tabs = {t1, t2}
  Tokens = {k1, k2, k3}
  Calls = {c1, c2}
SYMMETRY Symmetry
SPECIFICATION Spec
INVARIANT TypeOK
INVARIANT OneLivePerLogin
INVARIANT BlockedStayOut
PROPERTY SessionSurvives
PROPERTY SessionForLife
