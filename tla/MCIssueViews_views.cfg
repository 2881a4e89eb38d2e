CONSTANTS
  None = None
  Calls = {c1, c2}
  MaxVersion = 3
  MaxActions = 3
  MaxFailures = 1
SYMMETRY Symmetry
CHECK_DEADLOCK FALSE
SPECIFICATION Spec
INVARIANT TypeOK
INVARIANT ShowsWhatItWasTold
PROPERTY ReplacesWhatWasSeen
