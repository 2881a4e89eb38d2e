CONSTANTS
  Aggregates = {a, b}
  Replicas = {r1}
  MaxAttempts = 2
  MaxBatch = 2
  Unreachable = {a}
  Faults = {"reject"}
  MaxVersion = 1
  MaxLog = 4
CHECK_DEADLOCK FALSE
SPECIFICATION Spec
INVARIANT OtherIssuesAreUnaffected
