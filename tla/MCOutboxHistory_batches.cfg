CONSTANTS
  Aggregates = {a, b}
  Replicas = {r1, r2}
  MaxAttempts = 2
  MaxBatch = 2
  Unreachable = {a, b}
  Faults = {"reject", "duplicate", "late", "slow", "database", "crash"}
  MaxVersion = 1
  MaxLog = 2
CHECK_DEADLOCK FALSE
SYMMETRY Symmetry
SPECIFICATION HistorySpec
INVARIANT TypeOK
INVARIANT PublishedIsDelivered
INVARIANT NoDuplicateNormally
