CONSTANTS
  Aggregates = {a}
  Replicas = {r1, r2}
  MaxAttempts = 2
  MaxBatch = 2
  Unreachable = {a}
  Faults = {"reject", "late", "slow", "database", "crash"}
  MaxVersion = 2
  MaxLog = 2
CHECK_DEADLOCK FALSE
SPECIFICATION FairSpec
PROPERTY EverySettles
INVARIANT BlockedBehindUnpublished
PROPERTY ImplementsOrderedLog
