CONSTANTS
  u1 = u1
  u2 = u2
  None = None
  Partitions = {a}
  Consumers = {c1, c2}
  Users = {u1, u2}
  Recipients <- MCRecipients
  Malformed <- MCMalformed
  MaxProcessAttempts = 2
  Faults = {"access", "store", "dlq", "commit", "crash", "rebalance"}
  MayLeave = {u1}
  MaxVersion = 2
  MaxLog = 2
  MaxDisruptions = 1
CHECK_DEADLOCK FALSE
SPECIFICATION FairSpec
INVARIANT TypeOK
INVARIANT CommittedIsSettled
INVARIANT InIssueOrder
PROPERTY FreshAccess
PROPERTY EveryEventSettles
