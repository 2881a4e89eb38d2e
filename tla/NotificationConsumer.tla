------------------------ MODULE NotificationConsumer ------------------------
(***************************************************************************)
(* The Kafka consumer of the Notification service (issue_events.go):       *)
(* replicas of one consumer group read the topic the outbox fills, one     *)
(* record at a time each.  A record is processed (ask the Project service  *)
(* about every recipient, write all eligible notifications to Redis in one *)
(* MULTI), or dead-lettered when it is malformed or has failed too often,  *)
(* and only then committed.                                                *)
(*                                                                         *)
(* The topic is the one OrderedLog describes, whose steps are steps of     *)
(* this module.  A partition stands for one issue's share of a Kafka       *)
(* partition.  Members, offsets and assignment are the broker's.           *)
(***************************************************************************)
EXTENDS Naturals, Sequences, FiniteSets

CONSTANTS
  Partitions,
  Consumers,          \* replicas, each with one reader and one pending record
  Users,
  None,               \* no consumer, no partition
  Recipients,         \* the candidates of each event, normalised, without the actor
  Malformed,          \* events that fail decoding or validateEvent
  MaxProcessAttempts, \* 5 in the code
  Faults,             \* which of AllFaults may happen
  MayLeave,           \* bound: the users whose project access changes
  MaxVersion,         \* bound: events per partition
  MaxLog,             \* bound: records per partition
  MaxDisruptions      \* bound: crashes and rebalances

AllFaults ==
  { "access",    \* CheckAccess times out or gets an unexpected answer
    "store",     \* the MULTI fails, or is applied and its answer is lost
    "dlq",       \* so does the write to the dead-letter topic
    "commit",    \* and the offset commit
    "crash",     \* the replica stops (or shuts down) wherever it is
    "rebalance"} \* a partition moves although its owner is alive

Event == Partitions \X (1..MaxVersion)

ASSUME ConsumerAssumption ==
  /\ None \notin Consumers \cup Partitions
  /\ Recipients \in [Event -> SUBSET Users]
  /\ Malformed \subseteq Event
  /\ MaxProcessAttempts \in Nat \ {0}
  /\ Faults \subseteq AllFaults
  /\ MaxVersion \in Nat /\ MaxLog \in Nat /\ MaxDisruptions \in Nat

VARIABLES
  written,     \* how many events the issue of each partition has
  topic,       \* issue.events.v1: the versions in each partition
  committed,   \* the group's offset: how many records are committed
  owner,       \* the replica each partition is assigned to
  position,    \* how many records its owner has fetched or skipped
  pend,        \* each replica's pending record
  saved,       \* the notifications in Redis, by user and event
  dlq,         \* the events in the dead-letter topic
  reader,      \* Project service: who may read the project of each partition
  declined,    \* history: recipients a completed attempt left out
  disruptions  \* how many crashes and rebalances happened (bound)

log == <<written, topic>>
vars == <<log, committed, owner, position, pend, saved, dlq, reader, declined, disruptions>>
group == <<committed, owner, position>>
results == <<saved, dlq, declined>>

Stages == {"idle", "checking", "saving", "dlq", "commit"}

(* entitled: history, who could read the project at some moment of this    *)
(* attempt.                                                                *)
Pending == [at : Stages, p : Partitions \cup {None}, k : Nat, tries : Nat,
            todo : SUBSET Users, eligible : SUBSET Users, entitled : SUBSET Users]

NoPending == [at |-> "idle", p |-> None, k |-> 0, tries |-> 0,
              todo |-> {}, eligible |-> {}, entitled |-> {}]

Record(p, k) == <<p, topic[p][k]>>
PendingEvent(c) == Record(pend[c].p, pend[c].k)

(* What is done about an event for good. *)
Settled(e) ==
  \/ e \in dlq
  \/ e \notin Malformed /\ \A u \in Recipients[e] : <<u, e>> \in saved \cup declined

Log == INSTANCE OrderedLog WITH Aggregates <- Partitions

Init ==
  /\ Log!Init
  /\ committed = [p \in Partitions |-> 0]
  /\ owner = [p \in Partitions |-> None]
  /\ position = [p \in Partitions |-> 0]
  /\ pend = [c \in Consumers |-> NoPending]
  /\ saved = {} /\ dlq = {} /\ declined = {}
  /\ reader = [p \in Partitions |-> Users]
  /\ disruptions = 0

-----------------------------------------------------------------------------
(* The start of an attempt: decode, validate, and the recipients to ask.   *)
handle(p, k, tries) ==
  LET e == Record(p, k)
  IN  [at |-> IF e \in Malformed THEN "dlq"
              ELSE IF Recipients[e] = {} THEN "commit" ELSE "checking",
       p |-> p, k |-> k, tries |-> tries, todo |-> Recipients[e],
       eligible |-> {}, entitled |-> reader[p]]

FetchMessage_Ahead(c) ==      \* fault: the next record is fetched while one is being retried
  /\ pend[c].at \in {"idle", "checking"}
  /\ \E p \in Partitions :
       /\ owner[p] = c /\ position[p] < Len(topic[p])
       /\ position' = [position EXCEPT ![p] = @ + 1]
       /\ pend' = [pend EXCEPT ![c] = handle(p, position[p] + 1, 0)]
  /\ UNCHANGED <<log, committed, owner, results, reader, disruptions>>

FetchMessage(c) ==
  /\ pend[c].at = "idle"
  /\ \E p \in Partitions :
       /\ owner[p] = c /\ position[p] < Len(topic[p])
       /\ position' = [position EXCEPT ![p] = @ + 1]
       /\ pend' = [pend EXCEPT ![c] = handle(p, position[p] + 1, 0)]
  /\ UNCHANGED <<log, committed, owner, results, reader, disruptions>>

leftOut(c, eligible) == {<<u, PendingEvent(c)>> : u \in Recipients[PendingEvent(c)] \ eligible}

(* One recipient is asked about; after the last one, the eligible ones are *)
(* saved, or nothing is left to do.                                        *)
CheckAccess(c, u) ==
  LET q == pend[c]
      eligible == IF u \in reader[q.p] THEN q.eligible \cup {u} ELSE q.eligible
      todo == q.todo \ {u}
  IN  /\ q.at = "checking" /\ u \in q.todo
      /\ pend' = [pend EXCEPT ![c] =
           [q EXCEPT !.todo = todo, !.eligible = eligible,
                     !.at = IF todo # {} THEN "checking"
                            ELSE IF eligible = {} THEN "commit" ELSE "saving"]]
      /\ declined' = declined \cup IF todo = {} /\ eligible = {} THEN leftOut(c, {}) ELSE {}
      /\ UNCHANGED <<log, group, saved, dlq, reader, disruptions>>

(* A failed attempt is repeated from its start, or the record is given up. *)
retry_KeepsDecisions(q) ==    \* fault: the recipients already asked are not asked again
  IF q.tries + 1 >= MaxProcessAttempts THEN [q EXCEPT !.at = "dlq"]
  ELSE [q EXCEPT !.tries = @ + 1, !.at = "checking", !.entitled = reader[q.p],
                 !.todo = IF q.todo = {} THEN Recipients[Record(q.p, q.k)] ELSE @]
retry_Forever(q) == handle(q.p, q.k, q.tries)   \* fault: the attempts are not counted
retry_CountsDown(q) ==        \* fault: the attempts left are counted, from zero
  IF q.tries = 0 - MaxProcessAttempts THEN [q EXCEPT !.at = "dlq"]
  ELSE handle(q.p, q.k, q.tries - 1)
retry_Skips(q) ==             \* fault: the record is given up without being kept
  IF q.tries + 1 >= MaxProcessAttempts THEN [q EXCEPT !.at = "commit"]
  ELSE handle(q.p, q.k, q.tries + 1)

retry(q) ==
  IF q.tries + 1 >= MaxProcessAttempts THEN [q EXCEPT !.at = "dlq", !.tries = @ + 1]
  ELSE handle(q.p, q.k, q.tries + 1)

CheckFails(c) ==
  /\ "access" \in Faults
  /\ pend[c].at = "checking"
  /\ pend' = [pend EXCEPT ![c] = retry(@)]
  /\ UNCHANGED <<log, group, results, reader, disruptions>>

SaveEventNotifications(c) ==
  /\ pend[c].at = "saving"
  /\ saved' = saved \cup (pend[c].eligible \X {PendingEvent(c)})
  /\ declined' = declined \cup leftOut(c, pend[c].eligible)
  /\ pend' = [pend EXCEPT ![c].at = "commit"]
  /\ UNCHANGED <<log, group, dlq, reader, disruptions>>

SaveFails(c) ==
  /\ "store" \in Faults
  /\ pend[c].at = "saving"
  /\ \E applied \in {{}, pend[c].eligible \X {PendingEvent(c)}} : saved' = saved \cup applied
  /\ pend' = [pend EXCEPT ![c] = retry(@)]
  /\ UNCHANGED <<log, group, dlq, declined, reader, disruptions>>

writeDLQ(c) ==
  /\ pend[c].at = "dlq"
  /\ dlq' = dlq \cup {PendingEvent(c)}
  /\ pend' = [pend EXCEPT ![c].at = "commit"]
  /\ UNCHANGED <<log, group, saved, declined, reader, disruptions>>

(* Written, but the answer is an error: the write will be repeated. *)
writeDLQFails(c) ==
  /\ "dlq" \in Faults
  /\ pend[c].at = "dlq"
  /\ dlq' = dlq \cup {PendingEvent(c)}
  /\ UNCHANGED <<log, group, pend, saved, declined, reader, disruptions>>

(* The offset is the group's: the commit of a replica that has lost the    *)
(* partition meanwhile goes through as well, and may move it back.         *)
commit(c) ==
  /\ pend[c].at = "commit"
  /\ committed' = [committed EXCEPT ![pend[c].p] = pend[c].k]
  /\ pend' = [pend EXCEPT ![c] = NoPending]
  /\ UNCHANGED <<log, owner, position, results, reader, disruptions>>

(* A round of attempts fails, the last one after it was applied. *)
commitFails(c) ==
  /\ "commit" \in Faults
  /\ pend[c].at = "commit"
  /\ committed' = [committed EXCEPT ![pend[c].p] = pend[c].k]
  /\ UNCHANGED <<log, owner, position, pend, results, reader, disruptions>>

(* The process ends; its partitions wait for a new assignment. *)
crash(c) ==
  /\ "crash" \in Faults /\ disruptions < MaxDisruptions
  /\ pend[c].at # "idle"
  /\ pend' = [pend EXCEPT ![c] = NoPending]
  /\ owner' = [p \in Partitions |-> IF owner[p] = c THEN None ELSE owner[p]]
  /\ disruptions' = disruptions + 1
  /\ UNCHANGED <<log, committed, position, results, reader>>

-----------------------------------------------------------------------------
(* What the others do: the publishers, the group coordinator, the Project  *)
(* service.                                                                *)
publish ==
  /\ Log!Next
  /\ \A p \in Partitions : written'[p] <= MaxVersion /\ Len(topic'[p]) <= MaxLog
  /\ UNCHANGED <<group, pend, results, reader, disruptions>>

startingAt(p) == committed[p]

(* The new owner may be the old one, which then keeps its pending record   *)
(* and reads the committed ones after it again.                            *)
assign(p, c) ==
  /\ owner' = [owner EXCEPT ![p] = c]
  /\ position' = [position EXCEPT ![p] = startingAt(p)]
  /\ UNCHANGED <<log, committed, pend, results, reader>>

firstAssignment(p, c) ==
  /\ owner[p] = None
  /\ assign(p, c)
  /\ UNCHANGED disruptions

rebalance(p, c) ==
  /\ "rebalance" \in Faults /\ disruptions < MaxDisruptions
  /\ owner[p] # None
  /\ assign(p, c)
  /\ disruptions' = disruptions + 1

changeMembership(p, u) ==
  /\ u \in MayLeave
  /\ reader' = [reader EXCEPT ![p] = IF u \in @ THEN @ \ {u} ELSE @ \cup {u}]
  /\ pend' = [c \in Consumers |->
       IF pend[c].p = p THEN [pend[c] EXCEPT !.entitled = @ \cup reader'[p]] ELSE pend[c]]
  /\ UNCHANGED <<log, group, results, disruptions>>

Consumer(c) ==
  \/ FetchMessage(c)
  \/ \E u \in Users : CheckAccess(c, u)
  \/ CheckFails(c)
  \/ SaveEventNotifications(c) \/ SaveFails(c)
  \/ writeDLQ(c) \/ writeDLQFails(c)
  \/ commit(c) \/ commitFails(c)
  \/ crash(c)

Consumption ==
  \/ \E c \in Consumers : Consumer(c)
  \/ \E p \in Partitions, c \in Consumers : firstAssignment(p, c) \/ rebalance(p, c)
  \/ \E p \in Partitions, u \in Users : changeMembership(p, u)

Next == Consumption \/ publish

Spec == Init /\ [][Next]_vars

(* The loop of Run never stops, every call returns or times out, and       *)
(* neither the dead-letter topic nor the commit fails for ever; the        *)
(* Project service and Redis may.  The coordinator assigns every partition.*)
Fairness ==
  /\ \A c \in Consumers :
       /\ WF_vars(FetchMessage(c))
       /\ WF_vars((\E u \in Users : CheckAccess(c, u)) \/ CheckFails(c))
       /\ WF_vars(SaveEventNotifications(c) \/ SaveFails(c))
       /\ WF_vars(writeDLQ(c))
       /\ WF_vars(commit(c))
  /\ \A p \in Partitions : WF_vars(\E c \in Consumers : firstAssignment(p, c))

FairSpec == Spec /\ Fairness

-----------------------------------------------------------------------------
(* Every variable has its type. *)
TypeOK ==
  /\ written \in [Partitions -> 0..MaxVersion]
  /\ topic \in [Partitions -> Seq(1..MaxVersion)]
  /\ committed \in [Partitions -> Nat]
  /\ owner \in [Partitions -> Consumers \cup {None}]
  /\ position \in [Partitions -> Nat]
  /\ pend \in [Consumers -> Pending]
  /\ saved \subseteq Users \X Event
  /\ dlq \subseteq Event
  /\ reader \in [Partitions -> SUBSET Users]
  /\ declined \subseteq Users \X Event
  /\ disruptions \in Nat

(* No record is skipped: whatever replicas crashed, lost the partition or  *)
(* committed late, each record below the group's offset is dead-lettered,  *)
(* or has given each of its recipients a notification or a refusal.        *)
CommittedIsSettled ==
  \A p \in Partitions : \A k \in 1..committed[p] :
    k \in DOMAIN topic[p] /\ Settled(Record(p, k))

(* Along an issue nothing is done about an event before its earlier events *)
(* are settled: the order of the outbox reaches the recipients although    *)
(* the topic repeats records and the offset may move back.                 *)
InIssueOrder ==
  \A p \in Partitions : \A v \in 1..MaxVersion :
    <<p, v>> \in dlq \/ (\E u \in Users : <<u, <<p, v>> >> \in saved)
      => \A w \in 1..(v - 1) : Settled(<<p, w>>)

(* A notification is only created for somebody who could read the project  *)
(* at some moment of the very attempt that creates it, not of an earlier,  *)
(* failed one (BR-NOTIF-001, "immediately before").                        *)
FreshAccess ==
  [][\A n \in saved' \ saved :
       \E c \in Consumers : /\ pend[c].at = "saving" /\ PendingEvent(c) = n[2]
                            /\ n[1] \in pend[c].entitled]_vars

(* Every event of the topic is settled at last, also while the Project     *)
(* service or Redis is down for good and although replicas come and go.    *)
(* (The offset need not stay: a late commit may move it back, and nothing  *)
(* moves it forward before the next record or assignment.)                 *)
EveryEventSettles ==
  \A e \in Event : Log!Occurs(e[2], topic[e[1]]) ~> Settled(e)
=============================================================================
