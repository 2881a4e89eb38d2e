-------------------- MODULE NotificationConsumer_proofs ---------------------
(***************************************************************************)
(* For any number of replicas, partitions, users, attempts and faults: the *)
(* consumer group skips no record, keeps the order along an issue, and     *)
(* creates no notification without an access check of the same attempt.    *)
(***************************************************************************)
EXTENDS Pipeline, TLAPS

(* The topic never has an event without the earlier ones of its issue      *)
(* before it: this is what OrderedLog gives.                               *)
LogOrdered ==
  \A p \in Partitions : \A k \in 1..Len(topic[p]) : \A w \in 1..(topic[p][k] - 1) :
    \E j \in 1..(k - 1) : topic[p][j] = w

(* A pending record is in the topic, and all records before it are settled.*)
Fetched(q) ==
  /\ q.p \in Partitions /\ q.k \in 1..Len(topic[q.p])
  /\ \A j \in 1..(q.k - 1) : Settled(Record(q.p, j))

(* What its stage says of its event, and of those it may notify. *)
Processed(q) ==
  /\ q.at \in {"checking", "saving"} => Record(q.p, q.k) \notin Malformed
  /\ q.at = "commit" => Settled(Record(q.p, q.k))
Entitled(q) == q.eligible \cup reader[q.p] \subseteq q.entitled

PendingSound ==
  \A c \in Consumers : pend[c].at # "idle" => Fetched(pend[c]) /\ Processed(pend[c]) /\ Entitled(pend[c])

(* The owner of a partition has settled what it has fetched from there,    *)
(* but for its pending record.                                             *)
PositionsSound ==
  \A p \in Partitions : owner[p] # None =>
    /\ position[p] <= Len(topic[p])
    /\ \A k \in 1..position[p] :
         \/ Settled(Record(p, k))
         \/ pend[owner[p]].at # "idle" /\ pend[owner[p]].p = p /\ pend[owner[p]].k = k

IInv ==
  /\ TypeOK
  /\ LogOrdered
  /\ PendingSound /\ PositionsSound
  /\ CommittedIsSettled
  /\ InIssueOrder

-----------------------------------------------------------------------------
THEOREM InitSound == Init => IInv
<1> SUFFICES ASSUME Init PROVE IInv
  OBVIOUS
<1>1. /\ \A p \in Partitions : topic[p] = <<>> /\ owner[p] = None /\ committed[p] = 0 /\ written[p] = 0
      /\ topic = [p \in Partitions |-> <<>>] /\ written = [p \in Partitions |-> 0]
      /\ \A c \in Consumers : pend[c].at = "idle"
      /\ saved = {} /\ dlq = {} /\ declined = {}
  BY DEF Init, Log!Init, NoPending
<1>2. NoPending \in Pending
  BY DEF NoPending, Pending, Stages
<1>3. TypeOK
  BY <1>1, <1>2, ConsumerAssumption DEF Init, TypeOK
<1>4. QED
  BY <1>1, <1>3 DEF IInv, LogOrdered, PendingSound, PositionsSound, CommittedIsSettled, InIssueOrder

-----------------------------------------------------------------------------
LEMMA Element ==
  ASSUME NEW S, NEW records \in Seq(S), NEW k \in 1..Len(records)
  PROVE  records[k] \in S
OBVIOUS

(* A record of the topic is an event, and a pending record one of them. *)
LEMMA RecordType ==
  ASSUME TypeOK, NEW p \in Partitions, NEW k \in 1..Len(topic[p])
  PROVE  Record(p, k) \in Event /\ Record(p, k)[1] = p /\ Record(p, k)[2] = topic[p][k]
<1>1. topic[p] \in Seq(1..MaxVersion)
  BY DEF TypeOK
<1>2. topic[p][k] \in 1..MaxVersion
  BY <1>1, Element
<1>3. QED  BY <1>2 DEF Record, Event

LEMMA HandleType ==
  ASSUME TypeOK, NEW p \in Partitions, NEW k \in 1..Len(topic[p]), NEW tries \in Nat
  PROVE  handle(p, k, tries) \in Pending
<1>1. Record(p, k) \in Event
  BY RecordType
<1>2. Recipients[Record(p, k)] \subseteq Users
  BY <1>1, ConsumerAssumption
<1>3. k \in Nat /\ reader[p] \subseteq Users
  BY DEF TypeOK
<1>4. QED  BY <1>2, <1>3 DEF handle, Pending, Stages

LEMMA RetryType ==
  ASSUME TypeOK, NEW q \in Pending, Fetched(q)
  PROVE  retry(q) \in Pending
<1>1. q.tries + 1 \in Nat /\ [q EXCEPT !.at = "dlq", !.tries = @ + 1] \in Pending
  <2>1. q.tries \in Nat
    BY DEF Pending
  <2>2. q.tries + 1 \in Nat
    BY <2>1
  <2>3. [q EXCEPT !.at = "dlq", !.tries = q.tries + 1] \in Pending
    BY <2>2 DEF Pending, Stages
  <2>4. QED  BY <2>2, <2>3
<1>2. handle(q.p, q.k, q.tries + 1) \in Pending
  BY <1>1, HandleType DEF Fetched
<1>3. QED  BY <1>1, <1>2 DEF retry

LEMMA LogTypeStep ==
  ASSUME TypeOK, publish
  PROVE  /\ written' \in [Partitions -> 0..MaxVersion]
         /\ topic' \in [Partitions -> Seq(1..MaxVersion)]
<1>1. /\ written \in [Partitions -> 0..MaxVersion] /\ topic \in [Partitions -> Seq(1..MaxVersion)]
      /\ \A p \in Partitions : written'[p] <= MaxVersion
      /\ MaxVersion \in Nat
  BY ConsumerAssumption DEF TypeOK, publish
<1>2. ASSUME NEW a \in Partitions, Log!Write(a)
      PROVE  written' \in [Partitions -> 0..MaxVersion] /\ topic' = topic
  BY <1>1, <1>2 DEF Log!Write
<1>3. ASSUME NEW a \in Partitions, NEW v \in 1..written[a], Log!Deliver(a, v)
      PROVE  topic' \in [Partitions -> Seq(1..MaxVersion)] /\ written' = written
  BY <1>1, <1>3 DEF Log!Deliver
<1>4. QED  BY <1>1, <1>2, <1>3 DEF publish, Log!Next

LEMMA TypeStep ==
  ASSUME IInv, [Next]_vars
  PROVE  TypeOK'
<1> USE DEF IInv, TypeOK
<1>0. NoPending \in Pending
  BY DEF NoPending, Pending, Stages
<1>1. ASSUME NEW c \in Consumers, FetchMessage(c) PROVE TypeOK'
  <2>1. PICK p \in Partitions :
          /\ owner[p] = c /\ position[p] < Len(topic[p])
          /\ position' = [position EXCEPT ![p] = @ + 1]
          /\ pend' = [pend EXCEPT ![c] = handle(p, position[p] + 1, 0)]
    BY <1>1 DEF FetchMessage
  <2>2. position[p] + 1 \in 1..Len(topic[p])
    BY <2>1
  <2>3. handle(p, position[p] + 1, 0) \in Pending
    BY <2>2, HandleType
  <2>4. QED  BY <1>1, <2>1, <2>3 DEF FetchMessage, log, results
<1>2. ASSUME NEW c \in Consumers, pend[c].at # "idle"
      PROVE  /\ pend[c] \in Pending /\ pend[c].p \in Partitions /\ PendingEvent(c) \in Event
             /\ Fetched(pend[c]) /\ Recipients[PendingEvent(c)] \subseteq Users
  <2>1. pend[c] \in Pending /\ Fetched(pend[c])
    BY <1>2 DEF PendingSound
  <2>2. PendingEvent(c) \in Event
    BY <2>1, RecordType DEF Fetched, PendingEvent
  <2>3. QED  BY <2>1, <2>2, ConsumerAssumption DEF Fetched
<1>3. ASSUME NEW c \in Consumers, NEW u \in Users, CheckAccess(c, u) PROVE TypeOK'
  <2>1. pend[c].at # "idle"
    BY <1>3 DEF CheckAccess
  <2>2. leftOut(c, {}) \subseteq Users \X Event
    BY <1>2, <2>1 DEF leftOut
  <2>3. pend'[c] \in Pending
    <3>1. pend[c].todo \in SUBSET Users /\ pend[c].eligible \in SUBSET Users
      BY <1>2, <2>1 DEF Pending
    <3>2. \E todo \in SUBSET Users, eligible \in SUBSET Users, at \in {"checking", "commit", "saving"} :
            pend' = [pend EXCEPT ![c] = [pend[c] EXCEPT !.todo = todo, !.eligible = eligible, !.at = at]]
      BY <1>3, <3>1 DEF CheckAccess
    <3>3. PICK todo \in SUBSET Users, eligible \in SUBSET Users, at \in {"checking", "commit", "saving"} :
            pend' = [pend EXCEPT ![c] = [pend[c] EXCEPT !.todo = todo, !.eligible = eligible, !.at = at]]
      BY <3>2
    <3>4. pend[c] \in Pending /\ at \in Stages
      BY <1>2, <2>1 DEF Stages
    <3>5. [pend[c] EXCEPT !.todo = todo, !.eligible = eligible, !.at = at] \in Pending
      BY <3>4 DEF Pending
    <3>6. QED  BY <1>3, <3>3, <3>5
  <2>4. pend' \in [Consumers -> Pending]
    BY <1>3, <2>3 DEF CheckAccess
  <2>5. declined' \subseteq Users \X Event
    BY <1>3, <2>2 DEF CheckAccess
  <2>6. QED  BY <1>3, <2>4, <2>5 DEF CheckAccess, log, group
<1>4. ASSUME NEW c \in Consumers, CheckFails(c) PROVE TypeOK'
  <2>1. retry(pend[c]) \in Pending
    BY <1>2, <1>4, RetryType DEF CheckFails
  <2>2. QED  BY <1>4, <2>1 DEF CheckFails, log, group, results
<1>5. ASSUME NEW c \in Consumers, SaveEventNotifications(c) \/ SaveFails(c) PROVE TypeOK'
  <2>1. pend[c].at # "idle"
    BY <1>5 DEF SaveEventNotifications, SaveFails
  <2>2. /\ pend[c].eligible \X {PendingEvent(c)} \subseteq Users \X Event
        /\ leftOut(c, pend[c].eligible) \subseteq Users \X Event
        /\ retry(pend[c]) \in Pending /\ [pend[c] EXCEPT !.at = "commit"] \in Pending
    <3>1. retry(pend[c]) \in Pending
      BY <1>2, <2>1, RetryType
    <3>2. pend[c].eligible \subseteq Users /\ [pend[c] EXCEPT !.at = "commit"] \in Pending
      BY <1>2, <2>1 DEF Pending, Stages
    <3>3. leftOut(c, pend[c].eligible) \subseteq Users \X Event
      BY <1>2, <2>1 DEF leftOut
    <3>4. QED  BY <1>2, <2>1, <3>1, <3>2, <3>3
  <2>3. CASE SaveEventNotifications(c)
    BY <2>2, <2>3 DEF SaveEventNotifications, log, group
  <2>4. CASE SaveFails(c)
    BY <2>2, <2>4 DEF SaveFails, log, group
  <2>5. QED  BY <1>5, <2>3, <2>4
<1>6. ASSUME NEW c \in Consumers, writeDLQ(c) \/ writeDLQFails(c) PROVE TypeOK'
  <2>1. PendingEvent(c) \in Event /\ [pend[c] EXCEPT !.at = "commit"] \in Pending
    BY <1>2, <1>6 DEF writeDLQ, writeDLQFails, Pending, Stages
  <2>2. QED  BY <1>6, <2>1 DEF writeDLQ, writeDLQFails, log, group
<1>7. ASSUME NEW c \in Consumers, commit(c) \/ commitFails(c) PROVE TypeOK'
  <2>1. pend[c].k \in Nat
    BY DEF Pending
  <2>2. QED  BY <1>0, <1>7, <2>1 DEF commit, commitFails, log, results
<1>8. ASSUME NEW c \in Consumers, crash(c) PROVE TypeOK'
  <2>1. owner' \in [Partitions -> Consumers \cup {None}]
    BY <1>8 DEF crash
  <2>2. pend' \in [Consumers -> Pending] /\ disruptions' \in Nat
    BY <1>0, <1>8 DEF crash
  <2>3. QED  BY <1>8, <2>1, <2>2 DEF crash, log, results
<1>9. CASE publish
  BY <1>9, LogTypeStep DEF publish, group, results
<1>10. ASSUME NEW p \in Partitions, NEW c \in Consumers, firstAssignment(p, c) \/ rebalance(p, c) PROVE TypeOK'
  <2>1. assign(p, c) /\ disruptions' \in Nat
    BY <1>10 DEF firstAssignment, rebalance
  <2>2. owner' \in [Partitions -> Consumers \cup {None}] /\ position' \in [Partitions -> Nat]
    BY <2>1 DEF assign, startingAt
  <2>3. QED  BY <2>1, <2>2 DEF assign, log, results
<1>11. ASSUME NEW p \in Partitions, NEW u \in Users, changeMembership(p, u) PROVE TypeOK'
  <2>1. reader' \in [Partitions -> SUBSET Users]
    BY <1>11 DEF changeMembership
  <2>2. \A c \in Consumers : [pend[c] EXCEPT !.entitled = @ \cup reader'[p]] \in Pending
    BY <2>1 DEF Pending
  <2>3. pend' \in [Consumers -> Pending]
    BY <1>11, <2>2 DEF changeMembership
  <2>4. QED  BY <1>11, <2>1, <2>3 DEF changeMembership, log, group, results
<1>12. CASE UNCHANGED vars
  BY <1>12 DEF vars, log
<1>13. QED
  BY <1>1, <1>3, <1>4, <1>5, <1>6, <1>7, <1>8, <1>9, <1>10, <1>11, <1>12 DEF Next, Consumption, Consumer

-----------------------------------------------------------------------------
(* The topic is only appended to, by an event that the earlier ones of its *)
(* issue precede.                                                          *)
LEMMA LogGrows ==
  ASSUME IInv, [Next]_vars, NEW p \in Partitions
  PROVE  \/ topic'[p] = topic[p]
         \/ \E v \in 1..MaxVersion : /\ topic'[p] = Append(topic[p], v)
                                    /\ \A w \in 1..(v - 1) : \E k \in 1..Len(topic[p]) : topic[p][k] = w
<1>1. topic \in [Partitions -> Seq(1..MaxVersion)] /\ written \in [Partitions -> 0..MaxVersion]
      /\ MaxVersion \in Nat
  BY ConsumerAssumption DEF IInv, TypeOK
<1>2. CASE publish
  <2>1. ASSUME NEW a \in Partitions, Log!Write(a) PROVE topic'[p] = topic[p]
    BY <2>1 DEF Log!Write
  <2>2. ASSUME NEW a \in Partitions, NEW v \in 1..written[a], Log!Deliver(a, v)
        PROVE  \/ topic'[p] = topic[p]
               \/ /\ topic'[p] = Append(topic[p], v) /\ v \in 1..MaxVersion
                  /\ \A w \in 1..(v - 1) : \E k \in 1..Len(topic[p]) : topic[p][k] = w
    <3>1. CASE p = a
      <4>1. topic'[p] = Append(topic[p], v) /\ v \in 1..MaxVersion
        BY <1>1, <2>2, <3>1 DEF Log!Deliver
      <4>2. DOMAIN topic[p] = 1..Len(topic[p])
        BY <1>1
      <4>3. QED  BY <2>2, <3>1, <4>1, <4>2 DEF Log!Deliver, Log!Occurs
    <3>2. CASE p # a
      BY <1>1, <2>2, <3>2 DEF Log!Deliver
    <3>3. QED  BY <3>1, <3>2
  <2>3. QED  BY <1>2, <2>1, <2>2 DEF publish, Log!Next
<1>3. CASE ~publish
  BY <1>3 DEF Next, Consumption, Consumer, FetchMessage, CheckAccess, CheckFails, SaveEventNotifications, SaveFails, writeDLQ,
       writeDLQFails, commit, commitFails, crash, firstAssignment, rebalance, assign, changeMembership, vars, log
<1>4. QED  BY <1>2, <1>3

LEMMA RecordsKept ==
  ASSUME IInv, [Next]_vars, NEW p \in Partitions
  PROVE  /\ Len(topic[p]) \in Nat /\ Len(topic'[p]) \in Nat /\ Len(topic[p]) <= Len(topic'[p])
         /\ \A k \in 1..Len(topic[p]) : topic'[p][k] = topic[p][k] /\ Record(p, k)' = Record(p, k)
<1>1. topic[p] \in Seq(1..MaxVersion)
  BY DEF IInv, TypeOK
<1>2. CASE topic'[p] = topic[p]
  BY <1>1, <1>2 DEF Record
<1>3. ASSUME NEW v \in 1..MaxVersion, topic'[p] = Append(topic[p], v)
      PROVE  /\ Len(topic[p]) \in Nat /\ Len(topic'[p]) \in Nat /\ Len(topic[p]) <= Len(topic'[p])
             /\ \A k \in 1..Len(topic[p]) : topic'[p][k] = topic[p][k] /\ Record(p, k)' = Record(p, k)
  BY <1>1, <1>3 DEF Record
<1>4. QED  BY <1>2, <1>3, LogGrows

LEMMA LogStep ==
  ASSUME IInv, [Next]_vars
  PROVE  LogOrdered'
<1> SUFFICES ASSUME NEW p \in Partitions, NEW k \in 1..Len(topic'[p]), NEW w \in 1..(topic'[p][k] - 1)
             PROVE  \E j \in 1..(k - 1) : topic'[p][j] = w
  BY DEF LogOrdered
<1>1. topic[p] \in Seq(1..MaxVersion) /\ LogOrdered
  BY DEF IInv, TypeOK
<1>2. CASE k \in 1..Len(topic[p])
  <2>1. topic'[p][k] = topic[p][k]
    BY <1>2, RecordsKept
  <2>2. PICK j \in 1..(k - 1) : topic[p][j] = w
    BY <1>1, <1>2, <2>1 DEF LogOrdered
  <2>3. j \in 1..Len(topic[p])
    BY <1>1, <1>2
  <2>4. QED  BY <2>2, <2>3, RecordsKept
<1>3. CASE k \notin 1..Len(topic[p])
  <2>1. PICK v \in 1..MaxVersion : /\ topic'[p] = Append(topic[p], v)
                                  /\ \A x \in 1..(v - 1) : \E j \in 1..Len(topic[p]) : topic[p][j] = x
    BY <1>3, LogGrows
  <2>2. k = Len(topic[p]) + 1 /\ topic'[p][k] = v
    BY <1>1, <1>3, <2>1
  <2>3. PICK j \in 1..Len(topic[p]) : topic[p][j] = w
    BY <2>1, <2>2
  <2>4. QED  BY <1>1, <2>2, <2>3, RecordsKept
<1>4. QED  BY <1>2, <1>3

(* What has been done about an event is never undone. *)
LEMMA SettledForGood ==
  ASSUME [Next]_vars, NEW e
  PROVE  /\ Settled(e) => Settled(e)'
         /\ saved \subseteq saved' /\ dlq \subseteq dlq'
<1>1. saved \subseteq saved' /\ dlq \subseteq dlq' /\ declined \subseteq declined'
  BY DEF Next, Consumption, Consumer, FetchMessage, CheckAccess, CheckFails, SaveEventNotifications, SaveFails, writeDLQ,
       writeDLQFails, commit, commitFails, crash, firstAssignment, rebalance, assign, changeMembership, publish,
       vars, results
<1>2. QED  BY <1>1 DEF Settled

LEMMA FetchedKept ==
  ASSUME IInv, [Next]_vars, NEW q, Fetched(q)
  PROVE  Fetched(q)' /\ Record(q.p, q.k)' = Record(q.p, q.k)
<1>1. q.p \in Partitions /\ q.k \in 1..Len(topic[q.p]) /\ \A j \in 1..(q.k - 1) : Settled(Record(q.p, j))
  BY DEF Fetched
<1>2. /\ Len(topic[q.p]) \in Nat /\ Len(topic'[q.p]) \in Nat /\ Len(topic[q.p]) <= Len(topic'[q.p])
      /\ \A k \in 1..Len(topic[q.p]) : Record(q.p, k)' = Record(q.p, k)
  BY <1>1, RecordsKept
<1>3. ASSUME NEW j \in 1..(q.k - 1) PROVE Settled(Record(q.p, j))'
  <2>1. Record(q.p, j)' = Record(q.p, j) /\ Settled(Record(q.p, j))
    BY <1>1, <1>2
  <2>2. PICK e : e = Record(q.p, j)
    OBVIOUS
  <2>3. Settled(e)'
    BY <2>1, <2>2, SettledForGood
  <2>4. QED  BY <2>1, <2>2, <2>3 DEF Settled
<1>4. QED  BY <1>1, <1>2, <1>3 DEF Fetched

-----------------------------------------------------------------------------
(* An attempt starts without decisions, and an event nobody may be told of *)
(* is settled.                                                             *)
LEMMA HandleSound ==
  ASSUME NEW p, NEW k, NEW tries
  PROVE  /\ handle(p, k, tries).p = p /\ handle(p, k, tries).k = k
         /\ Processed(handle(p, k, tries)) /\ Entitled(handle(p, k, tries))
<1>1. /\ handle(p, k, tries).p = p /\ handle(p, k, tries).k = k
      /\ handle(p, k, tries).eligible = {} /\ handle(p, k, tries).entitled = reader[p]
      /\ handle(p, k, tries).at = IF Record(p, k) \in Malformed THEN "dlq"
                                  ELSE IF Recipients[Record(p, k)] = {} THEN "commit" ELSE "checking"
  BY DEF handle
<1>2. Entitled(handle(p, k, tries))
  BY <1>1 DEF Entitled
<1>3. Processed(handle(p, k, tries))
  BY <1>1 DEF Processed, Settled
<1>4. QED  BY <1>1, <1>2, <1>3

LEMMA RetrySound ==
  ASSUME NEW q \in Pending, Entitled(q)
  PROVE  retry(q).p = q.p /\ retry(q).k = q.k /\ Processed(retry(q)) /\ Entitled(retry(q))
<1>1. CASE q.tries + 1 >= MaxProcessAttempts
  <2>1. PICK d : d = [q EXCEPT !.at = "dlq", !.tries = q.tries + 1]
    OBVIOUS
  <2>2. d.p = q.p /\ d.k = q.k /\ d.at = "dlq" /\ d.eligible = q.eligible /\ d.entitled = q.entitled
    BY <2>1 DEF Pending
  <2>3. retry(q) = d
    BY <1>1, <2>1 DEF retry
  <2>4. QED  BY <2>2, <2>3 DEF Processed, Entitled
<1>2. CASE ~(q.tries + 1 >= MaxProcessAttempts)
  <2>1. retry(q) = handle(q.p, q.k, q.tries + 1)
    BY <1>2 DEF retry
  <2>2. QED  BY <2>1, HandleSound
<1>3. QED  BY <1>1, <1>2

(* A consumer's decision about its pending record, made while the record   *)
(* and the membership stay as they are.                                    *)
LEMMA DecisionSound ==
  ASSUME IInv, [Next]_vars, NEW c \in Consumers, NEW q, pend'[c] = q, UNCHANGED reader,
         Fetched(q), Entitled(q), Processed(q) \/ Processed(q)'
  PROVE  Fetched(pend[c])' /\ Processed(pend[c])' /\ Entitled(pend[c])'
<1>1. Fetched(q)' /\ Record(q.p, q.k)' = Record(q.p, q.k)
  BY FetchedKept
<1>2. Entitled(q)'
  BY DEF Entitled
<1>3. Processed(q)'
  <2>1. PICK e : e = Record(q.p, q.k)
    OBVIOUS
  <2>2. Settled(e) => Settled(e)'
    BY SettledForGood
  <2>3. CASE Processed(q)
    BY <1>1, <2>1, <2>2, <2>3 DEF Processed, Settled
  <2>4. QED  BY <2>3
<1>4. QED  BY <1>1, <1>2, <1>3 DEF Fetched, Processed, Entitled, Settled, Record

LEMMA PendingStep ==
  ASSUME IInv, [Next]_vars
  PROVE  PendingSound'
<1> SUFFICES ASSUME NEW c \in Consumers, pend'[c].at # "idle"
             PROVE  Fetched(pend[c])' /\ Processed(pend[c])' /\ Entitled(pend[c])'
  BY DEF PendingSound
<1>0. /\ pend \in [Consumers -> Pending] /\ pend[c] \in Pending /\ TypeOK
      /\ pend[c].at # "idle" => Fetched(pend[c]) /\ Processed(pend[c]) /\ Entitled(pend[c])
  BY DEF IInv, TypeOK, PendingSound
<1>1. CASE pend'[c] = pend[c] /\ UNCHANGED reader
  BY <1>0, <1>1, DecisionSound
<1>2. CASE FetchMessage(c)
  <2>1. PICK p \in Partitions : /\ owner[p] = c /\ position[p] < Len(topic[p])
                                /\ pend'[c] = handle(p, position[p] + 1, 0)
                                /\ pend[c].at = "idle"
    BY <1>0, <1>2 DEF FetchMessage
  <2>2. /\ position[p] \in Nat /\ owner[p] # None
        /\ \A j \in 1..position[p] : Settled(Record(p, j))
    BY <2>1, ConsumerAssumption DEF IInv, TypeOK, PositionsSound
  <2>3. PICK q : q = handle(p, position[p] + 1, 0)
    OBVIOUS
  <2>4. q.p = p /\ q.k = position[p] + 1 /\ Processed(q) /\ Entitled(q)
    BY <2>3, HandleSound
  <2>5. Fetched(q)
    BY <2>1, <2>2, <2>4 DEF Fetched
  <2>6. QED  BY <1>2, <2>1, <2>3, <2>4, <2>5, DecisionSound DEF FetchMessage
<1>3. ASSUME NEW u \in Users, CheckAccess(c, u) PROVE Fetched(pend[c])' /\ Processed(pend[c])' /\ Entitled(pend[c])'
  <2> DEFINE eligible == IF u \in reader[pend[c].p] THEN pend[c].eligible \cup {u} ELSE pend[c].eligible
             todo == pend[c].todo \ {u}
  <2>1. PICK q : q = [pend[c] EXCEPT !.todo = todo, !.eligible = eligible,
                                     !.at = IF todo # {} THEN "checking"
                                            ELSE IF eligible = {} THEN "commit" ELSE "saving"]
    OBVIOUS
  <2>2. /\ q.p = pend[c].p /\ q.k = pend[c].k /\ q.eligible = eligible /\ q.entitled = pend[c].entitled
        /\ q.at = IF todo # {} THEN "checking" ELSE IF eligible = {} THEN "commit" ELSE "saving"
    BY <1>0, <2>1 DEF Pending
  <2>3. pend[c].at = "checking" /\ pend'[c] = q /\ UNCHANGED reader
    BY <1>0, <1>3, <2>1 DEF CheckAccess
  <2>4. Fetched(q) /\ Entitled(q)
    BY <1>0, <2>2, <2>3 DEF Fetched, Entitled
  <2>5. PICK e : e = Record(pend[c].p, pend[c].k)
    OBVIOUS
  <2>6. q.at = "commit" => Settled(e)'
    <3>1. SUFFICES ASSUME todo = {}, eligible = {} PROVE Settled(e)'
      BY <2>2
    <3>2. e \notin Malformed
      BY <1>0, <2>3, <2>5 DEF Processed
    <3>3. \A x \in Recipients[e] : <<x, e>> \in declined'
      BY <1>3, <2>5, <3>1 DEF CheckAccess, leftOut, PendingEvent
    <3>4. QED  BY <3>2, <3>3 DEF Settled
  <2>7. Record(q.p, q.k)' = e
    BY <2>2, <2>4, <2>5, FetchedKept
  <2>8. Processed(q)'
    <3>1. q.at \in {"checking", "saving"} => e \notin Malformed
      BY <1>0, <2>3, <2>5 DEF Processed
    <3>2. QED  BY <2>6, <2>7, <3>1 DEF Processed, Settled
  <2>9. QED  BY <2>3, <2>4, <2>8, DecisionSound
<1>4. CASE CheckFails(c) \/ SaveFails(c)
  <2>1. pend[c].at # "idle" /\ pend'[c] = retry(pend[c]) /\ UNCHANGED reader
    BY <1>0, <1>4 DEF CheckFails, SaveFails
  <2>2. PICK q : q = retry(pend[c])
    OBVIOUS
  <2>3. q.p = pend[c].p /\ q.k = pend[c].k /\ Processed(q) /\ Entitled(q)
    BY <1>0, <2>1, <2>2, RetrySound
  <2>4. Fetched(q)
    BY <1>0, <2>1, <2>3 DEF Fetched
  <2>5. QED  BY <2>1, <2>2, <2>3, <2>4, DecisionSound
<1>5. CASE SaveEventNotifications(c) \/ writeDLQ(c)
  <2>1. PICK q : q = [pend[c] EXCEPT !.at = "commit"]
    OBVIOUS
  <2>2. /\ q.p = pend[c].p /\ q.k = pend[c].k /\ q.eligible = pend[c].eligible
        /\ q.entitled = pend[c].entitled /\ q.at = "commit"
    BY <1>0, <2>1 DEF Pending
  <2>3. pend[c].at \in {"saving", "dlq"} /\ pend'[c] = q /\ UNCHANGED reader
    BY <1>0, <1>5, <2>1 DEF SaveEventNotifications, writeDLQ
  <2>4. Fetched(q) /\ Entitled(q)
    BY <1>0, <2>2, <2>3 DEF Fetched, Entitled
  <2>5. PICK e : e = Record(pend[c].p, pend[c].k)
    OBVIOUS
  <2>6. Settled(e)'
    <3>1. CASE SaveEventNotifications(c)
      <4>1. e \notin Malformed
        BY <1>0, <2>5, <3>1 DEF Processed, SaveEventNotifications
      <4>2. \A x \in Recipients[e] : <<x, e>> \in saved' \cup declined'
        BY <2>5, <3>1 DEF SaveEventNotifications, leftOut, PendingEvent
      <4>3. QED  BY <4>1, <4>2 DEF Settled
    <3>2. CASE writeDLQ(c)
      BY <2>5, <3>2 DEF writeDLQ, PendingEvent, Settled
    <3>3. QED  BY <1>5, <3>1, <3>2
  <2>7. Record(q.p, q.k)' = e
    BY <2>2, <2>4, <2>5, FetchedKept
  <2>8. Processed(q)'
    BY <2>2, <2>6, <2>7 DEF Processed, Settled
  <2>9. QED  BY <2>3, <2>4, <2>8, DecisionSound
<1>6. CASE commit(c) \/ crash(c)
  BY <1>0, <1>6 DEF commit, crash, NoPending
<1>7. ASSUME NEW p \in Partitions, NEW u \in Users, changeMembership(p, u)
      PROVE  Fetched(pend[c])' /\ Processed(pend[c])' /\ Entitled(pend[c])'
  <2>1. PICK q : q = pend'[c]
    OBVIOUS
  <2>2. pend[c].at # "idle" /\ q.at = pend[c].at /\ q.p = pend[c].p /\ q.k = pend[c].k
        /\ q.eligible = pend[c].eligible
    BY <1>0, <1>7, <2>1 DEF changeMembership, Pending
  <2>3. Fetched(q) /\ Processed(q)
    BY <1>0, <2>2 DEF Fetched, Processed
  <2>4. Entitled(q)'
    <3>1. CASE pend[c].p = p
      <4>1. q.entitled = pend[c].entitled \cup reader'[p]
        BY <1>0, <1>7, <2>1, <3>1 DEF changeMembership, Pending
      <4>2. QED  BY <1>0, <2>2, <3>1, <4>1 DEF Entitled
    <3>2. CASE pend[c].p # p
      <4>1. q = pend[c] /\ reader'[q.p] = reader[q.p]
        <5>1. q = pend[c] /\ q.p \in Partitions
          BY <1>0, <1>7, <2>1, <2>2, <3>2 DEF changeMembership, Fetched
        <5>2. QED  BY <1>0, <1>7, <3>2, <5>1 DEF changeMembership, TypeOK
      <4>2. QED  BY <1>0, <2>2, <4>1 DEF Entitled
    <3>3. QED  BY <3>1, <3>2
  <2>5. Fetched(q)' /\ Record(q.p, q.k)' = Record(q.p, q.k)
    BY <2>3, FetchedKept
  <2>6. Processed(q)'
    BY <1>7, <2>3, <2>5 DEF Processed, Settled, changeMembership, results
  <2>7. QED  BY <2>1, <2>4, <2>5, <2>6 DEF Fetched, Processed, Entitled, Settled, Record
<1>8. ASSUME NEW d \in Consumers, d # c, Consumer(d) PROVE pend'[c] = pend[c] /\ UNCHANGED reader
  BY <1>0, <1>8 DEF Consumer, FetchMessage, CheckAccess, CheckFails, SaveEventNotifications, SaveFails, writeDLQ,
       writeDLQFails, commit, commitFails, crash
<1>9. CASE publish \/ (\E p \in Partitions, d \in Consumers : firstAssignment(p, d) \/ rebalance(p, d))
           \/ writeDLQFails(c) \/ commitFails(c) \/ UNCHANGED vars
  BY <1>1, <1>9 DEF publish, firstAssignment, rebalance, assign, writeDLQFails, commitFails, vars
<1>10. QED
  BY <1>1, <1>2, <1>3, <1>4, <1>5, <1>6, <1>7, <1>8, <1>9 DEF Next, Consumption, Consumer

-----------------------------------------------------------------------------
(* The settled records of a partition stay its settled records. *)
LEMMA SettledKept ==
  ASSUME IInv, [Next]_vars, NEW p \in Partitions, NEW k \in 1..Len(topic[p]), Settled(Record(p, k))
  PROVE  Settled(Record(p, k))'
<1>1. Record(p, k)' = Record(p, k)
  BY RecordsKept
<1>2. PICK e : e = Record(p, k)
  OBVIOUS
<1>3. Settled(e)'
  BY <1>2, SettledForGood
<1>4. QED  BY <1>1, <1>2, <1>3 DEF Settled

(* A pending record is kept until it is settled, or its replica crashes. *)
LEMMA PendingHeld ==
  ASSUME IInv, [Next]_vars, NEW c \in Consumers, pend[c].at # "idle", ~crash(c)
  PROVE  \/ pend'[c].at # "idle" /\ pend'[c].p = pend[c].p /\ pend'[c].k = pend[c].k
         \/ Settled(Record(pend[c].p, pend[c].k))
<1>0. pend \in [Consumers -> Pending] /\ pend[c] \in Pending /\ Processed(pend[c])
  BY DEF IInv, TypeOK, PendingSound
<1>1. ASSUME NEW u \in Users, CheckAccess(c, u)
      PROVE  pend'[c].at # "idle" /\ pend'[c].p = pend[c].p /\ pend'[c].k = pend[c].k
  BY <1>0, <1>1 DEF CheckAccess, Pending
<1>2. CASE CheckFails(c) \/ SaveFails(c)
  <2>1. pend'[c] = retry(pend[c])
    BY <1>0, <1>2 DEF CheckFails, SaveFails
  <2>2. CASE pend[c].tries + 1 >= MaxProcessAttempts
    BY <1>0, <2>1, <2>2 DEF retry, Pending
  <2>3. CASE ~(pend[c].tries + 1 >= MaxProcessAttempts)
    BY <2>1, <2>3 DEF retry, handle
  <2>4. QED  BY <2>2, <2>3
<1>3. CASE SaveEventNotifications(c) \/ writeDLQ(c)
  BY <1>0, <1>3 DEF SaveEventNotifications, writeDLQ, Pending
<1>4. CASE commit(c)
  BY <1>0, <1>4 DEF commit, Processed
<1>5. ASSUME NEW p \in Partitions, NEW u \in Users, changeMembership(p, u)
      PROVE  pend'[c].at # "idle" /\ pend'[c].p = pend[c].p /\ pend'[c].k = pend[c].k
  BY <1>0, <1>5 DEF changeMembership, Pending
<1>6. ASSUME NEW d \in Consumers, d # c, Consumer(d) PROVE pend'[c] = pend[c]
  BY <1>0, <1>6 DEF Consumer, FetchMessage, CheckAccess, CheckFails, SaveEventNotifications, SaveFails, writeDLQ,
       writeDLQFails, commit, commitFails, crash
<1>7. CASE publish \/ (\E p \in Partitions, d \in Consumers : firstAssignment(p, d) \/ rebalance(p, d))
           \/ writeDLQFails(c) \/ commitFails(c) \/ UNCHANGED vars
  BY <1>7 DEF publish, firstAssignment, rebalance, assign, writeDLQFails, commitFails, vars
<1>8. CASE FetchMessage(c)
  BY <1>8 DEF FetchMessage
<1>9. QED
  BY <1>1, <1>2, <1>3, <1>4, <1>5, <1>6, <1>7, <1>8 DEF Next, Consumption, Consumer

(* Who owns a partition afterwards, and where it stands. *)
LEMMA OwnerStep ==
  ASSUME IInv, [Next]_vars, NEW p \in Partitions, owner'[p] # None
  PROVE  \/ owner'[p] = owner[p] /\ position'[p] = position[p] /\ ~crash(owner[p])
         \/ FetchMessage(owner[p]) /\ owner'[p] = owner[p] /\ position'[p] # position[p]
         \/ position'[p] = committed[p]
<1>0. /\ owner \in [Partitions -> Consumers \cup {None}] /\ position \in [Partitions -> Nat]
      /\ None \notin Consumers
  BY ConsumerAssumption DEF IInv, TypeOK
<1>1. ASSUME NEW c \in Consumers, FetchMessage(c)
      PROVE  \/ owner'[p] = owner[p] /\ position'[p] = position[p] /\ ~crash(owner[p])
             \/ FetchMessage(owner[p]) /\ owner'[p] = owner[p] /\ position'[p] # position[p]
  <2>1. PICK r \in Partitions : owner[r] = c /\ position' = [position EXCEPT ![r] = @ + 1] /\ UNCHANGED owner
    BY <1>1 DEF FetchMessage, group
  <2>2. CASE p = r
    BY <1>0, <1>1, <2>1, <2>2
  <2>3. CASE p # r
    BY <1>0, <1>1, <2>1, <2>3 DEF crash
  <2>4. QED  BY <2>2, <2>3
<1>2. ASSUME NEW c \in Consumers, crash(c)
      PROVE  owner'[p] = owner[p] /\ position'[p] = position[p] /\ ~crash(owner[p])
  <2>1. owner'[p] = owner[p] /\ owner[p] # c /\ UNCHANGED position
    BY <1>2 DEF crash
  <2>2. ~crash(owner[p])
    BY <2>1 DEF crash
  <2>3. QED  BY <2>1, <2>2
<1>3. ASSUME NEW r \in Partitions, NEW c \in Consumers, firstAssignment(r, c) \/ rebalance(r, c)
      PROVE  \/ owner'[p] = owner[p] /\ position'[p] = position[p] /\ ~crash(owner[p])
             \/ position'[p] = committed[p]
  <2>1. assign(r, c)
    BY <1>3 DEF firstAssignment, rebalance
  <2>2. CASE p = r
    BY <1>0, <2>1, <2>2 DEF assign, startingAt
  <2>3. CASE p # r
    <3>1. owner'[p] = owner[p] /\ position'[p] = position[p]
      BY <1>0, <2>1, <2>3 DEF assign
    <3>2. ~crash(owner[p])
      BY <3>1 DEF crash
    <3>3. QED  BY <3>1, <3>2
  <2>4. QED  BY <2>2, <2>3
<1>4. CASE UNCHANGED owner /\ UNCHANGED position
  BY <1>4 DEF crash
<1>5. ASSUME NEW c \in Consumers, Consumer(c), ~FetchMessage(c), ~crash(c)
      PROVE  UNCHANGED owner /\ UNCHANGED position
  BY <1>5 DEF Consumer, CheckAccess, CheckFails, SaveEventNotifications, SaveFails, writeDLQ, writeDLQFails,
       commit, commitFails, group
<1>6. CASE publish \/ (\E r \in Partitions, u \in Users : changeMembership(r, u)) \/ UNCHANGED vars
  BY <1>4, <1>6 DEF publish, changeMembership, vars, group
<1>7. QED
  BY <1>1, <1>2, <1>3, <1>4, <1>5, <1>6 DEF Next, Consumption

LEMMA PositionsStep ==
  ASSUME IInv, [Next]_vars
  PROVE  PositionsSound'
<1> SUFFICES ASSUME NEW p \in Partitions, owner'[p] # None
             PROVE  /\ position'[p] <= Len(topic'[p])
                    /\ \A k \in 1..position'[p] :
                         \/ Settled(Record(p, k))'
                         \/ pend'[owner'[p]].at # "idle" /\ pend'[owner'[p]].p = p /\ pend'[owner'[p]].k = k
  BY DEF PositionsSound
<1>0. /\ owner[p] \in Consumers \cup {None} /\ position[p] \in Nat /\ committed[p] \in Nat
      /\ topic[p] \in Seq(1..MaxVersion) /\ Len(topic[p]) \in Nat /\ Len(topic'[p]) \in Nat
      /\ Len(topic[p]) <= Len(topic'[p])
  BY RecordsKept DEF IInv, TypeOK
<1>1. CASE owner'[p] = owner[p] /\ position'[p] = position[p] /\ ~crash(owner[p])
  <2>1. position[p] <= Len(topic[p]) /\ owner[p] \in Consumers
    BY <1>0, <1>1 DEF IInv, PositionsSound
  <2>2. ASSUME NEW k \in 1..position[p]
        PROVE  \/ Settled(Record(p, k))'
               \/ pend'[owner[p]].at # "idle" /\ pend'[owner[p]].p = p /\ pend'[owner[p]].k = k
    <3>1. k \in 1..Len(topic[p])
      BY <1>0, <2>1
    <3>2. CASE Settled(Record(p, k))
      BY <3>1, <3>2, SettledKept
    <3>3. CASE pend[owner[p]].at # "idle" /\ pend[owner[p]].p = p /\ pend[owner[p]].k = k
      BY <1>1, <2>1, <3>1, <3>3, PendingHeld, SettledKept
    <3>4. QED  BY <1>1, <3>2, <3>3 DEF IInv, PositionsSound
  <2>3. QED  BY <1>0, <1>1, <2>1, <2>2
<1>2. CASE FetchMessage(owner[p]) /\ owner'[p] = owner[p] /\ position'[p] # position[p]
  <2>1. owner[p] \in Consumers /\ pend[owner[p]].at = "idle"
    BY <1>0, <1>2 DEF FetchMessage
  <2>2. /\ position[p] < Len(topic[p]) /\ position'[p] = position[p] + 1
        /\ pend'[owner[p]] = handle(p, position[p] + 1, 0)
    BY <1>2, <2>1 DEF FetchMessage, IInv, TypeOK
  <2>3. pend'[owner[p]].at # "idle" /\ pend'[owner[p]].p = p /\ pend'[owner[p]].k = position[p] + 1
    BY <2>2 DEF handle
  <2>4. ASSUME NEW k \in 1..position[p] PROVE Settled(Record(p, k))'
    <3>1. Settled(Record(p, k)) /\ k \in 1..Len(topic[p])
      BY <1>0, <1>2, <2>1, <2>2 DEF IInv, PositionsSound
    <3>2. QED  BY <3>1, SettledKept
  <2>5. QED  BY <1>0, <1>2, <2>2, <2>3, <2>4
<1>3. CASE position'[p] = committed[p]
  <2>1. ASSUME NEW k \in 1..committed[p] PROVE k \in 1..Len(topic[p]) /\ Settled(Record(p, k))
    BY <1>0 DEF IInv, CommittedIsSettled
  <2>2. committed[p] <= Len(topic[p])
    <3>1. CASE committed[p] = 0
      BY <1>0, <3>1
    <3>2. CASE committed[p] # 0
      BY <1>0, <2>1, <3>2
    <3>3. QED  BY <3>1, <3>2
  <2>3. \A k \in 1..committed[p] : Settled(Record(p, k))'
    BY <2>1, SettledKept
  <2>4. QED  BY <1>0, <1>3, <2>2, <2>3
<1>4. QED  BY <1>1, <1>2, <1>3, OwnerStep

-----------------------------------------------------------------------------
LEMMA CommittedStep ==
  ASSUME IInv, [Next]_vars
  PROVE  CommittedIsSettled'
<1> SUFFICES ASSUME NEW p \in Partitions, NEW k \in 1..committed'[p]
             PROVE  k \in 1..Len(topic[p]) /\ Settled(Record(p, k))
  <2>1. ASSUME NEW p \in Partitions, NEW k \in 1..Len(topic[p]), Settled(Record(p, k))
        PROVE  k \in DOMAIN topic'[p] /\ Settled(Record(p, k))'
    <3>1. topic'[p] \in Seq(1..MaxVersion) /\ Len(topic[p]) <= Len(topic'[p]) /\ Len(topic[p]) \in Nat
      BY TypeStep, RecordsKept DEF TypeOK
    <3>2. QED  BY <2>1, <3>1, SettledKept
  <2>2. QED  BY <2>1 DEF CommittedIsSettled
<1>0. committed \in [Partitions -> Nat] /\ topic \in [Partitions -> Seq(1..MaxVersion)]
  BY DEF IInv, TypeOK
<1>1. CASE committed'[p] = committed[p]
  BY <1>0, <1>1 DEF IInv, CommittedIsSettled
<1>2. ASSUME NEW c \in Consumers, commit(c) \/ commitFails(c), committed'[p] # committed[p]
      PROVE  k \in 1..Len(topic[p]) /\ Settled(Record(p, k))
  <2>1. pend[c].at = "commit" /\ pend[c].p = p /\ committed'[p] = pend[c].k
    BY <1>0, <1>2 DEF commit, commitFails
  <2>2. Fetched(pend[c]) /\ Processed(pend[c])
    BY <2>1 DEF IInv, PendingSound
  <2>3. QED  BY <1>0, <2>1, <2>2 DEF Fetched, Processed
<1>3. CASE \A c \in Consumers : ~commit(c) /\ ~commitFails(c)
  BY <1>1, <1>3 DEF Next, Consumption, Consumer, FetchMessage, CheckAccess, CheckFails, SaveEventNotifications, SaveFails,
       writeDLQ, writeDLQFails, crash, firstAssignment, rebalance, assign, changeMembership, publish, vars, group
<1>4. QED  BY <1>1, <1>2, <1>3

(* What is written about an event is written for a pending record that is  *)
(* being saved for its eligible recipients, or dead-lettered.              *)
LEMMA OnlyPendingIsWritten ==
  ASSUME [Next]_vars
  PROVE  /\ \A e \in dlq' \ dlq : \E c \in Consumers : pend[c].at = "dlq" /\ e = PendingEvent(c)
         /\ \A n \in saved' \ saved : \E c \in Consumers :
              pend[c].at = "saving" /\ n[1] \in pend[c].eligible /\ n[2] = PendingEvent(c)
<1>1. ASSUME NEW c \in Consumers, writeDLQ(c) \/ writeDLQFails(c)
      PROVE  pend[c].at = "dlq" /\ dlq' = dlq \cup {PendingEvent(c)} /\ saved' = saved
  BY <1>1 DEF writeDLQ, writeDLQFails
<1>2. ASSUME NEW c \in Consumers, SaveEventNotifications(c) \/ SaveFails(c)
      PROVE  /\ pend[c].at = "saving" /\ dlq' = dlq
             /\ saved' \subseteq saved \cup (pend[c].eligible \X {PendingEvent(c)})
  BY <1>2 DEF SaveEventNotifications, SaveFails
<1>3. CASE \A c \in Consumers : /\ ~writeDLQ(c) /\ ~writeDLQFails(c)
                                /\ ~SaveEventNotifications(c) /\ ~SaveFails(c)
  <2>1. dlq' = dlq /\ saved' = saved
    BY <1>3 DEF Next, Consumption, Consumer, FetchMessage, CheckAccess, CheckFails, commit, commitFails, crash,
         firstAssignment, rebalance, assign, changeMembership, publish, vars, results
  <2>2. QED  BY <2>1
<1>4. CASE \E c \in Consumers : writeDLQ(c) \/ writeDLQFails(c)
  BY <1>1, <1>4
<1>5. CASE \E c \in Consumers : SaveEventNotifications(c) \/ SaveFails(c)
  BY <1>2, <1>5
<1>6. QED  BY <1>3, <1>4, <1>5

LEMMA IssueOrderStep ==
  ASSUME IInv, [Next]_vars
  PROVE  InIssueOrder'
<1> SUFFICES ASSUME NEW p \in Partitions, NEW v \in 1..MaxVersion, NEW w \in 1..(v - 1),
                    <<p, v>> \in dlq' \/ (\E u \in Users : <<u, <<p, v>> >> \in saved')
             PROVE  Settled(<<p, w>>)
  <2>1. \A e : Settled(e) => Settled(e)'
    BY SettledForGood
  <2>2. QED  BY <2>1 DEF InIssueOrder, Settled
<1>1. CASE <<p, v>> \in dlq \/ (\E u \in Users : <<u, <<p, v>> >> \in saved)
  BY <1>1 DEF IInv, InIssueOrder
<1>2. CASE ~(<<p, v>> \in dlq \/ (\E u \in Users : <<u, <<p, v>> >> \in saved))
  <2>1. PICK c \in Consumers : pend[c].at # "idle" /\ <<p, v>> = PendingEvent(c)
    BY <1>2, OnlyPendingIsWritten
  <2>2. Fetched(pend[c])
    BY <2>1 DEF IInv, PendingSound
  <2>3. pend[c].p = p /\ pend[c].k \in 1..Len(topic[p]) /\ topic[p][pend[c].k] = v
    <3>1. <<p, v>> = <<pend[c].p, topic[pend[c].p][pend[c].k]>>
      BY <2>1 DEF PendingEvent, Record
    <3>2. p = pend[c].p /\ v = topic[pend[c].p][pend[c].k]
      BY <3>1
    <3>3. QED  BY <2>2, <3>2 DEF Fetched
  <2>4. PICK j \in 1..(pend[c].k - 1) : topic[p][j] = w
    <3>1. LogOrdered /\ w \in 1..(topic[p][pend[c].k] - 1)
      BY <2>3 DEF IInv
    <3>2. QED  BY <2>3, <3>1 DEF LogOrdered
  <2>5. Settled(Record(pend[c].p, j))
    BY <2>2 DEF Fetched
  <2>6. QED  BY <2>3, <2>4, <2>5 DEF Record
<1>3. QED  BY <1>1, <1>2

-----------------------------------------------------------------------------
(* The invariant holds in every reachable state, for any number of         *)
(* replicas, partitions, users, attempts, and any set of faults.           *)
THEOREM Invariance == Spec => []IInv
<1>1. Init => IInv
  BY InitSound
<1>2. IInv /\ [Next]_vars => IInv'
  BY TypeStep, LogStep, PendingStep, PositionsStep, CommittedStep, IssueOrderStep DEF IInv
<1>3. QED  BY <1>1, <1>2, PTL DEF Spec

THEOREM TypeCorrect == Spec => []TypeOK
<1>1. IInv => TypeOK
  BY DEF IInv
<1>2. QED  BY <1>1, Invariance, PTL

(* The commit after the processing of issue_events.go:90, with one pending *)
(* record per replica, lets no crash or rebalance skip a record.           *)
THEOREM NothingSkipped == Spec => []CommittedIsSettled
<1>1. IInv => CommittedIsSettled
  BY DEF IInv
<1>2. QED  BY <1>1, Invariance, PTL

(* The order in which the outbox delivers the events of an issue is the    *)
(* order in which anything is done about them.                             *)
THEOREM IssueOrder == Spec => []InIssueOrder
<1>1. IInv => InIssueOrder
  BY DEF IInv
<1>2. QED  BY <1>1, Invariance, PTL

(* A retried attempt starts without the decisions of the failed one, so a  *)
(* notification rests on an access check of its own attempt.               *)
THEOREM AccessIsFresh == Spec => FreshAccess
<1> DEFINE Fresh == \A n \in saved' \ saved :
              \E c \in Consumers : /\ pend[c].at = "saving" /\ PendingEvent(c) = n[2]
                                   /\ n[1] \in pend[c].entitled
<1>1. ASSUME IInv, [Next]_vars PROVE [Fresh]_vars
  <2>1. SUFFICES ASSUME NEW n \in saved' \ saved
                 PROVE  \E c \in Consumers : /\ pend[c].at = "saving" /\ PendingEvent(c) = n[2]
                                             /\ n[1] \in pend[c].entitled
    OBVIOUS
  <2>2. PICK c \in Consumers : pend[c].at = "saving" /\ n[1] \in pend[c].eligible /\ n[2] = PendingEvent(c)
    BY <1>1, <2>1, OnlyPendingIsWritten
  <2>3. Entitled(pend[c])
    BY <1>1, <2>2 DEF IInv, PendingSound
  <2>4. QED  BY <2>2, <2>3 DEF Entitled
<1>2. QED  BY <1>1, Invariance, PTL DEF Spec, FreshAccess

-----------------------------------------------------------------------------
(* The pipeline.  The consumers leave the topic alone, so the publishers   *)
(* behave as they do by themselves.                                        *)
LEMMA ConsumptionFrame ==
  ASSUME Consumption
  PROVE  UNCHANGED log
BY DEF Consumption, Consumer, FetchMessage, CheckAccess, CheckFails, SaveEventNotifications, SaveFails,
       writeDLQ, writeDLQFails, commit, commitFails, crash, firstAssignment, rebalance, assign,
       changeMembership

LEMMA PublishersRun == PipelineSpec => Publishers!Spec
<1>1. PipelineInit => Publishers!Init
  BY DEF PipelineInit
<1>2. ASSUME [PipelineNext]_pipelineVars PROVE [Publishers!Next]_(Publishers!vars)
  <2>1. CASE Consumption /\ UNCHANGED publishing
    BY <2>1, ConsumptionFrame DEF log, publishing, Publishers!vars
  <2>2. CASE UNCHANGED pipelineVars
    BY <2>2 DEF pipelineVars, vars, log, publishing, Publishers!vars
  <2>3. QED  BY <1>2, <2>1, <2>2 DEF PipelineNext
<1>3. QED  BY <1>1, <1>2, PTL DEF PipelineSpec, Publishers!Spec

(* The logs stay within their bound: no broker appends beyond it. *)
LogBounded == \A p \in Partitions : Len(topic[p]) <= MaxLog

LEMMA BoundedStep ==
  ASSUME Publishers!OutboxAssumption, Publishers!IInv, LogBounded, [Publishers!Next]_(Publishers!vars)
  PROVE  LogBounded'
<1>1. topic \in [Partitions -> Seq(1..MaxVersion)] /\ MaxLog \in Nat
  BY DEF Publishers!IInv, Publishers!TypeOK, Publishers!OutboxAssumption
<1>2. CASE topic' = topic
  BY <1>2 DEF LogBounded
<1>3. ASSUME NEW e \in Publishers!Event, Publishers!append(e) PROVE LogBounded'
  <2>1. e[1] \in Partitions /\ e[2] \in 1..MaxVersion
    BY DEF Publishers!Event
  <2>2. Len(topic[e[1]]) < MaxLog /\ topic' = [topic EXCEPT ![e[1]] = Append(topic[e[1]], e[2])]
    BY <1>3 DEF Publishers!append
  <2>3. Len(topic'[e[1]]) = Len(topic[e[1]]) + 1 /\ \A p \in Partitions \ {e[1]} : topic'[p] = topic[p]
    BY <1>1, <2>1, <2>2
  <2>4. QED  BY <1>1, <2>1, <2>2, <2>3 DEF LogBounded
<1>4. QED  BY <1>2, <1>3, Publishers!GatedAppend

LEMMA Bounded ==
  ASSUME Publishers!OutboxAssumption
  PROVE  PipelineSpec => []LogBounded
<1>1. PipelineInit => LogBounded
  BY DEF PipelineInit, Init, Log!Init, LogBounded, Publishers!OutboxAssumption
<1>2. ASSUME Publishers!IInv, LogBounded, [Publishers!Next]_(Publishers!vars) PROVE LogBounded'
  BY <1>2, BoundedStep
<1>3. QED
  BY PublishersRun, Publishers!Invariance, <1>1, <1>2, PTL DEF PipelineSpec, Publishers!Spec

(* What the publishers do to the topic, the consumers expected of it. *)
LEMMA PublisherPublishes ==
  ASSUME Publishers!OutboxAssumption, Publishers!IInv, LogBounded, Publishers!Next,
         UNCHANGED <<group, pend, results, reader, disruptions>>
  PROVE  [Next]_vars
<1>1. [Log!Next]_log
  <2>1. [Publishers!Log!Next]_<<written, topic>>
    BY Publishers!StepSimulates
  <2>2. Publishers!Log!Next => Log!Next
    BY DEF Publishers!Log!Next, Log!Next, Publishers!Log!Write, Log!Write,
           Publishers!Log!Deliver, Log!Deliver, Publishers!Log!Occurs, Log!Occurs
  <2>3. QED  BY <2>1, <2>2 DEF log
<1>2. \A p \in Partitions : written'[p] <= MaxVersion
  <2>1. Publishers!TypeOK'
    BY Publishers!TypeStep DEF Publishers!IInv
  <2>2. QED  BY <2>1 DEF Publishers!TypeOK
<1>3. \A p \in Partitions : Len(topic'[p]) <= MaxLog
  BY BoundedStep DEF LogBounded
<1>4. CASE Log!Next
  BY <1>2, <1>3, <1>4 DEF Next, publish
<1>5. CASE UNCHANGED log
  BY <1>5 DEF vars, group, results
<1>6. QED  BY <1>1, <1>4, <1>5

(* The assumption of NotificationConsumer about its topic is discharged:   *)
(* with the real publishers in place of publish, whatever their replicas,  *)
(* leases and faults, the group runs as specified, so that all theorems    *)
(* above hold of it.                                                       *)
THEOREM Composition ==
  ASSUME Publishers!OutboxAssumption
  PROVE  PipelineSpec => Spec
<1>1. PipelineInit => Init
  BY DEF PipelineInit
<1>2. ASSUME Publishers!IInv, LogBounded, [PipelineNext]_pipelineVars PROVE [Next]_vars
  <2>1. CASE Publishers!Next /\ UNCHANGED <<group, pend, results, reader, disruptions>>
    BY <1>2, <2>1, PublisherPublishes
  <2>2. CASE Consumption
    BY <2>2 DEF Next
  <2>3. CASE UNCHANGED pipelineVars
    BY <2>3 DEF pipelineVars
  <2>4. QED  BY <1>2, <2>1, <2>2, <2>3 DEF PipelineNext
<1>3. QED
  BY PublishersRun, Publishers!Invariance, Bounded, <1>1, <1>2, PTL DEF PipelineSpec, Spec

(* Something is only done about an event of the topic. *)
Announced == \A e \in Event : Handled(e) => Publishers!Delivered(e)

LEMMA DeliveredKept ==
  ASSUME IInv, [Next]_vars, NEW e \in Event, Publishers!Delivered(e)
  PROVE  Publishers!Delivered(e)'
<1>1. e[1] \in Partitions
  BY DEF Event
<1>2. topic[e[1]] \in Seq(1..MaxVersion) /\ topic'[e[1]] \in Seq(1..MaxVersion)
  BY <1>1, TypeStep DEF IInv, TypeOK
<1>3. PICK k \in 1..Len(topic[e[1]]) : topic[e[1]][k] = e[2]
  BY <1>2 DEF Publishers!Delivered, Publishers!Occurs
<1>4. k \in 1..Len(topic'[e[1]]) /\ topic'[e[1]][k] = e[2]
  BY <1>1, <1>3, RecordsKept
<1>5. QED  BY <1>2, <1>4 DEF Publishers!Delivered, Publishers!Occurs

LEMMA AnnouncedStep ==
  ASSUME IInv, Announced, [Next]_vars
  PROVE  Announced'
<1> SUFFICES ASSUME NEW e \in Event, Handled(e)' PROVE Publishers!Delivered(e)'
  BY DEF Announced
<1>1. CASE Handled(e)
  BY <1>1, DeliveredKept DEF Announced
<1>2. CASE ~Handled(e)
  <2>1. e \in dlq' \ dlq \/ \E u \in Users : <<u, e>> \in saved' \ saved
    BY <1>2 DEF Handled
  <2>2. PICK c \in Consumers : pend[c].at # "idle" /\ e = PendingEvent(c)
    BY <2>1, OnlyPendingIsWritten
  <2>3. Fetched(pend[c])
    BY <2>2 DEF IInv, PendingSound
  <2>4. e = <<pend[c].p, topic[pend[c].p][pend[c].k]>>
    BY <2>2 DEF PendingEvent, Record
  <2>5. topic[e[1]] \in Seq(1..MaxVersion) /\ pend[c].k \in 1..Len(topic[e[1]]) /\ topic[e[1]][pend[c].k] = e[2]
    BY <2>3, <2>4 DEF Fetched, IInv, TypeOK
  <2>6. Publishers!Delivered(e)
    BY <2>5 DEF Publishers!Delivered, Publishers!Occurs
  <2>7. QED  BY <2>6, DeliveredKept
<1>3. QED  BY <1>1, <1>2

(* From the transaction to the recipient: nobody is told of a version, and *)
(* none is dead-lettered, unless it was written and all earlier versions   *)
(* of the issue are marked published and settled.                          *)
THEOREM EndToEnd ==
  ASSUME Publishers!OutboxAssumption
  PROVE  PipelineSpec => []OrderedEndToEnd
<1>1. Init => Announced
  BY DEF Init, Announced, Handled
<1>2. ASSUME IInv, Announced, [Next]_vars PROVE Announced'
  BY <1>2, AnnouncedStep
<1>3. ASSUME IInv, Announced, Publishers!IInv PROVE OrderedEndToEnd
  <2> SUFFICES ASSUME NEW p \in Partitions, NEW v \in 1..MaxVersion, Handled(<<p, v>>)
               PROVE  /\ v <= written[p]
                      /\ \A w \in 1..(v - 1) : <<p, w>> \in published /\ Settled(<<p, w>>)
    BY DEF OrderedEndToEnd
  <2>1. <<p, v>> \in Event /\ <<p, v>> \in Publishers!Event /\ MaxVersion \in Nat
    BY ConsumerAssumption DEF Event, Publishers!Event
  <2>2. Publishers!Delivered(<<p, v>>)
    BY <1>3, <2>1 DEF Announced
  <2>3. v <= written[p]
    BY <1>3, <2>1, <2>2 DEF Publishers!IInv, Publishers!DeliveredIsStored, Publishers!Stored
  <2>4. ASSUME NEW w \in 1..(v - 1) PROVE <<p, w>> \in published /\ Settled(<<p, w>>)
    <3>1. <<p, w>> \in Publishers!Earlier(<<p, v>>)
      BY <2>1 DEF Publishers!Earlier, Publishers!Event
    <3>2. <<p, w>> \in published
      BY <1>3, <2>1, <2>2, <3>1 DEF Publishers!IInv, Publishers!BlockedBehindUnpublished
    <3>3. Settled(<<p, w>>)
      BY <1>3 DEF IInv, InIssueOrder, Handled
    <3>4. QED  BY <3>2, <3>3
  <2>5. QED  BY <2>3, <2>4
<1>4. QED
  BY Composition, Invariance, PublishersRun, Publishers!Invariance, <1>1, <1>2, <1>3, PTL DEF Spec
=============================================================================
