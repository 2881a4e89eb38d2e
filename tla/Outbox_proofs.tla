--------------------------- MODULE Outbox_proofs ---------------------------
(***************************************************************************)
(* For any number of issues, replicas, attempts and faults: the topic is   *)
(* an ordered log of what was written, nothing is marked published that is *)
(* not in it, an unpublished event holds back its successors, and a normal *)
(* delivery is the only one of its event.                                  *)
(***************************************************************************)
EXTENDS OutboxHistory, TLAPS

(* What a publisher knows of its batch: the rows passed the gate, which    *)
(* stays passed because published_at is never cleared, and the sends that  *)
(* no longer count as open were appended unless one of them failed.        *)
BatchSound(r) ==
  /\ pub[r].left \subseteq pub[r].events
  /\ \A e \in pub[r].events : e \in Stored /\ firstUnpublished(e)
  /\ \A e \in pub[r].sent : Delivered(e)
  /\ pub[r].at = "sending" /\ ~pub[r].failed => pub[r].events \ pub[r].left \subseteq pub[r].sent
  /\ pub[r].at = "marking" => pub[r].events \subseteq pub[r].sent

BatchesSound == \A r \in Replicas : BatchSound(r)

LimboSound == \A e \in limbo : e \in Stored /\ firstUnpublished(e)

DeliveredIsStored == \A e \in Event : Delivered(e) => e \in Stored

(* PublishedIsDelivered alone is not inductive: markEventsPublished needs  *)
(* the batch to be in the topic, which needs every step of a send.         *)
IInv ==
  /\ TypeOK
  /\ BatchesSound
  /\ LimboSound
  /\ DeliveredIsStored
  /\ PublishedIsDelivered
  /\ BlockedBehindUnpublished

-----------------------------------------------------------------------------
(* Appending to a log adds one version to it and removes none. *)
LEMMA AppendOccurs ==
  ASSUME NEW S, NEW log \in Seq(S), NEW v \in S, NEW w
  PROVE  Occurs(w, Append(log, v)) <=> Occurs(w, log) \/ w = v
<1>1. /\ DOMAIN log = 1..Len(log)
      /\ DOMAIN Append(log, v) = 1..(Len(log) + 1)
      /\ Append(log, v)[Len(log) + 1] = v
      /\ \A k \in 1..Len(log) : Append(log, v)[k] = log[k]
      /\ Len(log) \in Nat
  OBVIOUS
<1>2. Len(log) + 1 \in 1..(Len(log) + 1) /\ 1..(Len(log) + 1) = 1..Len(log) \cup {Len(log) + 1}
  BY <1>1
<1>3. QED  BY <1>1, <1>2 DEF Occurs

LEMMA AppendDelivers ==
  ASSUME TypeOK, NEW e \in Event, append(e)
  PROVE  /\ topic' \in [Aggregates -> Seq(1..MaxVersion)]
         /\ \A d \in Event : Delivered(d)' <=> Delivered(d) \/ d = e
<1>1. e[1] \in Aggregates /\ e[2] \in 1..MaxVersion
  BY DEF Event
<1>2. topic[e[1]] \in Seq(1..MaxVersion)
  BY <1>1 DEF TypeOK
<1>3. topic' = [topic EXCEPT ![e[1]] = Append(topic[e[1]], e[2])]
  BY DEF append
<1>4. topic' \in [Aggregates -> Seq(1..MaxVersion)]
  BY <1>1, <1>2, <1>3 DEF TypeOK
<1>5. ASSUME NEW d \in Event
      PROVE  Delivered(d)' <=> Delivered(d) \/ d = e
  <2>1. d[1] \in Aggregates /\ (d = e <=> d[1] = e[1] /\ d[2] = e[2])
    BY <1>1 DEF Event
  <2>2. CASE d[1] = e[1]
    <3>1. topic'[d[1]] = Append(topic[e[1]], e[2])
      BY <1>3, <2>2, <1>1 DEF TypeOK
    <3>2. \A log \in Seq(1..MaxVersion), v \in 1..MaxVersion : \A w :
            Occurs(w, Append(log, v)) <=> Occurs(w, log) \/ w = v
      BY AppendOccurs
    <3>3. Occurs(d[2], Append(topic[e[1]], e[2])) <=> Occurs(d[2], topic[e[1]]) \/ d[2] = e[2]
      BY <1>1, <1>2, <3>2
    <3>4. QED  BY <2>1, <2>2, <3>1, <3>3 DEF Delivered
  <2>3. CASE d[1] # e[1]
    <3>1. topic'[d[1]] = topic[d[1]]
      BY <1>3, <2>1, <2>3 DEF TypeOK
    <3>2. QED  BY <2>1, <2>3, <3>1 DEF Delivered
  <2>4. QED  BY <2>2, <2>3
<1>6. QED  BY <1>4, <1>5

LEMMA SettleType ==
  ASSUME NEW b \in Batch, NEW e \in Event, NEW rejected \in BOOLEAN
  PROVE  settle(b, e, rejected) \in Batch
BY DEF settle, Batch, Stages

-----------------------------------------------------------------------------
(* Every variable keeps its type (TypeOK). *)
LEMMA TypeStep ==
  ASSUME TypeOK, [Next]_vars
  PROVE  TypeOK'
<1> USE DEF TypeOK, rows
<1>1. ASSUME NEW a \in Aggregates, insertEvent(a) PROVE TypeOK'
  <2>1. written[a] \in 0..MaxVersion /\ written[a] < MaxVersion
    BY <1>1 DEF insertEvent
  <2>2. MaxVersion \in Nat
    BY OutboxAssumption
  <2>3. written[a] + 1 \in 1..MaxVersion
    BY <2>1, <2>2
  <2>4. <<a, written[a] + 1>> \in Event
    BY <2>3 DEF Event
  <2>5. written' \in [Aggregates -> 0..MaxVersion]
    BY <1>1, <2>3 DEF insertEvent
  <2>6. QED  BY <1>1, <2>4, <2>5 DEF insertEvent
<1>2. ASSUME NEW r \in Replicas, claimPendingEvents(r) PROVE TypeOK'
  <2>1. PICK events \in SUBSET {e \in Event : claimable(e)} :
          /\ due' = leased(events)
          /\ pub' = [pub EXCEPT ![r] = [NoBatch EXCEPT !.at = "sending",
                                                       !.events = events, !.left = events]]
    BY <1>2 DEF claimPendingEvents
  <2>2. [NoBatch EXCEPT !.at = "sending", !.events = events, !.left = events] \in Batch
    BY DEF NoBatch, Batch, Stages
  <2>3. pub' \in [Replicas -> Batch]
    BY <2>1, <2>2
  <2>4. due' \subseteq Event
    BY <2>1 DEF leased
  <2>5. QED  BY <1>2, <2>3, <2>4 DEF claimPendingEvents
<1>3. ASSUME NEW r \in Replicas, NEW e \in Event, brokerAppends(r, e) PROVE TypeOK'
  <2>1. topic' \in [Aggregates -> Seq(1..MaxVersion)]
    BY <1>3, AppendDelivers DEF brokerAppends
  <2>2. pub' \in [Replicas -> Batch]
    BY <1>3 DEF brokerAppends, Batch
  <2>3. QED  BY <1>3, <2>1, <2>2 DEF brokerAppends
<1>4. ASSUME NEW r \in Replicas, NEW e \in Event, sendResolves(r, e) PROVE TypeOK'
  <2>1. settle(pub[r], e, FALSE) \in Batch
    BY SettleType
  <2>2. QED  BY <1>4, <2>1 DEF sendResolves
<1>5. ASSUME NEW r \in Replicas, NEW e \in Event, sendRejects(r, e) PROVE TypeOK'
  <2>1. settle(pub[r], e, TRUE) \in Batch
    BY SettleType
  <2>2. QED  BY <1>5, <2>1 DEF sendRejects, lingering
<1>6. ASSUME NEW r \in Replicas, markEventsPublished(r) PROVE TypeOK'
  <2>1. pub[r].events \subseteq Event /\ NoBatch \in Batch
    BY DEF Batch, NoBatch, Stages
  <2>2. QED  BY <1>6, <2>1 DEF markEventsPublished
<1>7. ASSUME NEW r \in Replicas, markFails(r) PROVE TypeOK'
  <2>1. pub[r].events \subseteq Event
    BY DEF Batch
  <2>2. pub' \in [Replicas -> Batch]
    <3>1. [pub[r] EXCEPT !.at = "recording", !.left = pub[r].events] \in Batch
      BY <2>1 DEF Batch, Stages
    <3>2. QED  BY <1>7, <3>1 DEF markFails
  <2>3. published' \subseteq Event
    BY <1>7, <2>1 DEF markFails
  <2>4. QED  BY <1>7, <2>2, <2>3 DEF markFails
<1>8. ASSUME NEW r \in Replicas, NEW e \in Event, recordPublishFailure(r, e) PROVE TypeOK'
  <2>1. NoBatch \in Batch /\ [pub[r] EXCEPT !.left = pub[r].left \ {e}] \in Batch
    BY DEF Batch, NoBatch, Stages
  <2>2. pub' \in [Replicas -> Batch]
    BY <1>8, <2>1 DEF recordPublishFailure
  <2>3. QED  BY <1>8, <2>2 DEF recordPublishFailure
<1>9. ASSUME NEW r \in Replicas, recordThrows(r) \/ crash(r) PROVE TypeOK'
  <2>1. NoBatch \in Batch /\ pub[r].left \subseteq Event
    BY DEF Batch, NoBatch, Stages
  <2>2. QED  BY <1>9, <2>1 DEF recordThrows, crash, lingering
<1>10. ASSUME NEW e \in Event, lateAppend(e) PROVE TypeOK'
  <2>1. topic' \in [Aggregates -> Seq(1..MaxVersion)]
    BY <1>10, AppendDelivers DEF lateAppend
  <2>2. QED  BY <1>10, <2>1 DEF lateAppend
<1>11. ASSUME NEW e \in Event, requestLost(e) \/ becomesDue(e) PROVE TypeOK'
  BY <1>11 DEF requestLost, becomesDue
<1>12. CASE requeue
  BY <1>12 DEF requeue
<1>13. CASE UNCHANGED vars
  BY <1>13 DEF vars
<1>14. QED
  BY <1>1, <1>2, <1>3, <1>4, <1>5, <1>6, <1>7, <1>8, <1>9, <1>10, <1>11, <1>12, <1>13
     DEF Next, Publisher

-----------------------------------------------------------------------------
(* What no step undoes: a row stays stored and published, a record stays   *)
(* in the topic, and a passed gate stays passed.                           *)
LEMMA Monotone ==
  ASSUME TypeOK, [Next]_vars
  PROVE  /\ Stored \subseteq Stored'
         /\ published \subseteq published'
         /\ \A e \in Event : Delivered(e) => Delivered(e)'
         /\ \A e \in Event : firstUnpublished(e) => firstUnpublished(e)'
<1>1. Stored \subseteq Stored'
  <2>1. CASE UNCHANGED written
    BY <2>1 DEF Stored
  <2>2. ASSUME NEW a \in Aggregates, insertEvent(a) PROVE Stored \subseteq Stored'
    <3>1. \A b \in Aggregates : written[b] \in Nat /\ written'[b] \in Nat /\ written[b] <= written'[b]
      BY <2>2, OutboxAssumption DEF insertEvent, TypeOK
    <3>2. \A e \in Event : e[1] \in Aggregates /\ e[2] \in Nat
      BY DEF Event
    <3>3. QED  BY <3>1, <3>2 DEF Stored
  <2>3. UNCHANGED written \/ \E a \in Aggregates : insertEvent(a)
    BY DEF Next, Publisher, vars, rows, claimPendingEvents, brokerAppends, sendResolves, sendRejects,
           markEventsPublished, markFails, recordPublishFailure, recordThrows, crash,
           lateAppend, requestLost, becomesDue, requeue
  <2>4. QED  BY <2>1, <2>2, <2>3
<1>2. published \subseteq published'
  BY DEF Next, Publisher, vars, rows, claimPendingEvents, brokerAppends, sendResolves, sendRejects,
         markEventsPublished, markFails, recordPublishFailure, recordThrows, crash,
         lateAppend, requestLost, becomesDue, requeue, insertEvent
<1>3. \A e \in Event : Delivered(e) => Delivered(e)'
  <2>1. CASE UNCHANGED topic
    BY <2>1 DEF Delivered
  <2>2. ASSUME NEW d \in Event, append(d) PROVE \A e \in Event : Delivered(e) => Delivered(e)'
    BY <2>2, AppendDelivers
  <2>3. UNCHANGED topic \/ \E d \in Event : append(d)
    BY DEF Next, Publisher, vars, rows, claimPendingEvents, brokerAppends, sendResolves, sendRejects,
           markEventsPublished, markFails, recordPublishFailure, recordThrows, crash,
           lateAppend, requestLost, becomesDue, requeue, insertEvent
  <2>4. QED  BY <2>1, <2>2, <2>3
<1>4. QED  BY <1>1, <1>2, <1>3 DEF firstUnpublished, Earlier

-----------------------------------------------------------------------------
(* Every record of the topic was stored first. *)
LEMMA DeliveredStep ==
  ASSUME IInv, [Next]_vars
  PROVE  DeliveredIsStored'
<1> USE DEF IInv
<1>1. Stored \subseteq Stored'
  BY Monotone
<1>2. CASE UNCHANGED topic
  BY <1>1, <1>2 DEF DeliveredIsStored, Delivered
<1>3. ASSUME NEW e \in Event, append(e), e \in Stored PROVE DeliveredIsStored'
  BY <1>1, <1>3, AppendDelivers DEF DeliveredIsStored
<1>4. ASSUME NEW r \in Replicas, NEW e \in Event, brokerAppends(r, e)
      PROVE  append(e) /\ e \in Stored
  BY <1>4 DEF brokerAppends, BatchesSound, BatchSound
<1>5. ASSUME NEW e \in Event, lateAppend(e) PROVE append(e) /\ e \in Stored
  BY <1>5 DEF lateAppend, LimboSound
<1>6. QED
  BY <1>2, <1>3, <1>4, <1>5
     DEF Next, Publisher, vars, rows, claimPendingEvents, sendResolves, sendRejects,
         markEventsPublished, markFails, recordPublishFailure, recordThrows, crash,
         requestLost, becomesDue, requeue, insertEvent

(* What limbo receives comes from a batch, which passed the gate. *)
LEMMA LimboStep ==
  ASSUME IInv, [Next]_vars
  PROVE  LimboSound'
<1> USE DEF IInv
<1>1. /\ Stored \subseteq Stored'
      /\ \A e \in Event : firstUnpublished(e) => firstUnpublished(e)'
  BY Monotone
<1>2. ASSUME \A e \in limbo' : e \in Event /\ e \in Stored /\ firstUnpublished(e)
      PROVE  LimboSound'
  BY <1>1, <1>2 DEF LimboSound
<1>3. \A e \in limbo : e \in Event /\ e \in Stored /\ firstUnpublished(e)
  BY DEF LimboSound, TypeOK
<1>4. CASE limbo' \subseteq limbo
  BY <1>2, <1>3, <1>4
<1>5. ASSUME NEW r \in Replicas, limbo' \subseteq limbo \cup pub[r].events PROVE LimboSound'
  <2>1. \A e \in pub[r].events : e \in Event /\ e \in Stored /\ firstUnpublished(e)
    BY DEF BatchesSound, BatchSound, TypeOK, Batch
  <2>2. QED  BY <1>2, <1>3, <1>5, <2>1
<1>6. ASSUME NEW r \in Replicas, NEW e \in Event, sendRejects(r, e) PROVE LimboSound'
  <2>1. e \in pub[r].events
    BY <1>6 DEF sendRejects, BatchesSound, BatchSound
  <2>2. QED  BY <1>5, <1>6, <2>1 DEF sendRejects, lingering
<1>7. ASSUME NEW r \in Replicas, crash(r) PROVE LimboSound'
  <2>1. pub[r].left \subseteq pub[r].events
    BY DEF BatchesSound, BatchSound
  <2>2. limbo' \subseteq limbo \cup pub[r].events
    BY <1>7, <2>1 DEF crash, lingering
  <2>3. QED  BY <1>5, <2>2
<1>8. QED
  BY <1>4, <1>6, <1>7
     DEF Next, Publisher, vars, rows, claimPendingEvents, brokerAppends, sendResolves,
         markEventsPublished, markFails, recordPublishFailure, recordThrows,
         lateAppend, requestLost, becomesDue, requeue, insertEvent

(* A batch that a step does not touch stays sound. *)
LEMMA BatchFrame ==
  ASSUME IInv, [Next]_vars, NEW r \in Replicas, pub'[r] = pub[r]
  PROVE  BatchSound(r)'
<1>1. /\ BatchSound(r)
      /\ pub[r].events \subseteq Event /\ pub[r].sent \subseteq Event
  BY DEF IInv, BatchesSound, TypeOK, Batch
<1>2. QED
  BY <1>1, Monotone DEF BatchSound, IInv

(* An idle replica has nothing to be sound about. *)
LEMMA NoBatchSound ==
  ASSUME NEW r \in Replicas, pub'[r] = NoBatch
  PROVE  BatchSound(r)'
BY DEF BatchSound, NoBatch

(* A settled send leaves the batch sound: it was acknowledged, hence       *)
(* appended, or it was rejected, and then the batch cannot reach "marking".*)
LEMMA SettleSound ==
  ASSUME IInv, [Next]_vars, NEW r \in Replicas, NEW e \in Event, NEW rejected \in BOOLEAN,
         pub[r].at = "sending", e \in pub[r].left, rejected \/ e \in pub[r].sent,
         pub'[r] = settle(pub[r], e, rejected)
  PROVE  BatchSound(r)'
<1> DEFINE b == pub[r]
           c == settle(b, e, rejected)
<1>1. b \in Batch /\ BatchSound(r)
  BY DEF IInv, TypeOK, BatchesSound
<1>2. /\ c.events = b.events /\ c.sent = b.sent
      /\ c.left \subseteq b.events
  BY <1>1 DEF settle, Batch, BatchSound
<1>3. c.at = "sending" /\ ~c.failed => ~rejected /\ ~b.failed /\ c.left = b.left \ {e}
  BY <1>1 DEF settle, Batch
<1>4. c.at = "marking" => ~rejected /\ ~b.failed /\ b.left \ {e} = {}
  BY <1>1 DEF settle, Batch
<1>5. ~b.failed => b.events \ b.left \subseteq b.sent
  BY <1>1 DEF BatchSound
<1>6. c.at = "sending" /\ ~c.failed => c.events \ c.left \subseteq c.sent
  BY <1>2, <1>3, <1>5
<1>7. c.at = "marking" => c.events \subseteq c.sent
  BY <1>2, <1>4, <1>5
<1>8. /\ \A d \in c.events : d \in Event /\ d \in Stored /\ firstUnpublished(d)
      /\ \A d \in c.sent : d \in Event /\ Delivered(d)
  BY <1>1, <1>2 DEF BatchSound, Batch
<1>9. pub'[r] = c
  OBVIOUS
<1> HIDE DEF c
<1>10. QED
  BY <1>2, <1>6, <1>7, <1>8, <1>9, Monotone DEF BatchSound, IInv

LEMMA BatchStep ==
  ASSUME IInv, [Next]_vars
  PROVE  BatchesSound'
<1> SUFFICES ASSUME NEW r \in Replicas PROVE BatchSound(r)'
  BY DEF BatchesSound
<1> USE DEF IInv
<1>0. /\ pub \in [Replicas -> Batch] /\ BatchSound(r)
      /\ Stored \subseteq Stored'
      /\ \A e \in Event : Delivered(e) => Delivered(e)'
      /\ \A e \in Event : firstUnpublished(e) => firstUnpublished(e)'
  BY Monotone DEF TypeOK, BatchesSound
<1>1. CASE pub'[r] = pub[r]
  BY <1>1, BatchFrame
<1>2. CASE claimPendingEvents(r)
  <2>1. PICK events \in SUBSET {e \in Event : claimable(e)} :
          pub' = [pub EXCEPT ![r] = [NoBatch EXCEPT !.at = "sending",
                                                    !.events = events, !.left = events]]
    BY <1>2 DEF claimPendingEvents
  <2>2. /\ pub'[r].events = events /\ pub'[r].left = events /\ pub'[r].sent = {}
        /\ pub'[r].at = "sending"
    BY <1>0, <2>1 DEF NoBatch
  <2>3. \A e \in events : e \in Event /\ e \in Stored /\ firstUnpublished(e)
    BY DEF claimable
  <2>4. QED  BY <1>0, <2>2, <2>3 DEF BatchSound
<1>3. ASSUME NEW e \in Event, brokerAppends(r, e) PROVE BatchSound(r)'
  <2>1. pub'[r] = [pub[r] EXCEPT !.sent = pub[r].sent \cup {e}]
    BY <1>0, <1>3 DEF brokerAppends
  <2>2. pub[r] \in Batch
    BY <1>0
  <2>3. Delivered(e)'
    BY <1>3, AppendDelivers DEF brokerAppends
  <2>4. QED  BY <1>0, <2>1, <2>2, <2>3 DEF BatchSound, Batch
<1>4. ASSUME NEW e \in Event, sendResolves(r, e) PROVE BatchSound(r)'
  <2>1. pub'[r] = settle(pub[r], e, FALSE)
    BY <1>0, <1>4 DEF sendResolves
  <2>2. QED  BY <1>4, <2>1, SettleSound DEF sendResolves
<1>5. ASSUME NEW e \in Event, sendRejects(r, e) PROVE BatchSound(r)'
  <2>1. pub'[r] = settle(pub[r], e, TRUE)
    BY <1>0, <1>5 DEF sendRejects
  <2>2. QED  BY <1>5, <2>1, SettleSound DEF sendRejects
<1>6. CASE markFails(r)
  <2>1. /\ pub'[r].events = pub[r].events /\ pub'[r].left = pub[r].events
        /\ pub'[r].sent = pub[r].sent /\ pub'[r].at = "recording"
    BY <1>0, <1>6 DEF markFails, Batch
  <2>2. pub[r].events \subseteq Event /\ pub[r].sent \subseteq Event
    BY <1>0 DEF Batch
  <2>3. QED  BY <1>0, <2>1, <2>2 DEF BatchSound
<1>7. ASSUME NEW e \in Event, recordPublishFailure(r, e) PROVE BatchSound(r)'
  <2>1. \/ pub'[r] = NoBatch
        \/ /\ pub'[r].events = pub[r].events /\ pub'[r].left = pub[r].left \ {e}
           /\ pub'[r].sent = pub[r].sent /\ pub'[r].at = "recording"
    BY <1>0, <1>7 DEF recordPublishFailure, Batch
  <2>2. pub[r].events \subseteq Event /\ pub[r].sent \subseteq Event
    BY <1>0 DEF Batch
  <2>3. QED  BY <1>0, <2>1, <2>2, NoBatchSound DEF BatchSound
<1>8. CASE markEventsPublished(r) \/ recordThrows(r) \/ crash(r)
  <2>1. pub'[r] = NoBatch
    BY <1>0, <1>8 DEF markEventsPublished, recordThrows, crash
  <2>2. QED  BY <2>1, NoBatchSound
<1>9. ASSUME NEW q \in Replicas, q # r, Publisher(q) PROVE pub'[r] = pub[r]
  <2>1. \E c : pub' = [pub EXCEPT ![q] = c]
    BY <1>9 DEF Publisher, claimPendingEvents, brokerAppends, sendResolves, sendRejects,
           markEventsPublished, markFails, recordPublishFailure, recordThrows, crash
  <2>2. QED  BY <1>0, <1>9, <2>1
<1>10. QED
  BY <1>1, <1>2, <1>3, <1>4, <1>5, <1>6, <1>7, <1>8, <1>9
     DEF Next, Publisher, vars, lateAppend, requestLost, becomesDue, requeue, insertEvent

(* published_at is set by a publisher all of whose sends were appended. *)
LEMMA PublishedStep ==
  ASSUME IInv, [Next]_vars
  PROVE  PublishedIsDelivered'
<1> USE DEF IInv
<1>1. \A e \in Event : Delivered(e) => Delivered(e)'
  BY Monotone
<1>2. ASSUME published' \subseteq published PROVE PublishedIsDelivered'
  BY <1>1, <1>2 DEF PublishedIsDelivered, TypeOK
<1>3. ASSUME NEW r \in Replicas, markEventsPublished(r) \/ markFails(r)
      PROVE  PublishedIsDelivered'
  <2>1. \A e \in pub[r].events : e \in Event /\ Delivered(e)
    BY <1>3 DEF markEventsPublished, markFails, BatchesSound, BatchSound, TypeOK, Batch
  <2>2. published' \subseteq published \cup pub[r].events
    BY <1>3 DEF markEventsPublished, markFails
  <2>3. QED  BY <1>1, <2>1, <2>2 DEF PublishedIsDelivered, TypeOK
<1>4. QED
  BY <1>2, <1>3
     DEF Next, Publisher, vars, rows, claimPendingEvents, brokerAppends, sendResolves, sendRejects,
         recordPublishFailure, recordThrows, crash, lateAppend, requestLost, becomesDue,
         requeue, insertEvent

(* Only an event that has passed the gate of the claim is ever appended. *)
LEMMA GatedAppend ==
  ASSUME IInv, [Next]_vars
  PROVE  \/ UNCHANGED topic
         \/ \E e \in Event : append(e) /\ e \in Stored /\ firstUnpublished(e) /\ UNCHANGED written
<1> USE DEF IInv
<1>1. ASSUME NEW r \in Replicas, NEW e \in Event, brokerAppends(r, e)
      PROVE  append(e) /\ e \in Stored /\ firstUnpublished(e) /\ UNCHANGED written
  BY <1>1 DEF brokerAppends, BatchesSound, BatchSound, rows
<1>2. ASSUME NEW e \in Event, lateAppend(e)
      PROVE  append(e) /\ e \in Stored /\ firstUnpublished(e) /\ UNCHANGED written
  BY <1>2 DEF lateAppend, LimboSound, rows
<1>3. QED
  BY <1>1, <1>2
     DEF Next, Publisher, vars, rows, claimPendingEvents, sendResolves, sendRejects,
         markEventsPublished, markFails, recordPublishFailure, recordThrows, crash,
         requestLost, becomesDue, requeue, insertEvent

LEMMA BlockedStep ==
  ASSUME IInv, [Next]_vars
  PROVE  BlockedBehindUnpublished'
<1> USE DEF IInv
<1>1. published \subseteq published'
  BY Monotone
<1>2. CASE UNCHANGED topic
  BY <1>1, <1>2 DEF BlockedBehindUnpublished, Delivered, Earlier
<1>3. ASSUME NEW e \in Event, append(e), firstUnpublished(e) PROVE BlockedBehindUnpublished'
  BY <1>1, <1>3, AppendDelivers DEF BlockedBehindUnpublished, firstUnpublished, Earlier
<1>4. QED  BY <1>2, <1>3, GatedAppend

-----------------------------------------------------------------------------
LEMMA InitIInv == Init => IInv
<1> SUFFICES ASSUME Init PROVE IInv
  OBVIOUS
<1>1. TypeOK
  <2>1. NoBatch \in Batch
    BY DEF NoBatch, Batch, Stages
  <2>2. 0 \in 0..MaxVersion
    BY OutboxAssumption
  <2>3. <<>> \in Seq(1..MaxVersion)
    OBVIOUS
  <2>4. QED  BY <2>1, <2>2, <2>3 DEF Init, TypeOK
<1>2. \A e \in Event : ~Delivered(e)
  BY DEF Init, Delivered, Occurs, Event
<1>3. QED
  BY <1>1, <1>2 DEF Init, IInv, BatchesSound, BatchSound, NoBatch, LimboSound, DeliveredIsStored,
                    PublishedIsDelivered, BlockedBehindUnpublished

(* The outbox's inductive invariant holds in every reachable state. *)
THEOREM Invariance == Spec => []IInv
<1>1. ASSUME IInv, [Next]_vars PROVE IInv'
  BY <1>1, TypeStep, BatchStep, LimboStep, DeliveredStep, PublishedStep, BlockedStep DEF IInv
<1>2. QED  BY InitIInv, <1>1, PTL DEF Spec

(* Every variable keeps its type (TypeOK). *)
THEOREM TypeCorrect == Spec => []TypeOK
<1>1. IInv => TypeOK
  BY DEF IInv
<1>2. QED  BY Invariance, <1>1, PTL

(* No event is lost: what is marked published is in the topic, whichever   *)
(* replicas crash, leases run out, sends or UPDATEs fail.                  *)
THEOREM NothingLost == Spec => []PublishedIsDelivered
<1>1. IInv => PublishedIsDelivered
  BY DEF IInv
<1>2. QED  BY Invariance, <1>1, PTL

(* The per-aggregate gate: while an event is unpublished, no later event   *)
(* of its issue is in the topic, by whatever path a record gets there.     *)
THEOREM Gate == Spec => []BlockedBehindUnpublished
<1>1. IInv => BlockedBehindUnpublished
  BY DEF IInv
<1>2. QED  BY Invariance, <1>1, PTL

-----------------------------------------------------------------------------
(* A committed transaction writes, a gated append delivers the next        *)
(* version or one again, and every other step leaves the log alone.        *)
LEMMA StepSimulates ==
  ASSUME IInv, [Next]_vars
  PROVE  [Log!Next]_<<written, topic>>
<1>1. CASE \E a \in Aggregates : insertEvent(a)
  BY <1>1 DEF insertEvent, Log!Next, Log!Write
<1>2. ASSUME NEW e \in Event, append(e), e \in Stored, firstUnpublished(e), UNCHANGED written
      PROVE  Log!Next
  <2>1. e[1] \in Aggregates /\ e[2] \in 1..MaxVersion /\ e = <<e[1], e[2]>>
    BY DEF Event
  <2>2. written[e[1]] \in Nat /\ MaxVersion \in Nat
    BY <2>1, OutboxAssumption DEF IInv, TypeOK
  <2>3. e[2] \in 1..written[e[1]]
    BY <1>2, <2>1, <2>2 DEF Stored
  <2>4. ASSUME NEW w \in 1..(e[2] - 1) PROVE Log!Occurs(w, topic[e[1]])
    <3>1. w \in 1..MaxVersion /\ w < e[2]
      BY <2>1, <2>2
    <3>2. <<e[1], w>> \in Earlier(e)
      BY <2>1, <3>1 DEF Earlier, Event
    <3>3. Delivered(<<e[1], w>>)
      BY <1>2, <3>2 DEF firstUnpublished, IInv, PublishedIsDelivered
    <3>4. QED  BY <3>3 DEF Delivered, Occurs, Log!Occurs
  <2>5. topic' = [topic EXCEPT ![e[1]] = Append(topic[e[1]], e[2])]
    BY <1>2 DEF append
  <2>6. Log!Deliver(e[1], e[2])
    BY <1>2, <2>3, <2>4, <2>5 DEF Log!Deliver
  <2>7. QED  BY <2>1, <2>3, <2>6 DEF Log!Next
<1>3. UNCHANGED written \/ \E a \in Aggregates : insertEvent(a)
  BY DEF Next, Publisher, vars, rows, claimPendingEvents, brokerAppends, sendResolves, sendRejects,
         markEventsPublished, markFails, recordPublishFailure, recordThrows, crash,
         lateAppend, requestLost, becomesDue, requeue
<1>4. QED  BY <1>1, <1>2, <1>3, GatedAppend

(* The outbox implements the ordered log: with at-least-once delivery, the *)
(* first occurrences of the events of an issue come in version order.      *)
THEOREM Refinement == Spec => ImplementsOrderedLog
<1>1. Init => Log!Init
  BY DEF Init, Log!Init
<1>2. ASSUME IInv, [Next]_vars PROVE [Log!Next]_(Log!vars)
  BY <1>2, StepSimulates DEF Log!vars
<1>3. QED
  BY Invariance, <1>1, <1>2, PTL DEF Spec, ImplementsOrderedLog, Log!Spec

-----------------------------------------------------------------------------
(* An event nothing has happened to is in one batch at most, not due while *)
(* it is, and in the topic once: by that batch, or published.              *)
Quiet(e) ==
  /\ e \notin limbo
  /\ \A r \in Replicas : e \in pub[r].events =>
       pub[r].at \in {"sending", "marking"} /\ e \notin due /\ e \notin published
  /\ \A r, s \in Replicas : e \in pub[r].events /\ e \in pub[s].events => r = s
  /\ Delivered(e) => e \in published \/ \E r \in Replicas : e \in pub[r].events /\ e \in pub[r].sent
  /\ \A j, k \in DOMAIN topic[e[1]] : topic[e[1]][j] = e[2] /\ topic[e[1]][k] = e[2] => j = k

HInv == IInv /\ \A e \in Event \ disturbed : Quiet(e)

HNext == Next /\ disturbed' = disturbed \cup Disturbances

(* What did not happen to an event that is still undisturbed. *)
LEMMA Undisturbed ==
  ASSUME HInv, HNext, NEW e \in Event \ disturbed'
  PROVE  /\ Quiet(e) /\ e \notin limbo'
         /\ \A r \in Replicas : e \in pub[r].events => ~Fails(r) /\ e \notin due' \ due
         /\ ~(pub' = pub /\ topic'[e[1]] = Append(topic[e[1]], e[2]))
BY DEF HInv, HNext, Disturbances

LEMMA AppendOnce ==
  ASSUME NEW S, NEW log \in Seq(S), NEW v \in S, NEW w,
         \A j, k \in DOMAIN log : log[j] = w /\ log[k] = w => j = k,
         w = v => ~Occurs(v, log)
  PROVE  \A j, k \in DOMAIN Append(log, v) : Append(log, v)[j] = w /\ Append(log, v)[k] = w => j = k
<1>1. /\ DOMAIN log = 1..Len(log)
      /\ DOMAIN Append(log, v) = 1..(Len(log) + 1)
      /\ Append(log, v)[Len(log) + 1] = v
      /\ \A k \in 1..Len(log) : Append(log, v)[k] = log[k]
      /\ Len(log) \in Nat
  OBVIOUS
<1>2. \A k \in 1..(Len(log) + 1) : k = Len(log) + 1 \/ k \in 1..Len(log)
  BY <1>1
<1>3. QED  BY <1>1, <1>2 DEF Occurs

(* An append is the first of its event, or it disturbs it. *)
LEMMA QuietAppend ==
  ASSUME HInv, HNext, NEW e \in Event \ disturbed', NEW d \in Event, append(d), d = e => ~Delivered(e)
  PROVE  \A j, k \in DOMAIN topic'[e[1]] : topic'[e[1]][j] = e[2] /\ topic'[e[1]][k] = e[2] => j = k
<1>1. /\ d[1] \in Aggregates /\ d[2] \in 1..MaxVersion /\ e[1] \in Aggregates
      /\ d[1] = e[1] /\ d[2] = e[2] => d = e
  BY DEF Event
<1>2. /\ topic \in [Aggregates -> Seq(1..MaxVersion)]
      /\ \A j, k \in DOMAIN topic[e[1]] : topic[e[1]][j] = e[2] /\ topic[e[1]][k] = e[2] => j = k
  BY Undisturbed DEF HInv, IInv, TypeOK, Quiet
<1>3. topic' = [topic EXCEPT ![d[1]] = Append(topic[d[1]], d[2])]
  BY DEF append
<1>4. CASE d[1] # e[1]
  BY <1>1, <1>2, <1>3, <1>4
<1>5. CASE d[1] = e[1]
  <2> DEFINE log == topic[e[1]]
  <2>1. log \in Seq(1..MaxVersion) /\ topic'[e[1]] = Append(log, d[2])
    BY <1>1, <1>2, <1>3, <1>5
  <2>2. e[2] = d[2] => ~Occurs(d[2], log)
    BY <1>1, <1>5 DEF Delivered
  <2>3. \A j, k \in DOMAIN log : log[j] = e[2] /\ log[k] = e[2] => j = k
    BY <1>2
  <2> HIDE DEF log
  <2>4. \A j, k \in DOMAIN Append(log, d[2]) : Append(log, d[2])[j] = e[2] /\ Append(log, d[2])[k] = e[2] => j = k
    <3>1. \A l \in Seq(1..MaxVersion), v \in 1..MaxVersion : \A w :
            /\ \A j, k \in DOMAIN l : l[j] = w /\ l[k] = w => j = k
            /\ w = v => ~Occurs(v, l)
            => \A j, k \in DOMAIN Append(l, v) : Append(l, v)[j] = w /\ Append(l, v)[k] = w => j = k
      BY AppendOnce
    <3> DEFINE v == d[2]
               w == e[2]
    <3>2. v \in 1..MaxVersion /\ (w = v => ~Occurs(v, log)) /\ \A j, k \in DOMAIN log : log[j] = w /\ log[k] = w => j = k
      BY <1>1, <2>2, <2>3
    <3> HIDE DEF v, w
    <3>3. \A j, k \in DOMAIN Append(log, v) : Append(log, v)[j] = w /\ Append(log, v)[k] = w => j = k
      BY <2>1, <3>1, <3>2
    <3>4. QED  BY <3>3 DEF v, w
  <2>5. QED  BY <2>1, <2>4
<1>6. QED  BY <1>4, <1>5

(* The row of an event in a batch changes hands only by a disturbance. *)
LEMMA QuietStep ==
  ASSUME HInv, HNext, NEW e \in Event \ disturbed'
  PROVE  Quiet(e)'
<1>0. /\ pub \in [Replicas -> Batch] /\ topic \in [Aggregates -> Seq(1..MaxVersion)] /\ due \subseteq Event
      /\ \A r \in Replicas : pub[r].left \subseteq pub[r].events /\ \A d \in pub[r].events : d \in Stored
      /\ Quiet(e) /\ e \notin limbo'
      /\ \A r \in Replicas : e \in pub[r].events => ~Fails(r) /\ e \notin due' \ due
  BY Undisturbed DEF HInv, IInv, TypeOK, BatchesSound, BatchSound
(* Steps that leave the batches and the topic alone. *)
<1>1. ASSUME UNCHANGED <<pub, topic, published>> PROVE Quiet(e)'
  BY <1>0, <1>1 DEF Quiet, Delivered
<1>2. ASSUME NEW r \in Replicas, claimPendingEvents(r) PROVE Quiet(e)'
  <2>1. PICK events \in SUBSET {d \in Event : claimable(d)} :
          /\ due' = due \ events
          /\ pub' = [pub EXCEPT ![r] = [NoBatch EXCEPT !.at = "sending",
                                                       !.events = events, !.left = events]]
    BY <1>2 DEF claimPendingEvents, leased
  <2>2. /\ pub'[r].events = events /\ pub'[r].sent = {} /\ pub'[r].at = "sending"
        /\ \A s \in Replicas \ {r} : pub'[s] = pub[s]
    BY <1>0, <2>1 DEF NoBatch
  <2>3. pub[r].at = "idle" /\ UNCHANGED <<topic, published, limbo>>
    BY <1>2 DEF claimPendingEvents
  <2>4. e \in events => e \in due /\ e \notin published
    BY DEF claimable
  <2>5. e \notin pub[r].events
    BY <1>0, <2>3 DEF Quiet
  <2>6. CASE e \in events
    <3>1. \A s \in Replicas : e \notin pub[s].events
      BY <1>0, <2>4, <2>6 DEF Quiet
    <3>2. ~Delivered(e)
      BY <1>0, <2>4, <2>6, <3>1 DEF Quiet
    <3>3. QED  BY <1>0, <2>1, <2>2, <2>3, <2>4, <2>6, <3>1, <3>2 DEF Quiet, Delivered
  <2>7. CASE e \notin events
    BY <1>0, <2>1, <2>2, <2>3, <2>5, <2>7 DEF Quiet, Delivered
  <2>8. QED  BY <2>6, <2>7
<1>3. ASSUME NEW r \in Replicas, NEW d \in Event, brokerAppends(r, d) PROVE Quiet(e)'
  <2>1. /\ pub[r].at = "sending" /\ d \in pub[r].left /\ append(d) /\ UNCHANGED <<published, due, limbo>>
        /\ pub' = [pub EXCEPT ![r].sent = @ \cup {d}]
    BY <1>3 DEF brokerAppends, rows
  <2>2. /\ pub'[r].events = pub[r].events /\ pub'[r].at = pub[r].at /\ pub'[r].sent = pub[r].sent \cup {d}
        /\ \A s \in Replicas \ {r} : pub'[s] = pub[s]
    BY <1>0, <2>1 DEF Batch
  <2>3. d = e => ~Delivered(e)
    <3> SUFFICES ASSUME d = e, Delivered(e) PROVE FALSE
      OBVIOUS
    <3>1. e \in pub[r].events
      BY <1>0, <2>1
    <3>2. PICK s \in Replicas : e \in pub[s].events /\ e \in pub[s].sent
      BY <1>0, <3>1 DEF Quiet
    <3>3. s = r
      BY <1>0, <3>1, <3>2 DEF Quiet
    <3>4. pub[r].sent \cup {d} = pub[r].sent
      BY <3>2, <3>3
    <3>5. pub' = pub
      BY <1>0, <2>1, <3>4 DEF Batch
    <3>6. topic'[e[1]] = Append(topic[e[1]], e[2])
      BY <1>0, <2>1 DEF append, Event
    <3>7. QED  BY <3>5, <3>6, Undisturbed
  <2>4. \A j, k \in DOMAIN topic'[e[1]] : topic'[e[1]][j] = e[2] /\ topic'[e[1]][k] = e[2] => j = k
    BY <2>1, <2>3, QuietAppend
  <2>5. Delivered(e)' <=> Delivered(e) \/ e = d
    BY <2>1, AppendDelivers DEF HInv, IInv
  <2>6. e = d => e \in pub'[r].events /\ e \in pub'[r].sent
    BY <1>0, <2>1, <2>2
  <2>7. Delivered(e)' => e \in published' \/ \E s \in Replicas : e \in pub'[s].events /\ e \in pub'[s].sent
    BY <1>0, <2>1, <2>2, <2>5, <2>6 DEF Quiet
  <2>8. \A s \in Replicas : pub'[s].events = pub[s].events /\ pub'[s].at = pub[s].at
    BY <2>2
  <2>9. QED  BY <1>0, <2>1, <2>4, <2>7, <2>8 DEF Quiet
<1>4. ASSUME NEW d \in Event, lateAppend(d) PROVE Quiet(e)'
  <2>1. d \in limbo /\ append(d) /\ UNCHANGED <<published, due, pub>>
    BY <1>4 DEF lateAppend, rows
  <2>2. d # e
    BY <1>0, <2>1 DEF Quiet
  <2>3. \A j, k \in DOMAIN topic'[e[1]] : topic'[e[1]][j] = e[2] /\ topic'[e[1]][k] = e[2] => j = k
    BY <2>1, <2>2, QuietAppend
  <2>4. Delivered(e)' <=> Delivered(e)
    BY <2>1, <2>2, AppendDelivers DEF HInv, IInv
  <2>5. QED  BY <1>0, <2>1, <2>3, <2>4 DEF Quiet
(* A batch goes on: what it holds and has sent stays. *)
<1>5. ASSUME NEW r \in Replicas, UNCHANGED <<topic, published, due>>, pub' = [pub EXCEPT ![r] = pub'[r]],
             pub[r].at \in {"sending", "marking"}, pub'[r].at \in {"sending", "marking", "recording"},
             pub'[r].events = pub[r].events, pub'[r].sent = pub[r].sent
      PROVE  Quiet(e)'
  <2>1. \A s \in Replicas : pub'[s].events = pub[s].events /\ pub'[s].sent = pub[s].sent
                            /\ (s # r => pub'[s] = pub[s])
    BY <1>0, <1>5
  <2>2. e \in pub[r].events => pub'[r].at \in {"sending", "marking"}
    BY <1>0, <1>5 DEF Fails
  <2>3. \A s \in Replicas : e \in pub'[s].events =>
          pub'[s].at \in {"sending", "marking"} /\ e \notin due' /\ e \notin published'
    BY <1>0, <1>5, <2>1, <2>2 DEF Quiet
  <2>4. Delivered(e)' <=> Delivered(e)
    BY <1>5 DEF Delivered
  <2>5. \A j, k \in DOMAIN topic'[e[1]] : topic'[e[1]][j] = e[2] /\ topic'[e[1]][k] = e[2] => j = k
    BY <1>0, <1>5 DEF Quiet
  <2>6. QED  BY <1>0, <1>5, <2>1, <2>3, <2>4, <2>5 DEF Quiet
(* A batch ends: its events are published, or it has failed. *)
<1>6. ASSUME NEW r \in Replicas, UNCHANGED topic, due' \subseteq due, pub' = [pub EXCEPT ![r] = NoBatch],
             \/ published' = published \cup pub[r].events
             \/ published' = published
      PROVE  Quiet(e)'
  <2>1. /\ pub'[r].events = {} /\ pub'[r].at = "idle"
        /\ \A s \in Replicas \ {r} : pub'[s] = pub[s]
    BY <1>0, <1>6 DEF NoBatch
  <2>2. CASE e \notin pub[r].events
    BY <1>0, <1>6, <2>1, <2>2 DEF Quiet, Delivered
  <2>3. CASE e \in pub[r].events
    <3>1. e \in published'
      <4>1. pub[r].at \in {"sending", "marking"} /\ ~Fails(r)
        BY <1>0, <2>3 DEF Quiet
      <4>2. pub[r].events \subseteq published'
        BY <2>1, <4>1 DEF Fails
      <4>3. QED  BY <2>3, <4>2
    <3>2. \A s \in Replicas : e \notin pub'[s].events
      BY <1>0, <2>1, <2>3 DEF Quiet
    <3>3. QED  BY <1>0, <1>6, <3>1, <3>2 DEF Quiet, Delivered
  <2>4. QED  BY <2>2, <2>3
<1>7. ASSUME NEW r \in Replicas, NEW d \in Event, sendResolves(r, d) \/ sendRejects(r, d) PROVE Quiet(e)'
  <2>1. PICK rejected \in BOOLEAN : pub' = [pub EXCEPT ![r] = settle(pub[r], d, rejected)]
    BY <1>7 DEF sendResolves, sendRejects
  <2>2. /\ UNCHANGED <<topic, published, due>> /\ pub[r].at = "sending"
        /\ pub'[r] = settle(pub[r], d, rejected)
    BY <1>0, <1>7, <2>1 DEF sendResolves, sendRejects, rows
  <2>3. /\ pub'[r].events = pub[r].events /\ pub'[r].sent = pub[r].sent
        /\ pub'[r].at \in {"sending", "marking", "recording"}
    BY <1>0, <2>2 DEF settle, Batch
  <2>4. QED  BY <1>5, <2>1, <2>2, <2>3
<1>8. ASSUME NEW r \in Replicas, markFails(r) PROVE Quiet(e)'
  <2>1. /\ UNCHANGED <<topic, due>> /\ pub[r].at = "marking" /\ UNCHANGED written
        /\ pub' = [pub EXCEPT ![r].at = "recording", ![r].left = pub[r].events]
        /\ published' = published \/ published' = published \cup pub[r].events
    BY <1>8 DEF markFails
  <2>2. /\ pub'[r].at = "recording" /\ pub'[r].events = pub[r].events
        /\ \A s \in Replicas \ {r} : pub'[s] = pub[s]
    BY <1>0, <2>1 DEF Batch
  <2>3. e \notin pub[r].events
    BY <1>0, <2>1, <2>2 DEF Fails
  <2>4. (e \in published' <=> e \in published) /\ e \notin pub'[r].events
    BY <2>1, <2>2, <2>3
  <2>5. QED  BY <1>0, <2>1, <2>2, <2>3, <2>4 DEF Quiet, Delivered
<1>9. ASSUME NEW r \in Replicas, markEventsPublished(r) \/ recordThrows(r) \/ crash(r) PROVE Quiet(e)'
  BY <1>6, <1>9 DEF markEventsPublished, recordThrows, crash, rows
<1>10. ASSUME NEW r \in Replicas, NEW d \in Event, recordPublishFailure(r, d) PROVE Quiet(e)'
  <2>1. /\ UNCHANGED <<topic, published>> /\ due' = due \ {d} /\ pub[r].at = "recording"
        /\ pub' = [pub EXCEPT ![r] = IF pub[r].left = {d} THEN NoBatch
                                     ELSE [pub[r] EXCEPT !.left = pub[r].left \ {d}]]
    BY <1>10 DEF recordPublishFailure
  <2>2. e \notin pub[r].events
    BY <1>0, <2>1 DEF Quiet
  <2>3. e \notin pub'[r].events /\ \A s \in Replicas \ {r} : pub'[s] = pub[s]
    BY <1>0, <2>1, <2>2 DEF NoBatch, Batch
  <2>4. QED  BY <1>0, <2>1, <2>2, <2>3 DEF Quiet, Delivered
<1>11. ASSUME NEW d \in Event, requestLost(d) \/ becomesDue(d) PROVE Quiet(e)'
  BY <1>1, <1>11 DEF requestLost, becomesDue, rows
<1>12. CASE requeue \/ \E a \in Aggregates : insertEvent(a)
  BY <1>1, <1>12 DEF requeue, insertEvent
<1>13. QED
  BY <1>2, <1>3, <1>4, <1>7, <1>8, <1>9, <1>10, <1>11, <1>12 DEF HNext, Next, Publisher

(* Concurrent replicas never duplicate a normal delivery: an event that is *)
(* in the topic twice had a failed batch, an expired lease, a retry inside *)
(* kafkajs or a late request of its own.                                   *)
THEOREM NormalDeliveriesAreSingle == HistorySpec => []NoDuplicateNormally
<1>1. Init /\ disturbed = {} => HInv
  <2> SUFFICES ASSUME Init, NEW e \in Event PROVE Quiet(e)
    BY InitIInv DEF HInv
  <2>1. topic[e[1]] = <<>> /\ ~Delivered(e)
    BY DEF Init, Event, Delivered, Occurs
  <2>2. QED  BY <2>1 DEF Init, Quiet, NoBatch
<1>2. HInv /\ [HNext]_<<vars, disturbed>> => HInv'
  <2>1. ASSUME HInv, HNext PROVE HInv'
    <3>1. IInv'
      BY <2>1, TypeStep, BatchStep, LimboStep, DeliveredStep, PublishedStep, BlockedStep
         DEF HInv, HNext, IInv
    <3>2. QED  BY <2>1, <3>1, QuietStep DEF HInv
  <2>2. ASSUME HInv, UNCHANGED <<vars, disturbed>> PROVE HInv'
    <3>1. IInv'
      BY <2>2, TypeStep, BatchStep, LimboStep, DeliveredStep, PublishedStep, BlockedStep
         DEF HInv, IInv
    <3>2. UNCHANGED <<pub, topic, published, due, limbo, disturbed>>
      BY <2>2 DEF vars
    <3>3. QED  BY <2>2, <3>1, <3>2 DEF HInv, Quiet, Delivered
  <2>3. QED  BY <2>1, <2>2
<1>3. HInv => NoDuplicateNormally
  <2> SUFFICES ASSUME HInv, NEW a \in Aggregates, NEW j \in DOMAIN topic[a], NEW k \in DOMAIN topic[a],
                      topic[a][j] = topic[a][k], <<a, topic[a][j]>> \notin disturbed
               PROVE  j = k
    BY DEF NoDuplicateNormally
  <2>1. topic[a] \in Seq(1..MaxVersion)
    BY DEF HInv, IInv, TypeOK
  <2>2. topic[a][j] \in 1..MaxVersion
    <3>1. \A S : \A log \in Seq(S) : \A i \in DOMAIN log : log[i] \in S
      <4> SUFFICES ASSUME NEW S, NEW log \in Seq(S), NEW i \in DOMAIN log PROVE log[i] \in S
        OBVIOUS
      <4>1. DOMAIN log = 1..Len(log) /\ \A m \in 1..Len(log) : log[m] \in S
        OBVIOUS
      <4>2. QED  BY <4>1
    <3>2. QED  BY <2>1, <3>1
  <2>3. PICK e \in Event : e = <<a, topic[a][j]>>
    BY <2>2 DEF Event
  <2>4. Quiet(e)
    BY <2>3 DEF HInv
  <2>5. QED  BY <2>3, <2>4 DEF Quiet
<1>4. QED  BY <1>1, <1>2, <1>3, PTL DEF HistorySpec, HNext
=============================================================================
