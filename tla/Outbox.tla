------------------------------- MODULE Outbox -------------------------------
(***************************************************************************)
(* The transactional outbox of the Issue service: the outbox_events table  *)
(* and the publishers (outbox.publisher.ts) of several replicas, which     *)
(* claim due rows by lease, send them to Kafka concurrently, and mark the  *)
(* batch published or record a failed attempt for every row of it.         *)
(*                                                                         *)
(* An event is <<a, v>>: aggregate (issue) a, aggregate_version v.  Time   *)
(* is abstract: next_attempt_at is "due" or "not due yet", and a row that  *)
(* is not due becomes due at any later moment, be it the 30 s lease or the *)
(* backoff that runs out.  A failed producer.connect() claims nothing and  *)
(* leaves the batch loop as it was, so it is a stuttering step.            *)
(***************************************************************************)
EXTENDS Naturals, Sequences, FiniteSets

CONSTANTS
  Aggregates,   \* issues
  Replicas,     \* publisher processes
  MaxAttempts,  \* OUTBOX_MAX_PUBLISH_ATTEMPTS (20 in the code)
  MaxBatch,     \* the claim's LIMIT (50 in the code)
  Unreachable,  \* the issues whose sends the broker may reject (their partition is down)
  Faults,       \* which of AllFaults may happen
  MaxVersion,   \* bound: events written per issue
  MaxLog        \* bound: records per issue in the topic

AllFaults ==
  { "reject",    \* a producer.send is rejected, whether or not the broker got it
    "duplicate", \* kafkajs retries inside one send: the record is appended again
    "late",      \* a request the producer gave up on reaches the broker later
    "slow",      \* a lease runs out while its batch is still being processed
    "database",  \* the UPDATE that marks or records a failure throws
    "crash" }    \* the replica stops at any point of the batch

ASSUME OutboxAssumption ==
  /\ MaxAttempts \in Nat \ {0}
  /\ MaxBatch \in Nat \ {0}
  /\ MaxVersion \in Nat
  /\ MaxLog \in Nat
  /\ Faults \subseteq AllFaults
  /\ Unreachable \subseteq Aggregates

VARIABLES
  written,    \* outbox_events: versions 1..written[a] have a row
  published,  \* the rows with published_at set
  attempts,   \* publish_attempts
  due,        \* the rows with next_attempt_at <= NOW()
  topic,      \* issue.events.v1: the versions of each issue in partition order
  pub,        \* each replica's batch in progress
  limbo       \* produce requests abandoned by the producer, not (yet) by the network

vars == <<written, published, attempts, due, topic, pub, limbo>>
rows == <<written, published, attempts, due>>

Event == Aggregates \X (1..MaxVersion)
Stored == {e \in Event : e[2] <= written[e[1]]}

Occurs(v, log) == \E k \in DOMAIN log : log[k] = v
Delivered(e) == Occurs(e[2], topic[e[1]])

(* A publisher is idle between polls; else its batch has sends in flight,  *)
(* is fully acknowledged, or is recording a failure for each row, after a  *)
(* rejected send or after a failed markEventsPublished.                    *)
Stages == {"idle", "sending", "marking", "recording"}

(* left: the sends not yet settled, or the failures not yet recorded.      *)
(* sent: the events of the batch the broker has appended.                  *)
Batch == [at : Stages, events : SUBSET Event, left : SUBSET Event,
          sent : SUBSET Event, failed : BOOLEAN]

NoBatch == [at |-> "idle", events |-> {}, left |-> {}, sent |-> {}, failed |-> FALSE]

Earlier(e) == {d \in Event : d[1] = e[1] /\ d[2] < e[2]}

abandoned(e) == e \in Stored \ published /\ attempts[e] >= MaxAttempts

Init ==
  /\ written = [a \in Aggregates |-> 0]
  /\ published = {}
  /\ attempts = [e \in Event |-> 0]
  /\ due = {}
  /\ topic = [a \in Aggregates |-> <<>>]
  /\ pub = [r \in Replicas |-> NoBatch]
  /\ limbo = {}

-----------------------------------------------------------------------------
(* A committed issue transaction leaves one more event, due at once. *)
insertEvent(a) ==
  /\ written[a] < MaxVersion
  /\ written' = [written EXCEPT ![a] = @ + 1]
  /\ due' = due \cup {<<a, written[a] + 1>>}
  /\ UNCHANGED <<published, attempts, topic, pub, limbo>>

(* The NOT EXISTS of the claim: every earlier row is published. *)
firstUnpublished_AbandonedSkipped(e) ==   \* fault: an abandoned row no longer holds back
  \A d \in Earlier(e) : d \in published \/ abandoned(d)
firstUnpublished_DueOnly(e) ==            \* fault: a leased or backing-off row is not counted
  Earlier(e) \cap due \subseteq published

firstUnpublished(e) == Earlier(e) \subseteq published

claimable(e) ==
  /\ e \in Stored \ published
  /\ attempts[e] < MaxAttempts
  /\ e \in due
  /\ firstUnpublished(e)

(* The lease: a claimed row is not due until it runs out. *)
leased_Nothing(events) == due             \* fault: the claim does not push next_attempt_at
leased(events) == due \ events

(* One statement.  SKIP LOCKED and LIMIT may leave out claimable rows.     *)
claimPendingEvents(r) ==
  /\ pub[r].at = "idle"
  /\ \E events \in SUBSET {e \in Event : claimable(e)} :
       /\ events # {} /\ Cardinality(events) <= MaxBatch
       /\ due' = leased(events)
       /\ pub' = [pub EXCEPT ![r] = [NoBatch EXCEPT !.at = "sending",
                                                   !.events = events, !.left = events]]
  /\ UNCHANGED <<written, published, attempts, topic, limbo>>

append(e) ==
  /\ Len(topic[e[1]]) < MaxLog
  /\ topic' = [topic EXCEPT ![e[1]] = Append(@, e[2])]

(* The broker appends the record of a send in flight. *)
brokerAppends(r, e) ==
  /\ pub[r].at = "sending" /\ e \in pub[r].left
  /\ e \in pub[r].sent => "duplicate" \in Faults
  /\ append(e)
  /\ pub' = [pub EXCEPT ![r].sent = @ \cup {e}]
  /\ UNCHANGED <<rows, limbo>>

(* Promise.allSettled: the last send to settle decides what follows, a     *)
(* failure for every row of the batch if any send was rejected.            *)
settle_Acknowledged(b, e, rejected) ==    \* fault: a rejected send is overlooked
  LET left == b.left \ {e}
  IN  [b EXCEPT !.at = IF left = {} THEN "marking" ELSE @, !.left = left]

settle_Done(b, e, rejected) ==            \* fault: a finished batch does not poll again
  [b EXCEPT !.at = IF b.left = {e} THEN "done" ELSE @, !.left = @ \ {e}]

settle(b, e, rejected) ==
  LET left == b.left \ {e}
      failed == b.failed \/ rejected
  IN  IF left # {} THEN [b EXCEPT !.left = left, !.failed = failed]
      ELSE IF failed THEN [b EXCEPT !.at = "recording", !.left = b.events, !.failed = TRUE]
      ELSE [b EXCEPT !.at = "marking", !.left = {}]

sendResolves(r, e) ==
  /\ pub[r].at = "sending" /\ e \in pub[r].left \cap pub[r].sent
  /\ pub' = [pub EXCEPT ![r] = settle(@, e, FALSE)]
  /\ UNCHANGED <<rows, topic, limbo>>

lingering(events) == IF "late" \in Faults THEN limbo \cup events ELSE limbo

sendRejects(r, e) ==
  /\ "reject" \in Faults /\ e[1] \in Unreachable
  /\ pub[r].at = "sending" /\ e \in pub[r].left
  /\ pub' = [pub EXCEPT ![r] = settle(@, e, TRUE)]
  /\ limbo' = lingering({e})
  /\ UNCHANGED <<rows, topic>>

(* A request the producer has given up on is appended after all, or lost.  *)
lateAppend(e) ==
  /\ e \in limbo
  /\ append(e)
  /\ limbo' = limbo \ {e}
  /\ UNCHANGED <<rows, pub>>

requestLost(e) ==
  /\ e \in limbo
  /\ limbo' = limbo \ {e}
  /\ UNCHANGED <<rows, topic, pub>>

markEventsPublished(r) ==
  /\ pub[r].at = "marking"
  /\ published' = published \cup pub[r].events
  /\ pub' = [pub EXCEPT ![r] = NoBatch]
  /\ UNCHANGED <<written, attempts, due, topic, limbo>>

(* The UPDATE throws, before or after the server applied it. *)
markFails(r) ==
  /\ "database" \in Faults
  /\ pub[r].at = "marking"
  /\ \E applied \in {{}, pub[r].events} : published' = published \cup applied
  /\ pub' = [pub EXCEPT ![r].at = "recording", ![r].left = pub[r].events]
  /\ UNCHANGED <<written, attempts, due, topic, limbo>>

(* Unconditional on the event id: it also replaces a newer lease, and      *)
(* counts an attempt on a row another replica has published meanwhile.     *)
recordPublishFailure(r, e) ==
  /\ pub[r].at = "recording" /\ e \in pub[r].left
  /\ attempts' = [attempts EXCEPT ![e] = @ + 1]
  /\ due' = due \ {e}
  /\ pub' = [pub EXCEPT ![r] = IF pub[r].left = {e} THEN NoBatch ELSE [pub[r] EXCEPT !.left = pub[r].left \ {e}]]
  /\ UNCHANGED <<written, published, topic, limbo>>

(* The first failing UPDATE ends the loop: the other rows keep their lease. *)
recordThrows(r) ==
  /\ "database" \in Faults
  /\ pub[r].at = "recording"
  /\ pub' = [pub EXCEPT ![r] = NoBatch]
  /\ UNCHANGED <<rows, topic, limbo>>

crash(r) ==
  /\ "crash" \in Faults
  /\ pub[r].at # "idle"
  /\ limbo' = lingering(IF pub[r].at = "sending" THEN pub[r].left ELSE {})
  /\ pub' = [pub EXCEPT ![r] = NoBatch]
  /\ UNCHANGED <<rows, topic>>

(* Fault: only a backoff runs out; a row whose publisher died stays leased. *)
becomesDue_BackoffOnly(e) ==
  /\ e \in Stored \ (published \cup due)
  /\ attempts[e] > 0
  /\ due' = due \cup {e}
  /\ UNCHANGED <<written, published, attempts, topic, pub, limbo>>

(* next_attempt_at passes: a backoff has run out, or a lease. *)
becomesDue(e) ==
  /\ e \in Stored \ (published \cup due)
  /\ "slow" \in Faults \/ \A r \in Replicas : e \notin pub[r].events
  /\ due' = due \cup {e}
  /\ UNCHANGED <<written, published, attempts, topic, pub, limbo>>

(* The SQL of docs/api/health.md, run by an operator. *)
requeue ==
  LET stuck == {e \in Event : abandoned(e)}
  IN  /\ stuck # {}
      /\ attempts' = [e \in Event |-> IF e \in stuck THEN 0 ELSE attempts[e]]
      /\ due' = due \cup stuck
      /\ UNCHANGED <<written, published, topic, pub, limbo>>

Publisher(r) ==
  \/ claimPendingEvents(r)
  \/ \E e \in Event : brokerAppends(r, e) \/ sendResolves(r, e) \/ sendRejects(r, e)
  \/ markEventsPublished(r) \/ markFails(r)
  \/ \E e \in Event : recordPublishFailure(r, e)
  \/ recordThrows(r) \/ crash(r)

Next ==
  \/ \E a \in Aggregates : insertEvent(a)
  \/ \E r \in Replicas : Publisher(r)
  \/ \E e \in Event : lateAppend(e) \/ requestLost(e) \/ becomesDue(e)
  \/ requeue

Spec == Init /\ [][Next]_vars

(* The 2 s interval polls again and again; time passes; every await of the *)
(* batch loop returns or throws, and a replica that keeps restarting, or a *)
(* database that keeps failing, does not fail at the same step for ever.   *)
Fairness ==
  /\ WF_vars(\E r \in Replicas : claimPendingEvents(r))
  /\ \A e \in Event : WF_vars(becomesDue(e))
  /\ \A r \in Replicas :
       /\ SF_vars(\E e \in Event : e \notin pub[r].sent /\ brokerAppends(r, e))
       /\ SF_vars(\E e \in Event : sendResolves(r, e) \/ sendRejects(r, e))
       /\ SF_vars(markEventsPublished(r))
       /\ SF_vars(\E e \in Event : recordPublishFailure(r, e))

FairSpec == Spec /\ Fairness

-----------------------------------------------------------------------------
(* Every variable has its type. *)
TypeOK ==
  /\ written \in [Aggregates -> 0..MaxVersion]
  /\ published \subseteq Event
  /\ attempts \in [Event -> Nat]
  /\ due \subseteq Event
  /\ topic \in [Aggregates -> Seq(1..MaxVersion)]
  /\ pub \in [Replicas -> Batch]
  /\ limbo \subseteq Event

(* No event is lost: published_at is only set on an event that is in the   *)
(* topic, whatever leases ran out and whichever replicas died meanwhile.   *)
PublishedIsDelivered == \A e \in published : Delivered(e)

(* An unpublished event, leased, backing off or abandoned, holds back all  *)
(* later events of its issue, also those a stale lease holder, a retry     *)
(* inside kafkajs or a delayed request would still send (ADR 0004, the     *)
(* per-aggregate gate).                                                    *)
BlockedBehindUnpublished ==
  \A e \in Event : Delivered(e) => Earlier(e) \subseteq published

(* The topic is an ordered log: first occurrences come in version order.   *)
Log == INSTANCE OrderedLog
ImplementsOrderedLog == Log!Spec

(* Every event is published, or its issue is reported as blocked by an     *)
(* abandoned event: a crash, an expired lease or a failed UPDATE never     *)
(* leaves an event behind unnoticed.                                       *)
EverySettles ==
  \A e \in Event :
    e \in Stored ~> (e \in published \/ \E d \in Earlier(e) \cup {e} : abandoned(d))

(* An issue whose sends all succeed never has an abandoned event (ADR      *)
(* 0004, "Other Issues are unaffected").                                   *)
OtherIssuesAreUnaffected ==
  \A e \in Event : abandoned(e) => e[1] \in Unreachable
=============================================================================
