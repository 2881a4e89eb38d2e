------------------------------ MODULE Pipeline ------------------------------
(***************************************************************************)
(* From issue_db to the recipients: the publishers of the Issue service    *)
(* (Outbox) and the consumer group of the Notification service             *)
(* (NotificationConsumer) at work on one topic, of which NotificationCon-  *)
(* sumer alone assumes what OrderedLog says.  They share nothing else, so  *)
(* a step of the pipeline is a step of one of them.                        *)
(***************************************************************************)
EXTENDS NotificationConsumer

CONSTANTS
  Replicas,       \* replicas of the Issue service
  MaxAttempts,    \* OUTBOX_MAX_PUBLISH_ATTEMPTS
  MaxBatch,       \* the LIMIT of a claim
  Unreachable,    \* the issues whose sends the broker may reject
  OutboxFaults    \* what may go wrong on the publishers' side

VARIABLES published, attempts, due, pub, limbo

publishing == <<published, attempts, due, pub, limbo>>

(* The publishers, with what is proved about them. *)
Publishers == INSTANCE Outbox_proofs
  WITH Aggregates <- Partitions, Faults <- OutboxFaults, disturbed <- {}

PipelineInit == Init /\ Publishers!Init

PipelineNext ==
  \/ Publishers!Next /\ UNCHANGED <<group, pend, results, reader, disruptions>>
  \/ Consumption /\ UNCHANGED publishing

pipelineVars == <<vars, publishing>>

PipelineSpec == PipelineInit /\ [][PipelineNext]_pipelineVars

-----------------------------------------------------------------------------
(* Something was done about event e: a notification, or a dead letter. *)
Handled(e) == e \in dlq \/ \E u \in Users : <<u, e>> \in saved

(* Whatever a recipient sees, or finds in the dead-letter topic, was       *)
(* written by a committed transaction; all earlier events of its issue are *)
(* marked published in issue_db, so that no abandoned or still unmarked    *)
(* event was overtaken, and all of them are settled.                       *)
OrderedEndToEnd ==
  \A p \in Partitions : \A v \in 1..MaxVersion :
    Handled(<<p, v>>) =>
      /\ v <= written[p]
      /\ \A w \in 1..(v - 1) : <<p, w>> \in published /\ Settled(<<p, w>>)
=============================================================================
