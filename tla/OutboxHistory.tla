--------------------------- MODULE OutboxHistory ---------------------------
(***************************************************************************)
(* Outbox with a history variable: the events whose delivery did not go    *)
(* the normal way.  It restricts no behaviour of Outbox.                   *)
(***************************************************************************)
EXTENDS Outbox

VARIABLE disturbed

(* A batch that leaves the normal course: some send was rejected, the      *)
(* marking failed, or the replica died.                                    *)
Fails(r) ==
  /\ pub[r].at \in {"sending", "marking"}
  /\ \/ pub'[r].at = "recording"
     \/ pub'[r].at = "idle" /\ ~(pub[r].events \subseteq published')

(* The events of such a batch, those whose lease runs out before their     *)
(* batch is done, and those appended by a retry or a late request.         *)
Disturbances ==
  {e \in Event :
     \/ e \in limbo'
     \/ \E r \in Replicas : e \in pub[r].events /\ (Fails(r) \/ e \in due' \ due)
     \/ pub' = pub /\ topic'[e[1]] = Append(topic[e[1]], e[2]) }

HistorySpec ==
  /\ Init /\ disturbed = {}
  /\ [][Next /\ disturbed' = disturbed \cup Disturbances]_<<vars, disturbed>>

(* "Replicas can publish concurrently without duplicating normal           *)
(* deliveries" (ADR 0004): an event that is in the topic twice was         *)
(* disturbed; the leases alone keep all the others single, whatever        *)
(* happens to the other events of the batch's issues.                      *)
NoDuplicateNormally ==
  \A a \in Aggregates : \A j, k \in DOMAIN topic[a] :
    topic[a][j] = topic[a][k] /\ j # k => <<a, topic[a][j]>> \in disturbed
=============================================================================
