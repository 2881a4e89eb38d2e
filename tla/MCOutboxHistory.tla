-------------------------- MODULE MCOutboxHistory --------------------------
(* Constants for the safety run of the outbox. *)
EXTENDS OutboxHistory, TLC

Symmetry == Permutations(Replicas) \cup Permutations(Aggregates)
=============================================================================
