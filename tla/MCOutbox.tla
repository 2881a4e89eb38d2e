------------------------------ MODULE MCOutbox ------------------------------
(* Constants for the runs of Outbox. *)
EXTENDS Outbox
=============================================================================
