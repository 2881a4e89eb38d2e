----------------------- MODULE MCNotificationConsumer -----------------------
(* Constants for the runs of NotificationConsumer. *)
EXTENDS NotificationConsumer

CONSTANTS u1, u2

(* The first event has two recipients, the second is malformed. *)
MCRecipients == [e \in Event |-> IF e[2] = 1 THEN {u1, u2} ELSE {}]
MCMalformed == {e \in Event : e[2] = 2}
=============================================================================
