----------------------------- MODULE OrderedLog -----------------------------
(***************************************************************************)
(* What the outbox promises the consumers of issue.events.v1 (ADR 0004):   *)
(* the events of an issue appear in the topic for the first time in the    *)
(* order of their aggregate_version, without a gap; any of them may appear *)
(* again (at-least-once); nothing appears that was not written.            *)
(***************************************************************************)
EXTENDS Naturals, Sequences

CONSTANTS Aggregates

VARIABLES
  written,  \* how many events of each issue the transactions have committed
  topic     \* the versions of each issue in the topic, in partition order

vars == <<written, topic>>

Occurs(v, log) == \E k \in DOMAIN log : log[k] = v

Init ==
  /\ written = [a \in Aggregates |-> 0]
  /\ topic = [a \in Aggregates |-> <<>>]

Write(a) ==
  /\ written' = [written EXCEPT ![a] = @ + 1]
  /\ UNCHANGED topic

(* The next version, or one that was delivered before. *)
Deliver(a, v) ==
  /\ v \in 1..written[a]
  /\ \A w \in 1..(v - 1) : Occurs(w, topic[a])
  /\ topic' = [topic EXCEPT ![a] = Append(@, v)]
  /\ UNCHANGED written

Next ==
  \E a \in Aggregates : Write(a) \/ \E v \in 1..written[a] : Deliver(a, v)

Spec == Init /\ [][Next]_vars
=============================================================================
