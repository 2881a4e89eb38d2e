------------------------- MODULE NotificationStore -------------------------
(***************************************************************************)
(* The Redis projection of the Notification service (redis_store.go) for   *)
(* one user: a hash for each notification, living for the retention time   *)
(* from its last save, and the sorted set of the ids, living for the       *)
(* retention time from the last save of any.  The consumer saves, again on *)
(* each redelivery, in one MULTI; the API marks one read in three calls    *)
(* (EXISTS, HGET, HSET) or all in two (ZRANGE, then a MULTI of one script  *)
(* for each id), concurrently and while keys expire.                       *)
(***************************************************************************)
EXTENDS Naturals

CONSTANTS
  Ids,        \* notification ids of the user (one for each event)
  Requests,   \* API requests in flight at once
  Retention,  \* 90 days, in ticks of the clock
  MaxTime     \* bound: the clock stops there

ASSUME StoreAssumption == Retention \in Nat \ {0} /\ MaxTime \in Nat

VARIABLES
  now,
  hash,     \* notification:<user>:<id>
  index,    \* notifications:user:<user>: the ids, and when the key expires
  req       \* the API request in each slot

vars == <<now, hash, index, req>>

Unread == 0     \* readAt is ""; the clock starts at 1
Never == 0      \* a key without a TTL

(* full: the fields other than readAt are there. *)
Hash == [full : BOOLEAN, readAt : Nat, expires : Nat]
NoHash == [full |-> FALSE, readAt |-> Unread, expires |-> Never]
exists(id) == hash[id] # NoHash

NoIndex == [ids |-> {}, expires |-> Never]

(* seen: history, the unread notifications when a mark-all began. *)
Request == [at : {"idle", "hget", "hset", "eval"}, ids : SUBSET Ids,
            readAt : Nat, seen : SUBSET Ids]
Idle == [at |-> "idle", ids |-> {}, readAt |-> Unread, seen |-> {}]

Init ==
  /\ now = 1
  /\ hash = [id \in Ids |-> NoHash]
  /\ index = NoIndex
  /\ req = [r \in Requests |-> Idle]

-----------------------------------------------------------------------------
(* HSETNX of every field: a redelivery repairs what is missing and keeps   *)
(* the rest.  Then the TTL starts anew.                                    *)
saved_HSET(h) ==                \* fault: the fields are set, not set if absent
  [full |-> TRUE, readAt |-> Unread, expires |-> now + Retention]
saved_ExpireFirst(h) ==         \* fault: EXPIRE comes before the fields and misses a new key
  [full |-> TRUE, readAt |-> h.readAt,
   expires |-> IF h = NoHash THEN Never ELSE now + Retention]
saved_PastTTL(h) ==             \* fault: the retention time is taken off the clock
  [full |-> TRUE, readAt |-> h.readAt, expires |-> now - Retention]

saved(h) == [full |-> TRUE, readAt |-> h.readAt, expires |-> now + Retention]

indexed_ExpireOnce(id) ==       \* fault: only the first save sets the TTL of the index
  [ids |-> index.ids \cup {id},
   expires |-> IF index = NoIndex THEN now + Retention ELSE index.expires]

indexed(id) == [ids |-> index.ids \cup {id}, expires |-> now + Retention]

SaveEventNotifications(id) ==
  /\ hash' = [hash EXCEPT ![id] = saved(@)]
  /\ index' = indexed(id)
  /\ UNCHANGED <<now, req>>

(* MarkRead: EXISTS; an absent hash answers 404. *)
MarkRead(r, id) ==
  /\ req[r].at = "idle"
  /\ exists(id)
  /\ req' = [req EXCEPT ![r] = [Idle EXCEPT !.at = "hget", !.ids = {id}]]
  /\ UNCHANGED <<now, hash, index>>

(* HGET readAt: done if it is set; a hash that is gone by now reads as "". *)
MarkReadHGet(r) ==
  /\ req[r].at = "hget"
  /\ \E id \in req[r].ids :
       req' = [req EXCEPT ![r] = IF hash[id].readAt # Unread THEN Idle ELSE [@ EXCEPT !.at = "hset"]]
  /\ UNCHANGED <<now, hash, index>>

(* HSET readAt: creates the key if it is gone, without a TTL. *)
MarkReadHSet(r) ==
  /\ req[r].at = "hset"
  /\ hash' = [id \in Ids |-> IF id \in req[r].ids THEN [hash[id] EXCEPT !.readAt = now] ELSE hash[id]]
  /\ req' = [req EXCEPT ![r] = Idle]
  /\ UNCHANGED <<now, index>>

(* MarkAllRead: ZRANGE of the whole index, and the time to write. *)
listed_First(ids) == IF ids = {} THEN {} ELSE {CHOOSE id \in ids : TRUE}  \* fault: one page only
listed(ids) == ids

MarkAllRead(r) ==
  /\ req[r].at = "idle"
  /\ req' = [req EXCEPT ![r] =
       [at |-> "eval", ids |-> listed(index.ids), readAt |-> now,
        seen |-> {id \in Ids : hash[id].full /\ hash[id].readAt = Unread}]]
  /\ UNCHANGED <<now, hash, index>>

(* The scripts: each writes only into a hash that exists and is unread. *)
MarkAllReadEval(r) ==
  /\ req[r].at = "eval"
  /\ hash' = [id \in Ids |->
       IF id \in req[r].ids /\ exists(id) /\ hash[id].readAt = Unread
       THEN [hash[id] EXCEPT !.readAt = req[r].readAt] ELSE hash[id]]
  /\ req' = [req EXCEPT ![r] = Idle]
  /\ UNCHANGED <<now, index>>

(* Redis fails, the client gives up, or the service stops. *)
requestFails(r) ==
  /\ req[r].at # "idle"
  /\ req' = [req EXCEPT ![r] = Idle]
  /\ UNCHANGED <<now, hash, index>>

(* Time passes; keys whose TTL runs out are gone. *)
tick ==
  /\ now < MaxTime
  /\ now' = now + 1
  /\ hash' = [id \in Ids |-> IF hash[id].expires = now + 1 THEN NoHash ELSE hash[id]]
  /\ index' = IF index.expires = now + 1 THEN NoIndex ELSE index
  /\ UNCHANGED req

Api(r) ==
  \/ \E id \in Ids : MarkRead(r, id)
  \/ MarkReadHGet(r) \/ MarkReadHSet(r)
  \/ MarkAllRead(r) \/ MarkAllReadEval(r)
  \/ requestFails(r)

Next ==
  \/ \E id \in Ids : SaveEventNotifications(id)
  \/ \E r \in Requests : Api(r)
  \/ tick

Spec == Init /\ [][Next]_vars

-----------------------------------------------------------------------------
(* List reads the hashes of the index and skips the absent ones; fromHash  *)
(* fails on a hash without createdAt, and List with it.                    *)
ListFails == \E id \in index.ids : exists(id) /\ ~hash[id].full

(* Every variable has its type. *)
TypeOK ==
  /\ now \in Nat
  /\ hash \in [Ids -> Hash]
  /\ index \in [ids : SUBSET Ids, expires : Nat]
  /\ req \in [Requests -> Request]

(* A notification can be listed for as long as it exists: the index, which *)
(* has a TTL of its own, outlives every hash.                              *)
IndexedWhileLive ==
  \A id \in Ids : hash[id].full => id \in index.ids /\ index.expires >= hash[id].expires

(* Notifications expire (docs/reference/known-limitations.md): each that   *)
(* was delivered has a TTL within the retention time, also one that a      *)
(* mark-read had recreated before its redelivery.                          *)
DeliveredExpires ==
  \A id \in Ids : hash[id].full => hash[id].expires \in (now + 1)..(now + Retention)

(* A notification that was read stays read until it expires, although the  *)
(* consumer saves it again on redelivery.                                  *)
ReadStaysRead ==
  [][\A id \in Ids : hash[id].readAt # Unread /\ exists(id)' => hash'[id].readAt # Unread]_vars

(* When a mark-all succeeds, everything that was unread when it began is   *)
(* read or has expired.                                                    *)
AllAreRead ==
  [][\A r \in Requests : MarkAllReadEval(r) =>
       \A id \in req[r].seen : exists(id)' => hash'[id].readAt # Unread]_vars

(* "Preserve the original read time and never recreate an expired hash     *)
(* still referenced by the user's index" (redis_store.go, at MarkAllRead): *)
(* marking as read leaves a list that can be read.                         *)
NeverRecreated == ~ListFails
=============================================================================
