---------------------- MODULE NotificationStore_proofs ----------------------
(***************************************************************************)
(* For any number of notifications, API requests in flight and any         *)
(* retention time: the two TTLs agree, so that what is live is listed; a   *)
(* notification once read stays read; and mark-all reads all it should.    *)
(***************************************************************************)
EXTENDS NotificationStore, TLAPS

(* A mark-all under way writes a time, and has listed every notification   *)
(* it is expected to mark: what is live was in the index it has read.      *)
PassesSound ==
  \A r \in Requests : req[r].at = "eval" => req[r].readAt # Unread /\ req[r].seen \subseteq req[r].ids

(* IndexedWhileLive needs DeliveredExpires: the index outlives a hash only *)
(* because no hash outlives the retention time that starts with its save.  *)
IInv ==
  /\ TypeOK /\ now > 0
  /\ IndexedWhileLive
  /\ DeliveredExpires
  /\ PassesSound

-----------------------------------------------------------------------------
THEOREM InitSound == Init => IInv
BY DEF Init, IInv, TypeOK, NoHash, NoIndex, Idle, Hash, Request, Unread, Never,
       IndexedWhileLive, DeliveredExpires, PassesSound

LEMMA TypeStep ==
  ASSUME IInv, [Next]_vars
  PROVE  TypeOK' /\ now' > 0
<1> USE DEF IInv, TypeOK, Unread, Never
<1>0. NoHash \in Hash /\ Idle \in Request /\ Retention \in Nat
  BY StoreAssumption DEF NoHash, Hash, Idle, Request
<1>1. ASSUME NEW id \in Ids, SaveEventNotifications(id) PROVE TypeOK' /\ now' > 0
  BY <1>0, <1>1 DEF SaveEventNotifications, saved, indexed, Hash
<1>2. ASSUME NEW r \in Requests, NEW id \in Ids, MarkRead(r, id) PROVE TypeOK' /\ now' > 0
  BY <1>0, <1>2 DEF MarkRead, Request, Idle
<1>3. ASSUME NEW r \in Requests, MarkReadHGet(r) PROVE TypeOK' /\ now' > 0
  BY <1>0, <1>3 DEF MarkReadHGet, Request
<1>4. ASSUME NEW r \in Requests, MarkReadHSet(r) PROVE TypeOK' /\ now' > 0
  BY <1>0, <1>4 DEF MarkReadHSet, Hash
<1>5. ASSUME NEW r \in Requests, MarkAllRead(r) PROVE TypeOK' /\ now' > 0
  BY <1>0, <1>5 DEF MarkAllRead, listed, Request
<1>6. ASSUME NEW r \in Requests, MarkAllReadEval(r) PROVE TypeOK' /\ now' > 0
  BY <1>0, <1>6 DEF MarkAllReadEval, Hash, Request
<1>7. ASSUME NEW r \in Requests, requestFails(r) PROVE TypeOK' /\ now' > 0
  BY <1>0, <1>7 DEF requestFails
<1>8. CASE tick
  BY <1>0, <1>8 DEF tick, NoIndex
<1>9. CASE UNCHANGED vars
  BY <1>9 DEF vars
<1>10. QED  BY <1>1, <1>2, <1>3, <1>4, <1>5, <1>6, <1>7, <1>8, <1>9 DEF Next, Api

(* What a step of the API does to a hash: it may set the time it was read. *)
LEMMA ApiMarks ==
  ASSUME IInv, NEW r \in Requests, Api(r), NEW id \in Ids
  PROVE  /\ UNCHANGED <<now, index>>
         /\ hash'[id].full = hash[id].full /\ hash'[id].expires = hash[id].expires
         /\ hash[id].readAt # Unread => hash'[id].readAt # Unread
<1> USE DEF IInv, TypeOK, Hash, Unread
<1>1. CASE MarkReadHSet(r)
  BY <1>1 DEF MarkReadHSet
<1>2. CASE MarkAllReadEval(r)
  BY <1>2 DEF MarkAllReadEval
<1>3. CASE ~(MarkReadHSet(r) \/ MarkAllReadEval(r))
  BY <1>3 DEF Api, MarkRead, MarkReadHGet, MarkAllRead, requestFails
<1>4. QED  BY <1>1, <1>2, <1>3

LEMMA RetentionStep ==
  ASSUME IInv, [Next]_vars
  PROVE  IndexedWhileLive' /\ DeliveredExpires'
<1>0. /\ Retention \in Nat /\ Retention > 0 /\ now \in Nat
      /\ hash \in [Ids -> Hash] /\ index \in [ids : SUBSET Ids, expires : Nat]
      /\ \A id \in Ids : hash[id].full =>
           /\ id \in index.ids /\ index.expires >= hash[id].expires
           /\ hash[id].expires \in (now + 1)..(now + Retention)
  BY StoreAssumption DEF IInv, TypeOK, IndexedWhileLive, DeliveredExpires
<1> SUFFICES ASSUME NEW id \in Ids, hash'[id].full
             PROVE  /\ id \in index'.ids /\ index'.expires >= hash'[id].expires
                    /\ hash'[id].expires \in (now' + 1)..(now' + Retention)
  BY DEF IndexedWhileLive, DeliveredExpires
<1>1. ASSUME NEW m \in Ids, SaveEventNotifications(m)
      PROVE  /\ id \in index'.ids /\ index'.expires >= hash'[id].expires
             /\ hash'[id].expires \in (now' + 1)..(now' + Retention)
  <2>1. index' = [ids |-> index.ids \cup {m}, expires |-> now + Retention] /\ now' = now
    BY <1>1 DEF SaveEventNotifications, indexed
  <2>2. CASE id = m
    <3>1. hash'[id].expires = now + Retention
      BY <1>0, <1>1, <2>2 DEF SaveEventNotifications, saved
    <3>2. QED  BY <1>0, <2>1, <2>2, <3>1
  <2>3. CASE id # m
    <3>1. hash'[id] = hash[id]
      BY <1>0, <1>1, <2>3 DEF SaveEventNotifications
    <3>2. QED  BY <1>0, <2>1, <3>1
  <2>4. QED  BY <2>2, <2>3
<1>2. ASSUME NEW r \in Requests, Api(r)
      PROVE  /\ id \in index'.ids /\ index'.expires >= hash'[id].expires
             /\ hash'[id].expires \in (now' + 1)..(now' + Retention)
  BY <1>0, <1>2, ApiMarks
<1>3. CASE tick
  <2>1. hash'[id] = hash[id] /\ hash[id].expires # now + 1
    BY <1>0, <1>3 DEF tick, NoHash
  <2>2. index.expires # now + 1 /\ now' = now + 1
    BY <1>0, <1>3, <2>1 DEF tick, Hash
  <2>3. QED  BY <1>0, <1>3, <2>1, <2>2 DEF tick, Hash
<1>4. CASE UNCHANGED vars
  BY <1>0, <1>4 DEF vars
<1>5. QED  BY <1>1, <1>2, <1>3, <1>4 DEF Next

LEMMA PassesStep ==
  ASSUME IInv, [Next]_vars
  PROVE  PassesSound'
<1> USE DEF IInv, TypeOK, Unread
<1>1. ASSUME NEW r \in Requests, MarkAllRead(r) PROVE PassesSound'
  <2>1. {id \in Ids : hash[id].full /\ hash[id].readAt = Unread} \subseteq index.ids
    BY DEF IndexedWhileLive
  <2>2. QED  BY <1>1, <2>1 DEF MarkAllRead, listed, PassesSound
<1>2. ASSUME NEW r \in Requests, Api(r), ~MarkAllRead(r) PROVE PassesSound'
  <2>1. PICK q : req' = [req EXCEPT ![r] = q] /\ q.at # "eval"
    <3>1. CASE MarkReadHGet(r)
      <4>1. Idle.at # "eval" /\ [req[r] EXCEPT !.at = "hset"].at # "eval"
        BY DEF Idle, Request
      <4>2. QED  BY <3>1, <4>1 DEF MarkReadHGet
    <3>2. ASSUME NEW id \in Ids, MarkRead(r, id) PROVE \E q : req' = [req EXCEPT ![r] = q] /\ q.at # "eval"
      <4>1. [Idle EXCEPT !.at = "hget", !.ids = {id}].at = "hget"
        BY DEF Idle
      <4>2. QED  BY <3>2, <4>1 DEF MarkRead
    <3>3. CASE MarkReadHSet(r) \/ MarkAllReadEval(r) \/ requestFails(r)
      <4>1. req' = [req EXCEPT ![r] = Idle]
        BY <3>3 DEF MarkReadHSet, MarkAllReadEval, requestFails
      <4>2. Idle.at # "eval"
        BY DEF Idle
      <4>3. QED  BY <4>1, <4>2
    <3>4. QED  BY <1>2, <3>1, <3>2, <3>3 DEF Api
  <2>2. QED  BY <2>1 DEF PassesSound
<1>3. CASE (\E id \in Ids : SaveEventNotifications(id)) \/ tick \/ UNCHANGED vars
  BY <1>3 DEF SaveEventNotifications, tick, vars, PassesSound
<1>4. QED  BY <1>1, <1>2, <1>3 DEF Next

-----------------------------------------------------------------------------
(* The inductive invariant holds in every reachable state. *)
THEOREM Invariance == Spec => []IInv
<1>1. IInv /\ [Next]_vars => IInv'
  BY TypeStep, RetentionStep, PassesStep DEF IInv
<1>2. QED  BY <1>1, InitSound, PTL DEF Spec

(* Every variable keeps its type. *)
THEOREM TypeCorrect == Spec => []TypeOK
<1>1. IInv => TypeOK
  BY DEF IInv
<1>2. QED  BY <1>1, Invariance, PTL

(* A notification is in the user's list for as long as it exists. *)
THEOREM LiveIsListed == Spec => []IndexedWhileLive
<1>1. IInv => IndexedWhileLive
  BY DEF IInv
<1>2. QED  BY <1>1, Invariance, PTL

(* What was delivered is gone one retention time after its last save. *)
THEOREM Retained == Spec => []DeliveredExpires
<1>1. IInv => DeliveredExpires
  BY DEF IInv
<1>2. QED  BY <1>1, Invariance, PTL

(* No redelivery makes a notification unread again. *)
THEOREM ReadForGood == Spec => ReadStaysRead
<1> DEFINE A == \A id \in Ids : hash[id].readAt # Unread /\ exists(id)' => hash'[id].readAt # Unread
<1>1. ASSUME IInv, [Next]_vars PROVE [A]_vars
  <2> SUFFICES ASSUME NEW id \in Ids, hash[id].readAt # Unread, exists(id)', ~UNCHANGED vars
               PROVE  hash'[id].readAt # Unread
    OBVIOUS
  <2>1. hash \in [Ids -> Hash]
    BY <1>1 DEF IInv, TypeOK
  <2>2. ASSUME NEW m \in Ids, SaveEventNotifications(m) PROVE hash'[id].readAt # Unread
    BY <2>1, <2>2 DEF SaveEventNotifications, saved
  <2>3. ASSUME NEW r \in Requests, Api(r) PROVE hash'[id].readAt # Unread
    BY <1>1, <2>3, ApiMarks
  <2>4. CASE tick
    BY <2>1, <2>4 DEF tick, exists
  <2>5. QED  BY <1>1, <2>2, <2>3, <2>4 DEF Next
<1>2. QED  BY <1>1, Invariance, PTL DEF Spec, ReadStaysRead

(* A mark-all reads all that was unread when it began, unless it expires. *)
THEOREM MarkAllIsComplete == Spec => AllAreRead
<1> DEFINE A == \A r \in Requests : MarkAllReadEval(r) =>
                  \A id \in req[r].seen : exists(id)' => hash'[id].readAt # Unread
<1>1. ASSUME IInv, [Next]_vars PROVE [A]_vars
  <2> SUFFICES ASSUME NEW r \in Requests, MarkAllReadEval(r), NEW id \in req[r].seen, exists(id)'
               PROVE  hash'[id].readAt # Unread
    OBVIOUS
  <2>1. /\ hash \in [Ids -> Hash] /\ req[r].at = "eval" /\ req[r].readAt # Unread
        /\ id \in req[r].ids /\ id \in Ids
    BY <1>1 DEF IInv, TypeOK, PassesSound, MarkAllReadEval, Request
  <2>2. QED  BY <2>1 DEF MarkAllReadEval, Hash, exists
<1>2. QED  BY <1>1, Invariance, PTL DEF Spec, AllAreRead
=============================================================================
