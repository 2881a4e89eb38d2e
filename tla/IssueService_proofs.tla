------------------------ MODULE IssueService_proofs -------------------------
(***************************************************************************)
(* For any number of issues, requests in flight, users and projects: the   *)
(* optimistic concurrency control of the issue writes makes events and     *)
(* history follow the versions without a gap, and moves the status only    *)
(* along the transition table.                                             *)
(***************************************************************************)
EXTENDS IssueService, TLAPS

(* What a request in flight may rely on.  The row it loaded is older than  *)
(* the stored one or equal to it; past its access check, the synchronous   *)
(* checks were passed against that row.                                    *)
RequestSound(q) ==
  q.at # "idle" =>
    /\ q.actor \in Users /\ q.patch \in Patches(q.op)
    /\ q.op = "create" => q.project \in Projects
    /\ q.op # "create" =>
         /\ q.issue \in Issues
         /\ q.loaded.version > 0 /\ q.loaded.version <= issue[q.issue].version
         /\ q.loaded.version = issue[q.issue].version => q.loaded = issue[q.issue]
         /\ q.loaded.fld["assignee"] \in Users \cup {None}
    /\ q.at # "access" => assertExpectedVersion(q) /\ assertTransition(q)

RequestsSound == \A r \in Requests : RequestSound(req[r])

AssigneesSound == \A i \in Issues : issue[i].fld["assignee"] \in Users \cup {None}

(* A request past its access check to an archived project, whether or not  *)
(* it still asks about an assignee, was under way when it was archived.    *)
ArchiveSound ==
  \A r \in Requests :
    req[r].at \notin {"idle", "access"} /\ req[r].project \in archived
      => r \in inFlight[req[r].project]

(* A commit adds one history row and one event, which carries the new      *)
(* version: the position in both is the version.                           *)
EventPerVersion ==
  \A i \in Issues :
    /\ Len(history[i]) = issue[i].version
    /\ Len(outbox[i]) = issue[i].version
    /\ \A n \in DOMAIN outbox[i] : outbox[i][n].version = n

(* HistoryExplainsIssue is not inductive without what the requests loaded, *)
(* nor RecipientsAreCurrent without HistoryExplainsIssue: who is assigned  *)
(* at a version is what the history says.                                  *)
IInv ==
  /\ TypeOK
  /\ RequestsSound
  /\ AssigneesSound
  /\ EventPerVersion
  /\ HistoryExplainsIssue
  /\ RecipientsAreCurrent
  /\ ArchiveSound

-----------------------------------------------------------------------------
(* A function on some of the fields is a change, and only that. *)
LEMMA ChangeDef ==
  ASSUME NEW F \in SUBSET Fields, NEW c \in [F -> Values]
  PROVE  c \in Change
BY DEF Change

LEMMA ChangeType ==
  ASSUME NEW c \in Change
  PROVE  /\ DOMAIN c \subseteq Fields
         /\ \A f \in DOMAIN c : c[f] \in Values
         /\ c \in [DOMAIN c -> Values]
BY DEF Change

(* What the body of each operation can name. *)
LEMMA PatchType ==
  ASSUME NEW op \in Operations, NEW patch \in Patches(op)
  PROVE  /\ patch \in Change
         /\ "assignee" \in DOMAIN patch => patch["assignee"] \in Users \cup {None}
         /\ op = "create" => DOMAIN patch = {"summary", "description", "assignee"}
         /\ op = "update" => DOMAIN patch \subseteq CoreFields
         /\ op = "assign" => DOMAIN patch = {"assignee"}
         /\ op = "transition" => DOMAIN patch = {"status"}
         /\ op = "comment" => DOMAIN patch = {}
<1>1. CASE op = "create"
  <2>1. patch \in [{"summary", "description", "assignee"} -> Values] /\ patch["assignee"] \in Users \cup {None}
    BY <1>1 DEF Patches, CoreFields, Values
  <2>2. QED  BY <1>1, <2>1, ChangeDef DEF Fields
<1>2. CASE op = "update"
  <2>1. PICK F \in SUBSET CoreFields : patch \in [F -> Texts \cup {None}]
    BY <1>2 DEF Patches
  <2>2. F \in SUBSET Fields /\ patch \in [F -> Values] /\ "assignee" \notin F
    BY <2>1 DEF Fields, CoreFields, Values
  <2>3. patch \in Change
    BY <2>2, ChangeDef
  <2>4. DOMAIN patch = F
    BY <2>1
  <2>5. QED  BY <1>2, <2>1, <2>2, <2>3, <2>4
<1>3. CASE op = "assign"
  <2>1. patch \in [{"assignee"} -> Users \cup {None}]
    BY <1>3 DEF Patches
  <2>2. patch \in [{"assignee"} -> Values]
    BY <2>1 DEF Values
  <2>3. QED  BY <1>3, <2>1, <2>2, ChangeDef DEF Fields
<1>4. CASE op = "transition"
  <2>1. patch \in [{"status"} -> Statuses]
    BY <1>4 DEF Patches
  <2>2. patch \in [{"status"} -> Values]
    BY <2>1 DEF Values
  <2>3. QED  BY <1>4, <2>1, <2>2, ChangeDef DEF Fields
<1>5. CASE op = "comment"
  <2>1. patch = NoChange
    BY <1>5 DEF Patches
  <2>2. patch \in [{} -> Values] /\ DOMAIN patch = {}
    BY <2>1 DEF NoChange
  <2>3. QED  BY <1>5, <2>2, ChangeDef DEF Fields
<1>6. QED  BY <1>1, <1>2, <1>3, <1>4, <1>5 DEF Operations

(* What a change writes: no operation but a transition writes the status,  *)
(* and a comment writes nothing.                                           *)
LEMMA SettersType ==
  ASSUME NEW q \in Request, q.patch \in Patches(q.op)
  PROVE  /\ Setters(q) \in Change
         /\ q.op = "update" => DOMAIN Setters(q) = CoreFields
         /\ q.op # "update" => Setters(q) = q.patch
<1>1. q.op \in Operations /\ q.loaded.fld \in [Fields -> Values] /\ q.patch \in Change
  BY DEF Request, Row
<1>2. CASE q.op = "update"
  <2>1. Setters(q) = [f \in CoreFields |-> IF f \in DOMAIN q.patch THEN q.patch[f] ELSE q.loaded.fld[f]]
    BY <1>2 DEF Setters
  <2>2. \A f \in CoreFields :
          (IF f \in DOMAIN q.patch THEN q.patch[f] ELSE q.loaded.fld[f]) \in Values
    BY <1>1, ChangeType DEF Fields, CoreFields
  <2>3. Setters(q) \in [CoreFields -> Values]
    BY <2>1, <2>2
  <2>4. QED  BY <1>2, <2>1, <2>3, ChangeDef DEF Fields, CoreFields
<1>3. CASE q.op # "update"
  BY <1>1, <1>3 DEF Setters
<1>4. QED  BY <1>2, <1>3

LEMMA PatchedType ==
  ASSUME NEW fld \in [Fields -> Values], NEW c \in Change
  PROVE  /\ Patched(fld, c) \in [Fields -> Values]
         /\ \A f \in Fields : Patched(fld, c)[f] = IF f \in DOMAIN c THEN c[f] ELSE fld[f]
BY ChangeType DEF Patched

-----------------------------------------------------------------------------
(* The compare-and-swap: a change commits on exactly the row it loaded. *)
LEMMA CommitsOnLoaded ==
  ASSUME IInv, NEW r \in Requests, commitChange(r)
  PROVE  /\ req[r] \in Request /\ req[r].issue \in Issues /\ req[r].actor \in Users
         /\ req[r].patch \in Patches(req[r].op)
         /\ req[r].loaded = issue[req[r].issue]
         /\ req[r].op = "transition" =>
              CanTransition(issue[req[r].issue].fld["status"], req[r].patch["status"])
<1> DEFINE q == req[r]
<1>1. q \in Request /\ RequestSound(q)
  BY DEF IInv, TypeOK, RequestsSound
<1>2. q.at = "commit" /\ q.op # "create" /\ versionMatches(q, issue[q.issue])
  BY DEF commitChange
<1>3. assertExpectedVersion(q) /\ assertTransition(q) /\ q.op \in Operations
  BY <1>1, <1>2 DEF RequestSound, Request
<1>4. q.loaded.version = issue[q.issue].version
  BY <1>2, <1>3 DEF versionMatches, assertExpectedVersion, Operations
<1>5. QED
  BY <1>1, <1>2, <1>3, <1>4 DEF RequestSound, assertTransition

(* The writes of a commit of request r, one by one: to issue i, with       *)
(* history row h and event e.                                              *)
Writes(i, h, e) ==
  /\ issue' = [issue EXCEPT ![i] = issue'[i]] /\ issue'[i] \in Row
  /\ issue'[i].version = issue[i].version + 1
  /\ issue'[i].fld["assignee"] \in Users \cup {None}
  /\ history' = [history EXCEPT ![i] = Append(history[i], h)]
  /\ outbox' = [outbox EXCEPT ![i] = Append(outbox[i], e)]
  /\ e.version = issue[i].version + 1
  /\ issue[i].version > 0 => issue'[i].reporter = issue[i].reporter
  /\ e.recipients = recipients({issue'[i].reporter, issue'[i].fld["assignee"]}, e.actor)

Changes(r, i, h, e) ==
  /\ Writes(i, h, e)
  /\ i = req[r].issue /\ h.to = Setters(req[r])
  /\ h.from = [f \in DOMAIN h.to |-> issue[i].fld[f]]
  /\ issue'[i].fld = Patched(issue[i].fld, h.to)

Inserts(i, h, e) ==
  /\ Writes(i, h, e)
  /\ issue[i].version = 0
  /\ DOMAIN h.to = Fields \ {"description"} /\ DOMAIN h.from = {}
  /\ \A f \in DOMAIN h.to : h.to[f] = issue'[i].fld[f]

LEMMA CommitWrites ==
  ASSUME IInv, NEW r \in Requests, commitChange(r)
  PROVE  \E i \in Issues, h \in Entry, e \in Event : Changes(r, i, h, e)
<1> DEFINE q   == req[r]
           i   == q.issue
           set == Setters(q)
           row == [issue[i] EXCEPT !.version = issue[i].version + 1, !.fld = Patched(issue[i].fld, set)]
           h   == [op |-> q.op, actor |-> q.actor,
                   from |-> [f \in DOMAIN set |-> issue[i].fld[f]], to |-> set]
           e   == [op |-> q.op, version |-> row.version, actor |-> q.actor,
                   recipients |-> eventRecipients(q, row)]
<1>1. /\ q \in Request /\ i \in Issues /\ q.actor \in Users /\ q.patch \in Patches(q.op)
      /\ q.loaded = issue[i] /\ issue[i] \in Row
      /\ q.op \in Operations
  BY CommitsOnLoaded DEF IInv, TypeOK, Request
<1>2. set \in Change
  BY <1>1, SettersType
<1>3. issue[i].fld \in [Fields -> Values] /\ issue[i].version \in Nat
  BY <1>1 DEF Row
<1>4. row \in Row
  <2>1. Patched(issue[i].fld, set) \in [Fields -> Values]
    BY <1>2, <1>3, PatchedType
  <2>2. \A x \in Row, n \in Nat, g \in [Fields -> Values] :
          [x EXCEPT !.version = n, !.fld = g] \in Row
    BY DEF Row
  <2>3. issue[i].version + 1 \in Nat
    BY <1>3
  <2>4. QED  BY <1>1, <2>1, <2>2, <2>3
<1>5. row.version = issue[i].version + 1 /\ row.fld = Patched(issue[i].fld, set) /\ row.reporter = issue[i].reporter
  BY <1>1 DEF Row
<1>6. h \in Entry
  <2>1. DOMAIN set \subseteq Fields /\ set \in [DOMAIN set -> Values]
    BY <1>2, ChangeType
  <2>2. [f \in DOMAIN set |-> issue[i].fld[f]] \in [DOMAIN set -> Values]
    BY <1>3, <2>1
  <2>3. [f \in DOMAIN set |-> issue[i].fld[f]] \in Change
    BY <2>1, <2>2, ChangeDef
  <2>4. QED  BY <1>1, <1>2, <2>3 DEF Entry
<1>7. e \in Event /\ row.fld["assignee"] \in Users \cup {None}
  <2>1. issue[i].fld["assignee"] \in Users \cup {None} /\ issue[i].reporter \in Users \cup {None}
    BY <1>1 DEF IInv, AssigneesSound, Row
  <2>2. row.fld["assignee"] \in Users \cup {None}
    <3>1. "assignee" \in DOMAIN set => set["assignee"] \in Users \cup {None}
      BY <1>1, SettersType, PatchType DEF CoreFields
    <3>2. QED  BY <1>2, <1>3, <1>5, <2>1, <3>1, PatchedType DEF Fields
  <2>3. eventRecipients(q, row) \subseteq Users
    BY <1>1, <1>5, <2>1, <2>2 DEF eventRecipients, recipients
  <2>4. row.version \in Nat
    BY <1>3, <1>5
  <2>5. QED  BY <1>1, <2>2, <2>3, <2>4 DEF Event
<1>8. issue' = [issue EXCEPT ![i] = row]
  BY DEF commitChange
<1>9. issue'[i] = row
  BY <1>1, <1>8 DEF IInv, TypeOK
<1>10. history' = [history EXCEPT ![i] = Append(history[i], h)]
  BY <1>1 DEF commitChange
<1>11. outbox' = [outbox EXCEPT ![i] = Append(outbox[i], e)]
  BY DEF commitChange
<1>12. h.to = Setters(q) /\ h.from = [f \in DOMAIN h.to |-> issue[i].fld[f]]
  OBVIOUS
<1>13. e.version = issue[i].version + 1
  BY <1>5
<1>14. issue' = [issue EXCEPT ![i] = issue'[i]] /\ issue'[i].fld = Patched(issue[i].fld, h.to)
  BY <1>5, <1>8, <1>9, <1>12
<1>15. /\ issue'[i] \in Row /\ issue'[i].version = issue[i].version + 1
       /\ issue'[i].fld["assignee"] \in Users \cup {None}
       /\ issue'[i].reporter = issue[i].reporter
  BY <1>4, <1>5, <1>7, <1>9
<1>17. e.recipients = recipients({issue'[i].reporter, issue'[i].fld["assignee"]}, e.actor)
  <2>1. q.op = "comment" => issue[i].fld["assignee"] = row.fld["assignee"]
    <3>1. q.op = "comment" => set = q.patch /\ DOMAIN q.patch = {}
      BY <1>1, SettersType, PatchType
    <3>2. QED  BY <1>2, <1>3, <1>5, <3>1, PatchedType DEF Fields
  <2>2. eventRecipients(q, row) = recipients({row.reporter, row.fld["assignee"]}, q.actor)
    BY <1>1, <1>5, <2>1 DEF eventRecipients
  <2>3. QED  BY <1>9, <2>2
<1> HIDE DEF row, h, e, set, q, i
<1> USE <1>1, <1>6, <1>7
<1> WITNESS i \in Issues, h \in Entry, e \in Event
<1>16. QED
  BY <1>10, <1>11, <1>12, <1>13, <1>14, <1>15, <1>17 DEF Changes, Writes, i, q

(* The same for a create, which finds no row and no history. *)
LEMMA InsertWrites ==
  ASSUME IInv, NEW r \in Requests, NEW i \in Issues, insertIssue(r, i)
  PROVE  \E h \in Entry, e \in Event : Inserts(i, h, e)
<1> DEFINE q   == req[r]
           fld == Patched([NoRow.fld EXCEPT !["status"] = "TODO"], q.patch)
           row == [project |-> q.project, reporter |-> q.actor, version |-> 1, fld |-> fld]
           h   == [op |-> "create", actor |-> q.actor, from |-> NoChange,
                   to |-> [f \in Fields \ {"description"} |-> fld[f]]]
           e   == [op |-> "create", version |-> 1, actor |-> q.actor,
                   recipients |-> recipients({fld["assignee"]}, q.actor)]
<1>1. /\ q \in Request /\ q.actor \in Users /\ q.project \in Projects
      /\ q.patch \in Patches("create") /\ "create" \in Operations
  BY DEF IInv, TypeOK, RequestsSound, RequestSound, insertIssue, Operations
<1>3. q.patch \in Change /\ DOMAIN q.patch = {"summary", "description", "assignee"}
      /\ q.patch["assignee"] \in Users \cup {None}
  BY <1>1, PatchType
<1>4. fld \in [Fields -> Values] /\ fld["assignee"] \in Users \cup {None}
  <2>1. [NoRow.fld EXCEPT !["status"] = "TODO"] \in [Fields -> Values]
    BY DEF NoRow, Values, Statuses
  <2>2. QED  BY <1>3, <2>1, PatchedType DEF Fields
<1>5. row \in Row
  BY <1>1, <1>4 DEF Row, Request
<1>6. h \in Entry
  <2>1. [f \in Fields \ {"description"} |-> fld[f]] \in [Fields \ {"description"} -> Values]
    BY <1>4
  <2>2. [f \in Fields \ {"description"} |-> fld[f]] \in Change
    BY <2>1, ChangeDef
  <2>3. NoChange \in [{} -> Values]
    BY DEF NoChange
  <2>4. NoChange \in Change
    BY <2>3, ChangeDef
  <2>5. QED  BY <1>1, <2>2, <2>4 DEF Entry
<1>7. e \in Event
  BY <1>1, <1>4 DEF Event, recipients
<1>8. /\ issue[i].version = 0
      /\ issue' = [issue EXCEPT ![i] = row]
      /\ history' = [history EXCEPT ![i] = Append(history[i], h)]
      /\ outbox' = [outbox EXCEPT ![i] = Append(outbox[i], e)]
  BY DEF insertIssue
<1>9. issue'[i] = row /\ row.version = 1 /\ row.fld = fld
  BY <1>8 DEF IInv, TypeOK
<1>10. DOMAIN h.to = Fields \ {"description"} /\ DOMAIN h.from = {} /\ \A f \in DOMAIN h.to : h.to[f] = fld[f]
  BY DEF NoChange
<1>11. e.version = 1
  OBVIOUS
<1>13. /\ issue' = [issue EXCEPT ![i] = issue'[i]] /\ issue'[i] \in Row
       /\ issue'[i].version = 1 /\ issue'[i].fld["assignee"] \in Users \cup {None}
       /\ \A f \in DOMAIN h.to : h.to[f] = issue'[i].fld[f]
  BY <1>4, <1>5, <1>8, <1>9, <1>10
<1>14. /\ history' = [history EXCEPT ![i] = Append(history[i], h)]
       /\ outbox' = [outbox EXCEPT ![i] = Append(outbox[i], e)]
  BY <1>8
<1>15. issue[i].version = 0 /\ 0 + 1 = 1 /\ ~(0 > 0)
  BY <1>8
<1>17. e.recipients = recipients({issue'[i].reporter, issue'[i].fld["assignee"]}, e.actor)
  BY <1>9 DEF recipients
<1> HIDE DEF row, h, e, fld, q
<1>16. QED
  BY <1>6, <1>7, <1>10, <1>11, <1>13, <1>14, <1>15, <1>17 DEF Inserts, Writes

(* Only the two commits touch the tables. *)
LEMMA TablesFrame ==
  ASSUME [Next]_vars
  PROVE  \/ UNCHANGED tables
         \/ \E r \in Requests, i \in Issues : insertIssue(r, i)
         \/ \E r \in Requests : commitChange(r)
BY DEF Next, Handler, Environment, vars, tables, createIssue, changeIssue, requireWritable, assertAssignee,
       failRequest, archiveProject, changeMembership

-----------------------------------------------------------------------------
LEMMA IdleType == Idle \in Request /\ NoRow \in Row
<1>1. NoChange \in [{} -> Values] /\ NoRow.fld \in [Fields -> Values]
  BY DEF NoChange, NoRow, Values
<1>2. NoChange \in Change /\ NoRow \in Row
  BY <1>1, ChangeDef DEF NoRow, Row
<1>3. QED  BY <1>2 DEF Idle, Request, Steps, Operations

(* A request moved to another step is a request. *)
LEMMA MovedType ==
  ASSUME NEW q \in Request, NEW at \in Steps
  PROVE  [q EXCEPT !.at = at] \in Request
BY DEF Request

LEMMA WritesType ==
  ASSUME TypeOK, NEW i \in Issues, NEW h \in Entry, NEW e \in Event, Writes(i, h, e)
  PROVE  /\ issue' \in [Issues -> Row]
         /\ history' \in [Issues -> Seq(Entry)] /\ outbox' \in [Issues -> Seq(Event)]
<1>1. Append(history[i], h) \in Seq(Entry) /\ Append(outbox[i], e) \in Seq(Event)
  BY DEF TypeOK
<1>2. QED  BY <1>1 DEF Writes, TypeOK

LEMMA TypeStep ==
  ASSUME IInv, [Next]_vars
  PROVE  TypeOK'
<1> USE DEF IInv, TypeOK
<1>1. ASSUME req' \in [Requests -> Request], UNCHANGED <<tables, outside>> PROVE TypeOK'
  BY <1>1 DEF tables, outside
<1>2. ASSUME NEW r \in Requests, NEW u \in Users, NEW p \in Projects, createIssue(r, u, p) PROVE TypeOK'
  <2>1. PICK patch \in Patches("create") :
          req' = [req EXCEPT ![r] = [Idle EXCEPT !.at = "access", !.actor = u, !.project = p,
                                                 !.patch = patch]]
    BY <1>2 DEF createIssue
  <2>2. patch \in Change
    BY PatchType DEF Operations
  <2>3. [Idle EXCEPT !.at = "access", !.actor = u, !.project = p, !.patch = patch] \in Request
    BY <2>2, IdleType DEF Request, Steps
  <2>4. QED  BY <1>1, <1>2, <2>1, <2>3 DEF createIssue
<1>3. ASSUME NEW r \in Requests, NEW u \in Users, NEW i \in Issues, NEW op \in Operations,
             changeIssue(r, u, i, op) PROVE TypeOK'
  <2>1. issue[i] \in Row /\ issue[i].project \in Projects \cup {None} /\ issue[i].version \in Nat
    BY DEF Row
  <2>2. PICK patch \in Patches(op), v \in IF op = "comment" THEN {0} ELSE 1..issue[i].version :
          req' = [req EXCEPT ![r] =
            [Idle EXCEPT !.at = "access", !.op = op, !.actor = u, !.issue = i, !.expected = v,
                         !.patch = patch, !.loaded = issue[i], !.project = issue[i].project]]
    BY <1>3 DEF changeIssue
  <2>3. patch \in Change /\ v \in Nat
    BY <2>1, PatchType
  <2>4. [Idle EXCEPT !.at = "access", !.op = op, !.actor = u, !.issue = i, !.expected = v,
                     !.patch = patch, !.loaded = issue[i], !.project = issue[i].project] \in Request
    BY <2>1, <2>3, IdleType DEF Request, Steps
  <2>5. QED  BY <1>1, <1>3, <2>2, <2>4 DEF changeIssue
<1>4. ASSUME NEW r \in Requests, requireWritable(r) \/ assertAssignee(r)
      PROVE  TypeOK'
  <2>1. PICK at \in Steps : req' = [req EXCEPT ![r] = [req[r] EXCEPT !.at = at]]
    BY <1>4 DEF requireWritable, assertAssignee, AfterAccess, Steps
  <2>2. [req[r] EXCEPT !.at = at] \in Request
    BY MovedType
  <2>3. req' \in [Requests -> Request]
    BY <2>1, <2>2
  <2>4. QED  BY <1>1, <1>4, <2>3 DEF requireWritable, assertAssignee
<1>5. ASSUME NEW r \in Requests, Finish(r)
      PROVE  req' \in [Requests -> Request] /\ inFlight' \in [Projects -> SUBSET Requests]
  BY <1>5, IdleType DEF Finish
<1>6. ASSUME NEW r \in Requests, NEW i \in Issues, insertIssue(r, i) PROVE TypeOK'
  <2>1. PICK h \in Entry, e \in Event : Inserts(i, h, e)
    BY <1>6, InsertWrites
  <2>2. Finish(r) /\ UNCHANGED <<member, archived>>
    BY <1>6 DEF insertIssue
  <2>3. QED  BY <1>5, <2>1, <2>2, WritesType DEF Inserts
<1>7. ASSUME NEW r \in Requests, commitChange(r) PROVE TypeOK'
  <2>1. PICK i \in Issues, h \in Entry, e \in Event : Changes(r, i, h, e)
    BY <1>7, CommitWrites
  <2>2. Finish(r) /\ UNCHANGED <<member, archived>>
    BY <1>7 DEF commitChange
  <2>3. QED  BY <1>5, <2>1, <2>2, WritesType DEF Changes
<1>8. ASSUME NEW r \in Requests, failRequest(r) PROVE TypeOK'
  BY <1>5, <1>8 DEF failRequest, tables
<1>9. CASE Environment
  <2>2. ASSUME NEW p \in Projects, archiveProject(p) PROVE TypeOK'
    BY <2>2 DEF archiveProject, tables
  <2>3. ASSUME NEW p \in Projects, NEW u \in Users, changeMembership(p, u) PROVE TypeOK'
    <3>1. member' = [member EXCEPT ![p] = IF u \in member[p] THEN member[p] \ {u} ELSE member[p] \cup {u}]
      BY <2>3 DEF changeMembership
    <3>2. member' \in [Projects -> SUBSET Users]
      BY <3>1
    <3>3. QED  BY <2>3, <3>2 DEF changeMembership, tables
  <2>4. QED  BY <1>9, <2>2, <2>3 DEF Environment
<1>10. CASE UNCHANGED vars
  BY <1>10 DEF vars
<1>11. QED
  BY <1>2, <1>3, <1>4, <1>6, <1>7, <1>8, <1>9, <1>10 DEF Next, Handler

-----------------------------------------------------------------------------
(* A row is never changed without a new version. *)
LEMMA VersionsGrow ==
  ASSUME IInv, [Next]_vars, NEW i \in Issues
  PROVE  /\ issue[i].version \in Nat /\ issue'[i].version \in Nat
         /\ issue[i].version <= issue'[i].version
         /\ issue'[i].version = issue[i].version => issue'[i] = issue[i]
<1>1. TypeOK /\ TypeOK'
  BY TypeStep DEF IInv
<1>2. issue[i].version \in Nat /\ issue'[i].version \in Nat
  BY <1>1 DEF TypeOK, Row
<1>3. ASSUME NEW j \in Issues, NEW h \in Entry, NEW e \in Event, Writes(j, h, e)
      PROVE  i # j => issue'[i] = issue[i]
  BY <1>1, <1>3 DEF Writes, TypeOK
<1>4. UNCHANGED issue \/ \E j \in Issues, h \in Entry, e \in Event : Writes(j, h, e)
  <2>1. ASSUME NEW r \in Requests, NEW j \in Issues, insertIssue(r, j)
        PROVE  \E h \in Entry, e \in Event : Writes(j, h, e)
    BY <2>1, InsertWrites DEF Inserts
  <2>2. ASSUME NEW r \in Requests, commitChange(r)
        PROVE  \E j \in Issues, h \in Entry, e \in Event : Writes(j, h, e)
    BY <2>2, CommitWrites DEF Changes
  <2>3. QED  BY <2>1, <2>2, TablesFrame DEF tables
<1>5. ASSUME NEW j \in Issues, NEW h \in Entry, NEW e \in Event, Writes(j, h, e)
      PROVE  issue'[j].version = issue[j].version + 1
  BY <1>5 DEF Writes
<1>6. QED
  BY <1>2, <1>3, <1>4, <1>5

(* What a request knows of its row stays true while others write. *)
LEMMA RequestKept ==
  ASSUME IInv, [Next]_vars, NEW q \in Request, RequestSound(q)
  PROVE  RequestSound(q)'
<1>1. q.loaded.version \in Nat
  BY DEF Request, Row
<1>2. \A i \in Issues : /\ issue[i].version \in Nat /\ issue'[i].version \in Nat
                        /\ issue[i].version <= issue'[i].version
                        /\ issue'[i].version = issue[i].version => issue'[i] = issue[i]
  BY VersionsGrow
<1>3. QED
  BY <1>1, <1>2 DEF RequestSound, assertExpectedVersion, assertTransition

LEMMA RequestStep ==
  ASSUME IInv, [Next]_vars
  PROVE  RequestsSound'
<1>0. /\ req \in [Requests -> Request] /\ req' \in [Requests -> Request]
      /\ issue \in [Issues -> Row]
      /\ \A r \in Requests : RequestSound(req[r])
  BY TypeStep DEF IInv, TypeOK, RequestsSound
<1> SUFFICES ASSUME NEW r \in Requests PROVE RequestSound(req[r])'
  BY DEF RequestsSound
<1>1. PICK q \in Request : q = req'[r]
  BY <1>0
<1>2. SUFFICES RequestSound(q)
  <2>1. RequestSound(q)'
    BY <1>2, RequestKept
  <2>2. QED  BY <1>1, <2>1 DEF RequestSound
<1>3. CASE q = req[r]
  BY <1>0, <1>3
<1>4. CASE q = Idle
  BY <1>4 DEF RequestSound, Idle
<1>5. ASSUME NEW u \in Users, NEW p \in Projects, createIssue(r, u, p) PROVE RequestSound(q)
  <2>1. q.at = "access" /\ q.op = "create" /\ q.actor = u /\ q.project = p /\ q.patch \in Patches("create")
    BY <1>0, <1>1, <1>5 DEF createIssue, Idle
  <2>2. QED  BY <2>1 DEF RequestSound
<1>6. ASSUME NEW u \in Users, NEW i \in Issues, NEW op \in Operations, changeIssue(r, u, i, op)
      PROVE  RequestSound(q)
  <2>1. /\ q.at = "access" /\ q.op = op /\ q.actor = u /\ q.issue = i /\ q.loaded = issue[i]
        /\ q.patch \in Patches(op) /\ op # "create" /\ issue[i].version > 0
    BY <1>0, <1>1, <1>6 DEF changeIssue, Idle
  <2>2. issue[i].version \in Nat /\ issue[i].fld["assignee"] \in Users \cup {None}
    BY <1>0 DEF Row, IInv, AssigneesSound
  <2>3. QED  BY <2>1, <2>2 DEF RequestSound
<1>7. CASE requireWritable(r)
  <2>1. /\ req[r].at = "access" /\ assertExpectedVersion(req[r]) /\ assertTransition(req[r])
        /\ q = [req[r] EXCEPT !.at = AfterAccess(req[r])]
    BY <1>0, <1>1, <1>7 DEF requireWritable
  <2>2. /\ q.actor = req[r].actor /\ q.op = req[r].op /\ q.patch = req[r].patch
        /\ q.project = req[r].project /\ q.issue = req[r].issue /\ q.loaded = req[r].loaded
        /\ q.expected = req[r].expected
    BY <1>0, <2>1 DEF Request
  <2>3. RequestSound(req[r])
    BY <1>0
  <2>4. QED  BY <2>1, <2>2, <2>3 DEF RequestSound, assertExpectedVersion, assertTransition
<1>8. CASE assertAssignee(r)
  <2>1. PICK at \in Steps : req[r].at # "idle" /\ req[r].at # "access" /\ q = [req[r] EXCEPT !.at = at]
    BY <1>0, <1>1, <1>8 DEF assertAssignee, Steps
  <2>2. /\ q.actor = req[r].actor /\ q.op = req[r].op /\ q.patch = req[r].patch
        /\ q.project = req[r].project /\ q.issue = req[r].issue /\ q.loaded = req[r].loaded
        /\ q.expected = req[r].expected
    BY <1>0, <2>1 DEF Request
  <2>3. RequestSound(req[r])
    BY <1>0
  <2>4. QED  BY <2>1, <2>2, <2>3 DEF RequestSound, assertExpectedVersion, assertTransition
<1>9. CASE (\E i \in Issues : insertIssue(r, i)) \/ commitChange(r) \/ failRequest(r)
  <2>1. Finish(r)
    BY <1>9 DEF insertIssue, commitChange, failRequest
  <2>2. QED  BY <1>0, <1>1, <1>4, <2>1 DEF Finish
<1>10. ASSUME NEW s \in Requests, s # r, Handler(s) PROVE q = req[r]
  <2>1. \E c : req' = [req EXCEPT ![s] = c]
    BY <1>10 DEF Handler, createIssue, changeIssue, requireWritable, assertAssignee,
           insertIssue, commitChange, failRequest, Finish
  <2>2. QED  BY <1>0, <1>1, <1>10, <2>1
<1>11. CASE Environment \/ UNCHANGED vars
  BY <1>1, <1>3, <1>11
     DEF Environment, archiveProject, changeMembership, vars
<1>12. QED
  BY <1>3, <1>5, <1>6, <1>7, <1>8, <1>9, <1>10, <1>11 DEF Next, Handler

(* Assignees are users: what the history and the events call recipients. *)
LEMMA AssigneeStep ==
  ASSUME IInv, [Next]_vars
  PROVE  AssigneesSound'
<1>1. ASSUME NEW i \in Issues, NEW h \in Entry, NEW e \in Event, Writes(i, h, e)
      PROVE  AssigneesSound'
  BY <1>1 DEF Writes, AssigneesSound, IInv, TypeOK
<1>2. CASE UNCHANGED tables
  BY <1>2 DEF AssigneesSound, tables, IInv
<1>3. QED
  BY <1>1, <1>2, TablesFrame, InsertWrites, CommitWrites DEF Inserts, Changes

(* One history row and one event more, for the next version. *)
LEMMA EventStep ==
  ASSUME IInv, [Next]_vars
  PROVE  EventPerVersion'
<1>1. ASSUME NEW j \in Issues, NEW h \in Entry, NEW e \in Event, Writes(j, h, e)
      PROVE  EventPerVersion'
  <2> SUFFICES ASSUME NEW i \in Issues
               PROVE  /\ Len(history'[i]) = issue'[i].version
                      /\ Len(outbox'[i]) = issue'[i].version
                      /\ \A n \in DOMAIN outbox'[i] : outbox'[i][n].version = n
    BY DEF EventPerVersion
  <2>1. /\ history[i] \in Seq(Entry) /\ outbox[i] \in Seq(Event)
        /\ Len(history[i]) = issue[i].version /\ Len(outbox[i]) = issue[i].version
        /\ \A n \in DOMAIN outbox[i] : outbox[i][n].version = n
    BY DEF IInv, TypeOK, EventPerVersion
  <2>2. CASE i # j
    BY <1>1, <2>1, <2>2 DEF Writes, IInv, TypeOK
  <2>3. CASE i = j
    <3>1. /\ history'[i] = Append(history[i], h) /\ outbox'[i] = Append(outbox[i], e)
          /\ issue'[i].version = issue[i].version + 1 /\ e.version = issue[i].version + 1
      BY <1>1, <2>3 DEF Writes, IInv, TypeOK
    <3>2. QED  BY <2>1, <3>1
  <2>4. QED  BY <2>2, <2>3
<1>2. CASE UNCHANGED tables
  BY <1>2 DEF EventPerVersion, tables, IInv
<1>3. QED
  BY <1>1, <1>2, TablesFrame, InsertWrites, CommitWrites DEF Inserts, Changes

-----------------------------------------------------------------------------
(* What makes a new history row h of issue i fit the rows before it: it    *)
(* says what the issue becomes, and of what the issue was, unless it is    *)
(* the first.                                                              *)
Fits(i, h) ==
  \A f \in Fields :
    /\ Sets(h, f) => h.to[f] = issue'[i].fld[f]
    /\ issue[i].version > 0 /\ Sets(h, f) => h.from[f] = issue[i].fld[f]
    /\ issue[i].version > 0 /\ ~Sets(h, f) => issue'[i].fld[f] = issue[i].fld[f]

(* Both commits write such a row, a change because it commits on the row   *)
(* it loaded (CommitsOnLoaded).                                            *)
LEMMA RowsFit ==
  ASSUME IInv, NEW i \in Issues, NEW h \in Entry, NEW e \in Event,
         Inserts(i, h, e) \/ \E r \in Requests : Changes(r, i, h, e)
  PROVE  Fits(i, h)
<1>1. CASE Inserts(i, h, e)
  BY <1>1 DEF Inserts, Fits, Sets
<1>2. ASSUME NEW r \in Requests, Changes(r, i, h, e) PROVE Fits(i, h)
  <2>1. h.to \in Change /\ issue[i].fld \in [Fields -> Values]
    BY DEF Entry, IInv, TypeOK, Row
  <2>2. \A f \in Fields : issue'[i].fld[f] = IF f \in DOMAIN h.to THEN h.to[f] ELSE issue[i].fld[f]
    BY <1>2, <2>1, PatchedType DEF Changes
  <2>3. \A f \in DOMAIN h.to : h.from[f] = issue[i].fld[f]
    BY <1>2 DEF Changes
  <2>4. QED  BY <2>2, <2>3 DEF Fits, Sets
<1>3. QED  BY <1>1, <1>2

(* HistoryExplainsIssue, of one field of one issue. *)
Explains(i, f) ==
  /\ \A m \in DOMAIN history[i] :
       LastSetter(i, f, m, Len(history[i])) => history[i][m].to[f] = issue[i].fld[f]
  /\ \A n \in DOMAIN history[i], m \in DOMAIN history[i] :
       Sets(history[i][n], f) /\ LastSetter(i, f, m, n - 1)
         => history[i][n].from[f] = history[i][m].to[f]

(* A row more leaves the last setters up to an earlier version alone.      *)
LEMMA EarlierSetter ==
  ASSUME TypeOK, NEW i \in Issues, NEW f \in Fields, NEW h \in Entry,
         history'[i] = Append(history[i], h),
         NEW n \in 0..Len(history[i]), NEW m \in 1..(Len(history[i]) + 1), LastSetter(i, f, m, n)'
  PROVE  m \in 1..n /\ LastSetter(i, f, m, n) /\ history'[i][m] = history[i][m]
<1>1. history[i] \in Seq(Entry) /\ \A k \in 1..n : history'[i][k] = history[i][k]
  BY DEF TypeOK
<1>2. m \in 1..n
  BY DEF LastSetter
<1>3. Sets(history[i][m], f) /\ \A k \in (m + 1)..n : ~Sets(history[i][k], f)
  BY <1>1, <1>2 DEF LastSetter, Sets
<1>4. QED  BY <1>1, <1>2, <1>3 DEF LastSetter

LEMMA HistoryExtended ==
  ASSUME IInv, NEW i \in Issues, NEW f \in Fields, NEW h \in Entry, NEW e \in Event,
         Writes(i, h, e), Fits(i, h)
  PROVE  Explains(i, f)'
<1>0. history[i] \in Seq(Entry) /\ Len(history[i]) = issue[i].version /\ Explains(i, f)
  BY DEF IInv, TypeOK, EventPerVersion, HistoryExplainsIssue, Explains
<1>1. PICK N \in Nat : N = Len(history[i])
  BY <1>0
<1>2. history'[i] = Append(history[i], h)
  BY DEF Writes, IInv, TypeOK
<1>3. /\ DOMAIN history[i] = 1..N /\ DOMAIN history'[i] = 1..(N + 1) /\ Len(history'[i]) = N + 1
      /\ \A k \in 1..N : history'[i][k] = history[i][k]
      /\ history'[i][N + 1] = h
  <2>1. \A log \in Seq(Entry) :
          /\ DOMAIN log = 1..Len(log)
          /\ DOMAIN Append(log, h) = 1..(Len(log) + 1) /\ Len(Append(log, h)) = Len(log) + 1
          /\ \A k \in 1..Len(log) : Append(log, h)[k] = log[k]
          /\ Append(log, h)[Len(log) + 1] = h
    OBVIOUS
  <2>2. QED  BY <1>0, <1>1, <1>2, <2>1
<1>4. ASSUME NEW n \in 0..N, NEW m \in 1..(N + 1), LastSetter(i, f, m, n)'
      PROVE  m \in 1..N /\ LastSetter(i, f, m, n)
  <2>1. m \in 1..n /\ m \in 1..N
    BY <1>4 DEF LastSetter
  <2>2. \A k \in 1..n : history'[i][k] = history[i][k]
    BY <1>0, <1>1, <1>3
  <2>3. Sets(history[i][m], f) /\ \A k \in (m + 1)..n : ~Sets(history[i][k], f)
    BY <1>4, <2>1, <2>2 DEF LastSetter, Sets
  <2>4. QED  BY <2>1, <2>3 DEF LastSetter
<1>5. ASSUME NEW m \in 1..(N + 1), LastSetter(i, f, m, N + 1)'
      PROVE  history'[i][m].to[f] = issue'[i].fld[f]
  <2>1. CASE m = N + 1
    BY <1>3, <1>5, <2>1 DEF LastSetter, Fits
  <2>2. CASE m # N + 1
    <3>1. m \in 1..N /\ N + 1 \in (m + 1)..(N + 1)
      BY <1>1, <2>2
    <3>2. ~Sets(h, f)
      BY <1>3, <1>5, <3>1 DEF LastSetter, Sets
    <3>3. LastSetter(i, f, m, N)
      <4>1. m \in 1..N /\ Sets(history'[i][m], f) /\ \A k \in (m + 1)..N : ~Sets(history'[i][k], f)
        BY <1>5, <3>1 DEF LastSetter, Sets
      <4>2. \A k \in 1..N : history'[i][k] = history[i][k]
        BY <1>0, <1>1, <1>3
      <4>3. QED  BY <3>1, <4>1, <4>2 DEF LastSetter
    <3>4. history[i][m].to[f] = issue[i].fld[f]
      BY <1>0, <1>1, <1>3, <3>1, <3>3 DEF Explains
    <3>5. issue[i].version > 0
      BY <1>0, <1>1, <3>1
    <3>6. QED  BY <1>3, <3>1, <3>2, <3>4, <3>5 DEF Fits
  <2>3. QED  BY <2>1, <2>2
<1>6. ASSUME NEW n \in 1..(N + 1), NEW m \in 1..(N + 1),
             Sets(history'[i][n], f), LastSetter(i, f, m, n - 1)'
      PROVE  history'[i][n].from[f] = history'[i][m].to[f]
  <2>1. n - 1 \in 0..N
    BY <1>1
  <2>2. m \in 1..N /\ LastSetter(i, f, m, n - 1) /\ history'[i][m] = history[i][m]
    BY <1>3, <1>4, <1>6, <2>1
  <2>3. CASE n = N + 1
    <3>1. history[i][m].to[f] = issue[i].fld[f]
      BY <1>0, <1>1, <1>3, <2>2, <2>3 DEF Explains
    <3>2. Sets(h, f) /\ issue[i].version > 0
      BY <1>0, <1>1, <1>3, <1>6, <2>2, <2>3
    <3>3. QED  BY <1>3, <2>2, <2>3, <3>1, <3>2 DEF Fits
  <2>4. CASE n # N + 1
    <3>1. n \in 1..N /\ history'[i][n] = history[i][n]
      BY <1>0, <1>1, <1>3, <2>4
    <3>2. Sets(history[i][n], f)
      BY <1>6, <3>1
    <3>3. history[i][n].from[f] = history[i][m].to[f]
      BY <1>0, <1>1, <2>2, <3>1, <3>2 DEF Explains
    <3>4. QED  BY <2>2, <3>1, <3>3
  <2>5. QED  BY <2>3, <2>4
<1>7. QED  BY <1>3, <1>5, <1>6 DEF Explains, Sets

LEMMA HistoryStep ==
  ASSUME IInv, [Next]_vars
  PROVE  HistoryExplainsIssue'
<1> SUFFICES ASSUME NEW i \in Issues, NEW f \in Fields PROVE Explains(i, f)'
  BY DEF HistoryExplainsIssue, Explains
<1>1. Explains(i, f)
  BY DEF IInv, HistoryExplainsIssue, Explains
<1>2. CASE history'[i] = history[i] /\ issue'[i] = issue[i]
  BY <1>1, <1>2 DEF Explains, LastSetter
<1>3. ASSUME NEW j \in Issues, NEW h \in Entry, NEW e \in Event,
             Inserts(j, h, e) \/ \E r \in Requests : Changes(r, j, h, e)
      PROVE  Explains(i, f)'
  <2>1. Writes(j, h, e)
    BY <1>3 DEF Inserts, Changes
  <2>2. CASE i = j
    BY <1>3, <2>1, <2>2, RowsFit, HistoryExtended
  <2>3. CASE i # j
    BY <1>2, <2>1, <2>3 DEF Writes, IInv, TypeOK
  <2>4. QED  BY <2>2, <2>3
<1>4. QED
  BY <1>2, <1>3, TablesFrame, InsertWrites, CommitWrites DEF tables

-----------------------------------------------------------------------------
(* The event of a write is for who is assigned then: of the last setter up *)
(* to the new version, HistoryExplainsIssue says that it is the new row's. *)
LEMMA RecipientsExtended ==
  ASSUME IInv, HistoryExplainsIssue', NEW i \in Issues, NEW h \in Entry, NEW e \in Event,
         Writes(i, h, e), NEW n \in DOMAIN outbox'[i], NEW m \in 1..n,
         LastSetter(i, "assignee", m, n)'
  PROVE  outbox'[i][n].recipients =
           recipients({issue'[i].reporter, history'[i][m].to["assignee"]}, outbox'[i][n].actor)
<1>1. PICK N \in Nat : N = issue[i].version /\ N = Len(history[i]) /\ N = Len(outbox[i])
  BY DEF IInv, TypeOK, EventPerVersion, Row
<1>2. /\ history[i] \in Seq(Entry) /\ history'[i] = Append(history[i], h)
      /\ outbox[i] \in Seq(Event) /\ outbox'[i] = Append(outbox[i], e)
  BY DEF Writes, IInv, TypeOK
<1>3. /\ DOMAIN outbox'[i] = 1..(N + 1) /\ outbox'[i][N + 1] = e
      /\ \A k \in 1..N : outbox'[i][k] = outbox[i][k]
      /\ DOMAIN outbox[i] = 1..N
      /\ DOMAIN history'[i] = 1..(N + 1) /\ Len(history'[i]) = N + 1
  <2>1. \A log \in Seq(Event) :
          /\ DOMAIN log = 1..Len(log)
          /\ DOMAIN Append(log, e) = 1..(Len(log) + 1)
          /\ \A k \in 1..Len(log) : Append(log, e)[k] = log[k]
          /\ Append(log, e)[Len(log) + 1] = e
    OBVIOUS
  <2>2. \A log \in Seq(Entry) :
          DOMAIN Append(log, h) = 1..(Len(log) + 1) /\ Len(Append(log, h)) = Len(log) + 1
    OBVIOUS
  <2>3. QED  BY <1>1, <1>2, <2>1, <2>2
<1>4. n \in 1..(N + 1) /\ m \in 1..(N + 1)
  BY <1>1, <1>3
<1>5. CASE n = N + 1
  <2>1. history'[i][m].to["assignee"] = issue'[i].fld["assignee"]
    BY <1>3, <1>4, <1>5 DEF HistoryExplainsIssue, Fields
  <2>2. QED  BY <1>3, <1>5, <2>1 DEF Writes
<1>6. CASE n # N + 1
  <2>1. n \in 1..N /\ n \in 0..N /\ N > 0
    BY <1>1, <1>4, <1>6
  <2>2. LastSetter(i, "assignee", m, n) /\ history'[i][m] = history[i][m]
    BY <1>1, <1>2, <1>4, <2>1, EarlierSetter DEF IInv, Fields
  <2>3. issue'[i].reporter = issue[i].reporter
    BY <1>1, <2>1 DEF Writes
  <2>4. outbox[i][n].recipients =
          recipients({issue[i].reporter, history[i][m].to["assignee"]}, outbox[i][n].actor)
    BY <1>3, <2>1, <2>2 DEF IInv, RecipientsAreCurrent
  <2>5. QED  BY <1>3, <2>1, <2>2, <2>3, <2>4
<1>7. QED  BY <1>5, <1>6

LEMMA RecipientsStep ==
  ASSUME IInv, [Next]_vars
  PROVE  RecipientsAreCurrent'
<1> SUFFICES ASSUME NEW i \in Issues, NEW n \in DOMAIN outbox'[i], NEW m \in 1..n,
                    LastSetter(i, "assignee", m, n)'
             PROVE  outbox'[i][n].recipients =
                      recipients({issue'[i].reporter, history'[i][m].to["assignee"]},
                                 outbox'[i][n].actor)
  BY DEF RecipientsAreCurrent
<1>1. CASE history'[i] = history[i] /\ issue'[i] = issue[i] /\ outbox'[i] = outbox[i]
  BY <1>1 DEF IInv, RecipientsAreCurrent, LastSetter
<1>2. ASSUME NEW j \in Issues, NEW h \in Entry, NEW e \in Event, Writes(j, h, e)
      PROVE  outbox'[i][n].recipients =
               recipients({issue'[i].reporter, history'[i][m].to["assignee"]}, outbox'[i][n].actor)
  <2>1. CASE i = j
    BY <1>2, <2>1, HistoryStep, RecipientsExtended
  <2>2. CASE i # j
    BY <1>1, <1>2, <2>2 DEF Writes, IInv, TypeOK
  <2>3. QED  BY <2>1, <2>2
<1>3. QED
  BY <1>1, <1>2, TablesFrame, InsertWrites, CommitWrites DEF tables, Inserts, Changes

(* Past the access check a project was not archived, or the request has    *)
(* been in inFlight ever since it was.                                     *)
LEMMA ArchiveStep ==
  ASSUME IInv, [Next]_vars
  PROVE  ArchiveSound'
<1>0. /\ req \in [Requests -> Request] /\ req' \in [Requests -> Request]
      /\ archived \subseteq Projects /\ inFlight \in [Projects -> SUBSET Requests]
      /\ \A r \in Requests : req[r].at \notin {"idle", "access"} /\ req[r].project \in archived
                               => r \in inFlight[req[r].project]
  BY TypeStep DEF IInv, TypeOK, ArchiveSound
<1> SUFFICES ASSUME NEW r \in Requests, req'[r].at \notin {"idle", "access"},
                    req'[r].project \in archived'
             PROVE  r \in inFlight'[req'[r].project]
  BY DEF ArchiveSound
<1>1. ASSUME NEW s \in Requests, Finish(s), UNCHANGED archived PROVE r \in inFlight'[req'[r].project]
  <2>1. s # r /\ req'[r] = req[r]
    BY <1>0, <1>1 DEF Finish, Idle
  <2>2. QED  BY <1>0, <1>1, <2>1 DEF Finish
<1>2. ASSUME NEW s \in Requests,
             \/ \E u \in Users, p \in Projects : createIssue(s, u, p)
             \/ \E u \in Users, i \in Issues, op \in Operations : changeIssue(s, u, i, op)
      PROVE  r \in inFlight'[req'[r].project]
  <2>1. PICK q \in Request : q.at = "access" /\ req' = [req EXCEPT ![s] = q]
    <3>1. ASSUME NEW u \in Users, NEW p \in Projects, createIssue(s, u, p)
          PROVE  req'[s].at = "access" /\ req' = [req EXCEPT ![s] = req'[s]]
      BY <1>0, <3>1 DEF createIssue, Idle
    <3>2. ASSUME NEW u \in Users, NEW i \in Issues, NEW op \in Operations, changeIssue(s, u, i, op)
          PROVE  req'[s].at = "access" /\ req' = [req EXCEPT ![s] = req'[s]]
      BY <1>0, <3>2 DEF changeIssue, Idle
    <3>3. QED  BY <1>0, <1>2, <3>1, <3>2
  <2>2. UNCHANGED <<archived, inFlight>>
    BY <1>2 DEF createIssue, changeIssue, outside
  <2>3. QED  BY <1>0, <2>1, <2>2
<1>3. ASSUME NEW s \in Requests, requireWritable(s) \/ assertAssignee(s)
      PROVE  r \in inFlight'[req'[r].project]
  <2>1. UNCHANGED <<archived, inFlight>> /\ req'[r].project = req[r].project
    BY <1>0, <1>3 DEF requireWritable, assertAssignee, outside, Request
  <2>2. s # r => req'[r] = req[r]
    BY <1>0, <1>3 DEF requireWritable, assertAssignee
  <2>3. requireWritable(r) => req[r].project \notin archived
    BY DEF requireWritable, assertWritable
  <2>4. assertAssignee(r) => req[r].at = "assignee"
    BY DEF assertAssignee
  <2>5. QED  BY <1>0, <1>3, <2>1, <2>2, <2>3, <2>4
<1>4. CASE Environment
  <2>1. ASSUME NEW p \in Projects, archiveProject(p) PROVE r \in inFlight'[req'[r].project]
    BY <1>0, <2>1 DEF archiveProject
  <2>2. ASSUME NEW p \in Projects, NEW u \in Users, changeMembership(p, u)
        PROVE  r \in inFlight'[req'[r].project]
    BY <1>0, <2>2 DEF changeMembership
  <2>3. QED  BY <1>4, <2>1, <2>2 DEF Environment
<1>5. CASE UNCHANGED vars
  BY <1>0, <1>5 DEF vars
<1>6. QED
  BY <1>1, <1>2, <1>3, <1>4, <1>5 DEF Next, Handler, insertIssue, commitChange, failRequest

-----------------------------------------------------------------------------
LEMMA InitIInv == Init => IInv
<1> SUFFICES ASSUME Init PROVE IInv
  OBVIOUS
<1>1. TypeOK
  BY IdleType DEF Init, EmptyTables, TypeOK
<1>2. RequestsSound
  BY DEF Init, RequestsSound, RequestSound, Idle
<1>3. \A i \in Issues : /\ issue[i].version = 0 /\ issue[i].fld["assignee"] = None
                        /\ history[i] = <<>> /\ outbox[i] = <<>>
  BY DEF Init, EmptyTables, NoRow, Fields
<1>4. AssigneesSound /\ EventPerVersion /\ HistoryExplainsIssue /\ RecipientsAreCurrent
  BY <1>3 DEF AssigneesSound, EventPerVersion, HistoryExplainsIssue, RecipientsAreCurrent
<1>5. ArchiveSound
  BY DEF Init, ArchiveSound, Idle
<1>6. QED  BY <1>1, <1>2, <1>4, <1>5 DEF IInv

(* The inductive invariant of the issue writes holds in every reachable    *)
(* state.                                                                  *)
THEOREM Invariance == Spec => []IInv
<1>1. ASSUME IInv, [Next]_vars PROVE IInv'
  BY <1>1, TypeStep, RequestStep, AssigneeStep, EventStep, HistoryStep,
     RecipientsStep, ArchiveStep DEF IInv
<1>2. QED  BY InitIInv, <1>1, PTL DEF Spec

(* Every variable keeps its type (TypeOK). *)
THEOREM TypeCorrect == Spec => []TypeOK
<1>1. IInv => TypeOK
  BY DEF IInv
<1>2. QED  BY Invariance, <1>1, PTL

(* However many handlers loaded an issue before their HTTP calls, one that *)
(* reaches its commit matches the stored row exactly when it is the row it *)
(* loaded: the others are turned away, and nobody else is.                 *)
THEOREM StaleNeverCommits == Spec => []StaleIsDetected
<1>1. ASSUME IInv, NEW r \in Requests, req[r].at = "commit", req[r].op # "create"
      PROVE  versionMatches(req[r], issue[req[r].issue]) <=> issue[req[r].issue] = req[r].loaded
  <2>1. RequestSound(req[r]) /\ req[r].op \in Operations
    BY <1>1 DEF IInv, RequestsSound, TypeOK, Request
  <2>2. /\ req[r].loaded.version = issue[req[r].issue].version => req[r].loaded = issue[req[r].issue]
        /\ assertExpectedVersion(req[r])
    BY <1>1, <2>1 DEF RequestSound
  <2>3. req[r].op = "comment" \/ req[r].loaded.version = req[r].expected
    BY <1>1, <2>1, <2>2 DEF assertExpectedVersion, Operations
  <2>4. QED  BY <2>2, <2>3 DEF versionMatches
<1>2. IInv => StaleIsDetected
  BY <1>1 DEF StaleIsDetected
<1>3. QED  BY Invariance, <1>2, PTL

(* No update is lost and no field silently reverted: the history rows, the *)
(* old values of which were loaded before the access checks, replay to the *)
(* issue.                                                                  *)
THEOREM HistoryIsTruthful == Spec => []HistoryExplainsIssue
<1>1. IInv => HistoryExplainsIssue
  BY DEF IInv
<1>2. QED  BY Invariance, <1>1, PTL

(* Every event names the reporter and whoever was assigned at its version, *)
(* the actor excepted, although a comment's recipients are read before the *)
(* HTTP call its commit waits for.                                         *)
THEOREM RecipientsKnown == Spec => []RecipientsAreCurrent
<1>1. IInv => RecipientsAreCurrent
  BY DEF IInv
<1>2. QED  BY Invariance, <1>1, PTL

(* Only the requests under way when a project was archived commit to it    *)
(* afterwards.                                                             *)
THEOREM ArchiveIsShut == Spec => []ArchiveClosesProject
<1>1. IInv => ArchiveClosesProject
  BY DEF IInv, ArchiveSound, ArchiveClosesProject
<1>2. QED  BY Invariance, <1>1, PTL

(* The status moves along the transition table although the table is       *)
(* consulted on a row loaded before the access checks.                     *)
THEOREM StatusMovesLegally == Spec => LegalLifecycle
<1>1. ASSUME IInv, [Next]_vars
      PROVE  \A i \in Issues :
               issue[i].version > 0 /\ issue'[i].fld["status"] # issue[i].fld["status"]
                 => CanTransition(issue[i].fld["status"], issue'[i].fld["status"])
  <2> SUFFICES ASSUME NEW i \in Issues, issue[i].version > 0,
                      issue'[i].fld["status"] # issue[i].fld["status"]
               PROVE  CanTransition(issue[i].fld["status"], issue'[i].fld["status"])
    OBVIOUS
  <2>1. ASSUME NEW r \in Requests, NEW j \in Issues, insertIssue(r, j) PROVE FALSE
    <3>1. issue[j].version = 0 /\ issue' = [issue EXCEPT ![j] = issue'[j]]
      BY <1>1, <2>1, InsertWrites DEF Inserts, Writes
    <3>2. i # j => issue'[i] = issue[i]
      BY <1>1, <3>1 DEF IInv, TypeOK
    <3>3. i # j
      BY <3>1
    <3>4. QED  BY <3>2, <3>3
  <2>2. ASSUME NEW r \in Requests, commitChange(r)
        PROVE  CanTransition(issue[i].fld["status"], issue'[i].fld["status"])
    <3>1. PICK j \in Issues, h \in Entry, e \in Event : Changes(r, j, h, e)
      BY <1>1, <2>2, CommitWrites
    <3>2. j = i
      BY <1>1, <3>1 DEF Changes, Writes, IInv, TypeOK
    <3>3. h.to \in Change /\ h.to = Setters(req[r]) /\ issue[i].fld \in [Fields -> Values]
      BY <1>1, <3>1 DEF Changes, Entry, IInv, TypeOK, Row
    <3>4. "status" \in DOMAIN h.to /\ issue'[i].fld["status"] = h.to["status"]
      BY <3>1, <3>2, <3>3, PatchedType DEF Changes, Fields
    <3>5. /\ req[r] \in Request /\ req[r].op \in Operations /\ req[r].patch \in Patches(req[r].op)
          /\ req[r].op # "create"
          /\ req[r].op = "transition" =>
               CanTransition(issue[i].fld["status"], req[r].patch["status"])
      BY <1>1, <2>2, <3>1, <3>2, CommitsOnLoaded DEF Changes, Request, commitChange
    <3>6. req[r].op = "transition"
      <4>1. req[r].op # "update"
        BY <3>3, <3>4, <3>5, SettersType DEF CoreFields
      <4>2. "status" \in DOMAIN req[r].patch
        BY <3>3, <3>4, <3>5, <4>1, SettersType
      <4>3. /\ req[r].op = "assign" => DOMAIN req[r].patch = {"assignee"}
            /\ req[r].op = "comment" => DOMAIN req[r].patch = {}
        BY <3>5, PatchType
      <4>4. QED  BY <3>5, <4>1, <4>2, <4>3 DEF Operations
    <3>7. h.to = req[r].patch
      BY <3>3, <3>5, <3>6, SettersType
    <3>8. QED  BY <3>4, <3>5, <3>6, <3>7
  <2>3. QED  BY <1>1, <2>1, <2>2, TablesFrame DEF tables
<1>2. QED
  BY Invariance, <1>1, PTL DEF Spec, LegalLifecycle

(* Only a commit changes an issue, and it takes a new version: the         *)
(* assumption of the client's cache.                                       *)
THEOREM VersionIsContent == Spec => OneContentPerVersion
<1>1. ASSUME IInv, [Next]_vars
      PROVE  \A i \in Issues :
               /\ issue'[i].version >= issue[i].version
               /\ issue'[i].version = issue[i].version => issue'[i] = issue[i]
  BY <1>1, VersionsGrow
<1>2. QED
  BY Invariance, <1>1, PTL DEF Spec, OneContentPerVersion

(* The events of an issue reach the outbox one by one, each with the       *)
(* version after the last: what Outbox models as insertEvent.              *)
THEOREM EventsAreFed == Spec => FeedsOutbox
<1> DEFINE Following(i) == Len(outbox[i]) + 1
           Fed == \E i \in Issues :
                    /\ Following(i) \in DOMAIN outbox'[i] /\ outbox'[i][Following(i)].version = Following(i)
                    /\ outbox' = [outbox EXCEPT ![i] = Append(outbox[i], outbox'[i][Following(i)])]
<1>1. ASSUME IInv, [Next]_vars PROVE [Fed]_outbox
  <2>1. ASSUME NEW i \in Issues, NEW h \in Entry, NEW e \in Event, Writes(i, h, e) PROVE Fed
    <3>1. outbox \in [Issues -> Seq(Event)] /\ outbox' = [outbox EXCEPT ![i] = Append(outbox[i], e)]
      BY <1>1, <2>1 DEF Writes, IInv, TypeOK
    <3>2. e.version = Following(i)
      BY <1>1, <2>1 DEF Writes, IInv, EventPerVersion
    <3>3. outbox'[i] = Append(outbox[i], e) /\ outbox[i] \in Seq(Event)
      BY <3>1
    <3>4. Following(i) \in DOMAIN outbox'[i] /\ outbox'[i][Following(i)] = e
      BY <3>3
    <3>5. QED  BY <3>1, <3>2, <3>4
  <2>2. \/ outbox' = outbox
        \/ \E i \in Issues, h \in Entry, e \in Event : Writes(i, h, e)
    BY <1>1, TablesFrame, InsertWrites, CommitWrites DEF tables, Inserts, Changes
  <2>3. QED  BY <2>1, <2>2
<1>2. QED
  BY Invariance, <1>1, PTL DEF Spec, FeedsOutbox

-----------------------------------------------------------------------------
(* AtomicIssues speaks of the same columns, patches and recipients. *)
LEMMA SameTables ==
  /\ Atomic!Fields = Fields /\ Atomic!CoreFields = CoreFields
  /\ Atomic!NoRow = NoRow /\ Atomic!NoChange = NoChange /\ Atomic!Operations = Operations
  /\ \A op : Atomic!Patches(op) = Patches(op)
  /\ \A fld, c : Atomic!Patched(fld, c) = Patched(fld, c)
  /\ \A users, u : Atomic!recipients(users, u) = recipients(users, u)
  /\ \A a, b : Atomic!CanTransition(a, b) <=> CanTransition(a, b)
<1>1. Atomic!Fields = Fields /\ Atomic!CoreFields = CoreFields /\ Atomic!Statuses = Statuses
  BY DEF Atomic!Fields, Fields, Atomic!CoreFields, CoreFields, Atomic!Statuses, Statuses
<1>2. Atomic!NoChange = NoChange /\ Atomic!Operations = Operations
  BY DEF Atomic!NoChange, NoChange, Atomic!Operations, Operations
<1>3. Atomic!NoRow = NoRow
  BY <1>1 DEF Atomic!NoRow, NoRow
<1>4. \A op : Atomic!Patches(op) = Patches(op)
  BY <1>1, <1>2, Zenon DEF Atomic!Patches, Patches
<1>5. \A fld, c : Atomic!Patched(fld, c) = Patched(fld, c)
  BY <1>1, Zenon DEF Atomic!Patched, Patched
<1>6. /\ \A users, u : Atomic!recipients(users, u) = recipients(users, u)
      /\ \A a, b : Atomic!CanTransition(a, b) <=> CanTransition(a, b)
  BY Zenon DEF Atomic!recipients, recipients, Atomic!CanTransition, CanTransition
<1>7. QED  BY <1>1, <1>2, <1>3, <1>4, <1>5, <1>6

(* A create is one atomic step: nothing it loaded can be out of date. *)
LEMMA CreateIsAtomic ==
  ASSUME IInv, NEW r \in Requests, NEW i \in Issues, insertIssue(r, i)
  PROVE  Atomic!Next
<1> DEFINE q   == req[r]
           fld == Patched([NoRow.fld EXCEPT !["status"] = "TODO"], q.patch)
           row == [project |-> q.project, reporter |-> q.actor, version |-> 1, fld |-> fld]
<1>1. q.actor \in Users /\ q.project \in Projects /\ q.patch \in Patches("create")
  BY DEF IInv, RequestsSound, RequestSound, insertIssue
<1>2. recipients({fld["assignee"]}, q.actor) = recipients({q.actor, fld["assignee"]}, q.actor)
  BY DEF recipients
<1>3. Atomic!Write(i, q.actor, "create", row, NoChange, [f \in Fields \ {"description"} |-> fld[f]])
  <2>1. row.version = 1 /\ row.reporter = q.actor /\ row.fld = fld
    OBVIOUS
  <2>2. /\ issue' = [issue EXCEPT ![i] = row]
        /\ history' = [history EXCEPT ![i] = Append(history[i],
             [op |-> "create", actor |-> q.actor, from |-> NoChange,
              to |-> [f \in Fields \ {"description"} |-> fld[f]]])]
        /\ outbox' = [outbox EXCEPT ![i] = Append(outbox[i],
             [op |-> "create", version |-> 1, actor |-> q.actor,
              recipients |-> recipients({fld["assignee"]}, q.actor)])]
    BY DEF insertIssue
  <2> HIDE DEF row, fld, q
  <2>3. QED  BY <1>2, <2>1, <2>2, SameTables DEF Atomic!Write
<1>4. issue[i].version = 0
  BY DEF insertIssue
<1> HIDE DEF row, q
<1>5. Atomic!Create(i, q.actor, q.project)
  BY <1>1, <1>3, <1>4, SameTables DEF Atomic!Create, row
<1>6. QED  BY <1>1, <1>5 DEF Atomic!Next

(* The core fields that the body did not name are written with the loaded  *)
(* values, which a commit finds unchanged.                                 *)
LEMMA SettersChangeNoMore ==
  ASSUME NEW q \in Request, q.patch \in Patches(q.op), q.op # "create"
  PROVE  LET new == Patched(q.loaded.fld, q.patch)
         IN  /\ Patched(q.loaded.fld, Setters(q)) = new
             /\ DOMAIN Setters(q) = Atomic!Recorded(q.op, q.patch)
             /\ Setters(q) = [f \in DOMAIN Setters(q) |-> new[f]]
<1> DEFINE old == q.loaded.fld
           new == Patched(old, q.patch)
<1>1. q.op \in Operations /\ old \in [Fields -> Values] /\ q.patch \in Change
  BY PatchType DEF Request, Row
<1>2. /\ Setters(q) \in Change /\ DOMAIN Setters(q) \subseteq Fields
      /\ Setters(q) = [f \in DOMAIN Setters(q) |-> Setters(q)[f]]
  BY SettersType, ChangeType
<1>3. DOMAIN Setters(q) = Atomic!Recorded(q.op, q.patch)
  BY SettersType, SameTables DEF Atomic!Recorded
<1>4. \A f \in DOMAIN Setters(q) : Setters(q)[f] = new[f]
  <2>1. \A f \in Fields : new[f] = IF f \in DOMAIN q.patch THEN q.patch[f] ELSE old[f]
    BY <1>1, PatchedType
  <2>2. CASE q.op = "update"
    BY <1>2, <2>1, <2>2 DEF Setters
  <2>3. CASE q.op # "update"
    BY <1>2, <2>1, <2>3, SettersType
  <2>4. QED  BY <2>2, <2>3
<1>5. DOMAIN q.patch \subseteq DOMAIN Setters(q)
  BY <1>1, PatchType, SettersType
<1>6. Patched(old, Setters(q)) = new
  <2>1. \A f \in Fields : Patched(old, Setters(q))[f] = new[f]
    BY <1>1, <1>2, <1>4, <1>5, PatchedType
  <2>2. Patched(old, Setters(q)) \in [Fields -> Values] /\ new \in [Fields -> Values]
    BY <1>1, <1>2, PatchedType
  <2>3. QED  BY <2>1, <2>2
<1>7. QED  BY <1>2, <1>3, <1>4, <1>6

(* A change is one atomic step on the row it finds. *)
LEMMA ChangeIsAtomic ==
  ASSUME IInv, NEW r \in Requests, commitChange(r)
  PROVE  Atomic!Next
<1> DEFINE q   == req[r]
           i   == q.issue
           set == Setters(q)
           new == Patched(issue[i].fld, q.patch)
           row == [issue[i] EXCEPT !.version = issue[i].version + 1, !.fld = new]
<1>1. /\ q \in Request /\ i \in Issues /\ q.actor \in Users /\ q.patch \in Patches(q.op)
      /\ q.loaded = issue[i] /\ issue[i] \in Row /\ q.op \in Operations \ {"create"}
      /\ q.op = "transition" => CanTransition(issue[i].fld["status"], q.patch["status"])
  BY CommitsOnLoaded DEF IInv, TypeOK, Request, commitChange
<1>2. /\ Patched(issue[i].fld, set) = new
      /\ DOMAIN set = Atomic!Recorded(q.op, q.patch)
      /\ set = [f \in DOMAIN set |-> new[f]]
  BY <1>1, SettersChangeNoMore
<1>3. q.op = "transition" => new["status"] = q.patch["status"]
  <2>1. q.op = "transition" => "status" \in DOMAIN q.patch
    BY <1>1, PatchType
  <2>2. QED  BY <1>1, <2>1, PatchType, PatchedType DEF Row, Fields
<1>4. row.version = issue[i].version + 1 /\ row.fld = new /\ row.reporter = issue[i].reporter
  BY <1>1 DEF Row
<1>5. eventRecipients(q, row) = recipients({row.reporter, row.fld["assignee"]}, q.actor)
  <2>1. q.op = "comment" => issue[i].fld["assignee"] = new["assignee"]
    BY <1>1, PatchType, PatchedType DEF Row, Fields
  <2>2. QED  BY <1>1, <1>4, <2>1 DEF eventRecipients
<1>6. Atomic!Write(i, q.actor, q.op, row, [f \in Atomic!Recorded(q.op, q.patch) |-> issue[i].fld[f]],
                   [f \in Atomic!Recorded(q.op, q.patch) |-> new[f]])
  <2>1. issue' = [issue EXCEPT ![i] = row]
    BY <1>2 DEF commitChange
  <2>2. history' = [history EXCEPT ![i] = Append(history[i],
             [op |-> q.op, actor |-> q.actor,
              from |-> [f \in DOMAIN set |-> issue[i].fld[f]], to |-> set])]
    BY <1>1 DEF commitChange
  <2>3. outbox' = [outbox EXCEPT ![i] = Append(outbox[i],
             [op |-> q.op, version |-> row.version, actor |-> q.actor,
              recipients |-> recipients({row.reporter, row.fld["assignee"]}, q.actor)])]
    BY <1>2, <1>5 DEF commitChange
  <2> HIDE DEF row, new, set, q, i
  <2>4. QED  BY <1>2, <2>1, <2>2, <2>3, SameTables DEF Atomic!Write
<1>7. issue[i].version > 0
  BY <1>1 DEF IInv, RequestsSound, RequestSound, commitChange
<1> HIDE DEF row, set, q, i
<1>8. Atomic!Alter(i, q.actor, q.op)
  BY <1>1, <1>3, <1>6, <1>7, SameTables DEF Atomic!Alter, row
<1>9. QED  BY <1>1, <1>8, SameTables DEF Atomic!Next

(* The handlers are linearizable: however their loads, checks and commits  *)
(* interleave, the tables change as if each write ran alone, at its commit *)
(* (AtomicIssues).                                                         *)
THEOREM Linearizable == Spec => ImplementsAtomicIssues
<1>1. Init => Atomic!Init
  BY SameTables DEF Init, EmptyTables, Atomic!Init, Atomic!EmptyTables
<1>2. ASSUME IInv, [Next]_vars PROVE [Atomic!Next]_(Atomic!tables)
  BY <1>2, TablesFrame, CreateIsAtomic, ChangeIsAtomic DEF tables, Atomic!tables
<1>3. QED
  BY Invariance, <1>1, <1>2, PTL DEF Spec, ImplementsAtomicIssues, Atomic!Spec
=============================================================================
