--------------------------- MODULE Backlog_proofs ---------------------------
(***************************************************************************)
(* For any number of epics, sprints, issues and requests in flight, any    *)
(* clock skew and any page size: the statements keep what the checks       *)
(* before them can not, and a client that follows the cursor reads every   *)
(* issue that stays, once.                                                 *)
(***************************************************************************)
EXTENDS Backlog, TLAPS

(* What a request in flight carries.  The one that inserts an issue holds  *)
(* the row of the number sequence, so its number is still the next one.    *)
RequestSound(q) ==
  q.at # "idle" =>
    /\ q.project \in Projects
    /\ q.op = "updateEpic" => q.epic \in Epics
    /\ q.op = "completeSprint" => q.sprint \in Sprints /\ sprint[q.sprint].project # None
    /\ q.at = "links" => q.sprint \in Sprints
    /\ q.at = "insert" => q.number = lastNumber[q.project] + 1

RequestsSound == \A r \in Requests : RequestSound(req[r])

SequenceLocked ==
  \A r, s \in Requests :
    req[r].at = "insert" /\ req[s].at = "insert" /\ req[r].project = req[s].project => r = s

CompletedExist == \A s \in Sprints : sprint[s].status = "COMPLETED" => sprint[s].project # None

(* ClosedToNewRequests, and what it was before the check of the links.     *)
ProjectsClosed ==
  \A r \in Requests :
    req[r].at \notin {"idle", "access"} /\ req[r].project \in archived
      => r \in underway[req[r].project]

SprintsClosed ==
  \A r \in Requests :
    /\ req[r].at \in {"commit", "insert"} /\ req[r].op = "createIssue" /\ req[r].sprint # None
    => sprint[req[r].sprint].status = "ACTIVE" \/ r \in underway[req[r].sprint]

(* What has been read lies at the cursor or before it; what has to be read *)
(* has been, or lies behind it and still matches.                          *)
ListSound ==
  /\ \A i \in Issues : list.items[i] <= 1
  /\ list.at = "pages" =>
       /\ list.after = None => list.due = {} /\ \A i \in Issues : list.items[i] = 0
       /\ list.after # None =>
            /\ \A i \in Issues : list.items[i] # 0 =>
                 issue[i].project # None /\ ~Follows(Position(i), list.after)
            /\ \A i \in list.due :
                 i \in Matching(list.filter) /\ (list.items[i] = 1 \/ Follows(Position(i), list.after))
  /\ list.at = "done" => \A i \in list.due : list.items[i] = 1

PlanningInv ==
  /\ PlanningTypeOK
  /\ RequestsSound
  /\ SequenceLocked
  /\ CompletedExist
  /\ ProjectsClosed
  /\ SprintsClosed
  /\ NumbersAreDense

IInv ==
  /\ PlanningInv
  /\ list \in Listing
  /\ ListSound

-----------------------------------------------------------------------------
LEMMA IdleType == Idle \in Request /\ NoEpic \in EpicRow /\ NoSprint \in SprintRow /\ NoIssue \in IssueRow
BY DEF Idle, Request, Operations, Maybe, DateValue, NoEpic, EpicRow, NoSprint, SprintRow, NoIssue, IssueRow

LEMMA DateType ==
  /\ \A d \in Maybe(Days) : optionalDate(d) \in DateValue /\ fromColumn(d) \in DateValue
  /\ \A v \in DateValue : day(v) \in Maybe(Days)
<1>1. ASSUME NEW d \in Maybe(Days) PROVE optionalDate(d) \in DateValue /\ fromColumn(d) \in DateValue
  BY <1>1 DEF optionalDate, fromColumn, DateValue, Maybe
<1>2. ASSUME NEW v \in DateValue PROVE day(v) \in Maybe(Days)
  BY <1>2 DEF day, DateValue, Maybe
<1>3. QED  BY <1>1, <1>2

(* The actions that begin a request, and those that move it on. *)
Begins(r) ==
  \/ \E p \in Projects, start, target \in Maybe(Days) : createEpic(r, p, start, target)
  \/ \E e \in Epics, named \in SUBSET {"start", "target"} :
       \E start \in IF "start" \in named THEN Maybe(Days) ELSE {None},
          target \in IF "target" \in named THEN Maybe(Days) ELSE {None} :
         updateEpic(r, e, named, start, target)
  \/ \E p \in Projects : createSprint(r, p)
  \/ \E s \in Sprints : completeSprint(r, s)
  \/ \E p \in Projects, s \in Maybe(Sprints) : createIssue(r, p, s)

Ends(r) ==
  \/ \E e \in Epics : insertEpic(r, e)
  \/ writeEpic(r)
  \/ \E s \in Sprints : insertSprint(r, s)
  \/ writeCompletion(r)
  \/ \E i \in Issues : insertIssue(r, i)
  \/ failRequest(r)

LEMMA HandlerCases ==
  ASSUME NEW r \in Requests, Handler(r)
  PROVE  Begins(r) \/ requireWritableProject(r) \/ assertPlanningLinks(r) \/ takeNumber(r) \/ Ends(r)
BY DEF Handler, Begins, Ends

(* A new request: a request at its access check that knows what it needs.  *)
LEMMA Begun ==
  ASSUME PlanningTypeOK, NEW r \in Requests, Begins(r)
  PROVE  /\ \E q \in Request : q.at = "access" /\ RequestSound(q) /\ req' = [req EXCEPT ![r] = q]
         /\ started' \in Nat
         /\ UNCHANGED <<epic, sprint, issue, lastNumber, archived, clock, underway>>
<1>1. ASSUME NEW q \in Request, Begin(r, q), RequestSound([q EXCEPT !.at = "access"])
      PROVE  /\ \E c \in Request : c.at = "access" /\ RequestSound(c) /\ req' = [req EXCEPT ![r] = c]
             /\ started' \in Nat
             /\ UNCHANGED <<epic, sprint, issue, lastNumber, archived, clock, underway>>
  <2>1. [q EXCEPT !.at = "access"] \in Request /\ [q EXCEPT !.at = "access"].at = "access"
    BY DEF Request
  <2>2. PICK c \in Request : c = [q EXCEPT !.at = "access"]
    BY <2>1
  <2>3. c.at = "access" /\ RequestSound(c)
    BY <1>1, <2>1, <2>2
  <2>4. req' = [req EXCEPT ![r] = c]
    BY <1>1, <2>2 DEF Begin
  <2>5. started' \in Nat /\ UNCHANGED <<epic, sprint, issue, lastNumber, archived, clock, underway>>
    BY <1>1 DEF Begin, PlanningTypeOK
  <2>6. QED  BY <2>3, <2>4, <2>5
<1>2. ASSUME NEW p \in Projects, NEW start \in Maybe(Days), NEW target \in Maybe(Days),
             createEpic(r, p, start, target)
      PROVE  \E q \in Request : Begin(r, q) /\ RequestSound([q EXCEPT !.at = "access"])
  <2> DEFINE q == [Idle EXCEPT !.op = "createEpic", !.project = p,
                               !.start = optionalDate(start), !.target = optionalDate(target)]
  <2>1. q \in Request
    BY IdleType, DateType DEF Request, Operations, Maybe
  <2>2. RequestSound([q EXCEPT !.at = "access"])
    BY DEF RequestSound, Idle
  <2>3. QED  BY <1>2, <2>1, <2>2 DEF createEpic
<1>3. ASSUME NEW e \in Epics, NEW named \in SUBSET {"start", "target"},
             NEW start \in IF "start" \in named THEN Maybe(Days) ELSE {None},
             NEW target \in IF "target" \in named THEN Maybe(Days) ELSE {None},
             updateEpic(r, e, named, start, target)
      PROVE  \E q \in Request : Begin(r, q) /\ RequestSound([q EXCEPT !.at = "access"])
  <2> DEFINE s == IF "start"  \in named THEN optionalDate(start)  ELSE fromColumn(epic[e].start)
             t == IF "target" \in named THEN optionalDate(target) ELSE fromColumn(epic[e].target)
             q == [Idle EXCEPT !.op = "updateEpic", !.project = epic[e].project, !.epic = e,
                               !.start = s, !.target = t]
  <2>1. epic[e] \in EpicRow /\ epic[e].project # None
    BY <1>3 DEF updateEpic, PlanningTypeOK
  <2>2. s \in DateValue /\ t \in DateValue /\ epic[e].project \in Projects
    BY <2>1, DateType DEF EpicRow, Maybe
  <2>3. Begin(r, q)
    BY <1>3 DEF updateEpic
  <2> HIDE DEF s, t
  <2>4. q \in Request
    BY <2>2, IdleType DEF Request, Operations, Maybe
  <2>5. RequestSound([q EXCEPT !.at = "access"])
    BY <2>2 DEF RequestSound, Idle
  <2>6. QED  BY <2>3, <2>4, <2>5
<1>4. ASSUME NEW p \in Projects, createSprint(r, p)
      PROVE  \E q \in Request : Begin(r, q) /\ RequestSound([q EXCEPT !.at = "access"])
  <2> DEFINE q == [Idle EXCEPT !.op = "createSprint", !.project = p]
  <2>1. q \in Request
    BY IdleType DEF Request, Operations, Maybe
  <2>2. RequestSound([q EXCEPT !.at = "access"])
    BY DEF RequestSound, Idle
  <2>3. QED  BY <1>4, <2>1, <2>2 DEF createSprint
<1>5. ASSUME NEW s \in Sprints, completeSprint(r, s)
      PROVE  \E q \in Request : Begin(r, q) /\ RequestSound([q EXCEPT !.at = "access"])
  <2> DEFINE q == [Idle EXCEPT !.op = "completeSprint", !.project = sprint[s].project, !.sprint = s,
                               !.active = sprint[s].status = "ACTIVE"]
  <2>1. sprint[s].project \in Projects
    BY <1>5 DEF completeSprint, PlanningTypeOK, SprintRow, Maybe
  <2>2. q \in Request
    BY <2>1, IdleType DEF Request, Operations, Maybe
  <2>3. RequestSound([q EXCEPT !.at = "access"])
    BY <1>5, <2>1 DEF RequestSound, Idle, completeSprint
  <2>4. QED  BY <1>5, <2>2, <2>3 DEF completeSprint
<1>6. ASSUME NEW p \in Projects, NEW s \in Maybe(Sprints), createIssue(r, p, s)
      PROVE  \E q \in Request : Begin(r, q) /\ RequestSound([q EXCEPT !.at = "access"])
  <2> DEFINE q == [Idle EXCEPT !.project = p, !.sprint = s]
  <2>1. q \in Request
    BY IdleType DEF Request, Operations, Maybe
  <2>2. RequestSound([q EXCEPT !.at = "access"])
    BY DEF RequestSound, Idle
  <2>3. QED  BY <1>6, <2>1, <2>2 DEF createIssue
<1>7. \E q \in Request : Begin(r, q) /\ RequestSound([q EXCEPT !.at = "access"])
  <2>1. CASE \E p \in Projects, start, target \in Maybe(Days) : createEpic(r, p, start, target)
    BY <1>2, <2>1
  <2>2. CASE \E e \in Epics, named \in SUBSET {"start", "target"} :
               \E start \in IF "start" \in named THEN Maybe(Days) ELSE {None},
                  target \in IF "target" \in named THEN Maybe(Days) ELSE {None} :
                 updateEpic(r, e, named, start, target)
    BY <1>3, <2>2
  <2>3. CASE \E p \in Projects : createSprint(r, p)
    BY <1>4, <2>3
  <2>4. CASE \E s \in Sprints : completeSprint(r, s)
    BY <1>5, <2>4
  <2>5. CASE \E p \in Projects, s \in Maybe(Sprints) : createIssue(r, p, s)
    BY <1>6, <2>5
  <2>6. QED  BY <2>1, <2>2, <2>3, <2>4, <2>5 DEF Begins
<1>8. QED  BY <1>1, <1>7
-----------------------------------------------------------------------------
LEMMA FinishType ==
  ASSUME PlanningTypeOK, NEW r \in Requests, Finish(r)
  PROVE  /\ req' \in [Requests -> Request] /\ req'[r] = Idle
         /\ \A s \in Requests \ {r} : req'[s] = req[s]
         /\ underway' \in [Projects \cup Sprints -> SUBSET Requests]
         /\ \A x \in Projects \cup Sprints : underway'[x] = underway[x] \ {r}
         /\ UNCHANGED <<archived, clock, started>>
BY IdleType DEF PlanningTypeOK, Finish

LEMMA CompletedType ==
  ASSUME NEW row \in SprintRow, NEW time \in Nat
  PROVE  /\ [row EXCEPT !.status = "COMPLETED", !.completed = time] \in SprintRow
         /\ [row EXCEPT !.status = "COMPLETED", !.completed = time].project = row.project
BY DEF SprintRow, Maybe

(* A completion, whose request is gone and which all the others may not    *)
(* have noticed yet.                                                       *)
LEMMA CompletionType ==
  ASSUME PlanningTypeOK, RequestsSound, NEW r \in Requests, writeCompletion(r)
  PROVE  /\ req' \in [Requests -> Request] /\ req'[r] = Idle
         /\ \A s \in Requests \ {r} : req'[s] = req[s]
         /\ underway' \in [Projects \cup Sprints -> SUBSET Requests]
         /\ req[r].sprint \in Sprints /\ sprint[req[r].sprint].project # None
         /\ sprint' \in [Sprints -> SprintRow]
         /\ \A s \in Sprints : /\ sprint'[s].project = sprint[s].project
                               /\ s # req[r].sprint => sprint'[s] = sprint[s]
         /\ \A x \in Projects \cup Sprints : underway'[x] =
              (IF x = req[r].sprint THEN UnderwayNow ELSE underway[x]) \ {r}
         /\ sprint[req[r].sprint].status = "ACTIVE"
         /\ UNCHANGED <<epic, issue, lastNumber, archived, clock, started>>
<1>1. /\ req \in [Requests -> Request] /\ sprint \in [Sprints -> SprintRow] /\ clock \in Nat
      /\ underway \in [Projects \cup Sprints -> SUBSET Requests]
      /\ req[r].sprint \in Sprints /\ sprint[req[r].sprint].project # None
  BY DEF PlanningTypeOK, RequestsSound, RequestSound, writeCompletion
<1>2. PICK s \in Sprints : s = req[r].sprint
  BY <1>1
<1>3. sprint' = [sprint EXCEPT ![s].status = "COMPLETED", ![s].completed = clock]
  BY <1>2 DEF writeCompletion
<1>4. sprint' \in [Sprints -> SprintRow]
  <2>1. [sprint[s] EXCEPT !.status = "COMPLETED", !.completed = clock] \in SprintRow
    BY <1>1, CompletedType
  <2>2. DOMAIN sprint = Sprints /\ sprint = [x \in Sprints |-> sprint[x]]
    BY <1>1
  <2>3. sprint' = [sprint EXCEPT ![s] = [sprint[s] EXCEPT !.status = "COMPLETED", !.completed = clock]]
    BY <1>3, <2>2, Zenon
  <2>4. QED  BY <1>1, <2>1, <2>3
<1>5. \A u \in Sprints : sprint'[u].project = sprint[u].project /\ (u # s => sprint'[u] = sprint[u])
  <2>1. sprint' = [sprint EXCEPT ![s] = [sprint[s] EXCEPT !.status = "COMPLETED", !.completed = clock]]
    <3>1. DOMAIN sprint = Sprints /\ sprint = [x \in Sprints |-> sprint[x]]
      BY <1>1
    <3>2. QED  BY <1>3, <3>1, Zenon
  <2>2. [sprint[s] EXCEPT !.status = "COMPLETED", !.completed = clock].project = sprint[s].project
    BY <1>1, CompletedType
  <2>3. QED  BY <1>1, <2>1, <2>2
<1>6. req' \in [Requests -> Request] /\ req'[r] = Idle /\ \A u \in Requests \ {r} : req'[u] = req[u]
  BY <1>1, IdleType DEF writeCompletion
<1>7. /\ underway' = [x \in Projects \cup Sprints |->
                        (IF x = req[r].sprint THEN UnderwayNow ELSE underway[x]) \ {r}]
      /\ UnderwayNow \subseteq Requests
  BY <1>1 DEF writeCompletion, UnderwayNow
<1>8. underway' \in [Projects \cup Sprints -> SUBSET Requests]
  BY <1>1, <1>7
<1>9. QED  BY <1>1, <1>2, <1>4, <1>5, <1>6, <1>7, <1>8 DEF writeCompletion

(* A step changes the rows of the tables in one place, and what the row of *)
(* an issue says, its status apart, never.                                 *)
LEMMA InsertType ==
  ASSUME PlanningTypeOK, RequestsSound, NEW r \in Requests, NEW i \in Issues, insertIssue(r, i)
  PROVE  LET p == req[r].project IN
         /\ p \in Projects /\ req[r].at = "insert" /\ req[r].number = lastNumber[p] + 1
         /\ Finish(r) /\ UNCHANGED <<epic, sprint>>
         /\ issue[i].project = None
         /\ issue' \in [Issues -> IssueRow]
         /\ issue'[i].project = p /\ issue'[i].number = lastNumber[p] + 1
         /\ \A j \in Issues \ {i} : issue'[j] = issue[j]
         /\ lastNumber' = [lastNumber EXCEPT ![p] = lastNumber[p] + 1]
<1> DEFINE p == req[r].project
           row == [project |-> p, sprint |-> req[r].sprint, number |-> req[r].number,
                   created |-> req[r].created, status |-> "TODO"]
<1>1. /\ p \in Projects /\ req[r].at = "insert" /\ req[r].number = lastNumber[p] + 1
      /\ req[r] \in Request /\ issue \in [Issues -> IssueRow] /\ lastNumber \in [Projects -> Nat]
  BY DEF insertIssue, RequestsSound, RequestSound, PlanningTypeOK
<1>2. row \in IssueRow /\ row.project = p /\ row.number = lastNumber[p] + 1
  BY <1>1 DEF IssueRow, Request, Maybe
<1>3. /\ issue[i].project = None /\ Finish(r) /\ UNCHANGED <<epic, sprint>>
      /\ issue' = [issue EXCEPT ![i] = row]
      /\ lastNumber' = [lastNumber EXCEPT ![p] = req[r].number]
  BY DEF insertIssue
<1> HIDE DEF p, row
<1>4. issue' \in [Issues -> IssueRow] /\ issue'[i] = row /\ \A j \in Issues \ {i} : issue'[j] = issue[j]
  BY <1>1, <1>2, <1>3
<1>5. QED  BY <1>1, <1>2, <1>3, <1>4 DEF p
(* A check that passes, or the number that is taken: what the request is   *)
(* about stays, and it moves on.                                           *)
LEMMA Moved ==
  ASSUME PlanningTypeOK, RequestsSound, NEW r \in Requests,
         requireWritableProject(r) \/ assertPlanningLinks(r) \/ takeNumber(r)
  PROVE  /\ \E q \in Request :
              /\ req' = [req EXCEPT ![r] = q] /\ q.at \in {"links", "commit", "insert"}
              /\ q.project = req[r].project /\ q.epic = req[r].epic
              /\ q.sprint = req[r].sprint /\ q.op = req[r].op
              /\ q.at = "links" => q.sprint # None
              /\ q.at = "insert" =>
                   q.number = lastNumber[q.project] + 1 /\ sequenceIsFree(q.project)
              /\ req[r].at = "access" => q.project \notin archived
              /\ q.at \in {"commit", "insert"} /\ q.op = "createIssue" /\ q.sprint # None =>
                   req[r].at = "commit" \/ sprint[q.sprint].status = "ACTIVE"
         /\ req[r].at # "idle"
         /\ UNCHANGED <<epic, sprint, issue, lastNumber, archived, clock, started, underway>>
<1>0. req[r] \in Request /\ req \in [Requests -> Request] /\ lastNumber \in [Projects -> Nat] /\ clock \in Nat
      /\ (req[r].at # "idle" => req[r].project \in Projects)
  BY DEF PlanningTypeOK, RequestsSound, RequestSound
<1>1. CASE requireWritableProject(r)
  <2>1. PICK step \in {"links", "commit"} :
          /\ req' = [req EXCEPT ![r] = [req[r] EXCEPT !.at = step]]
          /\ req[r].at = "access" /\ req[r].project \notin archived
          /\ step = "links" <=> req[r].op = "createIssue" /\ req[r].sprint # None
    BY <1>1 DEF requireWritableProject, Advance
  <2>2. PICK q \in Request : q = [req[r] EXCEPT !.at = step]
    BY <1>0 DEF Request
  <2>3. /\ q.at = step /\ q.project = req[r].project /\ q.epic = req[r].epic
        /\ q.sprint = req[r].sprint /\ q.op = req[r].op
    BY <1>0, <2>2 DEF Request
  <2>4. req' = [req EXCEPT ![r] = q]
    BY <2>1, <2>2
  <2>5. UNCHANGED <<epic, sprint, issue, lastNumber, archived, clock, started, underway>>
    BY <1>1 DEF requireWritableProject, Advance
  <2>6. QED  BY <2>1, <2>3, <2>4, <2>5
<1>2. CASE assertPlanningLinks(r)
  <2>1. /\ req' = [req EXCEPT ![r] = [req[r] EXCEPT !.at = "commit"]]
        /\ req[r].at = "links" /\ sprint[req[r].sprint].status = "ACTIVE"
    BY <1>2 DEF assertPlanningLinks, Advance
  <2>2. PICK q \in Request : q = [req[r] EXCEPT !.at = "commit"]
    BY <1>0 DEF Request
  <2>3. /\ q.at = "commit" /\ q.project = req[r].project /\ q.epic = req[r].epic
        /\ q.sprint = req[r].sprint /\ q.op = req[r].op
    BY <1>0, <2>2 DEF Request
  <2>4. req' = [req EXCEPT ![r] = q]
    BY <2>1, <2>2
  <2>5. UNCHANGED <<epic, sprint, issue, lastNumber, archived, clock, started, underway>>
    BY <1>2 DEF assertPlanningLinks, Advance
  <2>6. QED  BY <2>1, <2>3, <2>4, <2>5
<1>3. CASE takeNumber(r)
  <2>1. PICK behind \in 0..MaxSkew :
          req' = [req EXCEPT ![r] = [req[r] EXCEPT !.at = "insert", !.created = clock - behind,
                                                   !.number = lastNumber[req[r].project] + 1]]
    BY <1>3 DEF takeNumber
  <2>2. /\ req[r].at = "commit" /\ sequenceIsFree(req[r].project)
        /\ UNCHANGED <<epic, sprint, issue, lastNumber, archived, clock, started, underway>>
    BY <1>3 DEF takeNumber
  <2>3. clock - behind \in Int /\ lastNumber[req[r].project] + 1 \in Nat
    BY <1>0, <2>1, <2>2, PlanningAssumption
  <2>4. PICK q \in Request : q = [req[r] EXCEPT !.at = "insert", !.created = clock - behind,
                                               !.number = lastNumber[req[r].project] + 1]
    BY <1>0, <2>3 DEF Request
  <2>5. /\ q.at = "insert" /\ q.project = req[r].project /\ q.epic = req[r].epic
        /\ q.sprint = req[r].sprint /\ q.op = req[r].op /\ q.number = lastNumber[q.project] + 1
    BY <1>0, <2>4 DEF Request
  <2>6. req' = [req EXCEPT ![r] = q]
    BY <2>1, <2>4
  <2>7. QED  BY <2>2, <2>5, <2>6
<1>4. QED  BY <1>1, <1>2, <1>3

LEMMA TransitionType ==
  ASSUME PlanningTypeOK, NEW i \in Issues, transitionIssue(i)
  PROVE  /\ issue' \in [Issues -> IssueRow] /\ started' \in Nat
         /\ \A j \in Issues : /\ issue'[j].project = issue[j].project /\ issue'[j].sprint = issue[j].sprint
                              /\ issue'[j].number = issue[j].number /\ issue'[j].created = issue[j].created
         /\ UNCHANGED <<epic, sprint, lastNumber, req, archived, clock, underway>>
<1>1. PICK status \in {"TODO", "OTHER"} : issue' = [issue EXCEPT ![i].status = status]
  BY DEF transitionIssue
<1>2. issue \in [Issues -> IssueRow] /\ started \in Nat
  BY DEF PlanningTypeOK
<1>3. issue' \in [Issues -> IssueRow]
  BY <1>1, <1>2 DEF IssueRow
<1>4. \A j \in Issues : /\ issue'[j].project = issue[j].project /\ issue'[j].sprint = issue[j].sprint
                       /\ issue'[j].number = issue[j].number /\ issue'[j].created = issue[j].created
  BY <1>1, <1>2 DEF IssueRow
<1>5. QED  BY <1>2, <1>3, <1>4 DEF transitionIssue

(* The two writes of the epics table. *)
LEMMA EpicType ==
  ASSUME PlanningTypeOK, RequestsSound, NEW r \in Requests,
         (\E e \in Epics : insertEpic(r, e)) \/ writeEpic(r)
  PROVE  /\ epic' \in [Epics -> EpicRow]
         /\ Finish(r) /\ UNCHANGED <<sprint, issue, lastNumber>>
<1>0. /\ epic \in [Epics -> EpicRow] /\ req[r] \in Request
      /\ day(req[r].start) \in Maybe(Days) /\ day(req[r].target) \in Maybe(Days)
  BY DateType DEF PlanningTypeOK, Request
<1>1. ASSUME NEW e \in Epics, NEW row \in EpicRow, epic' = [epic EXCEPT ![e] = row]
      PROVE  epic' \in [Epics -> EpicRow]
  BY <1>0, <1>1
<1>2. ASSUME NEW e \in Epics, insertEpic(r, e)
      PROVE  epic' \in [Epics -> EpicRow]
  <2> DEFINE row == [project |-> req[r].project, start |-> day(req[r].start), target |-> day(req[r].target)]
  <2>1. row \in EpicRow
    BY <1>0 DEF EpicRow, Request
  <2>2. QED  BY <1>1, <1>2, <2>1 DEF insertEpic
<1>3. ASSUME writeEpic(r)
      PROVE  epic' \in [Epics -> EpicRow]
  <2>1. PICK e \in Epics : e = req[r].epic
    BY <1>3 DEF writeEpic, RequestsSound, RequestSound
  <2>2. epic' = [epic EXCEPT ![e].start = day(req[r].start), ![e].target = day(req[r].target)]
    BY <1>3, <2>1 DEF writeEpic
  <2>3. PICK row \in EpicRow : row = [epic[e] EXCEPT !.start = day(req[r].start), !.target = day(req[r].target)]
    BY <1>0 DEF EpicRow
  <2>4. epic' = [epic EXCEPT ![e] = row]
    BY <1>0, <2>2, <2>3
  <2>5. QED  BY <1>1, <2>4
<1>4. QED  BY <1>2, <1>3 DEF insertEpic, writeEpic

LEMMA SprintType ==
  ASSUME PlanningTypeOK, RequestsSound, NEW r \in Requests, NEW s \in Sprints, insertSprint(r, s)
  PROVE  /\ sprint' \in [Sprints -> SprintRow] /\ sprint[s].project = None
         /\ sprint'[s].project \in Projects /\ sprint'[s].status = sprint[s].status
         /\ \A u \in Sprints \ {s} : sprint'[u] = sprint[u]
         /\ Finish(r) /\ UNCHANGED <<epic, issue, lastNumber>>
<1>1. /\ sprint' = [sprint EXCEPT ![s].project = req[r].project] /\ req[r].project \in Projects
      /\ sprint \in [Sprints -> SprintRow]
  BY DEF insertSprint, PlanningTypeOK, RequestsSound, RequestSound
<1>2. QED  BY <1>1 DEF insertSprint, SprintRow, Maybe
-----------------------------------------------------------------------------
(* One step of the planning service keeps each part of its invariant.      *)
PlanningStep == [Next]_planning

Environment ==
  \/ \E p \in Projects : archiveProject(p)
  \/ \E i \in Issues : transitionIssue(i)
  \/ Tick
  \/ UNCHANGED planning

LEMMA StepCases ==
  ASSUME PlanningStep
  PROVE  \/ \E r \in Requests : \/ Begins(r) \/ Ends(r)
                               \/ requireWritableProject(r) \/ assertPlanningLinks(r) \/ takeNumber(r)
         \/ Environment
BY HandlerCases DEF PlanningStep, Next, Environment

LEMMA ArchiveType ==
  ASSUME PlanningTypeOK, NEW p \in Projects, archiveProject(p)
  PROVE  /\ archived' \subseteq Projects
         /\ underway' \in [Projects \cup Sprints -> SUBSET Requests]
         /\ archived' = archived \cup {p} /\ underway' = [underway EXCEPT ![p] = UnderwayNow]
         /\ UNCHANGED <<epic, sprint, issue, lastNumber, req, clock, started>>
<1>1. UnderwayNow \subseteq Requests /\ archived \subseteq Projects
      /\ underway \in [Projects \cup Sprints -> SUBSET Requests]
  BY DEF UnderwayNow, PlanningTypeOK
<1>2. QED  BY <1>1 DEF archiveProject

LEMMA TypeStep ==
  ASSUME PlanningInv, PlanningStep
  PROVE  PlanningTypeOK'
<1>0. PlanningTypeOK /\ RequestsSound
  BY DEF PlanningInv
<1>1. ASSUME NEW r \in Requests, Begins(r) PROVE PlanningTypeOK'
  BY <1>0, <1>1, Begun DEF PlanningTypeOK
<1>2. ASSUME NEW r \in Requests,
             requireWritableProject(r) \/ assertPlanningLinks(r) \/ takeNumber(r) PROVE PlanningTypeOK'
  <2>1. PICK q \in Request : req' = [req EXCEPT ![r] = q]
    BY <1>0, <1>2, Moved
  <2>2. UNCHANGED <<epic, sprint, issue, lastNumber, archived, clock, started, underway>>
    BY <1>0, <1>2, Moved
  <2>3. QED  BY <1>0, <2>1, <2>2 DEF PlanningTypeOK
<1>3. ASSUME NEW r \in Requests, (\E e \in Epics : insertEpic(r, e)) \/ writeEpic(r) PROVE PlanningTypeOK'
  <2>1. epic' \in [Epics -> EpicRow] /\ Finish(r) /\ UNCHANGED <<sprint, issue, lastNumber>>
    BY <1>0, <1>3, EpicType
  <2>2. QED  BY <1>0, <2>1, FinishType DEF PlanningTypeOK
<1>4. ASSUME NEW r \in Requests, NEW s \in Sprints, insertSprint(r, s) PROVE PlanningTypeOK'
  <2>1. sprint' \in [Sprints -> SprintRow] /\ Finish(r) /\ UNCHANGED <<epic, issue, lastNumber>>
    BY <1>0, <1>4, SprintType
  <2>2. QED  BY <1>0, <2>1, FinishType DEF PlanningTypeOK
<1>5. ASSUME NEW r \in Requests, writeCompletion(r) PROVE PlanningTypeOK'
  BY <1>0, <1>5, CompletionType DEF PlanningTypeOK
<1>6. ASSUME NEW r \in Requests, NEW i \in Issues, insertIssue(r, i) PROVE PlanningTypeOK'
  <2>1. /\ issue' \in [Issues -> IssueRow] /\ Finish(r) /\ UNCHANGED <<epic, sprint>>
        /\ req[r].project \in Projects
        /\ lastNumber' = [lastNumber EXCEPT ![req[r].project] = lastNumber[req[r].project] + 1]
    BY <1>0, <1>6, InsertType
  <2>2. lastNumber' \in [Projects -> Nat]
    BY <1>0, <2>1 DEF PlanningTypeOK
  <2>3. QED  BY <1>0, <2>1, <2>2, FinishType DEF PlanningTypeOK
<1>7. ASSUME NEW r \in Requests, failRequest(r) PROVE PlanningTypeOK'
  BY <1>0, <1>7, FinishType DEF PlanningTypeOK, failRequest
<1>8. CASE Environment
  <2>1. ASSUME NEW p \in Projects, archiveProject(p) PROVE PlanningTypeOK'
    BY <1>0, <2>1, ArchiveType DEF PlanningTypeOK
  <2>2. ASSUME NEW i \in Issues, transitionIssue(i) PROVE PlanningTypeOK'
    BY <1>0, <2>2, TransitionType DEF PlanningTypeOK
  <2>3. CASE Tick \/ UNCHANGED planning
    BY <1>0, <2>3 DEF PlanningTypeOK, Tick, planning
  <2>4. QED  BY <1>8, <2>1, <2>2, <2>3 DEF Environment
<1>9. QED
  BY <1>1, <1>2, <1>3, <1>4, <1>5, <1>6, <1>7, <1>8, StepCases DEF Ends

(* What a step does to the requests: each goes on, ends or is new.         *)
LEMMA EndsFinish ==
  ASSUME PlanningTypeOK, RequestsSound, NEW r \in Requests, Ends(r)
  PROVE  /\ req'[r] = Idle /\ \A s \in Requests \ {r} : req'[s] = req[s]
         /\ UNCHANGED archived
<1>1. CASE writeCompletion(r)
  BY <1>1, CompletionType
<1>2. CASE ~writeCompletion(r)
  <2>1. Finish(r)
    BY <1>2 DEF Ends, insertEpic, writeEpic, insertSprint, insertIssue, failRequest
  <2>2. QED  BY <2>1, FinishType
<1>3. QED  BY <1>1, <1>2

(* Projects and sprints stay what they are, but that a sprint completes.   *)
LEMMA SprintsStay ==
  ASSUME PlanningInv, PlanningStep, NEW s \in Sprints
  PROVE  /\ sprint[s].project # None => sprint'[s].project = sprint[s].project
         /\ sprint'[s].project # None \/ sprint'[s].status = sprint[s].status
         /\ sprint[s].status = "COMPLETED" => sprint'[s] = sprint[s]
         /\ sprint[s].status = "ACTIVE" /\ sprint'[s].status # "ACTIVE" =>
              \E r \in Requests : writeCompletion(r) /\ req[r].sprint = s
<1>0. PlanningTypeOK /\ RequestsSound /\ CompletedExist
  BY DEF PlanningInv
<1>1. ASSUME UNCHANGED sprint
      PROVE  /\ sprint[s].project # None => sprint'[s].project = sprint[s].project
             /\ sprint'[s].project # None \/ sprint'[s].status = sprint[s].status
             /\ sprint'[s] = sprint[s] /\ sprint'[s].status = sprint[s].status
  BY <1>1
<1>2. ASSUME NEW r \in Requests, NEW u \in Sprints, insertSprint(r, u)
      PROVE  /\ sprint[s].project # None => sprint'[s].project = sprint[s].project
             /\ sprint'[s].status = sprint[s].status
             /\ sprint[s].status = "COMPLETED" => sprint'[s] = sprint[s]
  <2>1. /\ sprint[u].project = None /\ sprint'[u].status = sprint[u].status
        /\ \A v \in Sprints \ {u} : sprint'[v] = sprint[v]
    BY <1>0, <1>2, SprintType
  <2>2. QED  BY <1>0, <2>1 DEF CompletedExist
<1>3. ASSUME NEW r \in Requests, writeCompletion(r)
      PROVE  /\ sprint[s].project # None => sprint'[s].project = sprint[s].project
             /\ sprint'[s].project # None \/ sprint'[s].status = sprint[s].status
             /\ sprint[s].status = "COMPLETED" => sprint'[s] = sprint[s]
             /\ sprint'[s].status # sprint[s].status => req[r].sprint = s
  BY <1>0, <1>3, CompletionType
<1>4. \/ UNCHANGED sprint
      \/ \E r \in Requests, u \in Sprints : insertSprint(r, u)
      \/ \E r \in Requests : writeCompletion(r)
  <2>1. ASSUME NEW r \in Requests, Begins(r) PROVE UNCHANGED sprint
    BY <1>0, <2>1, Begun
  <2>2. ASSUME NEW r \in Requests,
               requireWritableProject(r) \/ assertPlanningLinks(r) \/ takeNumber(r) PROVE UNCHANGED sprint
    BY <1>0, <2>2, Moved
  <2>3. CASE Environment
    BY <2>3 DEF Environment, archiveProject, transitionIssue, Tick, planning
  <2>4. QED
    BY <2>1, <2>2, <2>3, StepCases DEF Ends, insertEpic, writeEpic, insertIssue, failRequest
<1>5. QED  BY <1>1, <1>2, <1>3, <1>4

LEMMA CompletedStep ==
  ASSUME PlanningInv, PlanningStep
  PROVE  CompletedExist'
<1> SUFFICES ASSUME NEW s \in Sprints, sprint'[s].status = "COMPLETED"
             PROVE  sprint'[s].project # None
  BY DEF CompletedExist
<1>1. QED  BY SprintsStay DEF PlanningInv, CompletedExist
(* While a request holds the row of the sequence, nobody counts on. *)
LEMMA NumberKept ==
  ASSUME PlanningInv, PlanningStep, NEW r \in Requests, req[r].at = "insert", req'[r] = req[r]
  PROVE  lastNumber'[req[r].project] = lastNumber[req[r].project]
<1>0. /\ PlanningTypeOK /\ RequestsSound /\ SequenceLocked
      /\ req[r].project \in Projects
  BY DEF PlanningInv, RequestsSound, RequestSound
<1>1. ASSUME NEW s \in Requests, NEW i \in Issues, insertIssue(s, i)
      PROVE  lastNumber'[req[r].project] = lastNumber[req[r].project]
  <2>1. /\ req[s].at = "insert" /\ req[s].project \in Projects /\ Finish(s)
        /\ lastNumber' = [lastNumber EXCEPT ![req[s].project] = lastNumber[req[s].project] + 1]
    BY <1>0, <1>1, InsertType
  <2>2. r # s
    BY <1>0, <2>1, FinishType DEF Idle
  <2>3. req[r].project # req[s].project
    BY <1>0, <2>1, <2>2 DEF SequenceLocked
  <2>4. QED  BY <1>0, <2>1, <2>3 DEF PlanningTypeOK
<1>2. ASSUME NEW s \in Requests, Begins(s) PROVE UNCHANGED lastNumber
  BY <1>0, <1>2, Begun
<1>3. ASSUME NEW s \in Requests,
             requireWritableProject(s) \/ assertPlanningLinks(s) \/ takeNumber(s) PROVE UNCHANGED lastNumber
  BY <1>0, <1>3, Moved
<1>4. CASE Environment
  BY <1>4 DEF Environment, archiveProject, transitionIssue, Tick, planning
<1>5. QED
  BY <1>1, <1>2, <1>3, <1>4, StepCases
     DEF Ends, insertEpic, writeEpic, insertSprint, writeCompletion, failRequest

LEMMA RequestStep ==
  ASSUME PlanningInv, PlanningStep
  PROVE  RequestsSound'
<1>0. /\ PlanningTypeOK /\ RequestsSound /\ PlanningTypeOK'
      /\ req \in [Requests -> Request]
  BY TypeStep DEF PlanningInv, PlanningTypeOK
<1> SUFFICES ASSUME NEW r \in Requests PROVE RequestSound(req[r])'
  BY DEF RequestsSound
<1>1. CASE req'[r] = req[r]
  <2>1. RequestSound(req[r])
    BY <1>0 DEF RequestsSound
  <2>2. req[r].at = "insert" => lastNumber'[req[r].project] = lastNumber[req[r].project]
    BY <1>1, NumberKept
  <2>3. \A s \in Sprints : sprint[s].project # None => sprint'[s].project # None
    BY SprintsStay
  <2>4. QED  BY <1>1, <2>1, <2>2, <2>3 DEF RequestSound
<1>2. CASE req'[r] = Idle
  BY <1>2 DEF RequestSound, Idle
<1>3. ASSUME Begins(r) PROVE RequestSound(req[r])'
  <2>1. PICK q \in Request : q.at = "access" /\ RequestSound(q) /\ req' = [req EXCEPT ![r] = q]
    BY <1>0, <1>3, Begun
  <2>2. req'[r] = q /\ UNCHANGED <<sprint, lastNumber>>
    BY <1>0, <1>3, <2>1, Begun
  <2>3. QED  BY <2>1, <2>2 DEF RequestSound
<1>4. ASSUME requireWritableProject(r) \/ assertPlanningLinks(r) \/ takeNumber(r) PROVE RequestSound(req[r])'
  <2>1. PICK q \in Request :
          /\ req' = [req EXCEPT ![r] = q] /\ q.at \in {"links", "commit", "insert"}
          /\ q.project = req[r].project /\ q.epic = req[r].epic
          /\ q.sprint = req[r].sprint /\ q.op = req[r].op
          /\ q.at = "links" => q.sprint # None
          /\ q.at = "insert" => q.number = lastNumber[q.project] + 1
    BY <1>0, <1>4, Moved
  <2>2. req'[r] = q /\ UNCHANGED <<sprint, lastNumber>> /\ req[r].at # "idle" /\ RequestSound(req[r])
    BY <1>0, <1>4, <2>1, Moved DEF RequestsSound
  <2>3. q.at = "links" => q.sprint \in Sprints
    BY <2>1 DEF Request, Maybe
  <2>4. QED  BY <2>1, <2>2, <2>3 DEF RequestSound
<1>5. ASSUME NEW s \in Requests \ {r}, Begins(s) \/ Ends(s) \/
             requireWritableProject(s) \/ assertPlanningLinks(s) \/ takeNumber(s)
      PROVE  req'[r] = req[r]
  <2>1. CASE Ends(s)
    BY <1>0, <2>1, EndsFinish
  <2>2. CASE Begins(s)
    BY <1>0, <2>2, Begun
  <2>3. CASE requireWritableProject(s) \/ assertPlanningLinks(s) \/ takeNumber(s)
    BY <1>0, <2>3, Moved
  <2>4. QED  BY <1>5, <2>1, <2>2, <2>3
<1>6. CASE Environment
  BY <1>1, <1>6 DEF Environment, archiveProject, transitionIssue, Tick, planning
<1>7. CASE Ends(r)
  BY <1>0, <1>2, <1>7, EndsFinish
<1>8. QED  BY <1>1, <1>3, <1>4, <1>5, <1>6, <1>7, StepCases

(* The upsert of the number sequence waits for the transaction before it.  *)
LEMMA SequenceStep ==
  ASSUME PlanningInv, PlanningStep
  PROVE  SequenceLocked'
<1>0. PlanningTypeOK /\ RequestsSound /\ SequenceLocked /\ req \in [Requests -> Request]
  BY DEF PlanningInv, PlanningTypeOK
<1> SUFFICES ASSUME NEW r \in Requests, NEW s \in Requests, req'[r].at = "insert", req'[s].at = "insert",
                    req'[r].project = req'[s].project
             PROVE  r = s
  BY DEF SequenceLocked
<1>1. CASE UNCHANGED req
  BY <1>0, <1>1 DEF SequenceLocked
<1>2. ASSUME NEW u \in Requests, Begins(u) PROVE r = s
  <2>1. PICK q \in Request : q.at = "access" /\ req' = [req EXCEPT ![u] = q]
    BY <1>0, <1>2, Begun
  <2>2. QED  BY <1>0, <2>1 DEF SequenceLocked
<1>3. ASSUME NEW u \in Requests, requireWritableProject(u) \/ assertPlanningLinks(u) \/ takeNumber(u)
      PROVE  r = s
  <2>1. PICK q \in Request : /\ req' = [req EXCEPT ![u] = q]
                             /\ q.at = "insert" => sequenceIsFree(q.project)
    BY <1>0, <1>3, Moved
  <2>2. QED  BY <1>0, <2>1 DEF SequenceLocked, sequenceIsFree
<1>4. ASSUME NEW u \in Requests, Ends(u) PROVE r = s
  <2>1. req'[u] = Idle /\ \A v \in Requests \ {u} : req'[v] = req[v]
    BY <1>0, <1>4, EndsFinish
  <2>2. r # u /\ s # u
    BY <2>1 DEF Idle
  <2>3. QED  BY <1>0, <2>1, <2>2 DEF SequenceLocked
<1>5. QED
  BY <1>1, <1>2, <1>3, <1>4, StepCases
     DEF Environment, archiveProject, transitionIssue, Tick, planning

-----------------------------------------------------------------------------
(* Who was under way when something closed stays in underway to the end. *)
LEMMA UnderwayKept ==
  ASSUME PlanningInv, PlanningStep, NEW r \in Requests, NEW x \in Projects \cup Sprints,
         r \in underway[x], req[r].at # "idle", req'[r].at # "idle"
  PROVE  r \in underway'[x]
<1>0. PlanningTypeOK /\ RequestsSound /\ underway \in [Projects \cup Sprints -> SUBSET Requests]
  BY DEF PlanningInv, PlanningTypeOK
<1>1. r \in UnderwayNow
  BY DEF UnderwayNow
<1>2. ASSUME NEW s \in Requests, Ends(s) PROVE r \in underway'[x]
  <2>1. s # r
    BY <1>0, <1>2, EndsFinish DEF Idle
  <2>2. CASE writeCompletion(s)
    BY <1>0, <1>1, <2>1, <2>2, CompletionType
  <2>3. CASE ~writeCompletion(s)
    <3>1. Finish(s)
      BY <1>2, <2>3 DEF Ends, insertEpic, writeEpic, insertSprint, insertIssue, failRequest
    <3>2. QED  BY <1>0, <2>1, <3>1, FinishType
  <2>4. QED  BY <2>2, <2>3
<1>3. ASSUME NEW s \in Requests, Begins(s) PROVE r \in underway'[x]
  BY <1>0, <1>3, Begun
<1>4. ASSUME NEW s \in Requests, requireWritableProject(s) \/ assertPlanningLinks(s) \/ takeNumber(s)
      PROVE  r \in underway'[x]
  BY <1>0, <1>4, Moved
<1>5. CASE Environment
  <2>1. ASSUME NEW p \in Projects, archiveProject(p) PROVE r \in underway'[x]
    BY <1>0, <1>1, <2>1 DEF archiveProject
  <2>2. QED  BY <1>5, <2>1 DEF Environment, transitionIssue, Tick, planning
<1>6. QED  BY <1>2, <1>3, <1>4, <1>5, StepCases

LEMMA ProjectsStep ==
  ASSUME PlanningInv, PlanningStep
  PROVE  ProjectsClosed'
<1>0. /\ PlanningTypeOK /\ RequestsSound /\ ProjectsClosed /\ PlanningTypeOK'
      /\ req \in [Requests -> Request] /\ archived \subseteq Projects /\ archived' \subseteq Projects
      /\ underway \in [Projects \cup Sprints -> SUBSET Requests]
  BY TypeStep DEF PlanningInv, PlanningTypeOK
<1> SUFFICES ASSUME NEW r \in Requests, req'[r].at \notin {"idle", "access"},
                    req'[r].project \in archived'
             PROVE  r \in underway'[req'[r].project]
  BY DEF ProjectsClosed
<1>1. ASSUME req[r].at \notin {"idle", "access"}, req'[r].project = req[r].project, UNCHANGED archived
      PROVE  r \in underway'[req'[r].project]
  <2>1. r \in underway[req[r].project] /\ req[r].project \in Projects
    BY <1>0, <1>1 DEF ProjectsClosed
  <2>2. QED  BY <1>1, <2>1, UnderwayKept
<1>2. ASSUME NEW s \in Requests, Begins(s) PROVE r \in underway'[req'[r].project]
  <2>1. PICK q \in Request : q.at = "access" /\ req' = [req EXCEPT ![s] = q]
    BY <1>0, <1>2, Begun
  <2>2. UNCHANGED archived
    BY <1>0, <1>2, Begun
  <2>3. req'[r] = req[r]
    BY <1>0, <2>1
  <2>4. QED  BY <1>1, <2>2, <2>3
<1>3. ASSUME NEW s \in Requests, requireWritableProject(s) \/ assertPlanningLinks(s) \/ takeNumber(s)
      PROVE  r \in underway'[req'[r].project]
  <2>1. PICK q \in Request : /\ req' = [req EXCEPT ![s] = q] /\ q.project = req[s].project
                             /\ req[s].at = "access" => q.project \notin archived
    BY <1>0, <1>3, Moved
  <2>2. UNCHANGED archived /\ req[s].at # "idle"
    BY <1>0, <1>3, Moved
  <2>3. req'[r].project = req[r].project /\ req[r].at \notin {"idle", "access"}
    BY <1>0, <2>1, <2>2
  <2>4. QED  BY <1>1, <2>2, <2>3
<1>4. ASSUME NEW s \in Requests, Ends(s) PROVE r \in underway'[req'[r].project]
  <2>1. req'[s] = Idle /\ UNCHANGED archived /\ \A v \in Requests \ {s} : req'[v] = req[v]
    BY <1>0, <1>4, EndsFinish
  <2>2. r # s
    BY <2>1 DEF Idle
  <2>3. QED  BY <1>1, <2>1, <2>2
<1>5. CASE Environment
  <2>1. ASSUME NEW p \in Projects, archiveProject(p) PROVE r \in underway'[req'[r].project]
    <3>1. /\ UNCHANGED req /\ r \in UnderwayNow
          /\ archived' = archived \cup {p} /\ underway' = [underway EXCEPT ![p] = UnderwayNow]
      BY <2>1 DEF archiveProject, UnderwayNow
    <3>2. CASE req[r].project = p
      BY <1>0, <3>1, <3>2
    <3>3. CASE req[r].project # p
      BY <1>0, <3>1, <3>3 DEF ProjectsClosed
    <3>4. QED  BY <3>2, <3>3
  <2>2. CASE UNCHANGED <<req, archived>>
    BY <1>1, <2>2
  <2>3. QED  BY <1>5, <2>1, <2>2 DEF Environment, transitionIssue, Tick, planning
<1>6. QED  BY <1>2, <1>3, <1>4, <1>5, StepCases

LEMMA SprintsStep ==
  ASSUME PlanningInv, PlanningStep
  PROVE  SprintsClosed'
<1>0. /\ PlanningTypeOK /\ RequestsSound /\ SprintsClosed
      /\ req \in [Requests -> Request] /\ underway \in [Projects \cup Sprints -> SUBSET Requests]
      /\ sprint \in [Sprints -> SprintRow]
  BY DEF PlanningInv, PlanningTypeOK
<1> SUFFICES ASSUME NEW r \in Requests, req'[r].at \in {"commit", "insert"},
                    req'[r].op = "createIssue", req'[r].sprint # None, sprint'[req'[r].sprint].status # "ACTIVE"
             PROVE  r \in underway'[req'[r].sprint]
  BY DEF SprintsClosed
<1>1. ASSUME req[r].at # "idle", req'[r].sprint = req[r].sprint,
             sprint[req[r].sprint].status = "ACTIVE" \/ r \in underway[req[r].sprint]
      PROVE  r \in underway'[req'[r].sprint]
  <2>1. req[r].sprint \in Sprints
    BY <1>0, <1>1 DEF Request, Maybe
  <2>2. CASE sprint[req[r].sprint].status = "ACTIVE"
    <3>1. PICK s \in Requests : writeCompletion(s) /\ req[s].sprint = req[r].sprint
      BY <1>1, <2>1, <2>2, SprintsStay
    <3>2. /\ r # s /\ r \in UnderwayNow
          /\ underway'[req[r].sprint] = UnderwayNow \ {s}
      BY <1>0, <1>1, <2>1, <3>1, CompletionType DEF Idle, UnderwayNow
    <3>3. QED  BY <1>1, <3>2
  <2>3. CASE r \in underway[req[r].sprint]
    BY <1>1, <2>1, <2>3, UnderwayKept
  <2>4. QED  BY <1>1, <2>2, <2>3
<1>2. CASE req'[r] = req[r]
  BY <1>0, <1>1, <1>2 DEF SprintsClosed
<1>3. ASSUME NEW s \in Requests, Begins(s) PROVE req'[r] = req[r]
  <2>1. PICK q \in Request : q.at = "access" /\ req' = [req EXCEPT ![s] = q]
    BY <1>0, <1>3, Begun
  <2>2. QED  BY <1>0, <2>1
<1>4. ASSUME NEW s \in Requests, requireWritableProject(s) \/ assertPlanningLinks(s) \/ takeNumber(s)
      PROVE  r \in underway'[req'[r].sprint]
  <2>1. PICK q \in Request :
          /\ req' = [req EXCEPT ![s] = q] /\ q.sprint = req[s].sprint /\ q.op = req[s].op
          /\ q.at \in {"commit", "insert"} /\ q.op = "createIssue" /\ q.sprint # None =>
               req[s].at = "commit" \/ sprint[q.sprint].status = "ACTIVE"
    BY <1>0, <1>4, Moved
  <2>2. CASE r = s
    <3>1. req'[r] = q /\ req[r].at # "idle"
      BY <1>0, <1>4, <2>1, <2>2, Moved
    <3>2. req[r].at = "commit" \/ sprint[req[r].sprint].status = "ACTIVE"
      BY <2>1, <2>2, <3>1
    <3>3. sprint[req[r].sprint].status = "ACTIVE" \/ r \in underway[req[r].sprint]
      BY <1>0, <2>1, <2>2, <3>1, <3>2 DEF SprintsClosed
    <3>4. QED  BY <1>1, <2>1, <2>2, <3>1, <3>3
  <2>3. QED  BY <1>0, <1>2, <2>1, <2>2
<1>5. ASSUME NEW s \in Requests, Ends(s) PROVE req'[r] = req[r]
  BY <1>0, <1>5, EndsFinish DEF Idle
<1>6. CASE Environment
  BY <1>2, <1>6 DEF Environment, archiveProject, transitionIssue, Tick, planning
<1>7. QED  BY <1>2, <1>3, <1>4, <1>5, <1>6, StepCases
(* What is in the table of issues stays, its status apart; a new issue has *)
(* the number after the last.                                              *)
IssueInserted(i, p) ==
  /\ issue[i].project = None /\ issue'[i].project = p
  /\ \A j \in Issues \ {i} : issue'[j] = issue[j]
  /\ issue'[i].number = lastNumber[p] + 1
  /\ lastNumber' = [lastNumber EXCEPT ![p] = lastNumber[p] + 1]

IssuesStay ==
  /\ \A j \in Issues : /\ issue'[j].project = issue[j].project /\ issue'[j].sprint = issue[j].sprint
                       /\ issue'[j].number = issue[j].number /\ issue'[j].created = issue[j].created
  /\ UNCHANGED lastNumber

LEMMA IssueCases ==
  ASSUME PlanningInv, PlanningStep
  PROVE  IssuesStay \/ \E i \in Issues, p \in Projects : IssueInserted(i, p)
<1>0. PlanningTypeOK /\ RequestsSound
  BY DEF PlanningInv
<1>1. CASE UNCHANGED <<issue, lastNumber>>
  BY <1>1 DEF IssuesStay
<1>2. ASSUME NEW r \in Requests, NEW i \in Issues, insertIssue(r, i)
      PROVE  \E p \in Projects : IssueInserted(i, p)
  BY <1>0, <1>2, InsertType DEF IssueInserted
<1>3. ASSUME NEW r \in Requests, Begins(r) PROVE UNCHANGED <<issue, lastNumber>>
  BY <1>0, <1>3, Begun
<1>4. ASSUME NEW r \in Requests, requireWritableProject(r) \/ assertPlanningLinks(r) \/ takeNumber(r)
      PROVE  UNCHANGED <<issue, lastNumber>>
  BY <1>0, <1>4, Moved
<1>5. ASSUME NEW i \in Issues, transitionIssue(i) PROVE IssuesStay
  BY <1>0, <1>5, TransitionType DEF IssuesStay
<1>6. CASE Environment
  BY <1>1, <1>5, <1>6 DEF Environment, archiveProject, Tick, planning
<1>7. QED
  BY <1>1, <1>2, <1>3, <1>4, <1>6, StepCases
     DEF Ends, insertEpic, writeEpic, insertSprint, writeCompletion, failRequest

(* NumbersAreDense, of one project. *)
Dense(p) ==
  LET of == {i \in Issues : issue[i].project = p}
  IN  /\ {issue[i].number : i \in of} = 1..lastNumber[p]
      /\ \A i, j \in of : issue[i].number = issue[j].number => i = j

LEMMA NumbersStep ==
  ASSUME PlanningInv, PlanningStep
  PROVE  NumbersAreDense'
<1> SUFFICES ASSUME NEW p \in Projects PROVE Dense(p)'
  BY DEF NumbersAreDense, Dense
<1> DEFINE of == {j \in Issues : issue[j].project = p}
<1>0. /\ issue \in [Issues -> IssueRow] /\ lastNumber \in [Projects -> Nat] /\ None \notin Projects
      /\ {issue[j].number : j \in of} = 1..lastNumber[p]
      /\ \A i, j \in of : issue[i].number = issue[j].number => i = j
  BY PlanningAssumption DEF PlanningInv, PlanningTypeOK, NumbersAreDense
<1>1. CASE IssuesStay
  <2>1. {j \in Issues : issue'[j].project = p} = of /\ \A j \in Issues : issue'[j].number = issue[j].number
    BY <1>1 DEF IssuesStay
  <2>2. {issue'[j].number : j \in of} = {issue[j].number : j \in of}
    BY <2>1
  <2>3. QED  BY <1>0, <1>1, <2>1, <2>2 DEF Dense, IssuesStay
<1>2. ASSUME NEW i \in Issues, NEW o \in Projects, IssueInserted(i, o) PROVE Dense(p)'
  <2>1. CASE o # p
    <3>1. {j \in Issues : issue'[j].project = p} = of /\ \A j \in of : issue'[j] = issue[j]
      BY <1>0, <1>2, <2>1 DEF IssueInserted
    <3>2. {issue'[j].number : j \in of} = {issue[j].number : j \in of} /\ lastNumber'[p] = lastNumber[p]
      BY <1>0, <1>2, <2>1, <3>1 DEF IssueInserted
    <3>3. QED  BY <1>0, <3>1, <3>2 DEF Dense
  <2>2. CASE o = p
    <3>1. /\ i \notin of /\ {j \in Issues : issue'[j].project = p} = of \cup {i}
          /\ \A j \in of : issue'[j] = issue[j]
          /\ issue'[i].number = lastNumber[p] + 1
      BY <1>0, <1>2, <2>2 DEF IssueInserted
    <3>2. lastNumber'[p] = lastNumber[p] + 1 /\ lastNumber[p] \in Nat
      BY <1>0, <1>2, <2>2 DEF IssueInserted
    <3>3. \A j \in of : issue'[j].number \in 1..lastNumber[p]
      BY <1>0, <3>1
    <3>4. {issue'[j].number : j \in of \cup {i}} = 1..(lastNumber[p] + 1)
      <4>1. {issue'[j].number : j \in of \cup {i}} = {issue'[j].number : j \in of} \cup {lastNumber[p] + 1}
        BY <3>1
      <4>2. {issue'[j].number : j \in of} = {issue[j].number : j \in of}
        BY <3>1
      <4>3. 1..(lastNumber[p] + 1) = 1..lastNumber[p] \cup {lastNumber[p] + 1}
        BY <3>2
      <4>4. QED  BY <1>0, <4>1, <4>2, <4>3
    <3>5. \A j, k \in of \cup {i} : issue'[j].number = issue'[k].number => j = k
      BY <1>0, <3>1, <3>2, <3>3
    <3>6. QED  BY <3>1, <3>2, <3>4, <3>5 DEF Dense
  <2>3. QED  BY <2>1, <2>2
<1>3. QED  BY <1>1, <1>2, IssueCases

LEMMA PlanningKept ==
  ASSUME PlanningInv, PlanningStep
  PROVE  PlanningInv'
BY TypeStep, RequestStep, SequenceStep, CompletedStep, ProjectsStep, SprintsStep, NumbersStep
   DEF PlanningInv

-----------------------------------------------------------------------------
(* The order of the list. *)
LEMMA OrderFacts ==
  ASSUME NEW x \in Int \X Issues, NEW y \in Int \X Issues, NEW z \in Int \X Issues
  PROVE  /\ ~Follows(x, x)
         /\ Follows(x, y) => ~Follows(y, x)
         /\ Follows(x, y) /\ Follows(y, z) => Follows(x, z)
<1>1. /\ x[1] \in Int /\ y[1] \in Int /\ z[1] \in Int
      /\ x[2] \in Nat /\ y[2] \in Nat /\ z[2] \in Nat
  BY PlanningAssumption
<1>2. QED  BY <1>1 DEF Follows

LEMMA PositionType ==
  ASSUME PlanningTypeOK, NEW i \in Issues
  PROVE  Position(i) \in Int \X Issues /\ Position(i) # None
BY BacklogAssumption DEF Position, PlanningTypeOK, IssueRow

(* While the tables change: an issue that was there keeps its position and *)
(* its filters, unless its status changes.                                 *)
LEMMA ListKept ==
  ASSUME IInv, Next, forget
  PROVE  list' \in Listing /\ ListSound'
<1>0. /\ PlanningInv /\ PlanningStep /\ PlanningTypeOK /\ ListSound /\ list \in Listing
      /\ None \notin Projects
  BY PlanningAssumption DEF IInv, PlanningInv, PlanningStep
<1>1. ASSUME NEW i \in Issues, issue[i].project # None
      PROVE  /\ issue'[i].project = issue[i].project /\ issue'[i].sprint = issue[i].sprint
             /\ issue'[i].created = issue[i].created /\ Position(i)' = Position(i)
  <2>1. ASSUME NEW j \in Issues, NEW p \in Projects, IssueInserted(j, p) PROVE issue'[i] = issue[i]
    BY <1>1, <2>1 DEF IssueInserted
  <2>2. QED  BY <1>0, <2>1, IssueCases DEF IssuesStay, Position
<1>2. /\ list'.at = list.at /\ list'.after = list.after /\ list'.items = list.items
      /\ list'.filter = list.filter /\ list' \in Listing /\ list'.due \subseteq list.due
      /\ list.at = "pages" /\ list.filter.status # None =>
           \A i \in list'.due : issue'[i].status = list.filter.status
  <2>1. CASE list.at = "pages" /\ list.filter.status # None
    <3>1. list' = [list EXCEPT !.due = {i \in list.due : issue'[i].status = list.filter.status}]
      BY <2>1 DEF forget
    <3>2. QED  BY <1>0, <3>1 DEF Listing
  <2>2. CASE ~(list.at = "pages" /\ list.filter.status # None)
    <3>1. UNCHANGED list
      BY <2>2 DEF forget
    <3>2. QED  BY <1>0, <2>2, <3>1
  <2>3. QED  BY <2>1, <2>2
<1>3. ASSUME NEW i \in list'.due, list.at = "pages", list.after # None
      PROVE  i \in Matching(list.filter)' /\ (list.items[i] = 1 \/ Follows(Position(i)', list.after))
  <2>1. /\ i \in Matching(list.filter) /\ (list.items[i] = 1 \/ Follows(Position(i), list.after))
    BY <1>0, <1>2, <1>3 DEF ListSound
  <2>2. i \in Issues /\ issue[i].project # None
    BY <2>1 DEF Matching
  <2>3. i \in Matching(list.filter)'
    BY <1>1, <1>2, <1>3, <2>1, <2>2 DEF Matching
  <2>4. QED  BY <1>1, <2>1, <2>2, <2>3
<1>4. ASSUME NEW i \in Issues, list.items[i] # 0, list.at = "pages", list.after # None
      PROVE  issue'[i].project # None /\ ~Follows(Position(i)', list.after)
  BY <1>0, <1>1, <1>4 DEF ListSound
<1>5. QED
  BY <1>0, <1>2, <1>3, <1>4 DEF ListSound

(* A page: all of it lies behind the cursor, the rest behind its last.     *)
LEMMA PageLoaded ==
  ASSUME IInv, loadPage
  PROVE  list' \in Listing /\ ListSound'
<1> DEFINE rows == remaining(list.filter, list.after)
           read(page) == [list EXCEPT
             !.items = [i \in Issues |-> IF i \in page THEN list.items[i] + 1 ELSE list.items[i]],
             !.due = IF list.after = None THEN rows ELSE list.due]
<1>0. /\ PlanningTypeOK /\ ListSound /\ list \in Listing /\ list.at = "pages"
      /\ UNCHANGED planning
      /\ list.after # None => list.after \in Int \X Issues
  BY DEF IInv, PlanningInv, loadPage, Listing, Maybe
<1>1. PICK page \in SUBSET rows :
        /\ isPageOf(page, rows)
        /\ \/ page = rows /\ list' = [read(page) EXCEPT !.at = "done"]
           \/ /\ page # rows
              /\ \E last \in page :
                   /\ \A j \in page \ {last} : Follows(Position(last), Position(j))
                   /\ list' = [read(page) EXCEPT !.after = Position(last)]
  BY DEF loadPage
<1>2. /\ rows \subseteq Issues /\ rows \subseteq Matching(list.filter)
      /\ \A i \in rows : issue[i].project # None /\ (list.after # None => Follows(Position(i), list.after))
      /\ \A i \in Matching(list.filter) :
           list.after = None \/ Follows(Position(i), list.after) => i \in rows
  BY DEF remaining, Matching
<1> DEFINE items == [i \in Issues |-> IF i \in page THEN list.items[i] + 1 ELSE list.items[i]]
           due == IF list.after = None THEN rows ELSE list.due
<1>a. items \in [Issues -> Nat] /\ \A i \in Issues : items[i] = IF i \in page THEN list.items[i] + 1 ELSE list.items[i]
  <2>1. list.items \in [Issues -> Nat]
    BY <1>0 DEF Listing
  <2>2. QED  BY <2>1
<1>b. due \in SUBSET Issues
  <2>1. list.due \in SUBSET Issues
    BY <1>0 DEF Listing
  <2>2. QED  BY <1>2, <2>1
<1>c. read(page) = [list EXCEPT !.items = items, !.due = due]
  OBVIOUS
<1> HIDE DEF items, due, read
<1>3. /\ read(page) \in Listing /\ read(page).filter = list.filter /\ read(page).at = "pages"
      /\ read(page).after = list.after /\ read(page).items = items /\ read(page).due = due
  BY <1>0, <1>a, <1>b, <1>c DEF Listing
<1>4. \A i \in page : list.items[i] = 0
  BY <1>0, <1>1, <1>2 DEF ListSound
<1>5. \A i \in Issues : /\ read(page).items[i] = IF i \in page THEN 1 ELSE list.items[i]
                       /\ read(page).items[i] <= 1
  <2>1. \A i \in Issues : list.items[i] <= 1
    BY <1>0 DEF ListSound
  <2>2. QED  BY <1>3, <1>4, <1>a, <2>1
<1>6. \A i \in read(page).due : i \in Matching(list.filter) /\ (read(page).items[i] = 1 \/ i \in rows \ page)
  <2>1. CASE list.after = None
    BY <1>0, <1>2, <1>3, <1>5, <2>1 DEF ListSound, due
  <2>2. CASE list.after # None
    BY <1>0, <1>2, <1>3, <1>5, <2>2 DEF ListSound, Listing, due
  <2>3. QED  BY <2>1, <2>2
<1>7. \A F : Matching(F)' = Matching(F)
  BY <1>0 DEF Matching, planning
<1>8. \A i \in Issues : Position(i)' = Position(i) /\ issue'[i] = issue[i]
  BY <1>0 DEF Position, planning
<1> HIDE DEF rows
<1>9. CASE page = rows /\ list' = [read(page) EXCEPT !.at = "done"]
  <2>1. list' \in Listing /\ list'.at = "done" /\ list'.items = read(page).items /\ list'.due = read(page).due
    BY <1>3, <1>9 DEF Listing
  <2>2. QED  BY <1>5, <1>6, <1>9, <2>1 DEF ListSound
<1>10. ASSUME NEW last \in page, \A j \in page \ {last} : Follows(Position(last), Position(j)),
              list' = [read(page) EXCEPT !.after = Position(last)]
       PROVE  list' \in Listing /\ ListSound'
  <2>1. Position(last) \in Int \X Issues /\ Position(last) # None /\ last \in Issues
    BY <1>0, <1>1, <1>2, PositionType
  <2>2. /\ list' \in Listing /\ list'.at = "pages" /\ list'.items = read(page).items
        /\ list'.due = read(page).due /\ list'.after = Position(last) /\ list'.filter = list.filter
    BY <1>3, <1>10, <2>1 DEF Listing, Maybe
  <2>3. ASSUME NEW i \in Issues, read(page).items[i] # 0
        PROVE  issue[i].project # None /\ ~Follows(Position(i), Position(last))
    <3>1. CASE i \in page
      BY <1>0, <1>1, <1>2, <1>10, <2>1, <3>1, OrderFacts, PositionType
    <3>2. CASE i \notin page
      <4>1. /\ list.after # None /\ issue[i].project # None /\ ~Follows(Position(i), list.after)
        BY <1>0, <1>5, <2>3, <3>2 DEF ListSound
      <4>2. Follows(Position(last), list.after)
        BY <1>1, <1>2, <4>1
      <4>3. QED  BY <1>0, <2>1, <4>1, <4>2, OrderFacts, PositionType
    <3>3. QED  BY <3>1, <3>2
  <2>4. \A i \in rows \ page : Follows(Position(i), Position(last))
    BY <1>1, <1>10 DEF isPageOf
  <2>5. QED  BY <1>2, <1>5, <1>6, <1>7, <1>8, <2>1, <2>2, <2>3, <2>4 DEF ListSound
<1>11. QED  BY <1>1, <1>9, <1>10

(* A new list, or none: nothing read, nothing due.                         *)
LEMMA ListFresh ==
  ASSUME NEW filter \in Filter, NEW at \in {"idle", "pages"},
         list' = [at |-> at, filter |-> filter, after |-> None,
                  items |-> [i \in Issues |-> 0], due |-> {}]
  PROVE  list' \in Listing /\ ListSound'
<1> DEFINE zero == [i \in Issues |-> 0]
<1>1. zero \in [Issues -> Nat] /\ \A i \in Issues : zero[i] = 0
  OBVIOUS
<1>2. /\ list'.at = at /\ list'.filter = filter /\ list'.after = None
      /\ list'.items = zero /\ list'.due = {}
      /\ list' = [at |-> at, filter |-> filter, after |-> None, items |-> zero, due |-> {}]
  OBVIOUS
<1> HIDE DEF zero
<1>3. list' \in Listing
  BY <1>1, <1>2 DEF Listing, Maybe
<1>4. QED  BY <1>1, <1>2, <1>3 DEF ListSound

LEMMA ListAsked ==
  ASSUME \/ \E p \in Projects : openBacklog(p)
         \/ \E p \in Projects, status \in {"TODO", "OTHER"} : openFiltered(p, status)
         \/ closeList
  PROVE  list' \in Listing /\ ListSound' /\ UNCHANGED planning
<1>1. ASSUME NEW filter \in Filter, Ask(filter)
      PROVE  list' \in Listing /\ ListSound' /\ UNCHANGED planning
  <2>1. list' = [at |-> "pages", filter |-> filter, after |-> None,
                 items |-> [i \in Issues |-> 0], due |-> {}]
    BY <1>1 DEF Ask, NoListing
  <2>2. QED  BY <1>1, <2>1, ListFresh DEF Ask
<1>2. ASSUME NEW p \in Projects, openBacklog(p)
      PROVE  \E filter \in Filter : Ask(filter)
  <2>1. \A s \in Maybe(Sprints) : [project |-> p, sprint |-> s, status |-> None] \in Filter
    BY DEF Filter, Maybe
  <2>2. CASE activeSprint(p) = {}
    BY <1>2, <2>1, <2>2 DEF openBacklog, Maybe
  <2>3. CASE activeSprint(p) # {}
    BY <1>2, <2>1, <2>3 DEF openBacklog, Maybe, activeSprint
  <2>4. QED  BY <2>2, <2>3
<1>3. ASSUME NEW p \in Projects, NEW status \in {"TODO", "OTHER"}, openFiltered(p, status)
      PROVE  \E filter \in Filter : Ask(filter)
  <2>1. [project |-> p, sprint |-> None, status |-> status] \in Filter
    BY DEF Filter, Maybe
  <2>2. QED  BY <1>3, <2>1 DEF openFiltered
<1>4. CASE closeList
  <2> DEFINE none == [project |-> None, sprint |-> None, status |-> None]
  <2>1. none \in Filter
    BY DEF Filter, Maybe
  <2>2. list' \in Listing /\ ListSound'
    BY <1>4, <2>1, ListFresh DEF closeList, NoListing
  <2>3. QED  BY <1>4, <2>2 DEF closeList
<1>5. QED  BY <1>1, <1>2, <1>3, <1>4

-----------------------------------------------------------------------------
LEMMA InitIInv == BacklogInit => IInv
<1> SUFFICES ASSUME BacklogInit PROVE IInv
  OBVIOUS
<1>1. PlanningTypeOK
  <2>1. /\ epic \in [Epics -> EpicRow] /\ sprint \in [Sprints -> SprintRow]
        /\ issue \in [Issues -> IssueRow] /\ req \in [Requests -> Request]
    BY IdleType DEF BacklogInit, Init
  <2>2. lastNumber \in [Projects -> Nat] /\ underway \in [Projects \cup Sprints -> SUBSET Requests]
        /\ archived \subseteq Projects /\ clock \in Nat /\ started \in Nat
    BY DEF BacklogInit, Init
  <2>3. QED  BY <2>1, <2>2 DEF PlanningTypeOK
<1>2. \A r \in Requests : req[r].at = "idle"
  BY DEF BacklogInit, Init, Idle
<1>3. RequestsSound /\ SequenceLocked /\ ProjectsClosed /\ SprintsClosed
  BY <1>2 DEF RequestsSound, RequestSound, SequenceLocked, ProjectsClosed, SprintsClosed
<1>4. CompletedExist
  BY DEF BacklogInit, Init, CompletedExist, NoSprint
<1>5. NumbersAreDense
  <2>1. ASSUME NEW p \in Projects, NEW i \in Issues PROVE issue[i].project # p
    BY PlanningAssumption DEF BacklogInit, Init, NoIssue
  <2>2. \A p \in Projects : 1..lastNumber[p] = {}
    <3>1. \A p \in Projects : lastNumber[p] = 0
      BY DEF BacklogInit, Init
    <3>2. 1..0 = {}
      OBVIOUS
    <3>3. QED  BY <3>1, <3>2
  <2>3. QED  BY <2>1, <2>2 DEF NumbersAreDense
<1>6. list \in Listing /\ ListSound
  <2> DEFINE zero == [i \in Issues |-> 0]
  <2>1. zero \in [Issues -> Nat] /\ NoListing.filter \in Filter /\ NoListing.items = zero
    BY DEF NoListing, Filter, Maybe
  <2>2. list = NoListing
    BY DEF BacklogInit
  <2>3. list \in Listing
    BY <2>1, <2>2 DEF NoListing, Listing, Maybe
  <2>4. QED  BY <2>2, <2>3 DEF NoListing, ListSound
<1>7. QED  BY <1>1, <1>3, <1>4, <1>5, <1>6 DEF IInv, PlanningInv

(* Reading a list is a stutter of the tables. *)
LEMMA ListStep ==
  ASSUME IInv, [BacklogNext]_all
  PROVE  PlanningStep /\ list' \in Listing /\ ListSound'
<1>1. CASE Next /\ forget
  BY <1>1, ListKept DEF PlanningStep
<1>2. CASE loadPage
  BY <1>2, PageLoaded DEF PlanningStep, loadPage
<1>3. CASE \/ \E p \in Projects : openBacklog(p)
           \/ \E p \in Projects, status \in {"TODO", "OTHER"} : openFiltered(p, status)
           \/ closeList
  BY <1>3, ListAsked DEF PlanningStep
<1>4. CASE UNCHANGED all
  <2>1. UNCHANGED planning /\ UNCHANGED list
    BY <1>4 DEF all
  <2>2. UNCHANGED issue
    BY <2>1 DEF planning
  <2>3. ListSound
    BY DEF IInv
  <2>4. ListSound'
    BY <2>1, <2>2, <2>3 DEF ListSound, Matching, Position, Follows
  <2>5. QED  BY <2>1, <2>4 DEF PlanningStep, IInv
<1>5. QED  BY <1>1, <1>2, <1>3, <1>4 DEF BacklogNext

LEMMA NextIInv == IInv /\ [BacklogNext]_all => IInv'
BY ListStep, PlanningKept DEF IInv

(* What the statements and the checks before them keep, in every state.    *)
THEOREM Invariance == BacklogSpec => []IInv
<1>1. QED  BY InitIInv, NextIInv, PTL DEF BacklogSpec

(* Every variable has its type. *)
THEOREM TypeCorrect == BacklogSpec => []TypeOK
<1>1. IInv => TypeOK
  BY DEF IInv, PlanningInv, TypeOK
<1>2. QED  BY <1>1, Invariance, PTL

(* After a project is archived or a sprint completed, what still writes to *)
(* it was under way at that moment.                                        *)
THEOREM ClosedIsClosed == BacklogSpec => []ClosedToNewRequests
<1>1. IInv => ClosedToNewRequests
  BY DEF IInv, PlanningInv, ProjectsClosed, SprintsClosed, ClosedToNewRequests
<1>2. QED  BY <1>1, Invariance, PTL

(* The first completion of a sprint is final: the UPDATE of a second one   *)
(* matches no row.                                                         *)
THEOREM CompletionIsFinal == BacklogSpec => CompletedStays
<1>1. IInv /\ [BacklogNext]_all
        => [\A s \in Sprints : sprint[s].status = "COMPLETED" => sprint'[s] = sprint[s]]_planning
  BY ListStep, SprintsStay DEF IInv
<1>2. QED  BY <1>1, Invariance, PTL DEF BacklogSpec, CompletedStays

(* The issues of a project are numbered 1..last_number without a hole or a *)
(* clash: a creation holds the row of the sequence until it commits.       *)
THEOREM DenseNumbers == BacklogSpec => []NumbersAreDense
<1>1. IInv => NumbersAreDense
  BY DEF IInv, PlanningInv
<1>2. QED  BY <1>1, Invariance, PTL

(* A client that follows nextCursor reads no issue twice and, at the end,  *)
(* has every issue that was there at its first page and still matches.     *)
THEOREM EveryIssueOnce == BacklogSpec => []ListIsExact
<1>1. IInv => ListIsExact
  BY DEF IInv, ListSound, ListIsExact
<1>2. QED  BY <1>1, Invariance, PTL
=============================================================================
