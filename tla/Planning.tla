------------------------------ MODULE Planning ------------------------------
(***************************************************************************)
(* Epics, sprints and the creation of issues in the Issue service: the     *)
(* handlers of planning-application.service.ts and createIssue run         *)
(* concurrently against one issue_db.  Each loads what it needs, asks the  *)
(* Project service over HTTP, and ends in one statement (or, for an issue, *)
(* one transaction), so everything it checked may have changed by then.    *)
(* What holds the tables together is in the statements: the CHECK on an    *)
(* epic's dates, the partial unique index on active sprints, the WHERE of  *)
(* the completion, the row lock on the project's number sequence.          *)
(*                                                                         *)
(* Left out: names, colours, goals and the dates of a sprint (written once *)
(* and never changed), the link of an issue to an epic (epics are never    *)
(* deleted nor moved), the assignee (module IssueService).                 *)
(***************************************************************************)
EXTENDS Integers

CONSTANTS
  Projects, Epics, Sprints, Requests,
  Issues,      \* the ids randomUUID may draw: numbers, since the list sorts by id
  None,        \* SQL NULL
  Days,        \* calendar days, as numbers
  MayArchive,  \* bound: the projects that get archived
  MaxRequests, \* bound: requests made in all
  MaxTime,     \* bound: the clock stops here
  MaxSkew      \* how far a replica's clock may be behind

ASSUME PlanningAssumption ==
  /\ Issues \subseteq Nat /\ Days \subseteq Nat
  /\ None \notin Projects \cup Epics \cup Sprints \cup Issues \cup Days
  /\ Projects \cap Sprints = {}
  /\ MaxRequests \in Nat /\ MaxTime \in Nat /\ MaxSkew \in Nat

VARIABLES
  epic,        \* the epics table
  sprint,      \* the sprints table
  issue,       \* the issues table
  lastNumber,  \* project_issue_sequences.last_number
  req,         \* the handler running in each request slot
  archived,    \* Project service: the archived projects
  clock,       \* the time
  started,     \* requests made so far
  underway     \* history: the requests under way when a project or a sprint closed

planning == <<epic, sprint, issue, lastNumber, req, archived, clock, started, underway>>

-----------------------------------------------------------------------------
Maybe(S) == S \cup {None}

EpicRow == [project : Maybe(Projects), start : Maybe(Days), target : Maybe(Days)]
SprintRow == [project : Maybe(Projects), status : {"ACTIVE", "COMPLETED"}, completed : Maybe(Nat)]
IssueRow == [project : Maybe(Projects), sprint : Maybe(Sprints), number : Nat,
             created : Int, status : {"TODO", "OTHER"}]

NoEpic == [project |-> None, start |-> None, target |-> None]
NoSprint == [project |-> None, status |-> "ACTIVE", completed |-> None]
NoIssue == [project |-> None, sprint |-> None, number |-> 0, created |-> 0, status |-> "TODO"]

(* The value a handler has for a date: a string that came in a request     *)
(* body, or a Date object that node-postgres made of a DATE column.        *)
DateValue == [day : Days, as : {"string", "Date"}] \cup {None}
optionalDate(d) == IF d = None THEN None ELSE [day |-> d, as |-> "string"]
fromColumn(d) == IF d = None THEN None ELSE [day |-> d, as |-> "Date"]
day(v) == IF v = None THEN None ELSE v.day

(* start > end on two strings or two Dates compares the days; on one of    *)
(* each both become numbers, the string NaN, and it is never true.         *)
planDates(start, end) ==
  (start # None /\ end # None) => (start.as = end.as => start.day <= end.day)

Operations == {"createEpic", "updateEpic", "createSprint", "completeSprint", "createIssue"}

Request == [at : {"idle", "access", "links", "commit", "insert"}, op : Operations,
            project : Maybe(Projects), epic : Maybe(Epics), sprint : Maybe(Sprints),
            start : DateValue, target : DateValue,
            active : BOOLEAN,   \* the sprint was ACTIVE when it was loaded
            number : Nat,       \* the number and created_at of the row
            created : Int]      \* being inserted

Idle == [at |-> "idle", op |-> "createIssue", project |-> None, epic |-> None, sprint |-> None,
         start |-> None, target |-> None, active |-> FALSE, number |-> 0,
         created |-> 0]

Init ==
  /\ epic = [e \in Epics |-> NoEpic]
  /\ sprint = [s \in Sprints |-> NoSprint]
  /\ issue = [i \in Issues |-> NoIssue]
  /\ lastNumber = [p \in Projects |-> 0]
  /\ req = [r \in Requests |-> Idle]
  /\ archived = {} /\ clock = 0 /\ started = 0
  /\ underway = [x \in Projects \cup Sprints |-> {}]

-----------------------------------------------------------------------------
Begin(r, q) ==
  /\ req[r].at = "idle" /\ started < MaxRequests
  /\ started' = started + 1
  /\ req' = [req EXCEPT ![r] = [q EXCEPT !.at = "access"]]
  /\ UNCHANGED <<epic, sprint, issue, lastNumber, archived, clock, underway>>

Advance(r, step) ==
  /\ req' = [req EXCEPT ![r].at = step]
  /\ UNCHANGED <<epic, sprint, issue, lastNumber, archived, clock, started, underway>>

(* The answer goes out, and the request is under way no longer. *)
Finish(r) ==
  /\ req' = [req EXCEPT ![r] = Idle]
  /\ underway' = [x \in DOMAIN underway |-> underway[x] \ {r}]
  /\ UNCHANGED <<archived, clock, started>>

UnderwayNow == {r \in Requests : req[r].at # "idle"}

createEpic(r, p, start, target) ==
  Begin(r, [Idle EXCEPT !.op = "createEpic", !.project = p,
                        !.start = optionalDate(start), !.target = optionalDate(target)])

(* The body names any of the two dates; the other keeps the loaded value. *)
updateEpic(r, e, named, start, target) ==
  /\ epic[e].project # None
  /\ Begin(r, [Idle EXCEPT !.op = "updateEpic", !.project = epic[e].project, !.epic = e,
       !.start  = IF "start"  \in named THEN optionalDate(start)  ELSE fromColumn(epic[e].start),
       !.target = IF "target" \in named THEN optionalDate(target) ELSE fromColumn(epic[e].target)])

createSprint(r, p) == Begin(r, [Idle EXCEPT !.op = "createSprint", !.project = p])

completeSprint(r, s) ==
  /\ sprint[s].project # None
  /\ Begin(r, [Idle EXCEPT !.op = "completeSprint", !.project = sprint[s].project, !.sprint = s,
                           !.active = sprint[s].status = "ACTIVE"])

createIssue(r, p, s) == Begin(r, [Idle EXCEPT !.project = p, !.sprint = s])

(* Fault: planning writes are not refused on archived projects. *)
requireWritableProject_Visible(r) ==
  /\ req[r].at = "access"
  /\ planDates(req[r].start, req[r].target)
  /\ req[r].op = "completeSprint" => req[r].active
  /\ Advance(r, IF req[r].op = "createIssue" /\ req[r].sprint # None THEN "links" ELSE "commit")

(* getAccess, and the checks that follow it without another await. *)
requireWritableProject(r) ==
  /\ req[r].at = "access"
  /\ req[r].project \notin archived
  /\ planDates(req[r].start, req[r].target)
  /\ req[r].op = "completeSprint" => req[r].active
  /\ Advance(r, IF req[r].op = "createIssue" /\ req[r].sprint # None THEN "links" ELSE "commit")

(* Fault: the link may name a completed sprint. *)
assertPlanningLinks_AnyStatus(r) ==
  /\ req[r].at = "links"
  /\ sprint[req[r].sprint].project = req[r].project
  /\ Advance(r, "commit")

assertPlanningLinks(r) ==
  /\ req[r].at = "links"
  /\ sprint[req[r].sprint].project = req[r].project
  /\ sprint[req[r].sprint].status = "ACTIVE"
  /\ Advance(r, "commit")

(* CHECK (start_date IS NULL OR target_date IS NULL OR start_date <= target_date) *)
epicsCheck(start, target) == (start # None /\ target # None) => start <= target

insertEpic(r, e) ==
  /\ req[r].at = "commit" /\ req[r].op = "createEpic"
  /\ epic[e].project = None
  /\ epicsCheck(day(req[r].start), day(req[r].target))
  /\ epic' = [epic EXCEPT ![e] = [project |-> req[r].project, start |-> day(req[r].start),
                                  target |-> day(req[r].target)]]
  /\ Finish(r)
  /\ UNCHANGED <<sprint, issue, lastNumber>>

(* The UPDATE rewrites every column, without a version in its WHERE. *)
writeEpic(r) ==
  /\ req[r].at = "commit" /\ req[r].op = "updateEpic"
  /\ epicsCheck(day(req[r].start), day(req[r].target))
  /\ epic' = [epic EXCEPT ![req[r].epic].start = day(req[r].start),
                          ![req[r].epic].target = day(req[r].target)]
  /\ Finish(r)
  /\ UNCHANGED <<sprint, issue, lastNumber>>

(* ux_sprints_one_active_project; the service itself checks nothing. *)
oneActivePerProject(p) ==
  \A s \in Sprints : ~(sprint[s].project = p /\ sprint[s].status = "ACTIVE")

insertSprint(r, s) ==
  /\ req[r].at = "commit" /\ req[r].op = "createSprint"
  /\ sprint[s].project = None
  /\ oneActivePerProject(req[r].project)
  /\ sprint' = [sprint EXCEPT ![s].project = req[r].project]
  /\ Finish(r)
  /\ UNCHANGED <<epic, issue, lastNumber>>

(* Fault: the UPDATE is by id alone. *)
writeCompletion_ById(r) ==
  /\ req[r].at = "commit" /\ req[r].op = "completeSprint"
  /\ sprint' = [sprint EXCEPT ![req[r].sprint].status = "COMPLETED",
                              ![req[r].sprint].completed = clock]
  /\ req' = [req EXCEPT ![r] = Idle]
  /\ underway' = [x \in DOMAIN underway |->
                    (IF x = req[r].sprint THEN UnderwayNow ELSE underway[x]) \ {r}]
  /\ UNCHANGED <<epic, issue, lastNumber, archived, clock, started>>

(* UPDATE ... WHERE id = $1 AND status = 'ACTIVE'.  When another request   *)
(* was first it matches no row, and the handler fails on the missing row.  *)
writeCompletion(r) ==
  /\ req[r].at = "commit" /\ req[r].op = "completeSprint"
  /\ sprint[req[r].sprint].status = "ACTIVE"
  /\ sprint' = [sprint EXCEPT ![req[r].sprint].status = "COMPLETED",
                              ![req[r].sprint].completed = clock]
  /\ req' = [req EXCEPT ![r] = Idle]
  /\ underway' = [x \in DOMAIN underway |->
                    (IF x = req[r].sprint THEN UnderwayNow ELSE underway[x]) \ {r}]
  /\ UNCHANGED <<epic, issue, lastNumber, archived, clock, started>>

(* Fault: the counter is read without locking its row. *)
sequenceIsFree_Unlocked(p) == TRUE

(* ON CONFLICT DO UPDATE waits for the transaction that holds the row. *)
sequenceIsFree(p) == \A r \in Requests : ~(req[r].at = "insert" /\ req[r].project = p)

(* The first half of createIssue's transaction: the number is taken, and   *)
(* the replica reads its own clock for created_at.                         *)
takeNumber(r) ==
  /\ req[r].at = "commit" /\ req[r].op = "createIssue"
  /\ sequenceIsFree(req[r].project)
  /\ \E behind \in 0..MaxSkew :
       req' = [req EXCEPT ![r].at = "insert", ![r].created = clock - behind,
                          ![r].number = lastNumber[req[r].project] + 1]
  /\ UNCHANGED <<epic, sprint, issue, lastNumber, archived, clock, started, underway>>

(* The second half: the row is inserted and the transaction commits. *)
insertIssue(r, i) ==
  LET p == req[r].project IN
  /\ req[r].at = "insert"
  /\ issue[i].project = None
  /\ lastNumber' = [lastNumber EXCEPT ![p] = req[r].number]
  /\ issue' = [issue EXCEPT ![i] =
       [project |-> p, sprint |-> req[r].sprint, number |-> req[r].number,
        created |-> req[r].created, status |-> "TODO"]]
  /\ Finish(r)
  /\ UNCHANGED <<epic, sprint>>

(* Fault: a rolled-back creation has used up its number. *)
failRequest_NumberSpent(r) ==
  /\ req[r].at # "idle"
  /\ lastNumber' = IF req[r].at = "insert" THEN [lastNumber EXCEPT ![req[r].project] = @ + 1]
                   ELSE lastNumber
  /\ Finish(r)
  /\ UNCHANGED <<epic, sprint, issue>>

(* Fault: a rolled-back creation gives its number back, which the rollback *)
(* has done already.                                                       *)
failRequest_NumberReturned(r) ==
  /\ req[r].at # "idle"
  /\ lastNumber' = IF req[r].at = "insert" THEN [lastNumber EXCEPT ![req[r].project] = @ - 1]
                   ELSE lastNumber
  /\ Finish(r)
  /\ UNCHANGED <<epic, sprint, issue>>

(* A check, the CHECK or the index refuses, a call fails, the transaction  *)
(* rolls back or the replica dies: nothing was written.                    *)
failRequest(r) ==
  /\ req[r].at # "idle"
  /\ Finish(r)
  /\ UNCHANGED <<epic, sprint, issue, lastNumber>>

-----------------------------------------------------------------------------
archiveProject(p) ==
  /\ p \in MayArchive \ archived
  /\ archived' = archived \cup {p}
  /\ underway' = [underway EXCEPT ![p] = UnderwayNow]
  /\ UNCHANGED <<epic, sprint, issue, lastNumber, req, clock, started>>

(* A transition of the issue's status (module IssueService). *)
transitionIssue(i) ==
  /\ issue[i].project # None /\ started < MaxRequests
  /\ started' = started + 1
  /\ issue' = [issue EXCEPT ![i].status = IF @ = "TODO" THEN "OTHER" ELSE "TODO"]
  /\ UNCHANGED <<epic, sprint, lastNumber, req, archived, clock, underway>>

Tick ==
  /\ clock < MaxTime
  /\ clock' = clock + 1
  /\ UNCHANGED <<epic, sprint, issue, lastNumber, req, archived, started, underway>>

Handler(r) ==
  \/ \E p \in Projects, start, target \in Maybe(Days) : createEpic(r, p, start, target)
  \/ \E e \in Epics, named \in SUBSET {"start", "target"} :
       \E start \in IF "start" \in named THEN Maybe(Days) ELSE {None},
          target \in IF "target" \in named THEN Maybe(Days) ELSE {None} :
         updateEpic(r, e, named, start, target)
  \/ \E p \in Projects : createSprint(r, p)
  \/ \E s \in Sprints : completeSprint(r, s)
  \/ \E p \in Projects, s \in Maybe(Sprints) : createIssue(r, p, s)
  \/ requireWritableProject(r)
  \/ assertPlanningLinks(r)
  \/ \E e \in Epics : insertEpic(r, e)
  \/ writeEpic(r)
  \/ \E s \in Sprints : insertSprint(r, s)
  \/ writeCompletion(r)
  \/ takeNumber(r)
  \/ \E i \in Issues : insertIssue(r, i)
  \/ failRequest(r)

Next ==
  \/ \E r \in Requests : Handler(r)
  \/ \E p \in Projects : archiveProject(p)
  \/ \E i \in Issues : transitionIssue(i)
  \/ Tick

Spec == Init /\ [][Next]_planning

-----------------------------------------------------------------------------
(* Every variable has its type. *)
PlanningTypeOK ==
  /\ epic \in [Epics -> EpicRow]
  /\ sprint \in [Sprints -> SprintRow]
  /\ issue \in [Issues -> IssueRow]
  /\ lastNumber \in [Projects -> Nat]
  /\ req \in [Requests -> Request]
  /\ archived \subseteq Projects /\ clock \in Nat /\ started \in Nat
  /\ underway \in [Projects \cup Sprints -> SUBSET Requests]

(* A completed sprint keeps the time of its first completion, also when    *)
(* two requests that both found it active complete it (BR-PLAN-001).       *)
CompletedStays ==
  [][\A s \in Sprints : sprint[s].status = "COMPLETED" => sprint'[s] = sprint[s]]_planning

(* Once a project is archived or a sprint is completed, only a request     *)
(* that was under way at that moment can still write to the project or     *)
(* link a new issue to the sprint: the window between the check and the    *)
(* statement is one request long.                                          *)
ClosedToNewRequests ==
  \A r \in Requests : req[r].at \in {"commit", "insert"} =>
    /\ req[r].project \in archived => r \in underway[req[r].project]
    /\ req[r].op = "createIssue" /\ req[r].sprint # None =>
         sprint[req[r].sprint].status = "ACTIVE" \/ r \in underway[req[r].sprint]

(* The issues of a project are numbered 1..last_number, each number once:  *)
(* a rolled-back or concurrent creation leaves neither a hole nor a clash  *)
(* (BR-ISSUE-001).                                                         *)
NumbersAreDense ==
  \A p \in Projects :
    LET of == {i \in Issues : issue[i].project = p}
    IN  /\ {issue[i].number : i \in of} = 1..lastNumber[p]
        /\ \A i, j \in of : issue[i].number = issue[j].number => i = j
=============================================================================
