----------------------------- MODULE IssueViews -----------------------------
(***************************************************************************)
(* What a user of the web client sees of one issue, and what becomes of    *)
(* the writes the user sends from it.  The board and the issue page show   *)
(* queries of one React Query cache; the issue changes on the server       *)
(* meanwhile, the project may get archived, answers get lost, and several  *)
(* mutations of the client may be under way, also after the user has left  *)
(* the page that sent them.                                                *)
(*                                                                         *)
(* An issue is its version: a version has one content (module              *)
(* IssueService), so a copy of the issue is the version it was read at.    *)
(* The project's is 0 while it is active and 1 when it is archived.  The   *)
(* list query stands for its entry of the issue.  Left out: the other      *)
(* issues, epics, sprints, members, comments and history, whose queries    *)
(* are invalidated and shown in the same way.                              *)
(***************************************************************************)
EXTENDS Naturals

CONSTANTS
  Calls,        \* slots for mutations: how many may be under way at once
  None,
  MaxVersion,   \* bound: others do not change the issue beyond this version
  MaxActions,   \* bound: what the user does in all
  MaxFailures   \* bound: requests and answers lost in all

ASSUME ViewsAssumption ==
  None \notin Nat /\ MaxVersion \in Nat /\ MaxActions \in Nat /\ MaxFailures \in Nat

VARIABLES
  server,       \* the version of each thing the queries read
  cache,        \* the query cache
  page,         \* the route
  on,           \* the queries that have an observer, those of the rendered page
  view,         \* the data of the queries as last rendered
  form,         \* the version whose values the edit form holds
  call,         \* the mutation in each slot
  told,         \* history: the version the client has been told of by an answer
  overlooked,   \* history: queries invalidated while a fetch went on that was kept
  actions, failures

vars == <<server, cache, page, on, view, form, call, told, overlooked, actions, failures>>
client == <<page, on, view, form>>
bounds == <<actions, failures>>

-----------------------------------------------------------------------------
Queries == {"list", "issue", "project"}
Maybe(S) == S \cup {None}

Query == [data : Maybe(Nat),
          invalid : BOOLEAN,   \* isInvalidated
          error : BOOLEAN,     \* isError
          fetch : {"no", "sent", "answered"}, answer : Maybe(Nat)]

Kinds == {"move", "edit", "assign", "comment"}

Call == [at : {"idle", "sent", "answered", "refresh"}, kind : Kinds,
         expected : Nat,       \* expectedVersion
         seen : Nat,           \* the version the user was looking at
         result : {"ok", "conflict", "archived", "failed"},
         version : Nat,        \* the version the answer tells of
         mounted : BOOLEAN]    \* the component that sent it is still there

NoQuery == [data |-> None, invalid |-> FALSE, error |-> FALSE, fetch |-> "no", answer |-> None]
NoCall == [at |-> "idle", kind |-> "move", expected |-> 0, seen |-> 0, result |-> "ok",
           version |-> 0, mounted |-> FALSE]

Init ==
  /\ server = [q \in Queries |-> IF q = "project" THEN 0 ELSE 1]
  /\ cache = [q \in Queries |-> NoQuery]
  /\ page = "board" /\ on = {} /\ view = [q \in Queries |-> None] /\ form = None
  /\ call = [c \in Calls |-> NoCall]
  /\ told = [q \in Queries |-> 0] /\ overlooked = {}
  /\ actions = 0 /\ failures = 0

-----------------------------------------------------------------------------
(* The cache. *)
hasData(q) == cache[q].data # None

(* The queries the components of a page observe: the board is rendered     *)
(* when its project is, and the issue tells which project to ask for.      *)
observed ==
  IF page = "board"
  THEN {"project"} \cup {q \in {"list"} : hasData("project") /\ ~cache["project"].error}
  ELSE {"issue"} \cup {q \in {"project"} : hasData("issue")}

(* A fetch begins; a query without data is pending again. *)
fetched(query) ==
  [query EXCEPT !.fetch = "sent", !.answer = None, !.error = @ /\ query.data # None]

(* invalidateQueries refetches what is observed.  A fetch under way is     *)
(* cancelled for that, unless there is nothing to show yet.                *)
refetches(q) == q \in on /\ (cache[q].fetch = "no" \/ hasData(q))

invalidateQueries(S) ==
  /\ cache' = [q \in Queries |->
       IF q \notin S THEN cache[q]
       ELSE [IF refetches(q) THEN fetched(cache[q]) ELSE cache[q] EXCEPT !.invalid = TRUE]]
  /\ overlooked' = {q \in overlooked : ~(q \in S /\ refetches(q))} \cup
                   {q \in S : ~refetches(q) /\ cache[q].fetch # "no"}

(* Queries in S are fetched, unless they are being fetched already. *)
fetchAll(S) ==
  LET idle == {q \in S : cache[q].fetch = "no"} IN
  /\ cache' = [q \in Queries |-> IF q \in idle THEN fetched(cache[q]) ELSE cache[q]]
  /\ overlooked' = overlooked \ idle

(* The GET is answered from the tables as they are now. *)
fetchReads(q) ==
  /\ cache[q].fetch = "sent"
  /\ cache' = [cache EXCEPT ![q].fetch = "answered", ![q].answer = server[q]]
  /\ UNCHANGED <<server, client, call, told, overlooked, bounds>>

(* Success ends the invalidation, whatever happened since the fetch was    *)
(* sent.                                                                   *)
fetchSucceeds(q) ==
  /\ cache[q].fetch = "answered"
  /\ cache' = [cache EXCEPT ![q] = [NoQuery EXCEPT !.data = cache[q].answer]]
  /\ UNCHANGED <<server, client, call, told, overlooked, bounds>>

(* No answer, or one that says no.  An observed query is fetched once more *)
(* when the service was unavailable, and none after a 4xx.                 *)
fetchFails(q) ==
  /\ cache[q].fetch # "no" /\ failures < MaxFailures
  /\ failures' = failures + 1
  /\ \/ /\ q \in on
        /\ cache' = [cache EXCEPT ![q].fetch = "sent", ![q].answer = None]
     \/ cache' = [cache EXCEPT ![q].fetch = "no", ![q].answer = None,
                               ![q].error = TRUE, ![q].invalid = TRUE]
  /\ UNCHANGED <<server, client, call, told, overlooked, actions>>

(* The window gets the focus: what is invalid or older than staleTime,     *)
(* 30 s, is fetched.  How old the data is, is left open.                   *)
focus(q) ==
  /\ q \in on /\ cache[q].fetch = "no"
  /\ actions < MaxActions /\ actions' = actions + 1
  /\ fetchAll({q})
  /\ UNCHANGED <<server, client, call, told, failures>>

(* The Retry button of QueryError. *)
retry ==
  /\ \E q \in on : cache[q].error
  /\ actions < MaxActions /\ actions' = actions + 1
  /\ fetchAll({q \in on : cache[q].error})
  /\ UNCHANGED <<server, client, call, told, failures>>

-----------------------------------------------------------------------------
(* Rendering. *)

(* What the page shows of a query: on an error, QueryError instead of the  *)
(* list or the issue.                                                      *)
shown(q) ==
  IF q \in observed /\ (cache[q].error => q = "project") THEN cache[q].data ELSE None

(* Fault: the form is keyed by the issue alone. *)
remounts_ById(before, after) == before = None

(* The edit form has key={`${issue.id}:${issue.version}`}. *)
remounts(before, after) == before # after

(* The component a mutation was sent from. *)
sender(kind) == IF kind = "move" THEN "list" ELSE "issue"

render ==
  LET seen == [q \in Queries |-> shown(q)] IN
  /\ on # observed \/ view # seen
  /\ on' = observed /\ view' = seen
  /\ form' = IF seen["issue"] = None THEN None
             ELSE IF remounts(view["issue"], seen["issue"]) THEN seen["issue"] ELSE form
  /\ call' = [c \in Calls |->
       [call[c] EXCEPT !.mounted = @ /\ seen[sender(call[c].kind)] # None]]
  /\ \E old \in SUBSET (observed \ on) :   \* refetchOnMount
       fetchAll(old \cup {q \in observed \ on : cache[q].invalid \/ ~hasData(q)})
  /\ UNCHANGED <<server, page, told, bounds>>

goTo(p) ==
  /\ p # page /\ actions < MaxActions
  /\ page' = p /\ actions' = actions + 1
  /\ UNCHANGED <<server, cache, on, view, form, call, told, overlooked, failures>>

-----------------------------------------------------------------------------
(* Mutations. *)
isProjectWritable == view["project"] = 0

(* A button is disabled while the mutation it starts is pending. *)
isPending(kind) == \E c \in Calls : call[c].at # "idle" /\ call[c].mounted /\ call[c].kind = kind

mutate(c, kind, expected, seen) ==
  /\ call[c].at = "idle" /\ actions < MaxActions
  /\ isProjectWritable /\ ~isPending(kind)
  /\ call' = [call EXCEPT ![c] = [NoCall EXCEPT !.at = "sent", !.kind = kind, !.mounted = TRUE,
                                                !.expected = expected, !.seen = seen]]
  /\ actions' = actions + 1
  /\ UNCHANGED <<server, cache, client, told, overlooked, failures>>

(* Board: an arrow of the card moves the issue as the card shows it. *)
move(c) == view["list"] # None /\ mutate(c, "move", view["list"], view["list"])

(* Fault: the form sends the version the cache has now. *)
submitEdit_CachedVersion(c) ==
  view["issue"] # None /\ mutate(c, "edit", cache["issue"].data, form)

(* The fields are the form's, expectedVersion is the rendered issue's. *)
submitEdit(c) == view["issue"] # None /\ mutate(c, "edit", view["issue"], form)

submitAssignment(c) == view["issue"] # None /\ mutate(c, "assign", view["issue"], form)

(* Fault: the forms are there although the issue could not be loaded. *)
submitComment_Unloaded(c) == mutate(c, "comment", 0, view["issue"])

submitComment(c) == view["issue"] # None /\ mutate(c, "comment", 0, view["issue"])

(* Fault: the server accepts the move or edit of an older version. *)
accepts_Any(kind, expected) == TRUE

(* What the Issue service does (module IssueService). *)
accepts(kind, expected) == kind = "comment" \/ expected = server["issue"]

serverAnswers(c) ==
  LET written == server["issue"] + 1 IN
  /\ call[c].at = "sent"
  /\ \/ /\ server["project"] = 1
        /\ call' = [call EXCEPT ![c].at = "answered", ![c].result = "archived"]
        /\ UNCHANGED server
     \/ /\ server["project"] = 0 /\ accepts(call[c].kind, call[c].expected)
        /\ server' = [server EXCEPT !["issue"] = written, !["list"] = written]
        /\ call' = [call EXCEPT ![c].at = "answered", ![c].result = "ok", ![c].version = written]
     \/ /\ server["project"] = 0
        /\ ~accepts(call[c].kind, call[c].expected) \/ call[c].kind = "comment"
        /\ call' = [call EXCEPT ![c].at = "answered", ![c].result = "conflict",
                                ![c].version = server["issue"]]
        /\ UNCHANGED server
  /\ UNCHANGED <<cache, client, told, overlooked, bounds>>

(* The request or its answer gets lost, or the answer is a 5xx. *)
callFails(c) ==
  /\ \/ call[c].at = "sent"
     \/ call[c].at = "answered" /\ call[c].result # "failed"
  /\ failures < MaxFailures /\ failures' = failures + 1
  /\ call' = [call EXCEPT ![c].at = "answered", ![c].result = "failed", ![c].version = 0]
  /\ UNCHANGED <<server, cache, client, told, overlooked, actions>>

(* Fault: an edit refreshes the issue only when it succeeded. *)
invalidates_OnSuccess(kind, result) ==
  (IF kind = "move" THEN {"list", "issue"}
   ELSE IF result # "ok" THEN {} ELSE IF kind = "comment" THEN {"list", "issue"} ELSE {"issue"})
  \cup (IF result = "archived" THEN {"project"} ELSE {})

(* What the callbacks of a mutation invalidate first: of useTransitionIssue *)
(* whatever the answer, of the others when they succeeded or lost a race.  *)
invalidates(kind, result) ==
  (IF kind = "move" THEN {"list", "issue"}
   ELSE IF result \notin {"ok", "conflict"} THEN {}
   ELSE IF kind = "comment" THEN {"list", "issue"} ELSE {"issue"})
  \cup (IF result = "archived" THEN {"project"} ELSE {})

(* A move is over then; the others stay pending until the refetch ends. *)
awaits(kind, result) ==
  IF kind = "comment" THEN result \in {"ok", "conflict"} ELSE kind # "move" /\ result # "failed"

refreshEnds(c) ==
  LET q == IF call[c].result = "archived" THEN "project" ELSE "issue"
  IN  call[c].at = "refresh" /\ (cache[q].fetch = "no" \/ q \notin on)

(* The answer arrives and the callbacks run. *)
settle(c) ==
  LET m == call[c] IN
  /\ m.at = "answered"
  /\ told' = [q \in Queries |->
       IF q = "project" THEN IF m.result = "archived" THEN 1 ELSE told[q]
       ELSE IF m.version > told[q] THEN m.version ELSE told[q]]
  /\ invalidateQueries(invalidates(m.kind, m.result))
  /\ call' = [call EXCEPT ![c] = IF awaits(m.kind, m.result)
                                 THEN [@ EXCEPT !.at = "refresh"] ELSE NoCall]
  /\ UNCHANGED <<server, client, bounds>>

(* Fault: refreshIssue forgets the list. *)
refreshed_IssueOnly(c) ==
  /\ refreshEnds(c)
  /\ call' = [call EXCEPT ![c] = NoCall]
  /\ UNCHANGED <<server, cache, client, told, overlooked, bounds>>

(* The refetch of what is shown has ended, well or not.  refreshIssue goes *)
(* on to invalidate the list.                                              *)
refreshed(c) ==
  /\ refreshEnds(c)
  /\ call' = [call EXCEPT ![c] = NoCall]
  /\ invalidateQueries(IF call[c].kind # "comment" /\ call[c].result # "archived"
                       THEN {"list"} ELSE {})
  /\ UNCHANGED <<server, client, told, bounds>>

-----------------------------------------------------------------------------
(* What others do. *)
othersWrite ==
  /\ server["project"] = 0 /\ server["issue"] < MaxVersion
  /\ server' = [server EXCEPT !["issue"] = @ + 1, !["list"] = @ + 1]
  /\ UNCHANGED <<cache, client, call, told, overlooked, bounds>>

archiveProject ==
  /\ server["project"] = 0
  /\ server' = [server EXCEPT !["project"] = 1]
  /\ UNCHANGED <<cache, client, call, told, overlooked, bounds>>

Next ==
  \/ \E q \in Queries : fetchReads(q) \/ fetchSucceeds(q) \/ fetchFails(q) \/ focus(q)
  \/ retry \/ render
  \/ \E p \in {"board", "issue"} : goTo(p)
  \/ \E c \in Calls : \/ move(c) \/ submitEdit(c) \/ submitAssignment(c) \/ submitComment(c)
                      \/ serverAnswers(c) \/ callFails(c) \/ settle(c) \/ refreshed(c)
  \/ othersWrite \/ archiveProject

Spec == Init /\ [][Next]_vars

-----------------------------------------------------------------------------
(* Every variable has its type. *)
TypeOK ==
  /\ server \in [Queries -> Nat] /\ cache \in [Queries -> Query]
  /\ page \in {"board", "issue"} /\ on \subseteq Queries
  /\ view \in [Queries -> Maybe(Nat)] /\ form \in Maybe(Nat)
  /\ call \in [Calls -> Call]
  /\ told \in [Queries -> Nat] /\ overlooked \subseteq Queries
  /\ actions \in Nat /\ failures \in Nat

(* A move, an edit or an assignment that the server accepts replaces the   *)
(* very version the user was looking at, the values in the form included:  *)
(* what others changed is never overwritten unseen, although the data is   *)
(* refetched and rendered anew while the user reads, types and waits.      *)
ReplacesWhatWasSeen ==
  [][\A c \in Calls :
       /\ call[c].at = "sent" /\ call[c].kind # "comment"
       /\ call'[c].at = "answered" /\ call'[c].result = "ok"
       => call[c].seen = server["issue"]]_vars

Refreshing == \E c \in Calls : call[c].at = "refresh"

(* What the client has been told by an answer, that its write succeeded,   *)
(* that somebody else was first, or that the project is archived, shows    *)
(* on the page once nothing is being loaded.  The exception is a query     *)
(* that was invalidated while a fetch went on that invalidateQueries does  *)
(* not cancel: its older answer counts as fresh for 30 s.                  *)
ShowsWhatItWasTold ==
  \A q \in on \ overlooked :
    /\ view[q] # None /\ view[q] = shown(q)
    /\ cache[q].fetch = "no" /\ ~cache[q].error /\ ~Refreshing
    => view[q] >= told[q]
=============================================================================
