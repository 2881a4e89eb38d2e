------------------------- MODULE IssueViews_proofs -------------------------
(***************************************************************************)
(* For any number of mutations under way, any number of actions of the     *)
(* user and of others, and any losses: what the user overwrites, the user  *)
(* has seen, and what an answer told the client shows on the page.         *)
(***************************************************************************)
EXTENDS IssueViews, TLAPS

(* A write names the version the user saw; its answer tells what is true.  *)
CallSound(c) ==
  /\ call[c].at = "sent" =>
       /\ call[c].kind # "comment" => call[c].seen = call[c].expected
       /\ call[c].version = 0
  /\ call[c].at = "answered" =>
       /\ call[c].version <= server["issue"]
       /\ call[c].result = "archived" => server["project"] = 1
       /\ call[c].result \in {"archived", "failed"} => call[c].version = 0

ToldIsTrue == server["list"] = server["issue"] /\ \A q \in Queries : told[q] <= server[q]

AnswersArePresent == \A q \in Queries : cache[q].fetch = "answered" => cache[q].answer # None

(* refreshIssue has yet to invalidate the list. *)
ListToCome ==
  \E c \in Calls : call[c].at = "refresh" /\ call[c].kind # "comment" /\ call[c].result # "archived"

(* An answer on its way is as new as what was told, and so is the data,    *)
(* unless it will be fetched when somebody looks.                          *)
Fresh(q) ==
  \/ q = "list" /\ ListToCome
  \/ /\ cache[q].fetch = "answered" => cache[q].answer >= told[q]
     /\ cache[q].fetch = "no" /\ ~cache[q].error /\ cache[q].data # None =>
          cache[q].data >= told[q] \/ (q \notin on /\ cache[q].invalid)

IInv ==
  /\ TypeOK
  /\ form = view["issue"]
  /\ \A c \in Calls : CallSound(c)
  /\ ToldIsTrue
  /\ AnswersArePresent
  /\ \A q \in Queries \ overlooked : Fresh(q)

-----------------------------------------------------------------------------
LEMMA FetchedFacts ==
  ASSUME NEW query \in Query
  PROVE  /\ fetched(query) \in Query /\ fetched(query).fetch = "sent"
         /\ [fetched(query) EXCEPT !.invalid = TRUE] \in Query
         /\ [fetched(query) EXCEPT !.invalid = TRUE].fetch = "sent"
BY DEF fetched, Query, Maybe

LEMMA QueryFacts ==
  ASSUME NEW query \in Query, NEW v \in Maybe(Nat)
  PROVE  /\ [query EXCEPT !.invalid = TRUE] \in Query
         /\ [query EXCEPT !.fetch = "answered", !.answer = v] \in Query
         /\ [NoQuery EXCEPT !.data = v] \in Query
         /\ [query EXCEPT !.fetch = "sent", !.answer = None] \in Query
         /\ [query EXCEPT !.fetch = "no", !.answer = None, !.error = TRUE, !.invalid = TRUE] \in Query
BY DEF Query, Maybe, NoQuery

(* The queries in S that are idle are on their way, the others as before.  *)
LEMMA FetchAllFacts ==
  ASSUME TypeOK, NEW S \in SUBSET Queries, fetchAll(S)
  PROVE  /\ cache' \in [Queries -> Query] /\ overlooked' \subseteq Queries
         /\ \A q \in Queries :
              \/ cache'[q].fetch = "sent" /\ q \in S
              \/ cache'[q] = cache[q] /\ (q \in S => cache[q].fetch # "no")
                 /\ (q \in overlooked => q \in overlooked')
<1>1. /\ cache \in [Queries -> Query] /\ overlooked \subseteq Queries
      /\ \A q \in Queries : fetched(cache[q]) \in Query /\ fetched(cache[q]).fetch = "sent"
  BY FetchedFacts DEF TypeOK
<1>2. QED  BY <1>1 DEF fetchAll

(* An invalidated query is on its way, or it is overlooked, or it will be  *)
(* fetched when somebody looks.                                            *)
LEMMA InvalidateFacts ==
  ASSUME TypeOK, NEW S \in SUBSET Queries, invalidateQueries(S)
  PROVE  /\ cache' \in [Queries -> Query] /\ overlooked' \subseteq Queries
         /\ \A q \in Queries \ overlooked' :
              \/ cache'[q].fetch = "sent"
              \/ q \in S /\ q \notin on /\ cache'[q].fetch = "no" /\ cache'[q].invalid
              \/ q \notin S /\ cache'[q] = cache[q] /\ q \notin overlooked
<1>1. /\ cache \in [Queries -> Query] /\ overlooked \subseteq Queries
      /\ \A q \in Queries : cache[q] \in Query /\ fetched(cache[q]) \in Query
  BY FetchedFacts DEF TypeOK
<1> DEFINE hit(q) == [IF refetches(q) THEN fetched(cache[q]) ELSE cache[q] EXCEPT !.invalid = TRUE]
<1>2. \A q \in Queries :
        /\ hit(q) \in Query /\ hit(q).invalid
        /\ refetches(q) => hit(q).fetch = "sent"
        /\ ~refetches(q) => hit(q).fetch = cache[q].fetch
  <2> SUFFICES ASSUME NEW q \in Queries
               PROVE  /\ hit(q) \in Query /\ hit(q).invalid
                      /\ refetches(q) => hit(q).fetch = "sent"
                      /\ ~refetches(q) => hit(q).fetch = cache[q].fetch
    OBVIOUS
  <2>1. CASE refetches(q)
    BY <1>1, <2>1, FetchedFacts DEF Query
  <2>2. CASE ~refetches(q)
    BY <1>1, <2>2 DEF Query
  <2>3. QED  BY <2>1, <2>2
<1> HIDE DEF hit
<1>3. /\ cache' = [q \in Queries |-> IF q \notin S THEN cache[q] ELSE hit(q)]
      /\ overlooked' = {q \in overlooked : ~(q \in S /\ refetches(q))} \cup
                       {q \in S : ~refetches(q) /\ cache[q].fetch # "no"}
  BY DEF invalidateQueries, hit
<1>4. cache' \in [Queries -> Query] /\ overlooked' \subseteq Queries
  BY <1>1, <1>2, <1>3
<1>5. ASSUME NEW q \in Queries \ overlooked'
      PROVE  \/ cache'[q].fetch = "sent"
             \/ q \in S /\ q \notin on /\ cache'[q].fetch = "no" /\ cache'[q].invalid
             \/ q \notin S /\ cache'[q] = cache[q] /\ q \notin overlooked
  <2>1. CASE q \in S /\ refetches(q)
    BY <1>2, <1>3, <2>1
  <2>2. CASE q \in S /\ ~refetches(q)
    BY <1>2, <1>3, <1>5, <2>2 DEF refetches
  <2>3. CASE q \notin S
    BY <1>3, <1>5, <2>3
  <2>4. QED  BY <2>1, <2>2, <2>3
<1>6. QED  BY <1>4, <1>5

-----------------------------------------------------------------------------
(* What a step does to the mutations. *)
LEMMA MutateFacts ==
  ASSUME IInv, NEW c \in Calls, move(c) \/ submitEdit(c) \/ submitAssignment(c) \/ submitComment(c)
  PROVE  /\ call' = [call EXCEPT ![c] = call'[c]] /\ call'[c] \in Call
         /\ call'[c].at = "sent" /\ call'[c].version = 0
         /\ call'[c].kind # "comment" => call'[c].seen = call'[c].expected
         /\ call[c].at = "idle" /\ actions' \in Nat
         /\ UNCHANGED <<server, cache, client, told, overlooked, failures>>
<1>0. TypeOK /\ form = view["issue"]
  BY DEF IInv
<1>1. \A q \in Queries : view[q] # None => view[q] \in Nat
  BY <1>0 DEF TypeOK, Maybe
<1>2. \E kind \in Kinds, expected, seen \in Nat :
        mutate(c, kind, expected, seen) /\ (kind # "comment" => seen = expected)
  <2>1. CASE move(c)
    <3>1. view["list"] \in Nat /\ mutate(c, "move", view["list"], view["list"])
      BY <1>1, <2>1 DEF move, Queries
    <3>2. QED  BY <3>1 DEF Kinds
  <2>2. CASE submitEdit(c) \/ submitAssignment(c) \/ submitComment(c)
    <3>1. view["issue"] \in Nat
      BY <1>1, <2>2 DEF submitEdit, submitAssignment, submitComment, Queries
    <3>2. \/ mutate(c, "edit", view["issue"], view["issue"])
          \/ mutate(c, "assign", view["issue"], view["issue"])
          \/ mutate(c, "comment", 0, view["issue"])
      BY <1>0, <2>2 DEF submitEdit, submitAssignment, submitComment
    <3>3. QED  BY <3>1, <3>2 DEF Kinds
  <2>3. QED  BY <2>1, <2>2
<1>3. PICK kind \in Kinds, expected \in Nat, seen \in Nat :
        mutate(c, kind, expected, seen) /\ (kind # "comment" => seen = expected)
  BY <1>2
<1> DEFINE m == [NoCall EXCEPT !.at = "sent", !.kind = kind, !.mounted = TRUE,
                               !.expected = expected, !.seen = seen]
<1>4. m \in Call /\ m.at = "sent" /\ m.version = 0 /\ m.kind = kind /\ m.seen = seen /\ m.expected = expected
  BY DEF NoCall, Call, Kinds
<1>5. call' = [call EXCEPT ![c] = m] /\ call'[c] = m
  BY <1>0, <1>3 DEF mutate, TypeOK
<1> HIDE DEF m
<1>6. call[c].at = "idle" /\ actions' \in Nat /\ UNCHANGED <<server, cache, client, told, overlooked, failures>>
  BY <1>0, <1>3 DEF mutate, TypeOK
<1>7. QED  BY <1>3, <1>4, <1>5, <1>6

LEMMA AnswerFacts ==
  ASSUME IInv, NEW c \in Calls, serverAnswers(c)
  PROVE  /\ call' = [call EXCEPT ![c] = call'[c]] /\ call'[c] \in Call
         /\ call'[c].at = "answered" /\ call'[c].version <= server'["issue"]
         /\ call'[c].result = "archived" => server'["project"] = 1 /\ call'[c].version = 0
         /\ call'[c].result # "failed" /\ call[c].at = "sent"
         /\ call'[c].result = "ok" /\ call[c].kind # "comment" => call[c].expected = server["issue"]
         /\ server' \in [Queries -> Nat] /\ server'["list"] = server'["issue"]
         /\ \A q \in Queries : server[q] <= server'[q]
         /\ server'["project"] = server["project"]
         /\ UNCHANGED <<cache, client, told, overlooked, bounds>>
<1>0. /\ call[c] \in Call /\ call[c].at = "sent" /\ server \in [Queries -> Nat]
      /\ call[c].version = 0 /\ call \in [Calls -> Call] /\ server["list"] = server["issue"] /\ "issue" \in Queries
      /\ "list" \in Queries /\ "project" \in Queries
      /\ UNCHANGED <<cache, client, told, overlooked, bounds>>
  BY DEF IInv, TypeOK, ToldIsTrue, CallSound, serverAnswers, Queries
<1>1. CASE /\ server["project"] = 1 /\ UNCHANGED server
           /\ call' = [call EXCEPT ![c].at = "answered", ![c].result = "archived"]
  <2> DEFINE m == [call[c] EXCEPT !.at = "answered", !.result = "archived"]
  <2>1. m \in Call /\ m.at = "answered" /\ m.result = "archived" /\ m.version = call[c].version
    BY <1>0 DEF Call
  <2>2. call' = [call EXCEPT ![c] = m] /\ call'[c] = m
    BY <1>0, <1>1
  <2> HIDE DEF m
  <2>d. /\ server["issue"] \in Nat /\ server'["issue"] = server["issue"] /\ server'["project"] = server["project"]
        /\ call[c].version = 0 /\ server["project"] = 1
    BY <1>0, <1>1
  <2>e. /\ call' = [call EXCEPT ![c] = call'[c]] /\ call'[c] \in Call
        /\ call'[c].at = "answered" /\ call'[c].version <= server'["issue"]
        /\ call'[c].result = "archived" => server'["project"] = 1 /\ call'[c].version = 0
        /\ call'[c].result # "failed"
    <3>1. call' = [call EXCEPT ![c] = call'[c]]
      BY <2>2
    <3>2. call'[c] \in Call /\ call'[c].at = "answered"
      BY <2>1, <2>2
    <3>3. call'[c].version <= server'["issue"]
      BY <2>1, <2>2, <2>d
    <3>4. /\ call'[c].result = "archived" => server'["project"] = 1 /\ call'[c].version = 0
          /\ call'[c].result # "failed"
      BY <2>1, <2>2, <2>d
    <3>5. QED  BY <3>1, <3>2, <3>3, <3>4
  <2>f. server' \in [Queries -> Nat] /\ server'["list"] = server'["issue"]
        /\ \A q \in Queries : server[q] <= server'[q]
        /\ server'["project"] = server["project"]
    BY <1>0, <1>1
  <2>g. call'[c].result # "ok"
    BY <2>1, <2>2
  <2>3. QED  BY <1>0, <2>e, <2>f, <2>g
<1>2. CASE /\ accepts(call[c].kind, call[c].expected)
           /\ server' = [server EXCEPT !["issue"] = server["issue"] + 1, !["list"] = server["issue"] + 1]
           /\ call' = [call EXCEPT ![c].at = "answered", ![c].result = "ok",
                                   ![c].version = server["issue"] + 1]
  <2> DEFINE m == [call[c] EXCEPT !.at = "answered", !.result = "ok", !.version = server["issue"] + 1]
  <2>0. server["issue"] + 1 \in Nat
    BY <1>0
  <2>1. m \in Call /\ m.at = "answered" /\ m.result = "ok" /\ m.version = server["issue"] + 1
    BY <1>0, <2>0 DEF Call
  <2>2. call' = [call EXCEPT ![c] = m] /\ call'[c] = m
    BY <1>0, <1>2
  <2> HIDE DEF m
  <2>3. /\ server' \in [Queries -> Nat] /\ server'["list"] = server["issue"] + 1
        /\ server'["issue"] = server["issue"] + 1 /\ \A q \in Queries : server[q] <= server'[q]
        /\ server'["project"] = server["project"]
    BY <1>0, <1>2
  <2>4. call[c].kind # "comment" => call[c].expected = server["issue"]
    BY <1>2 DEF accepts
  <2>e. /\ call' = [call EXCEPT ![c] = call'[c]] /\ call'[c] \in Call
        /\ call'[c].at = "answered" /\ call'[c].version <= server'["issue"]
        /\ call'[c].result = "archived" => server'["project"] = 1 /\ call'[c].version = 0
        /\ call'[c].result # "failed"
    BY <1>0, <2>1, <2>2, <2>3
  <2>5. QED  BY <1>0, <2>3, <2>4, <2>e
<1>3. CASE /\ UNCHANGED server
           /\ call' = [call EXCEPT ![c].at = "answered", ![c].result = "conflict",
                                   ![c].version = server["issue"]]
  <2> DEFINE m == [call[c] EXCEPT !.at = "answered", !.result = "conflict", !.version = server["issue"]]
  <2>1. m \in Call /\ m.at = "answered" /\ m.result = "conflict" /\ m.version = server["issue"]
    BY <1>0 DEF Call
  <2>2. call' = [call EXCEPT ![c] = m] /\ call'[c] = m
    BY <1>0, <1>3
  <2> HIDE DEF m
  <2>d. /\ server["issue"] \in Nat /\ server'["issue"] = server["issue"] /\ server'["project"] = server["project"]
        /\ call[c].version = 0
    BY <1>0, <1>3
  <2>e. /\ call' = [call EXCEPT ![c] = call'[c]] /\ call'[c] \in Call
        /\ call'[c].at = "answered" /\ call'[c].version <= server'["issue"]
        /\ call'[c].result = "archived" => server'["project"] = 1 /\ call'[c].version = 0
        /\ call'[c].result # "failed"
    <3>1. call' = [call EXCEPT ![c] = call'[c]]
      BY <2>2
    <3>2. call'[c] \in Call /\ call'[c].at = "answered"
      BY <2>1, <2>2
    <3>3. call'[c].version <= server'["issue"]
      BY <2>1, <2>2, <2>d
    <3>4. /\ call'[c].result = "archived" => server'["project"] = 1 /\ call'[c].version = 0
          /\ call'[c].result # "failed"
      BY <2>1, <2>2, <2>d
    <3>5. QED  BY <3>1, <3>2, <3>3, <3>4
  <2>f. server' \in [Queries -> Nat] /\ server'["list"] = server'["issue"]
        /\ \A q \in Queries : server[q] <= server'[q]
        /\ server'["project"] = server["project"]
    BY <1>0, <1>3
  <2>g. call'[c].result # "ok"
    BY <2>1, <2>2
  <2>3. QED  BY <1>0, <2>e, <2>f, <2>g
<1>4. QED  BY <1>1, <1>2, <1>3 DEF serverAnswers

LEMMA FailFacts ==
  ASSUME IInv, NEW c \in Calls, callFails(c)
  PROVE  /\ call' = [call EXCEPT ![c] = call'[c]] /\ call'[c] \in Call
         /\ call'[c].at = "answered" /\ call'[c].result = "failed" /\ call'[c].version = 0
         /\ call[c].at # "refresh" /\ failures' \in Nat
         /\ UNCHANGED <<server, cache, client, told, overlooked, actions>>
<1>0. call \in [Calls -> Call] /\ call[c] \in Call
  BY DEF IInv, TypeOK
<1> DEFINE m == [call[c] EXCEPT !.at = "answered", !.result = "failed", !.version = 0]
<1>1. m \in Call /\ m.at = "answered" /\ m.result = "failed" /\ m.version = 0
  BY <1>0 DEF Call
<1>2. call' = [call EXCEPT ![c] = m] /\ call'[c] = m
  BY <1>0 DEF callFails
<1> HIDE DEF m
<1>3. failures \in Nat
  BY DEF IInv, TypeOK
<1>4. call[c].at # "refresh" /\ failures' \in Nat
      /\ UNCHANGED <<server, cache, client, told, overlooked, actions>>
  BY <1>3 DEF callFails
<1>5. QED  BY <1>1, <1>2, <1>4

(* Rendering only takes components away. *)
LEMMA RenderFacts ==
  ASSUME IInv, render
  PROVE  /\ call' \in [Calls -> Call]
         /\ \A c \in Calls : /\ call'[c].at = call[c].at /\ call'[c].kind = call[c].kind
                             /\ call'[c].seen = call[c].seen /\ call'[c].expected = call[c].expected
                             /\ call'[c].result = call[c].result /\ call'[c].version = call[c].version
         /\ view' \in [Queries -> Maybe(Nat)] /\ form' = view'["issue"] /\ on' = observed
         /\ \E S \in SUBSET Queries :
              fetchAll(S) /\ \A q \in on' \ on : cache[q].invalid \/ ~hasData(q) => q \in S
         /\ UNCHANGED <<server, page, told, bounds>>
<1>0. /\ call \in [Calls -> Call] /\ cache \in [Queries -> Query] /\ form = view["issue"]
      /\ view \in [Queries -> Maybe(Nat)]
  BY DEF IInv, TypeOK
<1> DEFINE seen == [q \in Queries |-> shown(q)]
<1>1. seen \in [Queries -> Maybe(Nat)]
  BY <1>0 DEF shown, Maybe, Query
<1>2. view' = seen /\ form' = seen["issue"] /\ on' = observed
  BY <1>0 DEF render, remounts
<1>3. \A c \in Calls : \E b \in BOOLEAN : call'[c] = [call[c] EXCEPT !.mounted = b]
  <2>1. \A c \in Calls :
          call'[c] = [call[c] EXCEPT !.mounted = @ /\ seen[sender(call[c].kind)] # None]
    BY DEF render
  <2> HIDE DEF seen
  <2>2. \A c \in Calls : call[c].mounted \in BOOLEAN
    BY <1>0 DEF Call
  <2>3. QED  BY <2>1, <2>2
<1>4. call' \in [Calls -> Call]
  <2>1. \A c \in Calls, b \in BOOLEAN : [call[c] EXCEPT !.mounted = b] \in Call
    BY <1>0 DEF Call
  <2>2. call' = [c \in Calls |-> call'[c]]
    BY DEF render
  <2>3. QED  BY <1>3, <2>1, <2>2
<1>5. \A c \in Calls : /\ call'[c].at = call[c].at /\ call'[c].kind = call[c].kind
                       /\ call'[c].seen = call[c].seen /\ call'[c].expected = call[c].expected
                       /\ call'[c].result = call[c].result /\ call'[c].version = call[c].version
  <2> TAKE c \in Calls
  <2>1. PICK b \in BOOLEAN : call'[c] = [call[c] EXCEPT !.mounted = b]
    BY <1>3
  <2>2. call[c] \in Call
    BY <1>0
  <2>3. QED  BY <2>1, <2>2 DEF Call
<1>6. observed \subseteq Queries
  BY DEF observed, Queries
<1>7. \E S \in SUBSET Queries :
        fetchAll(S) /\ \A q \in on' \ on : cache[q].invalid \/ ~hasData(q) => q \in S
  <2>1. PICK old \in SUBSET (observed \ on) :
          fetchAll(old \cup {q \in observed \ on : cache[q].invalid \/ ~hasData(q)})
    BY DEF render
  <2>2. QED  BY <1>2, <1>6, <2>1
<1>8. QED  BY <1>1, <1>2, <1>4, <1>5, <1>7 DEF render

(* What an answer tells of is invalidated, or will be by refreshIssue. *)
LEMMA SettleFacts ==
  ASSUME IInv, NEW c \in Calls, settle(c)
  PROVE  /\ call' = [call EXCEPT ![c] = call'[c]] /\ call'[c] \in Call
         /\ call[c].at = "answered" /\ call'[c].at \in {"refresh", "idle"}
         /\ told' \in [Queries -> Nat] /\ \A q \in Queries : told'[q] <= server[q]
         /\ \E S \in SUBSET Queries :
              /\ invalidateQueries(S)
              /\ \A q \in Queries : told'[q] = told[q] \/ q \in S \/ (q = "list" /\ ListToCome')
         /\ UNCHANGED <<server, client, bounds>>
<1> DEFINE m == call[c]
           S == invalidates(m.kind, m.result)
           n == IF awaits(m.kind, m.result) THEN [m EXCEPT !.at = "refresh"] ELSE NoCall
<1>0. /\ m \in Call /\ m.at = "answered" /\ call \in [Calls -> Call]
      /\ m.version <= server["issue"] /\ server["list"] = server["issue"]
      /\ m.result = "archived" => server["project"] = 1
      /\ m.result \in {"archived", "failed"} => m.version = 0
      /\ told \in [Queries -> Nat] /\ server \in [Queries -> Nat]
      /\ \A q \in Queries : told[q] <= server[q]
  BY DEF IInv, TypeOK, CallSound, ToldIsTrue, settle
<1>1. /\ n \in Call /\ n.at \in {"refresh", "idle"}
      /\ awaits(m.kind, m.result) => n.at = "refresh" /\ n.kind = m.kind /\ n.result = m.result
  <2>1. NoCall \in Call /\ NoCall.at = "idle"
    BY DEF NoCall, Call, Kinds
  <2>2. [m EXCEPT !.at = "refresh"] \in Call /\ [m EXCEPT !.at = "refresh"].at = "refresh"
        /\ [m EXCEPT !.at = "refresh"].kind = m.kind /\ [m EXCEPT !.at = "refresh"].result = m.result
    BY <1>0 DEF Call
  <2>3. QED  BY <2>1, <2>2
<1>2. /\ told' = [q \in Queries |->
           IF q = "project" THEN IF m.result = "archived" THEN 1 ELSE told[q]
           ELSE IF m.version > told[q] THEN m.version ELSE told[q]]
      /\ invalidateQueries(S) /\ call' = [call EXCEPT ![c] = n] /\ call'[c] = n
      /\ UNCHANGED <<server, client, bounds>>
  BY <1>0 DEF settle
<1> HIDE DEF n
<1>3. m.version \in Nat /\ m.kind \in Kinds /\ m.result \in {"ok", "conflict", "archived", "failed"}
  BY <1>0 DEF Call
<1> HIDE DEF m
<1>n. call'[c] = n
  BY <1>2
<1>4. told' \in [Queries -> Nat]
  BY <1>0, <1>2, <1>3
<1>5. \A q \in Queries : told'[q] <= server[q]
  BY <1>0, <1>2, <1>3 DEF Queries
<1>6. S \in SUBSET Queries
  BY DEF invalidates, Queries
<1>7. ASSUME NEW q \in Queries, told'[q] # told[q]
      PROVE  q \in S \/ (q = "list" /\ ListToCome')
  <2>1. CASE q = "project"
    BY <1>2, <1>7, <2>1 DEF invalidates
  <2>2. CASE q # "project"
    <3>1. m.version > told[q] /\ q \in {"list", "issue"}
      BY <1>2, <1>7, <2>2 DEF Queries
    <3>2. m.result \in {"ok", "conflict"}
      BY <1>0, <1>3, <3>1
    <3>3. CASE m.kind \in {"move", "comment"} \/ q = "issue"
      BY <3>1, <3>2, <3>3 DEF invalidates
    <3>4. CASE m.kind \notin {"move", "comment"} /\ q = "list"
      <4>1. awaits(m.kind, m.result)
        BY <3>2, <3>4 DEF awaits
      <4>2. call'[c].at = "refresh" /\ call'[c].kind # "comment" /\ call'[c].result # "archived"
        BY <1>1, <1>n, <3>2, <3>4, <4>1
      <4>3. QED  BY <3>4, <4>2 DEF ListToCome
    <3>5. QED  BY <3>1, <3>3, <3>4
  <2>3. QED  BY <2>1, <2>2
<1>8. m = call[c]
  BY DEF m
<1>9. call' = [call EXCEPT ![c] = call'[c]]
  BY <1>2
<1>10. call'[c] \in Call /\ call'[c].at \in {"refresh", "idle"}
  BY <1>1, <1>n
<1>11. \E T \in SUBSET Queries :
         /\ invalidateQueries(T)
         /\ \A q \in Queries : told'[q] = told[q] \/ q \in T \/ (q = "list" /\ ListToCome')
  <2> HIDE DEF S
  <2>1. QED  BY <1>2, <1>6, <1>7
<1>12. QED  BY <1>0, <1>2, <1>4, <1>5, <1>8, <1>9, <1>10, <1>11

LEMMA RefreshedFacts ==
  ASSUME IInv, NEW c \in Calls, refreshed(c)
  PROVE  /\ call' = [call EXCEPT ![c] = call'[c]] /\ call'[c] \in Call /\ call'[c].at = "idle"
         /\ \E S \in SUBSET Queries : invalidateQueries(S) /\ (ListToCome => ListToCome' \/ "list" \in S)
         /\ UNCHANGED <<server, client, told, bounds>>
<1>1. call \in [Calls -> Call] /\ NoCall \in Call /\ NoCall.at = "idle"
  BY DEF IInv, TypeOK, NoCall, Call, Kinds
<1>2. call' = [call EXCEPT ![c] = NoCall] /\ call'[c] = NoCall
  BY <1>1 DEF refreshed
<1> DEFINE S == IF call[c].kind # "comment" /\ call[c].result # "archived" THEN {"list"} ELSE {}
<1>3. S \in SUBSET Queries /\ invalidateQueries(S)
  BY DEF refreshed, Queries
<1>4. ASSUME ListToCome, "list" \notin S PROVE ListToCome'
  <2>1. PICK d \in Calls : call[d].at = "refresh" /\ call[d].kind # "comment" /\ call[d].result # "archived"
    BY <1>4 DEF ListToCome
  <2>2. d # c
    BY <1>4, <2>1
  <2>3. call'[d] = call[d]
    BY <1>1, <1>2, <2>2
  <2>4. QED  BY <2>1, <2>3 DEF ListToCome
<1> HIDE DEF S
<1>5. \E T \in SUBSET Queries : invalidateQueries(T) /\ (ListToCome => ListToCome' \/ "list" \in T)
  BY <1>3, <1>4
<1>6. call' = [call EXCEPT ![c] = call'[c]] /\ call'[c] \in Call /\ call'[c].at = "idle"
  BY <1>1, <1>2
<1>7. QED  BY <1>5, <1>6 DEF refreshed

-----------------------------------------------------------------------------
(* The steps, by what they change. *)
Sends(c) == move(c) \/ submitEdit(c) \/ submitAssignment(c) \/ submitComment(c)

Fetches(q) == fetchReads(q) \/ fetchSucceeds(q) \/ fetchFails(q)

Looks == retry \/ \E q \in Queries : focus(q)

Elsewhere == \/ \E p \in {"board", "issue"} : goTo(p)
             \/ othersWrite \/ archiveProject
             \/ UNCHANGED vars

LEMMA StepCases ==
  ASSUME [Next]_vars
  PROVE  \/ \E q \in Queries : Fetches(q)
         \/ Looks \/ render \/ Elsewhere
         \/ \E c \in Calls : Sends(c) \/ serverAnswers(c) \/ callFails(c) \/ settle(c) \/ refreshed(c)
BY DEF Next, Sends, Fetches, Looks, Elsewhere

LEMMA FetchFacts ==
  ASSUME IInv, NEW p \in Queries, Fetches(p)
  PROVE  /\ cache' \in [Queries -> Query] /\ failures' \in Nat
         /\ AnswersArePresent' /\ \A q \in Queries \ overlooked' : Fresh(q)'
         /\ UNCHANGED <<server, client, call, told, overlooked, actions>>
<1>0. /\ cache \in [Queries -> Query] /\ cache[p] \in Query /\ server \in [Queries -> Nat]
      /\ told \in [Queries -> Nat] /\ failures \in Nat /\ None \notin Nat
      /\ AnswersArePresent /\ \A q \in Queries : told[q] <= server[q]
      /\ \A q \in Queries \ overlooked : Fresh(q)
  BY ViewsAssumption DEF IInv, TypeOK, ToldIsTrue
<1>1. UNCHANGED <<server, client, call, told, overlooked, actions>> /\ failures' \in Nat
  BY <1>0 DEF Fetches, fetchReads, fetchSucceeds, fetchFails, bounds
<1>2. UNCHANGED <<told, overlooked, on>> /\ (ListToCome <=> ListToCome')
  BY <1>1 DEF client, ListToCome
<1>3. ASSUME NEW query \in Query, cache' = [cache EXCEPT ![p] = query],
             query.fetch = "answered" => query.answer # None,
             p \notin overlooked => \/ p = "list" /\ ListToCome
                                    \/ /\ query.fetch = "answered" => query.answer >= told[p]
                                       /\ query.fetch = "no" /\ ~query.error => query.data >= told[p]
      PROVE  /\ cache' \in [Queries -> Query] /\ AnswersArePresent'
             /\ \A q \in Queries \ overlooked' : Fresh(q)'
  <2>1. cache'[p] = query /\ \A q \in Queries \ {p} : cache'[q] = cache[q]
    BY <1>0, <1>3
  <2>2. cache' \in [Queries -> Query]
    BY <1>0, <1>3
  <2>3. AnswersArePresent'
    BY <1>0, <1>3, <2>1 DEF AnswersArePresent
  <2>4. ASSUME NEW q \in Queries \ overlooked' PROVE Fresh(q)'
    <3>1. CASE q = p
      BY <1>2, <1>3, <2>1, <2>4, <3>1 DEF Fresh
    <3>2. CASE q # p
      BY <1>0, <1>2, <2>1, <2>4, <3>2 DEF Fresh
    <3>3. QED  BY <3>1, <3>2
  <2>5. QED  BY <2>2, <2>3, <2>4
<1>4. CASE fetchReads(p)
  <2> DEFINE query == [cache[p] EXCEPT !.fetch = "answered", !.answer = server[p]]
  <2>0. server[p] \in Nat
    BY <1>0
  <2>1. query \in Query /\ query.fetch = "answered" /\ query.answer = server[p]
    BY <1>0, <2>0 DEF Query, Maybe
  <2>2. cache' = [cache EXCEPT ![p] = query]
    BY <1>4 DEF fetchReads
  <2> HIDE DEF query
  <2>3. server[p] # None /\ server[p] >= told[p]
    BY <1>0
  <2>4. QED  BY <1>1, <1>3, <2>1, <2>2, <2>3
<1>5. CASE fetchSucceeds(p)
  <2> DEFINE query == [NoQuery EXCEPT !.data = cache[p].answer]
  <2>0. cache[p].answer \in Maybe(Nat)
    BY <1>0 DEF Query
  <2>1. query \in Query /\ query.fetch = "no" /\ query.data = cache[p].answer
    BY <2>0 DEF NoQuery, Query, Maybe
  <2>2. cache' = [cache EXCEPT ![p] = query] /\ cache[p].fetch = "answered"
    BY <1>5 DEF fetchSucceeds
  <2> HIDE DEF query
  <2>3. p \notin overlooked => (p = "list" /\ ListToCome) \/ cache[p].answer >= told[p]
    BY <1>0, <2>2 DEF Fresh
  <2>4. QED  BY <1>1, <1>3, <2>1, <2>2, <2>3
<1>6. CASE fetchFails(p)
  <2>1. CASE cache' = [cache EXCEPT ![p].fetch = "sent", ![p].answer = None]
    <3> DEFINE query == [cache[p] EXCEPT !.fetch = "sent", !.answer = None]
    <3>1. query \in Query /\ query.fetch = "sent"
      BY <1>0, QueryFacts DEF Query, Maybe
    <3>2. cache' = [cache EXCEPT ![p] = query]
      BY <2>1
    <3> HIDE DEF query
    <3>3. QED  BY <1>1, <1>3, <3>1, <3>2
  <2>2. CASE cache' = [cache EXCEPT ![p].fetch = "no", ![p].answer = None,
                                    ![p].error = TRUE, ![p].invalid = TRUE]
    <3> DEFINE query == [cache[p] EXCEPT !.fetch = "no", !.answer = None, !.error = TRUE, !.invalid = TRUE]
    <3>1. query \in Query /\ query.fetch = "no" /\ query.error
      BY <1>0, QueryFacts DEF Query, Maybe
    <3>2. cache' = [cache EXCEPT ![p] = query]
      BY <2>2
    <3> HIDE DEF query
    <3>3. QED  BY <1>1, <1>3, <3>1, <3>2
  <2>3. QED  BY <1>6, <2>1, <2>2 DEF fetchFails
<1>7. QED  BY <1>4, <1>5, <1>6 , <1>1 DEF Fetches

LEMMA FetchAllFresh ==
  ASSUME IInv, NEW S \in SUBSET Queries, fetchAll(S), UNCHANGED told, ListToCome <=> ListToCome',
         \A q \in on' \ on : cache[q].invalid \/ ~hasData(q) => q \in S
  PROVE  AnswersArePresent' /\ \A q \in Queries \ overlooked' : Fresh(q)'
<1>1. /\ TypeOK /\ AnswersArePresent /\ \A q \in Queries \ overlooked : Fresh(q)
      /\ \A q \in Queries :
           \/ cache'[q].fetch = "sent" /\ q \in S
           \/ cache'[q] = cache[q] /\ (q \in S => cache[q].fetch # "no")
              /\ (q \in overlooked => q \in overlooked')
  BY FetchAllFacts DEF IInv
<1>2. AnswersArePresent'
  BY <1>1 DEF AnswersArePresent
<1>3. ASSUME NEW q \in Queries \ overlooked' PROVE Fresh(q)'
  <2>1. CASE cache'[q].fetch = "sent"
    BY <2>1 DEF Fresh
  <2>2. CASE /\ cache'[q] = cache[q] /\ (q \in S => cache[q].fetch # "no")
             /\ (q \in overlooked => q \in overlooked')
    <3>1. Fresh(q) /\ told'[q] = told[q] /\ (q \in on' => q \in on \/ q \in S \/ ~cache[q].invalid)
      BY <1>1, <1>3, <2>2
    <3>2. QED  BY <2>2, <3>1 DEF Fresh
  <2>3. QED  BY <1>1, <2>1, <2>2
<1>4. QED  BY <1>2, <1>3

LEMMA InvalidatedFresh ==
  ASSUME IInv, NEW S \in SUBSET Queries, invalidateQueries(S), UNCHANGED on,
         \A q \in Queries \ S : \/ q = "list" /\ ListToCome'
                                \/ told'[q] = told[q] /\ ~(q = "list" /\ ListToCome)
  PROVE  AnswersArePresent' /\ \A q \in Queries \ overlooked' : Fresh(q)'
<1>1. /\ TypeOK /\ AnswersArePresent /\ \A q \in Queries \ overlooked : Fresh(q)
      /\ \A q \in Queries \ overlooked' :
              \/ cache'[q].fetch = "sent"
              \/ q \in S /\ q \notin on /\ cache'[q].fetch = "no" /\ cache'[q].invalid
              \/ q \notin S /\ cache'[q] = cache[q] /\ q \notin overlooked
  BY InvalidateFacts DEF IInv
<1>2. AnswersArePresent'
  <2>1. \A q \in Queries : cache'[q].fetch = "answered" => cache'[q].answer = cache[q].answer /\ cache[q].fetch = "answered"
    <3>1. \A q \in Queries : fetched(cache[q]).fetch = "sent" /\ fetched(cache[q]) \in Query /\ cache[q] \in Query
      BY <1>1, FetchedFacts DEF TypeOK
    <3>2. QED  BY <3>1 DEF invalidateQueries, Query
  <2>2. QED  BY <1>1, <2>1 DEF AnswersArePresent
<1>3. ASSUME NEW q \in Queries \ overlooked' PROVE Fresh(q)'
  <2>1. CASE cache'[q].fetch = "sent"
    BY <2>1 DEF Fresh
  <2>2. CASE q \in S /\ q \notin on /\ cache'[q].fetch = "no" /\ cache'[q].invalid
    BY <2>2 DEF Fresh
  <2>3. CASE q \notin S /\ cache'[q] = cache[q] /\ q \notin overlooked
    BY <1>1, <1>3, <2>3 DEF Fresh
  <2>4. QED  BY <1>1, <1>3, <2>1, <2>2, <2>3
<1>4. QED  BY <1>2, <1>3

-----------------------------------------------------------------------------
(* The server only goes on, and nobody is told more than is true. *)
LEMMA ServerStep ==
  ASSUME IInv, [Next]_vars
  PROVE  /\ server' \in [Queries -> Nat] /\ told' \in [Queries -> Nat] /\ ToldIsTrue'
         /\ server["issue"] <= server'["issue"]
         /\ server["project"] = 1 => server'["project"] = 1
<1>0. /\ server \in [Queries -> Nat] /\ told \in [Queries -> Nat]
      /\ server["list"] = server["issue"] /\ \A q \in Queries : told[q] <= server[q]
      /\ Queries = {"list", "issue", "project"}
  BY DEF IInv, TypeOK, ToldIsTrue, Queries
<1>1. CASE UNCHANGED <<server, told>>
  BY <1>0, <1>1 DEF ToldIsTrue
<1>2. CASE othersWrite
  <2>1. server' = [server EXCEPT !["issue"] = server["issue"] + 1, !["list"] = server["list"] + 1]
        /\ UNCHANGED told
    BY <1>2 DEF othersWrite
  <2>2. QED  BY <1>0, <2>1 DEF ToldIsTrue
<1>3. CASE archiveProject
  <2>1. server' = [server EXCEPT !["project"] = 1] /\ server["project"] = 0 /\ UNCHANGED told
    BY <1>3 DEF archiveProject
  <2>2. QED  BY <1>0, <2>1 DEF ToldIsTrue
<1>4. ASSUME NEW c \in Calls, serverAnswers(c)
      PROVE  /\ server' \in [Queries -> Nat] /\ told' \in [Queries -> Nat] /\ ToldIsTrue'
             /\ server["issue"] <= server'["issue"]
             /\ server["project"] = 1 => server'["project"] = 1
  <2>1. /\ server' \in [Queries -> Nat] /\ server'["list"] = server'["issue"] /\ UNCHANGED told
        /\ server'["project"] = server["project"] /\ \A q \in Queries : server[q] <= server'[q]
    BY <1>4, AnswerFacts
  <2>2. QED  BY <1>0, <2>1 DEF ToldIsTrue
<1>5. ASSUME NEW c \in Calls, settle(c)
      PROVE  /\ server' \in [Queries -> Nat] /\ told' \in [Queries -> Nat] /\ ToldIsTrue'
             /\ server["issue"] <= server'["issue"]
             /\ server["project"] = 1 => server'["project"] = 1
  <2>1. told' \in [Queries -> Nat] /\ (\A q \in Queries : told'[q] <= server[q]) /\ UNCHANGED server
    BY <1>5, SettleFacts
  <2>2. QED  BY <1>0, <2>1 DEF ToldIsTrue
<1>6. \/ UNCHANGED <<server, told>> \/ othersWrite \/ archiveProject
      \/ \E c \in Calls : serverAnswers(c) \/ settle(c)
  <2>1. ASSUME NEW c \in Calls, Sends(c) \/ callFails(c) \/ refreshed(c) PROVE UNCHANGED <<server, told>>
    BY <2>1, MutateFacts, FailFacts, RefreshedFacts DEF Sends
  <2>2. ASSUME NEW q \in Queries, Fetches(q) PROVE UNCHANGED <<server, told>>
    BY <2>2, FetchFacts
  <2>3. CASE render
    BY <2>3, RenderFacts
  <2>4. CASE Looks
    BY <2>4 DEF Looks, retry, focus
  <2>5. CASE Elsewhere
    BY <2>5 DEF Elsewhere, goTo, vars
  <2>6. QED  BY <2>1, <2>2, <2>3, <2>4, <2>5, StepCases
<1>7. QED  BY <1>1, <1>2, <1>3, <1>4, <1>5, <1>6

(* Every mutation stays sound, and the list stays promised. *)
LEMMA CallStep ==
  ASSUME IInv, [Next]_vars
  PROVE  call' \in [Calls -> Call] /\ \A c \in Calls : CallSound(c)'
<1>0. /\ call \in [Calls -> Call] /\ server \in [Queries -> Nat] /\ server' \in [Queries -> Nat]
      /\ \A c \in Calls : CallSound(c) /\ call[c].version \in Nat
      /\ server["issue"] \in Nat /\ server'["issue"] \in Nat /\ server["issue"] <= server'["issue"]
      /\ server["project"] = 1 => server'["project"] = 1
  BY ServerStep DEF IInv, TypeOK, Call, Queries
<1>1. ASSUME NEW d \in Calls, call'[d].at = call[d].at, call'[d].kind = call[d].kind,
             call'[d].seen = call[d].seen, call'[d].expected = call[d].expected,
             call'[d].result = call[d].result, call'[d].version = call[d].version
      PROVE  CallSound(d)'
  BY <1>0, <1>1 DEF CallSound
<1>2. ASSUME NEW c \in Calls, call' = [call EXCEPT ![c] = call'[c]], call'[c] \in Call, CallSound(c)'
      PROVE  call' \in [Calls -> Call] /\ \A d \in Calls : CallSound(d)'
  <2>1. call' \in [Calls -> Call]
    BY <1>0, <1>2
  <2>2. ASSUME NEW d \in Calls, d # c PROVE CallSound(d)'
    <3>1. call'[d] = call[d]
      BY <1>0, <1>2, <2>2
    <3>2. QED  BY <1>1, <3>1
  <2>3. QED  BY <1>2, <2>1, <2>2
<1>3. ASSUME NEW c \in Calls, Sends(c) PROVE call' \in [Calls -> Call] /\ \A d \in Calls : CallSound(d)'
  <2>1. /\ call' = [call EXCEPT ![c] = call'[c]] /\ call'[c] \in Call
        /\ call'[c].at = "sent" /\ call'[c].version = 0
        /\ call'[c].kind # "comment" => call'[c].seen = call'[c].expected
    BY <1>3, MutateFacts DEF Sends
  <2>2. CallSound(c)'
    BY <2>1 DEF CallSound
  <2>3. QED  BY <1>2, <2>1, <2>2
<1>4. ASSUME NEW c \in Calls, serverAnswers(c)
      PROVE  call' \in [Calls -> Call] /\ \A d \in Calls : CallSound(d)'
  <2>1. /\ call' = [call EXCEPT ![c] = call'[c]] /\ call'[c] \in Call
        /\ call'[c].at = "answered" /\ call'[c].version <= server'["issue"]
        /\ call'[c].result = "archived" => server'["project"] = 1 /\ call'[c].version = 0
        /\ call'[c].result # "failed"
    BY <1>4, AnswerFacts
  <2>2. CallSound(c)'
    BY <2>1 DEF CallSound
  <2>3. QED  BY <1>2, <2>1, <2>2
<1>5. ASSUME NEW c \in Calls, callFails(c) PROVE call' \in [Calls -> Call] /\ \A d \in Calls : CallSound(d)'
  <2>1. /\ call' = [call EXCEPT ![c] = call'[c]] /\ call'[c] \in Call
        /\ call'[c].at = "answered" /\ call'[c].result = "failed" /\ call'[c].version = 0
    BY <1>5, FailFacts
  <2>2. CallSound(c)'
    BY <1>0, <2>1 DEF CallSound
  <2>3. QED  BY <1>2, <2>1, <2>2
<1>6. ASSUME NEW c \in Calls, settle(c) \/ refreshed(c)
      PROVE  call' \in [Calls -> Call] /\ \A d \in Calls : CallSound(d)'
  <2>1. /\ call' = [call EXCEPT ![c] = call'[c]] /\ call'[c] \in Call
        /\ call'[c].at \in {"refresh", "idle"}
    BY <1>6, SettleFacts, RefreshedFacts
  <2>2. CallSound(c)'
    BY <2>1 DEF CallSound
  <2>3. QED  BY <1>2, <2>1, <2>2
<1>7. CASE render
  BY <1>1, <1>7, RenderFacts
<1>8. CASE UNCHANGED call
  BY <1>0, <1>1, <1>8
<1>9. \/ render \/ UNCHANGED call
      \/ \E c \in Calls : Sends(c) \/ serverAnswers(c) \/ callFails(c) \/ settle(c) \/ refreshed(c)
  <2>1. ASSUME NEW q \in Queries, Fetches(q) PROVE UNCHANGED call
    BY <2>1, FetchFacts
  <2>2. CASE Looks
    BY <2>2 DEF Looks, retry, focus
  <2>3. CASE Elsewhere
    BY <2>3 DEF Elsewhere, goTo, othersWrite, archiveProject, vars
  <2>4. QED  BY <2>1, <2>2, <2>3, StepCases
<1>10. QED  BY <1>3, <1>4, <1>5, <1>6, <1>7, <1>8, <1>9

(* What only a step of another kind changes. *)
LEMMA StillFresh ==
  ASSUME IInv, UNCHANGED <<cache, on, told, overlooked>>, ListToCome => ListToCome'
  PROVE  /\ cache' \in [Queries -> Query] /\ overlooked' \subseteq Queries
         /\ AnswersArePresent' /\ \A q \in Queries \ overlooked' : Fresh(q)'
BY DEF IInv, TypeOK, AnswersArePresent, Fresh

LEMMA FreshStep ==
  ASSUME IInv, [Next]_vars
  PROVE  /\ cache' \in [Queries -> Query] /\ overlooked' \subseteq Queries
         /\ AnswersArePresent' /\ \A q \in Queries \ overlooked' : Fresh(q)'
<1>0. TypeOK /\ call \in [Calls -> Call]
  BY DEF IInv, TypeOK
<1>1. ASSUME NEW c \in Calls, call' = [call EXCEPT ![c] = call'[c]], call[c].at # "refresh", ListToCome
      PROVE  ListToCome'
  <2>1. PICK d \in Calls : call[d].at = "refresh" /\ call[d].kind # "comment" /\ call[d].result # "archived"
    BY <1>1 DEF ListToCome
  <2>2. call'[d] = call[d]
    BY <1>0, <1>1, <2>1
  <2>3. QED  BY <2>1, <2>2 DEF ListToCome
<1>2. ASSUME NEW c \in Calls, Sends(c) \/ serverAnswers(c) \/ callFails(c)
      PROVE  UNCHANGED <<cache, on, told, overlooked>> /\ (ListToCome => ListToCome')
  <2>1. /\ UNCHANGED <<cache, client, told, overlooked>>
        /\ call' = [call EXCEPT ![c] = call'[c]] /\ call[c].at # "refresh"
    BY <1>2, MutateFacts, AnswerFacts, FailFacts DEF Sends
  <2>2. QED  BY <1>1, <2>1 DEF client
<1>3. CASE Elsewhere
  <2>1. UNCHANGED <<cache, on, told, overlooked, call>>
    BY <1>3 DEF Elsewhere, goTo, othersWrite, archiveProject, client, vars
  <2>2. QED  BY <2>1, StillFresh DEF ListToCome
<1>4. CASE Looks
  <2>1. PICK S \in SUBSET Queries : fetchAll(S)
    <3>1. \A q \in Queries : {q} \in SUBSET Queries
      OBVIOUS
    <3>2. on \subseteq Queries
      BY <1>0 DEF TypeOK
    <3>3. CASE retry
      BY <3>2, <3>3 DEF retry
    <3>4. CASE \E q \in Queries : focus(q)
      BY <3>1, <3>4 DEF focus
    <3>5. QED  BY <1>4, <3>3, <3>4 DEF Looks
  <2>2. UNCHANGED <<call, told, on>>
    BY <1>4 DEF Looks, retry, focus, client
  <2>3. AnswersArePresent' /\ \A q \in Queries \ overlooked' : Fresh(q)'
    BY <2>1, <2>2, FetchAllFresh DEF ListToCome
  <2>4. QED  BY <1>0, <2>1, <2>3, FetchAllFacts
<1>5. CASE render
  <2>1. PICK S \in SUBSET Queries :
          fetchAll(S) /\ \A q \in on' \ on : cache[q].invalid \/ ~hasData(q) => q \in S
    BY <1>5, RenderFacts
  <2>2. ListToCome <=> ListToCome'
    BY <1>5, RenderFacts DEF ListToCome
  <2>3. UNCHANGED told
    BY <1>5, RenderFacts
  <2>4. AnswersArePresent' /\ \A q \in Queries \ overlooked' : Fresh(q)'
    BY <2>1, <2>2, <2>3, FetchAllFresh
  <2>5. QED  BY <1>0, <2>1, <2>4, FetchAllFacts
<1>6. ASSUME NEW c \in Calls, settle(c)
      PROVE  /\ cache' \in [Queries -> Query] /\ overlooked' \subseteq Queries
             /\ AnswersArePresent' /\ \A q \in Queries \ overlooked' : Fresh(q)'
  <2>1. PICK S \in SUBSET Queries :
          /\ invalidateQueries(S)
          /\ \A q \in Queries : told'[q] = told[q] \/ q \in S \/ (q = "list" /\ ListToCome')
    BY <1>6, SettleFacts
  <2>2. UNCHANGED on /\ (ListToCome => ListToCome')
    BY <1>1, <1>6, SettleFacts DEF client
  <2>3. AnswersArePresent' /\ \A q \in Queries \ overlooked' : Fresh(q)'
    BY <2>1, <2>2, InvalidatedFresh
  <2>4. QED  BY <1>0, <2>1, <2>3, InvalidateFacts
<1>7. ASSUME NEW c \in Calls, refreshed(c)
      PROVE  /\ cache' \in [Queries -> Query] /\ overlooked' \subseteq Queries
             /\ AnswersArePresent' /\ \A q \in Queries \ overlooked' : Fresh(q)'
  <2>1. PICK S \in SUBSET Queries : invalidateQueries(S) /\ (ListToCome => ListToCome' \/ "list" \in S)
    BY <1>7, RefreshedFacts
  <2>2. UNCHANGED <<on, told>>
    BY <1>7, RefreshedFacts DEF client
  <2>3. AnswersArePresent' /\ \A q \in Queries \ overlooked' : Fresh(q)'
    BY <2>1, <2>2, InvalidatedFresh
  <2>4. QED  BY <1>0, <2>1, <2>3, InvalidateFacts
<1>8. ASSUME NEW q \in Queries, Fetches(q)
      PROVE  /\ cache' \in [Queries -> Query] /\ overlooked' \subseteq Queries
             /\ AnswersArePresent' /\ \A p \in Queries \ overlooked' : Fresh(p)'
  BY <1>0, <1>8, FetchFacts DEF TypeOK
<1>9. QED  BY <1>2, <1>3, <1>4, <1>5, <1>6, <1>7, <1>8, StillFresh, StepCases

(* The form is rendered with the issue, keyed by its version. *)
LEMMA ClientStep ==
  ASSUME IInv, [Next]_vars
  PROVE  /\ page' \in {"board", "issue"} /\ on' \subseteq Queries
         /\ view' \in [Queries -> Maybe(Nat)] /\ form' \in Maybe(Nat) /\ form' = view'["issue"]
         /\ actions' \in Nat /\ failures' \in Nat
<1>0. /\ page \in {"board", "issue"} /\ on \subseteq Queries /\ view \in [Queries -> Maybe(Nat)]
      /\ form \in Maybe(Nat) /\ form = view["issue"] /\ actions \in Nat /\ failures \in Nat
  BY DEF IInv, TypeOK
<1> DEFINE Typed == /\ page' \in {"board", "issue"} /\ on' \subseteq Queries
                    /\ view' \in [Queries -> Maybe(Nat)] /\ form' \in Maybe(Nat) /\ form' = view'["issue"]
                    /\ actions' \in Nat /\ failures' \in Nat
<1>1. ASSUME render PROVE Typed
  <2>1. /\ view' \in [Queries -> Maybe(Nat)] /\ form' = view'["issue"] /\ on' = observed
        /\ UNCHANGED <<page, bounds>>
    BY <1>1, RenderFacts
  <2>2. observed \subseteq Queries /\ "issue" \in Queries
    BY DEF observed, Queries
  <2>3. QED  BY <1>0, <2>1, <2>2 DEF bounds
<1>2. ASSUME \E p \in {"board", "issue"} : goTo(p) PROVE Typed
  BY <1>0, <1>2 DEF goTo
<1>3. ASSUME UNCHANGED <<page, on, view, form>>, actions' \in Nat, failures' \in Nat PROVE Typed
  BY <1>0, <1>3
<1>4. ASSUME NEW c \in Calls, Sends(c) \/ serverAnswers(c) \/ callFails(c) \/ settle(c) \/ refreshed(c)
      PROVE  Typed
  <2>1. UNCHANGED <<page, on, view, form>> /\ actions' \in Nat /\ failures' \in Nat
    <3>1. CASE Sends(c) \/ callFails(c)
      BY <1>0, <3>1, MutateFacts, FailFacts DEF Sends, client
    <3>2. CASE serverAnswers(c) \/ settle(c) \/ refreshed(c)
      BY <1>0, <3>2, AnswerFacts, SettleFacts, RefreshedFacts DEF bounds, client
    <3>3. QED  BY <1>4, <3>1, <3>2
  <2>2. QED  BY <1>3, <2>1
<1>5. ASSUME NEW q \in Queries, Fetches(q) PROVE Typed
  <2>1. UNCHANGED <<page, on, view, form>> /\ actions' \in Nat /\ failures' \in Nat
    <3>1. UNCHANGED client /\ UNCHANGED actions /\ failures' \in Nat
      BY <1>5, FetchFacts
    <3>2. QED  BY <1>0, <3>1 DEF client
  <2>2. QED  BY <1>3, <2>1
<1>6. ASSUME Looks PROVE Typed
  <2>1. UNCHANGED <<page, on, view, form>> /\ actions' \in Nat /\ failures' \in Nat
    <3>1. UNCHANGED client /\ actions' = actions + 1 /\ UNCHANGED failures
      BY <1>6 DEF Looks, retry, focus
    <3>2. QED  BY <1>0, <3>1 DEF client
  <2>2. QED  BY <1>3, <2>1
<1>7. ASSUME othersWrite \/ archiveProject \/ UNCHANGED vars PROVE Typed
  <2>1. UNCHANGED <<page, on, view, form>> /\ actions' \in Nat /\ failures' \in Nat
    <3>1. CASE othersWrite \/ archiveProject
      BY <1>0, <3>1 DEF othersWrite, archiveProject, client, bounds
    <3>2. CASE UNCHANGED vars
      BY <1>0, <3>2 DEF vars
    <3>3. QED  BY <1>7, <3>1, <3>2
  <2>2. QED  BY <1>3, <2>1
<1>8. ASSUME Elsewhere PROVE Typed
  BY <1>2, <1>7, <1>8 DEF Elsewhere
<1> HIDE DEF Typed
<1>9. Typed
  BY <1>1, <1>4, <1>5, <1>6, <1>8, StepCases
<1>10. QED  BY <1>9 DEF Typed

-----------------------------------------------------------------------------
LEMMA InitIInv == Init => IInv
<1> SUFFICES ASSUME Init PROVE IInv
  OBVIOUS
<1>1. /\ NoQuery \in Query /\ NoQuery.fetch = "no" /\ NoQuery.data = None
      /\ NoCall \in Call /\ NoCall.at = "idle" /\ Queries = {"list", "issue", "project"}
  BY DEF NoQuery, Query, Maybe, NoCall, Call, Kinds, Queries
<1>2. TypeOK
  BY <1>1 DEF Init, TypeOK, Maybe
<1>3. form = view["issue"] /\ ToldIsTrue
  BY <1>1 DEF Init, ToldIsTrue
<1>4. (\A c \in Calls : CallSound(c)) /\ AnswersArePresent /\ \A q \in Queries : Fresh(q)
  BY <1>1 DEF Init, CallSound, AnswersArePresent, Fresh
<1>5. QED  BY <1>2, <1>3, <1>4 DEF IInv

LEMMA NextIInv == IInv /\ [Next]_vars => IInv'
<1> SUFFICES ASSUME IInv, [Next]_vars PROVE IInv'
  OBVIOUS
<1>1. TypeOK'
  BY ServerStep, CallStep, FreshStep, ClientStep DEF TypeOK
<1>2. QED  BY <1>1, ServerStep, CallStep, FreshStep, ClientStep DEF IInv

(* What holds in every state of the client, the cache and the calls.       *)
THEOREM Invariance == Spec => []IInv
<1>1. QED  BY InitIInv, NextIInv, PTL DEF Spec

(* Every variable has its type. *)
THEOREM TypeCorrect == Spec => []TypeOK
<1>1. IInv => TypeOK
  BY DEF IInv
<1>2. QED  BY <1>1, Invariance, PTL

(* A move, an edit or an assignment that the server accepts replaces the   *)
(* version the user saw: the form is keyed by the version it was rendered  *)
(* with, and that version is the one the write names.                      *)
THEOREM NothingOverwrittenUnseen == Spec => ReplacesWhatWasSeen
<1> DEFINE Replaces == \A c \in Calls :
       /\ call[c].at = "sent" /\ call[c].kind # "comment"
       /\ call'[c].at = "answered" /\ call'[c].result = "ok"
       => call[c].seen = server["issue"]
<1>1. ASSUME IInv, [Next]_vars PROVE Replaces
  <2> SUFFICES ASSUME NEW c \in Calls, call[c].at = "sent", call[c].kind # "comment",
                      call'[c].at = "answered", call'[c].result = "ok"
               PROVE  call[c].seen = server["issue"]
    OBVIOUS
  <2>0. call[c].seen = call[c].expected /\ call \in [Calls -> Call]
    BY <1>1 DEF IInv, TypeOK, CallSound
  <2>1. ASSUME NEW d \in Calls, call' = [call EXCEPT ![d] = call'[d]], d # c PROVE FALSE
    <3>1. call'[c] = call[c]
      BY <2>0, <2>1
    <3>2. QED  BY <3>1
  <2>2. ASSUME NEW d \in Calls, Sends(d) PROVE FALSE
    BY <1>1, <2>1, <2>2, MutateFacts DEF Sends
  <2>3. ASSUME NEW d \in Calls, callFails(d) PROVE FALSE
    BY <1>1, <2>1, <2>3, FailFacts
  <2>4. ASSUME NEW d \in Calls, settle(d) \/ refreshed(d) PROVE FALSE
    BY <1>1, <2>1, <2>4, SettleFacts, RefreshedFacts
  <2>5. ASSUME NEW d \in Calls, serverAnswers(d) PROVE call[c].seen = server["issue"]
    BY <1>1, <2>0, <2>1, <2>5, AnswerFacts
  <2>6. ~render
    BY <1>1, RenderFacts
  <2>7. ASSUME NEW q \in Queries, Fetches(q) PROVE FALSE
    BY <1>1, <2>7, FetchFacts
  <2>8. ~Looks
    BY DEF Looks, retry, focus
  <2>9. ~Elsewhere
    BY DEF Elsewhere, goTo, othersWrite, archiveProject, vars
  <2>10. QED  BY <1>1, <2>2, <2>3, <2>4, <2>5, <2>6, <2>7, <2>8, <2>9, StepCases
<1>2. IInv /\ [Next]_vars => [Replaces]_vars
  BY <1>1
<1>3. QED  BY <1>2, Invariance, PTL DEF Spec, ReplacesWhatWasSeen

(* What an answer told the client shows once nothing is being loaded.      *)
THEOREM AnswersShow == Spec => []ShowsWhatItWasTold
<1>1. IInv => ShowsWhatItWasTold
  <2> SUFFICES ASSUME IInv, NEW q \in on \ overlooked, view[q] # None, view[q] = shown(q),
                      cache[q].fetch = "no", ~cache[q].error, ~Refreshing
               PROVE  view[q] >= told[q]
    BY DEF ShowsWhatItWasTold
  <2>1. q \in Queries /\ Fresh(q) /\ ~ListToCome
    BY DEF IInv, TypeOK, Refreshing, ListToCome
  <2>2. view[q] = cache[q].data
    BY DEF shown
  <2>3. QED  BY <2>1, <2>2 DEF Fresh
<1>2. QED  BY <1>1, Invariance, PTL
=============================================================================
