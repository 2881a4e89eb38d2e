------------------------------ MODULE Sessions ------------------------------
(***************************************************************************)
(* Sessions end to end: the tabs of one browser (auth store, interceptors, *)
(* one cookie jar and one localStorage for all of them), the gateway that  *)
(* turns refresh tokens into cookies, and the use cases of the IAM service *)
(* over iam_db.  A call is one HTTP request; IAM works on it in several    *)
(* transactions, and the browser's answer may come before IAM has          *)
(* finished (the gateway gives up after 3 s) or not at all.                *)
(*                                                                         *)
(* An access token is only known by its user: when it runs out the next    *)
(* API request of the tab gets a 401, at any time the tab is signed in.    *)
(***************************************************************************)
EXTENDS Naturals, FiniteSets

CONSTANTS
  Users, Tabs,
  Tokens,     \* the refresh tokens generateRefreshToken may draw
  Calls,      \* call slots: how many requests are under way at once
  None

ASSUME SessionsAssumption == None \notin Users \cup Tabs \cup Tokens

VARIABLES
  token,      \* refresh_tokens, and for each token the login its session goes back to
  blocked,    \* the users whose status is BLOCKED
  cookie,     \* the browser's refresh_token cookie
  stored,     \* whose session is in localStorage
  tab,        \* whose session is in each tab's store
  call,       \* the request in each slot
  late,       \* history: the calls past the check of a user who was blocked then
  smooth      \* history: one tab in use, no logout crossed a refresh, nothing has failed so far

vars == <<token, blocked, cookie, stored, tab, call, late, smooth>>
browser == <<cookie, stored, tab>>

Token == [user : Users \cup {None}, login : Tokens \cup {None}, expired : BOOLEAN,
          state : {"free", "active", "revoked", "deleted"}]
Free == [user |-> None, login |-> None, expired |-> FALSE, state |-> "free"]

canBeUsed(k) == token[k].state = "active" /\ ~token[k].expired

Steps == {"idle", "find", "user", "write", "reply"}

(* tab: who waits for the answer; sent: the cookie the request carried;    *)
(* user: whom it is for; answer: the new token.                            *)
Call == [at : Steps, op : {"login", "refresh", "logout"}, tab : Tabs \cup {None},
         sent : Tokens \cup {None}, user : Users \cup {None},
         answer : Tokens \cup {None}]
Idle == [at |-> "idle", op |-> "login", tab |-> None, sent |-> None, user |-> None, answer |-> None]

Init ==
  /\ token = [k \in Tokens |-> Free]
  /\ blocked = {}
  /\ cookie = None /\ stored = None
  /\ tab = [t \in Tabs |-> None]
  /\ call = [c \in Calls |-> Idle]
  /\ late = {}
  /\ smooth = TRUE

callsOf(t) == {c \in Calls : call[c].tab = t}

(* No other tab is signed in or waits for an answer. *)
alone(t) == \A s \in Tabs \ {t} : tab[s] = None /\ callsOf(s) = {}

-----------------------------------------------------------------------------
refreshing(t) == \E c \in callsOf(t) : call[c].op = "refresh"
leaving(t) == \E c \in callsOf(t) : call[c].op = "logout"
signing(t) == \E c \in callsOf(t) : call[c].op # "refresh"

crosses(t, op) == (op = "logout" /\ refreshing(t)) \/ (op = "refresh" /\ leaving(t))

(* The browser sends. *)
send(c, t, op, u) ==
  /\ call[c].at = "idle"
  /\ call' = [call EXCEPT ![c] = [Idle EXCEPT !.at = IF op = "login" THEN "user" ELSE "find",
                                  !.op = op, !.tab = t, !.user = u,
                                  !.sent = IF op = "login" THEN None ELSE cookie]]
  /\ smooth' = (smooth /\ alone(t) /\ ~crosses(t, op))
  /\ UNCHANGED <<token, blocked, browser, late>>

(* The login form is for a tab that is not signed in. *)
login(c, t, u) == tab[t] = None /\ ~signing(t) /\ send(c, t, "login", u)

logout(c, t) == tab[t] # None /\ ~signing(t) /\ send(c, t, "logout", None)

refreshPromise_Always(t) == TRUE     \* fault: each 401 starts a refresh of its own

(* refreshPromise: the 401s of one tab share one refresh. *)
refreshPromise(t) == ~refreshing(t)

(* A 401 while the tab is signed in. *)
refreshSession(c, t) == tab[t] # None /\ refreshPromise(t) /\ send(c, t, "refresh", None)

-----------------------------------------------------------------------------
(* IAM works. *)
Proceed(c, q) ==
  /\ call' = [call EXCEPT ![c] = IF q.at = "reply" /\ q.tab = None THEN Idle ELSE q]
  /\ late' = IF q.at = "reply" THEN late \ {c} ELSE late
  /\ UNCHANGED <<blocked, browser, smooth>>

(* A refresh wants a usable token, a logout any. *)
found(q) ==
  /\ q.sent # None
  /\ IF q.op = "refresh" THEN canBeUsed(q.sent) ELSE token[q.sent].state # "deleted"

findByTokenHash(c) ==
  LET q == call[c]
  IN  /\ q.at = "find" /\ found(q)
      /\ Proceed(c, [q EXCEPT !.at = IF q.op = "refresh" THEN "user" ELSE "write",
                              !.user = token[q.sent].user])
      /\ UNCHANGED token

allowed_LoginOnly(q) == q.op = "login" => q.user \notin blocked    \* fault: a refresh ignores the block

allowed(q) == q.user \notin blocked

(* Load the user: a blocked one neither logs in nor refreshes. *)
findUser(c) ==
  /\ call[c].at = "user"
  /\ allowed(call[c])
  /\ Proceed(c, [call[c] EXCEPT !.at = "write"])
  /\ UNCHANGED token

(* LoginUseCase saves a token that starts a session of its own. *)
saveToken(c, k) ==
  LET q == call[c]
  IN  /\ q.at = "write" /\ q.op = "login" /\ token[k].state = "free"
      /\ token' = [token EXCEPT ![k] = [user |-> q.user, login |-> k, expired |-> FALSE, state |-> "active"]]
      /\ Proceed(c, [q EXCEPT !.at = "reply", !.answer = k])

revokeActiveById_Any(k) == token[k].state # "deleted"     \* fault: no "and token.revoked = false"

(* Whether the UPDATE finds the row; it does not ask when it expires. *)
revokeActiveById(k) == token[k].state = "active"

(* One transaction: revoke, and insert the replacement. *)
rotate(c, k) ==
  LET q == call[c]
  IN  /\ q.at = "write" /\ q.op = "refresh"
      /\ revokeActiveById(q.sent) /\ token[k].state = "free"
      /\ token' = [token EXCEPT ![q.sent].state = "revoked",
                                ![k] = [user |-> q.user, login |-> token[q.sent].login,
                                        expired |-> FALSE, state |-> "active"]]
      /\ Proceed(c, [q EXCEPT !.at = "reply", !.answer = k])

revokeIfActive(c) ==
  LET q == call[c]
  IN  /\ q.at = "write" /\ q.op = "logout"
      /\ token' = [token EXCEPT ![q.sent].state = IF revokeActiveById(q.sent) THEN "revoked" ELSE @]
      /\ Proceed(c, [q EXCEPT !.at = "reply", !.user = None])

(* A wrong password, a blocked user, a refresh without a usable token, the *)
(* loser of two rotations; and a logout without a token, which is no       *)
(* error: the reply carries no session.                                    *)
refused(c) ==
  LET q == call[c]
  IN  /\ \/ q.at = "find" /\ ~found(q)
         \/ q.at = "user" /\ (q.op = "login" \/ ~allowed(q))
         \/ q.at = "write" /\ q.op = "refresh" /\ ~revokeActiveById(q.sent)
      /\ Proceed(c, [q EXCEPT !.at = "reply", !.user = None])
      /\ UNCHANGED token

-----------------------------------------------------------------------------
(* The browser receives: how its cookie jar, the store of the tab and      *)
(* localStorage follow.                                                    *)
setSession(t, u) == tab' = [tab EXCEPT ![t] = u] /\ stored' = u
clearSession_Stored(t) == tab' = [tab EXCEPT ![t] = None] /\ stored' = "undefined"   \* fault: the key stays
clearSession(t) == tab' = [tab EXCEPT ![t] = None] /\ stored' = None

(* Login and refresh answer with a session. *)
receiveSession(c) ==
  LET q == call[c]
  IN  /\ q.at = "reply" /\ q.tab # None /\ q.answer # None
      /\ cookie' = q.answer
      /\ setSession(q.tab, q.user)
      /\ call' = [call EXCEPT ![c] = Idle]
      /\ UNCHANGED <<token, blocked, late, smooth>>

(* What a refused request and an answered logout leave in the tab.  A      *)
(* login refused with a 401 clears the session of a tab that has none, and *)
(* so localStorage, which other tabs share; one refused with a 403 (the    *)
(* user is blocked) clears nothing.                                        *)
settle(q) ==
  IF q.op # "login" THEN clearSession(q.tab)
  ELSE tab' = tab /\ stored' \in (IF tab[q.tab] = None THEN {stored, None} ELSE {stored})

keepsCookie(q) == q.op = "login" \/ (q.op = "refresh" /\ q.sent = None)

(* A logout, or an error of IAM: the gateway clears the cookie, whichever  *)
(* token it holds by now, except when a login failed or none was sent.     *)
receiveNone(c) ==
  LET q == call[c]
  IN  /\ q.at = "reply" /\ q.tab # None /\ q.answer = None
      /\ cookie' = IF keepsCookie(q) THEN cookie ELSE None
      /\ settle(q)
      /\ call' = [call EXCEPT ![c] = Idle]
      /\ UNCHANGED <<token, blocked, late, smooth>>

(* Nobody waits for the call any longer; IAM may still work on it. *)
unheard(q) == IF q.at = "reply" THEN Idle ELSE [q EXCEPT !.tab = None]

(* The gateway counts too many logins or refreshes and answers 429 without *)
(* asking IAM: the cookie is kept, but a tab whose refresh failed is       *)
(* signed out.                                                             *)
rateLimited(c) ==
  LET q == call[c]
  IN  /\ q.tab # None
      /\ \/ q.op = "login" /\ q.at = "user" /\ UNCHANGED <<tab, stored>>
         \/ q.op = "refresh" /\ q.at = "find" /\ q.sent # None /\ clearSession(q.tab)
      /\ call' = [call EXCEPT ![c] = Idle]
      /\ smooth' = FALSE
      /\ UNCHANGED <<token, blocked, cookie, late>>

(* The gateway has waited long enough for IAM, or IAM has failed; or the   *)
(* answer is lost between browser and gateway, and its cookie with it.     *)
callFails(c) ==
  LET q == call[c]
  IN  /\ q.tab # None
      /\ cookie' \in {cookie} \cup (IF keepsCookie(q) THEN {} ELSE {None})
      /\ IF q.op = "login" THEN UNCHANGED <<tab, stored>> ELSE clearSession(q.tab)
      /\ call' = [call EXCEPT ![c] = unheard(q)]
      /\ smooth' = FALSE
      /\ UNCHANGED <<token, blocked, late>>

(* A page load drops the tab's requests; hydrate reads localStorage. *)
hydrate(t) ==
  /\ tab' = [tab EXCEPT ![t] = stored]
  /\ call' = [c \in Calls |-> IF c \in callsOf(t) THEN unheard(call[c]) ELSE call[c]]
  /\ smooth' = (smooth /\ alone(t) /\ callsOf(t) = {})
  /\ UNCHANGED <<token, blocked, cookie, stored, late>>

-----------------------------------------------------------------------------
(* Time and operators. *)
expire(k) ==
  /\ token[k].state = "active" /\ ~token[k].expired
  /\ token' = [token EXCEPT ![k].expired = TRUE]
  /\ smooth' = FALSE
  /\ UNCHANGED <<blocked, browser, call, late>>

deleteUnusableTokens ==
  /\ token' = [k \in Tokens |-> IF token[k].state = "revoked" \/ token[k].expired
                                THEN [Free EXCEPT !.state = "deleted", !.login = token[k].login]
                                ELSE token[k]]
  /\ UNCHANGED <<blocked, browser, call, late, smooth>>

block(u) ==
  /\ u \notin blocked
  /\ blocked' = blocked \cup {u}
  /\ late' = late \cup {c \in Calls : call[c].user = u /\ call[c].op # "logout" /\ call[c].at = "write"}
  /\ smooth' = FALSE
  /\ UNCHANGED <<token, browser, call>>

Sends(c) ==
  \E t \in Tabs : (\E u \in Users : login(c, t, u)) \/ logout(c, t) \/ refreshSession(c, t)

Works(c) ==
  \/ findByTokenHash(c) \/ findUser(c) \/ revokeIfActive(c) \/ refused(c)
  \/ \E k \in Tokens : saveToken(c, k) \/ rotate(c, k)

Receives(c) == receiveSession(c) \/ receiveNone(c) \/ rateLimited(c) \/ callFails(c)

Next ==
  \/ \E c \in Calls : Sends(c) \/ Works(c) \/ Receives(c)
  \/ \E t \in Tabs : hydrate(t)
  \/ \E k \in Tokens : expire(k)
  \/ deleteUnusableTokens
  \/ \E u \in Users : block(u)

Spec == Init /\ [][Next]_vars

-----------------------------------------------------------------------------
(* Every variable has its type. *)
TypeOK ==
  /\ token \in [Tokens -> Token]
  /\ blocked \subseteq Users
  /\ cookie \in Tokens \cup {None}
  /\ stored \in Users \cup {None}
  /\ tab \in [Tabs -> Users \cup {None}]
  /\ call \in [Calls -> Call]
  /\ late \subseteq Calls
  /\ smooth \in BOOLEAN

(* However refreshes, logouts and the clean-up interleave, a login never   *)
(* has two live refresh tokens: a token is exchanged once, and using it    *)
(* again fails (docs/flows/authentication.md, Edge Cases).                 *)
OneLivePerLogin ==
  \A k, m \in Tokens :
    token[k].state = "active" /\ token[m].state = "active" /\ token[k].login = token[m].login => k = m

(* Blocked users cannot log in or refresh (BR-AUTH-002): only a call whose *)
(* user was blocked between the check and the write can still get a token. *)
BlockedStayOut ==
  \A c \in Calls : call[c].at = "write" /\ call[c].op # "logout" /\ call[c].user \in blocked => c \in late

(* The 401s of one tab never sign it out: while one tab is in use and      *)
(* nothing fails, a tab is signed out by the answer to its logout only.    *)
SessionSurvives ==
  [][smooth' => \A t \in Tabs : tab[t] # None /\ tab'[t] = None =>
       \E c \in callsOf(t) : call[c].op = "logout" /\ receiveNone(c)]_vars

(* A session is one user's for good: the live token of a login that has    *)
(* begun goes back to a live one of the same user.  A session ended by a   *)
(* logout or the clean-up never comes back, whichever calls still carry    *)
(* its tokens, and no rotation hands it to another user, although          *)
(* RefreshSessionUseCase writes the user it read in another transaction.   *)
SessionForLife ==
  [][\A l, m \in Tokens :
       token[l].state # "free" /\ token'[m].state = "active" /\ token'[m].login = l =>
         \E k \in Tokens : token[k].state = "active" /\ token[k].login = l /\ token[k].user = token'[m].user]_vars
=============================================================================
