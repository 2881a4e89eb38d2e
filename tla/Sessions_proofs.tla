-------------------------- MODULE Sessions_proofs ---------------------------
(***************************************************************************)
(* For any number of users, tabs, tokens and calls: rotation leaves one    *)
(* live refresh token for each login, a block holds for every call that    *)
(* had not passed its check, and a single tab keeps its session.           *)
(***************************************************************************)
EXTENDS Sessions, TLAPS

busy(c) == call[c].at # "idle"
Usable(k) == k \in Tokens /\ canBeUsed(k)

(* A live token belongs to a user, and to the session of a login whose own *)
(* token has been drawn, so that no later login begins the same session.   *)
TokensSound ==
  \A k \in Tokens : token[k].state = "active" =>
    /\ token[k].user \in Users
    /\ token[k].login \in Tokens /\ token[token[k].login].state # "free"

(* What IAM knows of the call it works on. *)
CallSound(q) ==
  /\ q.at = "find" => q.op # "login"
  /\ q.at \in {"find", "user", "write"} => q.answer = None
  /\ q.op # "login" /\ q.at \in {"user", "write"} => q.sent \in Tokens
  /\ q.op # "logout" /\ q.at \in {"user", "write"} => q.user \in Users

CallsSound == \A c \in Calls : CallSound(call[c])

(* While all goes smoothly, the call under way is its tab's only one; a    *)
(* refresh holds a usable token, and brings back another.                  *)
SmoothCall(q) ==
  /\ q.tab \in Tabs /\ \A s \in Tabs \ {q.tab} : tab[s] = None
  /\ (q.op = "login") = (tab[q.tab] = None)
  /\ q.op = "refresh" => IF q.at = "reply" THEN q.answer # None ELSE Usable(q.sent)
  /\ q.op = "logout" => q.answer = None
  /\ q.answer # None => Usable(q.answer) /\ q.user \in Users

(* Nothing has been blocked or expired; one call at most is under way; the *)
(* one tab that is signed in agrees with localStorage, and unless a call   *)
(* is about to replace it, the cookie holds a usable token.                *)
SmoothSound ==
  smooth =>
    /\ blocked = {} /\ \A k \in Tokens : ~token[k].expired
    /\ \A c, d \in Calls : busy(c) /\ busy(d) => c = d
    /\ \A c \in Calls : busy(c) => SmoothCall(call[c])
    /\ \A t \in Tabs : tab[t] \in {stored, None}
    /\ stored # None => \E t \in Tabs : tab[t] = stored
    /\ \A s, t \in Tabs : tab[s] # None /\ tab[t] # None => s = t
    /\ stored # None /\ (\A c \in Calls : ~busy(c)) => Usable(cookie)

IInv ==
  /\ TypeOK
  /\ TokensSound /\ CallsSound
  /\ OneLivePerLogin
  /\ BlockedStayOut
  /\ SmoothSound

-----------------------------------------------------------------------------
LEMMA IdleType == Idle \in Call /\ Free \in Token
BY DEF Idle, Call, Steps, Free, Token

THEOREM InitSound == Init => IInv
<1> SUFFICES ASSUME Init PROVE IInv
  OBVIOUS
<1>1. /\ \A k \in Tokens : token[k].state = "free" /\ ~token[k].expired
      /\ \A c \in Calls : call[c].at = "idle"
  BY DEF Init, Free, Idle
<1>2. TypeOK
  BY IdleType DEF Init, TypeOK
<1>3. QED
  BY <1>1, <1>2 DEF Init, IInv, TokensSound, CallsSound, CallSound, OneLivePerLogin, BlockedStayOut,
       SmoothSound, busy

LEMMA ProceedType ==
  ASSUME TypeOK, NEW c \in Calls, NEW q \in Call, Proceed(c, q), token' \in [Tokens -> Token]
  PROVE  TypeOK'
<1>1. call' \in [Calls -> Call]
  BY IdleType DEF Proceed, TypeOK
<1>2. late' \subseteq Calls
  BY DEF Proceed, TypeOK
<1>3. QED  BY <1>1, <1>2 DEF Proceed, browser, TypeOK

LEMMA TypeStep ==
  ASSUME IInv, [Next]_vars
  PROVE  TypeOK'
<1> USE DEF IInv, TypeOK
<1>1. ASSUME NEW c \in Calls, NEW t \in Tabs, NEW op \in {"login", "refresh", "logout"},
             NEW u \in Users \cup {None}, send(c, t, op, u)
      PROVE  TypeOK'
  <2>1. [Idle EXCEPT !.at = IF op = "login" THEN "user" ELSE "find", !.op = op, !.tab = t, !.user = u,
                     !.sent = IF op = "login" THEN None ELSE cookie] \in Call
    BY IdleType DEF Call, Steps
  <2>2. smooth' \in BOOLEAN
    BY <1>1 DEF send
  <2>3. QED  BY <1>1, <2>1, <2>2 DEF send, browser
<1>2. ASSUME NEW c \in Calls, Sends(c) PROVE TypeOK'
  BY <1>1, <1>2 DEF Sends, login, logout, refreshSession
<1>3. ASSUME NEW c \in Calls, findByTokenHash(c) \/ findUser(c) PROVE TypeOK'
  <2>1. PICK q \in Call : Proceed(c, q) /\ UNCHANGED token
    <3>1. CASE findByTokenHash(c)
      <4>1. call[c].at = "find" /\ call[c] \in Call /\ call[c].sent \in Tokens
        BY <3>1 DEF findByTokenHash, found, Call
      <4>2. token[call[c].sent].user \in Users \cup {None}
        BY <4>1 DEF Token
      <4>3. [call[c] EXCEPT !.at = IF call[c].op = "refresh" THEN "user" ELSE "write",
                            !.user = token[call[c].sent].user] \in Call
        BY <4>1, <4>2 DEF Call, Steps
      <4>4. QED  BY <3>1, <4>3 DEF findByTokenHash
    <3>2. CASE findUser(c)
      <4>1. [call[c] EXCEPT !.at = "write"] \in Call
        BY DEF Call, Steps
      <4>2. QED  BY <3>2, <4>1 DEF findUser
    <3>3. QED  BY <1>3, <3>1, <3>2
  <2>2. QED  BY <2>1, ProceedType
<1>4. ASSUME NEW c \in Calls, NEW k \in Tokens, saveToken(c, k) PROVE TypeOK'
  <2>1. call[c] \in Call /\ [call[c] EXCEPT !.at = "reply", !.answer = k] \in Call
    BY DEF Call, Steps
  <2>2. [user |-> call[c].user, login |-> k, expired |-> FALSE, state |-> "active"] \in Token
    BY <2>1 DEF Call, Token
  <2>3. token' \in [Tokens -> Token]
    BY <1>4, <2>2 DEF saveToken
  <2>4. QED  BY <1>4, <2>1, <2>3, ProceedType DEF saveToken
<1>5. ASSUME NEW c \in Calls, NEW k \in Tokens, rotate(c, k) PROVE TypeOK'
  <2>1. call[c] \in Call /\ [call[c] EXCEPT !.at = "reply", !.answer = k] \in Call
    BY DEF Call, Steps
  <2>2. call[c].sent \in Tokens
    BY <1>5 DEF rotate, CallsSound, CallSound
  <2>3. [user |-> call[c].user, login |-> token[call[c].sent].login, expired |-> FALSE, state |-> "active"] \in Token
    BY <2>1, <2>2 DEF Call, Token
  <2>4. [token[call[c].sent] EXCEPT !.state = "revoked"] \in Token
    BY <2>2 DEF Token
  <2>5. token' \in [Tokens -> Token]
    BY <1>5, <2>2, <2>3, <2>4 DEF rotate
  <2>6. QED  BY <1>5, <2>1, <2>5, ProceedType DEF rotate
<1>6. ASSUME NEW c \in Calls, revokeIfActive(c) PROVE TypeOK'
  <2>1. call[c] \in Call /\ [call[c] EXCEPT !.at = "reply", !.user = None] \in Call
    BY DEF Call, Steps
  <2>2. \A s \in {"revoked", token[call[c].sent].state} :
          call[c].sent \in Tokens => [token[call[c].sent] EXCEPT !.state = s] \in Token
    BY DEF Token
  <2>3. token' \in [Tokens -> Token]
    BY <1>6, <2>2 DEF revokeIfActive
  <2>4. QED  BY <1>6, <2>1, <2>3, ProceedType DEF revokeIfActive
<1>7. ASSUME NEW c \in Calls, refused(c) PROVE TypeOK'
  <2>1. [call[c] EXCEPT !.at = "reply", !.user = None] \in Call
    BY DEF Call, Steps
  <2>2. QED  BY <1>7, <2>1, ProceedType DEF refused
<1>8. ASSUME NEW c \in Calls, receiveSession(c) PROVE TypeOK'
  <2>1. call[c] \in Call /\ cookie' \in Tokens \cup {None} /\ stored' \in Users \cup {None}
        /\ tab' \in [Tabs -> Users \cup {None}]
    BY <1>8 DEF receiveSession, setSession, Call
  <2>2. QED  BY <1>8, <2>1, IdleType DEF receiveSession
<1>9. ASSUME NEW c \in Calls, receiveNone(c) PROVE TypeOK'
  <2>1. tab' \in [Tabs -> Users \cup {None}] /\ stored' \in Users \cup {None}
    BY <1>9 DEF receiveNone, settle, clearSession
  <2>2. cookie' \in Tokens \cup {None} /\ call' \in [Calls -> Call]
    BY <1>9, IdleType DEF receiveNone
  <2>3. QED  BY <1>9, <2>1, <2>2 DEF receiveNone
<1>18. ASSUME NEW c \in Calls, rateLimited(c) PROVE TypeOK'
  BY <1>18, IdleType DEF rateLimited, clearSession
<1>10. \A c \in Calls : unheard(call[c]) \in Call
  BY IdleType DEF unheard, Call
<1>11. ASSUME NEW c \in Calls, callFails(c) PROVE TypeOK'
  <2>1. tab' \in [Tabs -> Users \cup {None}] /\ stored' \in Users \cup {None}
    BY <1>11 DEF callFails, clearSession
  <2>2. cookie' \in Tokens \cup {None} /\ call' \in [Calls -> Call]
    BY <1>10, <1>11 DEF callFails
  <2>3. QED  BY <1>11, <2>1, <2>2 DEF callFails
<1>12. ASSUME NEW t \in Tabs, hydrate(t) PROVE TypeOK'
  <2>1. call' \in [Calls -> Call] /\ smooth' \in BOOLEAN
    BY <1>10, <1>12 DEF hydrate
  <2>2. QED  BY <1>12, <2>1 DEF hydrate
<1>13. ASSUME NEW k \in Tokens, expire(k) PROVE TypeOK'
  BY <1>13 DEF expire, browser, Token
<1>14. CASE deleteUnusableTokens
  <2>1. \A k \in Tokens : [Free EXCEPT !.state = "deleted", !.login = token[k].login] \in Token
    BY DEF Free, Token
  <2>2. QED  BY <1>14, <2>1 DEF deleteUnusableTokens, browser
<1>15. ASSUME NEW u \in Users, block(u) PROVE TypeOK'
  BY <1>15 DEF block, browser
<1>16. CASE UNCHANGED vars
  BY <1>16 DEF vars, browser
<1>17. QED
  BY <1>2, <1>3, <1>4, <1>5, <1>6, <1>7, <1>8, <1>9, <1>11, <1>12, <1>13, <1>14, <1>15, <1>16, <1>18
     DEF Next, Works, Receives

-----------------------------------------------------------------------------
(* Tokens come alive when they are drawn, and only then: by a login, for a *)
(* session of its own, or by a rotation, for that of the token it revokes. *)
LEMMA TokenWrites ==
  ASSUME IInv, [Next]_vars
  PROVE  \/ /\ \A k \in Tokens : token'[k].state = "active" =>
                 token[k].state = "active" /\ token'[k].user = token[k].user /\ token'[k].login = token[k].login
            /\ \A k \in Tokens : token[k].state # "free" => token'[k].state # "free"
         \/ \E k \in Tokens :
              /\ token[k].state = "free" /\ token'[k].state = "active" /\ token'[k].user \in Users
              /\ \/ /\ token'[k].login = k
                    /\ \A m \in Tokens \ {k} : token'[m] = token[m]
                 \/ \E sent \in Tokens \ {k} :
                      /\ token[sent].state = "active" /\ token'[sent].state = "revoked"
                      /\ token'[k].login = token[sent].login
                      /\ \A m \in Tokens \ {k, sent} : token'[m] = token[m]
                      /\ \E c \in Calls : rotate(c, k) /\ call[c].sent = sent
<1> DEFINE Kept == /\ \A k \in Tokens : token'[k].state = "active" =>
                         token[k].state = "active" /\ token'[k].user = token[k].user /\ token'[k].login = token[k].login
                   /\ \A k \in Tokens : token[k].state # "free" => token'[k].state # "free"
<1>1. token \in [Tokens -> Token]
  BY DEF IInv, TypeOK
<1>2. CASE UNCHANGED token
  BY <1>2
<1>3. ASSUME NEW c \in Calls, NEW k \in Tokens, saveToken(c, k)
      PROVE  /\ token[k].state = "free" /\ token'[k].state = "active" /\ token'[k].user \in Users
             /\ token'[k].login = k
             /\ \A m \in Tokens \ {k} : token'[m] = token[m]
  <2>1. call[c].user \in Users
    BY <1>3 DEF saveToken, IInv, CallsSound, CallSound
  <2>2. QED  BY <1>1, <1>3, <2>1 DEF saveToken
<1>4. ASSUME NEW c \in Calls, NEW k \in Tokens, rotate(c, k)
      PROVE  /\ token[k].state = "free" /\ token'[k].state = "active" /\ token'[k].user \in Users
             /\ \E sent \in Tokens \ {k} :
                  /\ token[sent].state = "active" /\ token'[sent].state = "revoked"
                  /\ token'[k].login = token[sent].login
                  /\ \A m \in Tokens \ {k, sent} : token'[m] = token[m]
                  /\ call[c].sent = sent
  <2>1. call[c].user \in Users /\ call[c].sent \in Tokens /\ call[c].sent # k
        /\ token[call[c].sent].state = "active" /\ token[k].state = "free"
    BY <1>4 DEF rotate, revokeActiveById, IInv, CallsSound, CallSound
  <2>2. QED  BY <1>1, <1>4, <2>1 DEF rotate, Token
<1>5. ASSUME NEW c \in Calls, revokeIfActive(c) PROVE Kept
  BY <1>1, <1>5 DEF revokeIfActive, revokeActiveById, Token
<1>6. ASSUME NEW k \in Tokens, expire(k) PROVE Kept
  BY <1>1, <1>6 DEF expire, Token
<1>7. CASE deleteUnusableTokens
  BY <1>1, <1>7 DEF deleteUnusableTokens, Free
<1>8. UNCHANGED token
      \/ (\E c \in Calls, k \in Tokens : saveToken(c, k) \/ rotate(c, k))
      \/ (\E c \in Calls : revokeIfActive(c)) \/ (\E k \in Tokens : expire(k)) \/ deleteUnusableTokens
  BY DEF Next, Sends, login, logout, refreshSession, send, Works, findByTokenHash, findUser, refused,
         Receives, receiveSession, receiveNone, rateLimited, callFails, hydrate, block, vars
<1> HIDE DEF Kept
<1>9. CASE Kept
  BY <1>9 DEF Kept
<1>10. QED  BY <1>2, <1>3, <1>4, <1>5, <1>6, <1>7, <1>8, <1>9

LEMMA TokensStep ==
  ASSUME IInv, [Next]_vars
  PROVE  TokensSound' /\ OneLivePerLogin'
<1>1. TokensSound /\ OneLivePerLogin
  BY DEF IInv
<1>2. QED  BY <1>1, TokenWrites DEF TokensSound, OneLivePerLogin

(* The steps that a call takes: it starts, IAM looks up its token and its  *)
(* user, or it goes on to what no longer matters.                          *)
LEMMA CallsStep ==
  ASSUME IInv, [Next]_vars
  PROVE  CallsSound' /\ BlockedStayOut'
<1>0. /\ token \in [Tokens -> Token] /\ call \in [Calls -> Call] /\ CallsSound /\ BlockedStayOut
  BY DEF IInv, TypeOK
<1> DEFINE Sound(c) == /\ CallSound(call'[c])
                       /\ call'[c].at = "write" /\ call'[c].op # "logout" /\ call'[c].user \in blocked' => c \in late'
<1> SUFFICES ASSUME NEW c \in Calls PROVE Sound(c)
  BY DEF CallsSound, CallSound, BlockedStayOut
<1>1. CASE call'[c].at \notin {"find", "user", "write"}
  BY <1>1 DEF CallSound
<1>2. ASSUME \/ call'[c] = call[c]
             \/ call'[c] = [call[c] EXCEPT !.tab = None],
             \/ UNCHANGED <<blocked, late>>
             \/ \E d \in Calls : d # c /\ blocked' = blocked /\ late' = late \ {d}
             \/ \E u \in Users : block(u)
      PROVE  Sound(c)
  <2>1. /\ call'[c].at = call[c].at /\ call'[c].op = call[c].op /\ call'[c].sent = call[c].sent
        /\ call'[c].user = call[c].user /\ call'[c].answer = call[c].answer
    BY <1>0, <1>2 DEF Call
  <2>2. CASE \E u \in Users : block(u)
    BY <1>0, <2>1, <2>2 DEF block, CallsSound, CallSound, BlockedStayOut
  <2>3. CASE ~\E u \in Users : block(u)
    BY <1>0, <1>2, <2>1, <2>3 DEF CallsSound, CallSound, BlockedStayOut
  <2>4. QED  BY <2>2, <2>3
<1>3. CASE Sends(c)
  <2>1. PICK op \in {"login", "refresh", "logout"}, u \in Users \cup {None}, s \in Tabs :
          send(c, s, op, u) /\ (op = "login" => u \in Users)
    BY <1>3 DEF Sends, login, logout, refreshSession
  <2>2. /\ call'[c].at = IF op = "login" THEN "user" ELSE "find"
        /\ call'[c].op = op /\ call'[c].user = u /\ call'[c].answer = None
    BY <1>0, <2>1 DEF send, Idle
  <2>3. QED  BY <2>1, <2>2 DEF CallSound
<1>4. CASE findByTokenHash(c)
  <2> DEFINE q == call[c]
  <2>1. q.at = "find" /\ q.op \in {"refresh", "logout"} /\ q.sent \in Tokens
        /\ (q.op = "refresh" => canBeUsed(q.sent))
    BY <1>0, <1>4 DEF findByTokenHash, found, Call, CallsSound, CallSound
  <2>2. q.op = "refresh" => token[q.sent].user \in Users
    BY <2>1 DEF canBeUsed, IInv, TokensSound
  <2>3. /\ call'[c].at = IF q.op = "refresh" THEN "user" ELSE "write"
        /\ call'[c].op = q.op /\ call'[c].sent = q.sent /\ call'[c].user = token[q.sent].user
        /\ call'[c].answer = q.answer
    BY <1>0, <1>4 DEF findByTokenHash, Proceed, Call
  <2>4. q.answer = None
    BY <1>0, <2>1 DEF CallsSound, CallSound
  <2>5. QED  BY <2>1, <2>2, <2>3, <2>4 DEF CallSound
<1>5. CASE findUser(c)
  <2>1. call[c].at = "user" /\ call[c].user \notin blocked /\ blocked' = blocked
        /\ call'[c] = [call[c] EXCEPT !.at = "write"]
    BY <1>0, <1>5 DEF findUser, allowed, Proceed
  <2>2. /\ call'[c].at = "write" /\ call'[c].op = call[c].op
        /\ call'[c].sent = call[c].sent /\ call'[c].user = call[c].user
        /\ call'[c].answer = call[c].answer
    BY <1>0, <2>1 DEF Call
  <2>3. QED  BY <1>0, <2>1, <2>2 DEF CallsSound, CallSound
<1>6. CASE revokeIfActive(c) \/ refused(c) \/ \E k \in Tokens : saveToken(c, k) \/ rotate(c, k)
  <2>1. PICK q : q.at = "reply" /\ Proceed(c, q)
    <3>1. call[c] \in Call
      BY <1>0
    <3>2. CASE revokeIfActive(c) \/ refused(c)
      <4>1. [call[c] EXCEPT !.at = "reply", !.user = None].at = "reply"
        BY <3>1 DEF Call
      <4>2. QED  BY <3>2, <4>1 DEF revokeIfActive, refused
    <3>3. ASSUME NEW k \in Tokens, saveToken(c, k) \/ rotate(c, k) PROVE \E q : q.at = "reply" /\ Proceed(c, q)
      <4>1. [call[c] EXCEPT !.at = "reply", !.answer = k].at = "reply"
        BY <3>1 DEF Call
      <4>2. QED  BY <3>3, <4>1 DEF saveToken, rotate
    <3>4. QED  BY <1>6, <3>2, <3>3
  <2>2. call'[c].at \in {"reply", "idle"}
    BY <1>0, <2>1 DEF Proceed, Idle
  <2>3. QED  BY <1>1, <2>2
<1>7. CASE receiveSession(c) \/ receiveNone(c) \/ rateLimited(c)
  <2>1. call'[c].at = "idle"
    BY <1>0, <1>7 DEF receiveSession, receiveNone, rateLimited, Idle
  <2>2. QED  BY <1>1, <2>1
<1>8. CASE callFails(c) \/ \E t \in Tabs : hydrate(t)
  <2>1. UNCHANGED <<blocked, late>> /\ call'[c] \in {call[c], unheard(call[c])}
    BY <1>0, <1>8 DEF callFails, hydrate
  <2>2. CASE call'[c] = Idle
    BY <1>1, <2>2 DEF Idle
  <2>3. CASE call'[c] # Idle
    BY <1>2, <2>1, <2>3 DEF unheard
  <2>4. QED  BY <2>2, <2>3
<1>9. ASSUME NEW d \in Calls, d # c, Sends(d) \/ Works(d) \/ Receives(d) PROVE Sound(c)
  <2>1. call'[c] = call[c]
    BY <1>0, <1>9 DEF Sends, login, logout, refreshSession, send, Works, Receives, findByTokenHash, findUser,
         saveToken, rotate, revokeIfActive, refused, Proceed, receiveSession, receiveNone, rateLimited, callFails
  <2>2. blocked' = blocked /\ (late' = late \/ late' = late \ {d})
    BY <1>9 DEF Sends, login, logout, refreshSession, send, Works, Receives, findByTokenHash, findUser,
         saveToken, rotate, revokeIfActive, refused, Proceed, receiveSession, receiveNone, rateLimited, callFails
  <2>3. QED  BY <1>2, <1>9, <2>1, <2>2
<1>10. CASE (\E k \in Tokens : expire(k)) \/ deleteUnusableTokens \/ UNCHANGED vars
  BY <1>2, <1>10 DEF expire, deleteUnusableTokens, vars
<1>11. CASE \E u \in Users : block(u)
  BY <1>2, <1>11 DEF block
<1>12. QED
  BY <1>3, <1>4, <1>5, <1>6, <1>7, <1>8, <1>9, <1>10, <1>11 DEF Next, Works, Receives

-----------------------------------------------------------------------------
(* What holds while all goes smoothly, spelled out for one call. *)
LEMMA SmoothFacts ==
  ASSUME IInv, smooth, NEW c \in Calls, busy(c)
  PROVE  /\ call[c] \in Call /\ CallSound(call[c]) /\ SmoothCall(call[c])
         /\ call[c].tab \in Tabs /\ call[c].tab # None
         /\ \A d \in Calls \ {c} : ~busy(d)
         /\ blocked = {}
BY SessionsAssumption DEF IInv, TypeOK, CallsSound, SmoothSound, SmoothCall

(* IAM working on the one call under way. *)
LEMMA WorkingSmooth ==
  ASSUME IInv, smooth, NEW c \in Calls, busy(c), NEW q \in Call,
         call' = [call EXCEPT ![c] = q], q.at # "idle",
         UNCHANGED <<blocked, browser>>, \A k \in Tokens : ~token'[k].expired,
         SmoothCall(q)'
  PROVE  SmoothSound'
<1>1. call \in [Calls -> Call] /\ call'[c] = q /\ \A d \in Calls \ {c} : call'[d] = call[d] /\ ~busy(d)
  BY SmoothFacts DEF IInv, TypeOK
<1>2. \A d \in Calls : busy(d)' => d = c
  BY <1>1 DEF busy
<1>3. busy(c)'
  BY <1>1 DEF busy
<1>4. SmoothCall(call[c])'
  BY <1>1 DEF SmoothCall, Usable
<1>5. QED
  BY <1>1, <1>2, <1>3, <1>4 DEF SmoothSound, IInv, browser

LEMMA WorksSmooth ==
  ASSUME IInv, smooth, NEW c \in Calls, Works(c)
  PROVE  SmoothSound'
<1> DEFINE q == call[c]
<1>0. /\ busy(c) /\ token \in [Tokens -> Token] /\ (\A k \in Tokens : ~token[k].expired)
  BY DEF Works, findByTokenHash, findUser, saveToken, rotate, revokeIfActive, refused, busy, IInv, TypeOK, SmoothSound
<1>1. /\ q \in Call /\ CallSound(q) /\ SmoothCall(q) /\ q.tab # None /\ blocked = {}
  BY <1>0, SmoothFacts
<1>2. ASSUME NEW p \in Call, Proceed(c, p), p.at # "idle", p.tab = q.tab, \A k \in Tokens : ~token'[k].expired,
             SmoothCall(p)'
      PROVE  SmoothSound'
  <2>1. call' = [call EXCEPT ![c] = p]
    BY <1>1, <1>2 DEF Proceed
  <2>2. QED  BY <1>0, <1>2, <2>1, WorkingSmooth DEF Proceed
<1>3. CASE findByTokenHash(c)
  <2>1. q.at = "find" /\ q.sent \in Tokens /\ token[q.sent].user \in Users \cup {None}
    BY <1>0, <1>1, <1>3 DEF findByTokenHash, found, Call, Token
  <2>2. [q EXCEPT !.at = IF q.op = "refresh" THEN "user" ELSE "write", !.user = token[q.sent].user] \in Call
    BY <1>1, <2>1 DEF Call, Steps
  <2>3. PICK p \in Call :
          p = [q EXCEPT !.at = IF q.op = "refresh" THEN "user" ELSE "write", !.user = token[q.sent].user]
    BY <2>2
  <2>4. q.at = "find" /\ q.sent \in Tokens /\ Proceed(c, p) /\ token' = token
    BY <1>3, <2>1, <2>3 DEF findByTokenHash
  <2>5. p.at # "idle" /\ p.at # "reply" /\ p.op = q.op /\ p.tab = q.tab
        /\ p.sent = q.sent /\ p.answer = q.answer /\ p.user = token[q.sent].user
    BY <1>1, <2>3 DEF Call
  <2>6. SmoothCall(p)'
    BY <1>1, <2>4, <2>5 DEF SmoothCall, CallSound, Usable, canBeUsed, Proceed, browser
  <2>7. QED  BY <1>0, <1>2, <2>4, <2>5, <2>6
<1>4. CASE findUser(c)
  <2>0. PICK p \in Call : p = [q EXCEPT !.at = "write"]
    BY <1>1 DEF Call, Steps
  <2>1. q.at = "user" /\ Proceed(c, p) /\ token' = token
    BY <1>4, <2>0 DEF findUser
  <2>2. p.at = "write" /\ p.op = q.op /\ p.tab = q.tab
        /\ p.sent = q.sent /\ p.answer = q.answer /\ p.user = q.user
    BY <1>1, <2>0 DEF Call
  <2>3. SmoothCall(p)'
    BY <1>1, <2>1, <2>2 DEF SmoothCall, CallSound, Usable, canBeUsed, Proceed, browser
  <2>4. QED  BY <1>0, <1>2, <2>1, <2>2, <2>3
<1>5. ASSUME NEW k \in Tokens, saveToken(c, k) \/ rotate(c, k) PROVE SmoothSound'
  <2>0. PICK p \in Call : p = [q EXCEPT !.at = "reply", !.answer = k]
    BY <1>1 DEF Call, Steps
  <2>1. q.at = "write" /\ q.op \in {"login", "refresh"} /\ Proceed(c, p) /\ q.user \in Users
    BY <1>1, <1>5, <2>0 DEF saveToken, rotate, CallSound
  <2>2. p.at = "reply" /\ p.op = q.op /\ p.tab = q.tab /\ p.answer = k /\ p.user = q.user
    BY <1>1, <2>0 DEF Call
  <2>3. \A m \in Tokens : ~token'[m].expired
    BY <1>0, <1>5 DEF saveToken, rotate, Token
  <2>4. canBeUsed(k)'
    BY <1>0, <1>5, <2>3 DEF saveToken, rotate, canBeUsed
  <2>5. SmoothCall(p)'
    BY <1>1, <2>1, <2>2, <2>4, SessionsAssumption DEF SmoothCall, Usable, Proceed, browser
  <2>6. QED  BY <1>2, <2>1, <2>2, <2>3, <2>5
<1>6. CASE revokeIfActive(c)
  <2>0. PICK p \in Call : p = [q EXCEPT !.at = "reply", !.user = None]
    BY <1>1 DEF Call, Steps
  <2>1. q.at = "write" /\ q.op = "logout" /\ Proceed(c, p)
    BY <1>6, <2>0 DEF revokeIfActive
  <2>2. p.at = "reply" /\ p.op = q.op /\ p.tab = q.tab /\ p.answer = q.answer
    BY <1>1, <2>0 DEF Call
  <2>3. \A m \in Tokens : ~token'[m].expired
    BY <1>0, <1>6 DEF revokeIfActive, Token
  <2>4. SmoothCall(p)'
    BY <1>1, <2>1, <2>2 DEF SmoothCall, Proceed, browser
  <2>5. QED  BY <1>2, <2>1, <2>2, <2>3, <2>4
<1>7. CASE refused(c)
  <2>0. PICK p \in Call : p = [q EXCEPT !.at = "reply", !.user = None]
    BY <1>1 DEF Call, Steps
  <2>1. Proceed(c, p) /\ token' = token /\ q.at \in {"find", "user", "write"} /\ q.answer = None
    BY <1>1, <1>7, <2>0 DEF refused, CallSound
  <2>2. q.op # "refresh"
    BY <1>1, <1>7, SessionsAssumption
       DEF refused, found, allowed, revokeActiveById, CallSound, SmoothCall, Usable, canBeUsed
  <2>3. p.at = "reply" /\ p.op = q.op /\ p.tab = q.tab /\ p.answer = q.answer
    BY <1>1, <2>0 DEF Call
  <2>4. SmoothCall(p)'
    BY <1>1, <2>1, <2>2, <2>3 DEF SmoothCall, Proceed, browser
  <2>5. QED  BY <1>0, <1>2, <2>1, <2>3, <2>4
<1>8. QED  BY <1>3, <1>4, <1>5, <1>6, <1>7 DEF Works

(* A tab that sends alone, and no logout across a refresh, has no other    *)
(* call under way: it neither refreshes nor signs in or out already.       *)
LEMMA SendsSmooth ==
  ASSUME IInv, NEW c \in Calls, Sends(c), smooth'
  PROVE  SmoothSound'
<1>1. PICK t \in Tabs, op \in {"login", "refresh", "logout"}, u \in Users \cup {None} :
        /\ send(c, t, op, u)
        /\ op = "login" => tab[t] = None /\ ~signing(t)
        /\ op = "logout" => tab[t] # None /\ ~signing(t)
        /\ op = "refresh" => tab[t] # None /\ ~refreshing(t)
  BY DEF Sends, login, logout, refreshSession, refreshPromise
<1>2. /\ call[c].at = "idle" /\ smooth /\ alone(t) /\ ~crosses(t, op)
      /\ UNCHANGED <<token, blocked, cookie, stored, tab>>
  BY <1>1 DEF send, browser
<1>3. \A d \in Calls : ~busy(d)
  <2> SUFFICES ASSUME NEW d \in Calls, busy(d) PROVE FALSE
    OBVIOUS
  <2>1. /\ call[d] \in Call /\ SmoothCall(call[d]) /\ call[d].tab \in Tabs
    BY <1>2, SmoothFacts
  <2>2. d \in callsOf(t)
    BY <1>2, <2>1 DEF alone, callsOf
  <2>3. call[d].op = "login" => tab[t] = None
    BY <2>1, <2>2 DEF SmoothCall, callsOf
  <2>4. call[d].op # "login" => tab[t] # None
    BY <2>1, <2>2 DEF SmoothCall, callsOf
  <2>5. call[d].op \in {"login", "refresh", "logout"}
    BY <2>1 DEF Call
  <2>6. QED
    BY <1>1, <1>2, <2>2, <2>3, <2>4, <2>5 DEF crosses, refreshing, leaving, signing
<1>4. /\ call \in [Calls -> Call] /\ SmoothSound /\ tab \in [Tabs -> Users \cup {None}]
  BY DEF IInv, TypeOK
<1>5. PICK q : /\ call' = [call EXCEPT ![c] = q] /\ q.at # "idle" /\ q.at # "reply" /\ q.op = op
               /\ q.tab = t /\ q.answer = None /\ (op # "login" => q.sent = cookie)
  <2>1. PICK q : q = [Idle EXCEPT !.at = IF op = "login" THEN "user" ELSE "find", !.op = op, !.tab = t,
                                  !.user = u, !.sent = IF op = "login" THEN None ELSE cookie]
    OBVIOUS
  <2>2. q.at # "idle" /\ q.at # "reply" /\ q.op = op
        /\ q.tab = t /\ q.answer = None /\ (op # "login" => q.sent = cookie)
    BY <2>1 DEF Idle
  <2>3. QED  BY <1>1, <2>1, <2>2 DEF send
<1>6. \A s \in Tabs \ {t} : tab[s] = None
  BY <1>2 DEF alone
<1>7. tab[t] # None => Usable(cookie)
  BY <1>2, <1>3, <1>4 DEF SmoothSound
<1>8. SmoothCall(q)'
  BY <1>1, <1>2, <1>5, <1>6, <1>7 DEF SmoothCall, Usable, canBeUsed
<1>9. \A d \in Calls : call'[d].at # "idle" => d = c
  BY <1>3, <1>4, <1>5 DEF busy
<1>10. call'[c] = q
  BY <1>4, <1>5
<1>11. SmoothCall(call[c])' /\ busy(c)'
  BY <1>5, <1>8, <1>10 DEF SmoothCall, Usable, canBeUsed, busy
<1>12. QED
  BY <1>2, <1>4, <1>9, <1>11 DEF SmoothSound, busy

(* The answer: a session with its new cookie, or none to a tab that asked  *)
(* to log out or could not log in.                                         *)
LEMMA ReceivesSmooth ==
  ASSUME IInv, NEW c \in Calls, Receives(c), smooth'
  PROVE  /\ SmoothSound'
         /\ \A t \in Tabs : tab[t] # None /\ tab'[t] = None =>
              c \in callsOf(t) /\ call[c].op = "logout" /\ receiveNone(c)
<1> DEFINE q == call[c]
<1>1. /\ receiveSession(c) \/ receiveNone(c)
      /\ smooth /\ busy(c) /\ q.at = "reply"
      /\ UNCHANGED <<token, blocked>> /\ call' = [call EXCEPT ![c] = Idle]
  BY DEF Receives, receiveSession, receiveNone, rateLimited, callFails, busy
<1>2. /\ q \in Call /\ SmoothCall(q) /\ q.tab \in Tabs /\ \A d \in Calls \ {c} : ~busy(d)
      /\ call \in [Calls -> Call] /\ tab \in [Tabs -> Users \cup {None}] /\ SmoothSound
      /\ None \notin Users
  BY <1>1, SmoothFacts, SessionsAssumption DEF IInv, TypeOK
<1>3. \A d \in Calls : ~busy(d)'
  BY <1>1, <1>2 DEF busy, Idle
<1>4. ASSUME \A t \in Tabs : tab'[t] \in {stored', None},
             stored' # None => \E t \in Tabs : tab'[t] = stored',
             \A s, t \in Tabs : tab'[s] # None /\ tab'[t] # None => s = t,
             stored' # None => Usable(cookie')
      PROVE  SmoothSound'
  <2>1. stored' # None => Usable(cookie)'
    BY <1>1, <1>4 DEF Usable, canBeUsed
  <2>2. QED  BY <1>1, <1>2, <1>3, <1>4, <2>1 DEF SmoothSound
<1>5. CASE receiveSession(c)
  <2>1. /\ q.answer # None /\ Usable(q.answer) /\ q.user \in Users /\ q.user # None
        /\ cookie' = q.answer /\ tab' = [tab EXCEPT ![q.tab] = q.user] /\ stored' = q.user
    BY <1>2, <1>5 DEF receiveSession, setSession, SmoothCall
  <2>2. tab'[q.tab] = q.user /\ \A s \in Tabs \ {q.tab} : tab'[s] = None /\ tab[s] = None
    BY <1>2, <2>1 DEF SmoothCall
  <2>3. SmoothSound'
    BY <1>2, <1>4, <2>1, <2>2
  <2>4. QED  BY <2>1, <2>2, <2>3
<1>6. CASE receiveNone(c)
  <2>1. q.answer = None /\ q.op \in {"login", "logout"} /\ settle(q)
    BY <1>1, <1>2, <1>6 DEF receiveNone, SmoothCall, Call
  <2>2. CASE q.op = "login"
    <3>1. stored = None /\ \A s \in Tabs : tab[s] = None
      BY <1>1, <1>2, <2>2 DEF SmoothCall, SmoothSound
    <3>2. tab' = tab /\ stored' = None
      BY <2>1, <2>2, <3>1 DEF settle
    <3>3. QED  BY <1>4, <3>1, <3>2
  <2>3. CASE q.op = "logout"
    <3>1. tab' = [tab EXCEPT ![q.tab] = None] /\ stored' = None
      BY <2>1, <2>3 DEF settle, clearSession
    <3>2. \A s \in Tabs : tab'[s] = None /\ (s # q.tab => tab[s] = None)
      BY <1>2, <3>1 DEF SmoothCall
    <3>3. SmoothSound'
      BY <1>4, <3>1, <3>2
    <3>4. QED  BY <1>6, <2>3, <3>2, <3>3 DEF callsOf
  <2>4. QED  BY <2>1, <2>2, <2>3
<1>7. QED  BY <1>1, <1>5, <1>6

(* A tab loaded while it has no call under way finds in localStorage what  *)
(* it had: no other tab has a session.                                     *)
LEMMA HydrateSmooth ==
  ASSUME IInv, NEW t \in Tabs, hydrate(t), smooth'
  PROVE  SmoothSound' /\ tab' = tab
<1>1. /\ smooth /\ alone(t) /\ callsOf(t) = {} /\ UNCHANGED <<token, blocked, cookie, stored>>
      /\ tab' = [tab EXCEPT ![t] = stored]
      /\ call' = [c \in Calls |-> IF c \in callsOf(t) THEN unheard(call[c]) ELSE call[c]]
  BY DEF hydrate
<1>2. call \in [Calls -> Call] /\ tab \in [Tabs -> Users \cup {None}] /\ SmoothSound
  BY DEF IInv, TypeOK
<1>3. call' = call
  BY <1>1, <1>2
<1>4. tab[t] = stored
  <2>1. \A s \in Tabs : s # t => tab[s] = None
    BY <1>1 DEF alone
  <2>2. QED  BY <1>1, <1>2, <2>1 DEF SmoothSound
<1>5. tab' = tab
  BY <1>1, <1>2, <1>4
<1>6. QED
  BY <1>1, <1>2, <1>3, <1>5 DEF SmoothSound, SmoothCall, Usable, canBeUsed, busy

LEMMA SmoothStep ==
  ASSUME IInv, [Next]_vars
  PROVE  SmoothSound'
<1> SUFFICES ASSUME smooth' PROVE SmoothSound'
  BY DEF SmoothSound
<1>0. token \in [Tokens -> Token] /\ SmoothSound
  BY DEF IInv, TypeOK
<1>1. ASSUME NEW c \in Calls, Works(c) PROVE SmoothSound'
  <2>1. smooth
    BY <1>1 DEF Works, findByTokenHash, findUser, saveToken, rotate, revokeIfActive, refused, Proceed
  <2>2. QED  BY <1>1, <2>1, WorksSmooth
<1>2. CASE deleteUnusableTokens
  <2>1. /\ UNCHANGED <<blocked, cookie, stored, tab, call>> /\ smooth
        /\ \A k \in Tokens : ~token'[k].expired /\ (canBeUsed(k) => canBeUsed(k)')
    BY <1>0, <1>2 DEF deleteUnusableTokens, browser, canBeUsed, Free, SmoothSound
  <2>2. ASSUME NEW c \in Calls, busy(c) PROVE SmoothCall(call[c])'
    BY <1>0, <2>1, <2>2 DEF SmoothSound, SmoothCall, Usable
  <2>3. QED  BY <1>0, <2>1, <2>2 DEF SmoothSound, busy, Usable
<1>3. CASE (\E k \in Tokens : expire(k)) \/ \E u \in Users : block(u)
  BY <1>3 DEF expire, block
<1>4. CASE UNCHANGED vars
  BY <1>0, <1>4 DEF vars, SmoothSound, SmoothCall, Usable, canBeUsed, busy
<1>5. QED
  BY <1>1, <1>2, <1>3, <1>4, SendsSmooth, ReceivesSmooth, HydrateSmooth DEF Next

-----------------------------------------------------------------------------
(* The inductive invariant holds in every reachable state. *)
THEOREM Invariance == Spec => []IInv
<1>1. IInv /\ [Next]_vars => IInv'
  BY TypeStep, TokensStep, CallsStep, SmoothStep DEF IInv
<1>2. QED  BY <1>1, InitSound, PTL DEF Spec

(* Every variable keeps its type. *)
THEOREM TypeCorrect == Spec => []TypeOK
<1>1. IInv => TypeOK
  BY DEF IInv
<1>2. QED  BY <1>1, Invariance, PTL

(* A refresh token is exchanged once, however many calls carry it. *)
THEOREM RotatedOnce == Spec => []OneLivePerLogin
<1>1. IInv => OneLivePerLogin
  BY DEF IInv
<1>2. QED  BY <1>1, Invariance, PTL

(* A blocked user gets a token only from a call that had been checked.     *)
THEOREM BlockHolds == Spec => []BlockedStayOut
<1>1. IInv => BlockedStayOut
  BY DEF IInv
<1>2. QED  BY <1>1, Invariance, PTL

(* One tab that refreshes as its access token runs out stays signed in.    *)
THEOREM TabStaysSignedIn == Spec => SessionSurvives
<1> DEFINE A == smooth' => \A t \in Tabs : tab[t] # None /\ tab'[t] = None =>
                  \E c \in callsOf(t) : call[c].op = "logout" /\ receiveNone(c)
<1>1. ASSUME IInv, [Next]_vars PROVE [A]_vars
  <2> SUFFICES ASSUME smooth', NEW t \in Tabs, tab[t] # None, tab'[t] = None
               PROVE  \E c \in callsOf(t) : call[c].op = "logout" /\ receiveNone(c)
    OBVIOUS
  <2>1. ASSUME NEW c \in Calls, Receives(c)
        PROVE  \E d \in callsOf(t) : call[d].op = "logout" /\ receiveNone(d)
    BY <1>1, <2>1, ReceivesSmooth
  <2>2. ASSUME NEW s \in Tabs, hydrate(s) PROVE FALSE
    BY <1>1, <2>2, HydrateSmooth
  <2>3. UNCHANGED tab \/ (\E c \in Calls : Receives(c)) \/ \E s \in Tabs : hydrate(s)
    <3>1. ASSUME NEW c \in Calls, Sends(c) PROVE UNCHANGED tab
      BY <3>1 DEF Sends, login, logout, refreshSession, send, browser
    <3>2. ASSUME NEW c \in Calls, Works(c) PROVE UNCHANGED tab
      BY <3>2 DEF Works, findByTokenHash, findUser, saveToken, rotate, revokeIfActive, refused, Proceed, browser
    <3>3. CASE (\E k \in Tokens : expire(k)) \/ deleteUnusableTokens \/ (\E u \in Users : block(u)) \/ UNCHANGED vars
      BY <3>3 DEF expire, deleteUnusableTokens, block, browser, vars
    <3>4. QED  BY <1>1, <3>1, <3>2, <3>3 DEF Next
  <2>4. QED  BY <2>1, <2>2, <2>3
<1>2. QED  BY <1>1, Invariance, PTL DEF Spec, SessionSurvives

-----------------------------------------------------------------------------
(* The history of a session needs what calls and cookies carry: tokens     *)
(* that have been drawn, and in a refresh past its look-up the user of the *)
(* token it has sent, for as long as that token is live.                   *)
Drawn(k) == k # None => token[k].state # "free"

Carried(q) ==
  /\ Drawn(q.sent) /\ Drawn(q.answer)
  /\ q.op = "refresh" /\ q.at \in {"user", "write"} /\ token[q.sent].state = "active" =>
       token[q.sent].user = q.user

CarriedSound == Drawn(cookie) /\ \A c \in Calls : Carried(call[c])

(* A drawn token stays drawn, and while it is live, its user's.            *)
LEMMA DrawnStays ==
  ASSUME IInv, [Next]_vars, NEW k \in Tokens, token[k].state # "free"
  PROVE  /\ token'[k].state # "free"
         /\ token'[k].state = "active" => token[k].state = "active" /\ token'[k].user = token[k].user
BY TokenWrites

(* What a call carries is kept when the call only moves on, or is dropped. *)
LEMMA CarriedStays ==
  ASSUME IInv, [Next]_vars, NEW p \in Call, NEW q \in Call, Carried(p), CallSound(p),
         q.sent = p.sent, q.answer = p.answer,
         q.op = "refresh" /\ q.at \in {"user", "write"} =>
           p.op = "refresh" /\ p.at \in {"user", "write"} /\ q.user = p.user
  PROVE  Carried(q)'
<1>1. p.sent \in Tokens \cup {None} /\ p.answer \in Tokens \cup {None}
  BY DEF Call
<1>2. Drawn(q.sent)' /\ Drawn(q.answer)'
  BY <1>1, DrawnStays DEF Carried, Drawn
<1>3. ASSUME q.op = "refresh", q.at \in {"user", "write"}, token'[q.sent].state = "active"
      PROVE  token'[q.sent].user = q.user
  <2>1. p.sent \in Tokens /\ p.sent # None
    BY <1>3, SessionsAssumption DEF CallSound
  <2>2. token[p.sent].state = "active" /\ token'[p.sent].user = token[p.sent].user
    BY <1>3, <2>1, DrawnStays DEF Carried, Drawn
  <2>3. QED  BY <1>3, <2>2 DEF Carried
<1>4. QED  BY <1>2, <1>3 DEF Carried

LEMMA IdleCarries == Carried(Idle)'
BY DEF Carried, Drawn, Idle

(* IAM working on a call: it learns the user of a live token, and draws    *)
(* the token that it answers with.                                         *)
LEMMA WorksCarry ==
  ASSUME IInv, CarriedSound, [Next]_vars, NEW c \in Calls, Works(c)
  PROVE  UNCHANGED cookie /\ \E q : Carried(q)' /\ call' = [call EXCEPT ![c] = q]
<1> DEFINE p == call[c]
<1>0. p \in Call /\ CallSound(p) /\ Carried(p) /\ call \in [Calls -> Call] /\ token \in [Tokens -> Token]
  BY DEF IInv, TypeOK, CallsSound, CarriedSound
<1>1. ASSUME NEW q \in Call, Proceed(c, q), Carried(q)'
      PROVE  UNCHANGED cookie /\ \E r : Carried(r)' /\ call' = [call EXCEPT ![c] = r]
  <2>1. CASE q.at = "reply" /\ q.tab = None
    BY <1>1, <2>1, IdleCarries DEF Proceed, browser
  <2>2. CASE ~(q.at = "reply" /\ q.tab = None)
    BY <1>1, <2>2 DEF Proceed, browser
  <2>3. QED  BY <2>1, <2>2
<1>2. CASE findByTokenHash(c)
  <2>1. p.at = "find" /\ p.sent \in Tokens /\ p.sent # None /\ token' = token
    BY <1>0, <1>2 DEF findByTokenHash, found, Call
  <2>2. [p EXCEPT !.at = IF p.op = "refresh" THEN "user" ELSE "write", !.user = token[p.sent].user] \in Call
    BY <1>0, <2>1 DEF Call, Steps, Token
  <2>3. PICK q \in Call :
          q = [p EXCEPT !.at = IF p.op = "refresh" THEN "user" ELSE "write", !.user = token[p.sent].user]
    BY <2>2
  <2>4. q.sent = p.sent /\ q.answer = p.answer /\ q.user = token[p.sent].user
    BY <1>0, <2>3 DEF Call
  <2>5. Carried(q)'
    BY <1>0, <2>1, <2>4 DEF Carried, Drawn
  <2>6. Proceed(c, q)
    BY <1>2, <2>3 DEF findByTokenHash
  <2>7. QED  BY <1>1, <2>5, <2>6
<1>3. CASE findUser(c)
  <2>1. PICK q \in Call : q = [p EXCEPT !.at = "write"]
    BY <1>0 DEF Call, Steps
  <2>2. p.at = "user" /\ Proceed(c, q)
    BY <1>3, <2>1 DEF findUser
  <2>3. q.sent = p.sent /\ q.answer = p.answer /\ q.op = p.op /\ q.user = p.user
    BY <1>0, <2>1 DEF Call
  <2>4. Carried(q)'
    BY <1>0, <2>2, <2>3, CarriedStays
  <2>5. QED  BY <1>1, <2>2, <2>4
<1>4. CASE revokeIfActive(c) \/ refused(c)
  <2>1. PICK q \in Call : q = [p EXCEPT !.at = "reply", !.user = None]
    BY <1>0 DEF Call, Steps
  <2>2. Proceed(c, q)
    BY <1>4, <2>1 DEF revokeIfActive, refused
  <2>3. q.at = "reply" /\ q.sent = p.sent /\ q.answer = p.answer
    BY <1>0, <2>1 DEF Call
  <2>4. Carried(q)'
    BY <1>0, <2>3, CarriedStays
  <2>5. QED  BY <1>1, <2>2, <2>4
<1>5. ASSUME NEW k \in Tokens, saveToken(c, k) \/ rotate(c, k)
      PROVE  UNCHANGED cookie /\ \E q : Carried(q)' /\ call' = [call EXCEPT ![c] = q]
  <2>1. PICK q \in Call : q = [p EXCEPT !.at = "reply", !.answer = k]
    BY <1>0 DEF Call, Steps
  <2>2. Proceed(c, q)
    BY <1>5, <2>1 DEF saveToken, rotate
  <2>3. q.at = "reply" /\ q.sent = p.sent /\ q.answer = k
    BY <1>0, <2>1 DEF Call
  <2>4. token'[k].state = "active"
    BY <1>0, <1>5 DEF saveToken, rotate
  <2>5. p.sent \in Tokens \cup {None}
    BY <1>0 DEF Call
  <2>6. Drawn(q.sent)'
    BY <1>0, <2>3, <2>5, DrawnStays DEF Carried, Drawn
  <2>7. QED  BY <1>1, <2>2, <2>3, <2>4, <2>6 DEF Carried, Drawn
<1>6. QED  BY <1>2, <1>3, <1>4, <1>5 DEF Works

LEMMA CarriedStep ==
  ASSUME IInv, CarriedSound, [Next]_vars
  PROVE  CarriedSound'
<1>0. /\ call \in [Calls -> Call] /\ cookie \in Tokens \cup {None} /\ Drawn(cookie)
      /\ \A c \in Calls : call[c] \in Call /\ CallSound(call[c]) /\ Carried(call[c])
  BY DEF IInv, TypeOK, CallsSound, CarriedSound
<1>1. Drawn(cookie)' \/ cookie' # cookie
  BY <1>0, DrawnStays DEF Drawn
<1>2. \A c \in Calls : Carried(call[c])' \/ call'[c] # call[c]
  <2>1. SUFFICES ASSUME NEW c \in Calls, call'[c] = call[c] PROVE Carried(call[c])'
    OBVIOUS
  <2>2. PICK q \in Call : q = call[c]
    BY <1>0
  <2>3. Carried(q)'
    BY <1>0, <2>2, CarriedStays
  <2>4. QED  BY <2>1, <2>2, <2>3 DEF Carried, Drawn
<1>3. ASSUME NEW c \in Calls, NEW q, Carried(q)', call' = [call EXCEPT ![c] = q], Drawn(cookie)'
      PROVE  CarriedSound'
  <2>1. call'[c] = q /\ \A d \in Calls \ {c} : call'[d] = call[d]
    BY <1>0, <1>3
  <2>2. Carried(call[c])'
    BY <1>3, <2>1 DEF Carried, Drawn
  <2>3. QED  BY <1>2, <1>3, <2>1, <2>2 DEF CarriedSound
<1>4. ASSUME NEW c \in Calls PROVE \E q : q = unheard(call[c]) /\ Carried(q)'
  <2>1. PICK p \in Call : p = call[c] /\ CallSound(p) /\ Carried(p)
    BY <1>0
  <2>2. CASE p.at = "reply"
    BY <2>1, <2>2, IdleCarries DEF unheard
  <2>3. CASE p.at # "reply"
    <3>1. PICK q \in Call : q = [p EXCEPT !.tab = None]
      BY DEF Call
    <3>2. q.sent = p.sent /\ q.answer = p.answer /\ q.op = p.op /\ q.at = p.at /\ q.user = p.user
      BY <3>1 DEF Call
    <3>3. Carried(q)'
      BY <2>1, <3>2, CarriedStays
    <3>4. q = unheard(call[c])
      BY <2>1, <2>3, <3>1 DEF unheard
    <3>5. QED  BY <3>3, <3>4
  <2>4. QED  BY <2>2, <2>3
<1>5. ASSUME NEW c \in Calls, Sends(c) PROVE CarriedSound'
  <2>1. PICK t \in Tabs, op \in {"login", "refresh", "logout"}, u \in Users \cup {None} : send(c, t, op, u)
    BY <1>5 DEF Sends, login, logout, refreshSession
  <2>2. PICK q : q = [Idle EXCEPT !.at = IF op = "login" THEN "user" ELSE "find", !.op = op, !.tab = t,
                                  !.user = u, !.sent = IF op = "login" THEN None ELSE cookie]
    OBVIOUS
  <2>3. q.sent \in {None, cookie} /\ q.answer = None
        /\ (q.op = "refresh" => q.at \notin {"user", "write"})
    BY <2>2 DEF Idle
  <2>4. call' = [call EXCEPT ![c] = q] /\ cookie' = cookie
    BY <2>1, <2>2 DEF send, browser
  <2>5. Carried(q)'
    BY <1>1, <2>3, <2>4 DEF Carried, Drawn
  <2>6. QED  BY <1>1, <1>3, <2>4, <2>5
<1>6. ASSUME NEW c \in Calls, Works(c) PROVE CarriedSound'
  BY <1>1, <1>3, <1>6, WorksCarry
<1>7. ASSUME NEW c \in Calls, Receives(c) PROVE CarriedSound'
  <2>1. CASE receiveSession(c)
    BY <1>0, <1>3, <2>1, IdleCarries DEF receiveSession, Carried, Drawn
  <2>2. CASE receiveNone(c)
    BY <1>0, <1>3, <2>2, IdleCarries DEF receiveNone, Drawn
  <2>3. CASE rateLimited(c)
    BY <1>0, <1>1, <1>3, <2>3, IdleCarries DEF rateLimited
  <2>4. CASE callFails(c)
    BY <1>0, <1>3, <1>4, <2>4 DEF callFails, Drawn
  <2>5. QED  BY <1>7, <2>1, <2>2, <2>3, <2>4 DEF Receives
<1>8. ASSUME NEW t \in Tabs, hydrate(t) PROVE CarriedSound'
  <2>1. ASSUME NEW c \in Calls PROVE Carried(call[c])'
    <3>1. call'[c] \in {call[c], unheard(call[c])}
      BY <1>8 DEF hydrate
    <3>2. CASE call'[c] = unheard(call[c])
      BY <1>4, <3>2 DEF Carried, Drawn
    <3>3. QED  BY <1>2, <3>1, <3>2
  <2>2. QED  BY <1>1, <1>8, <2>1 DEF hydrate, CarriedSound
<1>9. CASE (\E k \in Tokens : expire(k)) \/ deleteUnusableTokens \/ (\E u \in Users : block(u)) \/ UNCHANGED vars
  <2>1. UNCHANGED <<cookie, call>>
    BY <1>9 DEF expire, deleteUnusableTokens, block, browser, vars
  <2>2. QED  BY <1>1, <1>2, <2>1 DEF CarriedSound
<1>10. QED  BY <1>5, <1>6, <1>7, <1>8, <1>9 DEF Next

(* What calls and cookies carry is sound in every reachable state. *)
THEOREM WhatIsCarried == Spec => []CarriedSound
<1>1. Init => CarriedSound
  BY DEF Init, CarriedSound, Carried, Drawn, Idle
<1>2. IInv /\ CarriedSound /\ [Next]_vars => CarriedSound'
  BY CarriedStep
<1>3. QED  BY <1>1, <1>2, Invariance, PTL DEF Spec

(* A session that has ended never comes back, and none changes hands.      *)
THEOREM OneUserForGood == Spec => SessionForLife
<1> DEFINE A == \A l, m \in Tokens :
                  token[l].state # "free" /\ token'[m].state = "active" /\ token'[m].login = l =>
                    \E k \in Tokens : token[k].state = "active" /\ token[k].login = l /\ token[k].user = token'[m].user
<1>1. ASSUME IInv, CarriedSound, [Next]_vars PROVE [A]_vars
  <2> SUFFICES ASSUME NEW l \in Tokens, NEW m \in Tokens,
                      token[l].state # "free", token'[m].state = "active", token'[m].login = l
               PROVE  \E k \in Tokens : /\ token[k].state = "active" /\ token[k].login = l
                                        /\ token[k].user = token'[m].user
    OBVIOUS
  <2>1. CASE token[m].state # "free" /\ token'[m].login = token[m].login
    BY <1>1, <2>1, DrawnStays
  <2>2. ASSUME NEW c \in Calls, rotate(c, m), token'[m].login = token[call[c].sent].login,
               call[c].sent \in Tokens, token[call[c].sent].state = "active"
        PROVE  token[call[c].sent].user = token'[m].user
    <3>1. token \in [Tokens -> Token] /\ Carried(call[c])
      BY <1>1 DEF IInv, TypeOK, CarriedSound
    <3>2. token'[m].user = call[c].user /\ call[c].op = "refresh" /\ call[c].at = "write"
      BY <2>2, <3>1 DEF rotate
    <3>3. QED  BY <2>2, <3>1, <3>2 DEF Carried
  <2>3. QED  BY <1>1, <2>1, <2>2, TokenWrites
<1>2. QED  BY <1>1, Invariance, WhatIsCarried, PTL DEF Spec, SessionForLife
=============================================================================
