------------------------- MODULE ApiSessionsProofs -------------------------
(***************************************************************************)
(* Theorems about ApiSessions, for every set of requests, token ids,       *)
(* accounts and products.                                                  *)
(***************************************************************************)
EXTENDS ApiSessions, TLAPS

Validating == {"known", "getSession", "checkRevoked", "checkExpiry", "serve", "revoke"}

\* What a request has established where it is.
RequestOK(r) ==
  /\ IF pc[r] = "idle" THEN user[r] = NONE ELSE request[r] # NONE
  /\ pc[r] \in {"authenticate", "register"} => Kind(r) = "login"
  /\ pc[r] = "decode" => Kind(r) # "login" /\ user[r] = NONE
  /\ pc[r] \in Validating => Kind(r) # "login" /\ token[r] # NONE
  /\ pc[r] \in Validating \ {"known"} => Stored(r) # NONE
  /\ pc[r] \in {"known", "getSession", "checkRevoked", "checkExpiry"} => user[r] = NONE
  /\ pc[r] \in {"serve", "revoke"} => user[r] # NONE
  /\ pc[r] \in {"checkRevoked", "checkExpiry"} => session[r] # NONE

\* A request that came after the logout of its token does not pass the check
\* of the session.
Barred(r) ==
  pc[r] # "idle" =>
    /\ request[r].past \subseteq loggedOut
    /\ pc[r] = "checkExpiry" \/ Authenticated(r) => <<App(r), TokenId(r)>> \notin request[r].past

\* The id of a session about to be stored is new to everything.
Fresh(r) ==
  pc[r] = "register" =>
    /\ user[r] # NONE
    /\ user[r].jti \in drawn
    /\ \A a \in Apps : sessions[a][user[r].jti] = NONE /\ <<a, user[r].jti>> \notin loggedOut

\* An answer of 200 carries what it promises.
AnswerOK(r) ==
  pc[r] = "answer" /\ status[r] = 200 =>
    /\ token[r] # NONE
    /\ Kind(r) = "logout" => Stored(r) # NONE /\ Stored(r).revoked

FreshDistinct ==
  \A q, r \in Requests :
    pc[q] = "register" /\ pc[r] = "register" /\ user[q].jti = user[r].jti => q = r

SessionsDrawn ==
  \A a \in Apps, t \in TokenIds :
    sessions[a][t] # NONE \/ <<a, t>> \in loggedOut => t \in drawn

LoggedOutRevoked ==
  \A a \in Apps, t \in TokenIds :
    <<a, t>> \in loggedOut => sessions[a][t] = NONE \/ sessions[a][t].revoked

IInv ==
  /\ TypeOK
  /\ \A r \in Requests : RequestOK(r) /\ Barred(r) /\ Fresh(r) /\ AnswerOK(r)
  /\ FreshDistinct /\ SessionsDrawn /\ LoggedOutRevoked

USE DEF App, Kind, TokenId, Stored

LEMMA NoneFacts ==
  /\ NONE \notin Claims /\ NONE \notin User /\ NONE \notin Session /\ NONE \notin Request
  /\ NONE \notin Roles
BY ApiSessionsAssumption

\* What the invariant says of one request.
RequestInv(r) == RequestOK(r) /\ Barred(r) /\ Fresh(r) /\ AnswerOK(r)

\* A step of request r on its own locals.
OwnLocals(r) ==
  \A q \in Requests \ {r} :
    /\ pc'[q] = pc[q] /\ request'[q] = request[q] /\ token'[q] = token[q]
    /\ session'[q] = session[q] /\ user'[q] = user[q] /\ status'[q] = status[q]

\* A step that leaves the stored sessions alone: the other requests keep what
\* they have established.
LEMMA OwnStep ==
  ASSUME IInv, NEW r \in Requests, OwnLocals(r), UNCHANGED store,
         TypeOK', RequestInv(r)', pc'[r] # "register"
  PROVE  IInv'
<1>1. ASSUME NEW q \in Requests \ {r} PROVE RequestInv(q)'
  <2>1. RequestInv(q)
    BY DEF IInv, RequestInv
  <2>2. RequestOK(q)'
    BY <2>1 DEF RequestInv, RequestOK, OwnLocals, store, Validating
  <2>3. Barred(q)'
    BY <2>1 DEF RequestInv, Barred, Authenticated, OwnLocals, store
  <2>4. Fresh(q)' /\ AnswerOK(q)'
    BY <2>1 DEF RequestInv, Fresh, AnswerOK, OwnLocals, store
  <2>5. QED
    BY <2>2, <2>3, <2>4 DEF RequestInv
<1>2. FreshDistinct'
  BY DEF IInv, FreshDistinct, OwnLocals
<1>3. SessionsDrawn' /\ LoggedOutRevoked'
  BY DEF IInv, SessionsDrawn, LoggedOutRevoked, store
<1>4. QED
  BY <1>1, <1>2, <1>3 DEF IInv, RequestInv

LEMMA SubmitLoginInv ==
  ASSUME IInv, NEW r \in Requests, NEW app \in Apps, NEW c \in Credentials, SubmitLogin(r, app, c)
  PROVE  IInv'
<1> DEFINE new == [app |-> app, kind |-> "login", credential |-> c, past |-> loggedOut]
<1>1. TypeOK /\ RequestInv(r)
  BY DEF IInv, RequestInv
<1>2. new \in Request /\ new # NONE
  BY <1>1, NoneFacts DEF Request, TypeOK
<1>3. /\ pc' \in [Requests -> PCs] /\ pc'[r] = "authenticate"
      /\ request' \in [Requests -> Request \cup {NONE}] /\ request'[r] = new
      /\ \A q \in Requests \ {r} : pc'[q] = pc[q] /\ request'[q] = request[q]
  BY <1>1, <1>2 DEF TypeOK, SubmitLogin, Goto, PCs
<1>4. TypeOK' /\ OwnLocals(r)
  BY <1>1, <1>3 DEF TypeOK, OwnLocals, SubmitLogin, world, store
<1>5. RequestInv(r)'
  BY <1>1, <1>2, <1>3
  DEF RequestInv, RequestOK, Barred, Fresh, AnswerOK, Validating, Authenticated, SubmitLogin, store
<1>6. QED
  BY <1>3, <1>4, <1>5, OwnStep DEF SubmitLogin

LEMMA SubmitInv ==
  ASSUME IInv, NEW r \in Requests, NEW app \in Apps, NEW kind \in Kinds,
         NEW t \in (UNION {tokens[a] : a \in Apps}) \cup {NONE}, Submit(r, app, kind, t)
  PROVE  IInv'
<1> DEFINE new == [app |-> app, kind |-> kind, credential |-> NONE, past |-> loggedOut]
<1>1. TypeOK /\ RequestInv(r)
  BY DEF IInv, RequestInv
<1>2. t \in Claims \cup {NONE}
  <2>1. CASE t = NONE
    BY <2>1
  <2>2. CASE t \in UNION {tokens[a] : a \in Apps}
    <3>1. PICK a \in Apps : t \in tokens[a]
      BY <2>2
    <3>2. tokens[a] \subseteq Claims
      BY <1>1 DEF TypeOK
    <3>3. QED
      BY <3>1, <3>2
  <2>3. QED
    BY <2>1, <2>2
<1>3. new \in Request /\ new # NONE /\ new.kind # "login"
  BY <1>1, NoneFacts DEF Request, TypeOK, Kinds
<1>4. /\ pc' \in [Requests -> PCs] /\ pc'[r] = "decode"
      /\ request' \in [Requests -> Request \cup {NONE}] /\ request'[r] = new
      /\ token' \in [Requests -> Claims \cup {NONE}] /\ token'[r] = t
      /\ \A q \in Requests \ {r} : pc'[q] = pc[q] /\ request'[q] = request[q] /\ token'[q] = token[q]
  BY <1>1, <1>2, <1>3 DEF TypeOK, Submit, Goto, PCs
<1>5. TypeOK' /\ OwnLocals(r)
  BY <1>1, <1>4 DEF TypeOK, OwnLocals, Submit, world, store
<1>6. user'[r] = NONE
  BY <1>1 DEF RequestInv, RequestOK, Submit
<1>7. RequestInv(r)'
  BY <1>1, <1>3, <1>4, <1>6
  DEF RequestInv, RequestOK, Barred, Fresh, AnswerOK, Validating, Authenticated, Submit, store
<1>8. QED
  BY <1>4, <1>5, <1>7, OwnStep DEF Submit

\* A step that answers, and one that only goes on to another place.
LEMMA AnswerInv ==
  ASSUME IInv, NEW r \in Requests, NEW s \in {200, 401, 403, 500, 503},
         Answer(r, s), UNCHANGED <<world, store, request, token, session, user>>,
         pc[r] # "idle", s = 200 => token[r] # NONE /\ Kind(r) # "logout"
  PROVE  IInv'
<1>1. TypeOK /\ RequestInv(r)
  BY DEF IInv, RequestInv
<1>2. /\ pc' \in [Requests -> PCs] /\ pc'[r] = "answer"
      /\ status' \in [Requests -> {0, 200, 401, 403, 500, 503}] /\ status'[r] = s
      /\ \A q \in Requests \ {r} : pc'[q] = pc[q] /\ status'[q] = status[q]
  BY <1>1 DEF TypeOK, Answer, Goto, PCs
<1>3. TypeOK' /\ OwnLocals(r)
  BY <1>1, <1>2 DEF TypeOK, OwnLocals, world, store
<1>4. RequestInv(r)'
  BY <1>1, <1>2
  DEF RequestInv, RequestOK, Barred, Fresh, AnswerOK, Validating, Authenticated, store
<1>5. QED
  BY <1>2, <1>3, <1>4, OwnStep

LEMMA GotoInv ==
  ASSUME IInv, NEW r \in Requests, NEW place \in PCs \ {"register"},
         Goto(r, place), UNCHANGED <<world, store, request, token, session, user, status>>,
         pc'[r] = place => RequestInv(r)'
  PROVE  IInv'
<1>1. TypeOK
  BY DEF IInv
<1>2. /\ pc' \in [Requests -> PCs] /\ pc'[r] = place
      /\ \A q \in Requests \ {r} : pc'[q] = pc[q]
  BY <1>1 DEF TypeOK, Goto
<1>3. TypeOK' /\ OwnLocals(r)
  BY <1>1, <1>2 DEF TypeOK, OwnLocals, world, store
<1>4. QED
  BY <1>2, <1>3, OwnStep

LEMMA DecodeInv ==
  ASSUME IInv, NEW r \in Requests, Decode(r)
  PROVE  IInv'
<1>1. TypeOK /\ RequestInv(r) /\ pc[r] = "decode"
  BY DEF IInv, RequestInv, Decode
<1>2. CASE Decodes(token[r], App(r))
  <2>1. Goto(r, "known") /\ UNCHANGED <<world, store, request, token, session, user, status>>
    BY <1>2 DEF Decode
  <2>2. token[r] # NONE
    BY <1>2 DEF Decodes
  <2>3. pc'[r] = "known" => RequestInv(r)'
    BY <1>1, <2>1, <2>2
    DEF RequestInv, RequestOK, Barred, Fresh, AnswerOK, Validating, Authenticated, store
  <2>4. QED
    BY <2>1, <2>3, GotoInv DEF PCs
<1>3. CASE ~Decodes(token[r], App(r))
  <2>1. Answer(r, 401) /\ UNCHANGED <<world, store, request, token, session, user>>
    BY <1>3 DEF Decode
  <2>2. QED
    BY <1>1, <2>1, AnswerInv
<1>4. QED
  BY <1>2, <1>3

LEMMA KnownInv ==
  ASSUME IInv, NEW r \in Requests, Known(r)
  PROVE  IInv'
<1>1. TypeOK /\ RequestInv(r) /\ pc[r] = "known"
  BY DEF IInv, RequestInv, Known
<1>2. CASE Stored(r) # NONE
  <2>1. Goto(r, "getSession") /\ UNCHANGED <<world, store, request, token, session, user, status>>
    BY <1>2 DEF Known
  <2>2. pc'[r] = "getSession" => RequestInv(r)'
    BY <1>1, <1>2, <2>1
    DEF RequestInv, RequestOK, Barred, Fresh, AnswerOK, Validating, Authenticated, store
  <2>3. QED
    BY <2>1, <2>2, GotoInv DEF PCs
<1>3. CASE Stored(r) = NONE
  <2>1. Answer(r, 401) /\ UNCHANGED <<world, store, request, token, session, user>>
    BY <1>3 DEF Known
  <2>2. QED
    BY <1>1, <2>1, AnswerInv
<1>4. QED
  BY <1>2, <1>3

LEMMA GetSessionInv ==
  ASSUME IInv, NEW r \in Requests, GetSession(r)
  PROVE  IInv'
<1>1. TypeOK /\ RequestInv(r) /\ pc[r] = "getSession"
  BY DEF IInv, RequestInv, GetSession
<1>2. token[r] \in Claims /\ request[r] \in Request
  BY <1>1 DEF TypeOK, RequestInv, RequestOK, Validating
<1>3. Stored(r) \in Session /\ Stored(r) # NONE
  BY <1>1, <1>2 DEF TypeOK, RequestInv, RequestOK, Validating, Request, Claims, User
<1>4. /\ pc' \in [Requests -> PCs] /\ pc'[r] \in {"checkRevoked", "answer"}
      /\ session' \in [Requests -> Session \cup {NONE}] /\ session'[r] # NONE
      /\ status' \in [Requests -> {0, 200, 401, 403, 500, 503}]
      /\ pc'[r] = "answer" => status'[r] = 401
      /\ \A q \in Requests \ {r} :
           pc'[q] = pc[q] /\ session'[q] = session[q] /\ status'[q] = status[q]
  BY <1>1, <1>3 DEF TypeOK, GetSession, Answer, Goto, PCs
<1>5. TypeOK' /\ OwnLocals(r)
  BY <1>1, <1>4 DEF TypeOK, OwnLocals, GetSession, world, store
<1>6. UNCHANGED store /\ UNCHANGED request /\ UNCHANGED token /\ UNCHANGED user
  BY DEF GetSession, store
<1>7. RequestOK(r)'
  BY <1>1, <1>4, <1>6 DEF RequestInv, RequestOK, Validating, store
<1>8. Barred(r)' /\ Fresh(r)' /\ AnswerOK(r)'
  BY <1>1, <1>4, <1>6 DEF RequestInv, Barred, Fresh, AnswerOK, Authenticated, store
<1>9. QED
  BY <1>4, <1>5, <1>6, <1>7, <1>8, OwnStep DEF RequestInv

\* Here a request with a past logout ends: the session is there, so the logout
\* has left it revoked.
LEMMA CheckRevokedInv ==
  ASSUME IInv, NEW r \in Requests, CheckRevoked(r)
  PROVE  IInv'
<1>1. TypeOK /\ RequestInv(r) /\ pc[r] = "checkRevoked"
  BY DEF IInv, RequestInv, CheckRevoked
<1>2. CASE ~Revoked(r)
  <2>1. Goto(r, "checkExpiry") /\ UNCHANGED <<world, store, request, token, session, user, status>>
    BY <1>2 DEF CheckRevoked
  <2>2. token[r] \in Claims /\ request[r] \in Request
    BY <1>1 DEF TypeOK, RequestInv, RequestOK, Validating
  <2>3. App(r) \in Apps /\ TokenId(r) \in TokenIds /\ Stored(r) # NONE
    BY <1>1, <2>2 DEF RequestInv, RequestOK, Validating, Request, Claims, User
  <2>4. <<App(r), TokenId(r)>> \notin loggedOut
    BY <1>2, <2>3 DEF Revoked, IInv, LoggedOutRevoked
  <2>5. pc'[r] = "checkExpiry" => RequestInv(r)'
    BY <1>1, <2>1, <2>4
    DEF RequestInv, RequestOK, Barred, Fresh, AnswerOK, Validating, Authenticated, store
  <2>6. QED
    BY <2>1, <2>5, GotoInv DEF PCs
<1>3. CASE Revoked(r)
  <2>1. Answer(r, 401) /\ UNCHANGED <<world, store, request, token, session, user>>
    BY <1>3 DEF CheckRevoked
  <2>2. QED
    BY <1>1, <2>1, AnswerInv
<1>4. QED
  BY <1>2, <1>3

LEMMA CheckExpiryInv ==
  ASSUME IInv, NEW r \in Requests, CheckExpiry(r)
  PROVE  IInv'
<1>1. TypeOK /\ RequestInv(r) /\ pc[r] = "checkExpiry"
  BY DEF IInv, RequestInv, CheckExpiry
<1>2. CASE ~(session[r].expires <= now)
  <2>1. token[r] \in Claims /\ token[r].sub \in User /\ token[r].sub # NONE
    BY <1>1, NoneFacts DEF TypeOK, RequestInv, RequestOK, Validating, Claims
  <2>2. /\ pc' \in [Requests -> PCs] /\ pc'[r] = "serve"
        /\ user' \in [Requests -> User \cup {NONE}] /\ user'[r] # NONE
        /\ \A q \in Requests \ {r} : pc'[q] = pc[q] /\ user'[q] = user[q]
    BY <1>1, <1>2, <2>1 DEF TypeOK, CheckExpiry, Goto, PCs
  <2>3. UNCHANGED <<world, store, request, token, session, status>>
    BY <1>2 DEF CheckExpiry
  <2>4. TypeOK' /\ OwnLocals(r)
    BY <1>1, <2>2, <2>3 DEF TypeOK, OwnLocals, world, store
  <2>5. RequestInv(r)'
    BY <1>1, <2>2, <2>3
    DEF RequestInv, RequestOK, Barred, Fresh, AnswerOK, Validating, Authenticated, store
  <2>6. QED
    BY <2>2, <2>3, <2>4, <2>5, OwnStep
<1>3. CASE session[r].expires <= now
  <2>1. Answer(r, 401) /\ UNCHANGED <<world, store, request, token, session, user>>
    BY <1>3 DEF CheckExpiry
  <2>2. QED
    BY <1>1, <2>1, AnswerInv
<1>4. QED
  BY <1>2, <1>3

\* The routes other than the logout answer at once.
LEMMA ServeInv ==
  ASSUME IInv, NEW r \in Requests,
         \/ ServeAdmin(r) \/ ListProducts(r)
         \/ \E product \in Products \cup {NONE} : ReadProduct(r, product)
  PROVE  IInv'
<1>1. RequestInv(r) /\ pc[r] = "serve" /\ Kind(r) # "logout"
  BY DEF IInv, RequestInv, ServeAdmin, ListProducts, ReadProduct
<1>2. token[r] # NONE
  BY <1>1 DEF RequestInv, RequestOK, Validating
<1>3. PICK s \in {200, 401, 403, 500, 503} :
        Answer(r, s) /\ UNCHANGED <<world, store, request, token, session, user>>
  BY DEF ServeAdmin, ListProducts, ReadProduct
<1>4. QED
  BY <1>1, <1>2, <1>3, AnswerInv

LEMMA KnownAgainInv ==
  ASSUME IInv, NEW r \in Requests, KnownAgain(r)
  PROVE  IInv'
<1>1. TypeOK /\ RequestInv(r) /\ pc[r] = "serve"
  BY DEF IInv, RequestInv, KnownAgain
<1>2. CASE Stored(r) # NONE
  <2>1. Goto(r, "revoke") /\ UNCHANGED <<world, store, request, token, session, user, status>>
    BY <1>2 DEF KnownAgain
  <2>2. pc'[r] = "revoke" => RequestInv(r)'
    BY <1>1, <1>2, <2>1
    DEF RequestInv, RequestOK, Barred, Fresh, AnswerOK, Validating, Authenticated, store
  <2>3. QED
    BY <2>1, <2>2, GotoInv DEF PCs
<1>3. CASE Stored(r) = NONE
  <2>1. Answer(r, 401) /\ UNCHANGED <<world, store, request, token, session, user>>
    BY <1>3 DEF KnownAgain
  <2>2. QED
    BY <1>1, <2>1, AnswerInv
<1>4. QED
  BY <1>2, <1>3

\* A step that changes shared state has to keep what every request relies on.
LEMMA AuthenticateInv ==
  ASSUME IInv, NEW r \in Requests, Authenticate(r)
  PROVE  IInv'
<1>1. TypeOK /\ RequestInv(r) /\ pc[r] = "authenticate"
  BY DEF IInv, RequestInv, Authenticate
<1> DEFINE c == request[r].credential
<1>2. ASSUME NEW row \in RowsNamed(c), NEW id \in TokenIds \ drawn, Accepts(row, c),
             user' = [user EXCEPT ![r] =
               [type |-> row.type, id |-> row.id, role |-> RoleOf(row), jti |-> id]],
             drawn' = drawn \cup {id}, Goto(r, "register"),
             UNCHANGED <<world, sessions, tokens, loggedOut, request, token, session, status>>
      PROVE  IInv'
  <2> DEFINE u == [type |-> row.type, id |-> row.id, role |-> RoleOf(row), jti |-> id]
  <2>1. row \in accounts /\ row.type \in Types /\ row.id \in Ids
    BY <1>1, ApiSessionsAssumption DEF TypeOK, RowsNamed
  <2>2. RoleOf(row) \in Roles
    BY <1>2, NoneFacts DEF Accepts, RoleOf, Roles
  <2>3. u \in User /\ u # NONE /\ u.jti = id
    BY <2>1, <2>2, NoneFacts DEF User
  <2>4. /\ pc' \in [Requests -> PCs] /\ pc'[r] = "register"
        /\ user' \in [Requests -> User \cup {NONE}] /\ user'[r] = u
        /\ \A q \in Requests \ {r} : pc'[q] = pc[q] /\ user'[q] = user[q]
    BY <1>1, <1>2, <2>3 DEF TypeOK, Goto, PCs
  <2>5. TypeOK' /\ OwnLocals(r)
    BY <1>1, <1>2, <2>4 DEF TypeOK, OwnLocals, world
  <2>6. \A a \in Apps : sessions[a][id] = NONE /\ <<a, id>> \notin loggedOut
    BY DEF IInv, SessionsDrawn
  <2>7. RequestInv(r)'
    BY <1>1, <1>2, <2>3, <2>4, <2>6
    DEF RequestInv, RequestOK, Barred, Fresh, AnswerOK, Validating, Authenticated
  <2>8. ASSUME NEW q \in Requests \ {r} PROVE RequestInv(q)'
    <3>1. RequestInv(q)
      BY DEF IInv, RequestInv
    <3>2. RequestOK(q)' /\ Barred(q)'
      BY <3>1, <1>2, <2>4 DEF RequestInv, RequestOK, Barred, Authenticated, Validating
    <3>3. Fresh(q)' /\ AnswerOK(q)'
      BY <3>1, <1>2, <2>4 DEF RequestInv, Fresh, AnswerOK
    <3>4. QED
      BY <3>2, <3>3 DEF RequestInv
  <2>9. FreshDistinct'
    <3>1. \A q \in Requests : pc[q] = "register" => user[q].jti \in drawn
      BY DEF IInv, Fresh
    <3>2. QED
      BY <3>1, <2>3, <2>4 DEF IInv, FreshDistinct
  <2>10. SessionsDrawn' /\ LoggedOutRevoked'
    BY <1>2 DEF IInv, SessionsDrawn, LoggedOutRevoked
  <2>11. QED
    BY <2>5, <2>7, <2>8, <2>9, <2>10 DEF IInv, RequestInv
<1>3. CASE Answer(r, 401) /\ UNCHANGED <<user, drawn>>
  <2>1. UNCHANGED <<world, store, request, token, session, user>>
    BY <1>3 DEF Authenticate, store
  <2>2. QED
    BY <1>1, <1>3, <2>1, AnswerInv
<1>4. QED
  BY <1>2, <1>3 DEF Authenticate

\* Changing the session of one id of one application leaves a request alone
\* that does not look at it, or for which it stays a session, revoked if it was.
LEMMA OtherSession ==
  ASSUME IInv, NEW r \in Requests, NEW q \in Requests \ {r}, OwnLocals(r),
         UNCHANGED <<drawn, loggedOut>>,
         \A a \in Apps, t \in TokenIds :
           /\ sessions[a][t] # NONE =>
                /\ sessions'[a][t] # NONE
                /\ sessions[a][t].revoked => sessions'[a][t].revoked
           /\ sessions[a][t] = NONE /\ sessions'[a][t] # NONE =>
                (pc[q] = "register" => user[q].jti # t)
  PROVE  RequestInv(q)'
<1>1. TypeOK /\ RequestInv(q)
  BY DEF IInv, RequestInv
<1>2. pc[q] # "idle" => request[q] \in Request
  BY <1>1 DEF TypeOK, RequestInv, RequestOK
<1>3. pc[q] # "idle" => App(q) \in Apps
  BY <1>2 DEF Request
<1>4. token[q] # NONE => TokenId(q) \in TokenIds
  BY <1>1 DEF TypeOK, Claims, User
<1>5. pc[q] = "register" => user[q].jti \in TokenIds
  BY <1>1 DEF TypeOK, RequestInv, Fresh, User
<1>6. RequestOK(q)'
  BY <1>1, <1>3, <1>4 DEF RequestInv, RequestOK, OwnLocals, Validating
<1>7. Barred(q)'
  BY <1>1 DEF RequestInv, Barred, OwnLocals, Authenticated
<1>8. Fresh(q)'
  BY <1>1, <1>5 DEF RequestInv, Fresh, OwnLocals
<1>9. AnswerOK(q)'
  <2>1. SUFFICES ASSUME pc'[q] = "answer", status'[q] = 200 PROVE AnswerOK(q)'
    BY DEF AnswerOK
  <2>2. pc[q] = "answer" /\ status[q] = 200 /\ token'[q] = token[q] /\ request'[q] = request[q]
    BY <2>1 DEF OwnLocals
  <2>3. token[q] # NONE /\ (Kind(q) = "logout" => Stored(q) # NONE /\ Stored(q).revoked)
    BY <1>1, <2>2 DEF RequestInv, AnswerOK
  <2>4. App(q) \in Apps /\ TokenId(q) \in TokenIds
    BY <1>3, <1>4, <2>2, <2>3
  <2>5. Kind(q) = "logout" =>
          sessions'[App(q)][TokenId(q)] # NONE /\ sessions'[App(q)][TokenId(q)].revoked
    BY <2>3, <2>4
  <2>6. QED
    BY <2>2, <2>3, <2>5 DEF AnswerOK
<1>10. QED
  BY <1>6, <1>7, <1>8, <1>9 DEF RequestInv

LEMMA SessionStored ==
  ASSUME TypeOK, NEW a \in Apps, NEW t \in TokenIds, NEW s \in Session,
         sessions' = [sessions EXCEPT ![a][t] = s]
  PROVE  /\ sessions' \in [Apps -> [TokenIds -> Session \cup {NONE}]]
         /\ \A b \in Apps, i \in TokenIds :
              sessions'[b][i] = IF b = a /\ i = t THEN s ELSE sessions[b][i]
BY DEF TypeOK

LEMMA RegisterInv ==
  ASSUME IInv, NEW r \in Requests, Register(r)
  PROVE  IInv'
<1> DEFINE u == user[r]
           t == ClaimsOf(u, App(r), now)
           s == SessionOf(u, now)
<1>1. TypeOK /\ RequestInv(r) /\ pc[r] = "register"
  BY DEF IInv, RequestInv, Register
<1>2. u \in User /\ u # NONE /\ u.jti \in TokenIds /\ App(r) \in Apps /\ Kind(r) = "login"
  BY <1>1 DEF TypeOK, RequestInv, RequestOK, Fresh, User, Request
<1>3. WholeSecond(now + Life) \in Int
  BY <1>1, ApiSessionsAssumption DEF TypeOK, WholeSecond
<1>4. t \in Claims /\ t # NONE /\ t.sub = u
  BY <1>2, <1>3, NoneFacts, ApiSessionsAssumption DEF ClaimsOf, Claims, Audience
<1>5. s \in Session /\ s # NONE /\ ~s.revoked
  <2>1. now + Life \in Nat
    BY <1>1, ApiSessionsAssumption DEF TypeOK
  <2>2. s \in Session /\ ~s.revoked
    BY <1>2, <2>1 DEF SessionOf, Session, User
  <2>3. QED
    BY <2>2, NoneFacts
<1>6. /\ pc' \in [Requests -> PCs] /\ pc'[r] = "answer"
      /\ status' \in [Requests -> {0, 200, 401, 403, 500, 503}]
      /\ token' \in [Requests -> Claims \cup {NONE}] /\ token'[r] = t
      /\ \A q \in Requests \ {r} : pc'[q] = pc[q] /\ status'[q] = status[q] /\ token'[q] = token[q]
  BY <1>1, <1>4 DEF TypeOK, Register, Answer, Goto, PCs
<1>7. /\ sessions' \in [Apps -> [TokenIds -> Session \cup {NONE}]]
      /\ \A a \in Apps, i \in TokenIds :
           sessions'[a][i] = IF a = App(r) /\ i = u.jti THEN s ELSE sessions[a][i]
  BY <1>1, <1>2, <1>5, SessionStored DEF Register
<1>8. UNCHANGED <<world, drawn, tokens, loggedOut, request, session, user>>
  BY DEF Register
<1>9. TypeOK' /\ OwnLocals(r)
  BY <1>1, <1>6, <1>7, <1>8 DEF TypeOK, OwnLocals, world
<1>10. RequestInv(r)'
  <2>1. request[r].past \subseteq loggedOut
    BY <1>1 DEF RequestInv, Barred
  <2>2. RequestOK(r)' /\ Barred(r)' /\ Fresh(r)'
    BY <1>1, <1>2, <1>6, <1>8, <2>1
    DEF RequestInv, RequestOK, Barred, Fresh, Validating, Authenticated
  <2>3. AnswerOK(r)'
    BY <1>2, <1>4, <1>6, <1>8 DEF AnswerOK
  <2>4. QED
    BY <2>2, <2>3 DEF RequestInv
<1>11. ASSUME NEW q \in Requests \ {r} PROVE RequestInv(q)'
  <2>1. sessions[App(r)][u.jti] = NONE
    BY <1>1, <1>2 DEF RequestInv, Fresh
  <2>2. pc[q] = "register" => user[q].jti # u.jti
    BY <1>1 DEF IInv, FreshDistinct
  <2>3. QED
    BY <1>7, <1>8, <1>9, <2>1, <2>2, OtherSession
<1>12. FreshDistinct'
  BY <1>6, <1>8 DEF IInv, FreshDistinct
<1>13. SessionsDrawn' /\ LoggedOutRevoked'
  <2>1. u.jti \in drawn /\ \A a \in Apps : <<a, u.jti>> \notin loggedOut
    BY <1>1 DEF RequestInv, Fresh
  <2>2. SessionsDrawn'
    BY <1>7, <1>8, <2>1 DEF IInv, SessionsDrawn
  <2>3. LoggedOutRevoked'
    BY <1>7, <1>8, <2>1 DEF IInv, LoggedOutRevoked
  <2>4. QED
    BY <2>2, <2>3
<1>14. QED
  BY <1>9, <1>10, <1>11, <1>12, <1>13 DEF IInv, RequestInv

LEMMA RevokeInv ==
  ASSUME IInv, NEW r \in Requests, Revoke(r)
  PROVE  IInv'
<1> DEFINE s == [Stored(r) EXCEPT !.revoked = TRUE]
<1>1. TypeOK /\ RequestInv(r) /\ pc[r] = "revoke"
  BY DEF IInv, RequestInv, Revoke
<1>2. token[r] \in Claims /\ request[r] \in Request /\ Stored(r) # NONE
  BY <1>1 DEF TypeOK, RequestInv, RequestOK, Validating
<1>3. App(r) \in Apps /\ TokenId(r) \in TokenIds
  BY <1>2 DEF Request, Claims, User
<1>4. Stored(r) \in Session
  BY <1>1, <1>2, <1>3 DEF TypeOK
<1>5. s \in Session /\ s # NONE /\ s.revoked
  BY <1>4, NoneFacts DEF Session
<1>6. /\ pc' \in [Requests -> PCs] /\ pc'[r] = "answer"
      /\ status' \in [Requests -> {0, 200, 401, 403, 500, 503}]
      /\ \A q \in Requests \ {r} : pc'[q] = pc[q] /\ status'[q] = status[q]
  BY <1>1 DEF TypeOK, Revoke, Answer, Goto, PCs
<1>7. /\ sessions' \in [Apps -> [TokenIds -> Session \cup {NONE}]]
      /\ \A a \in Apps, i \in TokenIds :
           sessions'[a][i] = IF a = App(r) /\ i = TokenId(r) THEN s ELSE sessions[a][i]
  <2>1. sessions' = [sessions EXCEPT ![App(r)][TokenId(r)] = s]
    BY <1>1, <1>2, <1>3 DEF TypeOK, Revoke
  <2>2. PICK a \in Apps, t \in TokenIds, x \in Session : a = App(r) /\ t = TokenId(r) /\ x = s
    BY <1>3, <1>5
  <2>3. sessions' = [sessions EXCEPT ![a][t] = x]
    BY <2>1, <2>2
  <2>4. /\ sessions' \in [Apps -> [TokenIds -> Session \cup {NONE}]]
        /\ \A b \in Apps, i \in TokenIds :
             sessions'[b][i] = IF b = a /\ i = t THEN x ELSE sessions[b][i]
    BY <1>1, <2>3, SessionStored
  <2> HIDE DEF s
  <2>5. QED
    BY <2>2, <2>4
<1>8. UNCHANGED <<world, drawn, tokens, loggedOut, request, token, session, user>>
  BY DEF Revoke
<1>9. TypeOK' /\ OwnLocals(r)
  BY <1>1, <1>6, <1>7, <1>8 DEF TypeOK, OwnLocals, world
<1>10. RequestInv(r)'
  <2>1. Stored(r)' = s
    BY <1>3, <1>7, <1>8
  <2>2. RequestOK(r)' /\ Barred(r)' /\ Fresh(r)'
    BY <1>1, <1>6, <1>8 DEF RequestInv, RequestOK, Barred, Fresh, Validating, Authenticated
  <2>3. AnswerOK(r)'
    BY <1>2, <1>5, <1>8, <2>1, NoneFacts DEF AnswerOK
  <2>4. QED
    BY <2>2, <2>3 DEF RequestInv
<1>11. ASSUME NEW q \in Requests \ {r} PROVE RequestInv(q)'
  <2>1. \A a \in Apps, t \in TokenIds :
          /\ sessions[a][t] # NONE =>
               /\ sessions'[a][t] # NONE
               /\ sessions[a][t].revoked => sessions'[a][t].revoked
          /\ sessions[a][t] = NONE => sessions'[a][t] = NONE
    BY <1>2, <1>5, <1>7
  <2>2. QED
    BY <1>8, <1>9, <2>1, OtherSession
<1>12. FreshDistinct'
  BY <1>6, <1>8 DEF IInv, FreshDistinct
<1>13. SessionsDrawn' /\ LoggedOutRevoked'
  BY <1>2, <1>5, <1>7, <1>8 DEF IInv, SessionsDrawn, LoggedOutRevoked
<1>14. QED
  BY <1>9, <1>10, <1>11, <1>12, <1>13 DEF IInv, RequestInv

\* The end of a request: only its own state is reset.
LEMMA FinishOwn ==
  ASSUME TypeOK, NEW r \in Requests, Finish(r)
  PROVE  /\ pc' \in [Requests -> PCs] /\ pc'[r] = "idle"
         /\ request' \in [Requests -> Request \cup {NONE}]
         /\ token' \in [Requests -> Claims \cup {NONE}]
         /\ session' \in [Requests -> Session \cup {NONE}]
         /\ user' \in [Requests -> User \cup {NONE}] /\ user'[r] = NONE
         /\ status' \in [Requests -> {0, 200, 401, 403, 500, 503}]
         /\ OwnLocals(r)
<1>1. /\ pc' \in [Requests -> PCs] /\ pc'[r] = "idle"
      /\ request' \in [Requests -> Request \cup {NONE}]
      /\ token' \in [Requests -> Claims \cup {NONE}]
  BY DEF TypeOK, Finish, Goto, PCs
<1>2. /\ session' \in [Requests -> Session \cup {NONE}]
      /\ user' \in [Requests -> User \cup {NONE}] /\ user'[r] = NONE
      /\ status' \in [Requests -> {0, 200, 401, 403, 500, 503}]
  BY DEF TypeOK, Finish
<1>3. OwnLocals(r)
  BY DEF TypeOK, Finish, Goto, OwnLocals
<1>4. QED
  BY <1>1, <1>2, <1>3

LEMMA FailInv ==
  ASSUME IInv, NEW r \in Requests, Fail(r)
  PROVE  IInv'
<1>1. TypeOK /\ Finish(r) /\ UNCHANGED <<world, store>>
  BY DEF IInv, Fail
<1>2. pc'[r] = "idle" /\ user'[r] = NONE /\ OwnLocals(r)
  BY <1>1, FinishOwn
<1>3. TypeOK'
  BY <1>1, FinishOwn DEF TypeOK, world, store
<1>4. RequestInv(r)'
  BY <1>2 DEF RequestInv, RequestOK, Barred, Fresh, AnswerOK, Validating
<1>5. QED
  BY <1>1, <1>2, <1>3, <1>4, OwnStep

\* Only the answer to a logout adds to loggedOut; the session is then revoked,
\* and a request that came before is not concerned.
LEMMA RespondInv ==
  ASSUME IInv, NEW r \in Requests, Respond(r)
  PROVE  IInv'
<1>1. TypeOK /\ RequestInv(r) /\ pc[r] = "answer" /\ Finish(r) /\ UNCHANGED <<world, sessions, drawn>>
  BY DEF IInv, RequestInv, Respond
<1>2. pc'[r] = "idle" /\ user'[r] = NONE /\ OwnLocals(r)
  BY <1>1, FinishOwn
<1>3. request[r] \in Request /\ App(r) \in Apps
  BY <1>1 DEF TypeOK, RequestInv, RequestOK, Request
<1>4. status[r] = 200 => token[r] \in Claims /\ TokenId(r) \in TokenIds
  BY <1>1 DEF TypeOK, RequestInv, AnswerOK, Claims, User
<1>5. tokens' \in [Apps -> SUBSET Claims]
  BY <1>1, <1>3, <1>4 DEF TypeOK, Respond
<1>6. loggedOut' \subseteq Apps \X TokenIds /\ loggedOut \subseteq loggedOut'
  BY <1>1, <1>3, <1>4 DEF TypeOK, Respond
<1>7. TypeOK'
  BY <1>1, <1>5, <1>6, FinishOwn DEF TypeOK, world
<1>8. \A p \in loggedOut' \ loggedOut :
        /\ p = <<App(r), TokenId(r)>> /\ status[r] = 200 /\ Kind(r) = "logout"
  BY DEF Respond
<1>9. Kind(r) = "logout" /\ status[r] = 200 => Stored(r) # NONE /\ Stored(r).revoked
  BY <1>1 DEF RequestInv, AnswerOK
<1>10. RequestInv(r)'
  BY <1>2 DEF RequestInv, RequestOK, Barred, Fresh, AnswerOK, Validating
<1>11. ASSUME NEW q \in Requests \ {r} PROVE RequestInv(q)'
  <2>1. RequestInv(q)
    BY DEF IInv, RequestInv
  <2>2. RequestOK(q)' /\ AnswerOK(q)'
    BY <1>1, <1>2, <2>1 DEF RequestInv, RequestOK, AnswerOK, OwnLocals, Validating
  <2>3. Barred(q)'
    BY <1>2, <1>6, <2>1 DEF RequestInv, Barred, OwnLocals, Authenticated
  <2>4. ASSUME pc'[q] = "register", NEW a \in Apps
        PROVE  <<a, user[q].jti>> \notin loggedOut'
    <3>1. /\ user[q].jti \in drawn
          /\ \A b \in Apps : sessions[b][user[q].jti] = NONE /\ <<b, user[q].jti>> \notin loggedOut
      BY <1>2, <2>1, <2>4 DEF RequestInv, Fresh, OwnLocals
    <3>2. QED
      BY <1>3, <1>8, <1>9, <3>1
  <2>5. Fresh(q)'
    BY <1>1, <1>2, <2>1, <2>4 DEF RequestInv, Fresh, OwnLocals
  <2>6. QED
    BY <2>2, <2>3, <2>5 DEF RequestInv
<1>12. FreshDistinct'
  BY <1>2 DEF IInv, FreshDistinct, OwnLocals
<1>13. SessionsDrawn' /\ LoggedOutRevoked'
  <2>1. ASSUME NEW a \in Apps, NEW t \in TokenIds, <<a, t>> \in loggedOut'
        PROVE  t \in drawn /\ (sessions[a][t] = NONE \/ sessions[a][t].revoked)
    <3>1. CASE <<a, t>> \in loggedOut
      BY <3>1 DEF IInv, SessionsDrawn, LoggedOutRevoked
    <3>2. CASE <<a, t>> \notin loggedOut
      <4>1. a = App(r) /\ t = TokenId(r) /\ Stored(r) # NONE /\ Stored(r).revoked
        BY <1>8, <1>9, <2>1, <3>2
      <4>2. QED
        BY <4>1 DEF IInv, SessionsDrawn
    <3>3. QED
      BY <3>1, <3>2
  <2>2. QED
    BY <1>1, <2>1 DEF IInv, SessionsDrawn, LoggedOutRevoked
<1>14. QED
  BY <1>7, <1>10, <1>11, <1>12, <1>13 DEF IInv, RequestInv

\* Sessions of the sandbox vanish only together with every request.
LEMMA RestartInv ==
  ASSUME IInv, Restart
  PROVE  IInv'
<1>1. TypeOK /\ UNCHANGED <<world, drawn, tokens, loggedOut>>
  BY DEF IInv, Restart, StartFrom
<1>2. /\ sessions' \in [Apps -> [TokenIds -> Session \cup {NONE}]]
      /\ \A a \in Apps, t \in TokenIds : sessions'[a][t] \in {sessions[a][t], NONE}
  BY <1>1 DEF TypeOK, Restart, StartFrom
<1>3. \A r \in Requests : pc'[r] = "idle" /\ user'[r] = NONE
  BY DEF Restart, StartFrom
<1>4. TypeOK'
  BY <1>1, <1>2 DEF TypeOK, Restart, StartFrom, PCs, world
<1>5. \A r \in Requests : RequestInv(r)'
  BY <1>3 DEF RequestInv, RequestOK, Barred, Fresh, AnswerOK, Validating
<1>6. FreshDistinct' /\ SessionsDrawn' /\ LoggedOutRevoked'
  BY <1>1, <1>2, <1>3 DEF IInv, FreshDistinct, SessionsDrawn, LoggedOutRevoked
<1>7. QED
  BY <1>4, <1>5, <1>6 DEF IInv, RequestInv

\* What the world does, and a stuttering step.
LEMMA WorldInv ==
  ASSUME IInv,
         Tick \/ (\E table \in AccountTables : EditAccounts(table)) \/ UNCHANGED vars
  PROVE  IInv'
<1>1. UNCHANGED <<store, pc, locals>>
  BY DEF Tick, EditAccounts, vars
<1>2. TypeOK
  BY DEF IInv
<1>3. now' \in Nat /\ accounts' \in AccountTables
  BY <1>2 DEF TypeOK, Tick, EditAccounts, vars, world
<1>4. TypeOK'
  BY <1>1, <1>2, <1>3 DEF TypeOK, store, locals
<1>5. ASSUME NEW r \in Requests PROVE RequestInv(r)'
  <2>1. RequestInv(r)
    BY DEF IInv, RequestInv
  <2>2. RequestOK(r)'
    BY <1>1, <2>1 DEF RequestInv, RequestOK, Validating, store, locals
  <2>3. Barred(r)' /\ Fresh(r)' /\ AnswerOK(r)'
    BY <1>1, <2>1 DEF RequestInv, Barred, Fresh, AnswerOK, Authenticated, store, locals
  <2>4. QED
    BY <2>2, <2>3 DEF RequestInv
<1>6. FreshDistinct' /\ SessionsDrawn' /\ LoggedOutRevoked'
  BY <1>1 DEF IInv, FreshDistinct, SessionsDrawn, LoggedOutRevoked, store, locals
<1>7. QED
  BY <1>4, <1>5, <1>6 DEF IInv, RequestInv

LEMMA InitInv == Init => IInv
<1> SUFFICES ASSUME Init PROVE IInv
  OBVIOUS
<1>1. TypeOK
  BY DEF Init, TypeOK, PCs
<1>2. \A r \in Requests : RequestInv(r)
  BY DEF Init, RequestInv, RequestOK, Barred, Fresh, AnswerOK, Validating
<1>3. FreshDistinct /\ SessionsDrawn /\ LoggedOutRevoked
  BY DEF Init, FreshDistinct, SessionsDrawn, LoggedOutRevoked
<1>4. QED
  BY <1>1, <1>2, <1>3 DEF IInv, RequestInv

LEMMA StepInv == IInv /\ [Next]_vars => IInv'
<1> SUFFICES ASSUME IInv, [Next]_vars PROVE IInv'
  OBVIOUS
<1>1. CASE \E r \in Requests, app \in Apps, c \in Credentials : SubmitLogin(r, app, c)
  BY <1>1, SubmitLoginInv
<1>2. CASE \E r \in Requests, app \in Apps, kind \in Kinds,
              t \in (UNION {tokens[a] : a \in Apps}) \cup {NONE} : Submit(r, app, kind, t)
  BY <1>2, SubmitInv
<1>3. CASE \E r \in Requests : Authenticate(r) \/ Register(r)
  BY <1>3, AuthenticateInv, RegisterInv
<1>4. CASE \E r \in Requests : Validate(r)
  BY <1>4, DecodeInv, KnownInv, GetSessionInv, CheckRevokedInv, CheckExpiryInv DEF Validate
<1>5. CASE \E r \in Requests : Serve(r)
  BY <1>5, ServeInv, KnownAgainInv, RevokeInv DEF Serve
<1>6. CASE \E r \in Requests : Respond(r) \/ Fail(r)
  BY <1>6, RespondInv, FailInv
<1>7. CASE Restart
  BY <1>7, RestartInv
<1>8. CASE Tick \/ (\E table \in AccountTables : EditAccounts(table)) \/ UNCHANGED vars
  BY <1>8, WorldInv
<1>9. QED
  BY <1>1, <1>2, <1>3, <1>4, <1>5, <1>6, <1>7, <1>8 DEF Next

LEMMA Invariant == Spec => []IInv
<1>1. QED
  BY InitInv, StepInv, PTL DEF Spec

\* Type correctness of logins, tokens and sessions.
THEOREM TypeCorrect == Spec => []TypeOK
<1>1. IInv => TypeOK
  BY DEF IInv
<1>2. QED
  BY <1>1, Invariant, PTL

\* A logout that has been answered bars every later request from using the
\* token, through restarts and whatever other requests do.
THEOREM LogoutFinal == Spec => []LogoutIsFinal
<1>1. IInv => LogoutIsFinal
  BY DEF IInv, LogoutIsFinal, Barred
<1>2. QED
  BY <1>1, Invariant, PTL

-----------------------------------------------------------------------------
(* Tokens of the two applications                                          *)

\* Tokens carry the audience of the application that answered them, and a
\* request past the decoding holds a token of its own application.
ApartOf(r) ==
  /\ pc[r] = "decode" => token[r] = NONE \/ \E a \in Apps : token[r] \in tokens[a]
  /\ pc[r] \in Validating => token[r] \in tokens[App(r)]
  /\ pc[r] = "answer" /\ Kind(r) = "login" /\ status[r] = 200 => token[r].aud = Audience(App(r))

OwnAudience == \A a \in Apps : \A t \in tokens[a] : t.aud = Audience(a)

Apart == OwnAudience /\ \A r \in Requests : ApartOf(r)

LEMMA ApartOwn ==
  ASSUME Apart, NEW r \in Requests, OwnLocals(r), UNCHANGED tokens, ApartOf(r)'
  PROVE  Apart'
<1>1. OwnAudience'
  BY DEF Apart, OwnAudience
<1>2. ASSUME NEW q \in Requests \ {r} PROVE ApartOf(q)'
  <2>1. ApartOf(q)
    BY DEF Apart
  <2>2. QED
    BY <2>1 DEF ApartOf, OwnLocals
<1>3. QED
  BY <1>1, <1>2 DEF Apart

LEMMA AudienceInjective ==
  ASSUME NEW a \in Apps, NEW b \in Apps, Audience(a) = Audience(b)
  PROVE  a = b
BY ApiSessionsAssumption DEF Audience, Apps

\* The steps between the decoding and the answer.
LEMMA ValidatingApart ==
  ASSUME IInv, Apart, NEW r \in Requests, Known(r) \/ GetSession(r) \/ CheckRevoked(r)
           \/ CheckExpiry(r) \/ Serve(r)
  PROVE  Apart'
<1>1. TypeOK /\ RequestOK(r) /\ ApartOf(r)
  BY DEF IInv, Apart
<1>2. pc[r] \in Validating /\ UNCHANGED <<tokens, request, token>>
  BY DEF Known, GetSession, CheckRevoked, CheckExpiry, Serve, ServeAdmin, ListProducts, KnownAgain,
         Revoke, ReadProduct, store, Validating
<1>3. pc'[r] \in Validating \cup {"answer"} /\ \A q \in Requests \ {r} : pc'[q] = pc[q]
  BY <1>1 DEF TypeOK, Known, GetSession, CheckRevoked, CheckExpiry, Serve, ServeAdmin, ListProducts,
         KnownAgain, Revoke, ReadProduct, Answer, Goto, Validating
<1>4. \A q \in Requests \ {r} : session'[q] = session[q] /\ user'[q] = user[q] /\ status'[q] = status[q]
  BY <1>1 DEF TypeOK, Known, GetSession, CheckRevoked, CheckExpiry, Serve, ServeAdmin, ListProducts,
         KnownAgain, Revoke, ReadProduct, Answer
<1>5. OwnLocals(r)
  BY <1>2, <1>3, <1>4 DEF OwnLocals
<1>6. ApartOf(r)'
  BY <1>1, <1>2, <1>3 DEF ApartOf, RequestOK, Validating
<1>7. QED
  BY <1>2, <1>5, <1>6, ApartOwn

LEMMA DecodeApart ==
  ASSUME IInv, Apart, NEW r \in Requests, Decode(r)
  PROVE  Apart'
<1>1. TypeOK /\ RequestOK(r) /\ ApartOf(r) /\ pc[r] = "decode"
  BY DEF IInv, Apart, Decode
<1>2. UNCHANGED <<world, store, request, token, session, user>>
  BY DEF Decode
<1>3. /\ pc'[r] \in {"known", "answer"}
      /\ pc'[r] = "known" => Decodes(token[r], App(r))
      /\ \A q \in Requests \ {r} : pc'[q] = pc[q] /\ status'[q] = status[q]
  BY <1>1 DEF TypeOK, Decode, Answer, Goto
<1>4. ASSUME Decodes(token[r], App(r)) PROVE token[r] \in tokens[App(r)]
  <2>1. App(r) \in Apps
    BY <1>1 DEF TypeOK, RequestOK, Request
  <2>2. PICK a \in Apps : token[r] \in tokens[a]
    BY <1>1, <1>4 DEF ApartOf, Decodes
  <2>3. Audience(a) = Audience(App(r))
    BY <1>4, <2>2 DEF Apart, OwnAudience, Decodes, AudienceFits
  <2>4. QED
    BY <2>1, <2>2, <2>3, AudienceInjective
<1>5. ApartOf(r)'
  BY <1>1, <1>2, <1>3, <1>4 DEF ApartOf, RequestOK, Validating, store
<1>6. OwnLocals(r)
  BY <1>2, <1>3 DEF OwnLocals
<1>7. QED
  BY <1>2, <1>5, <1>6, ApartOwn DEF store

\* Before the decoding, and the end of a login.
LEMMA LoginApart ==
  ASSUME IInv, Apart, NEW r \in Requests,
         \/ \E app \in Apps, c \in Credentials : SubmitLogin(r, app, c)
         \/ \E app \in Apps, kind \in Kinds, t \in (UNION {tokens[a] : a \in Apps}) \cup {NONE} :
              Submit(r, app, kind, t)
         \/ Authenticate(r) \/ Register(r)
  PROVE  Apart'
<1>1. TypeOK /\ ApartOf(r)
  BY DEF IInv, Apart
<1>2. CASE \E app \in Apps, c \in Credentials : SubmitLogin(r, app, c)
  <2>1. pc'[r] = "authenticate" /\ OwnLocals(r)
    BY <1>1, <1>2 DEF TypeOK, SubmitLogin, Goto, OwnLocals
  <2>2. ApartOf(r)' /\ UNCHANGED tokens
    BY <1>2, <2>1 DEF ApartOf, Validating, SubmitLogin, store
  <2>3. QED
    BY <2>1, <2>2, ApartOwn
<1>3. ASSUME NEW app \in Apps, NEW kind \in Kinds,
             NEW t \in (UNION {tokens[a] : a \in Apps}) \cup {NONE}, Submit(r, app, kind, t)
      PROVE  Apart'
  <2>1. pc'[r] = "decode" /\ token'[r] = t /\ OwnLocals(r) /\ UNCHANGED tokens
    BY <1>1, <1>3 DEF TypeOK, Submit, Goto, OwnLocals, store
  <2>2. t = NONE \/ \E a \in Apps : t \in tokens[a]
    OBVIOUS
  <2>3. ApartOf(r)'
    BY <2>1, <2>2 DEF ApartOf, Validating
  <2>4. QED
    BY <2>1, <2>3, ApartOwn
<1>4. CASE Authenticate(r)
  <2>1. pc'[r] \in {"register", "answer"} /\ pc'[r] = "answer" => status'[r] = 401
    BY <1>1, <1>4 DEF TypeOK, Authenticate, Answer, Goto
  <2>2. pc'[r] \in {"register", "answer"} /\ OwnLocals(r) /\ UNCHANGED tokens
    BY <1>1, <1>4 DEF TypeOK, Authenticate, Answer, Goto, OwnLocals
  <2>3. ApartOf(r)'
    BY <2>1, <2>2 DEF ApartOf, Validating
  <2>4. QED
    BY <2>2, <2>3, ApartOwn
<1>5. CASE Register(r)
  <2>1. /\ pc'[r] = "answer" /\ token'[r] = ClaimsOf(user[r], App(r), now)
        /\ OwnLocals(r) /\ UNCHANGED <<tokens, request>>
    BY <1>1, <1>5 DEF TypeOK, Register, Answer, Goto, OwnLocals
  <2>2. ApartOf(r)'
    BY <2>1 DEF ApartOf, Validating, ClaimsOf
  <2>3. QED
    BY <2>1, <2>2, ApartOwn
<1>6. QED
  BY <1>2, <1>3, <1>4, <1>5

LEMMA EndApart ==
  ASSUME IInv, Apart, NEW r \in Requests, Respond(r) \/ Fail(r)
  PROVE  Apart'
<1>1. TypeOK /\ RequestOK(r) /\ ApartOf(r) /\ Finish(r) /\ pc[r] # "idle"
  BY DEF IInv, Apart, Respond, Fail
<1>2. pc'[r] = "idle" /\ OwnLocals(r)
  BY <1>1, FinishOwn
<1>3. App(r) \in Apps
  BY <1>1 DEF TypeOK, RequestOK, Request
<1>4. \A a \in Apps :
        /\ tokens[a] \subseteq tokens'[a]
        /\ \A t \in tokens'[a] \ tokens[a] : t.aud = Audience(a)
  <2>1. CASE Fail(r)
    BY <2>1 DEF Fail, store
  <2>2. CASE Respond(r)
    <3>1. \/ tokens' = tokens
          \/ /\ tokens' = [tokens EXCEPT ![App(r)] = @ \cup {token[r]}]
             /\ Kind(r) = "login" /\ status[r] = 200 /\ pc[r] = "answer"
      BY <2>2 DEF Respond
    <3>2. QED
      BY <1>1, <1>3, <3>1 DEF TypeOK, ApartOf
  <2>3. QED
    BY <2>1, <2>2
<1>5. OwnAudience'
  BY <1>4 DEF Apart, OwnAudience
<1>6. ApartOf(r)'
  BY <1>2 DEF ApartOf, Validating
<1>7. ASSUME NEW q \in Requests \ {r} PROVE ApartOf(q)'
  <2>1. ApartOf(q) /\ RequestOK(q)
    BY DEF Apart, IInv
  <2>2. pc[q] # "idle" => App(q) \in Apps
    BY <1>1, <2>1 DEF TypeOK, RequestOK, Request
  <2>3. QED
    BY <1>2, <1>4, <2>1, <2>2 DEF ApartOf, OwnLocals, Validating
<1>8. QED
  BY <1>5, <1>6, <1>7 DEF Apart

LEMMA StepApart == IInv /\ Apart /\ [Next]_vars => Apart'
<1> SUFFICES ASSUME IInv, Apart, [Next]_vars PROVE Apart'
  OBVIOUS
<1>1. ASSUME NEW r \in Requests,
             \/ \E app \in Apps, c \in Credentials : SubmitLogin(r, app, c)
             \/ \E app \in Apps, kind \in Kinds, t \in (UNION {tokens[a] : a \in Apps}) \cup {NONE} :
                  Submit(r, app, kind, t)
             \/ Authenticate(r) \/ Register(r)
      PROVE  Apart'
  BY <1>1, LoginApart
<1>2. ASSUME NEW r \in Requests, Validate(r) \/ Serve(r) PROVE Apart'
  BY <1>2, DecodeApart, ValidatingApart DEF Validate
<1>3. ASSUME NEW r \in Requests, Respond(r) \/ Fail(r) PROVE Apart'
  BY <1>3, EndApart
<1>4. CASE Restart
  <2>1. UNCHANGED tokens /\ \A r \in Requests : pc'[r] = "idle"
    BY <1>4 DEF Restart, StartFrom
  <2>2. QED
    BY <2>1 DEF Apart, ApartOf, OwnAudience, Validating
<1>5. CASE Tick \/ (\E table \in AccountTables : EditAccounts(table)) \/ UNCHANGED vars
  <2>1. UNCHANGED <<store, pc, locals>>
    BY <1>5 DEF Tick, EditAccounts, vars
  <2>2. QED
    BY <2>1 DEF Apart, ApartOf, OwnAudience, store, locals
<1>6. QED
  BY <1>1, <1>2, <1>3, <1>4, <1>5 DEF Next

\* No request is authenticated by, or even looks up the session of, a token
\* that the other application has made, even when both sign with one key.
THEOREM TokensApart == Spec => []TokensStayApart
<1>1. Init => Apart
  BY DEF Init, Apart, ApartOf, OwnAudience, Validating
<1>2. Apart /\ TypeOK => TokensStayApart
  BY DEF Apart, ApartOf, TokensStayApart, TypeOK, PCs, Validating
<1>3. QED
  BY <1>1, <1>2, StepApart, Invariant, TypeCorrect, PTL DEF Spec

-----------------------------------------------------------------------------
(* Tokens that are still good                                              *)

\* The id of the token is drawn, and no session is about to be stored under it.
UsedId(t) ==
  /\ t.sub.jti \in drawn
  /\ \A q \in Requests : pc[q] = "register" => user[q].jti # t.sub.jti

\* A token that application a has made: its session is as it was stored, unless
\* the sandbox has lost it.
Genuine(a, t) ==
  /\ t.key = Secret[a] /\ t.aud = Audience(a)
  /\ UsedId(t)
  /\ LET s == sessions[a][t.sub.jti]
     IN IF s = NONE THEN a = "sandbox"
        ELSE s.type = t.sub.type /\ s.id = t.sub.id /\ WholeSecond(s.expires) = t.exp

\* Which token a request holds.
Presented(r) ==
  /\ pc[r] \in {"idle", "authenticate", "register"} => token[r] = NONE
  /\ pc[r] = "answer" /\ Kind(r) = "login" =>
       IF status[r] = 200 THEN Genuine(App(r), token[r]) ELSE token[r] = NONE
  /\ pc[r] # "idle" /\ Kind(r) # "login" => token[r] = NONE \/ \E a \in Apps : token[r] \in tokens[a]

\* What was read of the session still holds, but for its revocation.
ReadSession(r) ==
  pc[r] \in {"checkRevoked", "checkExpiry"} => session[r].expires = Stored(r).expires

\* The conclusion for one request.
Live(r) ==
  pc[r] = "answer" /\ status[r] = 401 /\ token[r] # NONE /\ token[r] \in tokens[App(r)]
  => \/ App(r) = "sandbox" /\ Stored(r) = NONE
     \/ Stored(r) # NONE /\ (Stored(r).revoked \/ WholeSecond(Stored(r).expires) <= now)

TokensGenuine == \A a \in Apps : \A t \in tokens[a] : Genuine(a, t)
LiveOf(r) == Presented(r) /\ ReadSession(r) /\ Live(r)
LiveInv == TokensGenuine /\ \A r \in Requests : LiveOf(r)

LEMMA RoundsDown ==
  ASSUME NEW x \in Nat
  PROVE  WholeSecond(x) <= x
BY ApiSessionsAssumption DEF WholeSecond

\* What a request does; the rest of Next is the world.
RequestStep(r) ==
  \/ \E app \in Apps, c \in Credentials : SubmitLogin(r, app, c)
  \/ \E app \in Apps, kind \in Kinds, t \in (UNION {tokens[a] : a \in Apps}) \cup {NONE} :
       Submit(r, app, kind, t)
  \/ Authenticate(r) \/ Register(r) \/ Validate(r) \/ Serve(r) \/ Respond(r) \/ Fail(r)

WorldStep == Tick \/ (\E table \in AccountTables : EditAccounts(table)) \/ UNCHANGED vars
RequestStepOrWorld == (\E r \in Requests : RequestStep(r)) \/ Restart \/ WorldStep

LEMMA StepOwn ==
  ASSUME TypeOK, NEW r \in Requests, RequestStep(r)
  PROVE  OwnLocals(r) /\ now' = now
<1>1. CASE \/ \E app \in Apps, c \in Credentials : SubmitLogin(r, app, c)
           \/ \E app \in Apps, kind \in Kinds, t \in (UNION {tokens[a] : a \in Apps}) \cup {NONE} :
                Submit(r, app, kind, t)
  BY <1>1 DEF TypeOK, SubmitLogin, Submit, Goto, OwnLocals, world
<1>2. CASE Authenticate(r) \/ Register(r)
  BY <1>2 DEF TypeOK, Authenticate, Register, Answer, Goto, OwnLocals, world
<1>3. CASE Validate(r)
  BY <1>3 DEF TypeOK, Validate, Decode, Known, GetSession, CheckRevoked, CheckExpiry, Answer, Goto,
              OwnLocals, world
<1>4. CASE Serve(r)
  BY <1>4 DEF TypeOK, Serve, ServeAdmin, ListProducts, KnownAgain, Revoke, ReadProduct, Answer, Goto,
              OwnLocals, world
<1>5. CASE Respond(r) \/ Fail(r)
  BY <1>5, FinishOwn DEF Respond, Fail, world
<1>6. QED
  BY <1>1, <1>2, <1>3, <1>4, <1>5 DEF RequestStep

\* One stored session, over a step: nothing but its revocation changes.
Keeps(a, i) ==
  IF sessions[a][i] = NONE THEN sessions'[a][i] = NONE
  ELSE /\ sessions'[a][i] # NONE
       /\ sessions'[a][i].type = sessions[a][i].type
       /\ sessions'[a][i].id = sessions[a][i].id
       /\ sessions'[a][i].expires = sessions[a][i].expires
       /\ sessions[a][i].revoked => sessions'[a][i].revoked

LEMMA SessionsKeep ==
  ASSUME IInv, NEW r \in Requests, RequestStep(r), NEW a \in Apps, NEW i \in TokenIds,
         \A q \in Requests : pc[q] = "register" => user[q].jti # i
  PROVE  Keeps(a, i)
<1>1. TypeOK /\ RequestOK(r)
  BY DEF IInv
<1>2. CASE Register(r)
  <2>1. pc[r] = "register" /\ user[r].jti # i
    BY <1>2 DEF Register
  <2>2. sessions'[a][i] = sessions[a][i]
    BY <1>1, <1>2, <2>1 DEF TypeOK, Register
  <2>3. QED
    BY <2>2 DEF Keeps
<1>3. CASE Revoke(r)
  <2>1. pc[r] = "revoke" /\ Stored(r) # NONE
    BY <1>1, <1>3 DEF Revoke, RequestOK, Validating
  <2>2. \/ sessions'[a][i] = sessions[a][i]
        \/ sessions[a][i] # NONE /\ sessions'[a][i] = [sessions[a][i] EXCEPT !.revoked = TRUE]
    <3>1. token[r] \in Claims /\ request[r] \in Request
      BY <1>1, <2>1 DEF TypeOK, RequestOK, Validating
    <3>2. App(r) \in Apps /\ TokenId(r) \in TokenIds
      BY <3>1 DEF Request, Claims, User
    <3>3. sessions' = [sessions EXCEPT ![App(r)][TokenId(r)] = [Stored(r) EXCEPT !.revoked = TRUE]]
      BY <1>1, <1>3, <2>1, <3>2 DEF TypeOK, Revoke
    <3>4. /\ sessions' = [sessions EXCEPT ![App(r)] =
               [sessions[App(r)] EXCEPT ![TokenId(r)] = [Stored(r) EXCEPT !.revoked = TRUE]]]
          /\ a # App(r) => sessions'[a] = sessions[a]
      BY <1>1, <3>2, <3>3 DEF TypeOK
    <3>5. CASE a = App(r) /\ i = TokenId(r)
      <4>1. sessions'[a] = [sessions[a] EXCEPT ![i] = [sessions[a][i] EXCEPT !.revoked = TRUE]]
        BY <1>1, <3>2, <3>4, <3>5 DEF TypeOK
      <4>2. sessions[a] \in [TokenIds -> Session \cup {NONE}]
        BY <1>1 DEF TypeOK
      <4>3. sessions'[a][i] = [sessions[a][i] EXCEPT !.revoked = TRUE]
        BY <4>1, <4>2
      <4>4. QED
        BY <2>1, <3>5, <4>3
    <3>6. CASE a # App(r) \/ i # TokenId(r)
      BY <1>1, <3>2, <3>4, <3>6 DEF TypeOK
    <3>7. QED
      BY <3>5, <3>6
  <2>3. CASE sessions'[a][i] = sessions[a][i]
    BY <2>3 DEF Keeps
  <2>4. CASE sessions[a][i] # NONE /\ sessions'[a][i] = [sessions[a][i] EXCEPT !.revoked = TRUE]
    <3>1. sessions[a][i] \in Session
      BY <1>1, <2>4 DEF TypeOK
    <3>2. sessions'[a][i] \in Session
      BY <2>4, <3>1 DEF Session
    <3>3. QED
      BY <2>4, <3>1, <3>2, NoneFacts DEF Keeps, Session
  <2>5. QED
    BY <2>2, <2>3, <2>4
<1>4. CASE ~Register(r) /\ ~Revoke(r)
  <2>1. UNCHANGED sessions
    BY <1>4 DEF RequestStep, SubmitLogin, Submit, Authenticate, Validate, Decode, Known, GetSession,
           CheckRevoked, CheckExpiry, Serve, ServeAdmin, ListProducts, KnownAgain, ReadProduct, Respond,
           Fail, store
  <2>2. QED
    BY <2>1 DEF Keeps
<1>5. QED
  BY <1>2, <1>3, <1>4

\* A session that is there is not one about to be stored.
LEMMA StoredKeeps ==
  ASSUME IInv, NEW r \in Requests, RequestStep(r), NEW a \in Apps, NEW i \in TokenIds,
         sessions[a][i] # NONE
  PROVE  Keeps(a, i)
<1>1. \A q \in Requests : pc[q] = "register" => user[q].jti # i
  BY DEF IInv, Fresh
<1>2. QED
  BY <1>1, SessionsKeep

\* Ids are drawn once.
LEMMA UsedIdStays ==
  ASSUME IInv, RequestStepOrWorld, NEW t \in Claims, UsedId(t)
  PROVE  UsedId(t)'
<1>1. ASSUME NEW r \in Requests, RequestStep(r) PROVE UsedId(t)'
  <2>1. TypeOK /\ OwnLocals(r)
    BY <1>1, StepOwn DEF IInv
  <2>2. CASE Authenticate(r)
    <3>1. PICK fresh \in SUBSET (TokenIds \ drawn) :
            /\ drawn' = drawn \cup fresh
            /\ pc'[r] = "register" => user'[r].jti \in fresh
      <4>1. CASE Answer(r, 401) /\ UNCHANGED <<user, drawn>>
        <5>1. pc'[r] = "answer" /\ drawn' = drawn \cup {}
          BY <2>1, <4>1 DEF TypeOK, Answer, Goto
        <5>2. QED
          BY <5>1
      <4>2. CASE ~(Answer(r, 401) /\ UNCHANGED <<user, drawn>>)
        <5>1. PICK row \in RowsNamed(request[r].credential), id \in TokenIds \ drawn :
                /\ user' = [user EXCEPT ![r] =
                     [type |-> row.type, id |-> row.id, role |-> RoleOf(row), jti |-> id]]
                /\ drawn' = drawn \cup {id}
          BY <2>2, <4>2 DEF Authenticate
        <5>2. user'[r].jti = id
          BY <2>1, <5>1 DEF TypeOK
        <5>3. QED
          BY <5>1, <5>2
      <4>3. QED
        BY <4>1, <4>2
    <3>2. QED
      BY <2>1, <3>1 DEF UsedId, OwnLocals
  <2>3. CASE ~Authenticate(r)
    <3>1. drawn' = drawn
      BY <1>1, <2>3 DEF RequestStep, SubmitLogin, Submit, Register, Validate, Decode, Known,
             GetSession, CheckRevoked, CheckExpiry, Serve, ServeAdmin, ListProducts, KnownAgain, Revoke,
             ReadProduct, Respond, Fail, store
    <3>2. pc'[r] # "register"
      <4>1. CASE Validate(r)
        BY <2>1, <4>1
        DEF TypeOK, Validate, Decode, Known, GetSession, CheckRevoked, CheckExpiry, Answer, Goto
      <4>2. CASE Serve(r)
        BY <2>1, <4>2
        DEF TypeOK, Serve, ServeAdmin, ListProducts, KnownAgain, Revoke, ReadProduct, Answer, Goto
      <4>3. CASE Respond(r) \/ Fail(r)
        BY <2>1, <4>3, FinishOwn DEF Respond, Fail
      <4>4. CASE ~Validate(r) /\ ~Serve(r) /\ ~(Respond(r) \/ Fail(r))
        BY <1>1, <2>1, <2>3, <4>4 DEF TypeOK, RequestStep, SubmitLogin, Submit, Register, Answer, Goto
      <4>5. QED
        BY <4>1, <4>2, <4>3, <4>4
    <3>3. QED
      BY <2>1, <3>1, <3>2 DEF UsedId, OwnLocals
  <2>4. QED
    BY <2>2, <2>3
<1>2. CASE Restart
  <2>1. UNCHANGED drawn /\ \A q \in Requests : pc'[q] = "idle"
    BY <1>2 DEF Restart, StartFrom
  <2>2. QED
    BY <2>1 DEF UsedId
<1>3. CASE WorldStep
  <2>1. UNCHANGED <<drawn, pc, user>>
    BY <1>3 DEF WorldStep, Tick, EditAccounts, vars, store, locals
  <2>2. QED
    BY <2>1 DEF UsedId
<1>4. QED
  BY <1>1, <1>2, <1>3 DEF RequestStepOrWorld

\* A token that was made by an application stays so.
LEMMA GenuineStays ==
  ASSUME IInv, RequestStepOrWorld, NEW a \in Apps, NEW t \in Claims, Genuine(a, t)
  PROVE  Genuine(a, t)'
<1>1. UsedId(t) /\ UsedId(t)'
  BY UsedIdStays DEF Genuine
<1>2. t.sub.jti \in TokenIds
  BY DEF Claims, User
<1>3. ASSUME NEW r \in Requests, RequestStep(r) PROVE Genuine(a, t)'
  <2>1. Keeps(a, t.sub.jti)
    BY <1>1, <1>2, <1>3, SessionsKeep DEF UsedId
  <2>2. QED
    BY <1>1, <2>1 DEF Genuine, Keeps
<1>4. CASE Restart
  <2>1. \/ sessions'[a] = sessions[a]
        \/ a = "sandbox" /\ sessions'[a][t.sub.jti] = NONE
    BY <1>2, <1>4 DEF Restart, StartFrom, Apps
  <2>2. QED
    BY <1>1, <2>1 DEF Genuine
<1>5. CASE WorldStep
  <2>1. UNCHANGED sessions
    BY <1>5 DEF WorldStep, Tick, EditAccounts, vars, store
  <2>2. QED
    BY <1>1, <2>1 DEF Genuine
<1>6. QED
  BY <1>3, <1>4, <1>5 DEF RequestStepOrWorld

\* Tokens are only added, each by the login that has made it.
LEMMA TokensStep ==
  ASSUME IInv, LiveInv, NEW r \in Requests, RequestStep(r)
  PROVE  /\ \A a \in Apps : tokens[a] \subseteq tokens'[a]
         /\ \A a \in Apps : \A t \in tokens'[a] : Genuine(a, t)
<1>1. TypeOK /\ RequestOK(r) /\ AnswerOK(r) /\ Presented(r)
  BY DEF IInv, LiveInv, LiveOf
<1>2. \A a \in Apps : \A t \in tokens[a] : Genuine(a, t)
  BY DEF LiveInv, TokensGenuine
<1>3. \/ UNCHANGED tokens
      \/ /\ pc[r] = "answer" /\ Kind(r) = "login" /\ status[r] = 200
         /\ tokens' = [tokens EXCEPT ![App(r)] = @ \cup {token[r]}]
  BY DEF RequestStep, SubmitLogin, Submit, Authenticate, Register, Validate, Decode, Known,
         GetSession, CheckRevoked, CheckExpiry, Serve, ServeAdmin, ListProducts, KnownAgain, Revoke,
         ReadProduct, Respond, Fail, store
<1>4. CASE UNCHANGED tokens
  BY <1>2, <1>4
<1>5. CASE /\ pc[r] = "answer" /\ Kind(r) = "login" /\ status[r] = 200
           /\ tokens' = [tokens EXCEPT ![App(r)] = @ \cup {token[r]}]
  <2>1. App(r) \in Apps
    BY <1>1, <1>5 DEF TypeOK, RequestOK, Request
  <2>2. Genuine(App(r), token[r])
    BY <1>1, <1>5 DEF Presented
  <2>3. ASSUME NEW a \in Apps
        PROVE  tokens'[a] = tokens[a] \/ (a = App(r) /\ tokens'[a] = tokens[a] \cup {token[r]})
    BY <1>1, <1>5 DEF TypeOK
  <2>4. QED
    BY <1>2, <2>2, <2>3
<1>6. QED
  BY <1>3, <1>4, <1>5

LEMMA GenuineStep ==
  ASSUME IInv, IInv', LiveInv, NEW r \in Requests, RequestStep(r)
  PROVE  TokensGenuine'
<1>1. ASSUME NEW a \in Apps, NEW t \in tokens'[a] PROVE Genuine(a, t)'
  <2>1. Genuine(a, t)
    BY TokensStep
  <2>2. t \in Claims
    BY DEF IInv, TypeOK
  <2>3. QED
    BY <2>1, <2>2, GenuineStays DEF RequestStepOrWorld
<1>2. QED
  BY <1>1 DEF TokensGenuine

\* The other requests.
LEMMA OthersLive ==
  ASSUME IInv, Apart', LiveInv, NEW r \in Requests, RequestStep(r), NEW q \in Requests \ {r}
  PROVE  LiveOf(q)'
<1>1. TypeOK /\ RequestOK(q) /\ AnswerOK(q) /\ LiveOf(q)
  BY DEF IInv, LiveInv
<1>2. /\ pc'[q] = pc[q] /\ request'[q] = request[q] /\ token'[q] = token[q]
      /\ session'[q] = session[q] /\ status'[q] = status[q] /\ now' = now
  BY <1>1, StepOwn DEF OwnLocals
<1>3. \A a \in Apps : tokens[a] \subseteq tokens'[a]
  BY TokensStep
<1>4. pc[q] # "idle" => App(q) \in Apps
  BY <1>1 DEF TypeOK, RequestOK, Request
<1>5. token[q] # NONE => token[q] \in Claims /\ TokenId(q) \in TokenIds
  BY <1>1 DEF TypeOK, Claims, User
<1>6. Presented(q)'
  <2>1. ASSUME pc[q] = "answer", Kind(q) = "login", status[q] = 200
        PROVE  Genuine(App(q), token[q])'
    <3>1. PICK a \in Apps, t \in Claims : a = App(q) /\ t = token[q]
      BY <1>1, <1>4, <1>5, <2>1 DEF AnswerOK
    <3>2. Genuine(a, t)
      BY <1>1, <2>1, <3>1 DEF LiveOf, Presented
    <3>3. Genuine(a, t)'
      BY <3>2, GenuineStays DEF RequestStepOrWorld
    <3>4. QED
      BY <1>2, <3>1, <3>3 DEF Genuine, UsedId
  <2>2. QED
    BY <1>1, <1>2, <1>3, <2>1 DEF LiveOf, Presented
<1>7. ReadSession(q)'
  <2>1. SUFFICES ASSUME pc[q] \in {"checkRevoked", "checkExpiry"} PROVE ReadSession(q)'
    BY <1>2 DEF ReadSession
  <2>2. token[q] # NONE /\ Stored(q) # NONE /\ session[q].expires = Stored(q).expires
    BY <1>1, <2>1 DEF RequestOK, Validating, LiveOf, ReadSession
  <2>3. Keeps(App(q), TokenId(q))
    BY <1>4, <1>5, <2>1, <2>2, StoredKeeps
  <2>4. QED
    BY <1>2, <2>2, <2>3 DEF Keeps, ReadSession
<1>8. Live(q)'
  <2>1. SUFFICES ASSUME pc[q] = "answer", status[q] = 401, token[q] # NONE,
                        token[q] \in tokens'[App(q)]
                 PROVE  \/ App(q) = "sandbox" /\ Stored(q)' = NONE
                        \/ /\ Stored(q)' # NONE
                           /\ Stored(q)'.revoked \/ WholeSecond(Stored(q)'.expires) <= now
    BY <1>2 DEF Live
  <2>2. PICK b \in Apps : token[q] \in tokens[b]
    BY <1>1, <2>1 DEF LiveOf, Presented
  <2>3. b = App(q)
    <3>1. token[q].aud = Audience(b) /\ token[q].aud = Audience(App(q))
      BY <1>3, <1>4, <2>1, <2>2 DEF Apart, OwnAudience
    <3>2. App(q) \in Apps /\ Audience(b) = Audience(App(q))
      BY <1>4, <2>1, <3>1
    <3>3. QED
      BY <2>2, <3>2, AudienceInjective
  <2>4. UsedId(token[q])
    BY <2>2 DEF LiveInv, TokensGenuine, Genuine
  <2>5. Keeps(App(q), TokenId(q))
    BY <1>4, <1>5, <2>1, <2>4, SessionsKeep DEF UsedId
  <2>6. \/ App(q) = "sandbox" /\ Stored(q) = NONE
        \/ Stored(q) # NONE /\ (Stored(q).revoked \/ WholeSecond(Stored(q).expires) <= now)
    BY <1>1, <2>1, <2>2, <2>3 DEF LiveOf, Live
  <2>7. QED
    BY <1>2, <2>5, <2>6 DEF Keeps
<1>9. QED
  BY <1>6, <1>7, <1>8 DEF LiveOf

\* The request itself, before it is decoded.
LEMMA EarlyLive ==
  ASSUME IInv, LiveInv, NEW r \in Requests,
         \/ \E app \in Apps, c \in Credentials : SubmitLogin(r, app, c)
         \/ \E app \in Apps, kind \in Kinds, t \in (UNION {tokens[a] : a \in Apps}) \cup {NONE} :
              Submit(r, app, kind, t)
         \/ Authenticate(r) \/ Respond(r) \/ Fail(r)
  PROVE  LiveOf(r)'
<1>1. TypeOK /\ RequestOK(r) /\ Presented(r)
  BY DEF IInv, LiveInv, LiveOf
<1>2. CASE \E app \in Apps, c \in Credentials : SubmitLogin(r, app, c)
  <2>1. pc'[r] = "authenticate" /\ token'[r] = NONE /\ request'[r].kind = "login"
    BY <1>1, <1>2 DEF TypeOK, SubmitLogin, Goto, Presented
  <2>2. QED
    BY <2>1 DEF LiveOf, Presented, ReadSession, Live
<1>3. ASSUME NEW app \in Apps, NEW kind \in Kinds,
             NEW t \in (UNION {tokens[a] : a \in Apps}) \cup {NONE}, Submit(r, app, kind, t)
      PROVE  LiveOf(r)'
  <2>1. pc'[r] = "decode" /\ token'[r] = t /\ UNCHANGED tokens
    BY <1>1, <1>3 DEF TypeOK, Submit, Goto, store
  <2>2. t = NONE \/ \E a \in Apps : t \in tokens[a]
    OBVIOUS
  <2>3. QED
    BY <2>1, <2>2 DEF LiveOf, Presented, ReadSession, Live
<1>4. CASE Authenticate(r)
  <2>1. token[r] = NONE /\ Kind(r) = "login"
    BY <1>1, <1>4 DEF Authenticate, Presented, RequestOK
  <2>2. UNCHANGED <<token, request>>
    BY <1>4 DEF Authenticate
  <2>3. Goto(r, "register") \/ Answer(r, 401)
    BY <1>4 DEF Authenticate
  <2>4. pc'[r] = "register" \/ (pc'[r] = "answer" /\ status'[r] = 401)
    BY <1>1, <2>3 DEF TypeOK, Answer, Goto
  <2>5. QED
    BY <2>1, <2>2, <2>4 DEF LiveOf, Presented, ReadSession, Live
<1>5. CASE Respond(r) \/ Fail(r)
  <2>1. pc'[r] = "idle" /\ token'[r] = NONE
    BY <1>1, <1>5 DEF TypeOK, Respond, Fail, Finish, Goto
  <2>2. QED
    BY <2>1 DEF LiveOf, Presented, ReadSession, Live
<1>6. QED
  BY <1>2, <1>3, <1>4, <1>5

\* The token of a login is as its session, to the second.
LEMMA RegisterLive ==
  ASSUME IInv, LiveInv, NEW r \in Requests, Register(r)
  PROVE  LiveOf(r)'
<1> DEFINE u == user[r]
           t == ClaimsOf(u, App(r), now)
           s == SessionOf(u, now)
<1>1. TypeOK /\ RequestOK(r) /\ Fresh(r) /\ pc[r] = "register"
  BY DEF IInv, Register
<1>2. u \in User /\ u.jti \in TokenIds /\ u.jti \in drawn /\ App(r) \in Apps /\ Kind(r) = "login"
  BY <1>1 DEF TypeOK, RequestOK, Fresh, User, Request
<1>3. s \in Session /\ s # NONE
  <2>1. now + Life \in Nat
    BY <1>1, ApiSessionsAssumption DEF TypeOK
  <2>2. s \in Session
    BY <1>2, <2>1 DEF SessionOf, Session, User
  <2>3. QED
    BY <2>2, NoneFacts
<1>4. sessions'[App(r)][u.jti] = s
  BY <1>1, <1>2, <1>3, SessionStored DEF Register
<1>5. /\ pc'[r] = "answer" /\ status'[r] = 200 /\ token'[r] = t
      /\ UNCHANGED <<request, user, drawn>>
      /\ \A q \in Requests \ {r} : pc'[q] = pc[q]
  BY <1>1 DEF TypeOK, Register, Answer, Goto
<1>6. t.sub = u /\ t.key = Secret[App(r)] /\ t.aud = Audience(App(r))
      /\ t.exp = WholeSecond(now + Life)
  BY DEF ClaimsOf
<1>7. s.type = u.type /\ s.id = u.id /\ s.expires = now + Life
  BY DEF SessionOf
<1>8. UsedId(token[r])'
  <2>1. \A q \in Requests : pc'[q] = "register" => user'[q].jti # u.jti
    BY <1>1, <1>5 DEF IInv, FreshDistinct
  <2> HIDE DEF t
  <2>2. QED
    BY <1>2, <1>5, <1>6, <2>1 DEF UsedId
<1> HIDE DEF t, s
<1>9. Genuine(App(r), token[r])'
  BY <1>3, <1>4, <1>5, <1>6, <1>7, <1>8 DEF Genuine
<1>10. QED
  BY <1>2, <1>5, <1>9 DEF LiveOf, Presented, ReadSession, Live

\* The request itself, from the decoding on: it is refused for a reason.
LEMMA LateLive ==
  ASSUME IInv, Apart, LiveInv, NEW r \in Requests, Validate(r) \/ Serve(r)
  PROVE  LiveOf(r)'
<1>1. TypeOK /\ RequestOK(r) /\ ApartOf(r) /\ LiveOf(r) /\ TokensGenuine
  BY DEF IInv, Apart, LiveInv
<1>2. pc[r] = "decode" \/ pc[r] \in Validating
  BY DEF Validate, Decode, Known, GetSession, CheckRevoked, CheckExpiry, Serve, ServeAdmin,
         ListProducts, KnownAgain, Revoke, ReadProduct, Validating
<1>3. /\ Kind(r) # "login" /\ App(r) \in Apps
      /\ token[r] = NONE \/ \E a \in Apps : token[r] \in tokens[a]
      /\ token[r] # NONE => TokenId(r) \in TokenIds
  BY <1>1, <1>2 DEF RequestOK, Validating, LiveOf, Presented, TypeOK, Request, Claims, User
<1>4. UNCHANGED <<now, request, token, tokens>>
  BY DEF Validate, Decode, Known, GetSession, CheckRevoked, CheckExpiry, Serve, ServeAdmin,
         ListProducts, KnownAgain, Revoke, ReadProduct, world, store
<1>5. pc'[r] \in PCs \ {"idle", "authenticate", "register"}
  <2>1. CASE Validate(r)
    BY <1>1, <2>1
    DEF TypeOK, Validate, Decode, Known, GetSession, CheckRevoked, CheckExpiry, Answer, Goto, PCs
  <2>2. CASE Serve(r)
    BY <1>1, <2>2
    DEF TypeOK, Serve, ServeAdmin, ListProducts, KnownAgain, Revoke, ReadProduct, Answer, Goto, PCs
  <2>3. QED
    BY <2>1, <2>2
<1>6. Presented(r)'
  BY <1>3, <1>4, <1>5 DEF Presented
<1>7. ReadSession(r)'
  <2>1. CASE GetSession(r)
    BY <1>1, <2>1 DEF GetSession, TypeOK, ReadSession, store
  <2>2. CASE CheckRevoked(r)
    BY <1>1, <2>2 DEF CheckRevoked, LiveOf, ReadSession, store
  <2>3. CASE Decode(r) \/ Known(r) \/ CheckExpiry(r)
    BY <1>1, <2>3 DEF Decode, Known, CheckExpiry, TypeOK, Answer, Goto, ReadSession
  <2>4. CASE Serve(r)
    BY <1>1, <2>4 DEF Serve, ServeAdmin, ListProducts, KnownAgain, Revoke, ReadProduct, TypeOK,
                      Answer, Goto, ReadSession
  <2>5. QED
    BY <2>1, <2>2, <2>3, <2>4 DEF Validate
<1>8. Live(r)'
  <2>1. SUFFICES ASSUME pc'[r] = "answer", status'[r] = 401, token[r] # NONE,
                        token[r] \in tokens[App(r)]
                 PROVE  /\ UNCHANGED sessions
                        /\ \/ App(r) = "sandbox" /\ Stored(r) = NONE
                           \/ /\ Stored(r) # NONE
                              /\ Stored(r).revoked \/ WholeSecond(Stored(r).expires) <= now
    BY <1>4 DEF Live
  <2>2. Genuine(App(r), token[r])
    BY <1>1, <1>3, <2>1 DEF TokensGenuine
  <2>3. token[r] \in Claims /\ token[r].exp \in Int /\ now \in Nat
    BY <1>1, <2>1 DEF TypeOK, Claims
  <2>4. CASE Decode(r)
    <3>1. UNCHANGED sessions /\ ~Decodes(token[r], App(r))
      BY <1>1, <2>1, <2>4 DEF Decode, TypeOK, Goto, store
    <3>2. token[r].exp <= now
      BY <2>1, <2>2, <2>3, <3>1 DEF Decodes, AudienceFits, Genuine
    <3>3. QED
      BY <2>2, <3>1, <3>2 DEF Genuine
  <2>5. CASE Known(r)
    <3>1. UNCHANGED sessions /\ Stored(r) = NONE
      BY <1>1, <2>1, <2>5 DEF Known, TypeOK, Goto, store
    <3>2. QED
      BY <2>2, <3>1 DEF Genuine
  <2>6. CASE GetSession(r)
    <3>1. Stored(r) # NONE
      BY <1>1, <2>6 DEF GetSession, RequestOK, Validating
    <3>2. Stored(r).type = token[r].sub.type /\ Stored(r).id = token[r].sub.id
      BY <2>2, <3>1 DEF Genuine
    <3>3. pc'[r] = "checkRevoked"
      BY <1>1, <2>6, <3>1, <3>2 DEF GetSession, TypeOK, Goto
    <3>4. QED
      BY <2>1, <3>3
  <2>7. CASE CheckRevoked(r)
    BY <1>1, <2>1, <2>7 DEF CheckRevoked, Revoked, TypeOK, Goto, store
  <2>8. CASE CheckExpiry(r)
    <3>1. UNCHANGED sessions /\ session[r].expires <= now
      BY <1>1, <2>1, <2>8 DEF CheckExpiry, TypeOK, Goto, store
    <3>2. session[r].expires = Stored(r).expires /\ Stored(r) # NONE
      BY <1>1, <2>8 DEF CheckExpiry, LiveOf, ReadSession, RequestOK, Validating
    <3>3. Stored(r).expires \in Nat
      BY <1>1, <1>3, <2>1, <3>2 DEF TypeOK, Session
    <3>4. PICK x \in Nat : x = Stored(r).expires
      BY <3>3
    <3>5. WholeSecond(x) <= x /\ WholeSecond(x) \in Int
      BY RoundsDown, ApiSessionsAssumption DEF WholeSecond
    <3>6. WholeSecond(x) <= now
      BY <2>3, <3>1, <3>2, <3>4, <3>5
    <3>7. QED
      BY <3>1, <3>2, <3>4, <3>6
  <2>9. CASE Serve(r)
    <3>1. CASE KnownAgain(r)
      <4>1. Stored(r) # NONE
        BY <1>1, <3>1 DEF KnownAgain, RequestOK, Validating
      <4>2. pc'[r] = "revoke"
        BY <1>1, <3>1, <4>1 DEF KnownAgain, TypeOK, Goto
      <4>3. QED
        BY <2>1, <4>2
    <3>2. CASE ~KnownAgain(r)
      <4>1. PICK s \in {200, 403, 500, 503} : Answer(r, s)
        BY <2>9, <3>2 DEF Serve, ServeAdmin, ListProducts, Revoke, ReadProduct
      <4>2. status'[r] # 401
        BY <1>1, <4>1 DEF TypeOK, Answer
      <4>3. QED
        BY <2>1, <4>2
    <3>3. QED
      BY <3>1, <3>2
  <2>10. QED
    BY <2>4, <2>5, <2>6, <2>7, <2>8, <2>9 DEF Validate
<1>9. QED
  BY <1>6, <1>7, <1>8 DEF LiveOf

LEMMA StepLive == IInv /\ IInv' /\ Apart /\ Apart' /\ LiveInv /\ [Next]_vars => LiveInv'
<1> SUFFICES ASSUME IInv, IInv', Apart, Apart', LiveInv, [Next]_vars PROVE LiveInv'
  OBVIOUS
<1>1. ASSUME NEW r \in Requests, RequestStep(r) PROVE LiveInv'
  <2>1. LiveOf(r)'
    BY <1>1, EarlyLive, RegisterLive, LateLive DEF RequestStep
  <2>2. ASSUME NEW q \in Requests PROVE LiveOf(q)'
    BY <1>1, <2>1, OthersLive
  <2>3. QED
    BY <1>1, <2>2, GenuineStep DEF LiveInv
<1>2. ASSUME Restart \/ WorldStep, NEW a \in Apps, NEW t \in tokens'[a] PROVE Genuine(a, t)'
  <2>1. UNCHANGED tokens
    BY <1>2 DEF Restart, StartFrom, WorldStep, Tick, EditAccounts, vars, store
  <2>2. Genuine(a, t) /\ t \in Claims
    BY <2>1 DEF LiveInv, TokensGenuine, IInv, TypeOK
  <2>3. QED
    BY <1>2, <2>2, GenuineStays DEF RequestStepOrWorld
<1>3. CASE Restart
  <2>1. \A r \in Requests : pc'[r] = "idle" /\ token'[r] = NONE
    BY <1>3 DEF Restart, StartFrom
  <2>2. \A r \in Requests : LiveOf(r)'
    BY <2>1 DEF LiveOf, Presented, ReadSession, Live
  <2>3. QED
    BY <1>2, <1>3, <2>2 DEF LiveInv, TokensGenuine
<1>4. CASE WorldStep
  <2>1. UNCHANGED <<store, pc, locals>>
    BY <1>4 DEF WorldStep, Tick, EditAccounts, vars
  <2>2. now <= now' /\ now \in Nat /\ now' \in Nat
    BY <1>4 DEF WorldStep, Tick, EditAccounts, vars, world, IInv, TypeOK
  <2>3. ASSUME NEW r \in Requests PROVE LiveOf(r)'
    <3>1. LiveOf(r) /\ TypeOK /\ RequestOK(r)
      BY DEF LiveInv, IInv
    <3>2. Presented(r)' /\ ReadSession(r)'
      BY <2>1, <3>1 DEF LiveOf, Presented, ReadSession, Genuine, UsedId, store, locals
    <3>3. Live(r)'
      <4>1. SUFFICES ASSUME pc[r] = "answer", token[r] # NONE, Stored(r) # NONE,
                            WholeSecond(Stored(r).expires) <= now
                     PROVE  WholeSecond(Stored(r).expires) <= now'
        BY <2>1, <3>1 DEF LiveOf, Live, store, locals
      <4>2. token[r] \in Claims /\ request[r] \in Request
        BY <3>1, <4>1 DEF TypeOK, RequestOK
      <4>3. App(r) \in Apps /\ TokenId(r) \in TokenIds
        BY <4>2 DEF Request, Claims, User
      <4>4. Stored(r).expires \in Nat
        BY <3>1, <4>1, <4>3 DEF TypeOK, Session
      <4>5. PICK x \in Nat : x = Stored(r).expires
        BY <4>4
      <4>6. WholeSecond(x) \in Int
        BY ApiSessionsAssumption DEF WholeSecond
      <4>7. WholeSecond(x) <= now'
        BY <2>2, <4>1, <4>5, <4>6
      <4>8. QED
        BY <4>5, <4>7
    <3>4. QED
      BY <3>2, <3>3 DEF LiveOf
  <2>4. QED
    BY <1>2, <1>4, <2>3 DEF LiveInv, TokensGenuine
<1>5. QED
  BY <1>1, <1>3, <1>4 DEF Next, RequestStep, WorldStep

\* A token that a login has answered is refused only when it has been revoked,
\* when its last second has begun, or when the sandbox has forgotten it,
\* whatever other requests, restarts and other programs do meanwhile.
THEOREM LiveTokens == Spec => []LiveTokenAccepted
<1>1. Init => Apart
  BY DEF Init, Apart, ApartOf, OwnAudience, Validating
<1>2. Init => LiveInv
  BY DEF Init, LiveInv, TokensGenuine, LiveOf, Presented, ReadSession, Live
<1>3. LiveInv => LiveTokenAccepted
  BY DEF LiveInv, LiveOf, Live, LiveTokenAccepted
<1>4. QED
  BY <1>1, <1>2, <1>3, StepApart, StepLive, Invariant, PTL DEF Spec

-----------------------------------------------------------------------------
(* Permissions and scopes                                                  *)

\* A scope of everything, of what one owns, and of nothing.
LEMMA ScopeOfAll ==
  ASSUME NEW id \in Ids, NEW scope, scope.kind = "all"
  PROVE  /\ MatchesCreate(id, scope)
         /\ \E owner \in {0, id}, enabled \in BOOLEAN :
              MatchesProduct([id |-> 1, owner |-> owner, enabled |-> enabled], scope)
<1>1. MatchesProduct([id |-> 1, owner |-> 0, enabled |-> TRUE], scope)
  BY DEF MatchesProduct
<1>2. QED
  BY <1>1 DEF MatchesCreate

LEMMA ScopeOfOwner ==
  ASSUME NEW id \in Ids
  PROVE  /\ MatchesCreate(id, Owner(id))
         /\ \E owner \in {0, id}, enabled \in BOOLEAN :
              MatchesProduct([id |-> 1, owner |-> owner, enabled |-> enabled], Owner(id))
<1>1. MatchesProduct([id |-> 1, owner |-> id, enabled |-> TRUE], Owner(id))
  BY DEF MatchesProduct, Owner
<1>2. QED
  BY <1>1 DEF MatchesCreate, Owner

LEMMA ScopeOfNone ==
  ASSUME NEW id, NEW product
  PROVE  ~MatchesCreate(id, None) /\ ~MatchesProduct(product, None)
BY DEF MatchesCreate, MatchesProduct, None

\* What the two tables must have in common, for one role and one user id.
LEMMA TablesAgree ==
  ASSUME NEW role \in Roles, NEW id \in Ids, NEW p \in Permissions
  PROVE  LET scope == ResolveProductAccess(role, id)[p]
         IN p \in ResolvePermissions(role)
              <=> IF p = "create" THEN MatchesCreate(id, scope)
                  ELSE \E owner \in {0, id}, enabled \in BOOLEAN :
                         MatchesProduct([id |-> 1, owner |-> owner, enabled |-> enabled], scope)
<1> DEFINE scope == ResolveProductAccess(role, id)[p]
<1>1. CASE role = "admin" \/ role = "buyer"
  <2>1. p \in ResolvePermissions(role) /\ (scope = All \/ scope = Owner(id))
    BY <1>1 DEF ResolveProductAccess, ResolvePermissions, Roles, Ids
  <2>2. CASE scope = All
    <3>1. scope.kind = "all"
      BY <2>2 DEF All
    <3> HIDE DEF scope
    <3>2. QED
      BY <2>1, <3>1, ScopeOfAll DEF scope
  <2>3. CASE scope = Owner(id)
    <3> HIDE DEF scope
    <3>1. QED
      BY <2>1, <2>3, ScopeOfOwner DEF scope
  <2>4. QED
    BY <2>1, <2>2, <2>3
<1>2. CASE role = "customer"
  <2>1. /\ scope = IF p \in {"list", "read"} THEN All ELSE None
        /\ ResolvePermissions(role) = {"list", "read"}
    BY <1>2 DEF ResolveProductAccess, ResolvePermissions, ReadOnly
  <2>2. CASE p \in {"list", "read"}
    <3>1. scope.kind = "all"
      BY <2>1, <2>2 DEF All
    <3> HIDE DEF scope
    <3>2. QED
      BY <2>1, <2>2, <3>1, ScopeOfAll DEF scope
  <2>3. CASE p \notin {"list", "read"}
    <3>1. scope = None
      BY <2>1, <2>3
    <3> HIDE DEF scope
    <3>2. QED
      BY <2>1, <2>3, <3>1, ScopeOfNone DEF scope
  <2>4. QED
    BY <2>2, <2>3
<1>3. QED
  BY <1>1, <1>2 DEF Roles

\* Whoever is authenticated has a permission exactly if the scope of that
\* permission lets through some product.
THEOREM PermissionsAndScopes == Spec => []PermissionsMatchScopes
<1>1. ASSUME IInv PROVE PermissionsMatchScopes
  <2>1. ASSUME NEW r \in Requests, pc[r] = "serve" PROVE user[r].role \in Roles /\ user[r].id \in Ids
    BY <1>1, <2>1 DEF IInv, TypeOK, RequestOK, User
  <2>2. QED
    BY <2>1, TablesAgree DEF PermissionsMatchScopes, May, Scope
<1>2. QED
  BY <1>1, Invariant, PTL
=============================================================================
