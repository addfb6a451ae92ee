----------------------------- MODULE ApiSessions -----------------------------
(***************************************************************************)
(* Login, bearer tokens, logout, and the authorization of the requests in  *)
(* between, for the API and for the sandbox mounted in it.  Both run the   *)
(* same code; the API keeps its token sessions in SQLite, the sandbox in   *)
(* memory.  A token is a signed set of claims that is good until it        *)
(* expires or its session is revoked.                                      *)
(*                                                                         *)
(* A step of a request is one access to the accounts or to the sessions,   *)
(* so that requests may be served by any number of processes.              *)
(***************************************************************************)
EXTENDS Authorization, FiniteSets

CONSTANTS
  Requests,
  TokenIds,       \* the ids new_token_id draws, each at most once
  Keys,
  Secret,         \* Secret[a]: the key with which application a signs
  AccountTables,  \* what other programs make of the users and the customers
  Credentials,    \* what is submitted to the login
  Products,       \* what the product table may return
  Life,           \* TOKEN_EXPIRATION_DAYS, in ticks
  Second,         \* ticks per second, the resolution of the claim "exp"
  MaxTime,        \* bound: the last tick
  NONE

Apps == {"api", "sandbox"}
Types == {"user", "customer"}
Kinds == {"logout", "use"}   \* which route is used matters only when it is served
Ids == Nat \ {0}
Account == [type : Types, id : Ids, name : STRING, password : STRING,
            role : STRING, enabled : BOOLEAN]
Credential == [type : Types, name : STRING, password : STRING]
User == [type : Types, id : Ids, role : Roles, jti : TokenIds]
Claims == [sub : User, exp : Int, key : Keys, aud : {"sandbox", NONE}]
Session == [type : Types, id : Ids, expires : Nat, revoked : BOOLEAN]
Request == [app : Apps, kind : Kinds \cup {"login"}, credential : Credentials \cup {NONE},
            past : SUBSET (Apps \X TokenIds)]  \* "past": loggedOut when it came

ASSUME ApiSessionsAssumption ==
  /\ Life \in Nat /\ MaxTime \in Nat /\ Second \in Nat \ {0}
  /\ Secret \in [Apps -> Keys]
  /\ Products \subseteq Product
  /\ \A table \in AccountTables : \A row \in table : row.type \in Types /\ row.id \in Ids
  /\ NONE \notin Products /\ NONE \notin Roles /\ NONE # "sandbox"
  /\ NONE \notin Claims /\ NONE \notin User /\ NONE \notin Session /\ NONE \notin Request

VARIABLES
  now,
  accounts,   \* the rows of public.users and public.customers
  sessions,   \* sessions[a][t]: the session of token id t in application a
  drawn,      \* the token ids in use
  tokens,     \* tokens[a]: the tokens that logins of a have answered
  loggedOut,  \* <<a, t>>: application a has answered the logout of t with 200
  pc,
  request,
  token,      \* the token that the request presents, or the one it makes
  session,    \* the session as validate_token has read it
  user,       \* the authenticated user
  status

world == <<now, accounts>>
store == <<sessions, drawn, tokens, loggedOut>>
locals == <<request, token, session, user, status>>
vars == <<world, store, pc, locals>>

-----------------------------------------------------------------------------
App(r) == request[r].app
Kind(r) == request[r].kind
TokenId(r) == token[r].sub.jti
Stored(r) == sessions[App(r)][TokenId(r)]

Goto(r, place) == pc' = [pc EXCEPT ![r] = place]
Answer(r, s) ==
  /\ status' = [status EXCEPT ![r] = s]
  /\ Goto(r, "answer")

Finish(r) ==
  /\ Goto(r, "idle")
  /\ request' = [request EXCEPT ![r] = NONE]
  /\ token' = [token EXCEPT ![r] = NONE]
  /\ session' = [session EXCEPT ![r] = NONE]
  /\ user' = [user EXCEPT ![r] = NONE]
  /\ status' = [status EXCEPT ![r] = 0]

Init ==
  /\ now = 0
  /\ accounts \in AccountTables
  /\ sessions = [a \in Apps |-> [t \in TokenIds |-> NONE]]
  /\ drawn = {}
  /\ tokens = [a \in Apps |-> {}]
  /\ loggedOut = {}
  /\ pc = [r \in Requests |-> "idle"]
  /\ request = [r \in Requests |-> NONE]
  /\ token = [r \in Requests |-> NONE]
  /\ session = [r \in Requests |-> NONE]
  /\ user = [r \in Requests |-> NONE]
  /\ status = [r \in Requests |-> 0]

-----------------------------------------------------------------------------
(* POST /auth/login                                                        *)

SubmitLogin(r, app, credential) ==
  /\ pc[r] = "idle"
  /\ request' = [request EXCEPT ![r] =
       [app |-> app, kind |-> "login", credential |-> credential, past |-> loggedOut]]
  /\ Goto(r, "authenticate")
  /\ UNCHANGED <<world, store, token, session, user, status>>

\* The table is chosen by the submitted type.
RowsNamed(c) == {row \in accounts : row.type = c.type /\ row.name = c.name}

\* Internal users have one of two roles; the mutant takes any.
RoleAsWritten(row) == IF row.type = "customer" THEN "customer" ELSE row.role
RoleOf(row) ==
  IF row.type = "customer" THEN "customer"
  ELSE IF row.role \in {"admin", "buyer"} THEN row.role
  ELSE NONE

Accepts(row, c) ==
  /\ Cardinality(RowsNamed(c)) = 1
  /\ row.type = "user" => row.enabled
  /\ row.password = c.password
  /\ RoleOf(row) # NONE

\* One SELECT, the checks on its row, and the claims that identify the user.
Authenticate(r) ==
  /\ pc[r] = "authenticate"
  /\ LET c == request[r].credential
     IN \/ \E row \in RowsNamed(c), id \in TokenIds \ drawn :
             /\ Accepts(row, c)
             /\ user' = [user EXCEPT ![r] =
                  [type |-> row.type, id |-> row.id, role |-> RoleOf(row), jti |-> id]]
             /\ drawn' = drawn \cup {id}
             /\ Goto(r, "register")
             /\ UNCHANGED status
        \/ /\ \A row \in RowsNamed(c) : ~Accepts(row, c)
           /\ Answer(r, 401)
           /\ UNCHANGED <<user, drawn>>
  /\ UNCHANGED <<world, sessions, tokens, loggedOut, request, token, session>>

\* Timestamps in claims are whole seconds, in sessions they are not.
WholeSecond(t) == (t \div Second) * Second
Audience(app) == IF app = "sandbox" THEN "sandbox" ELSE NONE
ClaimsOf(u, app, issued) ==
  [sub |-> u, exp |-> WholeSecond(issued + Life), key |-> Secret[app], aud |-> Audience(app)]
SessionOf(u, issued) ==
  [type |-> u.type, id |-> u.id, expires |-> issued + Life, revoked |-> FALSE]

\* issue_token: the session is stored before anybody gets to see the token.
Register(r) ==
  /\ pc[r] = "register"
  /\ token' = [token EXCEPT ![r] = ClaimsOf(user[r], App(r), now)]
  /\ sessions' = [sessions EXCEPT ![App(r)][user[r].jti] = SessionOf(user[r], now)]
  /\ Answer(r, 200)
  /\ UNCHANGED <<world, drawn, tokens, loggedOut, request, session, user>>

-----------------------------------------------------------------------------
(* Every other request: get_current_user, validate_token                   *)

\* The bearer token is any that some login has answered, or no token at all.
Submit(r, app, kind, t) ==
  /\ pc[r] = "idle"
  /\ request' = [request EXCEPT ![r] =
       [app |-> app, kind |-> kind, credential |-> NONE, past |-> loggedOut]]
  /\ token' = [token EXCEPT ![r] = t]
  /\ Goto(r, "decode")
  /\ UNCHANGED <<world, store, session, user, status>>

\* An audience is required where one is configured and refused where none
\* is.  The mutant does not require it.
AudienceOptional(t, app) == t.aud # NONE => t.aud = Audience(app)
AudienceFits(t, app) == t.aud = Audience(app)

Decodes(t, app) ==
  /\ t # NONE
  /\ t.key = Secret[app]
  /\ AudienceFits(t, app)
  /\ now < t.exp

Decode(r) ==
  /\ pc[r] = "decode"
  /\ IF Decodes(token[r], App(r)) THEN Goto(r, "known") /\ UNCHANGED status ELSE Answer(r, 401)
  /\ UNCHANGED <<world, store, request, token, session, user>>

Known(r) ==
  /\ pc[r] = "known"
  /\ IF Stored(r) # NONE THEN Goto(r, "getSession") /\ UNCHANGED status ELSE Answer(r, 401)
  /\ UNCHANGED <<world, store, request, token, session, user>>

GetSession(r) ==
  /\ pc[r] = "getSession"
  /\ session' = [session EXCEPT ![r] = Stored(r)]
  /\ IF /\ Stored(r) # NONE
        /\ Stored(r).type = token[r].sub.type /\ Stored(r).id = token[r].sub.id
       THEN Goto(r, "checkRevoked") /\ UNCHANGED status
       ELSE Answer(r, 401)
  /\ UNCHANGED <<world, store, request, token, user>>

\* is_token_revoked reads the session once more, and takes an absent one for
\* not revoked.
Revoked(r) == Stored(r) # NONE /\ Stored(r).revoked

CheckRevoked(r) ==
  /\ pc[r] = "checkRevoked"
  /\ IF Revoked(r) THEN Answer(r, 401) ELSE Goto(r, "checkExpiry") /\ UNCHANGED status
  /\ UNCHANGED <<world, store, request, token, session, user>>

CheckExpiry(r) ==
  /\ pc[r] = "checkExpiry"
  /\ IF session[r].expires <= now
       THEN Answer(r, 401) /\ UNCHANGED user
       ELSE /\ user' = [user EXCEPT ![r] = token[r].sub]
            /\ Goto(r, "serve")
            /\ UNCHANGED status
  /\ UNCHANGED <<world, store, request, token, session>>

-----------------------------------------------------------------------------
(* The routes                                                              *)

\* Customers, events and exports are for admins.
ServeAdmin(r) ==
  /\ pc[r] = "serve" /\ Kind(r) = "use"
  /\ Answer(r, IF user[r].role = "admin" THEN 200 ELSE 403)
  /\ UNCHANGED <<world, store, request, token, session, user>>

May(r, permission) == permission \in ResolvePermissions(user[r].role)
Scope(r, permission) == ResolveProductAccess(user[r].role, user[r].id)[permission]

\* The page is filtered by the scope: a list of what is left is no failure.
ListProducts(r) ==
  /\ pc[r] = "serve" /\ Kind(r) = "use"
  /\ Answer(r, IF May(r, "list") THEN 200 ELSE 403)
  /\ UNCHANGED <<world, store, request, token, session, user>>

\* A missing product is an error like any other: 500, or 503 in the sandbox.
ReadProduct(r, product) ==
  /\ pc[r] = "serve" /\ Kind(r) = "use"
  /\ Answer(r, IF ~May(r, "read") THEN 403
               ELSE IF product = NONE THEN (IF App(r) = "sandbox" THEN 503 ELSE 500)
               ELSE IF MatchesProduct(product, Scope(r, "read")) THEN 200
               ELSE 403)
  /\ UNCHANGED <<world, store, request, token, session, user>>

\* revoke_token: the id must be known.
KnownAgain(r) ==
  /\ pc[r] = "serve" /\ Kind(r) = "logout"
  /\ IF Stored(r) # NONE THEN Goto(r, "revoke") /\ UNCHANGED status ELSE Answer(r, 401)
  /\ UNCHANGED <<world, store, request, token, session, user>>

\* The mutant is an UPDATE without a commit.
RevokeUncommitted(r) ==
  /\ pc[r] = "revoke"
  /\ Answer(r, 200)
  /\ UNCHANGED <<world, store, request, token, session, user>>
Revoke(r) ==
  /\ pc[r] = "revoke"
  /\ sessions' = [sessions EXCEPT ![App(r)][TokenId(r)] =
                    IF @ = NONE THEN NONE ELSE [@ EXCEPT !.revoked = TRUE]]
  /\ Answer(r, 200)
  /\ UNCHANGED <<world, drawn, tokens, loggedOut, request, token, session, user>>

\* The answer reaches the client.
Respond(r) ==
  /\ pc[r] = "answer"
  /\ tokens' = IF Kind(r) = "login" /\ status[r] = 200
                 THEN [tokens EXCEPT ![App(r)] = @ \cup {token[r]}] ELSE tokens
  /\ loggedOut' = IF Kind(r) = "logout" /\ status[r] = 200
                    THEN loggedOut \cup {<<App(r), TokenId(r)>>} ELSE loggedOut
  /\ Finish(r)
  /\ UNCHANGED <<world, sessions, drawn>>

\* Any exception, or an answer that is lost: what was stored stays.
Fail(r) ==
  /\ pc[r] # "idle"
  /\ Finish(r)
  /\ UNCHANGED <<world, store>>

-----------------------------------------------------------------------------
(* The world                                                               *)

\* The server starts again.  The sessions of the sandbox were in memory; the
\* file of the others is kept.  The mutant creates its table anew.
StartFrom(kept) ==
  /\ sessions' = [a \in Apps |-> IF a \in kept THEN sessions[a] ELSE [t \in TokenIds |-> NONE]]
  /\ pc' = [r \in Requests |-> "idle"]
  /\ request' = [r \in Requests |-> NONE]
  /\ token' = [r \in Requests |-> NONE]
  /\ session' = [r \in Requests |-> NONE]
  /\ user' = [r \in Requests |-> NONE]
  /\ status' = [r \in Requests |-> 0]
  /\ UNCHANGED <<world, drawn, tokens, loggedOut>>
RestartAnew == StartFrom({})
Restart == StartFrom({"api"})

Tick ==
  /\ now < MaxTime
  /\ now' = now + 1
  /\ UNCHANGED <<accounts, store, pc, locals>>

\* Other programs edit the accounts; tokens keep the role of their login.
EditAccounts(table) ==
  /\ accounts' = table
  /\ UNCHANGED <<now, store, pc, locals>>

Validate(r) == Decode(r) \/ Known(r) \/ GetSession(r) \/ CheckRevoked(r) \/ CheckExpiry(r)
Serve(r) ==
  \/ ServeAdmin(r) \/ ListProducts(r) \/ KnownAgain(r) \/ Revoke(r)
  \/ \E product \in Products \cup {NONE} : ReadProduct(r, product)

Next ==
  \/ \E r \in Requests :
       \/ \E app \in Apps, c \in Credentials : SubmitLogin(r, app, c)
       \/ \E app \in Apps, kind \in Kinds, t \in (UNION {tokens[a] : a \in Apps}) \cup {NONE} :
            Submit(r, app, kind, t)
       \/ Authenticate(r) \/ Register(r) \/ Validate(r) \/ Serve(r) \/ Respond(r) \/ Fail(r)
  \/ Restart
  \/ Tick
  \/ \E table \in AccountTables : EditAccounts(table)

Spec == Init /\ [][Next]_vars
-----------------------------------------------------------------------------
(* Correctness                                                             *)

PCs == {"idle", "authenticate", "register", "decode", "known", "getSession",
        "checkRevoked", "checkExpiry", "serve", "revoke", "answer"}

\* The types; in particular, whoever is authenticated has a supported role.
TypeOK ==
  /\ now \in Nat
  /\ accounts \in AccountTables
  /\ sessions \in [Apps -> [TokenIds -> Session \cup {NONE}]]
  /\ drawn \subseteq TokenIds
  /\ tokens \in [Apps -> SUBSET Claims]
  /\ loggedOut \subseteq Apps \X TokenIds
  /\ pc \in [Requests -> PCs]
  /\ request \in [Requests -> Request \cup {NONE}]
  /\ token \in [Requests -> Claims \cup {NONE}]
  /\ session \in [Requests -> Session \cup {NONE}]
  /\ user \in [Requests -> User \cup {NONE}]
  /\ status \in [Requests -> {0, 200, 401, 403, 500, 503}]

Authenticated(r) == Kind(r) # "login" /\ user[r] # NONE

\* "marked as revoked so it cannot be used again": a request that comes after
\* the answer to a logout is not authenticated with that token, whatever
\* restarts there were, and whatever else was going on.
LogoutIsFinal ==
  \A r \in Requests : pc[r] # "idle" /\ Authenticated(r) => <<App(r), TokenId(r)>> \notin request[r].past

\* A token that a login has answered is refused only when it has been revoked
\* or its last second has begun, or when the sandbox has forgotten it.
LiveTokenAccepted ==
  \A r \in Requests :
    pc[r] = "answer" /\ status[r] = 401 /\ token[r] # NONE /\ token[r] \in tokens[App(r)]
    => \/ App(r) = "sandbox" /\ Stored(r) = NONE
       \/ Stored(r) # NONE /\ (Stored(r).revoked \/ WholeSecond(Stored(r).expires) <= now)

\* "Existing tokens fail on sandbox endpoints and sandbox tokens fail on
\* existing endpoints": even if both signed with one key, no session is
\* looked up for a token of the other application.
TokensStayApart ==
  \A r \in Requests :
    pc[r] \in PCs \ {"idle", "authenticate", "register", "decode", "answer"}
      => token[r] \in tokens[App(r)]

\* The table of permissions and the table of scopes agree: whoever has a
\* permission has something to use it on, and nobody else has.
PermissionsMatchScopes ==
  \A r \in Requests : pc[r] = "serve" =>
    \A p \in Permissions :
      LET scope == Scope(r, p)
      IN May(r, p) <=> IF p = "create" THEN MatchesCreate(user[r].id, scope)
                       ELSE \E owner \in {0, user[r].id}, enabled \in BOOLEAN :
                              MatchesProduct([id |-> 1, owner |-> owner, enabled |-> enabled], scope)
=============================================================================
