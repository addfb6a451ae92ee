-------------------------- MODULE SalesforceExport --------------------------
(***************************************************************************)
(* The exports of customers, orders and products to Salesforce: each       *)
(* request reads the entity as it is, sends one event and tells the caller *)
(* what became of it.  All requests of a server process share one cached   *)
(* access token; an event is sent a second time only after an explicit     *)
(* HTTP 401.  One action is what happens between two awaits.               *)
(*                                                                         *)
(* Salesforce and the network are the environment: tokens expire at any    *)
(* time, posts are lost, or arrive after the caller gave up on them.       *)
(***************************************************************************)
EXTENDS Naturals

CONSTANTS
  Requests,        \* the export calls; each makes one event with a new id
  Entities,
  Target,          \* the entity that a request exports
  Deletions,       \* the requests that send a deletion, without data
  MissingReported, \* those that answer a remote 404 with 404, not with 502
  Keys, Key,       \* the token URL and credentials a request is configured with
  Tokens,          \* bound: the access tokens Salesforce may issue
  MaxVersion,      \* bound: the local versions of an entity
  Sequential,      \* whether callers wait for one export before the next
  NONE

ASSUME SalesforceExportAssumption ==
  /\ Target \in [Requests -> Entities]
  /\ Deletions \subseteq Requests /\ MissingReported \subseteq Requests
  /\ Key \in [Requests -> Keys]
  /\ MaxVersion \in Nat \ {0}
  /\ Sequential \in BOOLEAN
  /\ NONE \notin Requests \cup Tokens \cup Keys \cup Nat \cup [token : Tokens, key : Keys]

VARIABLES
  \* the server process
  cache,        \* _access_token and _credentials_key
  tokenLock,    \* the request that holds _token_lock across an await
  pc, attempt,
  content,      \* what the event carries: a version, or 0 for a deletion
  token,        \* the token the last post was made with
  answers,      \* the HTTP status of the export call
  \* its database
  local,        \* the version of each entity, NONE when there is none
  \* Salesforce and the network
  wire,         \* posts under way
  replies,      \* responses under way
  valid,        \* the tokens that Salesforce accepts
  owner,        \* the credentials a token was issued for
  remote,       \* the content Salesforce has for each entity
  applied,      \* how often the event of a request was applied
  latest        \* the request last begun for each entity

server == <<cache, tokenLock, pc, attempt, content, token, answers>>
salesforce == <<wire, replies, valid, owner, remote, applied>>
vars == <<server, local, salesforce, latest>>

PCs == {"idle", "token", "authenticating", "post", "waiting", "done", "lost"}
Running(r) == pc[r] \notin {"idle", "done", "lost"}
Post == [request : Requests, token : Tokens, attempt : 1..2]
Reply == [request : Requests,
          status : {"confirmed", "garbled", "unauthorized", "missing", "conflict", "error"}]
Contents == 0..MaxVersion

Goto(r, place) == pc' = [pc EXCEPT ![r] = place]
Answer(r, status) == Goto(r, "done") /\ answers' = [answers EXCEPT ![r] = status]

\* The status of the call for what Salesforce responded.  The mutant answers
\* everything but a confirmation with 409.
AnyConflict(r, status) == IF status = "confirmed" THEN 200 ELSE 409
StatusFor(r, status) ==
  CASE status = "confirmed" -> 200
    [] status = "conflict" -> 409
    [] status = "missing" /\ r \in MissingReported -> 404
    [] OTHER -> 502

-----------------------------------------------------------------------------
Init ==
  /\ cache = NONE /\ tokenLock = NONE
  /\ pc = [r \in Requests |-> "idle"]
  /\ attempt = [r \in Requests |-> 1]
  /\ content = [r \in Requests |-> NONE]
  /\ token = [r \in Requests |-> NONE]
  /\ answers = [r \in Requests |-> NONE]
  /\ local \in [Entities -> {NONE, 1}]
  /\ wire = {} /\ replies = {}
  /\ valid = {} /\ owner = [t \in Tokens |-> NONE]
  /\ remote = [e \in Entities |-> NONE]
  /\ applied = [r \in Requests |-> 0]
  /\ latest = [e \in Entities |-> NONE]

\* The entity is read in a transaction of its own.  404 when it is missing; 422
\* when its data cannot form the payload, which a deletion does not need; 503
\* when the database or the settings fail.
Read(r) ==
  /\ pc[r] = "idle"
  /\ Sequential => \A q \in Requests : Target[q] = Target[r] => ~Running(q)
  /\ latest' = [latest EXCEPT ![Target[r]] = r]
  /\ \/ local[Target[r]] = NONE /\ Answer(r, 404) /\ UNCHANGED content
     \/ local[Target[r]] # NONE /\ r \notin Deletions /\ Answer(r, 422) /\ UNCHANGED content
     \/ Answer(r, 503) /\ UNCHANGED content
     \/ /\ local[Target[r]] # NONE
        /\ content' = [content EXCEPT ![r] = IF r \in Deletions THEN 0 ELSE local[Target[r]]]
        /\ Goto(r, "token")
        /\ UNCHANGED answers
  /\ UNCHANGED <<cache, tokenLock, attempt, token, local, salesforce>>

-----------------------------------------------------------------------------
(* get_access_token and invalidate_access_token                            *)

Cached(r) == cache # NONE /\ cache.key = Key[r]

UseToken(r, t) ==
  /\ token' = [token EXCEPT ![r] = t]
  /\ Goto(r, "post")

\* The mutant looks at the cache before it asks for the lock, and not again.
GetTokenUnlocked(r) ==
  /\ pc[r] = "token"
  /\ IF Cached(r)
       THEN UseToken(r, cache.token)
       ELSE Goto(r, "authenticating") /\ UNCHANGED token
  /\ UNCHANGED <<cache, tokenLock, attempt, content, answers, local, salesforce, latest>>
GetToken(r) ==
  /\ pc[r] = "token"
  /\ tokenLock = NONE
  /\ IF Cached(r)
       THEN UseToken(r, cache.token) /\ UNCHANGED tokenLock
       ELSE Goto(r, "authenticating") /\ tokenLock' = r /\ UNCHANGED token
  /\ UNCHANGED <<cache, attempt, content, answers, local, salesforce, latest>>

\* Salesforce issues a new token, or the one these credentials still have.
Authenticate(r, t) ==
  /\ pc[r] = "authenticating"
  /\ owner[t] = NONE \/ (owner[t] = Key[r] /\ t \in valid)
  /\ owner' = [owner EXCEPT ![t] = Key[r]]
  /\ valid' = valid \cup {t}
  /\ cache' = [token |-> t, key |-> Key[r]]
  /\ tokenLock' = NONE
  /\ UseToken(r, t)
  /\ UNCHANGED <<attempt, content, answers, local, wire, replies, remote, applied, latest>>

\* A timeout is answered 504; any other failure like a response to the event
\* with the same HTTP status.  The lock is released; the mutant leaves it
\* locked, as acquire() without "async with" would.
AuthenticationStatuses(r) == {504} \cup {StatusFor(r, s) : s \in {"missing", "conflict", "error"}}
AuthenticationFailsLocked(r) ==
  /\ pc[r] = "authenticating"
  /\ \E status \in AuthenticationStatuses(r) : Answer(r, status)
  /\ UNCHANGED <<cache, tokenLock, attempt, content, token, local, salesforce, latest>>
AuthenticationFails(r) ==
  /\ pc[r] = "authenticating"
  /\ tokenLock' = NONE
  /\ \E status \in AuthenticationStatuses(r) : Answer(r, status)
  /\ UNCHANGED <<cache, attempt, content, token, local, salesforce, latest>>

\* Only the token that was used is forgotten, not a newer one; the mutant
\* forgets whatever is cached.
InvalidateAny(r) == cache' = NONE
Invalidate(r) ==
  cache' = IF cache = [token |-> token[r], key |-> Key[r]] THEN NONE ELSE cache

-----------------------------------------------------------------------------
(* One event: at most two posts                                            *)

\* The mutant answers at once and leaves the post to itself.
SendInBackground(r) ==
  /\ pc[r] = "post"
  /\ wire' = wire \cup {[request |-> r, token |-> token[r], attempt |-> attempt[r]]}
  /\ Answer(r, 200)
  /\ UNCHANGED <<cache, tokenLock, attempt, content, token, local,
                 replies, valid, owner, remote, applied, latest>>
Send(r) ==
  /\ pc[r] = "post"
  /\ wire' = wire \cup {[request |-> r, token |-> token[r], attempt |-> attempt[r]]}
  /\ Goto(r, "waiting")
  /\ UNCHANGED <<cache, tokenLock, attempt, content, token, answers, local,
                 replies, valid, owner, remote, applied, latest>>

\* 401 invalidates the token; the first one gets a new token and posts again.
\* The mutant does so after every 401.
ReceiveUnbounded(r, reply) ==
  /\ pc[r] = "waiting"
  /\ reply.request = r
  /\ replies' = replies \ {reply}
  /\ IF reply.status = "unauthorized"
       THEN Invalidate(r) /\ attempt' = [attempt EXCEPT ![r] = @ + 1]
              /\ Goto(r, "token") /\ UNCHANGED answers
       ELSE Answer(r, StatusFor(r, reply.status)) /\ UNCHANGED <<cache, attempt>>
  /\ UNCHANGED <<tokenLock, content, token, local, wire, valid, owner, remote,
                 applied, latest>>
Receive(r, reply) ==
  /\ pc[r] = "waiting"
  /\ reply.request = r
  /\ replies' = replies \ {reply}
  /\ IF reply.status = "unauthorized" THEN Invalidate(r) ELSE UNCHANGED cache
  /\ IF reply.status = "unauthorized" /\ attempt[r] = 1
       THEN attempt' = [attempt EXCEPT ![r] = 2] /\ Goto(r, "token") /\ UNCHANGED answers
       ELSE Answer(r, StatusFor(r, reply.status)) /\ UNCHANGED attempt
  /\ UNCHANGED <<tokenLock, content, token, local, wire, valid, owner, remote,
                 applied, latest>>

\* 504 for a timeout, 502 for a connection that failed; the post may be under
\* way, applied or lost.  The mutant posts it again.
GiveUpRetrying(r) ==
  /\ pc[r] = "waiting"
  /\ replies' = {reply \in replies : reply.request # r}
  /\ IF attempt[r] = 1
       THEN attempt' = [attempt EXCEPT ![r] = 2] /\ Goto(r, "token") /\ UNCHANGED answers
       ELSE (\E status \in {502, 504} : Answer(r, status)) /\ UNCHANGED attempt
  /\ UNCHANGED <<cache, tokenLock, content, token, local, wire, valid, owner,
                 remote, applied, latest>>
GiveUp(r) ==
  /\ pc[r] = "waiting"
  /\ replies' = {reply \in replies : reply.request # r}
  /\ \E status \in {502, 504} : Answer(r, status)
  /\ UNCHANGED <<cache, tokenLock, attempt, content, token, local, wire, valid,
                 owner, remote, applied, latest>>

\* The process dies: its requests, the cache and the lock are gone.
Restart ==
  /\ cache' = NONE /\ tokenLock' = NONE
  /\ pc' = [r \in Requests |-> IF Running(r) THEN "lost" ELSE pc[r]]
  /\ replies' = {}
  /\ UNCHANGED <<attempt, content, token, answers, local, wire, valid, owner,
                 remote, applied, latest>>

-----------------------------------------------------------------------------
(* Salesforce, the network, and other writers of the database              *)

\* Whoever still waits for the post gets the response.
Respond(m, status) ==
  replies' = IF pc[m.request] = "waiting" /\ attempt[m.request] = m.attempt
               THEN replies \cup {[request |-> m.request, status |-> status]}
               ELSE replies

\* The event is applied; the response may be unreadable, or an error after all.
Apply(m) ==
  /\ m.token \in valid
  /\ wire' = wire \ {m}
  /\ remote' = [remote EXCEPT ![Target[m.request]] = content[m.request]]
  /\ applied' = [applied EXCEPT ![m.request] = @ + 1]
  /\ \E status \in {"confirmed", "garbled", "error"} : Respond(m, status)
  /\ UNCHANGED <<server, local, valid, owner, latest>>

\* Salesforce refuses the event; with 401 exactly when the token is not valid.
Refuse(m) ==
  /\ wire' = wire \ {m}
  /\ IF m.token \in valid
       THEN \E status \in {"missing", "conflict", "error"} : Respond(m, status)
       ELSE Respond(m, "unauthorized")
  /\ UNCHANGED <<server, local, valid, owner, remote, applied, latest>>

Lose(m) ==
  /\ wire' = wire \ {m}
  /\ UNCHANGED <<server, local, replies, valid, owner, remote, applied, latest>>

Expire(t) ==
  /\ t \in valid
  /\ valid' = valid \ {t}
  /\ UNCHANGED <<server, local, wire, replies, owner, remote, applied, latest>>

Edit(e) ==
  /\ local[e] # NONE /\ local[e] < MaxVersion
  /\ local' = [local EXCEPT ![e] = @ + 1]
  /\ UNCHANGED <<server, salesforce, latest>>

-----------------------------------------------------------------------------
Work(r) ==
  \/ GetToken(r) \/ AuthenticationFails(r) \/ Send(r) \/ GiveUp(r)
  \/ \E t \in Tokens : Authenticate(r, t)
  \/ \E reply \in replies : Receive(r, reply)

Next ==
  \/ \E r \in Requests : Read(r) \/ Work(r)
  \/ Restart
  \/ \E m \in wire : Apply(m) \/ Refuse(m) \/ Lose(m)
  \/ \E t \in Tokens : Expire(t)
  \/ \E e \in Entities : Edit(e)

\* The event loop runs every task that can go on, and every call to Salesforce
\* has a timeout.
Fairness == \A r \in Requests : WF_vars(Work(r))

Spec == Init /\ [][Next]_vars
FairSpec == Spec /\ Fairness
-----------------------------------------------------------------------------
(* Correctness                                                             *)

\* The types of all variables.
TypeOK ==
  /\ cache \in [token : Tokens, key : Keys] \cup {NONE}
  /\ tokenLock \in Requests \cup {NONE}
  /\ pc \in [Requests -> PCs]
  /\ attempt \in [Requests -> 1..2]
  /\ content \in [Requests -> Contents \cup {NONE}]
  /\ token \in [Requests -> Tokens \cup {NONE}]
  /\ answers \in [Requests -> {200, 404, 409, 422, 502, 503, 504, NONE}]
  /\ local \in [Entities -> 1..MaxVersion \cup {NONE}]
  /\ wire \subseteq Post
  /\ replies \subseteq Reply
  /\ valid \subseteq Tokens
  /\ owner \in [Tokens -> Keys \cup {NONE}]
  /\ remote \in [Entities -> Contents \cup {NONE}]
  /\ applied \in [Requests -> Nat]
  /\ latest \in [Entities -> Requests \cup {NONE}]

\* The retry never makes Salesforce apply an event twice: only a post that
\* was refused with 401 is repeated, never one whose outcome is unknown.
AppliedAtMostOnce == \A r \in Requests : applied[r] <= 1

\* What the caller is told is so: a success was applied, and after 404, 409, 422
\* or 503 the event has not been applied and never will be.
AnswersTrue ==
  \A r \in Requests :
    /\ answers[r] = 200 => applied[r] = 1
    /\ answers[r] \in {404, 409, 422, 503} =>
         applied[r] = 0 /\ \A m \in wire : m.request # r

\* When callers wait for each export of an entity and each had a definite
\* outcome, a success leaves Salesforce with what the last one read.
LastExportWins ==
  \A e \in Entities : LET r == latest[e] IN
    /\ Sequential /\ r # NONE
    /\ r # NONE => answers[r] = 200
    /\ \A q \in Requests \ {r} : Target[q] = e => pc[q] # "lost" /\ answers[q] \notin {502, 504}
    => remote[e] = content[r]

\* Requests that need a token at the same time authenticate once: none does
\* while a token for its credentials is cached.
AuthenticatesOnce ==
  \A r \in Requests : pc[r] = "authenticating" => ~Cached(r)

\* A 401 for an old token that arrives late does not throw away the valid
\* one that another request has obtained meanwhile.
ValidTokenKept ==
  [][cache # NONE /\ cache.token \in valid /\ cache' = NONE
       => \A r \in Requests : ~Running(r)']_vars

\* "502 | Remote authentication/delivery/response error": when no access token
\* can be had, the caller is not told that the order or the customer is
\* missing, nor that there is a conflict.
AuthenticationFailureIs502 ==
  [][\A r \in Requests : pc[r] = "authenticating" /\ pc'[r] = "done"
       => answers'[r] \in {502, 504}]_vars

\* Every export call is answered, or lost with its process.
EveryCallEnds ==
  \A r \in Requests : Running(r) ~> ~Running(r)
=============================================================================
