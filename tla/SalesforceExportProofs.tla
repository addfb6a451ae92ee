----------------------- MODULE SalesforceExportProofs -----------------------
(***************************************************************************)
(* No event is applied twice, callers are told the truth, the last export   *)
(* wins and the token is handled as it should be, for every number of       *)
(* requests, entities, credentials, tokens and versions.                    *)
(***************************************************************************)
EXTENDS SalesforceExport, TLAPS

-----------------------------------------------------------------------------
NoPost(r) == \A m \in wire : m.request # r

\* The token lock is held exactly while its holder authenticates.
LockHeld == \A r \in Requests : pc[r] = "authenticating" <=> tokenLock = r

\* A token that is cached or used has been issued, so Salesforce does not
\* issue it again once it has expired.
TokensIssued ==
  /\ cache # NONE => owner[cache.token] # NONE
  /\ \A r \in Requests : pc[r] \in {"post", "waiting"} =>
       token[r] # NONE /\ owner[token[r]] # NONE

\* Until a request waits, nothing of it is under way and nothing was applied.
BeforePost ==
  \A r \in Requests : pc[r] \in {"idle", "token", "authenticating", "post"} =>
    applied[r] = 0 /\ NoPost(r)

\* A post under way is the only one of its request, not applied, and the one
\* that the request waits for if it still waits.
WireOK ==
  \A m \in wire :
    /\ applied[m.request] = 0
    /\ \A n \in wire : n.request = m.request => n = m
    /\ pc[m.request] = "waiting" => m.attempt = attempt[m.request] /\ m.token = token[m.request]

\* A response under way is the only one, for a request that waits and has no
\* post under way, and says what Salesforce did.
RepliesOK ==
  \A reply \in replies :
    /\ pc[reply.request] = "waiting" /\ NoPost(reply.request)
    /\ \A other \in replies : other.request = reply.request => other = reply
    /\ reply.status = "confirmed" => applied[reply.request] = 1
    /\ reply.status \in {"missing", "conflict", "unauthorized"} => applied[reply.request] = 0
    /\ reply.status = "unauthorized" => token[reply.request] \notin valid

AnsweredWhenDone == \A r \in Requests : answers[r] # NONE <=> pc[r] = "done"

\* Callers that wait for each other: the one request of an entity that runs is
\* the latest.
LatestRuns ==
  /\ \A e \in Entities : latest[e] # NONE => Target[latest[e]] = e
  /\ Sequential => \A r \in Requests : Running(r) => latest[Target[r]] = r

\* The others had a definite outcome, or have not begun.
OthersDefinite(e) ==
  \A q \in Requests : q # latest[e] /\ Target[q] = e =>
    pc[q] # "lost" /\ answers[q] \notin {502, 504}

LatestApplied ==
  \A e \in Entities :
    Sequential /\ latest[e] # NONE /\ OthersDefinite(e) /\ applied[latest[e]] = 1
      => remote[e] = content[latest[e]]

PostInv == BeforePost /\ WireOK /\ RepliesOK /\ AnsweredWhenDone /\ AppliedAtMostOnce
TokenInv == LockHeld /\ AuthenticatesOnce /\ TokensIssued
LatestInv == LatestRuns /\ LatestApplied

IInv == TypeOK /\ TokenInv /\ PostInv /\ AnswersTrue /\ LatestInv

-----------------------------------------------------------------------------
LEMMA NoneDistinct ==
  /\ NONE \notin Requests /\ NONE \notin Tokens /\ NONE \notin Keys /\ NONE \notin Nat
  /\ NONE \notin [token : Tokens, key : Keys]
  /\ NONE \notin {200, 404, 409, 422, 502, 503, 504}
BY SalesforceExportAssumption

LEMMA StatusForType ==
  ASSUME NEW r \in Requests, NEW status
  PROVE  /\ StatusFor(r, status) \in {200, 404, 409, 502}
         /\ StatusFor(r, status) = 200 <=> status = "confirmed"
         /\ StatusFor(r, status) = 404 => status = "missing"
         /\ StatusFor(r, status) = 409 <=> status = "conflict"
BY DEF StatusFor

LEMMA AuthenticationStatusesType ==
  ASSUME NEW r \in Requests
  PROVE  AuthenticationStatuses(r) \subseteq {404, 409, 502, 504}
<1>1. \A s \in {"missing", "conflict", "error"} : StatusFor(r, s) \in {404, 409, 502}
  BY DEF StatusFor
<1> QED
  BY <1>1 DEF AuthenticationStatuses

-----------------------------------------------------------------------------
LEMMA InitEstablishes == Init => IInv
<1> SUFFICES ASSUME Init PROVE IInv
  OBVIOUS
<1> USE NoneDistinct, SalesforceExportAssumption DEF Init
<1>1. TypeOK
  BY DEF TypeOK, PCs
<1>2. TokenInv
  BY DEF TokenInv, LockHeld, AuthenticatesOnce, TokensIssued
<1>3. PostInv
  BY DEF PostInv, BeforePost, NoPost, WireOK, RepliesOK, AnsweredWhenDone, AppliedAtMostOnce
<1>4. AnswersTrue
  BY DEF AnswersTrue
<1>5. LatestInv
  BY DEF LatestInv, LatestRuns, LatestApplied, Running
<1> QED
  BY <1>1, <1>2, <1>3, <1>4, <1>5 DEF IInv

-----------------------------------------------------------------------------
(* Types.                                                                  *)

LEMMA TypeStep == TypeOK /\ TokenInv /\ [Next]_vars => TypeOK'
<1> SUFFICES ASSUME TypeOK, TokenInv, [Next]_vars PROVE TypeOK'
  OBVIOUS
<1> USE NoneDistinct, SalesforceExportAssumption DEF TypeOK, PCs
<1>1. ASSUME NEW r \in Requests, Read(r) PROVE TypeOK'
  BY <1>1 DEF Read, Goto, Answer, salesforce, Contents
<1>2. ASSUME NEW r \in Requests, GetToken(r) PROVE TypeOK'
  BY <1>2 DEF GetToken, UseToken, Cached, Goto, salesforce
<1>3. ASSUME NEW r \in Requests, NEW t \in Tokens, Authenticate(r, t) PROVE TypeOK'
  BY <1>3 DEF Authenticate, UseToken, Goto
<1>4. ASSUME NEW r \in Requests, AuthenticationFails(r) PROVE TypeOK'
  <2>1. PICK status \in AuthenticationStatuses(r) : Answer(r, status)
    BY <1>4 DEF AuthenticationFails
  <2>2. status \in {404, 409, 502, 504}
    BY AuthenticationStatusesType
  <2> QED
    BY <1>4, <2>1, <2>2 DEF AuthenticationFails, Answer, Goto, salesforce
<1>5. ASSUME NEW r \in Requests, Send(r) PROVE TypeOK'
  <2>1. token[r] \in Tokens
    BY <1>5 DEF Send, TokenInv, TokensIssued
  <2> QED
    BY <1>5, <2>1 DEF Send, Goto, Post
<1>6. ASSUME NEW r \in Requests, NEW reply \in replies, Receive(r, reply) PROVE TypeOK'
  <2>1. StatusFor(r, reply.status) \in {200, 404, 409, 502}
    BY StatusForType
  <2>2. cache' \in [token : Tokens, key : Keys] \cup {NONE}
    BY <1>6 DEF Receive, Invalidate
  <2> QED
    BY <1>6, <2>1, <2>2 DEF Receive, Answer, Goto
<1>7. ASSUME NEW r \in Requests, GiveUp(r) PROVE TypeOK'
  BY <1>7 DEF GiveUp, Answer, Goto
<1>8. CASE Restart
  BY <1>8 DEF Restart
<1>9. ASSUME NEW m \in wire, Apply(m) PROVE TypeOK'
  <2>1. m \in Post /\ m.request \in Requests
    BY DEF Post
  <2>2. replies' \subseteq Reply
    BY <1>9, <2>1 DEF Apply, Respond, Reply
  <2> QED
    BY <1>9, <2>1, <2>2 DEF Apply, server
<1>10. ASSUME NEW m \in wire, Refuse(m) PROVE TypeOK'
  <2>1. m \in Post /\ m.request \in Requests
    BY DEF Post
  <2>2. replies' \subseteq Reply
    BY <1>10, <2>1 DEF Refuse, Respond, Reply
  <2> QED
    BY <1>10, <2>1, <2>2 DEF Refuse, server
<1>11. ASSUME NEW m \in wire, Lose(m) PROVE TypeOK'
  BY <1>11 DEF Lose, server
<1>12. ASSUME NEW t \in Tokens, Expire(t) PROVE TypeOK'
  BY <1>12 DEF Expire, server
<1>13. ASSUME NEW e \in Entities, Edit(e) PROVE TypeOK'
  BY <1>13 DEF Edit, server, salesforce
<1>14. CASE UNCHANGED vars
  BY <1>14 DEF vars, server, salesforce
<1> QED
  BY <1>1, <1>2, <1>3, <1>4, <1>5, <1>6, <1>7, <1>8, <1>9, <1>10, <1>11, <1>12, <1>13, <1>14
     DEF Next, Work

-----------------------------------------------------------------------------
(* The cached token and its lock.                                          *)

LEMMA TokenStep == TypeOK /\ TokenInv /\ [Next]_vars => TokenInv'
<1> SUFFICES ASSUME TypeOK, TokenInv, [Next]_vars PROVE TokenInv'
  OBVIOUS
<1> USE NoneDistinct, SalesforceExportAssumption
    DEF TypeOK, TokenInv, LockHeld, AuthenticatesOnce, TokensIssued, Cached
\* What changes neither the token state nor the place of a request.
<1>1. ASSUME UNCHANGED <<cache, tokenLock, pc, token, owner>> PROVE TokenInv'
  BY <1>1
<1>2. ASSUME NEW r \in Requests, Read(r) PROVE TokenInv'
  <2>1. /\ UNCHANGED <<cache, tokenLock, token, owner>> /\ pc[r] = "idle"
        /\ pc' \in {[pc EXCEPT ![r] = "done"], [pc EXCEPT ![r] = "token"]}
    BY <1>2 DEF Read, Goto, Answer, salesforce
  <2> QED
    BY <2>1
<1>3. ASSUME NEW r \in Requests, GetToken(r) PROVE TokenInv'
  <2>1. CASE Cached(r)
    BY <1>3, <2>1 DEF GetToken, UseToken, Goto, salesforce
  <2>2. CASE ~Cached(r)
    BY <1>3, <2>2 DEF GetToken, Goto, salesforce
  <2> QED
    BY <2>1, <2>2
<1>4. ASSUME NEW r \in Requests, NEW t \in Tokens, Authenticate(r, t) PROVE TokenInv'
  <2>1. /\ pc[r] = "authenticating" /\ tokenLock = r /\ tokenLock' = NONE
        /\ owner' = [owner EXCEPT ![t] = Key[r]] /\ Key[r] # NONE
        /\ cache' = [token |-> t, key |-> Key[r]]
        /\ token' = [token EXCEPT ![r] = t] /\ pc' = [pc EXCEPT ![r] = "post"]
    BY <1>4 DEF Authenticate, UseToken, Goto
  <2>2. \A q \in Requests : pc'[q] # "authenticating"
    BY <2>1
  <2>3. \A u \in Tokens : owner[u] # NONE => owner'[u] # NONE
    BY <2>1
  <2>4. \A q \in Requests : pc'[q] \in {"post", "waiting"} =>
          token'[q] # NONE /\ owner'[token'[q]] # NONE
    BY <2>1, <2>3
  <2>5. owner'[t] # NONE
    BY <2>1
  <2> QED
    BY <2>1, <2>2, <2>4, <2>5
<1>5. ASSUME NEW r \in Requests, AuthenticationFails(r) PROVE TokenInv'
  BY <1>5 DEF AuthenticationFails, Answer, Goto, salesforce
<1>6. ASSUME NEW r \in Requests, Send(r) PROVE TokenInv'
  BY <1>6 DEF Send, Goto
<1>7. ASSUME NEW r \in Requests, NEW reply \in replies, Receive(r, reply) PROVE TokenInv'
  <2>1. /\ UNCHANGED <<tokenLock, token, owner>> /\ pc[r] = "waiting"
        /\ pc' \in {[pc EXCEPT ![r] = "done"], [pc EXCEPT ![r] = "token"]}
        /\ cache' \in {cache, NONE}
    BY <1>7 DEF Receive, Answer, Goto, Invalidate
  <2> QED
    BY <2>1
<1>8. ASSUME NEW r \in Requests, GiveUp(r) PROVE TokenInv'
  BY <1>8 DEF GiveUp, Answer, Goto
<1>9. CASE Restart
  BY <1>9 DEF Restart, Running
<1>10. ASSUME NEW m \in wire, Apply(m) \/ Refuse(m) \/ Lose(m) PROVE TokenInv'
  BY <1>1, <1>10 DEF Apply, Refuse, Lose, server
<1>11. ASSUME NEW t \in Tokens, Expire(t) PROVE TokenInv'
  BY <1>1, <1>11 DEF Expire, server
<1>12. ASSUME NEW e \in Entities, Edit(e) PROVE TokenInv'
  BY <1>1, <1>12 DEF Edit, server, salesforce
<1>13. CASE UNCHANGED vars
  BY <1>1, <1>13 DEF vars, server, salesforce
<1> QED
  BY <1>2, <1>3, <1>4, <1>5, <1>6, <1>7, <1>8, <1>9, <1>10, <1>11, <1>12, <1>13
     DEF Next, Work

-----------------------------------------------------------------------------
(* Posts, responses and what was applied.                                  *)

\* Steps of a request before its posts: nothing goes to Salesforce, and no
\* token comes back to life.
NoPosting ==
  /\ UNCHANGED <<attempt, wire, replies, applied>>
  /\ \A q \in Requests : pc[q] = "waiting" /\ token[q] \in valid' => token[q] \in valid
MayGetToken(r) == token' = token \/ \E t \in Tokens : token' = [token EXCEPT ![r] = t]
GoesOn(r) ==
  \/ /\ UNCHANGED answers
     /\ \E place \in {"token", "authenticating", "post"} : pc' = [pc EXCEPT ![r] = place]
  \/ \E status \in {404, 409, 422, 502, 503, 504} : Answer(r, status)

\* Steps that concern one request, which is not waiting, and no post.
LEMMA QuietStep ==
  ASSUME TypeOK, PostInv, AnswersTrue, NEW r \in Requests,
         pc[r] \in {"idle", "token", "authenticating"},
         NoPosting, MayGetToken(r), GoesOn(r)
  PROVE  PostInv' /\ AnswersTrue'
<1> USE NoneDistinct DEF TypeOK, PostInv, Answer, Goto, NoPosting, MayGetToken, GoesOn
<1>1. /\ \A q \in Requests \ {r} : pc'[q] = pc[q] /\ answers'[q] = answers[q] /\ token'[q] = token[q]
      /\ pc'[r] \in {"token", "authenticating", "post", "done"}
      /\ applied[r] = 0 /\ NoPost(r)
  BY DEF BeforePost
<1>2. \A m \in wire : m.request \in Requests /\ m.request # r
  BY <1>1 DEF NoPost, Post
<1>3. \A reply \in replies : reply.request \in Requests /\ reply.request # r
  BY DEF RepliesOK, Reply
<1>4. BeforePost'
  BY <1>1 DEF BeforePost, NoPost
<1>5. WireOK'
  BY <1>1, <1>2 DEF WireOK
<1>6. RepliesOK'
  BY <1>1, <1>3 DEF RepliesOK, NoPost
<1>7. AnsweredWhenDone'
  BY <1>1 DEF AnsweredWhenDone
<1>8. AppliedAtMostOnce'
  BY DEF AppliedAtMostOnce
<1>9. AnswersTrue'
  BY <1>1 DEF AnswersTrue, NoPost, AnsweredWhenDone
<1> QED
  BY <1>4, <1>5, <1>6, <1>7, <1>8, <1>9

LEMMA SendStep ==
  ASSUME TypeOK, TokenInv, PostInv, AnswersTrue, NEW r \in Requests, Send(r)
  PROVE  PostInv' /\ AnswersTrue'
<1> USE NoneDistinct DEF TypeOK, PostInv
<1> DEFINE post == [request |-> r, token |-> token[r], attempt |-> attempt[r]]
<1>1. /\ pc[r] = "post" /\ pc' = [pc EXCEPT ![r] = "waiting"]
      /\ wire' = wire \cup {post}
      /\ UNCHANGED <<attempt, token, answers, replies, valid, applied>>
  BY DEF Send, Goto
<1>2. applied[r] = 0 /\ NoPost(r)
  BY <1>1 DEF BeforePost
<1>3. /\ post.request = r /\ post.token = token[r] /\ post.attempt = attempt[r]
      /\ \A m \in wire : m.request \in Requests /\ m.request # r
  BY <1>2 DEF NoPost, Post
<1>4. \A reply \in replies : reply.request \in Requests /\ reply.request # r
  BY <1>1 DEF RepliesOK, Reply
<1> HIDE DEF post
<1>5. BeforePost'
  BY <1>1, <1>3 DEF BeforePost, NoPost
<1>6. WireOK'
  BY <1>1, <1>2, <1>3 DEF WireOK
<1>7. RepliesOK'
  BY <1>1, <1>3, <1>4 DEF RepliesOK, NoPost
<1>8. AnsweredWhenDone' /\ AppliedAtMostOnce'
  BY <1>1 DEF AnsweredWhenDone, AppliedAtMostOnce
<1>9. AnswersTrue'
  BY <1>1, <1>3 DEF AnswersTrue, AnsweredWhenDone
<1> QED
  BY <1>5, <1>6, <1>7, <1>8, <1>9

LEMMA ReceiveStep ==
  ASSUME TypeOK, PostInv, AnswersTrue, NEW r \in Requests, NEW reply \in replies,
         Receive(r, reply)
  PROVE  PostInv' /\ AnswersTrue'
<1> USE NoneDistinct DEF TypeOK, PostInv
<1> DEFINE status == StatusFor(r, reply.status)
<1>1. /\ pc[r] = "waiting" /\ reply.request = r /\ replies' = replies \ {reply}
      /\ UNCHANGED <<token, wire, valid, applied>>
  BY DEF Receive
<1>2. /\ NoPost(r)
      /\ \A other \in replies' : other.request \in Requests /\ other.request # r
      /\ reply.status = "confirmed" => applied[r] = 1
      /\ reply.status \in {"missing", "conflict", "unauthorized"} => applied[r] = 0
  BY <1>1 DEF RepliesOK, Reply
<1>3. \/ /\ reply.status = "unauthorized" /\ UNCHANGED answers
         /\ pc' = [pc EXCEPT ![r] = "token"] /\ attempt' = [attempt EXCEPT ![r] = 2]
      \/ /\ UNCHANGED attempt /\ pc' = [pc EXCEPT ![r] = "done"]
         /\ answers' = [answers EXCEPT ![r] = status]
  BY DEF Receive, Answer, Goto
<1>4. /\ status # NONE
      /\ status = 200 => reply.status = "confirmed"
      /\ status \in {404, 409, 422, 503} => reply.status \in {"missing", "conflict"}
  BY StatusForType
<1> HIDE DEF status
<1>5. /\ \A m \in wire : m.request \in Requests /\ m.request # r
      /\ \A q \in Requests \ {r} : /\ pc'[q] = pc[q] /\ answers'[q] = answers[q]
                                   /\ attempt'[q] = attempt[q]
  BY <1>2, <1>3 DEF NoPost, Post
<1>6. BeforePost'
  BY <1>1, <1>2, <1>3 DEF BeforePost, NoPost
<1>7. WireOK'
  BY <1>1, <1>5 DEF WireOK
<1>8. RepliesOK'
  BY <1>1, <1>2, <1>5 DEF RepliesOK, NoPost
<1>9. AnsweredWhenDone'
  BY <1>1, <1>3, <1>4 DEF AnsweredWhenDone
<1>10. AppliedAtMostOnce'
  BY <1>1 DEF AppliedAtMostOnce
<1>11. AnswersTrue'
  BY <1>1, <1>2, <1>3, <1>4 DEF AnswersTrue, NoPost, AnsweredWhenDone
<1> QED
  BY <1>6, <1>7, <1>8, <1>9, <1>10, <1>11

LEMMA GiveUpStep ==
  ASSUME TypeOK, PostInv, AnswersTrue, NEW r \in Requests, GiveUp(r)
  PROVE  PostInv' /\ AnswersTrue'
<1> USE NoneDistinct DEF TypeOK, PostInv
<1>0. PICK status \in {502, 504} : Answer(r, status)
  BY DEF GiveUp
<1>1. answers' = [answers EXCEPT ![r] = status]
  BY <1>0 DEF Answer
<1>2. /\ pc[r] = "waiting" /\ pc' = [pc EXCEPT ![r] = "done"]
      /\ replies' = {reply \in replies : reply.request # r}
      /\ UNCHANGED <<attempt, token, wire, valid, applied>>
  BY <1>0 DEF GiveUp, Answer, Goto
<1>3. \A reply \in replies' : reply \in replies /\ reply.request \in Requests /\ reply.request # r
  BY <1>2 DEF Reply
<1>4. BeforePost'
  BY <1>2 DEF BeforePost, NoPost
<1>5. WireOK'
  <2>1. \A m \in wire : m.request \in Requests
    BY DEF Post
  <2> QED
    BY <1>2, <2>1 DEF WireOK
<1>6. RepliesOK'
  BY <1>2, <1>3 DEF RepliesOK, NoPost
<1>7. AnsweredWhenDone' /\ AppliedAtMostOnce'
  BY <1>1, <1>2 DEF AnsweredWhenDone, AppliedAtMostOnce
<1>8. AnswersTrue'
  BY <1>1, <1>2 DEF AnswersTrue
<1> QED
  BY <1>4, <1>5, <1>6, <1>7, <1>8

LEMMA RestartStep ==
  ASSUME TypeOK, PostInv, AnswersTrue, Restart
  PROVE  PostInv' /\ AnswersTrue'
<1> USE NoneDistinct DEF TypeOK, PostInv
<1>1. /\ replies' = {} /\ UNCHANGED <<attempt, token, answers, wire, applied>>
      /\ \A r \in Requests : IF Running(r) THEN pc'[r] = "lost" ELSE pc'[r] = pc[r]
  BY DEF Restart, Running
<1>2. BeforePost'
  BY <1>1 DEF BeforePost, NoPost, Running
<1>3. WireOK'
  <2>1. \A m \in wire : m.request \in Requests
    BY DEF Post
  <2> QED
    BY <1>1, <2>1 DEF WireOK, Running
<1>4. RepliesOK' /\ AppliedAtMostOnce'
  BY <1>1 DEF RepliesOK, AppliedAtMostOnce
<1>5. AnsweredWhenDone'
  BY <1>1 DEF AnsweredWhenDone, Running
<1>6. AnswersTrue'
  BY <1>1 DEF AnswersTrue
<1> QED
  BY <1>2, <1>3, <1>4, <1>5, <1>6

\* Salesforce or the network takes a post off the wire, and may respond.
LEMMA WireStep ==
  ASSUME TypeOK, TokenInv, PostInv, AnswersTrue, NEW m \in wire,
         Apply(m) \/ Refuse(m) \/ Lose(m)
  PROVE  PostInv' /\ AnswersTrue'
<1> USE NoneDistinct DEF TypeOK, PostInv
<1> DEFINE r == m.request
<1>1. /\ r \in Requests /\ applied[r] = 0
      /\ \A n \in wire : n.request \in Requests
      /\ \A n \in wire \ {m} : n.request # r
  BY DEF WireOK, Post
<1>2. /\ wire' = wire \ {m} /\ UNCHANGED <<pc, attempt, token, answers, valid>>
      /\ \/ applied' = applied /\ ~Apply(m)
         \/ applied' = [applied EXCEPT ![r] = 1]
  BY <1>1 DEF Apply, Refuse, Lose, server
<1>3. \A q \in Requests \ {r} : applied'[q] = applied[q]
  BY <1>2
<1>4. pc[r] \notin {"idle", "token", "authenticating", "post"}
  BY <1>1 DEF BeforePost, NoPost
<1> DEFINE Added(status) ==
      /\ pc[r] = "waiting" /\ replies' = replies \cup {[request |-> r, status |-> status]}
      /\ status = "confirmed" => applied'[r] = 1
      /\ status \in {"missing", "conflict", "unauthorized"} => applied'[r] = 0
      /\ status = "unauthorized" => token[r] \notin valid
<1>5. replies' = replies \/ \E status : Added(status)
  <2>1. CASE Lose(m)
    BY <2>1 DEF Lose
  <2>2. CASE Apply(m)
    <3>1. PICK status \in {"confirmed", "garbled", "error"} : Respond(m, status)
      BY <2>2 DEF Apply
    <3>2. applied'[r] = 1
      BY <1>1, <2>2 DEF Apply
    <3>3. \/ replies' = replies
          \/ pc[r] = "waiting" /\ replies' = replies \cup {[request |-> r, status |-> status]}
      BY <3>1 DEF Respond
    <3>4. status \notin {"missing", "conflict", "unauthorized"}
      OBVIOUS
    <3>5. CASE replies' = replies
      BY <3>5
    <3>6. CASE pc[r] = "waiting" /\ replies' = replies \cup {[request |-> r, status |-> status]}
      <4>1. Added(status)
        BY <3>2, <3>4, <3>6
      <4> HIDE DEF Added
      <4> QED
        BY <4>1
    <3> HIDE DEF Added
    <3> QED
      BY <3>3, <3>5, <3>6
  <2>3. CASE Refuse(m)
    <3>1. applied'[r] = 0
      BY <1>1, <2>3 DEF Refuse
    <3>2. PICK status \in {"missing", "conflict", "error", "unauthorized"} :
            Respond(m, status) /\ (status = "unauthorized" => m.token \notin valid)
      BY <2>3 DEF Refuse
    <3>3. pc[r] = "waiting" => m.token = token[r]
      BY DEF WireOK
    <3>4. \/ replies' = replies
          \/ pc[r] = "waiting" /\ replies' = replies \cup {[request |-> r, status |-> status]}
      BY <3>2 DEF Respond
    <3>5. status # "confirmed"
      OBVIOUS
    <3>6. status = "unauthorized" => m.token \notin valid
      BY <3>2
    <3>7. CASE replies' = replies
      BY <3>7
    <3>8. CASE pc[r] = "waiting" /\ replies' = replies \cup {[request |-> r, status |-> status]}
      <4>1. Added(status)
        BY <3>1, <3>3, <3>5, <3>6, <3>8
      <4> HIDE DEF Added
      <4> QED
        BY <4>1
    <3> HIDE DEF Added
    <3> QED
      BY <3>4, <3>7, <3>8
  <2> HIDE DEF Added
  <2> QED
    BY <2>1, <2>2, <2>3
<1>6. \A reply \in replies : reply.request \in Requests /\ reply.request # r
  BY DEF RepliesOK, NoPost, Reply
<1> HIDE DEF r
<1>7. BeforePost'
  BY <1>2, <1>3, <1>4 DEF BeforePost, NoPost
<1>8. WireOK'
  BY <1>1, <1>2, <1>3 DEF WireOK
<1>9. RepliesOK'
  <2>1. CASE replies' = replies
    BY <1>1, <1>2, <1>3, <1>6, <2>1 DEF RepliesOK, NoPost
  <2>2. CASE \E status : Added(status)
    <3>1. PICK status : Added(status)
      BY <2>2
    <3> DEFINE new == [request |-> r, status |-> status]
    <3>2. new.request = r /\ new.status = status /\ replies' = replies \cup {new}
      BY <3>1
    <3> HIDE DEF new
    <3>3. NoPost(r)'
      BY <1>1, <1>2 DEF NoPost
    <3>4. ASSUME NEW reply \in replies
          PROVE  /\ pc[reply.request] = "waiting" /\ NoPost(reply.request)'
                 /\ \A other \in replies' : other.request = reply.request => other = reply
                 /\ reply.status = "confirmed" => applied'[reply.request] = 1
                 /\ reply.status \in {"missing", "conflict", "unauthorized"}
                      => applied'[reply.request] = 0
                 /\ reply.status = "unauthorized" => token[reply.request] \notin valid
      BY <1>2, <1>3, <1>6, <3>2 DEF RepliesOK, NoPost
    <3>5. \A other \in replies' : other.request = new.request => other = new
      BY <1>6, <3>2
    <3> QED
      BY <1>2, <3>1, <3>2, <3>3, <3>4, <3>5 DEF RepliesOK
  <2> HIDE DEF Added
  <2> QED
    BY <1>5, <2>1, <2>2
<1>10. AnsweredWhenDone' /\ AppliedAtMostOnce'
  BY <1>1, <1>2, <1>3 DEF AnsweredWhenDone, AppliedAtMostOnce
<1>11. AnswersTrue'
  <2>1. answers[r] \notin {200, 404, 409, 422, 503}
    BY <1>1 DEF AnswersTrue, r
  <2> QED
    BY <1>2, <1>3, <2>1 DEF AnswersTrue
<1> QED
  BY <1>7, <1>8, <1>9, <1>10, <1>11

LEMMA PostStep ==
  TypeOK /\ TokenInv /\ PostInv /\ AnswersTrue /\ [Next]_vars => PostInv' /\ AnswersTrue'
<1> SUFFICES ASSUME TypeOK, TokenInv, PostInv, AnswersTrue, [Next]_vars
             PROVE  PostInv' /\ AnswersTrue'
  OBVIOUS
<1> USE NoneDistinct
<1>1. ASSUME NEW r \in Requests, Read(r) PROVE PostInv' /\ AnswersTrue'
  <2>1. GoesOn(r)
    BY <1>1 DEF Read, Goto, GoesOn
  <2>2. pc[r] = "idle" /\ NoPosting /\ MayGetToken(r)
    BY <1>1 DEF Read, salesforce, NoPosting, MayGetToken
  <2> QED
    BY <2>1, <2>2, QuietStep
<1>2. ASSUME NEW r \in Requests, GetToken(r) PROVE PostInv' /\ AnswersTrue'
  <2>1. pc[r] = "token" /\ UNCHANGED <<attempt, wire, replies, applied, valid, answers>>
    BY <1>2 DEF GetToken, UseToken, Goto, salesforce
  <2>2. \E place \in {"token", "authenticating", "post"} : pc' = [pc EXCEPT ![r] = place]
    BY <1>2 DEF GetToken, UseToken, Goto
  <2>3. NoPosting /\ GoesOn(r)
    BY <2>1, <2>2 DEF NoPosting, GoesOn
  <2>4. MayGetToken(r)
    <3>1. CASE Cached(r)
      BY <1>2, <3>1 DEF GetToken, UseToken, Cached, TypeOK, MayGetToken
    <3>2. CASE ~Cached(r)
      BY <1>2, <3>2 DEF GetToken, MayGetToken
    <3> QED
      BY <3>1, <3>2
  <2> QED
    BY <2>1, <2>3, <2>4, QuietStep
<1>3. ASSUME NEW r \in Requests, NEW t \in Tokens, Authenticate(r, t)
      PROVE  PostInv' /\ AnswersTrue'
  <2>1. pc[r] = "authenticating" /\ GoesOn(r) /\ MayGetToken(r)
    BY <1>3 DEF Authenticate, UseToken, Goto, GoesOn, MayGetToken
  <2>2. ASSUME NEW q \in Requests, pc[q] = "waiting", token[q] \in valid'
        PROVE  token[q] \in valid
    BY <1>3, <2>2 DEF Authenticate, TokenInv, TokensIssued
  <2>3. NoPosting
    BY <1>3, <2>2 DEF Authenticate, UseToken, Goto, NoPosting
  <2> QED
    BY <2>1, <2>3, QuietStep
<1>4. ASSUME NEW r \in Requests, AuthenticationFails(r) PROVE PostInv' /\ AnswersTrue'
  <2>1. PICK status \in AuthenticationStatuses(r) : Answer(r, status)
    BY <1>4 DEF AuthenticationFails
  <2>2. GoesOn(r)
    BY <2>1, AuthenticationStatusesType DEF GoesOn
  <2>3. pc[r] = "authenticating" /\ NoPosting /\ MayGetToken(r)
    BY <1>4 DEF AuthenticationFails, salesforce, NoPosting, MayGetToken
  <2> QED
    BY <2>2, <2>3, QuietStep
<1>5. ASSUME NEW m \in wire, Apply(m) \/ Refuse(m) \/ Lose(m) PROVE PostInv' /\ AnswersTrue'
  BY <1>5, WireStep
<1>6. ASSUME NEW t \in Tokens, Expire(t) PROVE PostInv' /\ AnswersTrue'
  <2>1. UNCHANGED <<pc, attempt, token, answers, wire, replies, applied>> /\ valid' \subseteq valid
    BY <1>6 DEF Expire, server
  <2> QED
    BY <2>1 DEF PostInv, BeforePost, NoPost, WireOK, RepliesOK, AnsweredWhenDone,
                AppliedAtMostOnce, AnswersTrue
<1>7. ASSUME UNCHANGED <<pc, attempt, token, answers, wire, replies, applied, valid>>
      PROVE  PostInv' /\ AnswersTrue'
  BY <1>7 DEF PostInv, BeforePost, NoPost, WireOK, RepliesOK, AnsweredWhenDone,
              AppliedAtMostOnce, AnswersTrue
<1>8. ASSUME NEW e \in Entities, Edit(e) PROVE PostInv' /\ AnswersTrue'
  BY <1>7, <1>8 DEF Edit, server, salesforce
<1>9. CASE UNCHANGED vars
  BY <1>7, <1>9 DEF vars, server, salesforce
<1> QED
  BY <1>1, <1>2, <1>3, <1>4, <1>5, <1>6, <1>8, <1>9, SendStep, ReceiveStep, GiveUpStep,
     RestartStep DEF Next, Work

-----------------------------------------------------------------------------
(* The last export of an entity.                                           *)

\* Whatever a request that is not the latest of its entity does, the latest
\* has no post of another under way once the others had a definite outcome.
LEMMA NoPostOfOthers ==
  ASSUME TypeOK, PostInv, AnswersTrue, LatestInv, Sequential, NEW m \in wire,
         NEW e \in Entities, Target[m.request] = e, latest[e] # NONE, OthersDefinite(e)
  PROVE  m.request = latest[e]
<1> USE NoneDistinct, SalesforceExportAssumption DEF TypeOK
<1> DEFINE q == m.request
<1>1. q \in Requests /\ ~NoPost(q)
  BY DEF Post, NoPost
<1>2. SUFFICES ASSUME q # latest[e] PROVE FALSE
  OBVIOUS
<1>3. pc[q] # "lost" /\ answers[q] \notin {502, 504}
  BY <1>1, <1>2 DEF OthersDefinite
<1>4. ~Running(q)
  BY <1>1, <1>2 DEF LatestInv, LatestRuns
<1>5. pc[q] = "done"
  BY <1>1, <1>3, <1>4 DEF Running, PostInv, BeforePost
<1>6. answers[q] # NONE
  BY <1>1, <1>5 DEF PostInv, AnsweredWhenDone
<1>7. applied[q] = 0
  BY DEF PostInv, WireOK
<1>8. answers[q] \in {200, 404, 409, 422, 503}
  BY <1>1, <1>3, <1>6
<1> QED
  BY <1>1, <1>7, <1>8 DEF AnswersTrue, NoPost

\* A request goes on from one place to another, or ends.
LEMMA ProgressStep ==
  ASSUME TypeOK, LatestInv, UNCHANGED <<content, remote, applied, latest>>,
         \A r \in Requests : Running(r)' => Running(r),
         \A r \in Requests : pc[r] = "lost" => pc'[r] = "lost",
         \A r \in Requests : answers[r] \in {502, 504} => answers'[r] = answers[r]
  PROVE  LatestInv'
<1>1. LatestRuns'
  BY DEF LatestInv, LatestRuns
<1>2. ASSUME NEW e \in Entities, OthersDefinite(e)' PROVE OthersDefinite(e)
  BY <1>2 DEF OthersDefinite
<1>3. LatestApplied'
  BY <1>2 DEF LatestInv, LatestApplied
<1> QED
  BY <1>1, <1>3 DEF LatestInv

LEMMA ReadLatestStep ==
  ASSUME TypeOK, PostInv, LatestInv, NEW r \in Requests, Read(r)
  PROVE  LatestInv'
<1> USE NoneDistinct, SalesforceExportAssumption DEF TypeOK
<1>1. /\ pc[r] = "idle" /\ latest' = [latest EXCEPT ![Target[r]] = r]
      /\ Sequential => \A q \in Requests : Target[q] = Target[r] => ~Running(q)
      /\ UNCHANGED <<remote, applied>>
      /\ \A q \in Requests \ {r} : /\ pc'[q] = pc[q] /\ answers'[q] = answers[q]
                                   /\ content'[q] = content[q]
  BY DEF Read, Goto, Answer, salesforce
<1>2. applied[r] = 0
  BY <1>1 DEF PostInv, BeforePost
<1>3. LatestRuns'
  <2>1. ASSUME NEW e \in Entities, latest'[e] # NONE PROVE Target[latest'[e]] = e
    BY <1>1, <2>1 DEF LatestInv, LatestRuns
  <2>2. ASSUME Sequential, NEW q \in Requests, Running(q)' PROVE latest'[Target[q]] = q
    <3>1. q # r => Running(q)
      BY <1>1, <2>2 DEF Running
    <3> QED
      BY <1>1, <2>2, <3>1 DEF LatestInv, LatestRuns
  <2> QED
    BY <2>1, <2>2 DEF LatestRuns
<1>4. LatestApplied'
  <2> SUFFICES ASSUME NEW e \in Entities, Sequential, latest'[e] # NONE, OthersDefinite(e)',
                      applied'[latest'[e]] = 1
               PROVE  remote'[e] = content'[latest'[e]]
    BY DEF LatestApplied
  <2>1. latest'[e] # r /\ latest'[e] = latest[e]
    BY <1>1, <1>2
  <2>2. e # Target[r]
    BY <1>1, <2>1
  <2>3. OthersDefinite(e)
    BY <1>1, <2>1, <2>2 DEF OthersDefinite
  <2> QED
    BY <1>1, <2>1, <2>3 DEF LatestInv, LatestApplied
<1> QED
  BY <1>3, <1>4 DEF LatestInv

LEMMA ApplyLatestStep ==
  ASSUME TypeOK, PostInv, AnswersTrue, LatestInv, NEW m \in wire, Apply(m)
  PROVE  LatestInv'
<1> USE NoneDistinct, SalesforceExportAssumption DEF TypeOK
<1>0. m.request \in Requests
  BY DEF Post
<1>1. /\ m.request \in Requests /\ Target[m.request] \in Entities
      /\ UNCHANGED <<pc, answers, content, latest>>
      /\ remote' = [remote EXCEPT ![Target[m.request]] = content[m.request]]
      /\ applied' = [applied EXCEPT ![m.request] = @ + 1]
  <2>1. Target[m.request] \in Entities
    BY <1>0
  <2>2. UNCHANGED <<pc, answers, content, latest>>
    BY DEF Apply, server
  <2>3. remote' = [remote EXCEPT ![Target[m.request]] = content[m.request]]
    BY DEF Apply
  <2>4. applied' = [applied EXCEPT ![m.request] = @ + 1]
    BY Zenon DEF Apply
  <2> QED
    BY <1>0, <2>1, <2>2, <2>3, <2>4
<1>2. LatestRuns'
  BY <1>1 DEF LatestInv, LatestRuns, Running
<1>3. LatestApplied'
  <2> SUFFICES ASSUME NEW e \in Entities, Sequential, latest[e] # NONE, OthersDefinite(e),
                      applied'[latest[e]] = 1
               PROVE  remote'[e] = content[latest[e]]
    BY <1>1 DEF LatestApplied, OthersDefinite
  <2>1. CASE Target[m.request] = e
    <3>1. m.request = latest[e]
      BY <2>1, NoPostOfOthers
    <3> QED
      BY <1>1, <2>1, <3>1
  <2>2. CASE Target[m.request] # e
    <3>1. latest[e] # m.request
      BY <2>2 DEF LatestInv, LatestRuns
    <3>2. applied[latest[e]] = 1 /\ remote'[e] = remote[e]
      BY <1>1, <2>2, <3>1
    <3> QED
      BY <3>2 DEF LatestInv, LatestApplied
  <2> QED
    BY <2>1, <2>2
<1> QED
  BY <1>2, <1>3 DEF LatestInv

LEMMA LatestStep ==
  TypeOK /\ PostInv /\ AnswersTrue /\ LatestInv /\ [Next]_vars => LatestInv'
<1> SUFFICES ASSUME TypeOK, PostInv, AnswersTrue, LatestInv, [Next]_vars PROVE LatestInv'
  OBVIOUS
<1> USE NoneDistinct DEF TypeOK
\* A request that runs takes a step; it had no answer.
<1>1. ASSUME NEW r \in Requests, Running(r), pc' = [pc EXCEPT ![r] = pc'[r]],
             \A q \in Requests \ {r} : answers'[q] = answers[q],
             UNCHANGED <<content, remote, applied, latest>>
      PROVE  LatestInv'
  <2>1. answers[r] = NONE
    BY <1>1 DEF PostInv, AnsweredWhenDone, Running
  <2>2. \A q \in Requests : Running(q)' => Running(q)
    BY <1>1 DEF Running
  <2>3. \A q \in Requests : pc[q] = "lost" => pc'[q] = "lost"
    BY <1>1 DEF Running
  <2>4. \A q \in Requests : answers[q] \in {502, 504} => answers'[q] = answers[q]
    BY <1>1, <2>1
  <2> QED
    BY <1>1, <2>2, <2>3, <2>4, ProgressStep DEF TypeOK
<1>2. ASSUME NEW r \in Requests, Work(r) PROVE LatestInv'
  <2>1. /\ Running(r) /\ UNCHANGED <<content, remote, applied, latest>>
        /\ \A q \in Requests \ {r} : answers'[q] = answers[q]
    BY <1>2 DEF Work, GetToken, Authenticate, AuthenticationFails, Send, Receive, GiveUp,
                UseToken, Answer, Goto, Running, salesforce
  <2>2. pc' = [pc EXCEPT ![r] = pc'[r]]
    BY <1>2 DEF Work, GetToken, Authenticate, AuthenticationFails, Send, Receive, GiveUp,
                UseToken, Answer, Goto
  <2> QED
    BY <1>1, <2>1, <2>2
<1>3. ASSUME UNCHANGED <<pc, answers, content, remote, applied, latest>> PROVE LatestInv'
  <2>1. \A q \in Requests : Running(q)' <=> Running(q)
    BY <1>3 DEF Running
  <2> QED
    BY <1>3, <2>1, ProgressStep
<1>4. CASE Restart
  <2>1. \A q \in Requests : Running(q)' => Running(q)
    BY <1>4 DEF Restart, Running
  <2>2. \A q \in Requests : pc[q] = "lost" => pc'[q] = "lost"
    BY <1>4 DEF Restart
  <2>3. UNCHANGED <<answers, content, remote, applied, latest>>
    BY <1>4 DEF Restart
  <2> QED
    BY <2>1, <2>2, <2>3, ProgressStep
<1>5. ASSUME NEW m \in wire, Refuse(m) \/ Lose(m) PROVE LatestInv'
  BY <1>3, <1>5 DEF Refuse, Lose, server
<1>6. ASSUME NEW t \in Tokens, Expire(t) PROVE LatestInv'
  BY <1>3, <1>6 DEF Expire, server
<1>7. ASSUME NEW e \in Entities, Edit(e) PROVE LatestInv'
  BY <1>3, <1>7 DEF Edit, server, salesforce
<1>8. CASE UNCHANGED vars
  BY <1>3, <1>8 DEF vars, server, salesforce
<1> QED
  BY <1>2, <1>4, <1>5, <1>6, <1>7, <1>8, ReadLatestStep, ApplyLatestStep DEF Next

-----------------------------------------------------------------------------
\* The inductive invariant.
THEOREM Invariant == Spec => []IInv
<1>1. Init => IInv
  BY InitEstablishes
<1>2. IInv /\ [Next]_vars => IInv'
  BY TypeStep, TokenStep, PostStep, LatestStep DEF IInv
<1> QED
  BY <1>1, <1>2, PTL DEF Spec

\* Every variable keeps its type; in particular a request posts at most twice
\* (client.py:56).
THEOREM TypeCorrect == Spec => []TypeOK
<1>1. IInv => TypeOK
  BY DEF IInv
<1> QED
  BY <1>1, Invariant, PTL

\* The retry after a 401 never makes Salesforce apply an event twice, however
\* late posts arrive (client.py:56-102).
THEOREM NeverAppliedTwice == Spec => []AppliedAtMostOnce
<1>1. IInv => AppliedAtMostOnce
  BY DEF IInv, PostInv
<1> QED
  BY <1>1, Invariant, PTL

\* What a caller is told about an export is so and stays so (exports.py:57-91).
THEOREM CallersToldTheTruth == Spec => []AnswersTrue
<1>1. IInv => AnswersTrue
  BY DEF IInv
<1> QED
  BY <1>1, Invariant, PTL

\* No request authenticates while a token for its credentials is cached: the
\* others wait for the lock and use what the first one got (auth.py:19-61).
THEOREM OneAuthentication == Spec => []AuthenticatesOnce
<1>1. IInv => AuthenticatesOnce
  BY DEF IInv, TokenInv
<1> QED
  BY <1>1, Invariant, PTL

\* When callers wait for each other, the last export of an entity wins as soon
\* as the outcome of each is definite (client.py:38-54).
THEOREM TheLastExportWins == Spec => []LastExportWins
<1>1. ASSUME IInv PROVE LastExportWins
  <2> SUFFICES ASSUME NEW e \in Entities, Sequential, latest[e] # NONE,
                      answers[latest[e]] = 200, OthersDefinite(e)
               PROVE  remote[e] = content[latest[e]]
    BY DEF LastExportWins, OthersDefinite
  <2>1. latest[e] \in Requests
    BY <1>1 DEF IInv, TypeOK
  <2>2. applied[latest[e]] = 1
    BY <1>1, <2>1 DEF IInv, AnswersTrue
  <2> QED
    BY <1>1, <2>2 DEF IInv, LatestInv, LatestApplied
<1> QED
  BY <1>1, Invariant, PTL

\* A late 401 does not throw away a valid token: it is for the token of its own
\* post, which Salesforce never accepts again (auth.py:64-68).
THEOREM ValidTokenStays == Spec => ValidTokenKept
<1>1. ASSUME IInv, [Next]_vars, cache # NONE, cache.token \in valid, cache' = NONE
      PROVE  \A r \in Requests : ~Running(r)'
  <2>1. CASE Restart
    BY <2>1 DEF Restart, Running, IInv, TypeOK
  <2>2. ASSUME NEW r \in Requests, NEW reply \in replies, Receive(r, reply) PROVE FALSE
    <3>1. reply.status = "unauthorized" /\ reply.request = r /\ cache.token = token[r]
      BY <1>1, <2>2 DEF Receive, Invalidate
    <3>2. token[r] \notin valid
      BY <1>1, <3>1 DEF IInv, PostInv, RepliesOK
    <3> QED
      BY <1>1, <3>1, <3>2
  <2>3. ASSUME NEW r \in Requests, NEW t \in Tokens, Authenticate(r, t) PROVE FALSE
    <3>1. Key[r] \in Keys
      BY SalesforceExportAssumption
    <3> QED
      BY <1>1, <2>3, <3>1, NoneDistinct DEF Authenticate
  <2>4. CASE cache' = cache
    BY <1>1, <2>4
  <2>5. ASSUME NEW r \in Requests,
               Read(r) \/ GetToken(r) \/ AuthenticationFails(r) \/ Send(r) \/ GiveUp(r)
        PROVE  cache' = cache
    BY <2>5 DEF Read, GetToken, AuthenticationFails, Send, GiveUp
  <2>6. ASSUME NEW m \in wire, Apply(m) \/ Refuse(m) \/ Lose(m) PROVE cache' = cache
    BY <2>6 DEF Apply, Refuse, Lose, server
  <2>7. ASSUME NEW t \in Tokens, Expire(t) PROVE cache' = cache
    BY <2>7 DEF Expire, server
  <2>8. ASSUME NEW e \in Entities, Edit(e) PROVE cache' = cache
    BY <2>8 DEF Edit, server
  <2>9. CASE UNCHANGED vars
    BY <1>1, <2>9 DEF vars, server
  <2> QED
    BY <1>1, <2>1, <2>2, <2>3, <2>4, <2>5, <2>6, <2>7, <2>8, <2>9 DEF Next, Work
<1>2. IInv /\ [Next]_vars =>
        [cache # NONE /\ cache.token \in valid /\ cache' = NONE
           => \A r \in Requests : ~Running(r)']_vars
  BY <1>1
<1> QED
  BY <1>2, Invariant, PTL DEF Spec, ValidTokenKept

=============================================================================
