--------------------------- MODULE CustomerSender ---------------------------
(***************************************************************************)
(* The sender that the route asks for, the network and the service          *)
(* together.  The sender sends the events of one customer, a stream, one at *)
(* a time: it repeats an event after every uncertain result and goes on     *)
(* after a definite one, with the reference that the creation returned.     *)
(* Streams run concurrently.  A request whose sender has given up may still *)
(* be served later.                                                         *)
(*                                                                         *)
(* The service is one step here, as CustomerSync and InMemorySync implement *)
(* it: the unit of work, its rollback and a commit that is not confirmed.   *)
(* A customer is represented by its login, unique among customers.          *)
(***************************************************************************)
EXTENDS Integers, Sequences, FiniteSets

CONSTANTS
  NONE,
  Streams, Plan,     \* for each stream the sequence of its events
  Logins, Ids,
  Unfit,             \* the data that does not map to a customer
  Unstorable,        \* the data that does, and does not fit into its columns
  Initial,           \* the customers to start from: Ids -> Logins or NONE
  Known,             \* the references that streams know when they start
  MaxGiveUps,        \* bound: requests that the sender gives up
  MaxFailures        \* bound: failures of the database

Planned == [kind : {"created", "updated"}, login : Logins]

ASSUME CustomerSenderAssumption ==
  /\ Plan \in [Streams -> Seq(Planned)]
  /\ Ids \subseteq Nat /\ Unfit \subseteq Logins /\ Unstorable \subseteq Logins
  /\ Initial \in [Ids -> Logins \cup {NONE}] /\ NONE \notin Logins /\ NONE \notin Ids
  /\ Known \in [Streams -> Ids \cup {NONE}]
  /\ MaxGiveUps \in Nat /\ MaxFailures \in Nat

Bodies == [kind : {"created", "updated"}, login : Logins, ref : Ids \cup {NONE}]
Records == [body : Bodies, ref : Ids]
Answers == [status : {200, 404, 409, 422, 503}, ref : Ids \cup {NONE}]

ASSUME NoneIsNoRecord ==
  /\ NONE \notin Records /\ NONE \notin Answers
  /\ NONE \notin {"CustomerNotFound", "InvalidCustomerData", "SynchronizationConflict", "DBException"}

\* A stream creates its customer with its first event or knows it, and shares
\* it with no other stream.
ASSUME StreamsAreCustomers ==
  /\ \A s \in Streams : \A p \in DOMAIN Plan[s] :
       Plan[s][p].kind = "created" <=> p = 1 /\ Known[s] = NONE
  /\ \A s, t \in Streams : s # t /\ Known[s] # NONE => Known[s] # Known[t]
  /\ \A s \in Streams : Known[s] # NONE => Initial[Known[s]] # NONE

VARIABLES
  customers, events, \* the database: logins by id, completed events
  allocated,         \* the ids that were ever given out
  answers,           \* history: the definite answers that the route gave
  effects,           \* history: the events that took effect, in order
  \* the sender, for each stream
  phase,             \* "ready", "sent", "served", "stopped"
  next,              \* the position of the event that is sent now
  reply,             \* the answer on its way back
  ref,               \* the reference of the customer, once known
  results,           \* the definite answers received
  abandoned,         \* the given-up requests that are still to be served
  giveUps, failures  \* counters for the bounds

database == <<customers, events, allocated, effects>>
server == <<database, answers, failures>>
sender == <<next, ref, results>>
vars == <<server, sender, phase, reply, abandoned, giveUps>>

\* An event has an id of its own and a content that retries repeat.
EventIds == UNION {{<<s, p>> : p \in DOMAIN Plan[s]} : s \in Streams}
Content(e) ==
  LET planned == Plan[e[1]][e[2]] IN
  [kind |-> planned.kind, login |-> planned.login,
   ref |-> IF planned.kind = "created" THEN NONE ELSE ref[e[1]]]
Current(s) == <<s, next[s]>>

Init ==
  /\ customers = Initial /\ events = [e \in EventIds |-> NONE]
  /\ allocated = {i \in Ids : Initial[i] # NONE}
  /\ answers = {} /\ effects = <<>>
  /\ phase = [s \in Streams |-> "ready"] /\ next = [s \in Streams |-> 1]
  /\ reply = [s \in Streams |-> NONE] /\ ref = Known
  /\ results = [e \in EventIds |-> NONE]
  /\ abandoned = [e \in EventIds |-> 0]
  /\ giveUps = 0 /\ failures = 0

-----------------------------------------------------------------------------
(* The service, synchronize_customer, and the statuses of the route.       *)

\* get_processed_result.
Forgotten(e) == NONE
Lookup(e) == events[e]

Free(login, r) == \A i \in Ids : customers[i] = login => i = r

\* What the service raises for a new event, if anything.  The statement that
\* writes a value too long for its column raises an error of the database.
Exception(body) ==
  CASE body.kind = "updated" /\ customers[body.ref] = NONE -> "CustomerNotFound"
    [] body.login \in Unfit                                -> "InvalidCustomerData"
    [] ~Free(body.login, body.ref)                         -> "SynchronizationConflict"
    [] body.login \in Unstorable                           -> "DBException"
    [] OTHER                                               -> NONE

Routed == [ CustomerNotFound |-> 404, SynchronizationConflict |-> 409,
            InvalidCustomerData |-> 422, DBException |-> 503 ]
StatusUnmapped(exception) ==
  IF exception = "InvalidCustomerData" THEN 500 ELSE Routed[exception]
StatusUncertain(exception) ==
  IF exception = "CustomerNotFound" THEN 503 ELSE Routed[exception]
Status(exception) == Routed[exception]

Success(r) == [status |-> 200, ref |-> r]
Error(exception) == [status |-> Status(exception), ref |-> NONE]

\* save_processed_result, in the transaction of the customer.
Unrecorded(e, r) == events
Recorded(e, r) == [events EXCEPT ![e] = [body |-> Content(e), ref |-> r]]

Targets(body) == IF body.kind = "created" THEN Ids \ allocated ELSE {body.ref}

\* The answers that a database which does not fail leads to.
Verdicts(e) ==
  IF Lookup(e) # NONE THEN
    {IF Lookup(e).body = Content(e) THEN Success(Lookup(e).ref)
                                    ELSE Error("SynchronizationConflict")}
  ELSE IF Exception(Content(e)) # NONE THEN {Error(Exception(Content(e)))}
  ELSE {Success(r) : r \in Targets(Content(e))}

\* The customer and the record of the event are committed together.
Commit(e, r) ==
  /\ customers' = [customers EXCEPT ![r] = Content(e).login]
  /\ events' = Recorded(e, r)
  /\ allocated' = allocated \cup {r}
  /\ effects' = Append(effects, e)

TakesEffect(e, answer) == Lookup(e) = NONE /\ answer.status = 200

Answered(e, answer) ==
  /\ IF TakesEffect(e, answer) THEN Commit(e, answer.ref) ELSE UNCHANGED database
  /\ answers' = answers \cup {[event |-> e, body |-> Content(e),
                               status |-> answer.status, ref |-> answer.ref]}
  /\ UNCHANGED failures

\* The database fails and all is rolled back, or the commit is done and its
\* confirmation is lost.
Fails(e) ==
  /\ failures < MaxFailures /\ failures' = failures + 1
  /\ \/ UNCHANGED database
     \/ \E answer \in Verdicts(e) : TakesEffect(e, answer) /\ Commit(e, answer.ref)
  /\ UNCHANGED answers

Synchronized(e, answer) ==
  \/ answer \in Verdicts(e) /\ answer.status # 503 /\ Answered(e, answer)
  \/ answer \in Verdicts(e) /\ answer = Error("DBException") /\ UNCHANGED server
  \/ answer = Error("DBException") /\ Fails(e)

Outcomes(e) == Verdicts(e) \cup {Error("DBException")}

-----------------------------------------------------------------------------
Send(s) ==
  /\ phase[s] = "ready" /\ next[s] \in DOMAIN Plan[s]
  /\ phase' = [phase EXCEPT ![s] = "sent"]
  /\ UNCHANGED <<server, sender, reply, abandoned, giveUps>>

Serve(s) ==
  /\ phase[s] = "sent"
  /\ \E answer \in Outcomes(Current(s)) :
       Synchronized(Current(s), answer) /\ reply' = [reply EXCEPT ![s] = answer]
  /\ phase' = [phase EXCEPT ![s] = "served"]
  /\ UNCHANGED <<sender, abandoned, giveUps>>

\* A definite answer ends the event.  A sender may stop at a refusal, and must
\* if it still has no reference.
Receive(s) ==
  /\ phase[s] = "served"
  /\ IF reply[s].status = 503
     THEN phase' = [phase EXCEPT ![s] = "ready"] /\ UNCHANGED sender
     ELSE /\ results' = [results EXCEPT ![Current(s)] = reply[s]]
          /\ next' = [next EXCEPT ![s] = @ + 1]
          /\ IF reply[s].status = 200
             THEN /\ ref' = [ref EXCEPT ![s] = reply[s].ref]
                  /\ phase' = [phase EXCEPT ![s] = "ready"]
             ELSE /\ UNCHANGED ref
                  /\ \/ phase' = [phase EXCEPT ![s] = "stopped"]
                     \/ (ref[s] # NONE /\ phase' = [phase EXCEPT ![s] = "ready"])
  /\ reply' = [reply EXCEPT ![s] = NONE]
  /\ UNCHANGED <<server, abandoned, giveUps>>

\* A timeout before the request is served, which may still happen, or after:
\* the answer is lost.
GiveUp(s) ==
  /\ phase[s] \in {"sent", "served"} /\ giveUps < MaxGiveUps
  /\ giveUps' = giveUps + 1
  /\ phase' = [phase EXCEPT ![s] = "ready"]
  /\ reply' = [reply EXCEPT ![s] = NONE]
  /\ abandoned' = IF phase[s] = "sent" THEN [abandoned EXCEPT ![Current(s)] = @ + 1]
                                       ELSE abandoned
  /\ UNCHANGED <<server, sender>>

\* A given-up request is served late; nobody reads the answer.
ServeLate(e) ==
  /\ abandoned[e] > 0
  /\ abandoned' = [abandoned EXCEPT ![e] = @ - 1]
  /\ \E answer \in Outcomes(e) : Synchronized(e, answer)
  /\ UNCHANGED <<sender, phase, reply, giveUps>>

\* Another program removes a customer to which no event refers.
Remove(r) ==
  /\ customers[r] # NONE /\ \A e \in EventIds : events[e] # NONE => events[e].ref # r
  /\ customers' = [customers EXCEPT ![r] = NONE]
  /\ UNCHANGED <<events, allocated, effects, answers, failures, sender, phase, reply,
                 abandoned, giveUps>>

Next ==
  \/ \E s \in Streams : Send(s) \/ Serve(s) \/ Receive(s) \/ GiveUp(s)
  \/ \E e \in EventIds : ServeLate(e)
  \/ \E r \in Ids : Remove(r)

\* The sender goes on and the server answers what it is sent.
Fairness == \A s \in Streams : WF_vars(Send(s)) /\ WF_vars(Serve(s)) /\ WF_vars(Receive(s))

Spec == Init /\ [][Next]_vars /\ Fairness

-----------------------------------------------------------------------------
\* Every variable is in its type.
TypeOK ==
  /\ customers \in [Ids -> Logins \cup {NONE}] /\ allocated \subseteq Ids
  /\ events \in [EventIds -> Records \cup {NONE}]
  /\ answers \subseteq [event : EventIds, body : Bodies, status : {200, 404, 409, 422},
                        ref : Ids \cup {NONE}]
  /\ effects \in Seq(EventIds)
  /\ phase \in [Streams -> {"ready", "sent", "served", "stopped"}]
  /\ next \in [Streams -> Nat \ {0}] /\ \A s \in Streams : next[s] <= Len(Plan[s]) + 1
  /\ reply \in [Streams -> Answers \cup {NONE}]
  /\ ref \in [Streams -> Ids \cup {NONE}]
  /\ results \in [EventIds -> Answers \cup {NONE}]
  /\ abandoned \in [EventIds -> 0..MaxGiveUps]
  /\ giveUps \in 0..MaxGiveUps /\ failures \in 0..MaxFailures

Succeeded(e) == results[e] # NONE /\ results[e].status = 200
Refused(e) == results[e] # NONE /\ results[e].status # 200

\* The events of a stream take effect once and in the order of the stream,
\* whatever is lost, late or repeated, but for an event that was refused and
\* whose given-up copy is served when the obstacle is gone (routes.py:125-131,
\* SALESFORCE_CUSTOMER_EVENTS_V1.md:62-68).
EffectsInOrder ==
  \A i, j \in DOMAIN effects :
    i < j /\ effects[i][1] = effects[j][1] =>
      \/ effects[i][2] < effects[j][2]
      \/ effects[i] # effects[j] /\ Refused(effects[j])

\* When all events of a stream have succeeded, its customer is what the last
\* one says and stays so, although copies of earlier ones may still arrive
\* (customer_synchronization_service.py:18-48).
AsPlanned ==
  \A s \in Streams :
    Plan[s] # <<>> /\ (\A p \in DOMAIN Plan[s] : Succeeded(<<s, p>>)) =>
      customers[ref[s]] = Plan[s][Len(Plan[s])].login

\* The effect of one event on the customers.
Applies(before, body, r, after) ==
  /\ \A i \in Ids : before[i] = body.login => i = body.ref
  /\ IF body.kind = "created" THEN before[r] = NONE ELSE r = body.ref /\ before[r] # NONE
  /\ after = [before EXCEPT ![r] = body.login]

Promise == INSTANCE IdempotentEvents WITH Customers <- Logins, Applies <- Applies

\* Together with the sender and the network the service still keeps its
\* promise: an event takes effect at most once, with its record, and no
\* success is ever denied afterwards (IdempotentEvents).
ImplementsPromise == Promise!Spec

\* Every stream comes to its end, stops at a refusal or arrives at an event
\* that no column holds: nothing else is repeated for ever, because the database
\* answers in the end and refusals are definite (routes.py:164-215).
StreamsEnd ==
  \A s \in Streams :
    <>(\/ phase[s] = "stopped" \/ next[s] > Len(Plan[s])
       \/ Plan[s][next[s]].login \in Unstorable)

\* Data that the database cannot hold is refused, so that no sender repeats it
\* for ever: "Invalid request or database mapping data returns 422"
\* (SALESFORCE_CUSTOMER_SYNC_RUNBOOK.md:149).
EveryStreamEnds ==
  \A s \in Streams : <>(phase[s] = "stopped" \/ next[s] > Len(Plan[s]))
=============================================================================
