---------------------------- MODULE InMemorySync ----------------------------
(***************************************************************************)
(* The in-memory backend of the customer events: a store per process, and  *)
(* units of work that copy it whole, work on the copy, and put the copy in *)
(* its place, under one asyncio lock.  It is the second implementation of  *)
(* IdempotentEvents, for as long as the process lives; unlike PostgreSQL   *)
(* it does not look at logins, tax identities or regions.                  *)
(*                                                                         *)
(* A step is one call of a gateway.  None of these calls suspends today,   *)
(* but they are coroutines, and the lock is there so that they may.        *)
(***************************************************************************)
EXTENDS CustomerData

CONSTANTS
  Workers,           \* requests being served
  Messages,          \* what is sent: pairs of an event id and a content
  MaxId,             \* bound: the last id of a customer
  NONE

Ids == 1..MaxId
EventIds == {m.event : m \in Messages}
Bodies == {m.body : m \in Messages}
Record == [body : Bodies, ref : Ids]
Statuses == {200, 400, 404, 409, 422}

\* IntegrationCustomerData: any country and region name, in a whole address.
Stored == {row \in [login  : Logins,
                    fiscal : TaxCodes \cup {NULL},
                    vat    : TaxCodes \cup {NULL},
                    street : Streets \cup {NULL},
                    region : (Countries \X RegionNames) \cup {NULL},
                    extra  : [ExtKeys -> ExtValues \cup {NULL}]] : AddressWhole(row)}

Snapshot == [customers : [Ids -> Stored \cup {NONE}],
             events    : [EventIds -> Record \cup {NONE}],
             nextId    : 1..(MaxId + 1)]
Outcome == [status : Statuses, ref : Ids \cup {NONE}]

ASSUME InMemorySyncAssumption ==
  /\ MaxId \in Nat
  /\ \A m \in Messages : m = [event |-> m.event, body |-> m.body]
  /\ Bodies \subseteq [kind : {"create"}, row : Stored, ok : BOOLEAN] \cup UpdateBody
  /\ NULL \notin Countries \X RegionNames
  /\ NONE \notin Stored \cup Record \cup Snapshot \cup Outcome \cup Messages \cup Workers \cup Ids

VARIABLES
  customers, events, nextId,  \* the snapshot of the store
  lock,
  pc,
  msg,
  snapshot,                   \* the copy that a unit of work changes
  outcome,                    \* the result to return or the exception to raise
  commitRequested,
  answers                     \* what the sender was told

store == <<customers, events, nextId>>
vars == <<store, lock, pc, msg, snapshot, outcome, commitRequested, answers>>

-----------------------------------------------------------------------------
Event(w) == msg[w].event
Body(w) == msg[w].body
IsCreate(w) == Body(w).kind = "create"
Recorded(w) == snapshot[w].events[Event(w)]

Goto(w, place) == pc' = [pc EXCEPT ![w] = place]
Leave(w, status, ref) ==
  /\ outcome' = [outcome EXCEPT ![w] = [status |-> status, ref |-> ref]]
  /\ Goto(w, "exit")
Raise(w, status) == Leave(w, status, NONE)

Init ==
  /\ customers = [i \in Ids |-> NONE]
  /\ events = [e \in EventIds |-> NONE]
  /\ nextId = 1
  /\ lock = NONE
  /\ pc = [w \in Workers |-> "idle"]
  /\ msg = [w \in Workers |-> NONE]
  /\ snapshot = [w \in Workers |-> NONE]
  /\ outcome = [w \in Workers |-> NONE]
  /\ commitRequested = [w \in Workers |-> FALSE]
  /\ answers = {}

Deliver(w, m) ==
  /\ pc[w] = "idle"
  /\ msg' = [msg EXCEPT ![w] = m]
  /\ Goto(w, "acquire")
  /\ UNCHANGED <<store, lock, snapshot, outcome, commitRequested, answers>>

\* deepcopy of the store; the mutant copies the fields that were filled.
CopyUncounted == [customers |-> customers, events |-> events, nextId |-> 1]
Copy == [customers |-> customers, events |-> events, nextId |-> nextId]

\* __aenter__: the lock, then a copy of the store.  The mutant takes no lock.
AcquireNothing(w) ==
  /\ pc[w] = "acquire"
  /\ snapshot' = [snapshot EXCEPT ![w] = Copy]
  /\ Goto(w, "lookup")
  /\ UNCHANGED <<store, lock, msg, outcome, commitRequested, answers>>
Acquire(w) ==
  /\ pc[w] = "acquire"
  /\ lock = NONE
  /\ lock' = w
  /\ snapshot' = [snapshot EXCEPT ![w] = Copy]
  /\ Goto(w, "lookup")
  /\ UNCHANGED <<store, msg, outcome, commitRequested, answers>>

Exists(w, i) == i \in Ids /\ snapshot[w].customers[i] # NONE

\* get_processed_result; then, for an update, whether there is a customer.
Lookup(w) ==
  /\ pc[w] = "lookup"
  /\ IF Recorded(w) # NONE THEN
       IF Recorded(w).body = Body(w) THEN Leave(w, 200, Recorded(w).ref) ELSE Raise(w, 409)
     ELSE IF IsCreate(w) THEN Goto(w, "create") /\ UNCHANGED outcome
     ELSE IF Body(w).ref <= 0 THEN Raise(w, 400)
     ELSE IF ~Exists(w, Body(w).ref) THEN Raise(w, 404)
     ELSE Goto(w, "update") /\ UNCHANGED outcome
  /\ UNCHANGED <<store, lock, msg, snapshot, commitRequested, answers>>

\* The id is counted in the copy: a rollback gives it back.
WithCustomer(copy, row) ==
  [customers |-> [copy.customers EXCEPT ![copy.nextId] = row],
   events    |-> copy.events,
   nextId    |-> copy.nextId + 1]
Create(w) ==
  /\ pc[w] = "create" /\ snapshot[w].nextId <= MaxId
  /\ snapshot' = [snapshot EXCEPT ![w] = WithCustomer(@, Body(w).row)]
  /\ Goto(w, "save")
  /\ UNCHANGED <<store, lock, msg, outcome, commitRequested, answers>>

\* A patch of an address that is not there must be a whole address; nothing
\* else is refused.  The mutant takes part of an address.
UpdateUnchecked(w) ==
  /\ pc[w] = "update"
  /\ snapshot' = [snapshot EXCEPT ![w].customers[Body(w).ref] = Patched(Body(w).patch, @, @)]
  /\ Goto(w, "save")
  /\ UNCHANGED <<store, lock, msg, outcome, commitRequested, answers>>
Update(w) ==
  /\ pc[w] = "update"
  /\ IF AddressIncomplete(Body(w).patch.address, snapshot[w].customers[Body(w).ref])
       THEN Raise(w, 409) /\ UNCHANGED snapshot
       ELSE /\ snapshot' = [snapshot EXCEPT ![w].customers[Body(w).ref] = Patched(Body(w).patch, @, @)]
            /\ Goto(w, "save")
            /\ UNCHANGED outcome
  /\ UNCHANGED <<store, lock, msg, commitRequested, answers>>

\* The reference id of the result.
ResultRef(w) == IF IsCreate(w) THEN snapshot[w].nextId - 1 ELSE Body(w).ref

\* save_processed_result, then commit(): only a request.
Save(w) ==
  /\ pc[w] = "save"
  /\ snapshot' = [snapshot EXCEPT ![w].events[Event(w)] = [body |-> Body(w), ref |-> ResultRef(w)]]
  /\ commitRequested' = [commitRequested EXCEPT ![w] = TRUE]
  /\ Leave(w, 200, ResultRef(w))
  /\ UNCHANGED <<store, lock, msg, answers>>

\* The end of the unit of work and of the request.
Forget(w) ==
  /\ msg' = [msg EXCEPT ![w] = NONE]
  /\ snapshot' = [snapshot EXCEPT ![w] = NONE]
  /\ outcome' = [outcome EXCEPT ![w] = NONE]
  /\ commitRequested' = [commitRequested EXCEPT ![w] = FALSE]
  /\ Goto(w, "idle")

\* __aexit__ without an exception, or with one of those the route answers;
\* the answer may be lost.
Exit(w) ==
  /\ pc[w] = "exit"
  /\ IF commitRequested[w]
       THEN /\ customers' = snapshot[w].customers
            /\ events' = snapshot[w].events
            /\ nextId' = snapshot[w].nextId
       ELSE UNCHANGED store
  /\ lock' = NONE
  /\ Forget(w)
  /\ \/ UNCHANGED answers
     \/ answers' = answers \cup {[event |-> Event(w), body |-> Body(w),
                                  status |-> outcome[w].status, ref |-> outcome[w].ref]}

\* Any other exception, or a cancelled request, anywhere.  The mutant forgets
\* that the lock has to be released then, too.
FailHolding(w) ==
  /\ pc[w] # "idle"
  /\ Forget(w)
  /\ UNCHANGED <<store, lock, answers>>
Fail(w) ==
  /\ pc[w] # "idle"
  /\ lock' = IF lock = w THEN NONE ELSE lock
  /\ Forget(w)
  /\ UNCHANGED <<store, answers>>

Serve(w) == Acquire(w) \/ Lookup(w) \/ Create(w) \/ Update(w) \/ Save(w) \/ Exit(w)

Next == \E w \in Workers : (\E m \in Messages : Deliver(w, m)) \/ Serve(w) \/ Fail(w)

\* asyncio runs every task that can run, and its lock is handed over in the
\* order of the waiters: nobody waits for ever while others come and go.
Fairness == \A w \in Workers : WF_vars(Serve(w)) /\ SF_vars(Acquire(w))

Spec == Init /\ [][Next]_vars /\ Fairness
-----------------------------------------------------------------------------
(* Correctness                                                             *)

PCs == {"idle", "acquire", "lookup", "create", "update", "save", "exit"}

\* The types; a patch leaves a customer with a whole address or with none.
TypeOK ==
  /\ Copy \in Snapshot
  /\ lock \in Workers \cup {NONE}
  /\ pc \in [Workers -> PCs]
  /\ msg \in [Workers -> Messages \cup {NONE}]
  /\ snapshot \in [Workers -> Snapshot \cup {NONE}]
  /\ outcome \in [Workers -> Outcome \cup {NONE}]
  /\ commitRequested \in [Workers -> BOOLEAN]
  /\ answers \subseteq [event : EventIds, body : Bodies, status : Statuses, ref : Ids \cup {NONE}]

\* The effect of an event, given the customers at its commit.
Applies(before, b, r, after) ==
  \/ b.kind = "create" /\ before[r] = NONE /\ after = [before EXCEPT ![r] = b.row]
  \/ /\ b.kind = "update" /\ r = b.ref
     /\ before[r] # NONE /\ ~AddressIncomplete(b.patch.address, before[r])
     /\ after = [before EXCEPT ![r] = Patched(b.patch, before[r], before[r])]

Promise == INSTANCE IdempotentEvents WITH Customers <- Stored, Applies <- Applies

\* As long as the process lives the copies behave as if every event took
\* effect alone and at most once, and no answer is ever taken back.
ImplementsPromise == Promise!Spec

\* Every customer stems from exactly one recorded creation, and ids are not
\* given to two customers although rollbacks give them back.
Creations(i) == {e \in EventIds : events[e] # NONE /\ events[e].ref = i
                                   /\ events[e].body.kind = "create"}
CreatedOnce ==
  \A i \in Ids : IF customers[i] = NONE THEN Creations(i) = {}
                 ELSE \E e \in EventIds : Creations(i) = {e}

\* Every request ends, though each waits for all the others: a failing unit of
\* work releases the lock.
EveryRequestEnds == \A w \in Workers : pc[w] # "idle" ~> pc[w] = "idle"
=============================================================================
