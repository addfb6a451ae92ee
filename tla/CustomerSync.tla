---------------------------- MODULE CustomerSync ----------------------------
(***************************************************************************)
(* POST /integrations/salesforce/events on the PostgreSQL backend.  Every  *)
(* request runs CustomerSynchronizationService.synchronize_customer in its *)
(* own unit of work: one connection, one READ COMMITTED transaction.  One  *)
(* action is one SQL statement, with the Python that acts on its result.   *)
(*                                                                         *)
(* A worker is a request being served, in any of the server's processes.   *)
(* The sender is not restricted at all: it may send any message at any     *)
(* time, repeat it, and reuse an event id for other content.               *)
(***************************************************************************)
EXTENDS CustomerData

CONSTANTS
  Workers,
  Messages,          \* what is sent: pairs of an event id and a content
  MaxId,             \* the last id of the identity column of customers
  FirstId,           \* the first id that it gives to a new customer
  InitialCustomers,  \* the customers there are before the first event
  LegacyRows,        \* the rows that other programs insert
  NONE

Ids == 1..MaxId
EventIds == {m.event : m \in Messages}
Bodies == {m.body : m \in Messages}
Record == [body : Bodies, ref : Ids]
Draft == [id : Ids, row : Customer]
Statuses == {200, 400, 404, 409, 422}

ASSUME CustomerSyncAssumption ==
  /\ MaxId \in Nat
  /\ FirstId \in 1..(MaxId + 1)
  /\ \A m \in Messages : m = [event |-> m.event, body |-> m.body]
  /\ Bodies \subseteq CreateBody \cup UpdateBody
  /\ \A b \in Bodies : b.kind = "create" => AddressWhole(b.row)
  /\ InitialCustomers \in [Ids -> Customer \cup {NONE}]
  /\ \A i \in Ids : i >= FirstId => InitialCustomers[i] = NONE
  /\ LegacyRows \subseteq Customer
  /\ NONE \notin Customer \cup Record \cup Draft \cup Messages \cup Workers \cup Ids

VARIABLES
  \* committed state of the database
  customers,         \* public.customers
  events,            \* public.customer_synchronization_events
  nextId,            \* the identity sequence, which no rollback takes back
  \* locks held until the end of a transaction
  eventLock, rowLock, loginLock,
  \* per worker
  pc,
  msg,               \* the event being served
  seen,              \* the joined region when SELECT ... FOR UPDATE began to wait
  current,           \* the row that SELECT ... FOR UPDATE returned
  draft,             \* the customer row written and not yet committed
  entry,             \* the event row inserted and not yet committed
  outcome,           \* the result to return or the exception to raise
  commitRequested,
  \* what the sender was told
  answers

database == <<customers, events, nextId>>
locks == <<eventLock, rowLock, loginLock>>
transaction == <<seen, current, draft, entry, outcome, commitRequested>>
vars == <<database, locks, pc, msg, transaction, answers>>

-----------------------------------------------------------------------------
(* State functions                                                         *)

PCs == {"idle", "lockEvent", "lookup", "exists", "lockRow", "waitRow",
        "lockLogin", "findLogin", "write", "saveLookup", "insertEvent", "exit"}

Event(w) == msg[w].event
Body(w) == msg[w].body
IsCreate(w) == Body(w).kind = "create"

\* The login that the event asks for, UNSET when a patch does not touch it.
WantedLogin(w) == IF IsCreate(w) THEN Body(w).row.login ELSE Body(w).patch.login

\* The key of the login lock, lower(btrim(login)); the mutant forgets lower().
LoginKeyAsWritten(w) == WantedLogin(w)
LoginKey(w) == Fold[WantedLogin(w)]

\* The customer that may keep a login it already has; COALESCE gives -1 for
\* a create.
CurrentId(w) == IF IsCreate(w) THEN -1 ELSE Body(w).ref

\* The reference id of the result, once the customer has been written.
ResultRef(w) == IF IsCreate(w) THEN draft[w].id ELSE Body(w).ref

Free(lock, w) == lock \in {NONE, w}

Goto(w, place) == pc' = [pc EXCEPT ![w] = place]

\* Leave the "async with" block with a result to return or an exception.
Leave(w, status, ref) ==
  /\ outcome' = [outcome EXCEPT ![w] = [status |-> status, ref |-> ref]]
  /\ Goto(w, "exit")
RaiseUnmapped(w, status) == Leave(w, IF status = 422 THEN 500 ELSE status, NONE)
Raise(w, status) == Leave(w, status, NONE)

\* A unique index makes a writer of the same login wait for the transaction
\* that wrote it, and then fails if that one committed.
LoginBeingWritten(w, login) ==
  \E v \in Workers \ {w} : draft[v] # NONE /\ draft[v].row.login = login
LoginTaken(login, id) ==
  \E i \in Ids \ {id} : customers[i] # NONE /\ customers[i].login = login

\* The worker's next statement waits for the transaction of another one: for
\* the event, its row, the login, or a row that has the same unique key.
Waits(w) ==
  \/ pc[w] \in {"lockEvent", "saveLookup"} /\ ~Free(eventLock[Event(w)], w)
  \/ pc[w] = "waitRow" /\ rowLock[Body(w).ref] # NONE
  \/ pc[w] = "lockLogin" /\ ~Free(loginLock[LoginKey(w)], w)
  \/ pc[w] = "write" /\ Body(w).ok /\ LoginBeingWritten(w, WantedLogin(w))
  \/ /\ pc[w] = "insertEvent"
     /\ \E v \in Workers \ {w} : entry[v] # NONE /\ Event(v) = Event(w)

\* The end of a transaction frees its locks and the unit of work forgets it.
Unlock(lock, w) == [k \in DOMAIN lock |-> IF lock[k] = w THEN NONE ELSE lock[k]]
\* The mutant locks the login for the session, which the pool keeps open.
KeepLogin(w) == UNCHANGED loginLock
UnlockLogin(w) == loginLock' = Unlock(loginLock, w)
Finish(w) ==
  /\ eventLock' = Unlock(eventLock, w)
  /\ rowLock' = Unlock(rowLock, w)
  /\ UnlockLogin(w)
  /\ msg' = [msg EXCEPT ![w] = NONE]
  /\ seen' = [seen EXCEPT ![w] = NONE]
  /\ current' = [current EXCEPT ![w] = NONE]
  /\ draft' = [draft EXCEPT ![w] = NONE]
  /\ entry' = [entry EXCEPT ![w] = NONE]
  /\ outcome' = [outcome EXCEPT ![w] = NONE]
  /\ commitRequested' = [commitRequested EXCEPT ![w] = FALSE]
  /\ Goto(w, "idle")

-----------------------------------------------------------------------------
Init ==
  /\ customers = InitialCustomers
  /\ events = [e \in EventIds |-> NONE]
  /\ nextId = FirstId
  /\ eventLock = [e \in EventIds |-> NONE]
  /\ rowLock = [i \in Ids |-> NONE]
  /\ loginLock = [l \in Logins |-> NONE]
  /\ pc = [w \in Workers |-> "idle"]
  /\ msg = [w \in Workers |-> NONE]
  /\ seen = [w \in Workers |-> NONE]
  /\ current = [w \in Workers |-> NONE]
  /\ draft = [w \in Workers |-> NONE]
  /\ entry = [w \in Workers |-> NONE]
  /\ outcome = [w \in Workers |-> NONE]
  /\ commitRequested = [w \in Workers |-> FALSE]
  /\ answers = {}

-----------------------------------------------------------------------------
(* A request arrives and its transaction looks for the event               *)

\* The route converts the payload, and __aenter__ opens the connection.
Deliver(w, m) ==
  /\ pc[w] = "idle"
  /\ msg' = [msg EXCEPT ![w] = m]
  /\ Goto(w, "lockEvent")
  /\ UNCHANGED <<database, locks, transaction, answers>>

\* pg_advisory_xact_lock, in a statement of its own; the mutant has none.
LockEventNowhere(w) ==
  /\ pc[w] = "lockEvent"
  /\ Goto(w, "lookup")
  /\ UNCHANGED <<database, locks, msg, transaction, answers>>
LockEvent(w) ==
  /\ pc[w] = "lockEvent" /\ ~Waits(w)
  /\ eventLock' = [eventLock EXCEPT ![Event(w)] = w]
  /\ Goto(w, "lookup")
  /\ UNCHANGED <<database, rowLock, loginLock, msg, transaction, answers>>

\* The fingerprint comparison; the mutant goes by the event id alone.
MatchesById(w) == events[Event(w)] # NONE
Matches(w) == events[Event(w)].body = Body(w)

\* _stored_result: 409 for other content, the stored result for the same.  A
\* new event goes on, past the checks that need no database.
Lookup(w) ==
  /\ pc[w] = "lookup"
  /\ \/ /\ events[Event(w)] # NONE
        /\ IF Matches(w)
             THEN Leave(w, 200, events[Event(w)].ref)
             ELSE Raise(w, 409)
     \/ /\ events[Event(w)] = NONE
        /\ \/ IsCreate(w) /\ Raise(w, 422) \* no tax identity, or no IPv4 client address
           \/ IsCreate(w) /\ HasTaxIdentity(Body(w).row)
                /\ Goto(w, "lockLogin") /\ UNCHANGED outcome
           \/ ~IsCreate(w) /\ Body(w).ref <= 0 /\ Raise(w, 400)
           \/ ~IsCreate(w) /\ Body(w).ref > 0 /\ Goto(w, "exists") /\ UNCHANGED outcome
  /\ UNCHANGED <<database, locks, msg, seen, current, draft, entry,
                 commitRequested, answers>>

-----------------------------------------------------------------------------
(* customer.updated: find and lock the row                                 *)

Exists(i) == i \in Ids /\ customers[i] # NONE

CustomerExists(w) ==
  /\ pc[w] = "exists"
  /\ IF Exists(Body(w).ref)
       THEN Goto(w, "lockRow") /\ UNCHANGED outcome
       ELSE Raise(w, 404)
  /\ UNCHANGED <<database, locks, msg, seen, current, draft, entry,
                 commitRequested, answers>>

\* What a row that was read means for the update: the conversions come first,
\* then the login if the patch has one.
RowFetched(w, row) ==
  /\ current' = [current EXCEPT ![w] = row]
  /\ \/ ~Body(w).ok /\ Raise(w, 422)
     \/ /\ Body(w).ok
        /\ Goto(w, IF WantedLogin(w) = UNSET THEN "write" ELSE "lockLogin")
        /\ UNCHANGED outcome
\* The mutant is the SELECT without FOR UPDATE.
RowReadUnlocked(w, row) == RowFetched(w, row) /\ UNCHANGED rowLock
RowRead(w, row) ==
  /\ RowFetched(w, row)
  /\ rowLock' = [rowLock EXCEPT ![Body(w).ref] = w]

\* SELECT ... FOR UPDATE OF c on a row that nobody holds, is gone, or is held.
LockRow(w) ==
  /\ pc[w] = "lockRow"
  /\ \/ /\ ~Exists(Body(w).ref)
        /\ Raise(w, 404)
        /\ UNCHANGED <<rowLock, current, seen>>
     \/ /\ Exists(Body(w).ref)
        /\ Free(rowLock[Body(w).ref], w)
        /\ RowRead(w, customers[Body(w).ref])
        /\ UNCHANGED seen
     \/ /\ Exists(Body(w).ref)
        /\ ~Free(rowLock[Body(w).ref], w)
        /\ seen' = [seen EXCEPT ![w] = customers[Body(w).ref].region]
        /\ Goto(w, "waitRow")
        /\ UNCHANGED <<rowLock, current, outcome>>
  /\ UNCHANGED <<database, eventLock, loginLock, msg, draft, entry,
                 commitRequested, answers>>

\* The lock comes free.  PostgreSQL then evaluates the query again with the
\* new version of c, but with the regions row that it had joined before: when
\* the region has changed, the LEFT JOIN yields NULL for it.
RereadRow(w) ==
  /\ pc[w] = "waitRow" /\ ~Waits(w)
  /\ IF Exists(Body(w).ref)
       THEN LET row == customers[Body(w).ref]
            IN RowRead(w, [row EXCEPT !.region = IF @ = seen[w] THEN @ ELSE NULL])
       ELSE Raise(w, 404) /\ UNCHANGED <<rowLock, current>>
  /\ UNCHANGED <<database, eventLock, loginLock, msg, seen, draft, entry,
                 commitRequested, answers>>

-----------------------------------------------------------------------------
(* reserve_customer_login, for a create and for a patch with a login       *)

LockLogin(w) ==
  /\ pc[w] = "lockLogin" /\ ~Waits(w)
  /\ loginLock' = [loginLock EXCEPT ![LoginKey(w)] = w]
  /\ Goto(w, "findLogin")
  /\ UNCHANGED <<database, eventLock, rowLock, msg, transaction, answers>>

FindLogin(w) ==
  /\ pc[w] = "findLogin"
  /\ IF \E i \in Ids \ {CurrentId(w)} :
          customers[i] # NONE /\ Fold[customers[i].login] = Fold[WantedLogin(w)]
       THEN Raise(w, 409)
       ELSE Goto(w, "write") /\ UNCHANGED outcome
  /\ UNCHANGED <<database, locks, msg, seen, current, draft, entry,
                 commitRequested, answers>>

-----------------------------------------------------------------------------
(* Write the customer                                                      *)

\* The remaining conversions and lookups, then INSERT ... RETURNING id.
WriteCreated(w) ==
  /\ pc[w] = "write" /\ IsCreate(w)
  /\ \/ ~Body(w).ok /\ Raise(w, 422) /\ UNCHANGED <<nextId, draft>>
     \/ /\ Body(w).ok
        /\ nextId <= MaxId
        /\ ~Waits(w)
        /\ nextId' = nextId + 1
        /\ IF LoginTaken(Body(w).row.login, nextId)
             THEN Raise(w, 409) /\ UNCHANGED draft
             ELSE /\ draft' = [draft EXCEPT ![w] = [id |-> nextId, row |-> Body(w).row]]
                  /\ Goto(w, "saveLookup")
                  /\ UNCHANGED outcome
  /\ UNCHANGED <<customers, events, locks, msg, seen, current, entry,
                 commitRequested, answers>>

\* The identity column has run out: a database error, 503.
IdsExhausted(w) ==
  /\ pc[w] = "write" /\ IsCreate(w) /\ Body(w).ok
  /\ nextId > MaxId
  /\ Finish(w)
  /\ UNCHANGED <<database, answers>>

\* The patch is merged with the row that was read, checked, and written.
WriteUpdated(w) ==
  /\ pc[w] = "write" /\ ~IsCreate(w)
  /\ LET id     == Body(w).ref
         row    == Patched(Body(w).patch, current[w], customers[id])
         status == PatchStatus(Body(w).patch, current[w])
     IN \/ status # 200 /\ Raise(w, status) /\ UNCHANGED draft
        \/ /\ status = 200
           /\ ~Waits(w)
           /\ IF ~Exists(id) \/ LoginTaken(WantedLogin(w), id)
                THEN Raise(w, IF Exists(id) THEN 409 ELSE 404) /\ UNCHANGED draft
                ELSE /\ draft' = [draft EXCEPT ![w] = [id |-> id, row |-> row]]
                     /\ Goto(w, "saveLookup")
                     /\ UNCHANGED outcome
  /\ UNCHANGED <<database, locks, msg, seen, current, entry, commitRequested, answers>>

-----------------------------------------------------------------------------
(* Save the result and end the transaction                                 *)

\* A result that is already stored must be this one.
Confirm(w) ==
  IF events[Event(w)] = [body |-> Body(w), ref |-> ResultRef(w)]
    THEN Leave(w, 200, ResultRef(w)) /\ commitRequested' = [commitRequested EXCEPT ![w] = TRUE]
    ELSE Raise(w, 409) /\ UNCHANGED commitRequested

\* save_processed_result locks the event again and looks it up once more.
SaveLookup(w) ==
  /\ pc[w] = "saveLookup" /\ ~Waits(w)
  /\ eventLock' = [eventLock EXCEPT ![Event(w)] = w]
  /\ IF events[Event(w)] # NONE
       THEN Confirm(w)
       ELSE Goto(w, "insertEvent") /\ UNCHANGED <<outcome, commitRequested>>
  /\ UNCHANGED <<database, rowLock, loginLock, msg, seen, current, draft, entry, answers>>

\* INSERT ... ON CONFLICT DO NOTHING waits for whoever inserts the same event
\* id and, if that one committed, inserts nothing; then commit() is called.
InsertEvent(w) ==
  /\ pc[w] = "insertEvent" /\ ~Waits(w)
  /\ IF events[Event(w)] # NONE
       THEN Confirm(w) /\ UNCHANGED entry
       ELSE /\ entry' = [entry EXCEPT ![w] = [body |-> Body(w), ref |-> ResultRef(w)]]
            /\ Leave(w, 200, ResultRef(w))
            /\ commitRequested' = [commitRequested EXCEPT ![w] = TRUE]
  /\ UNCHANGED <<database, locks, msg, seen, current, draft, answers>>

\* The route turns the result or the exception into the answer.
Respond(w) ==
  answers' = answers \cup {[event |-> Event(w), body |-> Body(w),
                            status |-> outcome[w].status, ref |-> outcome[w].ref]}

\* What COMMIT publishes.
Publish(w) ==
  /\ customers' = IF draft[w] = NONE THEN customers
                  ELSE [customers EXCEPT ![draft[w].id] = draft[w].row]
  /\ events' = IF entry[w] = NONE THEN events
               ELSE [events EXCEPT ![Event(w)] = entry[w]]

Commit(w) ==
  /\ pc[w] = "exit" /\ commitRequested[w]
  /\ Publish(w) /\ Finish(w) /\ Respond(w)
  /\ UNCHANGED nextId

\* A stored result and every refusal leave without a commit request.
Rollback(w) ==
  /\ pc[w] = "exit" /\ ~commitRequested[w]
  /\ Finish(w) /\ Respond(w)
  /\ UNCHANGED database

\* COMMIT takes effect but its confirmation is lost: 503, or no answer when
\* the process or the connection to the sender dies.
CommitUnconfirmed(w) ==
  /\ pc[w] = "exit" /\ commitRequested[w]
  /\ Publish(w) /\ Finish(w)
  /\ UNCHANGED <<nextId, answers>>

\* Any psycopg.Error, a cancelled request or a killed process: PostgreSQL
\* rolls the transaction back, and the sender gets 503 or nothing.  The mutant
\* is a connection in autocommit mode.
AbortAutocommitted(w) ==
  /\ pc[w] # "idle"
  /\ customers' = IF draft[w] = NONE THEN customers
                  ELSE [customers EXCEPT ![draft[w].id] = draft[w].row]
  /\ Finish(w)
  /\ UNCHANGED <<events, nextId, answers>>
Abort(w) ==
  /\ pc[w] # "idle"
  /\ Finish(w)
  /\ UNCHANGED <<database, answers>>

\* Another program inserts a customer, without the advisory locks: only the
\* unique index on the exact login holds it back.
LegacyInsert(row) ==
  /\ nextId <= MaxId
  /\ \A w \in Workers : draft[w] # NONE => draft[w].row.login # row.login
  /\ ~LoginTaken(row.login, nextId)
  /\ customers' = [customers EXCEPT ![nextId] = row]
  /\ nextId' = nextId + 1
  /\ UNCHANGED <<events, locks, pc, msg, transaction, answers>>

\* Another program deletes a customer.  ON DELETE RESTRICT keeps those that an
\* event refers to, and the foreign key check of an uncommitted event row
\* holds the row as well.
RemoveCustomer(i) ==
  /\ customers[i] # NONE
  /\ rowLock[i] = NONE
  /\ \A e \in EventIds : events[e] # NONE => events[e].ref # i
  /\ customers' = [customers EXCEPT ![i] = NONE]
  /\ UNCHANGED <<events, nextId, locks, pc, msg, transaction, answers>>

-----------------------------------------------------------------------------
\* The steps by which the server gets on with a request.
Serve(w) ==
  \/ LockEvent(w) \/ Lookup(w) \/ CustomerExists(w) \/ LockRow(w) \/ RereadRow(w)
  \/ LockLogin(w) \/ FindLogin(w) \/ WriteCreated(w) \/ IdsExhausted(w) \/ WriteUpdated(w)
  \/ SaveLookup(w) \/ InsertEvent(w) \/ Commit(w) \/ Rollback(w)

Fail(w) == CommitUnconfirmed(w) \/ Abort(w)

Next ==
  \/ \E w \in Workers :
       \/ \E m \in Messages : Deliver(w, m)
       \/ Serve(w)
       \/ Fail(w)
  \/ \E i \in Ids : RemoveCustomer(i)
  \/ \E row \in LegacyRows : LegacyInsert(row)

Spec == Init /\ [][Next]_vars
-----------------------------------------------------------------------------
(* Correctness                                                             *)

Outcome == [status : Statuses, ref : Ids \cup {NONE}]

\* The types of all variables, for every unit of work of synchronize_customer.
TypeOK ==
  /\ customers \in [Ids -> Customer \cup {NONE}]
  /\ events \in [EventIds -> Record \cup {NONE}]
  /\ nextId \in 1..(MaxId + 1)
  /\ eventLock \in [EventIds -> Workers \cup {NONE}]
  /\ rowLock \in [Ids -> Workers \cup {NONE}]
  /\ loginLock \in [Logins -> Workers \cup {NONE}]
  /\ pc \in [Workers -> PCs]
  /\ msg \in [Workers -> Messages \cup {NONE}]
  /\ seen \in [Workers -> EnabledRegions \cup {NULL, NONE}]
  /\ current \in [Workers -> Customer \cup {NONE}]
  /\ draft \in [Workers -> Draft \cup {NONE}]
  /\ entry \in [Workers -> Record \cup {NONE}]
  /\ outcome \in [Workers -> Outcome \cup {NONE}]
  /\ commitRequested \in [Workers -> BOOLEAN]
  /\ answers \subseteq [event : EventIds, body : Bodies, status : Statuses,
                        ref : Ids \cup {NONE}]

\* The effect of an event on the customers as they are when it commits.
Applies(before, b, r, after) ==
  \/ /\ b.kind = "create"
     /\ before[r] = NONE /\ HasTaxIdentity(b.row)
     /\ after = [before EXCEPT ![r] = b.row]
  \/ /\ b.kind = "update"
     /\ r = b.ref /\ before[r] # NONE /\ PatchStatus(b.patch, before[r]) = 200
     /\ after = [before EXCEPT ![r] = Patched(b.patch, before[r], before[r])]

Promise == INSTANCE IdempotentEvents
  WITH Customers <- Customer, Applies <- Applies

\* The interleaved transactions of all workers, with failures at any point,
\* behave as if every event took effect alone, at its commit, at most once
\* and with its record; and the answers are those of the record.
ImplementsPromise == Promise!Spec

\* Two customers never have logins that differ in case only: the login lock
\* is held from the search to the end of the transaction.
LoginsUnique ==
  \A i, j \in Ids :
    customers[i] # NONE /\ customers[j] # NONE /\ i # j
      => Fold[customers[i].login] # Fold[customers[j].login]

\* No pair of concurrent patches that are each acceptable leaves a customer
\* without tax identity or with half a delivery address.
CustomersConsistent ==
  \A i \in Ids : customers[i] # NONE =>
    HasTaxIdentity(customers[i]) /\ AddressWhole(customers[i])

\* Every customer that was not there before and that no other program added
\* stems from exactly one recorded creation, whatever was retried.
CreatedOnce ==
  \A i \in Ids : customers[i] \notin LegacyRows \cup {NONE} /\ InitialCustomers[i] = NONE =>
    \E e \in EventIds :
      /\ events[e] # NONE /\ events[e].ref = i /\ events[e].body.kind = "create"
      /\ \A f \in EventIds \ {e} : events[f] # NONE /\ events[f].body.kind = "create"
           => events[f].ref # i

\* "Database row locks protect atomic patches": an address patch that the
\* stored row completes is never refused as incomplete.
StoredRowCompletesPatch ==
  \A w \in Workers :
    /\ pc[w] = "exit" /\ outcome[w].status = 409
    /\ current[w] # NONE /\ WantedLogin(w) = UNSET
    => AddressIncomplete(Body(w).patch.address, customers[Body(w).ref])

\* Whenever requests are being served, one of them waits for nobody: event,
\* row, login and unique index are taken in this order and left by the end of
\* the transaction, so that requests never wait in a cycle, nor for a request
\* that is over.
ServerNeverStuck ==
  (\E w \in Workers : pc[w] # "idle") => \E w \in Workers : pc[w] # "idle" /\ ~Waits(w)
=============================================================================
