# Formal models of the Life365 public API

TLA+ models of the parts of `life365-public-api` that keep state and are hard to
test: the customer events that Salesforce sends and their sender, the exports that go
back to it, the reading of orders, the daily job about inactive customers, and the
logins and tokens of its users. TLC checks every model on small instances; TLAPS
proves most of their properties for all instances.

## The system

| Component | State | Operations | Interacts with |
|---|---|---|---|
| Customer synchronization (`app/application/services/customer_synchronization_service.py`, `app/infrastructure/data_mapper/customer_sync/`) | PostgreSQL: `customers`, `customer_synchronization_events`; locks of the open transactions | `POST /integrations/salesforce/events`: create or patch one customer, once per event id | Salesforce sends and retries; other programs write `customers` |
| The same in memory (`data_mapper/customer_synchronization.py`) | a store per process, one asyncio lock | the same | chosen instead of PostgreSQL by configuration |
| Exports (`app/infrastructure/salesforce/`, `*_export_service.py`, `api/integrations/*exports.py`) | access token cache and its lock, per process | `POST/PUT/DELETE /integrations/salesforce/{customers,orders,products}/{id}` | Salesforce's token and sync endpoints; reads PostgreSQL |
| Inactive customer job (`crons/`) | a lock file, an SQLite file per run, JSON reports | collect, hand over, record results, report | crond starts it daily; PostgreSQL; a Salesforce gateway (a mock today) |
| Authentication (`auth_service/`, `data_mapper/auth/`) | token sessions: of the API in an SQLite file, of the sandbox in memory | login, validate, logout | every route; reads users and customers in PostgreSQL |
| Authorization (`domain/authorization/`) | none | permissions of a role, scopes of a permission | product routes; the others ask for the admin role |
| Event sender (Salesforce; the duties of `routes.py:125-131`) | one stream of events per customer | send, repeat what is uncertain, go on after a definite answer | the event endpoint, over a network that loses and delays |
| Customer contents (`api/integrations/schemas`, `converters`, the column modules of `customer_sync/`, `customer_export/`) | the columns of one customer | create, patch, export | tables of categories, groups, channels, agents, regions; other programs |
| Order reads (`data_mapper/order_export/`, `data_mapper/orders.py`) | none | three statements per export, two per page | PostgreSQL, which other programs write |
| Products, recommendations, customers, health, sandbox wiring, local PostgreSQL tooling | none of their own | one query or HTTP call each | |

What is hard here. Requests run concurrently, in several processes, and meet
only in PostgreSQL: READ COMMITTED, one advisory lock per event id, one per
folded login, one row lock, a unique index and a foreign key have to add up to
"each event once". Senders retry what timed out. A `COMMIT` may take effect
without its confirmation. Exports share a token that expires at any time, and
posts reach Salesforce late or never. The cron job may die between any two writes
to three different files and has to find its way from what is left.

What makes the components correct:

- *Customer synchronization*: an event takes effect at most once, atomically with
  its record, on the customers as they are at that moment; successes repeat the
  record; logins are unique up to case; no combination of patches leaves a
  customer without tax identity or with half an address; requests never wait for
  each other in a cycle.
- *Sender and service together*: the events of a stream take effect once and in
  order, the customer ends as planned, and the sender gets a definite answer.
- *Contents*: creation, patch and export each have their own table of fields and
  columns; what goes in through the first two comes out of the third, and the two
  backends accept and refuse alike.
- *Order reads*: an exported order is that of one moment; its residual tax is the
  tax that was put in; a walk through the pages finds what stays listed.
- *Exports*: no event is applied twice because of the retry; callers are told
  the truth; in sequence the last export wins; one authentication serves all;
  every call ends.
- *Tokens*: an answered logout is final, whatever restarts and whatever else goes
  on; a live token works until it expires; API and sandbox do not take each
  other's tokens; permissions and scopes agree.
- *Inactive customer job*: no customer of a run is lost; an outcome on record
  stays and is not asked for again; one report per run; the latest report is the
  newest; an interrupted run is reported in the end.

## Modules

| Module | Content |
|---|---|
| `CustomerData` | customer rows, patches, and the rules a create and a patch must satisfy |
| `IdempotentEvents` | abstract: what customer synchronization promises to its sender |
| `CustomerSync` | the PostgreSQL backend, one action per SQL statement; extends `CustomerData`, refines `IdempotentEvents` |
| `CustomerSyncProofs` | theorems about `CustomerSync` |
| `MCCustomerSync`, `MCCustomerScenarios` | messages of five scenarios, and an instance of which each behavior chooses one |
| `CustomerSender`, `MCCustomerSender` | sender, network and service together; refines `IdempotentEvents` |
| `CustomerSenderProofs` | theorems about `CustomerSender` |
| `CustomerFields`, `CustomerColumns`, `CustomerUpdates`, `CustomerExportRow` | the fields of a payload and their conversion, the columns of a creation, those of a patch with its checks, and the way back |
| `CustomerContent` | one customer in PostgreSQL and in memory through its events; extends the four |
| `CustomerContentProofs` | theorems about `CustomerContent` |
| `CustomerPayloads`, `MCCustomerContent` | the payloads that the schemas let through, and an instance |
| `OrderRows` | the export of an order from its rows |
| `OrderReads`, `MCOrderReads` | exports and the listing, statement by statement; extends `OrderRows` |
| `OrderReadsProofs` | theorems about `OrderReads` |
| `InMemorySync` | the in-memory backend; extends `CustomerData`, refines `IdempotentEvents` |
| `InMemorySyncProofs`, `MCInMemorySync` | theorems about `InMemorySync`, and an instance |
| `SalesforceExport`, `MCSalesforceExport`, `MCExportScenarios` | the exports of one server process, and instances |
| `SalesforceExportProofs` | theorems about `SalesforceExport` |
| `InactiveSync`, `MCInactiveSync` | the daily job, and its instance |
| `InactiveSyncProofs` | theorems about `InactiveSync` |
| `Authorization` | permissions, scopes, and what a scope lets through |
| `ApiSessions` | login, validation, the guarded routes, logout; extends `Authorization` |
| `ApiSessionsProofs` | theorems about `ApiSessions` |
| `MCApiSessions` | an instance with users and a customer of one name |

### CustomerSync

A *worker* is one request being served, in whichever process; its `pc` is the
next statement. `Deliver` begins a request with any message at any time: the
sender is not restricted, so duplicates, retries, reordering and reused event ids
are all there.

| Action | Code |
|---|---|
| `LockEvent`, `Lookup` | `events.py`: the advisory lock, then the stored result and the fingerprint (the content itself here) |
| `CustomerExists`, `LockRow`, `RereadRow` | `customers.py` `exists`, `update.py` `SELECT ... FOR UPDATE OF c` |
| `LockLogin`, `FindLogin` | `logins.py` |
| `WriteCreated`, `WriteUpdated`, `IdsExhausted` | `customers.py`, `update*.py`, `insert.py`; the row goes to `draft` until the commit |
| `SaveLookup`, `InsertEvent` | `events.py` `save_processed_result`; the event row goes to `entry` |
| `Commit`, `Rollback` | `unit_of_work.py` `__aexit__`, with the route's answer |
| `CommitUnconfirmed`, `Abort` | a lost confirmation; any `psycopg.Error`, cancellation or death of the process |
| `LegacyInsert`, `RemoveCustomer` | other programs, held back by the constraints alone |

PostgreSQL is modelled by what READ COMMITTED does to these statements: each
sees what is committed when it starts; advisory and row locks last until the
end of the transaction; a writer of a login waits for an uncommitted equal one
and fails if that commits; a foreign key keeps referenced customers. A `SELECT ...
FOR UPDATE` that had to wait is evaluated again with the new row version but with
the joined rows it had before. `RereadRow` models this: a region that has
changed meanwhile is read as NULL.

Abstracted: a row keeps login, two tax identifiers, street and region of the
delivery address, and one flat JSON object; `CustomerContent` has all columns, and
one event at a time. `ok` says whether the conversions and lookups of a content
succeed. A missing IPv4 client address and
a missing tax identity of a create are one refusal.

### CustomerSender

`Send`, `Receive` and `GiveUp` are the sender, one *stream* of events per customer: it
repeats an event after 503 or a timeout, with the same body, and goes on after a
definite answer with the reference that the creation returned. After a refusal it may
stop; without a reference it must. `Serve` is the service as one step, which is what
`CustomerSync` and `InMemorySync` are shown to implement; `Lookup`, `Exception`,
`Verdicts` and `Status` are `synchronize_customer` and the statuses of the route.
`Fails` is a failure of the database, before the commit or after it. A request that was
given up before it was served stays in `abandoned`, and `ServeLate` may serve it at any
time. `Unfit` data does not map to a customer (422); `Unstorable` data does and does not
fit into its column. Customers are represented by their logins. The sender is external:
the repository says what it must do and has no code of it.

### CustomerContent

One row (`row`, PostgreSQL) and one in-memory customer (`view`) get the same events.
`Create` and `Update` are conversion, checks in the order of the code, and the columns
written; `CustomerFromRow` is the export. A payload is a record of records whose
domains say what was sent; a text that no rule looks into is `<<section, field, version>>`,
so a value in the wrong column is seen. `Retire` and `LegacyWrite` are other programs that
delete references and clear or overwrite columns. UNSET is modelled as absence, which is
how the code treats it throughout. `f ++ g` is a dictionary `g` updated with `f`.
`IsCreation` and `IsPatch` are what the request schemas let through, as far as a rule looks
into it (which fields, which nulls, whole or partial objects, instants with an offset);
lengths of texts, ranges of numbers and payloads that the schemas refuse are left out.
`PayloadsAssumption` says that of the payloads, and `CatalogsAssumption` that no two labels of
`reference_codes.py` have one id and that no id is NULL.

### OrderReads

The database is the `history` of its committed states. An export takes its snapshot with
the first statement (`ReadOrder`), the later ones read the same state; the listing's two
statements (`ReadPage`, `ReadLines`) each read the state that is current. Writers commit
orders whose total is the net of the lines, the shipping and `TAX`; the export computes
the tax back (`OrderFromRows`). What foreign keys and column types guarantee is left out.
The in-memory listing returns two constant orders and is not modelled.

### InMemorySync

`Acquire` is `__aenter__` (the lock, then a deep copy of the store), `Lookup` the
stored result and `customer_exists`, `Create`, `Update` and `Save` the calls of the
gateways on the copy (`Save` with the `commit()` that only asks for one), `Exit` is
`__aexit__` and the route's answer, which may be lost. `Fail` is any other exception
and a cancelled request. None of these calls suspends today, so that no other request
runs in between; the model does not use that, it uses the lock. The checks that
`update_customer` and `save_processed_result` repeat on the same copy are left out:
they cannot fail. Unlike PostgreSQL this backend refuses no login, tax identity or
region; it shares with it the rules of `CustomerData` about half an address and
about the JSON merge. A restart forgets everything, as documented, and is not modelled.

### SalesforceExport

A *request* is one export call. It reads its entity (`Read`), takes the cached
token or authenticates under the lock (`GetToken`, `Authenticate`,
`AuthenticationFails`), posts (`Send`) and gets a response or gives up
(`Receive`, `GiveUp`). A step is what asyncio runs between two awaits. Salesforce
and the network are actions of their own: `Apply`, `Refuse`, `Lose`, `Expire`. A post
stays on the `wire` when its request has given up. `Restart` ends the process.
A payload is the version of the entity it was read from, 0 for a deletion. The
three clients are one model; they differ in `Deletions` and `MissingReported`.

### InactiveSync

`Launch` is crond starting the job and getting the flock; a launch that does not
get it changes nothing. The SQLite file is `ABSENT`, `PARTIAL` (it exists without
a run row) or a run with its items, because every later write is one SQLite
transaction. Reports are replaced atomically. `Crash` stands for a kill and
for an exception outside `create_sync_database`, which both leave the files;
`CreateFails` is the exception that removes the file. The collected customers are
any set, the gateway's batches any results for the customers handed over. `now`
counts launches, so report names never collide (see hazards).

### ApiSessions

A *request* is a login (`SubmitLogin`, `Authenticate`, `Register`), or any other
request with a bearer token: `Decode`, `Known`, `GetSession`, `CheckRevoked` and
`CheckExpiry` are the lines of `validate_token`, one access to the store each,
then the route serves it. `ServeAdmin` stands for the customer and integration
routes, `ListProducts` and `ReadProduct` for the product routes, `KnownAgain` and
`Revoke` for the logout. A step is one access to the store, so the model covers
several server processes although the Dockerfile starts one worker. `Respond` is
the answer reaching the client, who may then use the token anywhere; with `Fail`
it never does, and what was stored stays.

`sessions[a]` is the table `token_sessions` of the API, which `initialize` keeps
at a restart, or the dictionary of the sandbox, which a restart empties. A token
is its claims and the key that signed it; clients present tokens that some login
has answered, or none. `Secret` may give both applications one key. The settings
refuse that when they can see both; the model does not rely on it.
`now` runs in ticks, `Second` of them a second, since `exp` is cut to whole
seconds and `expires_at` is not. `EditAccounts` changes users and customers
between the login and the use of a token; nothing reads them again.
`request[r].past` and `loggedOut` only observe: which logouts had been answered
when a request came.

Left out: headers and malformed tokens (they end like no token), the empty
user name (nobody has it), forged tokens.

## Runs

| Run | Question | Bounds |
|---|---|---|
| `customer_sync` | creations and a rename to logins that differ in case, an event id with two contents; two customers that swap logins; the same while another program inserts and removes; patches that are acceptable only one by one; every kind of refusal: `TypeOK`, `LoginsUnique`, `CreatedOnce`, `CustomersConsistent`, `ServerNeverStuck`, `ImplementsPromise` | 2 workers; up to 6 messages in a scenario, of which a behavior chooses one; 3 ids, which run out |
| `sync_region` | finding: `StoredRowCompletesPatch` is violated | 2 workers, 4 patches of 1 customer |
| `memory_sync` | creations and patches of one store, failing anywhere: `TypeOK`, `CreatedOnce`, `ImplementsPromise`, `EveryRequestEnds` | 2 workers, 5 messages with 3 event ids, 2 ids |
| `exports` | three exports of one entity in sequence, or two concurrent ones of two entities: `TypeOK`, `AppliedAtMostOnce`, `AnswersTrue`, `LastExportWins`, `AuthenticatesOnce`, `ValidTokenKept`, `EveryCallEnds` | 3 + 2 requests (a deletion each), 2 credentials, 2 tokens in sequence and 3 concurrently, 2 versions |
| `export_authentication` | finding: `AuthenticationFailureIs502` is violated | 2 requests, 2 credentials |
| `inactive_sync` | `TypeOK`, `NothingLost`, `ReportsSettled`, `HandedOverPending`, `OutcomesKept`, `RunsReported` | 2 processes, 2 customers, 2 runs, 3 failures |
| `inactive_partial` | finding: `FoundFileIsResumable` is violated | 1 failure |
| `api_sessions` | requests of all kinds of users in both applications, restarts, time, edited accounts: `TypeOK`, `LogoutIsFinal`, `LiveTokenAccepted`, `TokensStayApart`, `PermissionsMatchScopes` | 2 requests at a time, 1 token id, 3 account tables, 3 ticks of half a second |
| `content` | a creation with everything or with the least, then any patch of one field, any null, and the combinations that have rules: `ExportFaithful`, `BackendsAgree` | 2 references of each kind, 2 patches, 1 write of another program |
| `order_reads` | an export and a walk through the listing while other programs place, revise, move and delete orders: `TypeOK`, `ExportOneState`, `TaxAsStored`, `ListingOrdered`, `WalkMissesNone` | 3 order ids, 1 export, pages of 2, 2 commits |
| `sender` | two streams, one a creation with two updates, one with an unfit and an unstorable update, that want each other's logins: `TypeOK`, `EffectsInOrder`, `AsPlanned`, `ImplementsPromise`, `StreamsEnd` | 2 requests given up, 1 failure, 3 ids |
| `sender_unstorable` | finding: `EveryStreamEnds` is violated | 1 stream of 2 events |

Why the bounds are enough to be interesting. Two workers meet at every lock, and
each can be served, fail and be served again without limit; a conflict of three
needs two of them to hold what the third wants, and each such pair occurs. The
logins `ann` and `Ann` are one key and two spellings, which is the case the unique
index misses. Two patches take away one tax identifier each; two set one JSON key
each. Two posts per event and two tokens let a token expire between them; three
tokens let a late 401 meet a newer one. In `api_sessions` one token is enough: the
properties speak of one token and of the requests around its logout, and the
theorems cover any number; two ticks of life that begin at an odd tick end in the
middle of a second. Two patches after a creation let one
take away what the next one patches in part, and the second patch has the values of
version 2, so a column that keeps its old value is seen. Two commits fall between any two
of the three statements of an export, or between two pages. Two requests given up let
two copies of earlier events arrive after the last one, and the failure another time.
Three failures let a run die in phase
two, die again between the reports, and be completed a third time.

`inactive_sync`, `inactive_partial`, `content`, `order_reads` and the sender's runs do
not check for deadlock: there the job, the events, the reads or the streams really come
to an end. In `exports` an entity changes between the first two exports only and tokens
are issued in turn, which loses no behavior that the properties tell apart.
`BackendsAgree` and `ExportFaithful` compare two independent translations of the code,
of the mapper and of the in-memory gateway, so neither is the other's definition.

Fairness. `SalesforceExport`: each request's next step, because asyncio runs
every ready task and every HTTP call has a timeout (`settings.timeout_seconds`);
nothing is assumed of Salesforce. There are finitely many requests, so weak fairness
suffices for the lock. `InactiveSync`: each process goes on unless it is killed,
and crond launches again; `MaxFailures` bounds the failures, so they stop.
`InMemorySync`: each request's next step, and strong fairness of `Acquire`, because
asyncio's lock wakes its waiters in the order they came. Failures are unlimited
there: they end a request too. `CustomerSender`: the sender goes on and the server
answers what it is sent; requests given up and failures of the database are bounded, so
they stop. `CustomerSync` has no liveness property, but `ServerNeverStuck`: as long as a
request is being served, one of them waits for nobody, so PostgreSQL never has a deadlock to
resolve. Whom a worker waits for is `Waits`, which is also the guard of its statements.

`CustomerSync` mutants are plausible slips in that code (a search by login as
written, a comparison by event id alone, a `SELECT` without `FOR UPDATE`, autocommit, no
event lock); the other modules have theirs beside the definition they change.

## Findings

1. `sync_region`: a patch of `regionName` alone can be refused with 409 although the
   stored row has the country, when the row's region changed while the patch
   waited for the row.
2. `inactive_partial`: a process killed inside `create_sync_database` leaves a file
   that every later launch takes for a resumable run, and fails on, until it
   is deleted by hand.
3. `export_authentication`: when the token endpoint responds 404 or 409, orders (and
   product deletions, and all of them for 409) answer as if Salesforce had said so about
   the entity; the documents promise 502.
4. `sender_unstorable`: the patch schema lets through texts that `customers.pec` and
   `preferred_language` cannot hold; the update is answered 503 however often it is
   repeated, where the runbook promises 422, so its stream never goes on.

Two observations without a run. `EffectsInOrder` needs its exemption: an event that was
refused may still take effect when a given-up copy of it is served after the obstacle is
gone, and a sender that goes on after a refusal sees it then. And some things are
as the code intends, so that no model holds them against it: a role stays in a token until it expires; the in-memory
backend and the sandbox forget at a restart; the job hands customers to Salesforce again
when results were lost with a crash, and hands over stale ones when a run is resumed days
later; programs that do not take the login lock can insert logins that differ in case.

## Proofs

Every invariant and every action property that a passing run checks is also a theorem. The four
liveness properties (`RunsReported`, `EveryCallEnds`, `EveryRequestEnds`, `StreamsEnd`) stay with
TLC: fairness is a statement about ENABLED, which TLAPS cannot reason about.

`CustomerSyncProofs`, for any sets of workers, messages and data satisfying
`CustomerDataAssumption` and `CustomerSyncAssumption`:

- `Invariant`: `Spec => []IInv`. `IInv` is `TypeOK` and, for each worker, what it must
  have established where it is: `ServesEvent` (it serves a message and holds the lock
  of its event), `MayWrite` (it holds the row or the login lock its write rests on, and the
  row it read is the stored one up to the region), `HasDraft`, `HasOutcome`; and that ids of the
  sequence are unused (`IdsFresh`) and no two drafts are of one id (`DraftsDistinct`).
- `TypeCorrect`: `TypeOK` follows.
- `Implements`: `Spec => ImplementsPromise`. A commit is `Accept` or `Repeat`, a rollback
  `Repeat` or `Refuse`, other programs are `Insert` and `Remove`, and everything else
  stutters. The row lock makes the row that was checked the row that is replaced; the event
  lock makes "not recorded" still true at the commit.
- `Consistency`: `Spec => []CustomersConsistent`, if the customers that are there at first and
  those that other programs insert are consistent. It is carried over from the
  drafts: a draft is checked against the row under its lock.
- `UniqueLogins`: `Spec => []LoginsUnique`, if the logins are unique at first and no other
  program, which takes no login lock, inserts one that differs in case only from one that
  anybody else uses (`CaseKept`; without that it is false, which is why
  `SALESFORCE_CUSTOMER_POSTGRESQL_MAPPING_V1.md:435` asks for a functional index). A login
  that was searched may be taken before it is written; then the writer fails.
- `OneCreation`: `Spec => []CreatedOnce`, if no event updates a customer that other programs
  may have inserted (`InsertedLeftAlone`; of such a customer a record exists without a
  creation). `CreatedInv` adds that records refer to customers that are there (the foreign key), those of creations
  to different ones, and that each customer that was not there at first has one.

- `NeverStuck`: `Spec => []ServerNeverStuck`. Who holds a lock is behind the statement that
  took it (`HoldersInv`). So who waits for an event waits for a worker that waits at most
  for a row, that one's holder waits at most for a login, and a holder of a login at most for
  a writer of an equal one. A writer waits for nobody, since it has its event to itself:
  `WritersGetOn`, `LoginHoldersGetOn`, `RowHoldersGetOn` and `EventHoldersGetOn` follow the
  chain from its end. This is also why locking row before login and never the other way
  matters.

The scenario of `customer_sync` in which another program inserts customers satisfies
`CaseKept` and `InsertedLeftAlone`.

`TypeOK` alone is not inductive, because `Publish` applies `draft[w].id`, which
exists only where `HasDraft` says so; `ImplementsPromise` needs to know that the lock is
still held.

`ApiSessionsProofs`, for any requests, ids, accounts, products and lifetimes satisfying
`ApiSessionsAssumption`:

- `Invariant`: `Spec => []IInv`. `IInv` is `TypeOK` and, for each request, what it has
  established where it is (`RequestOK`), that past the check of the session it is not one
  that came after the logout of its token (`Barred`), that the id it is about to store is
  new in every respect (`Fresh`), and that an answered logout has left the session
  revoked (`AnswerOK`); ids about to be stored differ (`FreshDistinct`), what is stored
  or logged out has been drawn (`SessionsDrawn`), and what is logged out is revoked or
  gone (`LoggedOutRevoked`).
- `LogoutFinal`: between `known` and the check of `revoked` the session cannot vanish, since only a
  restart drops sessions and that ends the request as well; so a request that came
  after the logout sees it revoked. This is where an absent session, which
  `is_token_revoked` takes for not revoked, would matter.
- `TokensApart`: tokens carry the audience of their application (`Apart`), and
  audiences differ.
- `LiveTokens`: `Spec => []LiveTokenAccepted`. A token that was answered has the key and the
  audience of its application and a session as it was stored, unless the sandbox has lost it, and
  no session will be stored under its id again (`Genuine`); a request holds no token or one
  that was answered (`Presented`); what it has read of the session is still true
  (`ReadSession`). So each of the checks that refuse it names one of the three reasons.
- `PermissionsAndScopes`: by cases over the roles; a buyer's id is positive by `TypeOK`.

`LogoutIsFinal` is not inductive: a request between two reads has not failed yet, and
only the state of the session says that it will. `LiveTokenAccepted` is not either: it does not
say that two tokens never share a session.

`InMemorySyncProofs`, for any workers, messages and data satisfying
`CustomerDataAssumption` and `InMemorySyncAssumption`:

- `Invariant`: `Spec => []IInv`. `IInv` is `TypeOK`, that exactly the holder of the lock
  is inside a unit of work (`LockHeld`), that ids from `nextId` on are unused, and
  for each worker that its copy is the store (`CopyOK`), or the store with the effect of
  its event (`SaveOK`) and then also with the record of it (`ExitOK`).
- `TypeCorrect`: `TypeOK`, which needs `PatchedStored`: a patch that is accepted leaves
  a customer with a whole address or none.
- `Implements`: `Spec => ImplementsPromise`. `Exit` is `Accept`, `Repeat` or `Refuse`;
  everything else stutters.
- `OneCreation`: `Spec => []CreatedOnce`. Ids are fresh at the commit and not only when
  they are drawn, as the copy is still the store then.

Only model-checked there: `EveryRequestEnds` (liveness).

`CustomerSenderProofs`, for any streams, plans, customers and bounds satisfying
`CustomerSenderAssumption`:

- The invariant is that the service has recorded what the sender knows: every event
  before the current one of its stream has an answer, every success is a record
  (`RecordsInTurn`), records of different streams are of different customers
  (`StreamsDisjoint`), the customer of a stream is as its latest record says (`UpToDate`),
  and a request on its way is of the current event or given up (`RequestInv`).
- `StreamsTakeEffectInOrder`: an event that takes effect has no record; if a later one
  of its stream has, the sender has left it behind, so it was refused.
- `StreamsEndAsPlanned`: when every event has succeeded, every event is recorded, so that a
  late copy can only repeat an answer.
- `Implements`: `Spec => ImplementsPromise`. Serving an event, in time or late, is `Accept`,
  `Repeat` or `Refuse`, or changes nothing; a new id is of no customer (`Allocated`).
- `TypeCorrect`: `Spec => []TypeOK`; copies on their way are bounded by the requests given up
  (`Counted`).

Only model-checked there: `StreamsEnd` (liveness).

`SalesforceExportProofs`, for any requests, entities, credentials, tokens and bounds
satisfying `SalesforceExportAssumption`:

- `Invariant`: `Spec => []IInv`. `IInv` is `TypeOK`; about tokens, that exactly the holder of
  the lock authenticates (`LockHeld`), that nobody does while a token is cached
  (`AuthenticatesOnce`), and that what is cached or used has been issued
  (`TokensIssued`); about posts, that nothing is under way or applied before the first one
  (`BeforePost`), that a request has one post or one response under way, which says what
  Salesforce did (`WireOK`, `RepliesOK`), that exactly requests that are done have an
  answer, and `AppliedAtMostOnce`; `AnswersTrue`; and about callers that wait for each other, that
  the one request of an entity that runs is the latest (`LatestRuns`), and that its
  effect stands once it is applied and the others had a definite outcome (`LatestApplied`).
- `TypeCorrect`, `OneAuthentication`, `NeverAppliedTwice`, `CallersToldTheTruth`: parts of it.
- `TheLastExportWins`: from `LatestApplied` and `AnswersTrue`.
- `ValidTokenStays`: a 401 names the token of its own post, and Salesforce has rejected
  that one for good.

`TypeOK` alone is not inductive: a post carries the token of its request, which
must have one.

Only model-checked there: `EveryCallEnds` (liveness).

`InactiveSyncProofs`, for any processes, customers and bounds satisfying
`InactiveSyncAssumption`:

- `Invariant`: `Spec => []IInv`. `IInv` is `TypeOK`; that exactly the holder of the flock
  works (`LockInv`); that runs begin at different times (`BegunInv`); that the file is of a run
  that was begun and, once complete, later than every report but its own (`FileInv`); that a
  report is complete, of such a run, and what the file says if that is of the same run
  (`ReportsInv`); `OneReport`, `LatestInv` and `NothingLost`; and what the working process has
  established where it is (`PlaceInv`): nothing on record is as late as a run it
  begins, what it is about to hand over is what is pending, the reports it has
  written are the file.
- `NoRunIsLost`: only `RemoveFile` drops a run, and `PlaceInv` says that its
  report is there. `NothingLost` alone is not inductive for that reason.
- `ReportsAreSettled`, `PendingAreHandedOver`, `OutcomesStay`: the file changes by new results for
  pending customers and by a completion time that was not set, and a report by being
  written from the file, so an outcome on record never does.

Only model-checked there: `RunsReported` (liveness).

`OrderReadsProofs`, for any orders, contents, exports, page size and number of commits
satisfying `OrderReadsAssumption` and `WritersAssumption` (what other programs write has the
types of the columns, and a total that is the sum of its parts):

- `ExportsAreOneState`: states are only appended, so that what an export has read is still the
  state of its snapshot, and the snapshot lies between its call and now.
- `TypeCorrect`: `TypeOK`, with every state of the history as the writers leave it
  (`AsWritten`).
- `ExportedTaxes`: `Spec => []TaxAsStored`. The exported lines add up to the stored net and
  the shipping. Induction over a sum has no rule here, so `SumsUnique` and `NetOfLines`
  look at the least index at which two sums differ (`LeastException`).
- `PagesAreOrdered`: `Spec => []ListingOrdered`. The place of an order in a listing is the number
  of listed orders that are not older (`DescendingRows`), so a page is ordered, and so is the
  response, which takes its headers from it (`PageInv`).
- `WalksMissNone`: `Spec => []WalkMissesNone`. `WalkInv` says of every order that was listed
  throughout, as long as none has left, that it is found or its place is still ahead of
  the offset: orders that are placed only push it further (`RowsGrow`). `WalkMissesNone` alone
  is not inductive, as it says nothing before the walk is done.

`CustomerContentProofs`, for any catalogues, tables and payloads satisfying
`CatalogsAssumption` and `PayloadsAssumption`, any number of events and of writes of other programs:

- The invariant `IInv`: the customer in memory is one that a creation could have brought
  (`IsCreation`, `Coded`), and the row is the one that *creating this customer* would write
  (`CreatedRow(view)`), in every column but those that another program wrote last, which
  hold what that program wrote. `ExportFaithful` alone is not inductive: a column that the
  export does not read, such as the region of an address that another program cleared,
  decides what the next patch does.
- A patch keeps it column by column: `Follows` says that a column which the patch writes gets what
  creating the patched customer would write, and that creating it would leave any other
  column alone. `DirectFollows` does this once for the 43 columns that hold one field,
  from the fact that the table of the mapper and that of the creation name the same
  columns (`ColumnOfField`, `CreatedByField`); each of the others has its rule. Here it is
  needed that the database accepts no partial patch of what is not there
  (`AcceptedInMemory`): neither of an address whose street another program cleared.
- `BackendsAlike`: `Spec => []BackendsAgree`. What the checks of the database see in the row
  is what the gateway sees in memory (`RowTells`).
- `ExportsTheCustomer`: `Spec => []ExportFaithful`. The conversions of the export undo those of
  the events, section by section (`TimestampRead` to `OperationsRead`), and each column that
  another program spoils refuses the export in its own way (`BrokenRefused`).

Both have one hypothesis, `NoneIsAtom`: None and NULL are no dictionary, list or tuple. In TLC's
instance `NONE` is a model value, which is not even comparable with one, so this is not an
`ASSUME` that TLC could evaluate.

## Not modelled

- The product reader and EAN check digits: one statement, pure conversion.
- The queries of products and customers, recommendations, health checks, sandbox wiring,
  settings: no state that changes; one query or call each.
- The layout of the payloads of orders and products, and the lengths and ranges
  that the schemas check: pure data, covered by the repository's unit tests.
- Migrations and local PostgreSQL tooling: offline.

## What is left

- The product reader with the EAN check against the published definition.
