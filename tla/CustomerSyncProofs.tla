------------------------- MODULE CustomerSyncProofs -------------------------
(***************************************************************************)
(* Proofs about CustomerSync, for every set of workers, messages and       *)
(* initial customers that the assumptions admit.                           *)
(***************************************************************************)
EXTENDS CustomerSync, TLAPS

-----------------------------------------------------------------------------
(* Facts about the data                                                    *)

\* The constants of CustomerData, without the assumptions of CustomerSync.
LEMMA DataFacts ==
  /\ NULL # UNSET
  /\ NULL \notin Logins \cup TaxCodes \cup Streets \cup Countries \cup RegionNames \cup ExtValues
  /\ UNSET \notin Logins \cup TaxCodes \cup Streets \cup Countries \cup RegionNames \cup ExtValues
  /\ EnabledRegions \subseteq Countries \X RegionNames
  /\ NULL \notin EnabledRegions
  /\ Fold \in [Logins -> Logins]
BY CustomerDataAssumption DEF CustomerDataAssumption

\* A customer as a SELECT ... FOR UPDATE may return it: possibly with the
\* region lost by the outer join that was evaluated again.
StaleJoin(row) == [row EXCEPT !.region = NULL]

LEMMA StaleJoinType ==
  ASSUME NEW row \in Customer
  PROVE  StaleJoin(row) \in Customer
BY DEF StaleJoin, Customer

\* A patch that is accepted yields a customer.
LEMMA PatchedType ==
  ASSUME NEW patch \in Patch, NEW row \in Customer, NEW current0 \in Customer,
         ~RegionUnknown(patch.address, current0)
  PROVE  Patched(patch, current0, row) \in Customer
<1>1. Overlay(patch.login, row.login) \in Logins
  BY DEF Overlay, Patch, Customer
<1>2. /\ Overlay(patch.fiscal, row.fiscal) \in TaxCodes \cup {NULL}
      /\ Overlay(patch.vat, row.vat) \in TaxCodes \cup {NULL}
  BY DEF Overlay, Patch, Customer
<1>3. PatchedStreet(patch.address, row) \in Streets \cup {NULL}
  BY DataFacts DEF PatchedStreet, Overlay, Patch, Customer, AddressPatch
<1>4. PatchedRegion(patch.address, current0, row.region) \in EnabledRegions \cup {NULL}
  BY DEF PatchedRegion, RegionUnknown, IsAddressPatch, Customer
<1>5. [k \in ExtKeys |-> Overlay(patch.extra[k], current0.extra[k])]
        \in [ExtKeys -> ExtValues \cup {NULL}]
  BY DEF Overlay, Patch, Customer
<1>6. row.extra \in [ExtKeys -> ExtValues \cup {NULL}]
  BY DEF Customer
<1>7. QED
  BY <1>1, <1>2, <1>3, <1>4, <1>5, <1>6 DEF Patched, Customer

\* A patch that is accepted on a row whose joined region got lost is accepted
\* on the row itself, and has the same effect.
LEMMA StaleJoinHarmless ==
  ASSUME NEW patch \in Patch, NEW row \in Customer,
         PatchStatus(patch, StaleJoin(row)) = 200
  PROVE  /\ PatchStatus(patch, row) = 200
         /\ Patched(patch, StaleJoin(row), row) = Patched(patch, row, row)
<1> DEFINE a == patch.address
           stale == StaleJoin(row)
<1>1. /\ stale.region = NULL /\ stale.street = row.street
      /\ stale.fiscal = row.fiscal /\ stale.vat = row.vat /\ stale.extra = row.extra
  BY DEF StaleJoin, Customer
<1>2. /\ ~AddressIncomplete(a, stale) /\ ~RegionUnknown(a, stale)
      /\ PatchKeepsTaxIdentity(patch, stale)
  BY DEF PatchStatus
<1>3. IsAddressPatch(a) /\ TouchesRegion(a) => a.country # UNSET /\ a.name # UNSET
  BY <1>1, <1>2 DEF AddressIncomplete, WantedRegion, Overlay, Country, RegionName
<1>4. IsAddressPatch(a) /\ TouchesRegion(a) => WantedRegion(a, stale.region) = WantedRegion(a, row.region)
  BY <1>3 DEF WantedRegion, Overlay
<1>5. ~AddressIncomplete(a, row) /\ ~RegionUnknown(a, row)
  BY <1>1, <1>2, <1>4 DEF AddressIncomplete, RegionUnknown
<1>6. PatchKeepsTaxIdentity(patch, row)
  BY <1>1, <1>2 DEF PatchKeepsTaxIdentity
<1>7. PatchedRegion(a, stale, row.region) = PatchedRegion(a, row, row.region)
  BY <1>4 DEF PatchedRegion, IsAddressPatch
<1>8. QED
  BY <1>1, <1>5, <1>6, <1>7 DEF PatchStatus, Patched

-----------------------------------------------------------------------------
(* The inductive invariant                                                 *)

\* The places behind LockEvent, those before the result is known, and those
\* at which an update holds its row.
EventLocked == PCs \ {"idle", "lockEvent"}
Undecided == EventLocked \ {"lookup", "exit"}
Searching == {"exists", "lockRow", "waitRow"}
RowLocked == {"lockLogin", "findLogin", "write", "saveLookup", "insertEvent"}
Written == {"saveLookup", "insertEvent"}

\* The worker is going to commit.
Committing(w) == pc[w] = "exit" /\ commitRequested[w]

\* An update works on the committed row, which nobody else can change.
HoldsRow(w) ==
  LET id == Body(w).ref
  IN /\ id \in Ids /\ customers[id] # NONE
     /\ rowLock[id] = w
     /\ current[w] \in {customers[id], StaleJoin(customers[id])}

\* What is going to be committed is the effect of the event alone.
Drafted(w) ==
  /\ draft[w] # NONE
  /\ IsCreate(w) =>
       /\ draft[w].id \in Ids /\ draft[w].id < nextId
       /\ customers[draft[w].id] = NONE
       /\ draft[w].row = Body(w).row
  /\ ~IsCreate(w) =>
       /\ draft[w] = [id |-> Body(w).ref,
                      row |-> Patched(Body(w).patch, customers[Body(w).ref], customers[Body(w).ref])]
       /\ PatchStatus(Body(w).patch, customers[Body(w).ref]) = 200

\* What the worker relies on at each place: the event is its own and new, ...
ServesEvent(w) ==
  /\ pc[w] # "idle" => msg[w] \in Messages
  /\ pc[w] \in EventLocked => eventLock[Event(w)] = w
  /\ pc[w] \in Undecided \/ Committing(w) => events[Event(w)] = NONE

\* ... the customer may be written, ...
MayWrite(w) ==
  /\ pc[w] \in Searching => ~IsCreate(w) /\ Body(w).ref > 0
  /\ pc[w] \in RowLocked \/ Committing(w) =>
       IF IsCreate(w) THEN HasTaxIdentity(Body(w).row) ELSE HoldsRow(w)
  /\ pc[w] \in {"lockLogin", "findLogin"} => WantedLogin(w) # UNSET

\* ... there is a draft behind the write only, ...
HasDraft(w) ==
  IF pc[w] \in Written \/ Committing(w) THEN Drafted(w) ELSE draft[w] = NONE

\* ... and a commit is requested with the event's record, a success or a
\* refusal left without one.
Refused(w) ==
  /\ events[Event(w)] # NONE => events[Event(w)].body # Body(w)
  /\ outcome[w].status \in {400, 404, 409, 422} /\ outcome[w].ref = NONE
Repeats(w) ==
  /\ events[Event(w)] # NONE /\ events[Event(w)].body = Body(w)
  /\ outcome[w] = [status |-> 200, ref |-> events[Event(w)].ref]
HasOutcome(w) ==
  /\ commitRequested[w] => pc[w] = "exit"
  /\ Committing(w) => /\ entry[w] = [body |-> Body(w), ref |-> ResultRef(w)]
                      /\ outcome[w] = [status |-> 200, ref |-> ResultRef(w)]
  /\ ~Committing(w) => entry[w] = NONE
  /\ pc[w] = "exit" /\ ~commitRequested[w] => Repeats(w) \/ Refused(w)

WorkerInv(w) == ServesEvent(w) /\ MayWrite(w) /\ HasDraft(w) /\ HasOutcome(w)

\* Ids not handed out yet are unused, and no two workers write one customer.
IdsFresh == \A i \in Ids : i >= nextId => customers[i] = NONE
DraftsDistinct ==
  \A v, w \in Workers : v # w /\ draft[v] # NONE /\ draft[w] # NONE => draft[v].id # draft[w].id

IInv ==
  /\ TypeOK
  /\ \A w \in Workers : WorkerInv(w)
  /\ IdsFresh
  /\ DraftsDistinct

-----------------------------------------------------------------------------
(* Facts the steps share                                                   *)

\* NONE is nothing else.
LEMMA NoneFacts ==
  /\ NONE \notin Customer /\ NONE \notin Record /\ NONE \notin Messages
  /\ NONE \notin Workers /\ NONE \notin Ids /\ NONE \notin Draft
  /\ MaxId \in Nat /\ Ids \subseteq Nat /\ Ids \subseteq 1..MaxId
BY CustomerSyncAssumption DEF CustomerSyncAssumption, Ids

\* The type of a message.
LEMMA MessageFacts ==
  ASSUME NEW m \in Messages
  PROVE  /\ m.event \in EventIds
         /\ m.body \in Bodies
         /\ m.body.kind = "create" => m.body.row \in Customer /\ AddressWhole(m.body.row)
         /\ m.body.kind # "create" =>
              m.body.kind = "update" /\ m.body.ref \in Int /\ m.body.patch \in Patch
BY CustomerSyncAssumption
DEF CustomerSyncAssumption, EventIds, Bodies, CreateBody, UpdateBody

\* The event a worker serves.
LEMMA ServedFacts ==
  ASSUME NEW w \in Workers, TypeOK, WorkerInv(w), pc[w] # "idle"
  PROVE  /\ msg[w] \in Messages
         /\ Event(w) \in EventIds
         /\ Body(w) \in Bodies
         /\ IsCreate(w) => Body(w).row \in Customer
         /\ ~IsCreate(w) => Body(w).kind = "update" /\ Body(w).ref \in Int /\ Body(w).patch \in Patch
         /\ WantedLogin(w) # UNSET => WantedLogin(w) \in Logins /\ LoginKey(w) \in Logins
<1>1. msg[w] \in Messages
  BY DEF WorkerInv, ServesEvent
<1>2. /\ Event(w) \in EventIds
      /\ Body(w) \in Bodies
      /\ IsCreate(w) => Body(w).row \in Customer
      /\ ~IsCreate(w) => Body(w).kind = "update" /\ Body(w).ref \in Int /\ Body(w).patch \in Patch
  BY <1>1, MessageFacts DEF Event, Body, IsCreate
<1>3. WantedLogin(w) # UNSET => WantedLogin(w) \in Logins /\ LoginKey(w) \in Logins
  BY <1>2, DataFacts DEF WantedLogin, LoginKey, Customer, Patch
<1>4. QED
  BY <1>1, <1>2, <1>3

\* A worker keeps what it relies on when others leave alone its own variables,
\* its event, its row and the customer it writes.
LEMMA OtherWorker ==
  ASSUME NEW v \in Workers, TypeOK, WorkerInv(v),
         pc'[v] = pc[v], msg'[v] = msg[v], current'[v] = current[v], draft'[v] = draft[v],
         entry'[v] = entry[v], outcome'[v] = outcome[v], commitRequested'[v] = commitRequested[v],
         pc[v] \in EventLocked =>
           eventLock'[Event(v)] = v /\ events'[Event(v)] = events[Event(v)],
         nextId' \in Nat, nextId <= nextId',
         \A i \in Ids : rowLock[i] = v /\ customers[i] # NONE =>
           rowLock'[i] = v /\ customers'[i] = customers[i],
         draft[v] # NONE => customers'[draft[v].id] = customers[draft[v].id]
  PROVE  WorkerInv(v)'
<1>1. /\ Event(v)' = Event(v) /\ Body(v)' = Body(v) /\ (IsCreate(v))' = IsCreate(v)
      /\ ResultRef(v)' = ResultRef(v)
      /\ (Committing(v))' = Committing(v) /\ (WantedLogin(v))' = WantedLogin(v)
  BY DEF Event, Body, IsCreate, ResultRef, Committing, WantedLogin
<1>2. pc[v] \in RowLocked \/ Committing(v) \/ pc[v] \in Undecided => pc[v] \in EventLocked
  BY DEF RowLocked, Committing, Undecided, EventLocked, PCs
<1>3. HoldsRow(v) => HoldsRow(v)'
  BY <1>1 DEF HoldsRow
<1>4. Drafted(v) /\ (~IsCreate(v) => HoldsRow(v)) => Drafted(v)'
  <2>1. nextId \in Int /\ (\A i \in Ids : i \in Int)
    BY NoneFacts DEF TypeOK
  <2>2. CASE IsCreate(v)
    BY <1>1, <2>1, <2>2 DEF Drafted
  <2>3. CASE ~IsCreate(v)
    BY <1>1, <2>3 DEF Drafted, HoldsRow
  <2>4. QED
    BY <2>2, <2>3
<1>5. pc[v] \in Written => pc[v] \in RowLocked
  BY DEF Written, RowLocked
<1>6. ServesEvent(v)'
  BY <1>1, <1>2 DEF WorkerInv, ServesEvent
<1>7. MayWrite(v)'
  BY <1>1, <1>3 DEF WorkerInv, MayWrite
<1>8. HasDraft(v)'
  BY <1>1, <1>4, <1>5 DEF WorkerInv, MayWrite, HasDraft
<1>9. HasOutcome(v)'
  BY <1>1, <1>2 DEF WorkerInv, HasOutcome, Repeats, Refused, EventLocked, PCs, Committing
<1>10. QED
  BY <1>6, <1>7, <1>8, <1>9 DEF WorkerInv

\* What the steps of worker w leave to the others: their own variables, and
\* the events, rows and customers that they hold.
OthersKept(w) ==
  /\ \A v \in Workers \ {w} :
       /\ pc'[v] = pc[v] /\ msg'[v] = msg[v] /\ current'[v] = current[v] /\ draft'[v] = draft[v]
       /\ entry'[v] = entry[v] /\ outcome'[v] = outcome[v]
       /\ commitRequested'[v] = commitRequested[v]
       /\ draft[v] # NONE => customers'[draft[v].id] = customers[draft[v].id]
  /\ \A e \in EventIds : eventLock[e] \notin {NONE, w} =>
       eventLock'[e] = eventLock[e] /\ events'[e] = events[e]
  /\ \A i \in Ids : rowLock[i] \notin {NONE, w} /\ customers[i] # NONE =>
       rowLock'[i] = rowLock[i] /\ customers'[i] = customers[i]
  /\ nextId' \in Nat /\ nextId <= nextId'

LEMMA OthersKeep ==
  ASSUME IInv, NEW w \in Workers, OthersKept(w), NEW v \in Workers \ {w}
  PROVE  WorkerInv(v)'
<1>1. TypeOK /\ WorkerInv(v) /\ v # NONE
  BY NoneFacts DEF IInv
<1>2. pc[v] \in EventLocked => Event(v) \in EventIds /\ eventLock[Event(v)] = v
  BY <1>1, ServedFacts DEF WorkerInv, ServesEvent, EventLocked
<1>3. pc[v] \in EventLocked =>
        eventLock'[Event(v)] = v /\ events'[Event(v)] = events[Event(v)]
  BY <1>1, <1>2 DEF OthersKept
<1>4. \A i \in Ids : rowLock[i] = v /\ customers[i] # NONE =>
        rowLock'[i] = v /\ customers'[i] = customers[i]
  BY <1>1 DEF OthersKept
<1>5. QED
  BY <1>1, <1>3, <1>4, OtherWorker DEF OthersKept

\* A step that writes no customer: what remains is the worker itself.
LEMMA OwnStep ==
  ASSUME IInv, NEW w \in Workers, OthersKept(w), TypeOK', WorkerInv(w)',
         customers' = customers, draft'[w] \in {NONE, draft[w]}
  PROVE  IInv'
<1>1. \A v \in Workers : WorkerInv(v)'
  BY OthersKeep
<1>2. IdsFresh'
  <2>1. nextId \in Int /\ nextId' \in Int /\ (\A i \in Ids : i \in Int) /\ nextId <= nextId'
    BY NoneFacts DEF IInv, TypeOK, OthersKept
  <2>2. QED
    BY <2>1 DEF IInv, IdsFresh
<1>3. \A v \in Workers : draft'[v] \in {NONE, draft[v]}
  BY DEF OthersKept
<1>4. DraftsDistinct'
  BY <1>3 DEF IInv, DraftsDistinct
<1>5. QED
  BY <1>1, <1>2, <1>4 DEF IInv

\* The event a worker serves stays the same until the end of its transaction.
LEMMA SameMessage ==
  ASSUME NEW w, msg' = msg
  PROVE  /\ Event(w)' = Event(w) /\ Body(w)' = Body(w) /\ (IsCreate(w))' = IsCreate(w)
         /\ (WantedLogin(w))' = WantedLogin(w)
BY DEF Event, Body, IsCreate, WantedLogin

-----------------------------------------------------------------------------
(* Each step preserves the invariant                                       *)

LEMMA InitInv == Init => IInv
<1> SUFFICES ASSUME Init PROVE IInv
  OBVIOUS
<1>1. TypeOK
  <2>1. FirstId \in 1..(MaxId + 1) /\ InitialCustomers \in [Ids -> Customer \cup {NONE}]
    BY CustomerSyncAssumption DEF CustomerSyncAssumption
  <2>2. QED
    BY <2>1 DEF Init, TypeOK, PCs
<1>2. ASSUME NEW w \in Workers PROVE WorkerInv(w)
  BY DEF Init, WorkerInv, ServesEvent, MayWrite, HasDraft, HasOutcome, EventLocked, Undecided,
         Searching, RowLocked, Written, Committing
<1>3. IdsFresh
  BY CustomerSyncAssumption DEF CustomerSyncAssumption, Init, IdsFresh
<1>4. DraftsDistinct
  BY DEF Init, DraftsDistinct
<1>5. QED
  BY <1>1, <1>2, <1>3, <1>4 DEF IInv

LEMMA DeliverInv ==
  ASSUME IInv, NEW w \in Workers, NEW m \in Messages, Deliver(w, m)
  PROVE  IInv'
<1>1. TypeOK'
  BY DEF IInv, TypeOK, Deliver, Goto, PCs, database, locks, transaction
<1>2. OthersKept(w)
  BY NoneFacts DEF IInv, TypeOK, OthersKept, Deliver, Goto, database, locks, transaction
<1>3. pc[w] = "idle" /\ pc'[w] = "lockEvent" /\ msg'[w] = m
  BY DEF IInv, TypeOK, Deliver, Goto
<1>4. draft[w] = NONE /\ entry[w] = NONE /\ ~commitRequested[w]
  BY <1>3 DEF IInv, WorkerInv, HasDraft, HasOutcome, Committing, Written
<1>5. WorkerInv(w)'
  BY <1>3, <1>4 DEF Deliver, transaction, WorkerInv, ServesEvent, MayWrite, HasDraft, HasOutcome,
         EventLocked, Undecided, Searching, RowLocked, Written, Committing
<1>6. QED
  BY <1>1, <1>2, <1>5, OwnStep DEF Deliver, database, transaction

LEMMA LockEventInv ==
  ASSUME IInv, NEW w \in Workers, LockEvent(w)
  PROVE  IInv'
<1>1. /\ TypeOK /\ WorkerInv(w) /\ pc[w] = "lockEvent"
      /\ Event(w) \in EventIds /\ msg[w] \in Messages
  BY ServedFacts DEF IInv, LockEvent
<1>2. TypeOK'
  BY <1>1 DEF TypeOK, LockEvent, Goto, PCs, database, transaction
<1>3. OthersKept(w)
  BY <1>1, NoneFacts DEF TypeOK, OthersKept, LockEvent, Waits, Free, Goto, database, transaction
<1>4. pc'[w] = "lookup" /\ eventLock'[Event(w)] = w
  BY <1>1 DEF TypeOK, LockEvent, Goto
<1>5. WorkerInv(w)'
  BY <1>1, <1>4, SameMessage DEF LockEvent, transaction, WorkerInv, ServesEvent, MayWrite, HasDraft,
         HasOutcome, EventLocked, Undecided, Searching, RowLocked, Written, Committing
<1>6. QED
  BY <1>2, <1>3, <1>5, OwnStep DEF LockEvent, database, transaction

\* A refusal leaves a worker that has neither a draft nor a commit request.
LEMMA RefusalInv ==
  ASSUME IInv, NEW w \in Workers, NEW s \in {400, 404, 409, 422}, Raise(w, s),
         msg' = msg, draft' = draft, entry' = entry, commitRequested' = commitRequested,
         events' = events, ServesEvent(w)', draft[w] = NONE,
         pc[w] \in Undecided \cup {"lookup"},
         events[Event(w)] # NONE => events[Event(w)].body # Body(w)
  PROVE  WorkerInv(w)'
<1>1. TypeOK /\ WorkerInv(w) /\ ~commitRequested[w] /\ pc[w] # "exit"
  BY DEF IInv, WorkerInv, HasOutcome, Undecided, EventLocked
<1>2. /\ pc'[w] = "exit" /\ ~commitRequested'[w]
      /\ outcome'[w] = [status |-> s, ref |-> NONE]
  BY <1>1 DEF TypeOK, Raise, Leave, Goto
<1>3. ~Committing(w) /\ ~Committing(w)'
  BY <1>1, <1>2 DEF Committing
<1>4. MayWrite(w)'
  BY <1>2, <1>3 DEF MayWrite, Searching, RowLocked
<1>5. HasDraft(w)'
  BY <1>2, <1>3 DEF HasDraft, Written
<1>6. HasOutcome(w)'
  BY <1>1, <1>2, <1>3, SameMessage DEF WorkerInv, HasOutcome, Refused
<1>7. QED
  BY <1>4, <1>5, <1>6 DEF WorkerInv

LEMMA LookupInv ==
  ASSUME IInv, NEW w \in Workers, Lookup(w)
  PROVE  IInv'
<1>1. /\ TypeOK /\ WorkerInv(w) /\ pc[w] = "lookup"
      /\ Event(w) \in EventIds /\ msg[w] \in Messages
      /\ events[Event(w)] \in Record \cup {NONE}
  BY ServedFacts DEF IInv, Lookup, TypeOK
<1>2. /\ outcome' \in [Workers -> Outcome \cup {NONE}]
      /\ pc' \in [Workers -> PCs]
      /\ \A v \in Workers \ {w} : pc'[v] = pc[v] /\ outcome'[v] = outcome[v]
  BY <1>1 DEF TypeOK, Lookup, Leave, Raise, Goto, PCs, Outcome, Statuses, Record
<1>3. TypeOK'
  BY <1>1, <1>2 DEF TypeOK, Lookup, database, locks
<1>4. OthersKept(w)
  BY <1>2, <1>1, NoneFacts DEF TypeOK, OthersKept, Lookup, database, locks
<1>5. draft[w] = NONE /\ entry[w] = NONE /\ ~commitRequested[w] /\ eventLock[Event(w)] = w
  BY <1>1 DEF WorkerInv, ServesEvent, HasDraft, HasOutcome, Committing, Written, EventLocked, PCs
<1>6. WorkerInv(w)'
  <2>1. ServesEvent(w)'
    <3>1. pc'[w] \in Undecided => events[Event(w)] = NONE
      BY <1>1 DEF TypeOK, Lookup, Leave, Raise, Goto, Undecided
    <3>2. QED
      BY <1>1, <1>5, <3>1, SameMessage
      DEF Lookup, ServesEvent, Committing, database, locks
  <2>2. ASSUME NEW s \in {400, 404, 409, 422}, Raise(w, s),
               events[Event(w)] # NONE => events[Event(w)].body # Body(w)
        PROVE  WorkerInv(w)'
    BY <1>1, <1>5, <2>1, <2>2, RefusalInv DEF Lookup, database, locks
  <2>3. CASE events[Event(w)] # NONE /\ Matches(w) /\ Leave(w, 200, events[Event(w)].ref)
    <3>1. pc'[w] = "exit" /\ outcome'[w] = [status |-> 200, ref |-> events[Event(w)].ref]
      BY <1>1, <2>3 DEF TypeOK, Leave, Goto
    <3>2. QED
      BY <1>1, <1>5, <2>1, <2>3, <3>1, SameMessage
      DEF Lookup, database, WorkerInv, MayWrite, HasDraft, HasOutcome, Repeats, Matches,
          Searching, RowLocked, Written, Committing
  <2>4. CASE IsCreate(w) /\ HasTaxIdentity(Body(w).row) /\ Goto(w, "lockLogin")
    <3>1. pc'[w] = "lockLogin"
      BY <1>1, <2>4 DEF TypeOK, Goto
    <3>2. WantedLogin(w) # UNSET
      BY <1>1, <2>4, ServedFacts, DataFacts DEF WantedLogin, Customer
    <3>3. QED
      BY <1>1, <1>5, <2>1, <2>4, <3>1, <3>2, SameMessage
      DEF Lookup, WorkerInv, MayWrite, HasDraft, HasOutcome, Searching, RowLocked, Written, Committing
  <2>5. CASE ~IsCreate(w) /\ Body(w).ref > 0 /\ Goto(w, "exists")
    <3>1. pc'[w] = "exists"
      BY <1>1, <2>5 DEF TypeOK, Goto
    <3>2. QED
      BY <1>1, <1>5, <2>1, <2>5, <3>1, SameMessage
      DEF Lookup, WorkerInv, MayWrite, HasDraft, HasOutcome, Searching, RowLocked, Written, Committing
  <2>6. QED
    BY <2>2, <2>3, <2>4, <2>5 DEF Lookup, Matches
<1>7. QED
  BY <1>3, <1>4, <1>6, OwnStep DEF Lookup, database

LEMMA CustomerExistsInv ==
  ASSUME IInv, NEW w \in Workers, CustomerExists(w)
  PROVE  IInv'
<1>1. /\ TypeOK /\ WorkerInv(w) /\ pc[w] = "exists"
      /\ Event(w) \in EventIds /\ msg[w] \in Messages
  BY ServedFacts DEF IInv, CustomerExists
<1>2. /\ outcome' \in [Workers -> Outcome \cup {NONE}]
      /\ pc' \in [Workers -> PCs]
      /\ \A v \in Workers \ {w} : pc'[v] = pc[v] /\ outcome'[v] = outcome[v]
  BY <1>1 DEF TypeOK, CustomerExists, Leave, Raise, Goto, PCs, Outcome, Statuses
<1>3. TypeOK'
  BY <1>1, <1>2 DEF TypeOK, CustomerExists, database, locks
<1>4. OthersKept(w)
  BY <1>2, <1>1, NoneFacts DEF TypeOK, OthersKept, CustomerExists, database, locks
<1>5. /\ draft[w] = NONE /\ entry[w] = NONE /\ ~commitRequested[w] /\ eventLock[Event(w)] = w
      /\ events[Event(w)] = NONE /\ ~IsCreate(w) /\ Body(w).ref > 0
  BY <1>1 DEF WorkerInv, ServesEvent, MayWrite, HasDraft, HasOutcome, Committing, Written,
         Undecided, EventLocked, PCs, Searching
<1>6. ServesEvent(w)'
  BY <1>1, <1>5, SameMessage DEF CustomerExists, ServesEvent, Committing, database, locks
<1>7. WorkerInv(w)'
  <2>1. CASE Raise(w, 404)
    BY <1>1, <1>5, <1>6, <2>1, RefusalInv
    DEF CustomerExists, database, locks, Undecided, EventLocked, PCs
  <2>2. CASE Goto(w, "lockRow")
    <3>1. pc'[w] = "lockRow"
      BY <1>1, <2>2 DEF TypeOK, Goto
    <3>2. QED
      BY <1>5, <1>6, <3>1, SameMessage DEF CustomerExists, WorkerInv, MayWrite, HasDraft, HasOutcome,
         Searching, RowLocked, Written, Committing
  <2>3. QED
    BY <2>1, <2>2 DEF CustomerExists
<1>8. QED
  BY <1>3, <1>4, <1>7, OwnStep DEF CustomerExists, database

\* What a worker that looks for its row has.
LEMMA SearchingFacts ==
  ASSUME IInv, NEW w \in Workers, pc[w] \in Searching
  PROVE  /\ TypeOK /\ WorkerInv(w)
         /\ Event(w) \in EventIds /\ msg[w] \in Messages
         /\ draft[w] = NONE /\ entry[w] = NONE /\ ~commitRequested[w]
         /\ eventLock[Event(w)] = w /\ events[Event(w)] = NONE
         /\ ~IsCreate(w) /\ Body(w).ref > 0 /\ Body(w).patch \in Patch
<1>1. TypeOK /\ WorkerInv(w) /\ pc[w] # "idle"
  BY DEF IInv, Searching
<1>2. QED
  BY <1>1, ServedFacts DEF WorkerInv, ServesEvent, MayWrite, HasDraft, HasOutcome,
     Committing, Written, Undecided, EventLocked, PCs, Searching

\* The row is locked and read.
LEMMA RowReadInv ==
  ASSUME IInv, NEW w \in Workers, pc[w] \in Searching,
         Exists(Body(w).ref), Free(rowLock[Body(w).ref], w),
         NEW row \in {customers[Body(w).ref], StaleJoin(customers[Body(w).ref])},
         RowRead(w, row), seen' \in [Workers -> EnabledRegions \cup {NULL, NONE}],
         UNCHANGED <<database, eventLock, loginLock, msg, draft, entry, commitRequested, answers>>
  PROVE  IInv'
<1> DEFINE id == Body(w).ref
<1>1. /\ TypeOK /\ WorkerInv(w)
      /\ Event(w) \in EventIds /\ msg[w] \in Messages
      /\ draft[w] = NONE /\ entry[w] = NONE /\ ~commitRequested[w]
      /\ eventLock[Event(w)] = w /\ events[Event(w)] = NONE
      /\ ~IsCreate(w) /\ Body(w).ref > 0 /\ Body(w).patch \in Patch
  BY SearchingFacts
<1>2. id \in Ids /\ customers[id] \in Customer /\ row \in Customer
  BY <1>1, StaleJoinType DEF TypeOK, Exists
<1>3. /\ outcome' \in [Workers -> Outcome \cup {NONE}]
      /\ pc' \in [Workers -> PCs]
      /\ current' \in [Workers -> Customer \cup {NONE}]
      /\ rowLock' \in [Ids -> Workers \cup {NONE}]
      /\ \A v \in Workers \ {w} :
           pc'[v] = pc[v] /\ outcome'[v] = outcome[v] /\ current'[v] = current[v]
      /\ \A i \in Ids : rowLock[i] \notin {NONE, w} => rowLock'[i] = rowLock[i]
      /\ rowLock'[id] = w /\ current'[w] = row
  BY <1>1, <1>2
  DEF TypeOK, RowRead, RowFetched, Leave, Raise, Goto, PCs, Outcome, Statuses, Free
<1>4. TypeOK'
  BY <1>1, <1>3 DEF TypeOK, database
<1>5. OthersKept(w)
  <2>1. nextId' \in Nat /\ nextId <= nextId'
    BY <1>1, NoneFacts DEF TypeOK, database
  <2>2. QED
    BY <1>3, <2>1 DEF OthersKept, database
<1>6. ServesEvent(w)'
  BY <1>1, SameMessage DEF ServesEvent, Committing, database
<1>7. HoldsRow(w)'
  BY <1>2, <1>3, SameMessage DEF HoldsRow, Exists, database, StaleJoin
<1>8. WorkerInv(w)'
  <2>1. CASE Raise(w, 422)
    BY <1>1, <1>6, <2>1, RefusalInv DEF database, Searching, Undecided, EventLocked, PCs
  <2>2. CASE Goto(w, IF WantedLogin(w) = UNSET THEN "write" ELSE "lockLogin")
    <3>1. pc'[w] = IF WantedLogin(w) = UNSET THEN "write" ELSE "lockLogin"
      BY <1>1, <2>2 DEF TypeOK, Goto
    <3>2. QED
      BY <1>1, <1>6, <1>7, <3>1, SameMessage
      DEF WorkerInv, MayWrite, HasDraft, HasOutcome, Searching, Written, Committing
  <2>3. QED
    BY <2>1, <2>2 DEF RowRead, RowFetched
<1>9. QED
  BY <1>1, <1>4, <1>5, <1>8, OwnStep DEF database

\* The customer is gone.
LEMMA NotFoundInv ==
  ASSUME IInv, NEW w \in Workers, pc[w] \in Searching, Raise(w, 404),
         UNCHANGED <<database, locks, msg, seen, current, draft, entry, commitRequested, answers>>
  PROVE  IInv'
<1>1. /\ TypeOK /\ WorkerInv(w)
      /\ Event(w) \in EventIds /\ msg[w] \in Messages
      /\ draft[w] = NONE /\ ~commitRequested[w]
      /\ eventLock[Event(w)] = w /\ events[Event(w)] = NONE
  BY SearchingFacts
<1>2. /\ outcome' \in [Workers -> Outcome \cup {NONE}]
      /\ pc' \in [Workers -> PCs]
      /\ \A v \in Workers \ {w} : pc'[v] = pc[v] /\ outcome'[v] = outcome[v]
  BY <1>1 DEF TypeOK, Leave, Raise, Goto, PCs, Outcome, Statuses
<1>3. TypeOK'
  BY <1>1, <1>2 DEF TypeOK, database, locks
<1>4. OthersKept(w)
  BY <1>2, <1>1, NoneFacts DEF TypeOK, OthersKept, database, locks
<1>5. ServesEvent(w)'
  BY <1>1, SameMessage DEF ServesEvent, Committing, database, locks
<1>6. WorkerInv(w)'
  BY <1>1, <1>5, RefusalInv DEF database, Searching, Undecided, EventLocked, PCs
<1>7. QED
  BY <1>1, <1>3, <1>4, <1>6, OwnStep DEF database

LEMMA LockRowInv ==
  ASSUME IInv, NEW w \in Workers, LockRow(w)
  PROVE  IInv'
<1>1. pc[w] \in Searching
  BY DEF LockRow, Searching
<1>2. CASE ~Exists(Body(w).ref)
  BY <1>1, <1>2, NotFoundInv DEF LockRow, database, locks
<1>3. CASE Exists(Body(w).ref) /\ Free(rowLock[Body(w).ref], w)
  <2>1. seen' \in [Workers -> EnabledRegions \cup {NULL, NONE}]
    BY <1>3 DEF LockRow, IInv, TypeOK
  <2>2. QED
    BY <1>1, <1>3, <2>1, RowReadInv DEF LockRow
<1>4. CASE Exists(Body(w).ref) /\ ~Free(rowLock[Body(w).ref], w)
  <2>1. /\ TypeOK /\ WorkerInv(w)
        /\ Event(w) \in EventIds /\ msg[w] \in Messages
        /\ draft[w] = NONE /\ entry[w] = NONE /\ ~commitRequested[w]
        /\ eventLock[Event(w)] = w /\ events[Event(w)] = NONE
        /\ ~IsCreate(w) /\ Body(w).ref > 0
    BY <1>1, SearchingFacts
  <2>2. seen' \in [Workers -> EnabledRegions \cup {NULL, NONE}]
    BY <1>4, <2>1 DEF LockRow, TypeOK, Exists, Customer
  <2>3. TypeOK'
    BY <1>4, <2>1, <2>2 DEF LockRow, TypeOK, database, Goto, PCs
  <2>4. OthersKept(w)
    BY <1>4, <2>1, NoneFacts DEF LockRow, TypeOK, OthersKept, database, Goto
  <2>5. pc'[w] = "waitRow"
    BY <1>4, <2>1 DEF LockRow, TypeOK, Goto
  <2>6. WorkerInv(w)'
    BY <1>4, <2>1, <2>5, SameMessage DEF LockRow, WorkerInv, ServesEvent, MayWrite, HasDraft,
       HasOutcome, Searching, RowLocked, Written, Committing, database
  <2>7. QED
    BY <1>4, <2>1, <2>3, <2>4, <2>6, OwnStep DEF LockRow, database
<1>5. QED
  BY <1>2, <1>3, <1>4

LEMMA RereadRowInv ==
  ASSUME IInv, NEW w \in Workers, RereadRow(w)
  PROVE  IInv'
<1> DEFINE id == Body(w).ref
           row == customers[id]
           joined == [row EXCEPT !.region = IF @ = seen[w] THEN @ ELSE NULL]
<1>1. pc[w] \in Searching
  BY DEF RereadRow, Searching
<1>2. CASE ~Exists(id)
  BY <1>1, <1>2, NotFoundInv DEF RereadRow, database, locks
<1>3. CASE Exists(id)
  <2>1. TypeOK
    BY DEF IInv
  <2>2. row \in Customer
    BY <1>3, <2>1 DEF TypeOK, Exists
  <2>3. joined \in {row, StaleJoin(row)}
    BY <2>2 DEF StaleJoin, Customer
  <2>4. RowRead(w, joined) /\ Free(rowLock[id], w) /\ seen' \in [Workers -> EnabledRegions \cup {NULL, NONE}]
    BY <1>3, <2>1 DEF RereadRow, Waits, Free, TypeOK
  <2>5. QED
    BY <1>1, <1>3, <2>3, <2>4, RowReadInv DEF RereadRow
<1>4. QED
  BY <1>2, <1>3

\* What a worker has that may write its customer.
LEMMA WritingFacts ==
  ASSUME IInv, NEW w \in Workers, pc[w] \in RowLocked
  PROVE  /\ TypeOK /\ WorkerInv(w)
         /\ Event(w) \in EventIds /\ msg[w] \in Messages /\ Body(w) \in Bodies
         /\ entry[w] = NONE /\ ~commitRequested[w]
         /\ eventLock[Event(w)] = w /\ events[Event(w)] = NONE
         /\ IsCreate(w) => Body(w).row \in Customer /\ HasTaxIdentity(Body(w).row)
         /\ ~IsCreate(w) => HoldsRow(w) /\ Body(w).patch \in Patch
         /\ pc[w] \notin Written => draft[w] = NONE
         /\ pc[w] \in {"lockLogin", "findLogin"} => WantedLogin(w) # UNSET
<1>1. TypeOK /\ WorkerInv(w) /\ pc[w] # "idle"
  BY DEF IInv, RowLocked
<1>2. QED
  BY <1>1, ServedFacts DEF WorkerInv, ServesEvent, MayWrite, HasDraft, HasOutcome,
     Committing, Undecided, EventLocked, PCs, RowLocked

LEMMA LockLoginInv ==
  ASSUME IInv, NEW w \in Workers, LockLogin(w)
  PROVE  IInv'
<1>1. pc[w] = "lockLogin" /\ pc[w] \in RowLocked /\ pc[w] \notin Written
  BY DEF LockLogin, RowLocked, Written
<1>2. /\ TypeOK /\ WorkerInv(w)
      /\ Event(w) \in EventIds /\ msg[w] \in Messages
      /\ entry[w] = NONE /\ ~commitRequested[w]
      /\ eventLock[Event(w)] = w /\ events[Event(w)] = NONE
      /\ IsCreate(w) => HasTaxIdentity(Body(w).row)
      /\ ~IsCreate(w) => HoldsRow(w)
      /\ draft[w] = NONE /\ WantedLogin(w) # UNSET
  BY <1>1, WritingFacts
<1>3. LoginKey(w) \in Logins
  BY <1>1, <1>2, ServedFacts
<1>4. TypeOK'
  BY <1>2, <1>3 DEF TypeOK, LockLogin, Goto, PCs, database, transaction
<1>5. OthersKept(w)
  BY <1>2, NoneFacts DEF TypeOK, OthersKept, LockLogin, Waits, Free, Goto, database, transaction
<1>6. pc'[w] = "findLogin"
  BY <1>2 DEF TypeOK, LockLogin, Goto
<1>7. HoldsRow(w) => HoldsRow(w)'
  BY SameMessage DEF LockLogin, HoldsRow, database, transaction
<1>8. WorkerInv(w)'
  BY <1>2, <1>6, <1>7, SameMessage DEF LockLogin, WorkerInv, ServesEvent, MayWrite, HasDraft,
     HasOutcome, Searching, Written, Committing, database, transaction
<1>9. QED
  BY <1>2, <1>4, <1>5, <1>8, OwnStep DEF LockLogin, database, transaction

LEMMA FindLoginInv ==
  ASSUME IInv, NEW w \in Workers, FindLogin(w)
  PROVE  IInv'
<1>1. pc[w] = "findLogin" /\ pc[w] \in RowLocked /\ pc[w] \notin Written
  BY DEF FindLogin, RowLocked, Written
<1>2. /\ TypeOK /\ WorkerInv(w)
      /\ Event(w) \in EventIds /\ msg[w] \in Messages
      /\ entry[w] = NONE /\ ~commitRequested[w]
      /\ eventLock[Event(w)] = w /\ events[Event(w)] = NONE
      /\ IsCreate(w) => HasTaxIdentity(Body(w).row)
      /\ ~IsCreate(w) => HoldsRow(w)
      /\ draft[w] = NONE
  BY <1>1, WritingFacts
<1>3. Raise(w, 409) \/ (Goto(w, "write") /\ outcome' = outcome)
  BY DEF FindLogin
<1>4. /\ outcome' \in [Workers -> Outcome \cup {NONE}]
      /\ pc' \in [Workers -> PCs]
      /\ \A v \in Workers \ {w} : pc'[v] = pc[v] /\ outcome'[v] = outcome[v]
  <2>1. CASE Raise(w, 409)
    BY <1>2, <2>1 DEF TypeOK, Leave, Raise, Goto, PCs, Outcome, Statuses
  <2>2. CASE Goto(w, "write") /\ outcome' = outcome
    BY <1>2, <2>2 DEF TypeOK, Goto, PCs
  <2>3. QED
    BY <1>3, <2>1, <2>2
<1>5. TypeOK'
  BY <1>2, <1>4 DEF TypeOK, FindLogin, database, locks
<1>6. OthersKept(w)
  BY <1>2, <1>4, NoneFacts DEF TypeOK, OthersKept, FindLogin, database, locks
<1>7. ServesEvent(w)'
  BY <1>2, SameMessage DEF FindLogin, ServesEvent, Committing, database, locks
<1>8. WorkerInv(w)'
  <2>1. CASE Raise(w, 409)
    BY <1>1, <1>2, <1>7, <2>1, RefusalInv DEF FindLogin, database, locks, Undecided, EventLocked, PCs
  <2>2. CASE Goto(w, "write")
    <3>1. pc'[w] = "write"
      BY <1>2, <2>2 DEF TypeOK, Goto
    <3>2. HoldsRow(w) => HoldsRow(w)'
      BY SameMessage DEF FindLogin, HoldsRow, database, locks
    <3>3. QED
      BY <1>2, <1>7, <3>1, <3>2, SameMessage DEF FindLogin, WorkerInv, MayWrite, HasDraft,
         HasOutcome, Searching, Written, Committing
  <2>3. QED
    BY <1>3, <2>1, <2>2
<1>9. QED
  BY <1>5, <1>6, <1>8, OwnStep DEF FindLogin, database

\* A draft comes into being: no other worker writes the same customer, since
\* the id is fresh or the row is held.
LEMMA DraftInv ==
  ASSUME IInv, NEW w \in Workers, pc[w] = "write", TypeOK', OthersKept(w),
         pc'[w] = "saveLookup", Drafted(w)', IsCreate(w) => draft'[w].id = nextId,
         nextId' >= nextId,
         UNCHANGED <<customers, events, locks, msg, current, entry, commitRequested>>
  PROVE  IInv'
<1>1. /\ TypeOK /\ WorkerInv(w)
      /\ entry[w] = NONE /\ ~commitRequested[w]
      /\ eventLock[Event(w)] = w /\ events[Event(w)] = NONE
      /\ IsCreate(w) => HasTaxIdentity(Body(w).row)
      /\ ~IsCreate(w) => HoldsRow(w)
      /\ msg[w] \in Messages
  BY WritingFacts DEF RowLocked
<1>2. HoldsRow(w) => HoldsRow(w)'
  BY SameMessage DEF HoldsRow, locks
<1>3. WorkerInv(w)'
  BY <1>1, <1>2, SameMessage DEF WorkerInv, ServesEvent, MayWrite, HasDraft, HasOutcome,
     Searching, RowLocked, Written, Committing, locks
<1>4. \A v \in Workers : WorkerInv(v)'
  BY <1>3, OthersKeep
<1>5. nextId \in Int /\ nextId' \in Int /\ \A i \in Ids : i \in Int
  BY <1>1, NoneFacts DEF TypeOK
<1>6. IdsFresh'
  BY <1>5 DEF IInv, IdsFresh
<1>7. ASSUME NEW v \in Workers \ {w}, draft[v] # NONE
      PROVE  draft[v].id # draft'[w].id
  <2>1. Drafted(v) /\ (~IsCreate(v) => HoldsRow(v))
    BY <1>7 DEF IInv, WorkerInv, MayWrite, HasDraft, Written, RowLocked
  <2>2. CASE IsCreate(w)
    <3>1. draft'[w].id = nextId /\ (\A i \in Ids : i >= nextId => customers[i] = NONE)
      BY <2>2 DEF IInv, IdsFresh
    <3>2. draft[v].id \in Ids /\ (draft[v].id < nextId \/ customers[draft[v].id] # NONE)
      BY <2>1 DEF Drafted, HoldsRow
    <3>3. QED
      BY <1>5, <3>1, <3>2
  <2>3. CASE ~IsCreate(w)
    <3>1. HoldsRow(w) /\ draft'[w].id = Body(w).ref
      BY <1>1, <2>3, SameMessage DEF Drafted
    <3>2. CASE IsCreate(v)
      BY <2>1, <3>1, <3>2 DEF Drafted, HoldsRow
    <3>3. CASE ~IsCreate(v)
      BY <1>7, <2>1, <3>1, <3>3 DEF Drafted, HoldsRow
    <3>4. QED
      BY <3>2, <3>3
  <2>4. QED
    BY <2>2, <2>3
<1>8. DraftsDistinct'
  <2>1. \A v \in Workers \ {w} : draft'[v] = draft[v]
    BY DEF OthersKept
  <2>2. QED
    BY <1>7, <2>1 DEF IInv, DraftsDistinct
<1>9. QED
  BY <1>4, <1>6, <1>8 DEF IInv

LEMMA WriteCreatedInv ==
  ASSUME IInv, NEW w \in Workers, WriteCreated(w)
  PROVE  IInv'
<1> DEFINE body == Body(w)
<1>1. /\ pc[w] = "write" /\ pc[w] \in RowLocked /\ pc[w] \notin Written
      /\ IsCreate(w)
  BY DEF WriteCreated, RowLocked, Written
<1>2. /\ TypeOK /\ WorkerInv(w)
      /\ Event(w) \in EventIds /\ msg[w] \in Messages
      /\ ~commitRequested[w]
      /\ eventLock[Event(w)] = w /\ events[Event(w)] = NONE
      /\ draft[w] = NONE
      /\ body.row \in Customer
  BY <1>1, WritingFacts
<1>3. nextId \in Nat /\ MaxId \in Nat /\ nextId >= 1
  BY <1>2, NoneFacts DEF TypeOK
<1>4. CASE \E s \in {409, 422} : Raise(w, s) /\ draft' = draft
  <2>1. PICK s \in {409, 422} : Raise(w, s) /\ draft' = draft
    BY <1>4
  <2>2. nextId' \in 1..(MaxId + 1) /\ nextId <= nextId'
    BY <1>2, <1>3 DEF WriteCreated, TypeOK
  <2>3. /\ outcome' \in [Workers -> Outcome \cup {NONE}]
        /\ pc' \in [Workers -> PCs]
        /\ \A v \in Workers \ {w} : pc'[v] = pc[v] /\ outcome'[v] = outcome[v]
    BY <1>2, <2>1 DEF TypeOK, Leave, Raise, Goto, PCs, Outcome, Statuses
  <2>4. TypeOK'
    BY <1>2, <2>1, <2>2, <2>3 DEF TypeOK, WriteCreated, locks
  <2>5. OthersKept(w)
    BY <1>2, <1>3, <2>1, <2>2, <2>3, NoneFacts DEF TypeOK, OthersKept, WriteCreated, locks
  <2>6. ServesEvent(w)'
    BY <1>2, SameMessage DEF WriteCreated, ServesEvent, Committing, locks
  <2>7. WorkerInv(w)'
    BY <1>1, <1>2, <2>1, <2>6, RefusalInv DEF WriteCreated, locks, Undecided, EventLocked, PCs
  <2>8. QED
    BY <2>1, <2>4, <2>5, <2>7, OwnStep DEF WriteCreated
<1>5. CASE /\ nextId <= MaxId /\ nextId' = nextId + 1
           /\ draft' = [draft EXCEPT ![w] = [id |-> nextId, row |-> body.row]]
           /\ Goto(w, "saveLookup") /\ UNCHANGED outcome
  <2>1. nextId \in Ids /\ nextId' \in 1..(MaxId + 1)
    BY <1>3, <1>5 DEF Ids
  <2>2. /\ draft' \in [Workers -> Draft \cup {NONE}]
        /\ draft'[w] = [id |-> nextId, row |-> body.row]
        /\ pc' \in [Workers -> PCs] /\ pc'[w] = "saveLookup"
        /\ \A v \in Workers \ {w} : pc'[v] = pc[v] /\ draft'[v] = draft[v]
    BY <1>2, <1>5, <2>1 DEF TypeOK, Draft, Goto, PCs
  <2>3. TypeOK'
    BY <1>2, <1>5, <2>1, <2>2 DEF TypeOK, WriteCreated, locks
  <2>4. OthersKept(w)
    BY <1>2, <1>3, <1>5, <2>2, NoneFacts DEF TypeOK, OthersKept, WriteCreated, locks
  <2>5. customers[nextId] = NONE
    BY <1>3, <2>1 DEF IInv, IdsFresh
  <2>6. draft'[w] # NONE
    BY <1>2, <2>1, <2>2, NoneFacts DEF Draft
  <2>7. Drafted(w)'
    BY <1>1, <1>3, <1>5, <2>1, <2>2, <2>5, <2>6, SameMessage DEF Drafted, WriteCreated
  <2>8. QED
    BY <1>1, <1>3, <1>5, <2>2, <2>3, <2>4, <2>7, DraftInv DEF WriteCreated
<1>6. QED
  BY <1>4, <1>5 DEF WriteCreated

\* The row that was read and the committed row agree on what an accepted
\* patch does.
LEMMA PatchOnCommitted ==
  ASSUME IInv, NEW w \in Workers, ~IsCreate(w), HoldsRow(w), Body(w).patch \in Patch,
         PatchStatus(Body(w).patch, current[w]) = 200
  PROVE  LET stored == customers[Body(w).ref]
         IN /\ PatchStatus(Body(w).patch, stored) = 200
            /\ Patched(Body(w).patch, current[w], stored) = Patched(Body(w).patch, stored, stored)
            /\ Patched(Body(w).patch, stored, stored) \in Customer
<1> DEFINE stored == customers[Body(w).ref]
<1>1. stored \in Customer
  BY DEF IInv, TypeOK, HoldsRow
<1>2. current[w] \in {stored, StaleJoin(stored)}
  BY DEF HoldsRow
<1>3. /\ PatchStatus(Body(w).patch, stored) = 200
      /\ Patched(Body(w).patch, current[w], stored) = Patched(Body(w).patch, stored, stored)
  BY <1>1, <1>2, StaleJoinHarmless
<1>4. ~RegionUnknown(Body(w).patch.address, stored)
  BY <1>3 DEF PatchStatus
<1>5. QED
  BY <1>1, <1>3, <1>4, PatchedType

LEMMA WriteUpdatedInv ==
  ASSUME IInv, NEW w \in Workers, WriteUpdated(w)
  PROVE  IInv'
<1> DEFINE id == Body(w).ref
           patch == Body(w).patch
           row == Patched(patch, current[w], customers[id])
           status == PatchStatus(patch, current[w])
<1>1. /\ pc[w] = "write" /\ pc[w] \in RowLocked /\ pc[w] \notin Written
      /\ ~IsCreate(w)
  BY DEF WriteUpdated, RowLocked, Written
<1>2. /\ TypeOK /\ WorkerInv(w)
      /\ Event(w) \in EventIds /\ msg[w] \in Messages
      /\ ~commitRequested[w]
      /\ eventLock[Event(w)] = w /\ events[Event(w)] = NONE
      /\ draft[w] = NONE
      /\ HoldsRow(w) /\ patch \in Patch
  BY <1>1, WritingFacts
<1>3. nextId \in Nat
  BY <1>2, NoneFacts DEF TypeOK
<1>4. CASE \E s \in {404, 409, 422} : Raise(w, s) /\ draft' = draft
  <2>1. PICK s \in {404, 409, 422} : Raise(w, s) /\ draft' = draft
    BY <1>4
  <2>2. /\ outcome' \in [Workers -> Outcome \cup {NONE}]
        /\ pc' \in [Workers -> PCs]
        /\ \A v \in Workers \ {w} : pc'[v] = pc[v] /\ outcome'[v] = outcome[v]
    BY <1>2, <2>1 DEF TypeOK, Leave, Raise, Goto, PCs, Outcome, Statuses
  <2>3. TypeOK'
    BY <1>2, <2>1, <2>2 DEF TypeOK, WriteUpdated, database, locks
  <2>4. OthersKept(w)
    BY <1>2, <1>3, <2>1, <2>2, NoneFacts DEF TypeOK, OthersKept, WriteUpdated, database, locks
  <2>5. ServesEvent(w)'
    BY <1>2, SameMessage DEF WriteUpdated, ServesEvent, Committing, database, locks
  <2>6. WorkerInv(w)'
    BY <1>1, <1>2, <2>1, <2>5, RefusalInv
    DEF WriteUpdated, database, locks, Undecided, EventLocked, PCs
  <2>7. QED
    BY <2>1, <2>3, <2>4, <2>6, OwnStep DEF WriteUpdated, database
<1>5. CASE /\ status = 200
           /\ draft' = [draft EXCEPT ![w] = [id |-> id, row |-> row]]
           /\ Goto(w, "saveLookup") /\ UNCHANGED outcome
  <2>1. /\ PatchStatus(patch, customers[id]) = 200
        /\ row = Patched(patch, customers[id], customers[id])
        /\ row \in Customer /\ id \in Ids
    BY <1>1, <1>2, <1>5, PatchOnCommitted DEF HoldsRow
  <2>2. /\ draft' \in [Workers -> Draft \cup {NONE}]
        /\ draft'[w] = [id |-> id, row |-> row]
        /\ pc' \in [Workers -> PCs] /\ pc'[w] = "saveLookup"
        /\ \A v \in Workers \ {w} : pc'[v] = pc[v] /\ draft'[v] = draft[v]
    BY <1>2, <1>5, <2>1 DEF TypeOK, Draft, Goto, PCs
  <2>3. TypeOK'
    BY <1>2, <1>5, <2>2 DEF TypeOK, WriteUpdated, database, locks
  <2>4. OthersKept(w)
    BY <1>2, <1>3, <1>5, <2>2, NoneFacts DEF TypeOK, OthersKept, WriteUpdated, database, locks
  <2>5. draft'[w] # NONE
    BY <2>1, <2>2, NoneFacts DEF Draft
  <2>6. Drafted(w)'
    BY <1>1, <2>1, <2>2, <2>5, SameMessage DEF Drafted, WriteUpdated, database
  <2>7. QED
    BY <1>1, <1>3, <1>5, <2>2, <2>3, <2>4, <2>6, DraftInv DEF WriteUpdated, database
<1>6. QED
  <2>1. status # 200 => status \in {409, 422}
    BY DEF PatchStatus
  <2>2. QED
    BY <1>4, <1>5, <2>1 DEF WriteUpdated

LEMMA SaveLookupInv ==
  ASSUME IInv, NEW w \in Workers, SaveLookup(w)
  PROVE  IInv'
<1>1. pc[w] = "saveLookup" /\ pc[w] \in RowLocked
  BY DEF SaveLookup, RowLocked
<1>2. /\ TypeOK /\ WorkerInv(w)
      /\ Event(w) \in EventIds /\ msg[w] \in Messages
      /\ entry[w] = NONE /\ ~commitRequested[w]
      /\ eventLock[Event(w)] = w /\ events[Event(w)] = NONE
      /\ IsCreate(w) => HasTaxIdentity(Body(w).row)
      /\ ~IsCreate(w) => HoldsRow(w)
  BY <1>1, WritingFacts
<1>3. /\ Goto(w, "insertEvent") /\ UNCHANGED <<outcome, commitRequested>>
      /\ pc' \in [Workers -> PCs] /\ pc'[w] = "insertEvent" /\ eventLock' = eventLock
  BY <1>2 DEF SaveLookup, TypeOK, Goto, PCs
<1>4. TypeOK'
  BY <1>2, <1>3 DEF TypeOK, SaveLookup, database
<1>5. OthersKept(w)
  BY <1>2, <1>3, NoneFacts DEF TypeOK, OthersKept, SaveLookup, Goto, database
<1>6. Drafted(w) /\ (HoldsRow(w) => HoldsRow(w)') /\ (Drafted(w) => Drafted(w)')
  BY <1>1, <1>2, SameMessage
  DEF SaveLookup, WorkerInv, HasDraft, Written, HoldsRow, Drafted, database
<1>7. WorkerInv(w)'
  BY <1>2, <1>3, <1>6, SameMessage DEF SaveLookup, WorkerInv, ServesEvent, MayWrite, HasDraft,
     HasOutcome, Searching, Written, Committing, database
<1>8. QED
  BY <1>4, <1>5, <1>7, OwnStep DEF SaveLookup, database

LEMMA InsertEventInv ==
  ASSUME IInv, NEW w \in Workers, InsertEvent(w)
  PROVE  IInv'
<1> DEFINE record == [body |-> Body(w), ref |-> ResultRef(w)]
<1>1. pc[w] = "insertEvent" /\ pc[w] \in RowLocked
  BY DEF InsertEvent, RowLocked
<1>2. /\ TypeOK /\ WorkerInv(w)
      /\ Event(w) \in EventIds /\ msg[w] \in Messages /\ Body(w) \in Bodies
      /\ entry[w] = NONE /\ ~commitRequested[w]
      /\ eventLock[Event(w)] = w /\ events[Event(w)] = NONE
      /\ IsCreate(w) => HasTaxIdentity(Body(w).row)
      /\ ~IsCreate(w) => HoldsRow(w)
  BY <1>1, WritingFacts
<1>3. Drafted(w) /\ (HoldsRow(w) => HoldsRow(w)') /\ (Drafted(w) => Drafted(w)')
  BY <1>1, <1>2, SameMessage
  DEF InsertEvent, WorkerInv, HasDraft, Written, HoldsRow, Drafted, database, locks
<1>4. ResultRef(w) \in Ids /\ (ResultRef(w))' = ResultRef(w)
  BY <1>2, <1>3, SameMessage DEF InsertEvent, ResultRef, Drafted, HoldsRow
<1>5. /\ entry' = [entry EXCEPT ![w] = record]
      /\ Leave(w, 200, ResultRef(w))
      /\ commitRequested' = [commitRequested EXCEPT ![w] = TRUE]
  BY <1>2 DEF InsertEvent
<1>6. /\ entry' \in [Workers -> Record \cup {NONE}] /\ entry'[w] = record
      /\ pc' \in [Workers -> PCs] /\ pc'[w] = "exit"
      /\ outcome' \in [Workers -> Outcome \cup {NONE}]
      /\ outcome'[w] = [status |-> 200, ref |-> ResultRef(w)]
  BY <1>2, <1>4, <1>5 DEF TypeOK, Record, Leave, Goto, PCs, Outcome, Statuses
<1>7. commitRequested' \in [Workers -> BOOLEAN] /\ commitRequested'[w]
  BY <1>2, <1>5 DEF TypeOK
<1>8. TypeOK'
  BY <1>2, <1>6, <1>7 DEF TypeOK, InsertEvent, database, locks
<1>9. OthersKept(w)
  BY <1>2, <1>5, NoneFacts DEF TypeOK, OthersKept, InsertEvent, Leave, Goto, database, locks
<1>10. WorkerInv(w)'
  BY <1>2, <1>3, <1>4, <1>6, <1>7, SameMessage
  DEF InsertEvent, WorkerInv, ServesEvent, MayWrite, HasDraft,
      HasOutcome, Undecided, EventLocked, Searching, Written, Committing, database, locks
<1>11. QED
  BY <1>8, <1>9, <1>10, OwnStep DEF InsertEvent, database

\* The end of a transaction, with the customers and the events it leaves.
LEMMA FinishInv ==
  ASSUME IInv, NEW w \in Workers, Finish(w), nextId' = nextId,
         customers' \in [Ids -> Customer \cup {NONE}],
         events' \in [EventIds -> Record \cup {NONE}],
         answers' \subseteq [event : EventIds, body : Bodies, status : Statuses, ref : Ids \cup {NONE}],
         customers' # customers => Committing(w),
         events' # events => Committing(w),
         \A i \in Ids : draft[w] = NONE \/ i # draft[w].id => customers'[i] = customers[i],
         \A e \in EventIds : e # Event(w) => events'[e] = events[e]
  PROVE  IInv'
<1>1. TypeOK /\ WorkerInv(w)
  BY DEF IInv
<1>2. /\ pc' = [pc EXCEPT ![w] = "idle"] /\ msg' = [msg EXCEPT ![w] = NONE]
      /\ draft' = [draft EXCEPT ![w] = NONE] /\ entry' = [entry EXCEPT ![w] = NONE]
      /\ commitRequested' = [commitRequested EXCEPT ![w] = FALSE]
      /\ outcome' = [outcome EXCEPT ![w] = NONE] /\ current' = [current EXCEPT ![w] = NONE]
      /\ seen' = [seen EXCEPT ![w] = NONE]
  BY DEF Finish, Goto
<1>3. /\ eventLock' \in [EventIds -> Workers \cup {NONE}]
      /\ rowLock' \in [Ids -> Workers \cup {NONE}]
      /\ loginLock' \in [Logins -> Workers \cup {NONE}]
  BY <1>1 DEF TypeOK, Finish, Unlock, UnlockLogin
<1>4. TypeOK'
  BY <1>1, <1>2, <1>3 DEF TypeOK, PCs
<1>5. Committing(w) => /\ draft[w] # NONE /\ eventLock[Event(w)] = w
                       /\ draft[w].id \in Ids
                       /\ customers[draft[w].id] = NONE \/ rowLock[draft[w].id] = w
                       /\ draft[w].id < nextId \/ customers[draft[w].id] # NONE
  BY <1>1 DEF WorkerInv, ServesEvent, HasDraft, MayWrite, Drafted, HoldsRow, Committing, EventLocked, PCs
<1>6. \A e \in EventIds : eventLock[e] \notin {NONE, w} =>
        eventLock'[e] = eventLock[e] /\ events'[e] = events[e]
  BY <1>1, <1>5 DEF TypeOK, Finish, Unlock, UnlockLogin
<1>7. \A i \in Ids : rowLock[i] \notin {NONE, w} /\ customers[i] # NONE =>
        rowLock'[i] = rowLock[i] /\ customers'[i] = customers[i]
  BY <1>1, <1>5 DEF TypeOK, Finish, Unlock, UnlockLogin
<1>8. ASSUME NEW v \in Workers \ {w}, draft[v] # NONE
      PROVE  customers'[draft[v].id] = customers[draft[v].id]
  <2>1. draft[v].id \in Ids
    BY <1>1, <1>8 DEF TypeOK, Draft
  <2>2. draft[w] # NONE => draft[v].id # draft[w].id
    BY <1>8 DEF IInv, DraftsDistinct
  <2>3. QED
    BY <2>1, <2>2
<1>9. OthersKept(w)
  BY <1>1, <1>2, <1>6, <1>7, <1>8, NoneFacts DEF OthersKept, TypeOK
<1>10. WorkerInv(w)'
  BY <1>1, <1>2 DEF TypeOK, WorkerInv, ServesEvent, MayWrite, HasDraft, HasOutcome,
     EventLocked, Undecided, Searching, RowLocked, Written, Committing
<1>11. \A v \in Workers : WorkerInv(v)'
  BY <1>9, <1>10, OthersKeep
<1>12. IdsFresh'
  <2>1. nextId \in Int /\ \A i \in Ids : i \in Int
    BY <1>1, NoneFacts DEF TypeOK
  <2>2. QED
    BY <1>1, <1>5, <2>1 DEF IInv, IdsFresh, TypeOK
<1>13. DraftsDistinct'
  <2>1. \A v \in Workers : draft'[v] \in {NONE, draft[v]}
    BY <1>1, <1>2 DEF TypeOK
  <2>2. QED
    BY <2>1 DEF IInv, DraftsDistinct
<1>14. QED
  BY <1>4, <1>11, <1>12, <1>13 DEF IInv

\* What a commit publishes is well typed and touches the draft's customer and
\* the served event only.
LEMMA PublishFacts ==
  ASSUME IInv, NEW w \in Workers, Committing(w), Publish(w)
  PROVE  /\ customers' = [customers EXCEPT ![draft[w].id] = draft[w].row]
         /\ events' = [events EXCEPT ![Event(w)] = entry[w]]
         /\ customers' \in [Ids -> Customer \cup {NONE}]
         /\ events' \in [EventIds -> Record \cup {NONE}]
         /\ draft[w] \in Draft /\ entry[w] \in Record
         /\ \A i \in Ids : draft[w] = NONE \/ i # draft[w].id => customers'[i] = customers[i]
         /\ \A e \in EventIds : e # Event(w) => events'[e] = events[e]
         /\ Event(w) \in EventIds /\ Body(w) \in Bodies
         /\ outcome[w] \in Outcome
<1>1. TypeOK /\ WorkerInv(w) /\ pc[w] # "idle"
  BY DEF IInv, Committing
<1>2. draft[w] # NONE /\ draft[w] \in Draft
  BY <1>1 DEF TypeOK, WorkerInv, HasDraft, Drafted
<1>3. ResultRef(w) \in Ids
  BY <1>1, <1>2 DEF WorkerInv, HasDraft, Drafted, MayWrite, HoldsRow, ResultRef, Draft
<1>4. Event(w) \in EventIds /\ Body(w) \in Bodies
  BY <1>1, ServedFacts
<1>5. entry[w] = [body |-> Body(w), ref |-> ResultRef(w)] /\ entry[w] \in Record
  BY <1>1, <1>3, <1>4 DEF WorkerInv, HasOutcome, Record
<1>6. /\ customers' = [customers EXCEPT ![draft[w].id] = draft[w].row]
      /\ events' = [events EXCEPT ![Event(w)] = entry[w]]
  BY <1>2, <1>5, NoneFacts DEF Publish
<1>7. outcome[w] \in Outcome
  BY <1>1, <1>3 DEF WorkerInv, HasOutcome, Outcome, Statuses
<1>8. QED
  BY <1>1, <1>2, <1>4, <1>5, <1>6, <1>7 DEF TypeOK, Draft

LEMMA CommitInv ==
  ASSUME IInv, NEW w \in Workers, Commit(w) \/ CommitUnconfirmed(w)
  PROVE  IInv'
<1>1. Committing(w) /\ Publish(w) /\ Finish(w) /\ nextId' = nextId
  BY DEF Commit, CommitUnconfirmed, Committing
<1>2. answers' \subseteq [event : EventIds, body : Bodies, status : Statuses, ref : Ids \cup {NONE}]
  BY <1>1, PublishFacts DEF IInv, TypeOK, Commit, CommitUnconfirmed, Respond, Outcome
<1>3. QED
  BY <1>1, <1>2, PublishFacts, FinishInv

LEMMA RollbackInv ==
  ASSUME IInv, NEW w \in Workers, Rollback(w)
  PROVE  IInv'
<1>1. TypeOK /\ WorkerInv(w) /\ pc[w] # "idle" /\ pc[w] = "exit" /\ ~commitRequested[w]
  BY DEF IInv, Rollback
<1>2. Event(w) \in EventIds /\ Body(w) \in Bodies
  BY <1>1, ServedFacts
<1>3. outcome[w].status \in Statuses /\ outcome[w].ref \in Ids \cup {NONE}
  BY <1>1, <1>2 DEF TypeOK, WorkerInv, HasOutcome, Repeats, Refused, Statuses, Record
<1>4. answers' \subseteq [event : EventIds, body : Bodies, status : Statuses, ref : Ids \cup {NONE}]
  BY <1>1, <1>2, <1>3 DEF TypeOK, Rollback, Respond
<1>5. QED
  BY <1>1, <1>4, FinishInv DEF Rollback, database, TypeOK

LEMMA AbortInv ==
  ASSUME IInv, NEW w \in Workers, Abort(w) \/ IdsExhausted(w)
  PROVE  IInv'
BY FinishInv DEF IInv, TypeOK, Abort, IdsExhausted, database

\* What other programs do concerns no row that a worker holds or writes.
LEMMA LegacyInsertInv ==
  ASSUME IInv, NEW row \in LegacyRows, LegacyInsert(row)
  PROVE  IInv'
<1>1. TypeOK /\ row \in Customer /\ nextId \in Ids /\ customers[nextId] = NONE
  BY NoneFacts, CustomerSyncAssumption
  DEF CustomerSyncAssumption, IInv, TypeOK, LegacyInsert, IdsFresh, Ids
<1>2. TypeOK'
  BY <1>1, NoneFacts DEF TypeOK, LegacyInsert, locks, transaction, Ids
<1>3. nextId \in Int /\ \A i \in Ids : i \in Int
  BY <1>1, NoneFacts
<1>4. ASSUME NEW v \in Workers PROVE WorkerInv(v)'
  <2>1. WorkerInv(v)
    BY DEF IInv
  <2>2. draft[v] # NONE => draft[v].id # nextId
    BY <1>1, <1>3, <2>1 DEF WorkerInv, HasDraft, MayWrite, Drafted, HoldsRow, Written, RowLocked
  <2>3. draft[v] # NONE => customers'[draft[v].id] = customers[draft[v].id]
    BY <1>1, <2>2 DEF LegacyInsert, TypeOK, Draft
  <2>4. nextId' \in Nat /\ nextId <= nextId'
    BY <1>1, NoneFacts DEF LegacyInsert
  <2>5. QED
    BY <1>1, <2>1, <2>3, <2>4, OtherWorker DEF LegacyInsert, TypeOK, locks, transaction, WorkerInv,
       ServesEvent
<1>5. IdsFresh'
  BY <1>1, <1>3 DEF IInv, IdsFresh, LegacyInsert, TypeOK
<1>6. DraftsDistinct'
  BY DEF IInv, DraftsDistinct, LegacyInsert, transaction
<1>7. QED
  BY <1>2, <1>4, <1>5, <1>6 DEF IInv

LEMMA RemoveCustomerInv ==
  ASSUME IInv, NEW i \in Ids, RemoveCustomer(i)
  PROVE  IInv'
<1>1. TypeOK
  BY DEF IInv
<1>2. TypeOK'
  BY <1>1 DEF TypeOK, RemoveCustomer, locks, transaction
<1>3. ASSUME NEW v \in Workers PROVE WorkerInv(v)'
  <2>1. WorkerInv(v) /\ v # NONE
    BY NoneFacts DEF IInv
  <2>2. draft[v] # NONE => draft[v].id # i
    BY <2>1 DEF RemoveCustomer, WorkerInv, HasDraft, MayWrite, Drafted, HoldsRow, Written, RowLocked
  <2>3. draft[v] # NONE => customers'[draft[v].id] = customers[draft[v].id]
    BY <1>1, <2>2 DEF RemoveCustomer, TypeOK, Draft
  <2>4. nextId' \in Nat /\ nextId <= nextId'
    BY <1>1, NoneFacts DEF TypeOK, RemoveCustomer
  <2>5. QED
    BY <1>1, <2>1, <2>3, <2>4, OtherWorker DEF RemoveCustomer, TypeOK, locks, transaction, WorkerInv,
       ServesEvent
<1>4. IdsFresh'
  BY <1>1 DEF IInv, IdsFresh, RemoveCustomer, TypeOK
<1>5. DraftsDistinct'
  BY DEF IInv, DraftsDistinct, RemoveCustomer, transaction
<1>6. QED
  BY <1>2, <1>3, <1>4, <1>5 DEF IInv

LEMMA StutterInv == IInv /\ UNCHANGED vars => IInv'
BY DEF IInv, TypeOK, WorkerInv, ServesEvent, MayWrite, HasDraft, HasOutcome, Committing, Drafted,
   HoldsRow, Repeats, Refused, IdsFresh, DraftsDistinct, ResultRef, IsCreate, Body, Event, WantedLogin,
   vars, database, locks, transaction

-----------------------------------------------------------------------------
(* Theorems                                                                *)

\* The inductive invariant holds throughout.
THEOREM Invariant == Spec => []IInv
<1>1. Init => IInv
  BY InitInv
<1>2. IInv /\ [Next]_vars => IInv'
  <2> SUFFICES ASSUME IInv, [Next]_vars PROVE IInv'
    OBVIOUS
  <2>1. ASSUME NEW w \in Workers, NEW m \in Messages, Deliver(w, m) PROVE IInv'
    BY <2>1, DeliverInv
  <2>2. ASSUME NEW w \in Workers, Serve(w) PROVE IInv'
    BY <2>2, LockEventInv, LookupInv, CustomerExistsInv, LockRowInv, RereadRowInv, LockLoginInv,
       FindLoginInv, WriteCreatedInv, AbortInv, WriteUpdatedInv, SaveLookupInv, InsertEventInv,
       CommitInv, RollbackInv DEF Serve
  <2>3. ASSUME NEW w \in Workers, Fail(w) PROVE IInv'
    BY <2>3, AbortInv, CommitInv DEF Fail
  <2>4. ASSUME NEW i \in Ids, RemoveCustomer(i) PROVE IInv'
    BY <2>4, RemoveCustomerInv
  <2>5. ASSUME NEW row \in LegacyRows, LegacyInsert(row) PROVE IInv'
    BY <2>5, LegacyInsertInv
  <2>6. QED
    BY <2>1, <2>2, <2>3, <2>4, <2>5, StutterInv DEF Next
<1>3. QED
  BY <1>1, <1>2, PTL DEF Spec

\* Every variable has its type in every reachable state.
THEOREM TypeCorrect == Spec => []TypeOK
<1>1. IInv => TypeOK
  BY DEF IInv
<1>2. QED
  BY <1>1, Invariant, PTL

-----------------------------------------------------------------------------
(* The transactions implement the promise                                  *)

LEMMA CommitAccepts ==
  ASSUME IInv, NEW w \in Workers, Commit(w) \/ CommitUnconfirmed(w)
  PROVE  Promise!Step
<1> DEFINE e == Event(w)
           b == Body(w)
           r == ResultRef(w)
<1>1. Committing(w) /\ Publish(w)
  BY DEF Commit, CommitUnconfirmed, Committing
<1>2. TypeOK /\ WorkerInv(w) /\ pc[w] = "exit"
  BY <1>1 DEF IInv, Committing
<1>3. /\ customers' = [customers EXCEPT ![draft[w].id] = draft[w].row]
      /\ events' = [events EXCEPT ![e] = entry[w]]
      /\ e \in EventIds /\ b \in Bodies
  BY <1>1, PublishFacts
<1>4. /\ events[e] = NONE /\ entry[w] = [body |-> b, ref |-> r]
      /\ outcome[w] = [status |-> 200, ref |-> r]
      /\ Drafted(w)
      /\ IsCreate(w) => HasTaxIdentity(b.row)
      /\ ~IsCreate(w) => HoldsRow(w) /\ b.kind = "update"
  BY <1>1, <1>2, ServedFacts DEF WorkerInv, ServesEvent, MayWrite, HasDraft, HasOutcome
<1>5. r \in Ids
  BY <1>4 DEF Drafted, HoldsRow, ResultRef
<1>6. Applies(customers, b, r, customers')
  <2>1. CASE IsCreate(w)
    BY <1>3, <1>4, <2>1 DEF Applies, Drafted, ResultRef, IsCreate
  <2>2. CASE ~IsCreate(w)
    <3>1. r = b.ref /\ b.kind = "update" /\ customers[r] # NONE
      BY <1>4, <2>2 DEF ResultRef, HoldsRow
    <3>2. /\ PatchStatus(b.patch, customers[r]) = 200
          /\ draft[w].id = r /\ draft[w].row = Patched(b.patch, customers[r], customers[r])
      BY <1>4, <2>2, <3>1 DEF Drafted
    <3>3. customers' = [customers EXCEPT ![r] = Patched(b.patch, customers[r], customers[r])]
      BY <1>3, <3>2
    <3>4. QED
      BY <3>1, <3>2, <3>3 DEF Applies
  <2>3. QED
    BY <2>1, <2>2
<1>7. answers' \in {answers, answers \cup {Promise!Success(e, b, r)}}
  BY <1>4 DEF Commit, CommitUnconfirmed, Respond, Promise!Success
<1>8. Promise!Accept(e, b, r)
  BY <1>3, <1>4, <1>6, <1>7 DEF Promise!Accept
<1>9. QED
  BY <1>3, <1>5, <1>8 DEF Promise!Step

LEMMA RollbackAnswers ==
  ASSUME IInv, NEW w \in Workers, Rollback(w)
  PROVE  Promise!Step
<1> DEFINE e == Event(w)
           b == Body(w)
<1>1. /\ TypeOK /\ WorkerInv(w) /\ pc[w] = "exit" /\ ~commitRequested[w]
      /\ UNCHANGED <<customers, events>>
  BY DEF IInv, Rollback, database
<1>2. e \in EventIds /\ b \in Bodies
  BY <1>1, ServedFacts
<1>3. answers' = answers \cup {[event |-> e, body |-> b,
                               status |-> outcome[w].status, ref |-> outcome[w].ref]}
  BY DEF Rollback, Respond
<1>4. CASE Repeats(w)
  <2>1. events[e] \in Record
    BY <1>1, <1>2, <1>4 DEF TypeOK, Repeats
  <2>2. events[e] = [body |-> b, ref |-> events[e].ref] /\ events[e].ref \in Ids
    BY <1>4, <2>1 DEF Repeats, Record
  <2>3. Promise!Repeat(e, b, events[e].ref)
    BY <1>1, <1>3, <1>4, <2>2 DEF Repeats, Promise!Repeat, Promise!Success
  <2>4. QED
    BY <1>2, <2>2, <2>3 DEF Promise!Step
<1>5. CASE Refused(w)
  <2>1. Promise!Refuse(e, b, outcome[w].status)
    BY <1>1, <1>3, <1>5 DEF Refused, Promise!Refuse, Promise!Refusal
  <2>2. QED
    BY <1>2, <1>5, <2>1 DEF Refused, Promise!Step
<1>6. QED
  BY <1>1, <1>4, <1>5 DEF WorkerInv, HasOutcome

\* Whatever the interleaving and the failures, the transactions behave as if
\* each event took effect alone and with its record, in one step.
THEOREM Implements == Spec => ImplementsPromise
<1>1. Init => Promise!Init
  BY CustomerSyncAssumption DEF CustomerSyncAssumption, Init, Promise!Init
<1>2. IInv /\ [Next]_vars => [Promise!Next]_(Promise!vars)
  <2> SUFFICES ASSUME IInv, [Next]_vars PROVE Promise!Step \/ UNCHANGED <<customers, events, answers>>
    BY DEF Promise!Next, Promise!vars
  <2>1. ASSUME NEW w \in Workers, NEW m \in Messages, Deliver(w, m)
        PROVE  UNCHANGED <<customers, events, answers>>
    BY <2>1 DEF Deliver, database
  <2>2. ASSUME NEW w \in Workers, Serve(w) \/ Fail(w)
        PROVE  Promise!Step \/ UNCHANGED <<customers, events, answers>>
    BY <2>2, CommitAccepts, RollbackAnswers
    DEF Serve, Fail, Abort, LockEvent, Lookup, CustomerExists, LockRow, RereadRow, LockLogin, FindLogin,
        WriteCreated, IdsExhausted, WriteUpdated, SaveLookup, InsertEvent, database
  <2>3. ASSUME NEW i \in Ids, RemoveCustomer(i) PROVE Promise!Step
    <3>1. Promise!Remove(i)
      BY <2>3 DEF RemoveCustomer, Promise!Remove
    <3>2. QED
      BY <3>1 DEF Promise!Step
  <2>4. ASSUME NEW row \in LegacyRows, LegacyInsert(row) PROVE Promise!Step
    <3>1. row \in Customer /\ nextId \in Ids /\ customers[nextId] = NONE
      BY <2>4, NoneFacts, CustomerSyncAssumption
      DEF CustomerSyncAssumption, IInv, TypeOK, LegacyInsert, IdsFresh, Ids
    <3>2. customers' = [customers EXCEPT ![nextId] = row] /\ customers'[nextId] = row
      BY <2>4, <3>1 DEF LegacyInsert, IInv, TypeOK
    <3>3. Promise!Insert(nextId)
      BY <2>4, <3>1, <3>2 DEF LegacyInsert, Promise!Insert
    <3>4. QED
      BY <3>1, <3>3 DEF Promise!Step
  <2>5. CASE UNCHANGED vars
    BY <2>5 DEF vars, database
  <2>6. QED
    BY <2>1, <2>2, <2>3, <2>4, <2>5 DEF Next
<1>3. QED
  BY <1>1, <1>2, Invariant, PTL DEF Spec, ImplementsPromise, Promise!Spec

-----------------------------------------------------------------------------
(* The tax identity and the delivery address                               *)

\* An accepted patch keeps a customer consistent.
LEMMA PatchedConsistent ==
  ASSUME NEW patch \in Patch, NEW row \in Customer,
         HasTaxIdentity(row), AddressWhole(row), PatchStatus(patch, row) = 200
  PROVE  /\ HasTaxIdentity(Patched(patch, row, row))
         /\ AddressWhole(Patched(patch, row, row))
<1> DEFINE a == patch.address
           new == Patched(patch, row, row)
<1>1. ~AddressIncomplete(a, row) /\ ~RegionUnknown(a, row) /\ PatchKeepsTaxIdentity(patch, row)
  BY DEF PatchStatus
<1>2. HasTaxIdentity(new)
  <2>1. /\ new.fiscal = Overlay(patch.fiscal, row.fiscal)
        /\ new.vat = Overlay(patch.vat, row.vat)
    BY DEF Patched
  <2>2. QED
    BY <1>1, <2>1 DEF PatchKeepsTaxIdentity, HasTaxIdentity
<1>3. /\ new.street = PatchedStreet(a, row)
      /\ new.region = PatchedRegion(a, row, row.region)
  BY DEF Patched
<1>4. CASE ~IsAddressPatch(a)
  BY <1>2, <1>3, <1>4, DataFacts DEF IsAddressPatch, PatchedStreet, PatchedRegion, AddressWhole
<1>5. CASE IsAddressPatch(a)
  <2>1. a \in AddressPatch
    BY <1>5 DEF IsAddressPatch, Patch
  <2>2. new.street # NULL
    BY <1>1, <1>3, <1>5, <2>1, DataFacts
    DEF AddressIncomplete, IsAddressPatch, PatchedStreet, Overlay, AddressPatch
  <2>3. new.region # NULL
    <3>1. CASE TouchesRegion(a)
      <4>1. WantedRegion(a, row.region) \in EnabledRegions
        BY <1>1, <1>5, <3>1 DEF RegionUnknown
      <4>2. new.region = WantedRegion(a, row.region)
        BY <1>3, <1>5, <3>1 DEF IsAddressPatch, PatchedRegion
      <4>3. QED
        BY <4>1, <4>2, DataFacts
    <3>2. CASE ~TouchesRegion(a)
      BY <1>1, <1>3, <1>5, <3>2
      DEF AddressIncomplete, IsAddressPatch, PatchedRegion, AddressWhole, TouchesRegion
    <3>3. QED
      BY <3>1, <3>2
  <2>4. QED
    BY <1>2, <2>2, <2>3 DEF AddressWhole
<1>6. QED
  BY <1>2, <1>4, <1>5

\* No interleaving of creations and patches leaves a customer without tax
\* identity or with half a delivery address, if there was none before and
\* other programs insert none.
THEOREM Consistency ==
  ASSUME \A i \in Ids : InitialCustomers[i] # NONE =>
           HasTaxIdentity(InitialCustomers[i]) /\ AddressWhole(InitialCustomers[i]),
         \A row \in LegacyRows : HasTaxIdentity(row) /\ AddressWhole(row)
  PROVE  Spec => []CustomersConsistent
<1>1. Init => CustomersConsistent
  BY DEF Init, CustomersConsistent
<1>2. IInv /\ CustomersConsistent /\ [Next]_vars => CustomersConsistent'
  <2> SUFFICES ASSUME IInv, CustomersConsistent, [Next]_vars PROVE CustomersConsistent'
    OBVIOUS
  <2>1. CASE customers' = customers
    BY <2>1 DEF CustomersConsistent
  <2>2. ASSUME NEW w \in Workers, Commit(w) \/ CommitUnconfirmed(w)
        PROVE  CustomersConsistent'
    <3>1. Committing(w) /\ Publish(w)
      BY <2>2 DEF Commit, CommitUnconfirmed, Committing
    <3>2. /\ TypeOK /\ WorkerInv(w) /\ pc[w] # "idle"
          /\ customers' = [customers EXCEPT ![draft[w].id] = draft[w].row]
      BY <3>1, PublishFacts DEF IInv, Committing
    <3>3. Drafted(w) /\ IF IsCreate(w) THEN HasTaxIdentity(Body(w).row) ELSE HoldsRow(w)
      BY <3>1, <3>2 DEF WorkerInv, MayWrite, HasDraft
    <3>4. HasTaxIdentity(draft[w].row) /\ AddressWhole(draft[w].row)
      <4>1. CASE IsCreate(w)
        <5>1. msg[w] \in Messages
          BY <3>2, ServedFacts
        <5>2. AddressWhole(Body(w).row)
          BY <4>1, <5>1, MessageFacts DEF Body, IsCreate
        <5>3. QED
          BY <3>3, <4>1, <5>2 DEF Drafted
      <4>2. CASE ~IsCreate(w)
        <5>1. Body(w).patch \in Patch /\ Body(w).ref \in Ids /\ customers[Body(w).ref] # NONE
          BY <3>2, <3>3, <4>2, ServedFacts DEF HoldsRow
        <5>2. customers[Body(w).ref] \in Customer
          BY <3>2, <5>1 DEF TypeOK
        <5>3. HasTaxIdentity(customers[Body(w).ref]) /\ AddressWhole(customers[Body(w).ref])
          BY <5>1 DEF CustomersConsistent
        <5>4. QED
          BY <3>3, <4>2, <5>1, <5>2, <5>3, PatchedConsistent DEF Drafted
      <4>3. QED
        BY <4>1, <4>2
    <3>5. QED
      BY <3>2, <3>4 DEF CustomersConsistent, TypeOK
  <2>3. ASSUME NEW i \in Ids, RemoveCustomer(i) PROVE CustomersConsistent'
    BY <2>3 DEF RemoveCustomer, CustomersConsistent, IInv, TypeOK
  <2>4. ASSUME NEW row \in LegacyRows, LegacyInsert(row) PROVE CustomersConsistent'
    BY <2>4 DEF LegacyInsert, CustomersConsistent, IInv, TypeOK
  <2>5. ASSUME NEW w \in Workers, Serve(w) \/ Abort(w) PROVE CustomersConsistent'
    <3>1. CASE WriteUpdated(w) \/ WriteCreated(w) \/ IdsExhausted(w)
      BY <2>1, <3>1 DEF WriteUpdated, WriteCreated, IdsExhausted, database
    <3>2. CASE LockRow(w) \/ RereadRow(w) \/ SaveLookup(w) \/ InsertEvent(w)
      BY <2>1, <3>2 DEF LockRow, RereadRow, SaveLookup, InsertEvent, database
    <3>3. CASE LockEvent(w) \/ Lookup(w) \/ CustomerExists(w) \/ LockLogin(w) \/ FindLogin(w)
      BY <2>1, <3>3 DEF LockEvent, Lookup, CustomerExists, LockLogin, FindLogin, database
    <3>4. CASE Rollback(w) \/ Abort(w)
      BY <2>1, <3>4 DEF Rollback, Abort, database
    <3>5. QED
      BY <2>2, <2>5, <3>1, <3>2, <3>3, <3>4 DEF Serve
  <2>6. ASSUME NEW w \in Workers, NEW m \in Messages, Deliver(w, m) PROVE CustomersConsistent'
    BY <2>1, <2>6 DEF Deliver, database
  <2>7. QED
    BY <2>1, <2>2, <2>3, <2>4, <2>5, <2>6 DEF Next, Fail, database, vars
<1>3. QED
  BY <1>1, <1>2, Invariant, PTL DEF Spec

-----------------------------------------------------------------------------
(* The logins                                                              *)

\* Behind the login lock and behind the search for the login.
LoginLocked(w) ==
  pc[w] \in {"findLogin", "write", "saveLookup", "insertEvent"} \/ Committing(w)
LoginSearched(w) ==
  pc[w] \in {"write", "saveLookup", "insertEvent"} \/ Committing(w)

\* Another program may insert the very login after the search; the unique
\* index then refuses the write.
TakenMeanwhile(w, i) == pc[w] = "write" /\ customers[i].login = WantedLogin(w)

\* A worker that wants a login holds its lock, and once it has searched no
\* other customer has that login.
HoldsLogin(w) ==
  WantedLogin(w) # UNSET =>
    /\ LoginLocked(w) => loginLock[LoginKey(w)] = w
    /\ LoginSearched(w) =>
         \A i \in Ids \ {CurrentId(w)} :
           customers[i] # NONE => Fold[customers[i].login] # LoginKey(w) \/ TakenMeanwhile(w, i)

\* The logins that a customer can ever have.
KnownLogins ==
  ({InitialCustomers[i].login : i \in {j \in Ids : InitialCustomers[j] # NONE}}
     \cup {IF b.kind = "create" THEN b.row.login ELSE b.patch.login : b \in Bodies}
     \cup {row.login : row \in LegacyRows}) \ {UNSET}
LoginsKnown == \A i \in Ids : customers[i] # NONE => customers[i].login \in KnownLogins

LoginInv == LoginsUnique /\ LoginsKnown /\ \A w \in Workers : HoldsLogin(w)

OwnStepOf(w) ==
  \A v \in Workers \ {w} :
    pc'[v] = pc[v] /\ msg'[v] = msg[v] /\ commitRequested'[v] = commitRequested[v]

\* Steps of w that store no customer and take no login from anybody.
LEMMA LoginOthers ==
  ASSUME IInv, LoginInv, NEW w \in Workers,
         customers' = customers, OwnStepOf(w),
         \A l \in Logins : loginLock[l] \notin {NONE, w} => loginLock'[l] = loginLock[l],
         HoldsLogin(w)'
  PROVE  LoginInv'
<1>1. LoginsUnique' /\ LoginsKnown'
  BY DEF LoginInv, LoginsUnique, LoginsKnown
<1>2. ASSUME NEW v \in Workers \ {w} PROVE HoldsLogin(v)'
  <2>1. /\ pc'[v] = pc[v] /\ msg'[v] = msg[v] /\ commitRequested'[v] = commitRequested[v]
        /\ v # NONE
    BY NoneFacts DEF OwnStepOf
  <2>2. /\ (WantedLogin(v))' = WantedLogin(v) /\ (LoginKey(v))' = LoginKey(v)
        /\ (CurrentId(v))' = CurrentId(v)
        /\ (LoginLocked(v))' = LoginLocked(v) /\ (LoginSearched(v))' = LoginSearched(v)
    BY <2>1 DEF WantedLogin, LoginKey, CurrentId, IsCreate, Body, LoginLocked, LoginSearched, Committing
  <2>3. LoginLocked(v) => pc[v] # "idle"
    BY DEF LoginLocked, Committing
  <2>4. LoginLocked(v) /\ WantedLogin(v) # UNSET => LoginKey(v) \in Logins
    BY <2>3, ServedFacts DEF IInv
  <2>5. QED
    BY <2>1, <2>2, <2>4 DEF LoginInv, HoldsLogin, TakenMeanwhile
<1>3. QED
  BY <1>1, <1>2 DEF LoginInv

\* Steps of w that reach no place where a login is needed, but from another
\* such place.
LEMMA LoginUntouched ==
  ASSUME IInv, LoginInv, NEW w \in Workers,
         customers' = customers, OwnStepOf(w),
         \A l \in Logins : loginLock[l] \notin {NONE, w} => loginLock'[l] = loginLock[l],
         \/ ~(LoginLocked(w)')
         \/ msg' = msg /\ WantedLogin(w) = UNSET
         \/ /\ msg' = msg /\ loginLock' = loginLock /\ LoginLocked(w)
            /\ pc[w] \in {"saveLookup", "insertEvent"}
  PROVE  LoginInv'
<1>1. CASE ~(LoginLocked(w)')
  <2>1. HoldsLogin(w)'
    BY <1>1 DEF HoldsLogin, LoginLocked, LoginSearched
  <2>2. QED
    BY <2>1, LoginOthers
<1>2. ASSUME msg' = msg
      PROVE  /\ (WantedLogin(w))' = WantedLogin(w) /\ (LoginKey(w))' = LoginKey(w)
             /\ (CurrentId(w))' = CurrentId(w)
  BY <1>2 DEF WantedLogin, LoginKey, CurrentId, IsCreate, Body
<1>3. CASE msg' = msg /\ WantedLogin(w) = UNSET
  <2>1. HoldsLogin(w)'
    BY <1>2, <1>3 DEF HoldsLogin
  <2>2. QED
    BY <2>1, LoginOthers
<1>4. CASE /\ msg' = msg /\ loginLock' = loginLock /\ LoginLocked(w)
           /\ pc[w] \in {"saveLookup", "insertEvent"}
  <2>1. HoldsLogin(w)'
    BY <1>2, <1>4 DEF LoginInv, HoldsLogin, LoginSearched, TakenMeanwhile
  <2>2. QED
    BY <2>1, LoginOthers
<1>5. QED
  BY <1>1, <1>3, <1>4

\* The steps before the login lock, and those that end a transaction.
LEMMA LoginNotNeeded ==
  ASSUME IInv, LoginInv, NEW w \in Workers,
         \/ \E m \in Messages : Deliver(w, m)
         \/ LockEvent(w) \/ Lookup(w) \/ CustomerExists(w) \/ LockRow(w) \/ RereadRow(w)
         \/ IdsExhausted(w) \/ Rollback(w) \/ Abort(w)
  PROVE  LoginInv'
<1>1. TypeOK /\ HasOutcome(w)
  BY DEF IInv, WorkerInv
<1>2. customers' = customers /\ OwnStepOf(w)
  BY <1>1 DEF TypeOK, OwnStepOf, Deliver, LockEvent, Lookup, CustomerExists, LockRow, RereadRow, RowRead,
     RowFetched, IdsExhausted, Rollback, Abort, Finish, Leave, Raise, Goto, database, transaction
<1>3. \A l \in Logins : loginLock[l] \notin {NONE, w} => loginLock'[l] = loginLock[l]
  BY <1>1 DEF TypeOK, Deliver, LockEvent, Lookup, CustomerExists, LockRow, RereadRow,
     IdsExhausted, Rollback, Abort, Finish, Unlock, UnlockLogin, locks
<1>4. ~(LoginLocked(w)') \/ (msg' = msg /\ WantedLogin(w) = UNSET)
  <2>1. CASE \/ \E m \in Messages : Deliver(w, m)
             \/ LockEvent(w) \/ IdsExhausted(w) \/ Rollback(w) \/ Abort(w)
    <3>1. pc'[w] \in {"lockEvent", "lookup", "idle"}
      BY <1>1, <2>1 DEF TypeOK, Deliver, LockEvent, IdsExhausted, Rollback, Abort, Finish, Goto
    <3>2. QED
      BY <3>1 DEF LoginLocked, Committing
  <2>2. CASE Lookup(w) \/ CustomerExists(w) \/ LockRow(w) \/ RereadRow(w)
    <3>1. /\ msg' = msg /\ ~commitRequested'[w]
          /\ pc'[w] \in {"exit", "lockLogin", "exists", "lockRow", "waitRow", "write"}
          /\ pc'[w] = "write" => WantedLogin(w) = UNSET
      BY <1>1, <2>2 DEF TypeOK, HasOutcome, Lookup, CustomerExists, LockRow, RereadRow, RowRead, RowFetched,
         Leave, Raise, Goto
    <3>2. QED
      BY <3>1 DEF LoginLocked, Committing
  <2>3. QED
    BY <2>1, <2>2
<1>5. QED
  BY <1>2, <1>3, <1>4, LoginUntouched

\* The steps from the write to the request to commit.
LEMMA LoginKept ==
  ASSUME IInv, LoginInv, NEW w \in Workers, SaveLookup(w) \/ InsertEvent(w)
  PROVE  LoginInv'
<1>1. TypeOK
  BY DEF IInv
<1>2. OwnStepOf(w) /\ UNCHANGED <<customers, msg, loginLock>>
  BY <1>1 DEF TypeOK, OwnStepOf, SaveLookup, InsertEvent, Confirm, Leave, Raise, Goto, database, locks
<1>3. LoginLocked(w) /\ pc[w] \in {"saveLookup", "insertEvent"}
  BY DEF LoginLocked, SaveLookup, InsertEvent
<1>4. QED
  BY <1>2, <1>3, LoginUntouched

\* The write: the unique index finds the login that was taken meanwhile.
LEMMA LoginWritten ==
  ASSUME IInv, LoginInv, NEW w \in Workers, WriteCreated(w) \/ WriteUpdated(w)
  PROVE  LoginInv'
<1>1. TypeOK /\ ~commitRequested[w] /\ pc[w] = "write"
  BY WritingFacts DEF IInv, WriteCreated, WriteUpdated, RowLocked
<1>2. OwnStepOf(w) /\ UNCHANGED <<customers, msg, loginLock, commitRequested>>
  BY <1>1 DEF TypeOK, OwnStepOf, WriteCreated, WriteUpdated, Leave, Raise, Goto, database, locks
<1>3. CASE pc'[w] = "exit"
  <2>1. ~(LoginLocked(w)')
    BY <1>1, <1>2, <1>3 DEF LoginLocked, Committing
  <2>2. QED
    BY <1>2, <2>1, LoginUntouched
<1>4. CASE pc'[w] # "exit"
  <2>1. /\ (WantedLogin(w))' = WantedLogin(w) /\ (LoginKey(w))' = LoginKey(w)
        /\ (CurrentId(w))' = CurrentId(w)
    BY <1>2 DEF WantedLogin, LoginKey, CurrentId, IsCreate, Body
  <2>2. \A i \in Ids \ {CurrentId(w)} : customers[i] # NONE => customers[i].login # WantedLogin(w)
    <3>1. CASE WriteCreated(w)
      <4>1. ~LoginTaken(WantedLogin(w), nextId)
        BY <1>1, <1>4, <3>1 DEF TypeOK, WriteCreated, Raise, Leave, Goto, WantedLogin
      <4>2. nextId \in Ids => customers[nextId] = NONE
        BY NoneFacts DEF IInv, IdsFresh, TypeOK
      <4>3. QED
        BY <4>1, <4>2 DEF LoginTaken
    <3>2. CASE WriteUpdated(w)
      <4>1. ~LoginTaken(WantedLogin(w), CurrentId(w))
        BY <1>1, <1>4, <3>2 DEF TypeOK, WriteUpdated, Raise, Leave, Goto, CurrentId
      <4>2. QED
        BY <4>1 DEF LoginTaken
    <3>3. QED
      BY <3>1, <3>2
  <2>3. LoginLocked(w) /\ LoginSearched(w)
    BY <1>1 DEF LoginLocked, LoginSearched
  <2>4. HoldsLogin(w)'
    BY <1>2, <2>1, <2>2, <2>3 DEF LoginInv, HoldsLogin, TakenMeanwhile
  <2>5. QED
    BY <1>2, <2>4, LoginOthers
<1>5. QED
  BY <1>3, <1>4

LEMMA LoginReserved ==
  ASSUME IInv, LoginInv, NEW w \in Workers, LockLogin(w) \/ FindLogin(w)
  PROVE  LoginInv'
<1>1. TypeOK /\ ~commitRequested[w] /\ pc[w] \in RowLocked /\ pc[w] # "idle"
  BY WritingFacts DEF IInv, LockLogin, FindLogin, RowLocked
<1>2. WorkerInv(w) /\ WantedLogin(w) # UNSET
  BY <1>1, WritingFacts DEF LockLogin, FindLogin
<1>3. LoginKey(w) \in Logins
  BY <1>1, <1>2, ServedFacts
<1>4. /\ OwnStepOf(w) /\ UNCHANGED <<customers, msg, commitRequested>>
      /\ \A l \in Logins : loginLock[l] \notin {NONE, w} => loginLock'[l] = loginLock[l]
      /\ loginLock[LoginKey(w)] = w => loginLock'[LoginKey(w)] = w
  BY <1>1, <1>3 DEF TypeOK, OwnStepOf, LockLogin, FindLogin, Waits, Free, Leave, Raise, Goto, database, locks, transaction
<1>5. /\ (WantedLogin(w))' = WantedLogin(w) /\ (LoginKey(w))' = LoginKey(w)
      /\ (CurrentId(w))' = CurrentId(w)
  BY <1>4 DEF WantedLogin, LoginKey, CurrentId, IsCreate, Body
<1>6. CASE LockLogin(w)
  <2>1. pc'[w] = "findLogin" /\ loginLock'[LoginKey(w)] = w
    BY <1>1, <1>3, <1>6 DEF TypeOK, LockLogin, Goto
  <2>2. HoldsLogin(w)'
    BY <1>5, <2>1 DEF HoldsLogin, LoginLocked, LoginSearched, Committing
  <2>3. QED
    BY <1>4, <2>2, LoginOthers DEF LoginInv
<1>7. CASE FindLogin(w)
  <2>1. CASE Raise(w, 409)
    <3>1. pc'[w] = "exit" /\ ~commitRequested'[w]
      BY <1>1, <1>4, <2>1 DEF TypeOK, Raise, Leave, Goto
    <3>2. HoldsLogin(w)'
      BY <3>1 DEF HoldsLogin, LoginLocked, LoginSearched, Committing
    <3>3. QED
      BY <1>4, <3>2, LoginOthers DEF LoginInv
  <2>2. CASE /\ ~\E i \in Ids \ {CurrentId(w)} :
                   customers[i] # NONE /\ Fold[customers[i].login] = LoginKey(w)
    <3>1. loginLock[LoginKey(w)] = w
      BY <1>2, <1>7 DEF LoginInv, HoldsLogin, LoginLocked, FindLogin
    <3>2. HoldsLogin(w)'
      BY <1>4, <1>5, <2>2, <3>1 DEF HoldsLogin
    <3>3. QED
      BY <1>4, <3>2, LoginOthers DEF LoginInv
  <2>3. QED
    BY <1>7, <2>1, <2>2 DEF FindLogin, LoginKey
<1>8. QED
  BY <1>6, <1>7

LEMMA WantedKnown ==
  ASSUME IInv, NEW w \in Workers, pc[w] # "idle", WantedLogin(w) # UNSET
  PROVE  WantedLogin(w) \in KnownLogins
<1>1. Body(w) \in Bodies
  BY ServedFacts DEF IInv
<1>2. WantedLogin(w) = IF Body(w).kind = "create" THEN Body(w).row.login ELSE Body(w).patch.login
  BY DEF WantedLogin, IsCreate
<1>3. QED
  BY <1>1, <1>2 DEF KnownLogins

\* A commit stores a login that the worker has reserved, or the one that the
\* customer had.
LEMMA LoginCommitted ==
  ASSUME IInv, LoginInv, NEW w \in Workers, Commit(w) \/ CommitUnconfirmed(w)
  PROVE  LoginInv'
<1> DEFINE id == draft[w].id
           login == draft[w].row.login
<1>1. Committing(w) /\ Publish(w) /\ Finish(w)
  BY DEF Commit, CommitUnconfirmed, Committing
<1>2. /\ TypeOK /\ WorkerInv(w) /\ pc[w] # "idle"
      /\ customers' = [customers EXCEPT ![id] = draft[w].row] /\ draft[w] \in Draft
  BY <1>1, PublishFacts DEF IInv, Committing
<1>3. /\ id \in Ids /\ login \in Logins
      /\ customers'[id].login = login
      /\ \A i \in Ids \ {id} : customers'[i] = customers[i]
  BY <1>2 DEF TypeOK, Draft, Customer
<1>4. Drafted(w) /\ (~IsCreate(w) => HoldsRow(w))
  BY <1>1, <1>2 DEF WorkerInv, MayWrite, HasDraft
<1>5. \/ /\ WantedLogin(w) # UNSET /\ Fold[login] = LoginKey(w)
         /\ LoginKey(w) \in Logins /\ loginLock[LoginKey(w)] = w
         /\ \A i \in Ids \ {id} : customers[i] # NONE => Fold[customers[i].login] # LoginKey(w)
         /\ login = WantedLogin(w)
      \/ customers[id] # NONE /\ login = customers[id].login
  <2>1. WantedLogin(w) # UNSET => /\ LoginKey(w) \in Logins /\ loginLock[LoginKey(w)] = w
                                 /\ \A i \in Ids \ {CurrentId(w)} :
                                      customers[i] # NONE => Fold[customers[i].login] # LoginKey(w)
    BY <1>1, <1>2, ServedFacts DEF LoginInv, HoldsLogin, LoginLocked, LoginSearched, TakenMeanwhile,
       Committing
  <2>2. CASE IsCreate(w)
    <3>1. WantedLogin(w) = login /\ CurrentId(w) = -1 /\ customers[id] = NONE
      BY <1>4, <2>2 DEF WantedLogin, Drafted, CurrentId
    <3>2. WantedLogin(w) # UNSET /\ LoginKey(w) = Fold[login]
      BY <1>3, <3>1, DataFacts DEF LoginKey
    <3>3. -1 \notin Ids
      BY NoneFacts DEF Ids
    <3>4. QED
      BY <2>1, <3>1, <3>2, <3>3
  <2>3. CASE ~IsCreate(w)
    <3>1. /\ id = Body(w).ref /\ CurrentId(w) = id /\ customers[id] # NONE
          /\ draft[w].row = Patched(Body(w).patch, customers[id], customers[id])
          /\ WantedLogin(w) = Body(w).patch.login
      BY <1>4, <2>3 DEF Drafted, HoldsRow, CurrentId, WantedLogin
    <3>2. login = Overlay(WantedLogin(w), customers[id].login)
      BY <3>1 DEF Patched
    <3>3. CASE WantedLogin(w) = UNSET
      BY <3>1, <3>2, <3>3 DEF Overlay
    <3>4. CASE WantedLogin(w) # UNSET
      BY <2>1, <3>1, <3>2, <3>4 DEF Overlay, LoginKey
    <3>5. QED
      BY <3>3, <3>4
  <2>4. QED
    BY <2>2, <2>3
<1>6. \A i \in Ids \ {id} : customers[i] # NONE => Fold[customers[i].login] # Fold[login]
  BY <1>3, <1>5 DEF LoginInv, LoginsUnique
<1>7. LoginsUnique'
  <2>1. \A i \in Ids \ {id} : customers'[i] # NONE => Fold[customers'[i].login] # Fold[customers'[id].login]
    BY <1>3, <1>6
  <2>2. \A i, j \in Ids \ {id} : customers'[i] # NONE /\ customers'[j] # NONE /\ i # j =>
          Fold[customers'[i].login] # Fold[customers'[j].login]
    BY <1>3 DEF LoginInv, LoginsUnique
  <2>3. QED
    BY <2>1, <2>2 DEF LoginsUnique
<1>8. ASSUME NEW v \in Workers \ {w} PROVE HoldsLogin(v)'
  <2>1. /\ pc'[v] = pc[v] /\ msg'[v] = msg[v] /\ commitRequested'[v] = commitRequested[v]
        /\ v # NONE
    BY <1>1, <1>2, NoneFacts DEF TypeOK, Finish, Goto
  <2>2. /\ (WantedLogin(v))' = WantedLogin(v) /\ (LoginKey(v))' = LoginKey(v)
        /\ (CurrentId(v))' = CurrentId(v)
        /\ (LoginLocked(v))' = LoginLocked(v) /\ (LoginSearched(v))' = LoginSearched(v)
    BY <2>1 DEF WantedLogin, LoginKey, CurrentId, IsCreate, Body, LoginLocked, LoginSearched, Committing
  <2>3. LoginSearched(v) => LoginLocked(v) /\ pc[v] # "idle"
    BY DEF LoginLocked, LoginSearched, Committing
  <2>4. LoginLocked(v) => pc[v] # "idle"
    BY DEF LoginLocked, Committing
  <2>5. LoginLocked(v) /\ WantedLogin(v) # UNSET =>
          LoginKey(v) \in Logins /\ loginLock[LoginKey(v)] = v /\ loginLock'[LoginKey(v)] = v
    BY <1>1, <1>2, <2>1, <2>4, ServedFacts DEF IInv, TypeOK, LoginInv, HoldsLogin, Finish, Unlock, UnlockLogin
  <2>6. ASSUME LoginSearched(v), WantedLogin(v) # UNSET
        PROVE  \A i \in Ids \ {CurrentId(v)} :
                 customers'[i] # NONE => Fold[customers'[i].login] # LoginKey(v) \/ TakenMeanwhile(v, i)'
    <3>1. \A i \in Ids \ {CurrentId(v)} : customers[i] # NONE =>
            Fold[customers[i].login] # LoginKey(v) \/ TakenMeanwhile(v, i)
      BY <2>6 DEF LoginInv, HoldsLogin
    <3>2. id # CurrentId(v) => Fold[login] # LoginKey(v) \/ (pc[v] = "write" /\ login = WantedLogin(v))
      <4>1. CASE customers[id] # NONE /\ login = customers[id].login
        BY <1>3, <3>1, <4>1 DEF TakenMeanwhile
      <4>2. CASE Fold[login] = LoginKey(w) /\ loginLock[LoginKey(w)] = w
        BY <2>3, <2>5, <2>6, <4>2
      <4>3. QED
        BY <1>5, <4>1, <4>2
    <3>3. QED
      BY <1>3, <2>1, <2>2, <3>1, <3>2 DEF TakenMeanwhile
  <2>7. QED
    BY <2>2, <2>5, <2>6 DEF HoldsLogin
<1>9. HoldsLogin(w)'
  <2>1. pc'[w] = "idle"
    BY <1>1, <1>2 DEF TypeOK, Finish, Goto
  <2>2. QED
    BY <2>1 DEF HoldsLogin, LoginLocked, LoginSearched, Committing
<1>10. LoginsKnown'
  <2>1. login \in KnownLogins
    <3>1. WantedLogin(w) # UNSET => WantedLogin(w) \in KnownLogins
      BY <1>2, WantedKnown
    <3>2. QED
      BY <1>3, <1>5, <3>1 DEF LoginInv, LoginsKnown
  <2>2. QED
    BY <1>3, <2>1 DEF LoginInv, LoginsKnown
<1>11. QED
  BY <1>7, <1>8, <1>9, <1>10 DEF LoginInv

LEMMA LoginRemoved ==
  ASSUME IInv, LoginInv, NEW i \in Ids, RemoveCustomer(i)
  PROVE  LoginInv'
<1>1. TypeOK
  BY DEF IInv
<1>2. \A j \in Ids : customers'[j] \in {NONE, customers[j]}
  BY <1>1 DEF RemoveCustomer, TypeOK
<1>3. LoginsUnique' /\ LoginsKnown'
  BY <1>2 DEF LoginInv, LoginsUnique, LoginsKnown
<1>4. ASSUME NEW v \in Workers PROVE HoldsLogin(v)'
  <2>1. /\ (WantedLogin(v))' = WantedLogin(v) /\ (LoginKey(v))' = LoginKey(v)
        /\ (CurrentId(v))' = CurrentId(v) /\ loginLock' = loginLock
        /\ (LoginLocked(v))' = LoginLocked(v) /\ (LoginSearched(v))' = LoginSearched(v)
        /\ pc' = pc
    BY DEF RemoveCustomer, locks, transaction, WantedLogin, LoginKey, CurrentId, IsCreate, Body,
       LoginLocked, LoginSearched, Committing
  <2>2. QED
    BY <1>2, <2>1 DEF LoginInv, HoldsLogin, TakenMeanwhile
<1>5. QED
  BY <1>3, <1>4 DEF LoginInv

\* The programs that insert customers without the login lock use no login that
\* differs in case only from one that anybody else uses.
CaseKept ==
  \A row \in LegacyRows, l \in KnownLogins : Fold[l] = Fold[row.login] => l = row.login

\* They cannot insert the login of a draft, nor one that a customer has.
LEMMA LoginInserted ==
  ASSUME IInv, LoginInv, CaseKept, NEW row \in LegacyRows, LegacyInsert(row)
  PROVE  LoginInv'
<1>1. /\ TypeOK /\ nextId \in Ids /\ row \in Customer
      /\ customers'[nextId] = row /\ \A i \in Ids \ {nextId} : customers'[i] = customers[i]
  BY NoneFacts, CustomerSyncAssumption
  DEF CustomerSyncAssumption, IInv, TypeOK, LegacyInsert, Ids
<1>2. row.login \in KnownLogins
  BY <1>1, DataFacts DEF KnownLogins, Customer
<1>3. ASSUME NEW i \in Ids \ {nextId}, customers[i] # NONE
      PROVE  Fold[customers[i].login] # Fold[row.login]
  BY <1>3 DEF LegacyInsert, LoginTaken, CaseKept, LoginInv, LoginsKnown
<1>4. LoginsUnique' /\ LoginsKnown'
  BY <1>1, <1>2, <1>3 DEF LoginInv, LoginsUnique, LoginsKnown
<1>5. ASSUME NEW v \in Workers PROVE HoldsLogin(v)'
  <2>1. /\ (WantedLogin(v))' = WantedLogin(v) /\ (LoginKey(v))' = LoginKey(v)
        /\ (CurrentId(v))' = CurrentId(v) /\ loginLock' = loginLock
        /\ (LoginLocked(v))' = LoginLocked(v) /\ (LoginSearched(v))' = LoginSearched(v)
        /\ pc' = pc
    BY DEF LegacyInsert, locks, transaction, WantedLogin, LoginKey, CurrentId, IsCreate, Body,
       LoginLocked, LoginSearched, Committing
  <2>2. ASSUME LoginSearched(v), WantedLogin(v) # UNSET, Fold[row.login] = LoginKey(v)
        PROVE  pc[v] = "write" /\ row.login = WantedLogin(v)
    <3>1. WorkerInv(v) /\ pc[v] # "idle"
      BY <2>2 DEF IInv, LoginSearched, Committing
    <3>2. WantedLogin(v) = row.login
      BY <2>2, <3>1, WantedKnown DEF CaseKept, LoginKey
    <3>3. pc[v] # "write" => draft[v] # NONE /\ draft[v].row.login = WantedLogin(v)
      <4>1. pc[v] # "write" => Drafted(v)
        BY <2>2, <3>1 DEF WorkerInv, HasDraft, LoginSearched, Written
      <4>2. Drafted(v) => draft[v].row.login = WantedLogin(v)
        BY <2>2 DEF Drafted, WantedLogin, Patched, Overlay
      <4>3. QED
        BY <4>1, <4>2 DEF Drafted
    <3>4. QED
      BY <3>2, <3>3 DEF LegacyInsert
  <2>3. QED
    BY <1>1, <2>1, <2>2 DEF LoginInv, HoldsLogin, TakenMeanwhile
<1>6. QED
  BY <1>4, <1>5 DEF LoginInv

LEMMA LoginStutter == LoginInv /\ UNCHANGED vars => LoginInv'
BY DEF LoginInv, LoginsUnique, LoginsKnown, TakenMeanwhile, HoldsLogin, WantedLogin, LoginKey, CurrentId, IsCreate, Body,
   LoginLocked, LoginSearched, Committing, vars, database, locks, transaction

\* Two customers never have logins that differ in case only, provided that
\* this holds before the first event and that the programs that insert
\* customers without the login lock keep the case that others write.
THEOREM UniqueLogins ==
  ASSUME CaseKept,
         \A i, j \in Ids :
           InitialCustomers[i] # NONE /\ InitialCustomers[j] # NONE /\ i # j
             => Fold[InitialCustomers[i].login] # Fold[InitialCustomers[j].login]
  PROVE  Spec => []LoginsUnique
<1>1. Init => LoginInv
  <2> SUFFICES ASSUME Init PROVE LoginInv
    OBVIOUS
  <2>1. LoginsKnown
    BY CustomerSyncAssumption, DataFacts DEF CustomerSyncAssumption, Init, LoginsKnown, KnownLogins, Customer
  <2>2. QED
    BY <2>1 DEF Init, LoginInv, LoginsUnique, HoldsLogin, LoginLocked, LoginSearched, Committing
<1>2. IInv /\ LoginInv /\ [Next]_vars => LoginInv'
  <2> SUFFICES ASSUME IInv, LoginInv, [Next]_vars PROVE LoginInv'
    OBVIOUS
  <2>1. ASSUME NEW w \in Workers, Serve(w) \/ Fail(w) \/ \E m \in Messages : Deliver(w, m)
        PROVE  LoginInv'
    BY <2>1, LoginNotNeeded, LoginReserved, LoginWritten, LoginKept, LoginCommitted DEF Serve, Fail
  <2>2. ASSUME NEW i \in Ids, RemoveCustomer(i) PROVE LoginInv'
    BY <2>2, LoginRemoved
  <2>3. ASSUME NEW row \in LegacyRows, LegacyInsert(row) PROVE LoginInv'
    BY <2>3, LoginInserted
  <2>4. QED
    BY <2>1, <2>2, <2>3, LoginStutter DEF Next
<1>3. LoginInv => LoginsUnique
  BY DEF LoginInv
<1>4. QED
  BY <1>1, <1>2, <1>3, Invariant, PTL DEF Spec

-----------------------------------------------------------------------------
(* Creations                                                               *)

Created(e) == events[e] # NONE /\ events[e].body.kind = "create"

\* Records refer to customers that are there, those of creations to different
\* ones; and every new customer has one or is what another program inserted.
CreatedInv ==
  /\ \A e \in EventIds : events[e] # NONE => events[e].ref \in Ids /\ customers[events[e].ref] # NONE
  /\ \A e, f \in EventIds :
       Created(e) /\ Created(f) /\ events[e].ref = events[f].ref => e = f
  /\ \A i \in Ids : customers[i] # NONE /\ InitialCustomers[i] = NONE =>
       \/ \E e \in EventIds : Created(e) /\ events[e].ref = i
       \/ i >= FirstId /\ customers[i] \in LegacyRows
  /\ FirstId <= nextId

\* The steps that change customers or records.
LEMMA DatabaseStep ==
  ASSUME [Next]_vars
  PROVE  \/ UNCHANGED <<customers, events>>
         \/ \E w \in Workers : Commit(w) \/ CommitUnconfirmed(w)
         \/ \E i \in Ids : RemoveCustomer(i)
         \/ \E row \in LegacyRows : LegacyInsert(row)
<1>1. ASSUME NEW w \in Workers,
             \/ WriteUpdated(w) \/ WriteCreated(w) \/ IdsExhausted(w) \/ LockRow(w) \/ RereadRow(w)
             \/ SaveLookup(w) \/ InsertEvent(w)
      PROVE  UNCHANGED <<customers, events>>
  BY <1>1 DEF WriteUpdated, WriteCreated, IdsExhausted, LockRow, RereadRow, SaveLookup, InsertEvent,
              database
<1>2. ASSUME NEW w \in Workers,
             \/ LockEvent(w) \/ Lookup(w) \/ CustomerExists(w) \/ LockLogin(w) \/ FindLogin(w)
             \/ Rollback(w) \/ Abort(w)
      PROVE  UNCHANGED <<customers, events>>
  BY <1>2 DEF LockEvent, Lookup, CustomerExists, LockLogin, FindLogin, Rollback, Abort, database
<1>3. ASSUME NEW w \in Workers, NEW m \in Messages, Deliver(w, m)
      PROVE  UNCHANGED <<customers, events>>
  BY <1>3 DEF Deliver, database
<1>4. CASE UNCHANGED vars
  BY <1>4 DEF vars, database
<1>5. QED
  BY <1>1, <1>2, <1>3, <1>4 DEF Next, Serve, Fail

\* A commit records its event with the customer that it leaves: a new one for
\* a creation.
LEMMA CommittedRecord ==
  ASSUME IInv, NEW w \in Workers, Commit(w) \/ CommitUnconfirmed(w)
  PROVE  \E e \in EventIds, r \in Ids :
           /\ events[e] = NONE /\ events'[e] # NONE /\ events'[e].ref = r
           /\ \A f \in EventIds \ {e} : events'[f] = events[f]
           /\ customers'[r] # NONE
           /\ \A i \in Ids \ {r} : customers'[i] = customers[i]
           /\ events'[e].body \in Bodies
           /\ IF events'[e].body.kind = "create" THEN customers[r] = NONE
                                                 ELSE customers[r] # NONE /\ r = events'[e].body.ref
<1>1. Committing(w) /\ Publish(w)
  BY DEF Commit, CommitUnconfirmed, Committing
<1>2. TypeOK /\ WorkerInv(w) /\ pc[w] = "exit"
  BY <1>1 DEF IInv, Committing
<1> DEFINE e == Event(w)
           r == ResultRef(w)
<1>3. /\ customers' = [customers EXCEPT ![draft[w].id] = draft[w].row]
      /\ events' = [events EXCEPT ![e] = entry[w]]
      /\ e \in EventIds /\ draft[w] \in Draft /\ entry[w] \in Record
  BY <1>1, PublishFacts
<1>4. /\ events[e] = NONE /\ entry[w] = [body |-> Body(w), ref |-> r]
      /\ Drafted(w)
      /\ ~IsCreate(w) => HoldsRow(w)
  BY <1>1, <1>2 DEF WorkerInv, ServesEvent, MayWrite, HasDraft, HasOutcome
<1>5. /\ r = draft[w].id /\ r \in Ids
      /\ IF IsCreate(w) THEN customers[r] = NONE ELSE customers[r] # NONE /\ r = Body(w).ref
  BY <1>4 DEF Drafted, HoldsRow, ResultRef
<1>6. events'[e] = entry[w] /\ \A f \in EventIds \ {e} : events'[f] = events[f]
  BY <1>2, <1>3 DEF TypeOK
<1>7. /\ entry[w] # NONE /\ entry[w].ref = r
      /\ entry[w].body.kind = "create" <=> IsCreate(w)
  BY <1>3, <1>4, NoneFacts DEF IsCreate
<1>8. customers'[r] # NONE /\ \A i \in Ids \ {r} : customers'[i] = customers[i]
  BY <1>2, <1>3, <1>5, NoneFacts DEF TypeOK, Draft
<1> HIDE DEF e, r
<1>9. /\ events'[e].body \in Bodies
      /\ IF events'[e].body.kind = "create" THEN customers[r] = NONE
                                            ELSE customers[r] # NONE /\ r = events'[e].body.ref
  BY <1>3, <1>4, <1>5, <1>6, <1>7 DEF Record
<1>10. QED
  BY <1>3, <1>4, <1>5, <1>6, <1>7, <1>8, <1>9

\* No event updates a customer that another program may have inserted.
InsertedLeftAlone ==
  LegacyRows # {} => \A b \in Bodies : b.kind = "update" => b.ref < FirstId

LEMMA CreatedStep ==
  ASSUME IInv, CreatedInv, InsertedLeftAlone, [Next]_vars
  PROVE  CreatedInv'
<1> /\ TypeOK /\ nextId \in Int /\ FirstId \in Int /\ \A i \in Ids : i \in Int
  BY NoneFacts, CustomerSyncAssumption DEF IInv, TypeOK, CustomerSyncAssumption
<1>0. FirstId <= nextId'
  <2>1. nextId' \in {nextId, nextId + 1}
    <3>1. ASSUME NEW w \in Workers, Serve(w) \/ Fail(w) PROVE nextId' \in {nextId, nextId + 1}
      BY <3>1 DEF Serve, Fail, LockEvent, Lookup, CustomerExists, LockRow, RereadRow, LockLogin, FindLogin,
         WriteCreated, IdsExhausted, WriteUpdated, SaveLookup, InsertEvent, Commit, Rollback,
         CommitUnconfirmed, Abort, database
    <3>2. QED
      BY <3>1 DEF Next, Deliver, RemoveCustomer, LegacyInsert, vars, database
  <2>2. QED
    BY <2>1 DEF CreatedInv
<1>1. CASE UNCHANGED <<customers, events>>
  BY <1>0, <1>1 DEF CreatedInv, Created
<1>2. ASSUME NEW w \in Workers, Commit(w) \/ CommitUnconfirmed(w) PROVE CreatedInv'
  <2>1. PICK e \in EventIds, r \in Ids :
           /\ events[e] = NONE /\ events'[e] # NONE /\ events'[e].ref = r
           /\ \A f \in EventIds \ {e} : events'[f] = events[f]
           /\ customers'[r] # NONE
           /\ \A i \in Ids \ {r} : customers'[i] = customers[i]
           /\ events'[e].body \in Bodies
           /\ IF events'[e].body.kind = "create" THEN customers[r] = NONE
                                                 ELSE customers[r] # NONE /\ r = events'[e].body.ref
    BY <1>2, CommittedRecord
  <2>2. \A f \in EventIds \ {e} : Created(f)' <=> Created(f)
    BY <2>1 DEF Created
  <2>3. \A f \in EventIds : events'[f] # NONE =>
          events'[f].ref \in Ids /\ customers'[events'[f].ref] # NONE
    BY <2>1 DEF CreatedInv
  <2>4. ASSUME NEW f \in EventIds \ {e}, Created(e)', Created(f) PROVE events[f].ref # r
    BY <2>1, <2>4 DEF CreatedInv, Created
  <2>5. ASSUME NEW f \in EventIds, NEW g \in EventIds, Created(f)', Created(g)',
               events'[f].ref = events'[g].ref
        PROVE  f = g
    <3>1. CASE f = e
      BY <2>1, <2>2, <2>4, <2>5, <3>1
    <3>2. CASE g = e
      BY <2>1, <2>2, <2>4, <2>5, <3>2
    <3>3. CASE f # e /\ g # e
      BY <2>1, <2>2, <2>5, <3>3 DEF CreatedInv
    <3>4. QED
      BY <3>1, <3>2, <3>3
  <2>6. ASSUME NEW i \in Ids, customers'[i] # NONE, InitialCustomers[i] = NONE
        PROVE  \/ \E f \in EventIds : Created(f)' /\ events'[f].ref = i
               \/ i >= FirstId /\ customers'[i] \in LegacyRows
    <3>1. CASE \E f \in EventIds : Created(f) /\ events[f].ref = i
      <4>1. PICK f \in EventIds : Created(f) /\ events[f].ref = i
        BY <3>1
      <4>2. f # e
        BY <2>1, <4>1 DEF Created
      <4>3. QED
        BY <2>1, <2>2, <4>1, <4>2
    <3>2. CASE customers[i] = NONE
      <4>1. i = r /\ Created(e)'
        BY <2>1, <2>6, <3>2 DEF Created
      <4>2. QED
        BY <2>1, <4>1
    <3>3. CASE i >= FirstId /\ customers[i] \in LegacyRows /\ customers[i] # NONE
      <4>1. i # r
        <5>1. SUFFICES ASSUME i = r PROVE FALSE
          OBVIOUS
        <5>2. events'[e].body.kind = "update"
          BY <2>1, <3>3, <5>1, CustomerSyncAssumption DEF CustomerSyncAssumption, CreateBody, UpdateBody
        <5>3. QED
          BY <2>1, <3>3, <5>1, <5>2 DEF InsertedLeftAlone
      <4>2. QED
        BY <2>1, <3>3, <4>1
    <3>4. QED
      BY <2>6, <3>1, <3>2, <3>3 DEF CreatedInv
  <2>7. QED
    BY <1>0, <2>3, <2>5, <2>6 DEF CreatedInv
<1>3. ASSUME NEW i \in Ids, RemoveCustomer(i) PROVE CreatedInv'
  <2>1. /\ events' = events
        /\ \A e \in EventIds : events[e] # NONE => events[e].ref # i
        /\ customers'[i] = NONE /\ \A j \in Ids \ {i} : customers'[j] = customers[j]
    BY <1>3 DEF RemoveCustomer, IInv, TypeOK
  <2>2. QED
    BY <1>0, <2>1 DEF CreatedInv, Created
<1>4. ASSUME NEW row \in LegacyRows, LegacyInsert(row) PROVE CreatedInv'
  <2>1. /\ nextId \in Ids /\ nextId >= FirstId /\ events' = events
        /\ customers'[nextId] = row /\ row # NONE
        /\ \A j \in Ids \ {nextId} : customers'[j] = customers[j]
        /\ customers[nextId] = NONE
    BY <1>4, NoneFacts, CustomerSyncAssumption
    DEF CustomerSyncAssumption, LegacyInsert, IInv, IdsFresh, TypeOK, CreatedInv, Ids
  <2>2. QED
    BY <1>0, <2>1 DEF CreatedInv, Created
<1>5. QED
  BY <1>1, <1>2, <1>3, <1>4, DatabaseStep

\* Every customer that was not there at first and is not what another program
\* inserted stems from exactly one recorded creation, whatever was retried and
\* whichever transactions failed (events.py:61-85, insert.py).  An event that
\* updates an inserted customer makes it neither the one nor the other.
THEOREM OneCreation ==
  ASSUME InsertedLeftAlone
  PROVE  Spec => []CreatedOnce
<1>1. Init => CreatedInv
  BY CustomerSyncAssumption DEF CustomerSyncAssumption, Init, CreatedInv, Created
<1>2. IInv /\ CreatedInv /\ [Next]_vars => CreatedInv'
  BY CreatedStep
<1>3. CreatedInv => CreatedOnce
  BY DEF CreatedInv, CreatedOnce, Created
<1>4. QED
  BY <1>1, <1>2, <1>3, Invariant, PTL DEF Spec

-----------------------------------------------------------------------------
(* Nobody waits for ever                                                   *)

\* Who holds an event, a row or a login is behind the statement that locked it
\* and has not finished; and who waits for a row has found it before.
LockHolder(w) ==
  /\ \A e \in EventIds : eventLock[e] = w => pc[w] \in EventLocked
  /\ \A i \in Ids : rowLock[i] = w => pc[w] \in RowLocked \cup {"exit"}
  /\ \A l \in Logins : loginLock[l] = w =>
       pc[w] \in {"findLogin", "write", "saveLookup", "insertEvent", "exit"}
  /\ pc[w] = "waitRow" => Body(w).ref \in Ids

HoldersInv == \A w \in Workers : LockHolder(w)

\* A step of w gives the others no lock.
LEMMA HoldersStep ==
  ASSUME IInv, HoldersInv, NEW w \in Workers,
         \A v \in Workers \ {w} : pc'[v] = pc[v] /\ msg'[v] = msg[v],
         \A e \in EventIds : eventLock'[e] \in {NONE, w, eventLock[e]},
         \A i \in Ids : rowLock'[i] \in {NONE, w, rowLock[i]},
         \A l \in Logins : loginLock'[l] \in {NONE, w, loginLock[l]},
         LockHolder(w)'
  PROVE  HoldersInv'
<1>1. ASSUME NEW v \in Workers \ {w} PROVE LockHolder(v)'
  <2>1. LockHolder(v) /\ pc'[v] = pc[v] /\ Body(v)' = Body(v) /\ v # NONE
    BY NoneFacts DEF HoldersInv, Body
  <2>2. QED
    BY <2>1 DEF LockHolder
<1>2. QED
  BY <1>1 DEF HoldersInv

\* The end of a transaction, however it comes, leaves no lock behind.
LEMMA HoldersFinish ==
  ASSUME IInv, HoldersInv, NEW w \in Workers, Finish(w)
  PROVE  HoldersInv'
<1>1. TypeOK /\ w # NONE
  BY NoneFacts DEF IInv
<1>2. /\ \A e \in EventIds : eventLock'[e] \in {NONE, eventLock[e]} \ {w}
      /\ \A i \in Ids : rowLock'[i] \in {NONE, rowLock[i]} \ {w}
      /\ \A l \in Logins : loginLock'[l] \in {NONE, loginLock[l]} \ {w}
  BY <1>1 DEF TypeOK, Finish, Unlock, UnlockLogin
<1>3. \A v \in Workers \ {w} : pc'[v] = pc[v] /\ msg'[v] = msg[v]
  BY <1>1 DEF TypeOK, Finish, Goto
<1>4. LockHolder(w)'
  <2>1. pc'[w] = "idle"
    BY <1>1 DEF TypeOK, Finish, Goto
  <2>2. QED
    BY <1>2, <2>1 DEF LockHolder
<1>5. QED
  BY <1>2, <1>3, <1>4, HoldersStep

\* The statements before the customer is locked.
LEMMA HoldersBegin ==
  ASSUME IInv, HoldersInv, NEW w \in Workers,
         (\E m \in Messages : Deliver(w, m)) \/ LockEvent(w) \/ Lookup(w) \/ CustomerExists(w)
  PROVE  HoldersInv'
<1>1. TypeOK /\ LockHolder(w)
  BY DEF IInv, HoldersInv
<1>2. pc[w] \in {"idle", "lockEvent", "lookup", "exists"}
  BY DEF Deliver, LockEvent, Lookup, CustomerExists
<1>3. /\ \A i \in Ids : rowLock[i] # w
      /\ \A l \in Logins : loginLock[l] # w
      /\ UNCHANGED <<rowLock, loginLock>>
      /\ \A v \in Workers \ {w} : pc'[v] = pc[v] /\ msg'[v] = msg[v]
  BY <1>1, <1>2 DEF LockHolder, RowLocked, TypeOK, Deliver, LockEvent, Lookup, CustomerExists, locks,
     Leave, Raise, Goto
<1>4. \A e \in EventIds : eventLock'[e] \in {w, eventLock[e]} /\ (eventLock'[e] = w => pc'[w] \in EventLocked)
  <2>1. CASE \E m \in Messages : Deliver(w, m)
    BY <1>1, <2>1 DEF LockHolder, Deliver, locks, EventLocked
  <2>2. CASE LockEvent(w)
    BY <1>1, <2>2 DEF TypeOK, LockEvent, Goto, EventLocked, PCs
  <2>3. CASE Lookup(w) \/ CustomerExists(w)
    BY <1>1, <2>3 DEF TypeOK, Lookup, CustomerExists, locks, Leave, Raise, Goto, EventLocked, PCs
  <2>4. QED
    BY <2>1, <2>2, <2>3
<1>5. LockHolder(w)'
  <2>1. pc'[w] # "waitRow"
    BY <1>1 DEF TypeOK, Deliver, LockEvent, Lookup, CustomerExists, Leave, Raise, Goto
  <2>2. QED
    BY <1>3, <1>4, <2>1 DEF LockHolder
<1>6. QED
  BY <1>3, <1>4, <1>5, HoldersStep

\* The row lock.
LEMMA HoldersRow ==
  ASSUME IInv, HoldersInv, NEW w \in Workers, LockRow(w) \/ RereadRow(w)
  PROVE  HoldersInv'
<1>1. TypeOK /\ LockHolder(w)
  BY DEF IInv, HoldersInv
<1>2. pc[w] \in {"lockRow", "waitRow"} /\ UNCHANGED <<eventLock, loginLock>>
  BY DEF LockRow, RereadRow
<1>3. /\ \A i \in Ids : rowLock[i] # w
      /\ \A l \in Logins : loginLock[l] # w
  BY <1>1, <1>2 DEF LockHolder, RowLocked
<1>4. /\ pc'[w] \in {"exit", "write", "lockLogin", "waitRow"}
      /\ \A v \in Workers \ {w} : pc'[v] = pc[v] /\ msg'[v] = msg[v]
      /\ \A i \in Ids : rowLock'[i] \in {w, rowLock[i]}
      /\ pc'[w] = "waitRow" => UNCHANGED rowLock /\ Exists(Body(w).ref)
      /\ UNCHANGED msg
  BY <1>1 DEF TypeOK, LockRow, RereadRow, RowRead, RowFetched, Leave, Raise, Goto
<1>5. LockHolder(w)'
  BY <1>2, <1>3, <1>4, SameMessage DEF LockHolder, EventLocked, RowLocked, PCs, Exists
<1>6. QED
  BY <1>2, <1>4, <1>5, HoldersStep

\* The login lock, and the steps that lock nothing more.
LEMMA HoldersWrite ==
  ASSUME IInv, HoldersInv, NEW w \in Workers,
         \/ LockLogin(w) \/ FindLogin(w) \/ WriteCreated(w) \/ WriteUpdated(w)
         \/ SaveLookup(w) \/ InsertEvent(w)
  PROVE  HoldersInv'
<1>1. TypeOK /\ WorkerInv(w)
  BY DEF IInv, HoldersInv
<1>2. pc'[w] \in {"findLogin", "write", "saveLookup", "insertEvent", "exit"}
  BY <1>1 DEF TypeOK, LockLogin, FindLogin, WriteCreated, WriteUpdated, SaveLookup, InsertEvent,
     Confirm, Leave, Raise, Goto
<1>3. /\ \A v \in Workers \ {w} : pc'[v] = pc[v] /\ msg'[v] = msg[v]
      /\ UNCHANGED rowLock
      /\ \A e \in EventIds : eventLock'[e] \in {w, eventLock[e]}
      /\ \A l \in Logins : loginLock'[l] \in {w, loginLock[l]}
  BY <1>1 DEF TypeOK, LockLogin, FindLogin, WriteCreated, WriteUpdated, SaveLookup, InsertEvent,
     Confirm, Leave, Raise, Goto, locks
<1>4. LockHolder(w)'
  BY <1>2 DEF LockHolder, EventLocked, RowLocked, PCs
<1>5. QED
  BY <1>3, <1>4, HoldersStep

LEMMA HoldersNext == IInv /\ HoldersInv /\ [Next]_vars => HoldersInv'
<1> SUFFICES ASSUME IInv, HoldersInv, [Next]_vars PROVE HoldersInv'
  OBVIOUS
<1>1. ASSUME NEW w \in Workers, NEW m \in Messages, Deliver(w, m) PROVE HoldersInv'
  BY <1>1, HoldersBegin
<1>2. ASSUME NEW w \in Workers, Serve(w) \/ Fail(w) PROVE HoldersInv'
  <2>1. CASE \/ LockEvent(w) \/ Lookup(w) \/ CustomerExists(w)
    BY <2>1, HoldersBegin
  <2>2. CASE LockRow(w) \/ RereadRow(w)
    BY <2>2, HoldersRow
  <2>3. CASE \/ LockLogin(w) \/ FindLogin(w) \/ WriteCreated(w) \/ WriteUpdated(w)
             \/ SaveLookup(w) \/ InsertEvent(w)
    BY <2>3, HoldersWrite
  <2>4. CASE IdsExhausted(w) \/ Commit(w) \/ Rollback(w) \/ Fail(w)
    <3>1. Finish(w)
      BY <2>4 DEF IdsExhausted, Commit, Rollback, Fail, CommitUnconfirmed, Abort
    <3>2. QED
      BY <3>1, HoldersFinish
  <2>5. QED
    BY <1>2, <2>1, <2>2, <2>3, <2>4 DEF Serve
<1>3. ASSUME UNCHANGED <<locks, pc, msg>> PROVE HoldersInv'
  BY <1>3 DEF HoldersInv, LockHolder, Body, locks
<1>4. ASSUME NEW i \in Ids, RemoveCustomer(i) PROVE HoldersInv'
  BY <1>3, <1>4 DEF RemoveCustomer
<1>5. ASSUME NEW row \in LegacyRows, LegacyInsert(row) PROVE HoldersInv'
  BY <1>3, <1>5 DEF LegacyInsert
<1>6. QED
  BY <1>1, <1>2, <1>3, <1>4, <1>5 DEF Next, vars

\* Whoever has written the customer waits for nobody: it has the event to
\* itself, and so nobody else is recording that event.
LEMMA WritersGetOn ==
  ASSUME IInv, NEW w \in Workers, draft[w] # NONE
  PROVE  pc[w] # "idle" /\ ~Waits(w)
<1>1. TypeOK /\ WorkerInv(w)
  BY DEF IInv
<1>2. pc[w] \in {"saveLookup", "insertEvent", "exit"}
  BY <1>1 DEF WorkerInv, HasDraft, Written, Committing
<1>3. eventLock[Event(w)] = w
  BY <1>1, <1>2 DEF WorkerInv, ServesEvent, EventLocked, PCs
<1>4. ASSUME NEW v \in Workers \ {w}, entry[v] # NONE PROVE Event(v) # Event(w)
  <2>1. WorkerInv(v)
    BY DEF IInv
  <2>2. pc[v] = "exit"
    BY <1>4, <2>1 DEF WorkerInv, HasOutcome, Committing
  <2>3. eventLock[Event(v)] = v
    BY <2>1, <2>2 DEF WorkerInv, ServesEvent, EventLocked, PCs
  <2>4. QED
    BY <1>3, <2>3
<1>5. QED
  BY <1>2, <1>3, <1>4 DEF Waits, Free

\* Who waits behind its login waits for a writer, ...
LEMMA LoginHoldersGetOn ==
  ASSUME IInv, NEW w \in Workers,
         pc[w] \in {"findLogin", "write", "saveLookup", "insertEvent", "exit"}
  PROVE  \E v \in Workers : pc[v] # "idle" /\ ~Waits(v)
<1>1. CASE \E v \in Workers : draft[v] # NONE
  BY <1>1, WritersGetOn
<1>2. CASE \A v \in Workers : draft[v] = NONE
  <2>1. WorkerInv(w)
    BY DEF IInv
  <2>2. pc[w] \notin {"saveLookup", "insertEvent"}
    BY <1>2, <2>1 DEF WorkerInv, HasDraft, Drafted, Written
  <2>3. ~LoginBeingWritten(w, WantedLogin(w))
    BY <1>2 DEF LoginBeingWritten
  <2>4. QED
    BY <2>2, <2>3 DEF Waits
<1>3. QED
  BY <1>1, <1>2

\* ... who waits for a login waits for such a worker, ...
LEMMA RowHoldersGetOn ==
  ASSUME IInv, HoldersInv, NEW w \in Workers, pc[w] \in RowLocked \cup {"exit"}
  PROVE  \E v \in Workers : pc[v] # "idle" /\ ~Waits(v)
<1>1. CASE pc[w] = "lockLogin" /\ Waits(w)
  <2>1. TypeOK /\ LoginKey(w) \in Logins
    BY <1>1, WritingFacts, ServedFacts DEF RowLocked
  <2>2. PICK v \in Workers : loginLock[LoginKey(w)] = v
    BY <1>1, <2>1 DEF TypeOK, Waits, Free
  <2>3. QED
    BY <2>1, <2>2, LoginHoldersGetOn DEF HoldersInv, LockHolder
<1>2. CASE pc[w] = "lockLogin" /\ ~Waits(w)
  BY <1>2
<1>3. CASE pc[w] # "lockLogin"
  BY <1>3, LoginHoldersGetOn DEF RowLocked
<1>4. QED
  BY <1>1, <1>2, <1>3

\* ... and so on for rows and events: the chain of those who wait for each
\* other follows the order of the locks and ends.
LEMMA EventHoldersGetOn ==
  ASSUME IInv, HoldersInv, NEW w \in Workers, pc[w] \in EventLocked
  PROVE  \E v \in Workers : pc[v] # "idle" /\ ~Waits(v)
<1>1. CASE pc[w] = "waitRow" /\ Waits(w)
  <2>1. TypeOK /\ WorkerInv(w)
    BY DEF IInv
  <2>2. Body(w).ref \in Ids
    BY <1>1 DEF HoldersInv, LockHolder
  <2>3. PICK v \in Workers : rowLock[Body(w).ref] = v
    BY <1>1, <2>1, <2>2 DEF TypeOK, Waits
  <2>4. QED
    BY <2>2, <2>3, RowHoldersGetOn DEF HoldersInv, LockHolder
<1>2. CASE pc[w] \in {"lookup", "exists", "lockRow", "waitRow"} /\ ~Waits(w)
  BY <1>2
<1>3. CASE pc[w] \in {"lookup", "exists", "lockRow"}
  BY <1>3 DEF Waits
<1>4. CASE pc[w] \in RowLocked \cup {"exit"}
  BY <1>4, RowHoldersGetOn
<1>5. QED
  BY <1>1, <1>2, <1>3, <1>4 DEF EventLocked, RowLocked, PCs

LEMMA SomebodyGetsOn == IInv /\ HoldersInv => ServerNeverStuck
<1> SUFFICES ASSUME IInv, HoldersInv, NEW w \in Workers, pc[w] # "idle"
             PROVE  \E v \in Workers : pc[v] # "idle" /\ ~Waits(v)
  BY DEF ServerNeverStuck
<1>1. CASE pc[w] = "lockEvent" /\ Waits(w)
  <2>1. TypeOK /\ Event(w) \in EventIds
    BY ServedFacts DEF IInv
  <2>2. PICK v \in Workers : eventLock[Event(w)] = v
    BY <1>1, <2>1 DEF TypeOK, Waits, Free
  <2>3. QED
    BY <2>1, <2>2, EventHoldersGetOn DEF HoldersInv, LockHolder
<1>2. CASE pc[w] = "lockEvent" /\ ~Waits(w)
  BY <1>2
<1>3. CASE pc[w] # "lockEvent"
  <2>1. pc[w] \in EventLocked
    BY <1>3 DEF IInv, TypeOK, EventLocked
  <2>2. QED
    BY <2>1, EventHoldersGetOn
<1>4. QED
  BY <1>1, <1>2, <1>3

\* However many requests wait for an event, a row, a login or the unique index,
\* one of those that are being served waits for nobody.
THEOREM NeverStuck == Spec => []ServerNeverStuck
<1>1. Init => HoldersInv
  BY NoneFacts DEF Init, HoldersInv, LockHolder
<1>2. QED
  BY <1>1, HoldersNext, SomebodyGetsOn, Invariant, PTL DEF Spec

=============================================================================
