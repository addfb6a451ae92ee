------------------------- MODULE InMemorySyncProofs -------------------------
(***************************************************************************)
(* Theorems about InMemorySync, for every set of workers, messages and     *)
(* data.                                                                   *)
(***************************************************************************)
EXTENDS InMemorySync, TLAPS

\* The places where a unit of work is active.
Inside == {"lookup", "create", "update", "save", "exit"}

\* Nobody writes the store while a unit of work is active, so that its copy
\* is the store, up to its own effect.
CopyOK(w) ==
  /\ pc[w] \in {"lookup", "create", "update"} => snapshot[w] = Copy
  /\ pc[w] \in {"create", "update", "save"} => events[Event(w)] = NONE
  /\ pc[w] = "create" => IsCreate(w)
  /\ pc[w] = "update" => ~IsCreate(w) /\ Body(w).ref \in Ids /\ customers[Body(w).ref] # NONE

\* What the copy of a worker holds once it has an effect.
Effect(w, ref) ==
  /\ ref \in Ids
  /\ Applies(customers, Body(w), ref, snapshot[w].customers)
  /\ \A i \in Ids : i >= snapshot[w].nextId => snapshot[w].customers[i] = NONE

SaveOK(w) ==
  pc[w] = "save" => Effect(w, ResultRef(w)) /\ snapshot[w].events = events

\* What a worker takes to the end of its unit of work.
ExitOK(w) ==
  /\ commitRequested[w] => pc[w] = "exit"
  /\ pc[w] = "exit" => outcome[w] # NONE
  /\ commitRequested[w] =>
       /\ events[Event(w)] = NONE
       /\ outcome[w].status = 200
       /\ Effect(w, outcome[w].ref)
       /\ snapshot[w].events =
            [events EXCEPT ![Event(w)] = [body |-> Body(w), ref |-> outcome[w].ref]]
  /\ pc[w] = "exit" /\ commitRequested[w] = FALSE =>
       IF outcome[w].status = 200
         THEN /\ outcome[w].ref \in Ids
              /\ events[Event(w)] = [body |-> Body(w), ref |-> outcome[w].ref]
         ELSE outcome[w].ref = NONE /\ (events[Event(w)] # NONE => events[Event(w)].body # Body(w))

WorkOK(w) ==
  /\ pc[w] # "idle" => msg[w] # NONE
  /\ pc[w] \in Inside => snapshot[w] # NONE
  /\ CopyOK(w) /\ SaveOK(w) /\ ExitOK(w)

\* Only the holder of the lock is inside.
LockHeld == \A w \in Workers : pc[w] \in Inside <=> lock = w

\* Ids from nextId on are unused.
IdsFresh == \A i \in Ids : i >= nextId => customers[i] = NONE

IInv == TypeOK /\ LockHeld /\ IdsFresh /\ \A w \in Workers : WorkOK(w)

-----------------------------------------------------------------------------
LEMMA NoneFacts ==
  /\ NONE \notin Stored /\ NONE \notin Record /\ NONE \notin Snapshot /\ NONE \notin Outcome
  /\ NONE \notin Messages /\ NONE \notin Workers /\ NONE \notin Ids
BY InMemorySyncAssumption

LEMMA MessageFacts ==
  ASSUME NEW m \in Messages
  PROVE  /\ m.event \in EventIds /\ m.body \in Bodies
         /\ \/ m.body.kind = "create" /\ m.body.row \in Stored
            \/ m.body.kind = "update" /\ m.body.patch \in Patch /\ m.body.ref \in Int
<1>1. m.event \in EventIds /\ m.body \in Bodies
  BY DEF EventIds, Bodies
<1>2. m.body \in [kind : {"create"}, row : Stored, ok : BOOLEAN] \cup UpdateBody
  BY <1>1, InMemorySyncAssumption
<1>3. QED
  BY <1>1, <1>2 DEF UpdateBody

\* A patch that is accepted leaves a whole customer.
LEMMA PatchedStored ==
  ASSUME NEW patch \in Patch, NEW row \in Stored, ~AddressIncomplete(patch.address, row)
  PROVE  Patched(patch, row, row) \in Stored
<1> DEFINE a == patch.address
           street == PatchedStreet(a, row)
           region == PatchedRegion(a, row, row.region)
<1>1. /\ NULL # UNSET
      /\ NULL \notin Streets \cup Countries \cup RegionNames /\ NULL \notin Countries \X RegionNames
  BY CustomerDataAssumption, InMemorySyncAssumption
<1>2. /\ row.street \in Streets \cup {NULL} /\ row.region \in (Countries \X RegionNames) \cup {NULL}
      /\ row.street = NULL <=> row.region = NULL
  BY DEF Stored, AddressWhole
<1>3. /\ street \in Streets \cup {NULL} /\ region \in (Countries \X RegionNames) \cup {NULL}
      /\ street = NULL <=> region = NULL
  <2>1. CASE a = NULL
    BY <2>1 DEF PatchedStreet, PatchedRegion
  <2>2. CASE a = UNSET
    BY <1>1, <1>2, <2>2 DEF PatchedStreet, PatchedRegion
  <2>3. CASE a \in AddressPatch /\ IsAddressPatch(a)
    <3>1. /\ a.street \in Streets \cup {UNSET}
          /\ a.country \in Countries \cup {UNSET} /\ a.name \in RegionNames \cup {UNSET}
      BY <2>3 DEF AddressPatch
    <3>2. a # NULL /\ a # UNSET
      BY <2>3 DEF IsAddressPatch
    <3>3. street \in Streets
      BY <1>1, <1>2, <2>3, <3>1, <3>2 DEF PatchedStreet, Overlay, AddressIncomplete
    <3>4. region \in Countries \X RegionNames
      <4>1. CASE TouchesRegion(a)
        <5>1. row.region # NULL \/ (a.country # UNSET /\ a.name # UNSET)
          BY <1>2, <2>3 DEF AddressIncomplete
        <5>2. /\ Overlay(a.country, Country(row.region)) \in Countries
              /\ Overlay(a.name, RegionName(row.region)) \in RegionNames
          BY <1>2, <3>1, <5>1 DEF Overlay, Country, RegionName
        <5>3. QED
          BY <3>2, <4>1, <5>2 DEF PatchedRegion, WantedRegion
      <4>2. CASE ~TouchesRegion(a)
        <5>1. a.country = UNSET /\ a.name = UNSET
          BY <4>2 DEF TouchesRegion
        <5>2. row.street # NULL
          BY <2>3, <5>1 DEF AddressIncomplete
        <5>3. QED
          BY <1>2, <3>2, <4>2, <5>2 DEF PatchedRegion
      <4>3. QED
        BY <4>1, <4>2
    <3>5. QED
      BY <1>1, <3>3, <3>4
  <2>4. QED
    BY <2>1, <2>2, <2>3 DEF Patch, IsAddressPatch
<1>4. /\ Overlay(patch.login, row.login) \in Logins
      /\ Overlay(patch.fiscal, row.fiscal) \in TaxCodes \cup {NULL}
      /\ Overlay(patch.vat, row.vat) \in TaxCodes \cup {NULL}
  BY DEF Overlay, Patch, Stored
<1>5. /\ row.extra \in [ExtKeys -> ExtValues \cup {NULL}]
      /\ [k \in ExtKeys |-> Overlay(patch.extra[k], row.extra[k])] \in [ExtKeys -> ExtValues \cup {NULL}]
  BY DEF Overlay, Patch, Stored
<1> HIDE DEF street, region
<1>6. QED
  BY <1>3, <1>4, <1>5 DEF Patched, Stored, AddressWhole, street, region

-----------------------------------------------------------------------------
(* The invariant                                                           *)

\* A step of one worker, on its own state.
OwnLocals(w) ==
  \A q \in Workers \ {w} :
    /\ pc'[q] = pc[q] /\ msg'[q] = msg[q] /\ snapshot'[q] = snapshot[q]
    /\ outcome'[q] = outcome[q] /\ commitRequested'[q] = commitRequested[q]

\* Others keep what they have, as long as the store is unchanged or nobody
\* else is inside.
LEMMA OthersKeep ==
  ASSUME IInv, NEW w \in Workers, OwnLocals(w), NEW q \in Workers \ {w},
         UNCHANGED store \/ pc[q] \notin Inside
  PROVE  WorkOK(q)'
<1>1. WorkOK(q) /\ TypeOK
  BY DEF IInv
<1>2. /\ pc'[q] = pc[q] /\ msg'[q] = msg[q] /\ snapshot'[q] = snapshot[q]
      /\ outcome'[q] = outcome[q] /\ commitRequested'[q] = commitRequested[q]
  BY DEF OwnLocals
<1>3. CASE pc[q] \notin Inside
  BY <1>1, <1>2, <1>3 DEF WorkOK, CopyOK, SaveOK, ExitOK, Inside
<1>4. CASE UNCHANGED store
  <2>1. CopyOK(q)' /\ SaveOK(q)'
    BY <1>1, <1>2, <1>4
    DEF WorkOK, CopyOK, SaveOK, Effect, ResultRef, Event, Body, IsCreate, Copy, store
  <2>2. ExitOK(q)'
    BY <1>1, <1>2, <1>4 DEF WorkOK, ExitOK, Effect, Event, Body, store
  <2>3. QED
    BY <1>1, <1>2, <2>1, <2>2 DEF WorkOK
<1>5. QED
  BY <1>3, <1>4

\* A step that leaves the store and the lock alone.
LEMMA OwnStep ==
  ASSUME IInv, NEW w \in Workers, OwnLocals(w), UNCHANGED <<store, lock>>,
         pc'[w] \in Inside <=> pc[w] \in Inside, TypeOK', WorkOK(w)'
  PROVE  IInv'
<1>1. \A q \in Workers \ {w} : WorkOK(q)'
  BY OthersKeep
<1>2. LockHeld'
  BY DEF IInv, LockHeld, OwnLocals
<1>3. IdsFresh'
  BY DEF IInv, IdsFresh, store
<1>4. QED
  BY <1>1, <1>2, <1>3 DEF IInv

LEMMA InitInv == Init => IInv
<1> SUFFICES ASSUME Init PROVE IInv
  OBVIOUS
<1>1. TypeOK
  <2>1. Copy \in Snapshot
    BY InMemorySyncAssumption DEF Init, Copy, Snapshot, Ids
  <2>2. QED
    BY <2>1 DEF Init, TypeOK, PCs
<1>2. LockHeld
  BY NoneFacts DEF Init, LockHeld, Inside
<1>3. IdsFresh
  BY DEF Init, IdsFresh
<1>4. \A w \in Workers : WorkOK(w)
  BY DEF Init, WorkOK, CopyOK, SaveOK, ExitOK, Inside
<1>5. QED
  BY <1>1, <1>2, <1>3, <1>4 DEF IInv

LEMMA DeliverInv ==
  ASSUME IInv, NEW w \in Workers, NEW m \in Messages, Deliver(w, m)
  PROVE  IInv'
<1>1. TypeOK /\ WorkOK(w) /\ pc[w] = "idle"
  BY DEF IInv, Deliver
<1>2. /\ pc' \in [Workers -> PCs] /\ pc'[w] = "acquire"
      /\ msg' \in [Workers -> Messages \cup {NONE}] /\ msg'[w] = m
      /\ \A q \in Workers \ {w} : pc'[q] = pc[q] /\ msg'[q] = msg[q]
  BY <1>1 DEF TypeOK, Deliver, Goto, PCs
<1>3. TypeOK' /\ OwnLocals(w)
  BY <1>1, <1>2 DEF TypeOK, OwnLocals, Deliver, store, Copy
<1>4. WorkOK(w)'
  BY <1>1, <1>2, NoneFacts DEF WorkOK, CopyOK, SaveOK, ExitOK, Inside, Deliver
<1>5. QED
  BY <1>1, <1>2, <1>3, <1>4, OwnStep DEF Deliver, Inside

\* A request that is being served.
LEMMA ServedFacts ==
  ASSUME IInv, NEW w \in Workers, pc[w] # "idle"
  PROVE  /\ TypeOK /\ WorkOK(w)
         /\ Event(w) \in EventIds /\ Body(w) \in Bodies
         /\ IsCreate(w) => Body(w).row \in Stored
         /\ ~IsCreate(w) => Body(w).kind = "update" /\ Body(w).patch \in Patch /\ Body(w).ref \in Int
<1>1. TypeOK /\ WorkOK(w) /\ msg[w] \in Messages
  BY DEF IInv, TypeOK, WorkOK
<1>2. QED
  BY <1>1, MessageFacts DEF Event, Body, IsCreate

LEMMA AcquireInv ==
  ASSUME IInv, NEW w \in Workers, Acquire(w)
  PROVE  IInv'
<1>1. TypeOK /\ WorkOK(w) /\ pc[w] = "acquire" /\ lock = NONE
  BY DEF IInv, Acquire
<1>2. Copy \in Snapshot /\ Copy # NONE
  BY <1>1, NoneFacts DEF TypeOK
<1>3. /\ pc' \in [Workers -> PCs] /\ pc'[w] = "lookup" /\ lock' = w
      /\ snapshot' \in [Workers -> Snapshot \cup {NONE}] /\ snapshot'[w] = Copy
      /\ \A q \in Workers \ {w} : pc'[q] = pc[q] /\ snapshot'[q] = snapshot[q]
  BY <1>1, <1>2 DEF TypeOK, Acquire, Goto, PCs
<1>4. UNCHANGED <<store, msg, outcome, commitRequested, answers>>
  BY DEF Acquire
<1>5. TypeOK' /\ OwnLocals(w)
  BY <1>1, <1>3, <1>4 DEF TypeOK, OwnLocals, store, Copy
<1>6. WorkOK(w)'
  BY <1>1, <1>2, <1>3, <1>4 DEF WorkOK, CopyOK, SaveOK, ExitOK, Inside, Copy, store
<1>7. \A q \in Workers \ {w} : WorkOK(q)'
  BY <1>4, <1>5, OthersKeep
<1>8. LockHeld'
  BY <1>1, <1>3, NoneFacts DEF IInv, LockHeld, Inside
<1>9. IdsFresh'
  BY <1>4 DEF IInv, IdsFresh, store
<1>10. QED
  BY <1>5, <1>6, <1>7, <1>8, <1>9 DEF IInv

\* A result that the store already has, or a refusal.
LEMMA LeaveInv ==
  ASSUME IInv, NEW w \in Workers, pc[w] \in {"lookup", "update"},
         NEW status \in Statuses, NEW ref \in Ids \cup {NONE}, Leave(w, status, ref),
         UNCHANGED <<store, lock, msg, snapshot, commitRequested, answers>>,
         IF status = 200
           THEN ref \in Ids /\ events[Event(w)] = [body |-> Body(w), ref |-> ref]
           ELSE ref = NONE /\ (events[Event(w)] # NONE => events[Event(w)].body # Body(w))
  PROVE  IInv'
<1> DEFINE o == [status |-> status, ref |-> ref]
<1>1. TypeOK /\ WorkOK(w)
  BY DEF IInv
<1>2. o \in Outcome /\ o # NONE
  BY NoneFacts DEF Outcome
<1>3. /\ pc' \in [Workers -> PCs] /\ pc'[w] = "exit"
      /\ outcome' \in [Workers -> Outcome \cup {NONE}] /\ outcome'[w] = o
      /\ \A q \in Workers \ {w} : pc'[q] = pc[q] /\ outcome'[q] = outcome[q]
  BY <1>1, <1>2 DEF TypeOK, Leave, Goto, PCs
<1>4. TypeOK' /\ OwnLocals(w)
  BY <1>1, <1>3 DEF TypeOK, OwnLocals, store, Copy
<1>5. commitRequested[w] = FALSE
  BY <1>1 DEF TypeOK, WorkOK, ExitOK
<1>6. WorkOK(w)'
  BY <1>1, <1>2, <1>3, <1>5 DEF WorkOK, CopyOK, SaveOK, ExitOK, Inside, Event, Body, store
<1>7. QED
  BY <1>3, <1>4, <1>6, OwnStep DEF Inside

LEMMA LookupInv ==
  ASSUME IInv, NEW w \in Workers, Lookup(w)
  PROVE  IInv'
<1>1. TypeOK /\ WorkOK(w) /\ pc[w] = "lookup" /\ Event(w) \in EventIds /\ Body(w) \in Bodies
  BY ServedFacts DEF IInv, Lookup
<1>2. snapshot[w] = Copy
  BY <1>1 DEF WorkOK, CopyOK
<1>3. Recorded(w) = events[Event(w)] /\ \A i : Exists(w, i) <=> i \in Ids /\ customers[i] # NONE
  BY <1>2 DEF Recorded, Exists, Copy
<1>4. Recorded(w) \in Record \cup {NONE}
  BY <1>1, <1>3 DEF TypeOK, Copy, Snapshot
<1>5. UNCHANGED <<store, lock, msg, snapshot, commitRequested, answers>>
  BY DEF Lookup
<1>6. CASE Recorded(w) # NONE
  <2>1. Recorded(w).ref \in Ids /\ Recorded(w) = [body |-> Recorded(w).body, ref |-> Recorded(w).ref]
    BY <1>4, <1>6 DEF Record
  <2>2. CASE Recorded(w).body = Body(w)
    <3>1. Leave(w, 200, Recorded(w).ref)
      BY <1>6, <2>2 DEF Lookup
    <3>2. QED
      BY <1>1, <1>3, <1>5, <2>1, <2>2, <3>1, LeaveInv DEF Statuses
  <2>3. CASE Recorded(w).body # Body(w)
    <3>1. Leave(w, 409, NONE)
      BY <1>6, <2>3 DEF Lookup, Raise
    <3>2. QED
      BY <1>1, <1>3, <1>5, <2>3, <3>1, LeaveInv DEF Statuses
  <2>4. QED
    BY <2>2, <2>3
<1>7. CASE Recorded(w) = NONE
  <2>1. CASE pc'[w] = "exit"
    <3>1. Leave(w, 400, NONE) \/ Leave(w, 404, NONE)
      BY <1>1, <1>7, <2>1 DEF Lookup, Raise, Goto, TypeOK
    <3>2. events[Event(w)] = NONE
      BY <1>3, <1>7
    <3>3. CASE Leave(w, 400, NONE)
      BY <1>1, <1>5, <3>2, <3>3, LeaveInv DEF Statuses
    <3>4. CASE Leave(w, 404, NONE)
      BY <1>1, <1>5, <3>2, <3>4, LeaveInv DEF Statuses
    <3>5. QED
      BY <3>1, <3>3, <3>4
  <2>2. CASE pc'[w] # "exit"
    <3>1. /\ \/ IsCreate(w) /\ Goto(w, "create")
             \/ ~IsCreate(w) /\ ~(Body(w).ref <= 0) /\ Exists(w, Body(w).ref) /\ Goto(w, "update")
          /\ UNCHANGED outcome
      BY <1>1, <1>7, <2>2 DEF Lookup, Raise, Leave, Goto, TypeOK
    <3>2. /\ pc' \in [Workers -> PCs] /\ pc'[w] \in {"create", "update"}
          /\ pc'[w] = "create" => IsCreate(w)
          /\ pc'[w] = "update" => ~IsCreate(w) /\ Exists(w, Body(w).ref)
          /\ \A q \in Workers \ {w} : pc'[q] = pc[q]
      BY <1>1, <3>1 DEF TypeOK, Goto, PCs
    <3>3. TypeOK' /\ OwnLocals(w)
      BY <1>1, <1>5, <3>1, <3>2 DEF TypeOK, OwnLocals, store, Copy
    <3>4. WorkOK(w)'
      BY <1>1, <1>3, <1>5, <1>7, <3>1, <3>2
      DEF WorkOK, CopyOK, SaveOK, ExitOK, Inside, Event, Body, IsCreate, Copy, store
    <3>5. QED
      BY <1>1, <1>5, <3>2, <3>3, <3>4, OwnStep DEF Inside
  <2>3. QED
    BY <2>1, <2>2
<1>8. QED
  BY <1>6, <1>7

LEMMA CreateInv ==
  ASSUME IInv, NEW w \in Workers, Create(w)
  PROVE  IInv'
<1> DEFINE new == [customers |-> [customers EXCEPT ![nextId] = Body(w).row],
                   events    |-> events,
                   nextId    |-> nextId + 1]
<1>1. TypeOK /\ WorkOK(w) /\ pc[w] = "create" /\ Event(w) \in EventIds
  BY ServedFacts DEF IInv, Create
<1>2. snapshot[w] = Copy /\ IsCreate(w) /\ events[Event(w)] = NONE
  BY <1>1 DEF WorkOK, CopyOK
<1>3. /\ Body(w).row \in Stored /\ nextId \in Ids
      /\ customers \in [Ids -> Stored \cup {NONE}] /\ events \in [EventIds -> Record \cup {NONE}]
  BY <1>1, <1>2, ServedFacts, InMemorySyncAssumption DEF Create, TypeOK, Copy, Snapshot, Ids
<1>4. customers[nextId] = NONE /\ \A i \in Ids : i >= nextId + 1 => customers[i] = NONE
  BY <1>3 DEF IInv, IdsFresh, Ids
<1>5. new \in Snapshot /\ new # NONE
  BY <1>3, NoneFacts, InMemorySyncAssumption DEF Snapshot, Ids
<1>6. /\ pc' \in [Workers -> PCs] /\ pc'[w] = "save"
      /\ snapshot' \in [Workers -> Snapshot \cup {NONE}] /\ snapshot'[w] = new
      /\ \A q \in Workers \ {w} : pc'[q] = pc[q] /\ snapshot'[q] = snapshot[q]
  <2>1. pc' \in [Workers -> PCs] /\ pc'[w] = "save" /\ \A q \in Workers \ {w} : pc'[q] = pc[q]
    BY <1>1 DEF TypeOK, Create, Goto, PCs
  <2>2. snapshot' = [snapshot EXCEPT ![w] = WithCustomer(Copy, Body(w).row)]
    BY <1>2 DEF Create
  <2>3. WithCustomer(Copy, Body(w).row) = new
    BY DEF WithCustomer, Copy
  <2>4. snapshot'[w] = new /\ \A q \in Workers \ {w} : snapshot'[q] = snapshot[q]
    BY <1>1, <1>2, <2>2, <2>3 DEF TypeOK
  <2>5. snapshot' \in [Workers -> Snapshot \cup {NONE}]
    BY <1>1, <1>5, <2>2, <2>4 DEF TypeOK
  <2>6. QED
    BY <2>1, <2>4, <2>5
<1>7. UNCHANGED <<store, lock, msg, outcome, commitRequested, answers>>
  BY DEF Create
<1>8. TypeOK' /\ OwnLocals(w)
  BY <1>1, <1>6, <1>7 DEF TypeOK, OwnLocals, store, Copy
<1>9. SaveOK(w)'
  <2>1. ResultRef(w)' = nextId
    BY <1>2, <1>3, <1>6, <1>7 DEF ResultRef, IsCreate, Body, Ids
  <2>2. Effect(w, nextId)'
    BY <1>2, <1>3, <1>4, <1>6, <1>7 DEF Effect, Applies, IsCreate, Body, store, Ids
  <2>3. nextId' = nextId /\ events' = events
    BY <1>7 DEF store
  <2>4. QED
    BY <1>6, <2>1, <2>2, <2>3 DEF SaveOK, Effect
<1>10. WorkOK(w)'
  BY <1>1, <1>2, <1>5, <1>6, <1>7, <1>9 DEF WorkOK, CopyOK, ExitOK, Inside, Event, Body, store
<1>11. QED
  BY <1>1, <1>6, <1>7, <1>8, <1>10, OwnStep DEF Inside

LEMMA UpdateInv ==
  ASSUME IInv, NEW w \in Workers, Update(w)
  PROVE  IInv'
<1> DEFINE i == Body(w).ref
           p == Body(w).patch
           row == Patched(p, customers[i], customers[i])
           new == [customers |-> [customers EXCEPT ![i] = row], events |-> events, nextId |-> nextId]
<1>1. TypeOK /\ WorkOK(w) /\ pc[w] = "update" /\ Event(w) \in EventIds
  BY ServedFacts DEF IInv, Update
<1>2. /\ snapshot[w] = Copy /\ events[Event(w)] = NONE
      /\ ~IsCreate(w) /\ i \in Ids /\ customers[i] # NONE
  BY <1>1 DEF WorkOK, CopyOK
<1>3. /\ Body(w).kind = "update" /\ p \in Patch /\ customers[i] \in Stored
      /\ customers \in [Ids -> Stored \cup {NONE}] /\ events \in [EventIds -> Record \cup {NONE}]
      /\ nextId \in 1..(MaxId + 1)
  BY <1>1, <1>2, ServedFacts DEF TypeOK, Copy, Snapshot
<1>4. UNCHANGED <<store, lock, msg, commitRequested, answers>>
  BY DEF Update
<1>6. CASE AddressIncomplete(p.address, customers[i])
  <2>1. Leave(w, 409, NONE) /\ UNCHANGED snapshot
    BY <1>2, <1>6 DEF Update, Raise, Copy
  <2>2. UNCHANGED <<store, lock, msg, snapshot, commitRequested, answers>>
    BY <1>4, <2>1
  <2>3. events[Event(w)] = NONE
    BY <1>2
  <2>4. QED
    BY <1>1, <2>1, <2>2, <2>3, LeaveInv DEF Statuses
<1>7. CASE ~AddressIncomplete(p.address, customers[i])
  <2>1. row \in Stored /\ row # NONE
    BY <1>3, <1>7, PatchedStored, NoneFacts
  <2>2. new \in Snapshot /\ new # NONE
    BY <1>2, <1>3, <2>1, NoneFacts DEF Snapshot
  <2>3. /\ snapshot' = [snapshot EXCEPT ![w].customers[i] = Patched(p, @, @)]
        /\ Goto(w, "save") /\ UNCHANGED outcome
    BY <1>2, <1>7 DEF Update, Copy
  <2>4. snapshot'[w] = new /\ \A q \in Workers \ {w} : snapshot'[q] = snapshot[q]
    BY <1>1, <1>2, <2>3 DEF TypeOK, Copy
  <2>5. /\ pc' \in [Workers -> PCs] /\ pc'[w] = "save"
        /\ snapshot' \in [Workers -> Snapshot \cup {NONE}]
        /\ \A q \in Workers \ {w} : pc'[q] = pc[q]
    BY <1>1, <2>2, <2>3, <2>4 DEF TypeOK, Goto, PCs
  <2>6. TypeOK' /\ OwnLocals(w)
    BY <1>1, <1>4, <2>3, <2>4, <2>5 DEF TypeOK, OwnLocals, store, Copy
  <2>7. SaveOK(w)'
    <3>1. /\ customers' = customers /\ events' = events /\ nextId' = nextId
          /\ Body(w)' = Body(w) /\ IsCreate(w)' = IsCreate(w)
      BY <1>4 DEF store, Body, IsCreate
    <3>2. ResultRef(w)' = i
      BY <1>2, <3>1 DEF ResultRef
    <3>3. Applies(customers, Body(w), i, new.customers)
      BY <1>2, <1>3, <1>7 DEF Applies
    <3>4. \A j \in Ids : j >= nextId => new.customers[j] = NONE
      BY <1>2, <1>3 DEF IInv, IdsFresh
    <3>5. Effect(w, ResultRef(w))'
      BY <1>2, <2>4, <3>1, <3>2, <3>3, <3>4 DEF Effect, Applies
    <3>6. QED
      BY <2>4, <3>1, <3>5 DEF SaveOK
  <2>8. WorkOK(w)'
    BY <1>1, <1>2, <1>4, <2>2, <2>3, <2>4, <2>5, <2>7
    DEF WorkOK, CopyOK, ExitOK, Inside, Event, Body, store
  <2>9. QED
    BY <1>1, <1>4, <2>5, <2>6, <2>8, OwnStep DEF Inside
<1>8. QED
  BY <1>6, <1>7

LEMMA SaveInv ==
  ASSUME IInv, NEW w \in Workers, Save(w)
  PROVE  IInv'
<1> DEFINE r == ResultRef(w)
           record == [body |-> Body(w), ref |-> r]
           o == [status |-> 200, ref |-> r]
           new == [snapshot[w] EXCEPT !.events = [@ EXCEPT ![Event(w)] = record]]
<1>1. TypeOK /\ WorkOK(w) /\ pc[w] = "save" /\ Event(w) \in EventIds /\ Body(w) \in Bodies
  BY ServedFacts DEF IInv, Save
<1>2. events[Event(w)] = NONE /\ Effect(w, r) /\ snapshot[w].events = events
  BY <1>1 DEF WorkOK, CopyOK, SaveOK
<1>3. snapshot[w] \in Snapshot
  BY <1>1 DEF TypeOK, WorkOK, Inside
<1>4. record \in Record /\ r \in Ids
  BY <1>1, <1>2 DEF Record, Effect
<1>5. o \in Outcome /\ o # NONE
  BY <1>4, NoneFacts DEF Outcome, Statuses
<1>6. new \in Snapshot /\ new # NONE
  BY <1>3, <1>4, NoneFacts DEF Snapshot
<1>7. /\ new.customers = snapshot[w].customers /\ new.nextId = snapshot[w].nextId
      /\ new.events = [events EXCEPT ![Event(w)] = record]
  BY <1>2, <1>3 DEF Snapshot
<1> HIDE DEF r
<1>8. /\ snapshot' = [snapshot EXCEPT ![w] = new]
      /\ outcome' = [outcome EXCEPT ![w] = o]
      /\ pc' = [pc EXCEPT ![w] = "exit"]
      /\ commitRequested' = [commitRequested EXCEPT ![w] = TRUE]
  BY DEF Save, Leave, Goto, r
<1> HIDE DEF new, o
<1>9. /\ pc' \in [Workers -> PCs] /\ pc'[w] = "exit"
      /\ snapshot' \in [Workers -> Snapshot \cup {NONE}] /\ snapshot'[w] = new
      /\ outcome' \in [Workers -> Outcome \cup {NONE}] /\ outcome'[w] = o
      /\ commitRequested' \in [Workers -> BOOLEAN] /\ commitRequested'[w] = TRUE
      /\ \A q \in Workers \ {w} :
           /\ pc'[q] = pc[q] /\ snapshot'[q] = snapshot[q] /\ outcome'[q] = outcome[q]
           /\ commitRequested'[q] = commitRequested[q]
  BY <1>1, <1>5, <1>6, <1>8 DEF TypeOK, PCs
<1>10. UNCHANGED <<store, lock, msg, answers>>
  BY DEF Save
<1>11. TypeOK' /\ OwnLocals(w)
  BY <1>1, <1>9, <1>10 DEF TypeOK, OwnLocals, store, Copy
<1>12. /\ customers' = customers /\ events' = events /\ nextId' = nextId
       /\ Body(w)' = Body(w) /\ Event(w)' = Event(w)
       /\ snapshot'[w] = new /\ outcome'[w] = o
  BY <1>9, <1>10 DEF store, Body, Event
<1>13. ExitOK(w)'
  <2>1. o.status = 200 /\ o.ref = r /\ o # NONE
    BY <1>5 DEF o
  <2>2. r' = r
    BY <1>8, <1>9, <1>12 DEF r, ResultRef, IsCreate, Body, Save
  <2>3. Effect(w, r)'
    BY <1>2, <1>7, <1>12, <2>2 DEF Effect, Applies
  <2>4. (outcome[w])' = o /\ (pc[w])' = "exit" /\ (commitRequested[w])' = TRUE
    BY <1>9
  <2>5. QED
    BY <1>2, <1>7, <1>12, <2>1, <2>2, <2>3, <2>4 DEF ExitOK, Effect
<1>14. WorkOK(w)'
  BY <1>1, <1>6, <1>9, <1>10, <1>13 DEF WorkOK, CopyOK, SaveOK, Inside
<1>15. QED
  BY <1>1, <1>9, <1>10, <1>11, <1>14, OwnStep DEF Inside

\* The end of a request, however it ends.
LEMMA ForgetFacts ==
  ASSUME IInv, NEW w \in Workers, Forget(w)
  PROVE  /\ pc' \in [Workers -> PCs] /\ pc'[w] = "idle"
         /\ msg' \in [Workers -> Messages \cup {NONE}]
         /\ snapshot' \in [Workers -> Snapshot \cup {NONE}]
         /\ outcome' \in [Workers -> Outcome \cup {NONE}]
         /\ commitRequested' \in [Workers -> BOOLEAN]
         /\ OwnLocals(w) /\ WorkOK(w)'
<1>1. TypeOK
  BY DEF IInv
<1>2. /\ pc' \in [Workers -> PCs] /\ pc'[w] = "idle"
      /\ msg' \in [Workers -> Messages \cup {NONE}]
      /\ snapshot' \in [Workers -> Snapshot \cup {NONE}]
      /\ outcome' \in [Workers -> Outcome \cup {NONE}]
      /\ commitRequested' \in [Workers -> BOOLEAN] /\ commitRequested'[w] = FALSE
      /\ OwnLocals(w)
  BY <1>1 DEF TypeOK, Forget, Goto, PCs, OwnLocals
<1>3. WorkOK(w)'
  BY <1>2 DEF WorkOK, CopyOK, SaveOK, ExitOK, Inside
<1>4. QED
  BY <1>2, <1>3

LEMMA FailInv ==
  ASSUME IInv, NEW w \in Workers, Fail(w)
  PROVE  IInv'
<1>1. TypeOK /\ LockHeld /\ UNCHANGED store /\ UNCHANGED answers
  BY DEF IInv, Fail
<1>2. /\ pc' \in [Workers -> PCs] /\ pc'[w] = "idle"
      /\ OwnLocals(w) /\ WorkOK(w)'
  BY ForgetFacts DEF Fail
<1>3. lock' = IF lock = w THEN NONE ELSE lock
  BY DEF Fail
<1>4. TypeOK'
  BY <1>1, <1>3, ForgetFacts DEF TypeOK, store, Copy, Fail
<1>5. \A q \in Workers \ {w} : WorkOK(q)'
  BY <1>1, <1>2, OthersKeep
<1>6. LockHeld'
  BY <1>1, <1>2, <1>3, NoneFacts DEF LockHeld, OwnLocals, Inside
<1>7. IdsFresh'
  BY <1>1 DEF IInv, IdsFresh, store
<1>8. QED
  BY <1>2, <1>4, <1>5, <1>6, <1>7 DEF IInv

\* What a unit of work that commits puts in the place of the store.
LEMMA PublishFacts ==
  ASSUME IInv, NEW w \in Workers, Exit(w), commitRequested[w]
  PROVE  /\ Event(w) \in EventIds /\ Body(w) \in Bodies
         /\ outcome[w].status = 200 /\ outcome[w].ref \in Ids
         /\ events[Event(w)] = NONE
         /\ events' = [events EXCEPT ![Event(w)] = [body |-> Body(w), ref |-> outcome[w].ref]]
         /\ Applies(customers, Body(w), outcome[w].ref, customers')
         /\ Copy' \in Snapshot
         /\ \A i \in Ids : i >= nextId' => customers'[i] = NONE
<1>1. TypeOK /\ WorkOK(w) /\ pc[w] = "exit" /\ Event(w) \in EventIds /\ Body(w) \in Bodies
  BY ServedFacts DEF IInv, Exit
<1>2. snapshot[w] \in Snapshot
  BY <1>1 DEF TypeOK, WorkOK, Inside
<1>3. /\ customers' = snapshot[w].customers /\ events' = snapshot[w].events
      /\ nextId' = snapshot[w].nextId
  BY DEF Exit
<1>4. Copy' \in Snapshot
  BY <1>2, <1>3 DEF Copy, Snapshot
<1>5. QED
  BY <1>1, <1>3, <1>4 DEF WorkOK, ExitOK, Effect

LEMMA ExitInv ==
  ASSUME IInv, NEW w \in Workers, Exit(w)
  PROVE  IInv'
<1>1. TypeOK /\ LockHeld /\ WorkOK(w) /\ pc[w] = "exit"
  BY DEF IInv, Exit
<1>2. lock = w
  BY <1>1 DEF LockHeld, Inside
<1>3. /\ pc' \in [Workers -> PCs] /\ pc'[w] = "idle" /\ lock' = NONE
      /\ OwnLocals(w) /\ WorkOK(w)'
  BY ForgetFacts DEF Exit
<1>4. Event(w) \in EventIds /\ Body(w) \in Bodies
  BY <1>1, ServedFacts
<1>5. outcome[w] \in Outcome
  BY <1>1 DEF TypeOK, WorkOK, ExitOK
<1>6. answers' \subseteq [event : EventIds, body : Bodies, status : Statuses, ref : Ids \cup {NONE}]
  <2>1. [event |-> Event(w), body |-> Body(w), status |-> outcome[w].status, ref |-> outcome[w].ref]
          \in [event : EventIds, body : Bodies, status : Statuses, ref : Ids \cup {NONE}]
    BY <1>4, <1>5 DEF Outcome
  <2>2. QED
    BY <1>1, <2>1 DEF Exit, TypeOK
<1>7. Copy' \in Snapshot /\ IdsFresh'
  <2>1. CASE commitRequested[w]
    BY <2>1, PublishFacts DEF IdsFresh
  <2>2. CASE ~commitRequested[w]
    BY <1>1, <2>2 DEF Exit, store, Copy, TypeOK, IInv, IdsFresh
  <2>3. QED
    BY <2>1, <2>2
<1>8. TypeOK'
  BY <1>3, <1>6, <1>7, ForgetFacts DEF TypeOK, Exit
<1>9. \A q \in Workers \ {w} : WorkOK(q)'
  BY <1>1, <1>2, <1>3, OthersKeep DEF LockHeld
<1>10. LockHeld'
  BY <1>1, <1>2, <1>3, NoneFacts DEF LockHeld, OwnLocals, Inside
<1>11. QED
  BY <1>3, <1>7, <1>8, <1>9, <1>10 DEF IInv

LEMMA StutterInv == IInv /\ UNCHANGED vars => IInv'
BY DEF IInv, TypeOK, LockHeld, IdsFresh, WorkOK, CopyOK, SaveOK, ExitOK, Effect, ResultRef,
   Event, Body, IsCreate, Copy, vars, store

-----------------------------------------------------------------------------
(* Theorems                                                                *)

\* The inductive invariant holds throughout.
THEOREM Invariant == Spec => []IInv
<1>1. Init => IInv
  BY InitInv
<1>2. IInv /\ [Next]_vars => IInv'
  <2> SUFFICES ASSUME IInv, [Next]_vars PROVE IInv'
    OBVIOUS
  <2>1. ASSUME NEW w \in Workers, NEW m \in Messages, Deliver(w, m) PROVE IInv'
    BY <2>1, DeliverInv
  <2>2. ASSUME NEW w \in Workers, Serve(w) PROVE IInv'
    BY <2>2, AcquireInv, LookupInv, CreateInv, UpdateInv, SaveInv, ExitInv DEF Serve
  <2>3. ASSUME NEW w \in Workers, Fail(w) PROVE IInv'
    BY <2>3, FailInv
  <2>4. QED
    BY <2>1, <2>2, <2>3, StutterInv DEF Next
<1>3. QED
  BY <1>1, <1>2, PTL DEF Spec

\* Every variable has its type in every reachable state; no patch ever leaves
\* part of an address.
THEOREM TypeCorrect == Spec => []TypeOK
<1>1. IInv => TypeOK
  BY DEF IInv
<1>2. QED
  BY <1>1, Invariant, PTL

-----------------------------------------------------------------------------
(* The copies implement the promise                                        *)

LEMMA ExitAnswers ==
  ASSUME IInv, NEW w \in Workers, Exit(w)
  PROVE  Promise!Step \/ UNCHANGED <<customers, events, answers>>
<1> DEFINE e == Event(w)
           b == Body(w)
           r == outcome[w].ref
           s == outcome[w].status
           answer == [event |-> e, body |-> b, status |-> s, ref |-> r]
<1>1. TypeOK /\ WorkOK(w) /\ pc[w] = "exit" /\ e \in EventIds /\ b \in Bodies
  BY ServedFacts DEF IInv, Exit
<1>2. answers' \in {answers, answers \cup {answer}}
  BY DEF Exit
<1>3. CASE commitRequested[w]
  <2>1. Promise!Accept(e, b, r) /\ r \in Ids
    BY <1>2, <1>3, PublishFacts DEF Promise!Accept, Promise!Success
  <2>2. QED
    BY <1>1, <2>1 DEF Promise!Step
<1>4. CASE ~commitRequested[w]
  <2>1. UNCHANGED <<customers, events>>
    BY <1>4 DEF Exit, store
  <2>2. SUFFICES ASSUME answers' = answers \cup {answer} PROVE Promise!Step
    BY <1>2, <2>1
  <2>3. outcome[w] \in Outcome
    BY <1>1 DEF TypeOK, WorkOK, ExitOK
  <2>4. commitRequested[w] = FALSE
    BY <1>1, <1>4 DEF TypeOK
  <2>5. CASE s = 200
    <3>1. events[e] = [body |-> b, ref |-> r] /\ r \in Ids
      BY <1>1, <2>4, <2>5 DEF WorkOK, ExitOK
    <3>2. Promise!Repeat(e, b, r)
      BY <2>1, <2>2, <2>5, <3>1 DEF Promise!Repeat, Promise!Success
    <3>3. QED
      BY <1>1, <3>1, <3>2 DEF Promise!Step
  <2>6. CASE s # 200
    <3>1. r = NONE /\ (events[e] # NONE => events[e].body # b)
      BY <1>1, <2>4, <2>6 DEF WorkOK, ExitOK
    <3>2. Promise!Refuse(e, b, s) /\ s \in {400, 404, 409, 422}
      BY <2>1, <2>2, <2>3, <2>6, <3>1 DEF Promise!Refuse, Promise!Refusal, Outcome, Statuses
    <3>3. QED
      BY <1>1, <3>2 DEF Promise!Step
  <2>7. QED
    BY <2>5, <2>6
<1>5. QED
  BY <1>3, <1>4

\* Whatever the interleaving and the failures, the copies of the store behave
\* as if each event took effect alone and with its record, in one step.
THEOREM Implements == Spec => ImplementsPromise
<1>1. Init => Promise!Init
  BY DEF Init, Promise!Init
<1>2. IInv /\ [Next]_vars => [Promise!Next]_(Promise!vars)
  <2> SUFFICES ASSUME IInv, [Next]_vars PROVE Promise!Step \/ UNCHANGED <<customers, events, answers>>
    BY DEF Promise!Next, Promise!vars
  <2>1. ASSUME NEW w \in Workers, NEW m \in Messages, Deliver(w, m)
        PROVE  UNCHANGED <<customers, events, answers>>
    BY <2>1 DEF Deliver, store
  <2>2. ASSUME NEW w \in Workers, Serve(w)
        PROVE  Promise!Step \/ UNCHANGED <<customers, events, answers>>
    BY <2>2, ExitAnswers DEF Serve, Acquire, Lookup, Create, Update, Save, store
  <2>3. ASSUME NEW w \in Workers, Fail(w)
        PROVE  UNCHANGED <<customers, events, answers>>
    BY <2>3 DEF Fail, store
  <2>4. CASE UNCHANGED vars
    BY <2>4 DEF vars, store
  <2>5. QED
    BY <2>1, <2>2, <2>3, <2>4 DEF Next
<1>3. QED
  BY <1>1, <1>2, Invariant, PTL DEF Spec, ImplementsPromise, Promise!Spec

-----------------------------------------------------------------------------
(* The origin of every customer                                            *)

LEMMA ExitCreatedOnce ==
  ASSUME IInv, CreatedOnce, NEW w \in Workers, Exit(w), commitRequested[w]
  PROVE  CreatedOnce'
<1> DEFINE e == Event(w)
           b == Body(w)
           r == outcome[w].ref
           record == [body |-> b, ref |-> r]
<1>1. /\ e \in EventIds /\ b \in Bodies /\ r \in Ids
      /\ events[e] = NONE /\ events' = [events EXCEPT ![e] = record]
      /\ Applies(customers, b, r, customers')
  BY PublishFacts
<1>2. /\ customers \in [Ids -> Stored \cup {NONE}]
      /\ events \in [EventIds -> Record \cup {NONE}]
  BY DEF IInv, TypeOK, Copy, Snapshot
<1>3. record \in Record /\ record # NONE
  BY <1>1, NoneFacts DEF Record
<1>4. /\ events'[e] = record
      /\ \A d \in EventIds \ {e} : events'[d] = events[d]
  BY <1>1, <1>2
<1>5. pc[w] # "idle"
  BY DEF Exit
<1> HIDE DEF record
<1>6. CASE IsCreate(w)
  <2>1. b.kind = "create" /\ b.row \in Stored /\ b.row # NONE
    BY <1>5, <1>6, ServedFacts, NoneFacts DEF IsCreate
  <2>2. customers[r] = NONE /\ customers' = [customers EXCEPT ![r] = b.row]
    BY <1>1, <2>1 DEF Applies
  <2>3. SUFFICES ASSUME NEW i \in Ids
                 PROVE  (IF customers[i] = NONE THEN Creations(i) = {}
                         ELSE \E d \in EventIds : Creations(i) = {d})'
    BY DEF CreatedOnce
  <2>4. CASE i = r
    <3>1. Creations(i) = {}
      BY <1>1, <2>2, <2>4 DEF CreatedOnce
    <3>2. Creations(i)' = {e}
      BY <1>1, <1>3, <1>4, <2>1, <2>4, <3>1 DEF Creations, record
    <3>3. customers'[i] # NONE
      BY <1>2, <2>1, <2>2, <2>4
    <3>4. QED
      BY <1>1, <3>2, <3>3
  <2>5. CASE i # r
    <3>1. customers'[i] = customers[i]
      BY <1>2, <2>2, <2>5
    <3>2. Creations(i)' = Creations(i)
      BY <1>1, <1>3, <1>4, <2>5 DEF Creations, record
    <3>3. QED
      BY <3>1, <3>2 DEF CreatedOnce
  <2>6. QED
    BY <2>4, <2>5
<1>7. CASE ~IsCreate(w)
  <2>1. b.kind = "update" /\ b.patch \in Patch
    BY <1>5, <1>7, ServedFacts
  <2>2. /\ customers[r] # NONE /\ ~AddressIncomplete(b.patch.address, customers[r])
        /\ customers' = [customers EXCEPT ![r] = Patched(b.patch, customers[r], customers[r])]
    BY <1>1, <2>1 DEF Applies
  <2>3. Patched(b.patch, customers[r], customers[r]) # NONE
    BY <1>1, <1>2, <2>1, <2>2, PatchedStored, NoneFacts
  <2>4. \A i \in Ids : customers'[i] = NONE <=> customers[i] = NONE
    BY <1>1, <1>2, <2>2, <2>3
  <2>5. \A i \in Ids : Creations(i)' = Creations(i)
    BY <1>1, <1>3, <1>4, <2>1 DEF Creations, record
  <2>6. QED
    BY <2>4, <2>5 DEF CreatedOnce
<1>8. QED
  BY <1>6, <1>7

\* Every customer stems from exactly one recorded creation, for any number of
\* requests and events, and whatever is rolled back.
THEOREM OneCreation == Spec => []CreatedOnce
<1>1. Init => CreatedOnce
  BY DEF Init, CreatedOnce, Creations
<1>2. IInv /\ CreatedOnce /\ [Next]_vars => CreatedOnce'
  <2> SUFFICES ASSUME IInv, CreatedOnce, [Next]_vars PROVE CreatedOnce'
    OBVIOUS
  <2>1. CASE UNCHANGED <<customers, events>>
    BY <2>1 DEF CreatedOnce, Creations
  <2>2. CASE \E w \in Workers : Exit(w) /\ commitRequested[w]
    BY <2>2, ExitCreatedOnce
  <2>3. UNCHANGED <<customers, events>> \/ \E w \in Workers : Exit(w) /\ commitRequested[w]
    BY DEF Next, Serve, Deliver, Acquire, Lookup, Create, Update, Save, Exit, Fail, vars, store
  <2>4. QED
    BY <2>1, <2>2, <2>3
<1>3. QED
  BY <1>1, <1>2, Invariant, PTL DEF Spec
=============================================================================
