------------------------ MODULE CustomerSenderProofs ------------------------
(***************************************************************************)
(* What the sender's discipline and the idempotency of the service give     *)
(* together, for every number of streams, events, requests given up and     *)
(* failures: effects in order, and customers as the streams plan them.      *)
(***************************************************************************)
EXTENDS CustomerSender, TLAPS

Positions(s) == DOMAIN Plan[s]

DatabaseTypes ==
  /\ customers \in [Ids -> Logins \cup {NONE}] /\ allocated \subseteq Ids
  /\ events \in [EventIds -> Records \cup {NONE}]
  /\ effects \in Seq(EventIds)

SenderTypes ==
  /\ next \in [Streams -> Nat \ {0}] /\ \A s \in Streams : next[s] <= Len(Plan[s]) + 1
  /\ ref \in [Streams -> Ids \cup {NONE}]
  /\ results \in [EventIds -> Answers \cup {NONE}]

RequestTypes ==
  /\ phase \in [Streams -> {"ready", "sent", "served", "stopped"}]
  /\ reply \in [Streams -> Answers \cup {NONE}]
  /\ abandoned \in [EventIds -> Nat]

\* What took effect is recorded, and in the order of its stream.
EffectsRecorded == \A i \in DOMAIN effects : events[effects[i]] # NONE

\* An event is recorded with the reference of its stream, not before its turn
\* and at the latest when it is answered with success.
InTurn(s, p) ==
  LET e == <<s, p>> IN
  /\ p > next[s] => events[e] = NONE
  /\ p < next[s] <=> results[e] # NONE
  /\ Succeeded(e) => events[e] # NONE /\ ref[s] # NONE
  /\ events[e] # NONE => events[e].ref \in allocated
  /\ events[e] # NONE => IF ref[s] = NONE THEN p = 1 ELSE events[e].ref = ref[s]
  /\ Plan[s][p].kind = "created" /\ ref[s] # NONE => events[e] # NONE

RecordsInTurn == \A s \in Streams : \A p \in Positions(s) : InTurn(s, p)

References(s) ==
  {i \in Ids : \/ i = ref[s]
               \/ \E p \in Positions(s) : events[<<s, p>>] # NONE /\ events[<<s, p>>].ref = i}

\* No two streams are about one customer.
StreamsDisjoint ==
  /\ \A s \in Streams : ref[s] # NONE => ref[s] \in allocated
  /\ \A s, t \in Streams : s # t => References(s) \cap References(t) = {}

AllSucceeded(s) == \A p \in Positions(s) : p < next[s] => Succeeded(<<s, p>>)

\* A customer is as the last event of its stream that took effect says.
UpToDate(s) ==
  AllSucceeded(s) =>
    IF next[s] \in Positions(s) /\ events[Current(s)] # NONE
    THEN customers[events[Current(s)].ref] = Plan[s][next[s]].login
    ELSE next[s] > 1 => customers[ref[s]] = Plan[s][next[s] - 1].login

DatabaseInv ==
  /\ DatabaseTypes
  /\ EffectsRecorded /\ EffectsInOrder
  /\ RecordsInTurn /\ StreamsDisjoint
  /\ \A s \in Streams : UpToDate(s)

\* A request is for an event whose turn has come, and a reply repeats the record.
RequestInv ==
  /\ \A s \in Streams : \A p \in Positions(s) :
       /\ p > next[s] => abandoned[<<s, p>>] = 0
       /\ /\ Plan[s][p].kind = "updated"
          /\ abandoned[<<s, p>>] > 0 \/ (p = next[s] /\ phase[s] # "stopped")
          => ref[s] # NONE
  /\ \A s \in Streams :
       /\ phase[s] \in {"sent", "served"} => next[s] \in Positions(s)
       /\ phase[s] = "served" => reply[s] # NONE
       /\ phase[s] = "served" /\ reply[s].status = 200 =>
            events[Current(s)] # NONE /\ reply[s].ref = events[Current(s)].ref

IInv == SenderTypes /\ RequestTypes /\ DatabaseInv /\ RequestInv

\* The event may be served: its turn has come, and an update has a reference.
Due(s, p) ==
  /\ s \in Streams /\ p \in Positions(s) /\ p <= next[s]
  /\ Plan[s][p].kind = "updated" => ref[s] # NONE

-----------------------------------------------------------------------------
LEMMA EventIdsFact ==
  /\ \A s \in Streams : \A p \in Positions(s) :
       /\ <<s, p>> \in EventIds /\ <<s, p>>[1] = s /\ <<s, p>>[2] = p
       /\ p \in Nat \ {0} /\ p <= Len(Plan[s]) /\ Len(Plan[s]) \in Nat
       /\ Plan[s][p] \in Planned
  /\ \A e \in EventIds : \E s \in Streams : \E p \in Positions(s) : e = <<s, p>>
<1>1. ASSUME NEW s \in Streams PROVE Plan[s] \in Seq(Planned)
  BY CustomerSenderAssumption
<1>2. ASSUME NEW s \in Streams, NEW p \in Positions(s)
      PROVE  /\ p \in Nat \ {0} /\ p <= Len(Plan[s]) /\ Len(Plan[s]) \in Nat
             /\ Plan[s][p] \in Planned
  BY <1>1 DEF Positions
<1> QED
  BY <1>2 DEF EventIds, Positions

LEMMA InitEstablishes == Init => IInv
<1> SUFFICES ASSUME Init PROVE IInv
  OBVIOUS
<1> USE CustomerSenderAssumption, NoneIsNoRecord
<1>1. SenderTypes /\ RequestTypes
  <2>1. \A s \in Streams : Len(Plan[s]) \in Nat
    BY DEF Planned
  <2> QED
    BY <2>1 DEF Init, SenderTypes, RequestTypes
<1>2. DatabaseTypes
  BY DEF Init, DatabaseTypes
<1>3. EffectsRecorded /\ EffectsInOrder
  BY DEF Init, EffectsRecorded, EffectsInOrder
<1>4. RecordsInTurn
  <2> SUFFICES ASSUME NEW s \in Streams, NEW p \in Positions(s)
               PROVE  /\ events[<<s, p>>] = NONE /\ results[<<s, p>>] = NONE /\ ~(p < next[s])
                      /\ ~(Plan[s][p].kind = "created" /\ ref[s] # NONE)
    BY DEF RecordsInTurn, InTurn, Succeeded
  <2> QED
    BY EventIdsFact, StreamsAreCustomers DEF Init, Positions
<1>5. StreamsDisjoint
  <2>1. \A s \in Streams : References(s) = {i \in Ids : i = Known[s]}
    BY EventIdsFact DEF Init, References
  <2>2. \A s \in Streams : ref[s] # NONE => ref[s] \in allocated
    BY StreamsAreCustomers DEF Init
  <2> QED
    BY <2>1, <2>2, StreamsAreCustomers DEF StreamsDisjoint
<1>6. \A s \in Streams : UpToDate(s)
  BY EventIdsFact DEF Init, UpToDate, Current
<1>7. RequestInv
  BY EventIdsFact, StreamsAreCustomers DEF Init, RequestInv, Positions
<1> QED
  BY <1>1, <1>2, <1>3, <1>4, <1>5, <1>6, <1>7 DEF IInv, DatabaseInv

-----------------------------------------------------------------------------
\* The event s, p takes effect on the customer r.
LEMMA CommitPreserves ==
  ASSUME SenderTypes, DatabaseInv, NEW s, NEW p, Due(s, p), events[<<s, p>>] = NONE,
         NEW r \in Targets(Content(<<s, p>>)), Commit(<<s, p>>, r),
         UNCHANGED <<next, ref, results>>
  PROVE  /\ DatabaseInv'
         /\ \A f \in EventIds : events[f] # NONE => events'[f] = events[f]
         /\ events'[<<s, p>>] # NONE /\ events'[<<s, p>>].ref = r
<1> DEFINE e == <<s, p>>
           record == [body |-> Content(e), ref |-> r]
<1> USE CustomerSenderAssumption, NoneIsNoRecord
<1>1. /\ s \in Streams /\ p \in Positions(s) /\ p <= next[s] /\ p \in Nat \ {0}
      /\ e \in EventIds /\ Plan[s][p] \in Planned
      /\ e[1] = s /\ e[2] = p
  BY EventIdsFact DEF Due
<1>2. /\ Content(e) \in Bodies /\ r \in Ids
      /\ Content(e).login = Plan[s][p].login /\ Content(e).kind = Plan[s][p].kind
      /\ Plan[s][p].kind = "created" => r \notin allocated
      /\ Plan[s][p].kind = "updated" => r = ref[s] /\ ref[s] # NONE
  <2>1. Content(e) = [kind |-> Plan[s][p].kind, login |-> Plan[s][p].login,
                      ref |-> IF Plan[s][p].kind = "created" THEN NONE ELSE ref[s]]
    BY <1>1 DEF Content
  <2> QED
    BY <1>1, <2>1 DEF Bodies, Planned, Targets, Due, SenderTypes
<1>3. record \in Records /\ record # NONE /\ record.ref = r
  BY <1>2 DEF Records
<1>4. /\ events' = [events EXCEPT ![e] = record]
      /\ customers' = [customers EXCEPT ![r] = Plan[s][p].login]
      /\ allocated' = allocated \cup {r} /\ effects' = Append(effects, e)
  BY <1>2 DEF Commit, Recorded
<1>5. DatabaseTypes'
  BY <1>1, <1>2, <1>3, <1>4 DEF DatabaseInv, DatabaseTypes, Planned
<1>6. /\ events'[e] = record
      /\ \A f \in EventIds : f # e => events'[f] = events[f]
      /\ \A f \in EventIds : events[f] # NONE => events'[f] = events[f]
  BY <1>1, <1>4 DEF DatabaseInv, DatabaseTypes
<1>7. /\ DOMAIN effects' = 1..(Len(effects) + 1) /\ DOMAIN effects = 1..Len(effects)
      /\ Len(effects) \in Nat /\ effects'[Len(effects) + 1] = e
      /\ \A i \in DOMAIN effects : effects'[i] = effects[i] /\ effects[i] \in EventIds
  BY <1>1, <1>4 DEF DatabaseInv, DatabaseTypes
<1>8. EffectsRecorded'
  <2>1. \A i \in DOMAIN effects : events'[effects'[i]] # NONE
    BY <1>6, <1>7 DEF DatabaseInv, EffectsRecorded
  <2>2. events'[effects'[Len(effects) + 1]] # NONE
    BY <1>3, <1>6, <1>7
  <2>3. \A i \in DOMAIN effects' : i \in DOMAIN effects \/ i = Len(effects) + 1
    BY <1>7
  <2> QED
    BY <2>1, <2>2, <2>3 DEF EffectsRecorded
<1>9. EffectsInOrder'
  <2> SUFFICES ASSUME NEW i \in DOMAIN effects', NEW j \in DOMAIN effects', i < j,
                      effects'[i][1] = effects'[j][1]
               PROVE  \/ effects'[i][2] < effects'[j][2]
                      \/ effects'[i] # effects'[j] /\ Refused(effects'[j])
    BY DEF EffectsInOrder, Refused
  <2>1. CASE j \in DOMAIN effects
    <3>1. i \in DOMAIN effects
      BY <1>7, <2>1
    <3>2. effects'[i] = effects[i] /\ effects'[j] = effects[j]
      BY <1>7, <2>1, <3>1
    <3> QED
      BY <2>1, <3>1, <3>2 DEF DatabaseInv, EffectsInOrder, Refused
  <2>2. CASE j = Len(effects) + 1
    <3>1. i \in DOMAIN effects /\ effects'[j] = e /\ effects'[i] = effects[i]
      BY <1>7, <2>2
    <3>2. PICK q \in Positions(s) : effects[i] = <<s, q>>
      <4>1. PICK t \in Streams : \E q \in Positions(t) : effects[i] = <<t, q>>
        BY <1>7, <3>1, EventIdsFact
      <4>2. t = s
        BY <1>1, <3>1, <4>1
      <4> QED
        BY <4>1, <4>2
    <3>3. events[<<s, q>>] # NONE /\ <<s, q>> # e /\ q \in Nat /\ <<s, q>>[2] = q
      BY <1>1, <3>1, <3>2, EventIdsFact DEF DatabaseInv, EffectsRecorded
    <3>4. q <= next[s]
      BY <1>1, <3>3 DEF DatabaseInv, RecordsInTurn, InTurn, SenderTypes
    <3>5. q < p \/ p < next[s]
      BY <1>1, <3>2, <3>3, <3>4 DEF SenderTypes
    <3>6. p < next[s] => Refused(e)
      BY <1>1 DEF DatabaseInv, RecordsInTurn, InTurn, Refused, Succeeded
    <3> QED
      BY <1>1, <3>1, <3>2, <3>3, <3>5, <3>6 DEF Refused
  <2> QED
    BY <1>7, <2>1, <2>2
<1>10. Plan[s][p].kind = "created" => p = 1 /\ ref[s] = NONE
  BY <1>1, StreamsAreCustomers DEF Positions, DatabaseInv, RecordsInTurn, InTurn
<1>11. RecordsInTurn'
  <2> SUFFICES ASSUME NEW t \in Streams, NEW q \in Positions(t) PROVE InTurn(t, q)'
    BY DEF RecordsInTurn, Positions
  <2>1. CASE <<t, q>> = e
    <3>1. t = s /\ q = p
      BY <1>1, <2>1, EventIdsFact
    <3>2. Plan[s][p].kind \in {"created", "updated"}
      BY <1>1 DEF Planned
    <3> QED
      BY <1>1, <1>2, <1>3, <1>4, <1>6, <1>10, <3>1, <3>2
         DEF DatabaseInv, RecordsInTurn, InTurn, SenderTypes, Succeeded
  <2>2. CASE <<t, q>> # e
    <3>1. events'[<<t, q>>] = events[<<t, q>>]
      BY <1>6, <2>2, EventIdsFact
    <3> QED
      BY <1>4, <3>1 DEF DatabaseInv, RecordsInTurn, InTurn, Succeeded
  <2> QED
    BY <2>1, <2>2
<1>12. \A t \in Streams : References(t) \subseteq allocated
  <2> SUFFICES ASSUME NEW t \in Streams, NEW i \in References(t) PROVE i \in allocated
    OBVIOUS
  <2>1. CASE i = ref[t]
    BY <2>1 DEF DatabaseInv, StreamsDisjoint, References
  <2>2. CASE \E q \in Positions(t) : events[<<t, q>>] # NONE /\ events[<<t, q>>].ref = i
    BY <2>2 DEF DatabaseInv, RecordsInTurn, InTurn
  <2> QED
    BY <2>1, <2>2 DEF References
<1>13. \A t \in Streams : References(t)' = IF t = s THEN References(t) \cup {r}
                                                     ELSE References(t)
  <2> SUFFICES ASSUME NEW t \in Streams
               PROVE  References(t)' = IF t = s THEN References(t) \cup {r}
                                                ELSE References(t)
    OBVIOUS
  <2>1. CASE t # s
    <3>1. \A q \in Positions(t) : events'[<<t, q>>] = events[<<t, q>>]
      BY <1>1, <1>6, <2>1, EventIdsFact
    <3> QED
      BY <2>1, <3>1 DEF References, Positions
  <2>2. CASE t = s
    <3>1. \A q \in Positions(s) : q # p => events'[<<s, q>>] = events[<<s, q>>]
      BY <1>1, <1>6, EventIdsFact
    <3>2. events'[<<s, p>>] # NONE /\ events'[<<s, p>>].ref = r /\ r # NONE
      BY <1>2, <1>3, <1>6
    <3>3. events[<<s, p>>] = NONE
      OBVIOUS
    <3>4. ASSUME NEW i \in Ids
          PROVE  i \in References(s)' <=> i \in References(s) \/ i = r
      BY <1>1, <3>1, <3>2, <3>3 DEF References, Positions
    <3>5. References(s)' \subseteq Ids /\ References(s) \subseteq Ids /\ r \in Ids
      BY <1>2 DEF References
    <3> QED
      BY <2>2, <3>4, <3>5
  <2> QED
    BY <2>1, <2>2
<1>14. \A t \in Streams : t # s => r \notin References(t)
  <2>1. CASE Plan[s][p].kind = "created"
    BY <1>2, <1>12, <2>1
  <2>2. CASE Plan[s][p].kind = "updated"
    <3>1. r \in References(s)
      BY <1>2, <2>2 DEF References
    <3> QED
      BY <1>1, <3>1 DEF DatabaseInv, StreamsDisjoint
  <2> QED
    BY <1>1, <2>1, <2>2 DEF Planned
<1>15. StreamsDisjoint'
  <2>1. \A t \in Streams : ref'[t] # NONE => ref'[t] \in allocated'
    BY <1>4 DEF DatabaseInv, StreamsDisjoint
  <2>2. \A t, u \in Streams : t # u => References(t)' \cap References(u)' = {}
    BY <1>13, <1>14 DEF DatabaseInv, StreamsDisjoint
  <2> QED
    BY <2>1, <2>2 DEF StreamsDisjoint
<1>16. ASSUME NEW t \in Streams PROVE UpToDate(t)'
  <2> SUFFICES ASSUME AllSucceeded(t)
        PROVE IF next[t] \in Positions(t) /\ events'[<<t, next[t]>>] # NONE
              THEN customers'[events'[<<t, next[t]>>].ref] = Plan[t][next[t]].login
              ELSE next[t] > 1 => customers'[ref[t]] = Plan[t][next[t] - 1].login
    BY DEF UpToDate, AllSucceeded, Current, Succeeded, Positions
  <2>1. IF next[t] \in Positions(t) /\ events[<<t, next[t]>>] # NONE
        THEN customers[events[<<t, next[t]>>].ref] = Plan[t][next[t]].login
        ELSE next[t] > 1 => customers[ref[t]] = Plan[t][next[t] - 1].login
    BY DEF DatabaseInv, UpToDate, Current
  <2>2. CASE t = s
    <3>1. p = next[s]
      BY <1>1, <2>2 DEF AllSucceeded, DatabaseInv, RecordsInTurn, InTurn, SenderTypes
    <3>2. customers'[r] = Plan[s][p].login
      BY <1>2, <1>4 DEF DatabaseInv, DatabaseTypes
    <3> QED
      BY <1>1, <1>3, <1>6, <2>2, <3>1, <3>2
  <2>3. CASE t # s
    <3>1. next[t] \in Positions(t) => events'[<<t, next[t]>>] = events[<<t, next[t]>>]
      BY <1>1, <1>6, <2>3, EventIdsFact
    <3>2. \A i \in Ids : i # r => customers'[i] = customers[i]
      BY <1>4 DEF DatabaseInv, DatabaseTypes
    <3>3. CASE next[t] \in Positions(t) /\ events[<<t, next[t]>>] # NONE
      <4>1. events[<<t, next[t]>>].ref \in Ids /\ events[<<t, next[t]>>].ref \in References(t)
        BY <3>3, EventIdsFact DEF DatabaseInv, DatabaseTypes, Records, References
      <4> QED
        BY <1>14, <2>1, <2>3, <3>1, <3>2, <3>3, <4>1
    <3>4. CASE ~(next[t] \in Positions(t) /\ events[<<t, next[t]>>] # NONE) /\ next[t] > 1
      <4>1. next[t] - 1 \in Positions(t) /\ next[t] - 1 < next[t]
        <5>1. Plan[t] \in Seq(Planned) /\ next[t] \in Nat /\ next[t] <= Len(Plan[t]) + 1
          BY DEF SenderTypes
        <5> QED
          BY <3>4, <5>1 DEF Positions
      <4>2. ref[t] # NONE
        BY <4>1 DEF AllSucceeded, DatabaseInv, RecordsInTurn, InTurn
      <4>3. ref[t] \in Ids \cup {NONE}
        BY DEF SenderTypes
      <4> QED
        BY <1>14, <2>1, <2>3, <3>1, <3>2, <3>4, <4>2, <4>3 DEF References
    <3> QED
      BY <3>1, <3>3, <3>4
  <2> QED
    BY <2>2, <2>3
<1> QED
  BY <1>3, <1>5, <1>6, <1>8, <1>9, <1>11, <1>15, <1>16 DEF DatabaseInv

LEMMA DatabaseUnchanged ==
  ASSUME DatabaseInv, UNCHANGED <<database, next, ref, results>>
  PROVE  DatabaseInv'
<1>1. /\ customers' = customers /\ events' = events /\ allocated' = allocated
      /\ effects' = effects /\ next' = next /\ ref' = ref /\ results' = results
  BY DEF database
<1>2. DatabaseTypes' /\ EffectsRecorded' /\ EffectsInOrder'
  BY <1>1 DEF DatabaseInv, DatabaseTypes, EffectsRecorded, EffectsInOrder, Refused
<1>3. RecordsInTurn'
  <2> SUFFICES ASSUME NEW s \in Streams, NEW p \in Positions(s) PROVE InTurn(s, p)'
    BY DEF RecordsInTurn, Positions
  <2>1. InTurn(s, p)
    BY DEF DatabaseInv, RecordsInTurn
  <2> QED
    BY <1>1, <2>1 DEF InTurn, Succeeded
<1>4. StreamsDisjoint'
  BY <1>1 DEF DatabaseInv, StreamsDisjoint, References, Positions
<1>5. \A s \in Streams : UpToDate(s)'
  BY <1>1 DEF DatabaseInv, UpToDate, AllSucceeded, Succeeded, Current, Positions
<1> QED
  BY <1>2, <1>3, <1>4, <1>5 DEF DatabaseInv

\* The errors of the route are no successes (routes.py:164-215).
LEMMA ErrorsRouted ==
  ASSUME NEW exception \in {"CustomerNotFound", "InvalidCustomerData",
                            "SynchronizationConflict", "DBException"}
  PROVE  Error(exception) \in Answers /\ Error(exception).status # 200
<1>1. Routed[exception] \in {404, 409, 422, 503}
  <2>1. /\ Routed["CustomerNotFound"] = 404 /\ Routed["InvalidCustomerData"] = 422
        /\ Routed["SynchronizationConflict"] = 409 /\ Routed["DBException"] = 503
    BY DEF Routed
  <2> QED
    BY <2>1
<1> QED
  BY <1>1 DEF Error, Status, Answers

\* The service keeps the invariant, and answers a success with the record.
LEMMA ServicePreserves ==
  ASSUME SenderTypes, DatabaseInv, NEW s, NEW p, Due(s, p), NEW answer,
         Synchronized(<<s, p>>, answer), UNCHANGED <<next, ref, results>>
  PROVE  /\ DatabaseInv' /\ answer \in Answers
         /\ \A f \in EventIds : events[f] # NONE => events'[f] = events[f]
         /\ answer.status = 200 =>
              events'[<<s, p>>] # NONE /\ answer.ref = events'[<<s, p>>].ref
<1> DEFINE e == <<s, p>>
<1> USE NoneIsNoRecord
<1>1. e \in EventIds
  BY EventIdsFact DEF Due
<1>2. events[e] # NONE => events[e].ref \in Ids
  BY <1>1 DEF DatabaseInv, DatabaseTypes, Records
<1>3. ASSUME NEW verdict \in Verdicts(e)
      PROVE  /\ verdict \in Answers
             /\ events[e] # NONE /\ verdict.status = 200 => verdict.ref = events[e].ref
             /\ TakesEffect(e, verdict) =>
                  events[e] = NONE /\ verdict.ref \in Targets(Content(e))
  <2>1. CASE events[e] # NONE
    <3>1. verdict \in {Success(events[e].ref), Error("SynchronizationConflict")}
      BY <2>1, <1>3 DEF Verdicts, Lookup
    <3>2. Success(events[e].ref) \in Answers /\ Success(events[e].ref).ref = events[e].ref
      BY <1>2, <2>1 DEF Success, Answers
    <3> QED
      BY <2>1, <3>1, <3>2, ErrorsRouted DEF TakesEffect, Lookup
  <2>2. CASE events[e] = NONE /\ Exception(Content(e)) # NONE
    <3>1. verdict = Error(Exception(Content(e)))
      BY <2>2, <1>3 DEF Verdicts, Lookup
    <3>2. Exception(Content(e)) \in {"CustomerNotFound", "InvalidCustomerData",
                                     "SynchronizationConflict", "DBException"}
      BY <2>2 DEF Exception
    <3> QED
      BY <2>2, <3>1, <3>2, ErrorsRouted DEF TakesEffect
  <2>3. CASE events[e] = NONE /\ Exception(Content(e)) = NONE
    <3>1. PICK r \in Targets(Content(e)) : verdict = Success(r)
      BY <2>3, <1>3 DEF Verdicts, Lookup
    <3>2. r \in Ids
      <4>1. Content(e).kind = Plan[s][p].kind /\ e[1] = s /\ e[2] = p
        BY DEF Content
      <4>2. Plan[s][p].kind \in {"created", "updated"}
        BY EventIdsFact DEF Due, Planned
      <4>3. Plan[s][p].kind = "updated" => Content(e).ref = ref[s] /\ ref[s] \in Ids
        BY <4>1 DEF Content, Due, SenderTypes
      <4> QED
        BY <3>1, <4>1, <4>2, <4>3 DEF Targets
    <3> QED
      BY <2>3, <3>1, <3>2 DEF Success, Answers
  <2> QED
    BY <2>1, <2>2, <2>3
<1>4. ASSUME NEW verdict \in Verdicts(e), TakesEffect(e, verdict), Commit(e, verdict.ref)
      PROVE  /\ DatabaseInv'
             /\ \A f \in EventIds : events[f] # NONE => events'[f] = events[f]
             /\ events'[e] # NONE /\ verdict.ref = events'[e].ref
  <2>1. events[e] = NONE /\ verdict.ref \in Targets(Content(e))
    BY <1>3, <1>4
  <2> QED
    BY <1>4, <2>1, CommitPreserves
<1>5. ASSUME UNCHANGED database
      PROVE  DatabaseInv' /\ events' = events
  BY <1>5, DatabaseUnchanged DEF database
<1>6. CASE answer \in Verdicts(e) /\ Answered(e, answer)
  <2>1. CASE TakesEffect(e, answer)
    <3>1. Commit(e, answer.ref)
      BY <1>6, <2>1 DEF Answered
    <3> QED
      BY <1>3, <1>4, <1>6, <2>1, <3>1
  <2>2. CASE ~TakesEffect(e, answer)
    <3>1. UNCHANGED database
      BY <1>6, <2>2 DEF Answered
    <3> QED
      BY <1>3, <1>5, <1>6, <2>2, <3>1 DEF TakesEffect, Lookup
  <2> QED
    BY <2>1, <2>2
<1>7. CASE answer = Error("DBException") /\ Fails(e)
  <2>1. answer \in Answers /\ answer.status # 200
    BY <1>7, ErrorsRouted
  <2>2. CASE UNCHANGED database
    BY <1>5, <2>1, <2>2
  <2>3. CASE \E verdict \in Verdicts(e) : TakesEffect(e, verdict) /\ Commit(e, verdict.ref)
    BY <1>4, <2>1, <2>3
  <2> QED
    BY <1>7, <2>2, <2>3 DEF Fails
<1>8. CASE answer = Error("DBException") /\ UNCHANGED server
  <2>1. answer \in Answers /\ answer.status # 200
    BY <1>8, ErrorsRouted
  <2>2. UNCHANGED database
    BY <1>8 DEF server
  <2> QED
    BY <1>5, <2>1, <2>2
<1> QED
  BY <1>6, <1>7, <1>8 DEF Synchronized

-----------------------------------------------------------------------------
LEMMA SendPreserves ==
  ASSUME IInv, NEW s \in Streams, Send(s) PROVE IInv'
<1>1. /\ phase[s] = "ready" /\ next[s] \in Positions(s)
      /\ phase' = [phase EXCEPT ![s] = "sent"]
      /\ UNCHANGED <<database, next, ref, results>>
      /\ reply' = reply /\ abandoned' = abandoned /\ events' = events
  BY DEF Send, Positions, server, database, sender
<1>2. DatabaseInv'
  BY <1>1, DatabaseUnchanged DEF IInv
<1>3. SenderTypes' /\ RequestTypes'
  BY <1>1 DEF IInv, SenderTypes, RequestTypes
<1>4. phase'[s] = "sent" /\ \A t \in Streams : t # s => phase'[t] = phase[t]
  BY <1>1 DEF IInv, RequestTypes
<1>5. RequestInv'
  BY <1>1, <1>4 DEF IInv, RequestInv, Positions, Current
<1> QED
  BY <1>2, <1>3, <1>5 DEF IInv

LEMMA ServePreserves ==
  ASSUME IInv, NEW s \in Streams, Serve(s) PROVE IInv'
<1>1. /\ phase[s] = "sent" /\ phase' = [phase EXCEPT ![s] = "served"]
      /\ UNCHANGED <<next, ref, results>> /\ abandoned' = abandoned
  BY DEF Serve, sender
<1>2. PICK answer : /\ Synchronized(<<s, next[s]>>, answer)
                    /\ reply' = [reply EXCEPT ![s] = answer]
  BY DEF Serve, Current
<1>3. next[s] \in Positions(s) /\ Due(s, next[s])
  <2>1. next[s] \in Positions(s) /\ next[s] \in Nat
    BY <1>1 DEF IInv, RequestInv, SenderTypes
  <2>2. Plan[s][next[s]].kind = "updated" => ref[s] # NONE
    BY <1>1, <2>1 DEF IInv, RequestInv
  <2> QED
    BY <2>1, <2>2 DEF Due
<1>4. /\ DatabaseInv' /\ answer \in Answers
      /\ \A f \in EventIds : events[f] # NONE => events'[f] = events[f]
      /\ answer.status = 200 =>
           events'[<<s, next[s]>>] # NONE /\ answer.ref = events'[<<s, next[s]>>].ref
  BY <1>1, <1>2, <1>3, ServicePreserves DEF IInv
<1>5. SenderTypes' /\ RequestTypes'
  BY <1>1, <1>2, <1>4 DEF IInv, SenderTypes, RequestTypes
<1>6. /\ phase'[s] = "served" /\ reply'[s] = answer
      /\ \A t \in Streams : t # s => phase'[t] = phase[t] /\ reply'[t] = reply[t]
  BY <1>1, <1>2 DEF IInv, RequestTypes
<1>7. RequestInv'
  <2>1. \A t \in Streams : \A p \in Positions(t) :
          /\ p > next[t] => abandoned[<<t, p>>] = 0
          /\ /\ Plan[t][p].kind = "updated"
             /\ abandoned[<<t, p>>] > 0 \/ (p = next[t] /\ phase'[t] # "stopped")
             => ref[t] # NONE
    BY <1>1, <1>6 DEF IInv, RequestInv
  <2>2. ASSUME NEW t \in Streams
        PROVE /\ phase'[t] \in {"sent", "served"} => next[t] \in Positions(t)
              /\ phase'[t] = "served" => reply'[t] # NONE
              /\ phase'[t] = "served" /\ reply'[t].status = 200 =>
                   events'[Current(t)] # NONE /\ reply'[t].ref = events'[Current(t)].ref
    <3>1. CASE t = s
      BY <1>3, <1>4, <1>6, <3>1, NoneIsNoRecord DEF Current
    <3>2. CASE t # s
      <4>1. next[t] \in Positions(t) => Current(t) \in EventIds
        BY EventIdsFact DEF Current
      <4> QED
        BY <1>4, <1>6, <3>2, <4>1 DEF IInv, RequestInv
    <3> QED
      BY <3>1, <3>2
  <2> QED
    BY <1>1, <2>1, <2>2 DEF RequestInv, Positions, Current
<1> QED
  BY <1>4, <1>5, <1>7 DEF IInv

LEMMA ServeLatePreserves ==
  ASSUME IInv, NEW e \in EventIds, ServeLate(e) PROVE IInv'
<1>1. /\ abandoned[e] > 0 /\ abandoned' = [abandoned EXCEPT ![e] = @ - 1]
      /\ UNCHANGED <<next, ref, results>> /\ phase' = phase /\ reply' = reply
  BY DEF ServeLate, sender
<1>2. PICK s \in Streams : \E p \in Positions(s) : e = <<s, p>>
  BY EventIdsFact
<1>3. PICK p \in Positions(s) : e = <<s, p>>
  BY <1>2
<1>4. PICK answer : Synchronized(<<s, p>>, answer)
  BY <1>3 DEF ServeLate
<1>5. Due(s, p)
  <2>1. abandoned[e] \in Nat /\ next[s] \in Nat /\ p \in Nat
    BY <1>3, EventIdsFact DEF IInv, RequestTypes, SenderTypes
  <2> QED
    BY <1>1, <1>3, <2>1 DEF IInv, RequestInv, Due
<1>6. /\ DatabaseInv'
      /\ \A f \in EventIds : events[f] # NONE => events'[f] = events[f]
  BY <1>1, <1>4, <1>5, ServicePreserves DEF IInv
<1>7. SenderTypes' /\ RequestTypes'
  BY <1>1 DEF IInv, SenderTypes, RequestTypes
<1>8. \A f \in EventIds : abandoned[f] = 0 => abandoned'[f] = 0
  <2> SUFFICES ASSUME NEW f \in EventIds, abandoned[f] = 0 PROVE abandoned'[f] = 0
    OBVIOUS
  <2>1. f # e
    BY <1>1
  <2> QED
    BY <1>1, <2>1 DEF IInv, RequestTypes
<1>9. RequestInv'
  <2>1. ASSUME NEW t \in Streams, NEW q \in Positions(t)
        PROVE  /\ q > next[t] => abandoned'[<<t, q>>] = 0
               /\ /\ Plan[t][q].kind = "updated"
                  /\ abandoned'[<<t, q>>] > 0 \/ (q = next[t] /\ phase[t] # "stopped")
                  => ref[t] # NONE
    <3>1. <<t, q>> \in EventIds
      BY EventIdsFact
    <3>2. abandoned'[<<t, q>>] > 0 => abandoned[<<t, q>>] > 0
      BY <1>1, <3>1 DEF IInv, RequestTypes
    <3> QED
      BY <1>8, <3>1, <3>2 DEF IInv, RequestInv
  <2>2. ASSUME NEW t \in Streams
        PROVE /\ phase[t] \in {"sent", "served"} => next[t] \in Positions(t)
              /\ phase[t] = "served" => reply[t] # NONE
              /\ phase[t] = "served" /\ reply[t].status = 200 =>
                   events'[Current(t)] # NONE /\ reply[t].ref = events'[Current(t)].ref
    <3>1. next[t] \in Positions(t) => Current(t) \in EventIds
      BY EventIdsFact DEF Current
    <3> QED
      BY <1>6, <3>1 DEF IInv, RequestInv
  <2> QED
    BY <1>1, <2>1, <2>2 DEF RequestInv, Positions, Current
<1> QED
  BY <1>6, <1>7, <1>9 DEF IInv

LEMMA GiveUpPreserves ==
  ASSUME IInv, NEW s \in Streams, GiveUp(s) PROVE IInv'
<1>1. /\ phase[s] \in {"sent", "served"} /\ phase' = [phase EXCEPT ![s] = "ready"]
      /\ reply' = [reply EXCEPT ![s] = NONE]
      /\ UNCHANGED <<database, next, ref, results>> /\ events' = events
  BY DEF GiveUp, server, database, sender
<1>2. /\ next[s] \in Positions(s) /\ <<s, next[s]>> \in EventIds
      /\ <<s, next[s]>>[1] = s /\ <<s, next[s]>>[2] = next[s]
  BY <1>1, EventIdsFact DEF IInv, RequestInv
<1>3. \/ abandoned' = abandoned
      \/ abandoned' = [abandoned EXCEPT ![<<s, next[s]>>] = @ + 1]
  BY DEF GiveUp, Current
<1>4. DatabaseInv'
  BY <1>1, DatabaseUnchanged DEF IInv
<1>5. SenderTypes' /\ RequestTypes'
  <2>1. abandoned' \in [EventIds -> Nat]
    BY <1>2, <1>3 DEF IInv, RequestTypes
  <2>2. phase' \in [Streams -> {"ready", "sent", "served", "stopped"}]
    BY <1>1 DEF IInv, RequestTypes
  <2>3. reply' \in [Streams -> Answers \cup {NONE}]
    BY <1>1 DEF IInv, RequestTypes
  <2>4. SenderTypes'
    BY <1>1 DEF IInv, SenderTypes
  <2> QED
    BY <2>1, <2>2, <2>3, <2>4 DEF RequestTypes
<1>6. /\ phase'[s] = "ready"
      /\ \A t \in Streams : t # s => phase'[t] = phase[t] /\ reply'[t] = reply[t]
  BY <1>1 DEF IInv, RequestTypes
<1>7. RequestInv'
  <2>1. ASSUME NEW t \in Streams, NEW q \in Positions(t)
        PROVE  /\ q > next[t] => abandoned'[<<t, q>>] = 0
               /\ /\ Plan[t][q].kind = "updated"
                  /\ abandoned'[<<t, q>>] > 0 \/ (q = next[t] /\ phase'[t] # "stopped")
                  => ref[t] # NONE
    <3>1. CASE <<t, q>> = <<s, next[s]>>
      <4>1. t = s /\ q = next[s] /\ next[s] \in Nat /\ phase[s] # "stopped"
        BY <1>1, <3>1 DEF IInv, SenderTypes
      <4> QED
        BY <4>1 DEF IInv, RequestInv
    <3>2. CASE <<t, q>> # <<s, next[s]>>
      <4>1. abandoned'[<<t, q>>] = abandoned[<<t, q>>]
        BY <1>3, <3>2, EventIdsFact DEF IInv, RequestTypes
      <4>2. q = next[t] => t # s
        BY <3>2
      <4> QED
        BY <1>6, <4>1, <4>2 DEF IInv, RequestInv
    <3> QED
      BY <3>1, <3>2
  <2>2. ASSUME NEW t \in Streams
        PROVE /\ phase'[t] \in {"sent", "served"} => next[t] \in Positions(t)
              /\ phase'[t] = "served" => reply'[t] # NONE
              /\ phase'[t] = "served" /\ reply'[t].status = 200 =>
                   events[Current(t)] # NONE /\ reply'[t].ref = events[Current(t)].ref
    BY <1>6 DEF IInv, RequestInv
  <2> QED
    BY <1>1, <2>1, <2>2 DEF RequestInv, Positions, Current
<1> QED
  BY <1>4, <1>5, <1>7 DEF IInv

-----------------------------------------------------------------------------
\* A definite answer moves the stream on.
LEMMA DefinitePreserves ==
  ASSUME IInv, NEW s \in Streams, phase[s] = "served", reply[s].status # 503,
         results' = [results EXCEPT ![Current(s)] = reply[s]],
         next' = [next EXCEPT ![s] = @ + 1],
         ref' = IF reply[s].status = 200 THEN [ref EXCEPT ![s] = reply[s].ref] ELSE ref,
         UNCHANGED database
  PROVE  SenderTypes' /\ DatabaseInv'
<1> DEFINE n == next[s]
           e == <<s, n>>
<1> USE CustomerSenderAssumption, NoneIsNoRecord
<1>1. /\ n \in Positions(s) /\ n \in Nat \ {0} /\ n <= Len(Plan[s]) /\ Len(Plan[s]) \in Nat
      /\ e \in EventIds /\ e[1] = s /\ e[2] = n /\ Current(s) = e
  BY EventIdsFact DEF IInv, RequestInv, Current
<1>2. /\ reply[s] \in Answers /\ reply[s] # NONE
      /\ reply[s].status = 200 => events[e] # NONE /\ reply[s].ref = events[e].ref
  <2>1. reply[s] \in Answers \cup {NONE} /\ reply[s] # NONE
    BY DEF IInv, RequestInv, RequestTypes
  <2>2. reply[s].status = 200 =>
          events[Current(s)] # NONE /\ reply[s].ref = events[Current(s)].ref
    BY DEF IInv, RequestInv
  <2> QED
    BY <1>1, <2>1, <2>2
<1>3. events[e] # NONE => events[e].ref \in Ids /\ events[e].ref # NONE
  BY <1>1 DEF IInv, DatabaseInv, DatabaseTypes, Records
<1>4. InTurn(s, n) /\ results[e] = NONE
  BY <1>1 DEF IInv, DatabaseInv, RecordsInTurn, InTurn
<1>5. /\ next'[s] = n + 1 /\ results'[e] = reply[s]
      /\ \A t \in Streams : t # s => next'[t] = next[t] /\ ref'[t] = ref[t]
      /\ \A f \in EventIds : f # e => results'[f] = results[f]
      /\ ref'[s] = IF reply[s].status = 200 THEN events[e].ref ELSE ref[s]
  BY <1>1, <1>2 DEF IInv, SenderTypes
<1>6. /\ ref[s] # NONE => ref'[s] = ref[s]
      /\ ref'[s] # NONE /\ ref[s] = NONE =>
           n = 1 /\ events[e] # NONE /\ ref'[s] = events[e].ref
      /\ ref'[s] # NONE /\ reply[s].status = 200 => ref'[s] = events[e].ref
  BY <1>2, <1>4, <1>5 DEF InTurn
<1>7. SenderTypes'
  <2>1. \A t \in Streams : next'[t] \in Nat \ {0} /\ next'[t] <= Len(Plan[t]) + 1
    BY <1>1, <1>5 DEF IInv, SenderTypes
  <2>2. next' \in [Streams -> Nat \ {0}]
    BY <2>1 DEF IInv, SenderTypes
  <2>3. ref' \in [Streams -> Ids \cup {NONE}]
    BY <1>2, <1>3 DEF IInv, SenderTypes
  <2>4. results' \in [EventIds -> Answers \cup {NONE}]
    BY <1>1, <1>2 DEF IInv, SenderTypes
  <2> QED
    BY <2>1, <2>2, <2>3, <2>4 DEF SenderTypes
<1>8. /\ customers' = customers /\ events' = events /\ allocated' = allocated
      /\ effects' = effects
  BY DEF database
<1>9. DatabaseTypes' /\ EffectsRecorded'
  BY <1>8 DEF IInv, DatabaseInv, DatabaseTypes, EffectsRecorded
<1>10. EffectsInOrder'
  <2> SUFFICES ASSUME NEW i \in DOMAIN effects, NEW j \in DOMAIN effects, i < j,
                      effects[i][1] = effects[j][1]
               PROVE  \/ effects[i][2] < effects[j][2]
                      \/ effects[i] # effects[j] /\ Refused(effects[j])'
    BY <1>8 DEF EffectsInOrder, Refused
  <2>1. \/ effects[i][2] < effects[j][2]
        \/ effects[i] # effects[j] /\ Refused(effects[j])
    BY DEF IInv, DatabaseInv, EffectsInOrder
  <2>2. effects[j] \in EventIds
    BY DEF IInv, DatabaseInv, DatabaseTypes
  <2>3. Refused(effects[j]) => Refused(effects[j])'
    <3> SUFFICES ASSUME Refused(effects[j]) PROVE Refused(effects[j])'
      OBVIOUS
    <3>1. results[effects[j]] # NONE /\ results[effects[j]].status # 200
      BY DEF Refused
    <3>2. effects[j] # e
      BY <1>4, <3>1
    <3>3. results'[effects[j]] = results[effects[j]]
      BY <1>5, <2>2, <3>2
    <3>4. effects'[j] = effects[j]
      BY <1>8
    <3> QED
      BY <3>1, <3>3, <3>4 DEF Refused
  <2> QED
    BY <2>1, <2>3
<1>11. RecordsInTurn'
  <2> SUFFICES ASSUME NEW t \in Streams, NEW q \in Positions(t) PROVE InTurn(t, q)'
    BY DEF RecordsInTurn, Positions
  <2>1. InTurn(t, q) /\ <<t, q>> \in EventIds /\ q \in Nat
    BY EventIdsFact DEF IInv, DatabaseInv, RecordsInTurn
  <2>2. CASE t # s
    <3>1. <<t, q>> # e
      BY <2>2
    <3>2. results'[<<t, q>>] = results[<<t, q>>]
      BY <1>5, <2>1, <3>1
    <3>3. next'[t] = next[t] /\ ref'[t] = ref[t]
      BY <1>5, <2>2
    <3> QED
      BY <1>8, <2>1, <3>2, <3>3 DEF InTurn, Succeeded
  <2>3. CASE t = s /\ q # n
    <3>1. <<t, q>> # e
      BY <2>3
    <3>2. results'[<<s, q>>] = results[<<s, q>>]
      BY <1>5, <2>1, <2>3, <3>1
    <3>3. q > n + 1 => q > n
      BY <1>1, <2>1
    <3>4. q < n + 1 <=> q < n
      BY <1>1, <2>1, <2>3
    <3>5. events[<<s, q>>] # NONE =>
            IF ref'[s] = NONE THEN q = 1 ELSE events[<<s, q>>].ref = ref'[s]
      BY <1>6, <2>1, <2>3 DEF InTurn
    <3>6. Plan[s][q].kind = "created" /\ ref'[s] # NONE => events[<<s, q>>] # NONE
      <4>1. Plan[s][q].kind = "created" => q = 1
        BY <2>3, StreamsAreCustomers DEF Positions
      <4> QED
        BY <1>6, <2>1, <2>3, <4>1 DEF InTurn
    <3>7. Succeeded(<<s, q>>) => ref'[s] # NONE
      BY <1>6, <2>1, <2>3 DEF InTurn
    <3> QED
      BY <1>5, <1>8, <2>1, <2>3, <3>2, <3>3, <3>4, <3>5, <3>6, <3>7 DEF InTurn, Succeeded
  <2>4. CASE t = s /\ q = n
    <3>1. ~(n > n + 1) /\ n < n + 1
      BY <1>1
    <3>2. results'[e] # NONE
      BY <1>2, <1>5
    <3>3. reply[s].status = 200 => events[e] # NONE /\ ref'[s] # NONE
      BY <1>2, <1>3, <1>5
    <3>4. events[e] # NONE => IF ref'[s] = NONE THEN n = 1 ELSE events[e].ref = ref'[s]
      BY <1>4, <1>6 DEF InTurn
    <3>5. Plan[s][n].kind = "created" /\ ref'[s] # NONE => events[e] # NONE
      BY <1>4, <1>6 DEF InTurn
    <3>6. events[e] # NONE => events[e].ref \in allocated
      BY <1>4 DEF InTurn
    <3> QED
      BY <1>5, <1>8, <2>4, <3>1, <3>2, <3>3, <3>4, <3>5, <3>6 DEF InTurn, Succeeded
  <2> QED
    BY <2>2, <2>3, <2>4
<1>12. \A t \in Streams : \A i \in References(t)' : i \in References(t)
  <2>1. \A t \in Streams : t # s => References(t)' = References(t)
    BY <1>5, <1>8 DEF References, Positions
  <2>2. ASSUME NEW i \in References(s)' PROVE i \in References(s)
    <3>1. i \in Ids /\ (i = ref'[s] \/ \E p \in Positions(s) :
                         events[<<s, p>>] # NONE /\ events[<<s, p>>].ref = i)
      BY <1>8 DEF References, Positions
    <3>2. CASE i = ref'[s] /\ reply[s].status = 200
      <4>1. n \in Positions(s) /\ events[<<s, n>>] # NONE /\ events[<<s, n>>].ref = i
        BY <1>1, <1>2, <1>5, <3>2
      <4> QED
        BY <3>1, <4>1 DEF References
    <3>3. CASE i = ref'[s] /\ reply[s].status # 200
      <4>1. i = ref[s]
        BY <1>5, <3>3
      <4> QED
        BY <3>1, <4>1 DEF References
    <3>4. CASE \E p \in Positions(s) : events[<<s, p>>] # NONE /\ events[<<s, p>>].ref = i
      BY <3>1, <3>4 DEF References
    <3> QED
      BY <3>1, <3>2, <3>3, <3>4
  <2> SUFFICES ASSUME NEW t \in Streams, NEW i \in References(t)' PROVE i \in References(t)
    OBVIOUS
  <2>3. CASE t = s
    BY <2>2, <2>3
  <2>4. CASE t # s
    BY <2>1, <2>4
  <2> QED
    BY <2>3, <2>4
<1>13. StreamsDisjoint'
  <2>1. \A t \in Streams : ref'[t] # NONE => ref'[t] \in allocated'
    <3>1. ref'[s] # NONE => ref'[s] \in allocated
      BY <1>4, <1>6 DEF InTurn, IInv, DatabaseInv, StreamsDisjoint
    <3> QED
      BY <1>5, <1>8, <3>1 DEF IInv, DatabaseInv, StreamsDisjoint
  <2>2. \A t, u \in Streams : t # u => References(t)' \cap References(u)' = {}
    BY <1>12 DEF IInv, DatabaseInv, StreamsDisjoint
  <2> QED
    BY <2>1, <2>2 DEF StreamsDisjoint
<1>14. ASSUME NEW t \in Streams, t # s PROVE UpToDate(t)'
  <2>1. UpToDate(t)
    BY DEF IInv, DatabaseInv
  <2>2. \A q \in Positions(t) : results'[<<t, q>>] = results[<<t, q>>]
    BY <1>5, <1>14, EventIdsFact
  <2>3. next'[t] = next[t] /\ ref'[t] = ref[t]
    BY <1>5, <1>14
  <2>4. AllSucceeded(t)' => AllSucceeded(t)
    BY <2>2, <2>3 DEF AllSucceeded, Succeeded, Positions
  <2> SUFFICES ASSUME AllSucceeded(t)'
        PROVE IF next'[t] \in Positions(t) /\ events'[<<t, next'[t]>>] # NONE
              THEN customers'[events'[<<t, next'[t]>>].ref] = Plan[t][next'[t]].login
              ELSE next'[t] > 1 => customers'[ref'[t]] = Plan[t][next'[t] - 1].login
    BY DEF UpToDate, Current, Positions
  <2>5. IF next[t] \in Positions(t) /\ events[<<t, next[t]>>] # NONE
        THEN customers[events[<<t, next[t]>>].ref] = Plan[t][next[t]].login
        ELSE next[t] > 1 => customers[ref[t]] = Plan[t][next[t] - 1].login
    BY <2>1, <2>4 DEF UpToDate, Current
  <2>6. CASE next[t] \in Positions(t) /\ events[<<t, next[t]>>] # NONE
    <3>1. customers[events[<<t, next[t]>>].ref] = Plan[t][next[t]].login
      BY <2>5, <2>6
    <3> QED
      BY <1>8, <1>14, <2>3, <2>6, <3>1 DEF IInv, SenderTypes
  <2>7. CASE ~(next[t] \in Positions(t) /\ events[<<t, next[t]>>] # NONE)
    <3>1. next[t] > 1 => customers[ref[t]] = Plan[t][next[t] - 1].login
      BY <2>5, <2>7
    <3> QED
      BY <1>8, <1>14, <2>3, <2>7, <3>1 DEF IInv, SenderTypes
  <2> QED
    BY <2>6, <2>7
<1>15. UpToDate(s)'
  <2> SUFFICES ASSUME AllSucceeded(s)'
        PROVE IF next'[s] \in Positions(s) /\ events'[<<s, next'[s]>>] # NONE
              THEN customers'[events'[<<s, next'[s]>>].ref] = Plan[s][next'[s]].login
              ELSE next'[s] > 1 => customers'[ref'[s]] = Plan[s][next'[s] - 1].login
    BY DEF UpToDate, Current, Positions
  <2>1. \A q \in Positions(s) : q < n + 1 => Succeeded(<<s, q>>)'
    BY <1>5 DEF AllSucceeded, Positions
  <2>2. reply[s].status = 200
    <3>1. results'[<<s, n>>].status = 200
      BY <1>1, <2>1 DEF Succeeded
    <3> QED
      BY <1>5, <3>1
  <2>3. AllSucceeded(s)
    <3> SUFFICES ASSUME NEW q \in Positions(s), q < n PROVE Succeeded(<<s, q>>)
      BY DEF AllSucceeded
    <3>1. q < n + 1 /\ <<s, q>> # e /\ <<s, q>> \in EventIds
      BY <1>1, EventIdsFact
    <3>2. results'[<<s, q>>] = results[<<s, q>>]
      BY <1>5, <3>1
    <3> QED
      BY <2>1, <3>1, <3>2 DEF Succeeded
  <2>4. customers[events[e].ref] = Plan[s][n].login
    <3>1. UpToDate(s)
      BY DEF IInv, DatabaseInv
    <3>2. next[s] \in Positions(s) /\ events[Current(s)] # NONE
      BY <1>1, <1>2, <2>2
    <3>3. customers[events[Current(s)].ref] = Plan[s][next[s]].login
      BY <2>3, <3>1, <3>2 DEF UpToDate
    <3> QED
      BY <1>1, <3>3
  <2>5. ref'[s] = events[e].ref
    BY <1>5, <2>2
  <2>6. n + 1 \in Positions(s) => events[<<s, n + 1>>] = NONE
    BY <1>1 DEF IInv, DatabaseInv, RecordsInTurn, InTurn
  <2>7. n + 1 - 1 = n
    BY <1>1
  <2>8. next'[s] = n + 1 /\ events' = events /\ customers' = customers
    BY <1>5, <1>8
  <2>9. ~(next'[s] \in Positions(s) /\ events'[<<s, next'[s]>>] # NONE)
    <3>1. next \in [Streams -> Nat \ {0}]
      BY DEF IInv, SenderTypes
    <3> QED
      BY <2>6, <2>8, <3>1
  <2>10. next'[s] - 1 = n /\ customers'[ref'[s]] = Plan[s][n].login
    <3>1. next \in [Streams -> Nat \ {0}] /\ ref \in [Streams -> Ids \cup {NONE}]
      BY DEF IInv, SenderTypes
    <3> QED
      BY <1>3, <2>4, <2>5, <2>7, <2>8, <3>1
  <2> QED
    BY <2>9, <2>10
<1> QED
  BY <1>7, <1>9, <1>10, <1>11, <1>13, <1>14, <1>15 DEF DatabaseInv

LEMMA ReceivePreserves ==
  ASSUME IInv, NEW s \in Streams, Receive(s) PROVE IInv'
<1> USE CustomerSenderAssumption, NoneIsNoRecord
<1>1. /\ phase[s] = "served" /\ reply' = [reply EXCEPT ![s] = NONE]
      /\ UNCHANGED database /\ events' = events /\ abandoned' = abandoned
  BY DEF Receive, server, database
<1>2. reply[s] \in Answers /\ next[s] \in Positions(s) /\ next[s] \in Nat
  BY <1>1 DEF IInv, RequestInv, RequestTypes, SenderTypes
<1>3. CASE reply[s].status = 503
  <2>1. phase' = [phase EXCEPT ![s] = "ready"] /\ UNCHANGED <<next, ref, results>>
    BY <1>3 DEF Receive, sender
  <2>2. DatabaseInv'
    BY <1>1, <2>1, DatabaseUnchanged DEF IInv
  <2>3. SenderTypes' /\ RequestTypes'
    BY <1>1, <2>1 DEF IInv, SenderTypes, RequestTypes
  <2>4. /\ phase'[s] = "ready"
        /\ \A t \in Streams : t # s => phase'[t] = phase[t] /\ reply'[t] = reply[t]
    BY <1>1, <2>1 DEF IInv, RequestTypes
  <2>5. RequestInv'
    <3>1. ASSUME NEW t \in Streams, NEW q \in Positions(t)
          PROVE  /\ q > next[t] => abandoned[<<t, q>>] = 0
                 /\ /\ Plan[t][q].kind = "updated"
                    /\ abandoned[<<t, q>>] > 0 \/ (q = next[t] /\ phase'[t] # "stopped")
                    => ref[t] # NONE
      BY <1>1, <2>4 DEF IInv, RequestInv
    <3>2. ASSUME NEW t \in Streams
          PROVE /\ phase'[t] \in {"sent", "served"} => next[t] \in Positions(t)
                /\ phase'[t] = "served" => reply'[t] # NONE
                /\ phase'[t] = "served" /\ reply'[t].status = 200 =>
                     events[Current(t)] # NONE /\ reply'[t].ref = events[Current(t)].ref
      <4>1. CASE t = s
        BY <2>4, <4>1
      <4>2. CASE t # s
        <5>1. phase'[t] = phase[t] /\ reply'[t] = reply[t]
          BY <2>4, <4>2
        <5>2. /\ phase[t] \in {"sent", "served"} => next[t] \in Positions(t)
              /\ phase[t] = "served" => reply[t] # NONE
              /\ phase[t] = "served" /\ reply[t].status = 200 =>
                   events[Current(t)] # NONE /\ reply[t].ref = events[Current(t)].ref
          BY DEF IInv, RequestInv
        <5> QED
          BY <5>1, <5>2
      <4> QED
        BY <4>1, <4>2
    <3> QED
      BY <1>1, <2>1, <3>1, <3>2 DEF RequestInv, Positions, Current
  <2> QED
    BY <2>2, <2>3, <2>5 DEF IInv
<1>4. CASE reply[s].status # 503
  <2>1. /\ results' = [results EXCEPT ![Current(s)] = reply[s]]
        /\ next' = [next EXCEPT ![s] = @ + 1]
        /\ ref' = IF reply[s].status = 200 THEN [ref EXCEPT ![s] = reply[s].ref] ELSE ref
        /\ \/ phase' = [phase EXCEPT ![s] = "stopped"]
           \/ /\ phase' = [phase EXCEPT ![s] = "ready"]
              /\ reply[s].status = 200 \/ ref[s] # NONE
    BY <1>4 DEF Receive
  <2>2. SenderTypes' /\ DatabaseInv'
    BY <1>1, <1>4, <2>1, DefinitePreserves
  <2>3. RequestTypes'
    BY <1>1, <2>1 DEF IInv, RequestTypes
  <2>4. /\ phase'[s] \in {"stopped", "ready"} /\ next'[s] = next[s] + 1
        /\ \A t \in Streams : t # s => /\ phase'[t] = phase[t] /\ reply'[t] = reply[t]
                                       /\ next'[t] = next[t] /\ ref'[t] = ref[t]
    BY <1>1, <2>1 DEF IInv, RequestTypes, SenderTypes
  <2>5. reply[s].status = 200 => ref'[s] # NONE
    <3> SUFFICES ASSUME reply[s].status = 200 PROVE ref'[s] # NONE
      OBVIOUS
    <3>1. events[Current(s)] # NONE /\ reply[s].ref = events[Current(s)].ref
      BY <1>1 DEF IInv, RequestInv
    <3>2. Current(s) \in EventIds
      BY <1>2, EventIdsFact DEF Current
    <3>3. events[Current(s)].ref \in Ids
      BY <3>1, <3>2 DEF IInv, DatabaseInv, DatabaseTypes, Records
    <3> QED
      BY <2>1, <3>1, <3>3 DEF IInv, SenderTypes
  <2>6. ref[s] # NONE => ref'[s] # NONE
    BY <2>1, <2>5
  <2>7. phase'[s] # "stopped" => ref'[s] # NONE
    BY <2>1, <2>5, <2>6 DEF IInv, RequestTypes
  <2>8. RequestInv'
    <3>1. ASSUME NEW t \in Streams, NEW q \in Positions(t)
          PROVE  /\ q > next'[t] => abandoned[<<t, q>>] = 0
                 /\ /\ Plan[t][q].kind = "updated"
                    /\ abandoned[<<t, q>>] > 0 \/ (q = next'[t] /\ phase'[t] # "stopped")
                    => ref'[t] # NONE
      <4>1. CASE t = s
        <5>1. q > next[s] + 1 => q > next[s]
          <6>1. q \in Nat
            BY EventIdsFact
          <6> QED
            BY <1>2, <6>1
        <5> QED
          BY <2>4, <2>6, <2>7, <4>1, <5>1 DEF IInv, RequestInv
      <4>2. CASE t # s
        BY <2>4, <4>2 DEF IInv, RequestInv
      <4> QED
        BY <4>1, <4>2
    <3>2. ASSUME NEW t \in Streams
          PROVE /\ phase'[t] \in {"sent", "served"} => next'[t] \in Positions(t)
                /\ phase'[t] = "served" => reply'[t] # NONE
                /\ phase'[t] = "served" /\ reply'[t].status = 200 =>
                     /\ events[<<t, next'[t]>>] # NONE
                     /\ reply'[t].ref = events[<<t, next'[t]>>].ref
      <4>1. CASE t = s
        BY <2>4, <4>1
      <4>2. CASE t # s
        <5>1. phase'[t] = phase[t] /\ reply'[t] = reply[t] /\ next'[t] = next[t]
          BY <2>4, <4>2
        <5>2. /\ phase[t] \in {"sent", "served"} => next[t] \in Positions(t)
              /\ phase[t] = "served" => reply[t] # NONE
              /\ phase[t] = "served" /\ reply[t].status = 200 =>
                   /\ events[<<t, next[t]>>] # NONE
                   /\ reply[t].ref = events[<<t, next[t]>>].ref
          BY DEF IInv, RequestInv, Current
        <5> QED
          BY <5>1, <5>2
      <4> QED
        BY <4>1, <4>2
    <3> QED
      BY <1>1, <3>1, <3>2 DEF RequestInv, Positions, Current
  <2> QED
    BY <2>2, <2>3, <2>8 DEF IInv
<1> QED
  BY <1>3, <1>4

LEMMA RemovePreserves ==
  ASSUME IInv, NEW r \in Ids, Remove(r) PROVE IInv'
<1>1. /\ \A e \in EventIds : events[e] # NONE => events[e].ref # r
      /\ customers' = [customers EXCEPT ![r] = NONE]
      /\ events' = events /\ allocated' = allocated /\ effects' = effects
      /\ next' = next /\ ref' = ref /\ results' = results
      /\ phase' = phase /\ reply' = reply /\ abandoned' = abandoned
  BY DEF Remove, sender
<1>2. SenderTypes' /\ RequestTypes' /\ RequestInv'
  BY <1>1 DEF IInv, SenderTypes, RequestTypes, RequestInv, Positions, Current
<1>3. DatabaseTypes' /\ EffectsRecorded' /\ EffectsInOrder'
  BY <1>1 DEF IInv, DatabaseInv, DatabaseTypes, EffectsRecorded, EffectsInOrder, Refused
<1>4. RecordsInTurn'
  <2> SUFFICES ASSUME NEW s \in Streams, NEW p \in Positions(s) PROVE InTurn(s, p)'
    BY DEF RecordsInTurn, Positions
  <2>1. InTurn(s, p)
    BY DEF IInv, DatabaseInv, RecordsInTurn
  <2> QED
    BY <1>1, <2>1 DEF InTurn, Succeeded
<1>5. StreamsDisjoint'
  BY <1>1 DEF IInv, DatabaseInv, StreamsDisjoint, References, Positions
<1>6. ASSUME NEW s \in Streams PROVE UpToDate(s)'
  <2> SUFFICES ASSUME AllSucceeded(s)
        PROVE IF next[s] \in Positions(s) /\ events[Current(s)] # NONE
              THEN customers'[events[Current(s)].ref] = Plan[s][next[s]].login
              ELSE next[s] > 1 => customers'[ref[s]] = Plan[s][next[s] - 1].login
    BY <1>1 DEF UpToDate, AllSucceeded, Succeeded, Current, Positions
  <2>1. IF next[s] \in Positions(s) /\ events[Current(s)] # NONE
        THEN customers[events[Current(s)].ref] = Plan[s][next[s]].login
        ELSE next[s] > 1 => customers[ref[s]] = Plan[s][next[s] - 1].login
    BY DEF IInv, DatabaseInv, UpToDate
  <2>2. \A e \in EventIds : events[e] # NONE => customers'[events[e].ref] = customers[events[e].ref]
    BY <1>1 DEF IInv, DatabaseInv, DatabaseTypes, Records
  <2>3. next[s] \in Positions(s) => Current(s) \in EventIds
    BY EventIdsFact DEF Current
  <2>4. next[s] > 1 => \E e \in EventIds : events[e] # NONE /\ events[e].ref = ref[s]
    <3> SUFFICES ASSUME next[s] > 1
                 PROVE  \E e \in EventIds : events[e] # NONE /\ events[e].ref = ref[s]
      OBVIOUS
    <3>1. Plan[s] \in Seq(Planned) /\ next[s] \in Nat /\ next[s] <= Len(Plan[s]) + 1
      BY CustomerSenderAssumption DEF IInv, SenderTypes
    <3>2. next[s] - 1 \in Positions(s) /\ next[s] - 1 < next[s]
      BY <3>1 DEF Positions
    <3>3. Succeeded(<<s, next[s] - 1>>) /\ InTurn(s, next[s] - 1)
      BY <3>2 DEF AllSucceeded, IInv, DatabaseInv, RecordsInTurn
    <3>4. <<s, next[s] - 1>> \in EventIds
      BY <3>2, EventIdsFact
    <3> QED
      BY <3>3, <3>4 DEF InTurn
  <2> QED
    BY <2>1, <2>2, <2>3, <2>4
<1> QED
  BY <1>2, <1>3, <1>4, <1>5, <1>6 DEF IInv, DatabaseInv

LEMMA NextPreserves == IInv /\ [Next]_vars => IInv'
<1> SUFFICES ASSUME IInv, [Next]_vars PROVE IInv'
  OBVIOUS
<1>1. ASSUME NEW s \in Streams, Send(s) \/ Serve(s) \/ Receive(s) \/ GiveUp(s) PROVE IInv'
  BY <1>1, SendPreserves, ServePreserves, ReceivePreserves, GiveUpPreserves
<1>2. ASSUME NEW e \in EventIds, ServeLate(e) PROVE IInv'
  BY <1>2, ServeLatePreserves
<1>3. ASSUME NEW r \in Ids, Remove(r) PROVE IInv'
  BY <1>3, RemovePreserves
<1>4. CASE UNCHANGED vars
  <2>1. /\ UNCHANGED <<database, next, ref, results>> /\ events' = events
        /\ phase' = phase /\ reply' = reply /\ abandoned' = abandoned
    BY <1>4 DEF vars, server, database, sender
  <2>2. DatabaseInv'
    BY <2>1, DatabaseUnchanged DEF IInv
  <2> QED
    BY <2>1, <2>2
       DEF IInv, SenderTypes, RequestTypes, RequestInv, Positions, Current
<1> QED
  BY <1>1, <1>2, <1>3, <1>4 DEF Next

LEMMA InvariantHolds == Spec => []IInv
BY InitEstablishes, NextPreserves, PTL DEF Spec

\* The events of a stream take effect once and in the order of the stream, but
\* for refused ones (routes.py:125-131).
THEOREM StreamsTakeEffectInOrder == Spec => []EffectsInOrder
<1>1. IInv => EffectsInOrder
  BY DEF IInv, DatabaseInv
<1> QED
  BY <1>1, InvariantHolds, PTL

\* A stream whose events have all succeeded leaves its customer as its last
\* event says, whatever arrives later (customer_synchronization_service.py:18-48).
THEOREM StreamsEndAsPlanned == Spec => []AsPlanned
<1>1. IInv => AsPlanned
  <2> SUFFICES ASSUME IInv, NEW s \in Streams, Plan[s] # <<>>,
                      \A p \in Positions(s) : Succeeded(<<s, p>>)
               PROVE  customers[ref[s]] = Plan[s][Len(Plan[s])].login
    BY DEF AsPlanned, Positions
  <2>1. /\ Plan[s] \in Seq(Planned) /\ Len(Plan[s]) \in Nat \ {0}
        /\ next[s] \in Nat /\ next[s] <= Len(Plan[s]) + 1
    BY CustomerSenderAssumption DEF IInv, SenderTypes
  <2>2. Len(Plan[s]) \in Positions(s) /\ Len(Plan[s]) < next[s]
    <3>1. Len(Plan[s]) \in Positions(s)
      BY <2>1 DEF Positions
    <3>2. Succeeded(<<s, Len(Plan[s])>>) /\ InTurn(s, Len(Plan[s]))
      BY <3>1 DEF IInv, DatabaseInv, RecordsInTurn
    <3> QED
      BY <3>1, <3>2 DEF InTurn, Succeeded
  <2>3. next[s] = Len(Plan[s]) + 1 /\ next[s] \notin Positions(s)
    BY <2>1, <2>2 DEF Positions
  <2>4. UpToDate(s) /\ AllSucceeded(s)
    BY DEF IInv, DatabaseInv, AllSucceeded
  <2> QED
    BY <2>1, <2>3, <2>4 DEF UpToDate
<1> QED
  BY <1>1, InvariantHolds, PTL

-----------------------------------------------------------------------------
(* The promise                                                             *)

\* A customer that is there has had its id given out.
Allocated == \A i \in Ids : customers[i] # NONE => i \in allocated

LEMMA ContentFacts ==
  ASSUME SenderTypes, NEW s, NEW p, Due(s, p)
  PROVE  /\ <<s, p>> \in EventIds /\ Content(<<s, p>>) \in Bodies
         /\ Content(<<s, p>>).kind = "created" => Content(<<s, p>>).ref = NONE
         /\ Content(<<s, p>>).kind = "updated" => Content(<<s, p>>).ref \in Ids
<1>1. /\ s \in Streams /\ p \in Positions(s) /\ <<s, p>> \in EventIds
      /\ Plan[s][p] \in Planned /\ <<s, p>>[1] = s /\ <<s, p>>[2] = p
  BY EventIdsFact DEF Due
<1>2. Content(<<s, p>>) = [kind |-> Plan[s][p].kind, login |-> Plan[s][p].login,
                           ref |-> IF Plan[s][p].kind = "created" THEN NONE ELSE ref[s]]
  BY <1>1 DEF Content
<1> QED
  BY <1>1, <1>2 DEF Bodies, Planned, Due, SenderTypes

\* What the service has checked when it raises nothing.
LEMMA NothingRaised ==
  ASSUME NEW body, Exception(body) = NONE
  PROVE  /\ body.kind = "updated" => customers[body.ref] # NONE
         /\ Free(body.login, body.ref)
BY NoneIsNoRecord DEF Exception

LEMMA SomethingRaised ==
  ASSUME NEW body, Exception(body) # NONE
  PROVE  /\ Error(Exception(body)).status \in {404, 409, 422, 503}
         /\ Error(Exception(body)).ref = NONE
<1>1. Exception(body) \in {"CustomerNotFound", "InvalidCustomerData",
                           "SynchronizationConflict", "DBException"}
  BY DEF Exception
<1>2. Routed[Exception(body)] \in {404, 409, 422, 503}
  <2>1. /\ Routed["CustomerNotFound"] = 404 /\ Routed["InvalidCustomerData"] = 422
        /\ Routed["SynchronizationConflict"] = 409 /\ Routed["DBException"] = 503
    BY DEF Routed
  <2> QED
    BY <1>1, <2>1
<1> QED
  BY <1>2 DEF Error, Status

\* A commit is an acceptance, whether its answer is given or lost.
LEMMA CommitAccepts ==
  ASSUME SenderTypes, DatabaseInv, Allocated, NEW s, NEW p, Due(s, p), events[<<s, p>>] = NONE,
         NEW r \in Targets(Content(<<s, p>>)), Exception(Content(<<s, p>>)) = NONE,
         Commit(<<s, p>>, r),
         answers' \in {answers, answers \cup {Promise!Success(<<s, p>>, Content(<<s, p>>), r)}}
  PROVE  Promise!Step
<1> DEFINE e == <<s, p>>
           b == Content(<<s, p>>)
<1>1. /\ e \in EventIds /\ b \in Bodies
      /\ b.kind = "created" => b.ref = NONE
      /\ b.kind = "updated" => b.ref \in Ids
  BY ContentFacts
<1>2. /\ b.kind = "updated" => customers[b.ref] # NONE
      /\ Free(b.login, b.ref)
  BY NothingRaised
<1>3. r \in Ids /\ (IF b.kind = "created" THEN r \notin allocated ELSE r = b.ref)
  <2>1. b.kind \in {"created", "updated"}
    BY <1>1 DEF Bodies
  <2> QED
    BY <1>1, <2>1 DEF Targets
<1>4. IF b.kind = "created" THEN customers[r] = NONE ELSE r = b.ref /\ customers[r] # NONE
  <2>1. b.kind \in {"created", "updated"}
    BY <1>1 DEF Bodies
  <2> QED
    BY <1>2, <1>3, <2>1 DEF Allocated
<1>5. /\ customers' = [customers EXCEPT ![r] = b.login]
      /\ events' = [events EXCEPT ![e] = [body |-> b, ref |-> r]]
  BY DEF Commit, Recorded
<1> HIDE DEF b
<1>6. Applies(customers, b, r, customers')
  BY <1>2, <1>4, <1>5 DEF Applies, Free
<1>7. Promise!Accept(e, b, r)
  BY <1>5, <1>6 DEF Promise!Accept, b
<1> QED
  BY <1>1, <1>3, <1>7 DEF Promise!Step

\* Serving an event is one step of the promise, or none.
LEMMA ServiceKeepsPromise ==
  ASSUME SenderTypes, DatabaseInv, Allocated, NEW s, NEW p, Due(s, p), NEW answer,
         Synchronized(<<s, p>>, answer)
  PROVE  Promise!Step \/ UNCHANGED <<customers, events, answers>>
<1> DEFINE e == <<s, p>>
           b == Content(<<s, p>>)
<1>1. e \in EventIds /\ b \in Bodies
  BY ContentFacts
<1>2. ASSUME NEW verdict \in Verdicts(e), TakesEffect(e, verdict)
      PROVE  /\ events[e] = NONE /\ verdict.ref \in Targets(b) /\ Exception(b) = NONE
             /\ verdict = Success(verdict.ref)
  <2>1. events[e] = NONE /\ verdict.status = 200
    BY <1>2 DEF TakesEffect, Lookup
  <2>2. CASE Exception(b) # NONE
    BY <2>1, <2>2, SomethingRaised DEF Verdicts, Lookup
  <2>3. CASE Exception(b) = NONE
    <3>1. PICK r \in Targets(b) : verdict = Success(r)
      BY <2>1, <2>3 DEF Verdicts, Lookup
    <3>2. verdict.ref = r
      BY <3>1 DEF Success
    <3> QED
      BY <2>1, <2>3, <3>1, <3>2
  <2> QED
    BY <2>2, <2>3
<1>3. CASE answer \in Verdicts(e) /\ answer.status # 503 /\ Answered(e, answer)
  <2>1. answers' = answers \cup {[event |-> e, body |-> b, status |-> answer.status,
                                  ref |-> answer.ref]}
    BY <1>3 DEF Answered
  <2>2. CASE TakesEffect(e, answer)
    <3>1. /\ events[e] = NONE /\ answer.ref \in Targets(b) /\ Exception(b) = NONE
          /\ answer.status = 200 /\ Commit(e, answer.ref)
      BY <1>2, <1>3, <2>2 DEF Answered, TakesEffect
    <3>2. answers' = answers \cup {Promise!Success(e, b, answer.ref)}
      BY <2>1, <3>1 DEF Promise!Success
    <3> QED
      BY <3>1, <3>2, CommitAccepts
  <2>3. CASE ~TakesEffect(e, answer) /\ answer.status = 200
    <3>1. events[e] # NONE /\ UNCHANGED <<customers, events>>
      BY <1>3, <2>3 DEF TakesEffect, Lookup, Answered, database
    <3>2. events[e] \in Records
      BY <1>1, <3>1 DEF DatabaseInv, DatabaseTypes
    <3>3. Error("SynchronizationConflict").status # 200
      BY ErrorsRouted
    <3>4. answer = Success(events[e].ref) /\ events[e].body = b
      BY <1>3, <2>3, <3>1, <3>3 DEF Verdicts, Lookup
    <3>5. answer.ref = events[e].ref /\ events[e].ref \in Ids
      BY <3>2, <3>4 DEF Success, Records
    <3>6. events[e] = [body |-> b, ref |-> answer.ref]
      BY <3>2, <3>4, <3>5 DEF Records
    <3> HIDE DEF b
    <3>7. Promise!Repeat(e, b, answer.ref)
      BY <2>1, <2>3, <3>1, <3>6 DEF Promise!Repeat, Promise!Success
    <3> QED
      BY <1>1, <3>5, <3>7 DEF Promise!Step
  <2>4. CASE ~TakesEffect(e, answer) /\ answer.status # 200
    <3>1. UNCHANGED <<customers, events>>
      BY <1>3, <2>4 DEF Answered, database
    <3>2. /\ events[e] # NONE => events[e].body # b
          /\ answer.status \in {404, 409, 422} /\ answer.ref = NONE
      <4>1. CASE events[e] # NONE
        <5>1. Success(events[e].ref).status = 200
          BY DEF Success
        <5>2. events[e].body # b /\ answer = Error("SynchronizationConflict")
          BY <1>3, <2>4, <4>1, <5>1 DEF Verdicts, Lookup
        <5>3. Routed["SynchronizationConflict"] = 409
          BY DEF Routed
        <5> QED
          BY <5>2, <5>3 DEF Error, Status
      <4>2. CASE events[e] = NONE /\ Exception(b) # NONE
        <5>1. answer = Error(Exception(b))
          BY <1>3, <4>2 DEF Verdicts, Lookup
        <5> QED
          BY <1>3, <4>2, <5>1, SomethingRaised
      <4>3. CASE events[e] = NONE /\ Exception(b) = NONE
        <5>1. PICK r \in Targets(b) : answer = Success(r)
          BY <1>3, <4>3 DEF Verdicts, Lookup
        <5> QED
          BY <2>4, <5>1 DEF Success
      <4> QED
        BY <4>1, <4>2, <4>3
    <3> HIDE DEF b
    <3>3. Promise!Refuse(e, b, answer.status)
      BY <2>1, <3>1, <3>2 DEF Promise!Refuse, Promise!Refusal
    <3> QED
      BY <1>1, <3>2, <3>3 DEF Promise!Step
  <2> QED
    BY <2>2, <2>3, <2>4
<1>4. CASE UNCHANGED server
  BY <1>4 DEF server, database
<1>5. CASE Fails(e)
  <2>1. CASE UNCHANGED database
    BY <1>5, <2>1 DEF Fails, database
  <2>2. ASSUME NEW verdict \in Verdicts(e), TakesEffect(e, verdict), Commit(e, verdict.ref)
        PROVE  Promise!Step
    <3>1. events[e] = NONE /\ verdict.ref \in Targets(b) /\ Exception(b) = NONE
      BY <1>2, <2>2
    <3>2. answers' = answers
      BY <1>5 DEF Fails
    <3> QED
      BY <2>2, <3>1, <3>2, CommitAccepts
  <2> QED
    BY <1>5, <2>1, <2>2 DEF Fails
<1> QED
  BY <1>3, <1>4, <1>5 DEF Synchronized

LEMMA ServedIsDue ==
  ASSUME IInv, NEW s \in Streams, phase[s] = "sent"
  PROVE  Due(s, next[s])
<1>1. next[s] \in Positions(s) /\ next[s] \in Nat
  BY DEF IInv, RequestInv, SenderTypes
<1>2. Plan[s][next[s]].kind = "updated" => ref[s] # NONE
  BY <1>1 DEF IInv, RequestInv
<1> QED
  BY <1>1, <1>2 DEF Due

LEMMA LateIsDue ==
  ASSUME IInv, NEW e \in EventIds, abandoned[e] > 0
  PROVE  \E s, p : e = <<s, p>> /\ Due(s, p)
<1>1. PICK s \in Streams : \E p \in Positions(s) : e = <<s, p>>
  BY EventIdsFact
<1>2. PICK p \in Positions(s) : e = <<s, p>>
  BY <1>1
<1>3. abandoned[e] \in Nat /\ next[s] \in Nat /\ p \in Nat
  BY <1>2, EventIdsFact DEF IInv, RequestTypes, SenderTypes
<1>4. Due(s, p)
  BY <1>2, <1>3 DEF IInv, RequestInv, Due
<1> QED
  BY <1>2, <1>4

LEMMA AllocatedStep == IInv /\ Allocated /\ [Next]_vars => Allocated'
<1> SUFFICES ASSUME IInv, Allocated, [Next]_vars PROVE Allocated'
  OBVIOUS
<1>1. customers \in [Ids -> Logins \cup {NONE}]
  BY DEF IInv, DatabaseInv, DatabaseTypes
<1>2. ASSUME NEW e, NEW r, Commit(e, r) PROVE Allocated'
  BY <1>1, <1>2 DEF Commit, Allocated
<1>3. ASSUME UNCHANGED database PROVE Allocated'
  BY <1>3 DEF database, Allocated
<1>4. ASSUME NEW e, NEW answer, Synchronized(e, answer) PROVE Allocated'
  BY <1>2, <1>3, <1>4 DEF Synchronized, Answered, Fails, server
<1>5. ASSUME NEW s \in Streams, Send(s) \/ Serve(s) \/ Receive(s) \/ GiveUp(s) PROVE Allocated'
  <2>1. CASE Serve(s)
    BY <1>4, <2>1 DEF Serve
  <2>2. CASE Send(s) \/ Receive(s) \/ GiveUp(s)
    BY <1>3, <2>2 DEF Send, Receive, GiveUp, server
  <2> QED
    BY <1>5, <2>1, <2>2
<1>6. ASSUME NEW e \in EventIds, ServeLate(e) PROVE Allocated'
  BY <1>4, <1>6 DEF ServeLate
<1>7. ASSUME NEW r \in Ids, Remove(r) PROVE Allocated'
  BY <1>1, <1>7 DEF Remove, Allocated
<1>8. CASE UNCHANGED vars
  BY <1>3, <1>8 DEF vars, server
<1> QED
  BY <1>5, <1>6, <1>7, <1>8 DEF Next

\* Sender, network and service together keep the promise of the service: what
\* is given up, served late, or committed without an answer included.
THEOREM Implements == Spec => ImplementsPromise
<1>1. Init => Promise!Init /\ Allocated
  BY CustomerSenderAssumption DEF Init, Promise!Init, Allocated
<1>2. IInv /\ Allocated /\ [Next]_vars => [Promise!Next]_(Promise!vars)
  <2> SUFFICES ASSUME IInv, Allocated, [Next]_vars
               PROVE  Promise!Step \/ UNCHANGED <<customers, events, answers>>
    BY DEF Promise!Next, Promise!vars
  <2>1. ASSUME NEW s \in Streams, Serve(s)
        PROVE  Promise!Step \/ UNCHANGED <<customers, events, answers>>
    <3>1. PICK answer : Synchronized(<<s, next[s]>>, answer)
      BY <2>1 DEF Serve, Current
    <3>2. Due(s, next[s])
      BY <2>1, ServedIsDue DEF Serve
    <3> QED
      BY <3>1, <3>2, ServiceKeepsPromise DEF IInv
  <2>2. ASSUME NEW e \in EventIds, ServeLate(e)
        PROVE  Promise!Step \/ UNCHANGED <<customers, events, answers>>
    <3>1. PICK s, p : e = <<s, p>> /\ Due(s, p)
      BY <2>2, LateIsDue DEF ServeLate
    <3>2. PICK answer : Synchronized(<<s, p>>, answer)
      BY <2>2, <3>1 DEF ServeLate
    <3> QED
      BY <3>1, <3>2, ServiceKeepsPromise DEF IInv
  <2>3. ASSUME NEW s \in Streams, Send(s) \/ Receive(s) \/ GiveUp(s)
        PROVE  UNCHANGED <<customers, events, answers>>
    BY <2>3 DEF Send, Receive, GiveUp, server, database
  <2>4. ASSUME NEW r \in Ids, Remove(r) PROVE Promise!Step
    <3>1. Promise!Remove(r)
      BY <2>4 DEF Remove, Promise!Remove
    <3> QED
      BY <3>1 DEF Promise!Step
  <2>5. CASE UNCHANGED vars
    BY <2>5 DEF vars, server, database
  <2> QED
    BY <2>1, <2>2, <2>3, <2>4, <2>5 DEF Next
<1> QED
  BY <1>1, <1>2, AllocatedStep, InvariantHolds, PTL DEF Spec, ImplementsPromise, Promise!Spec

-----------------------------------------------------------------------------
(* The types                                                               *)

GivenAnswers ==
  answers \subseteq [event : EventIds, body : Bodies, status : {200, 404, 409, 422},
                     ref : Ids \cup {NONE}]

\* Every request on its way that nobody waits for is one that was given up.
Counted ==
  /\ giveUps \in 0..MaxGiveUps /\ failures \in 0..MaxFailures
  /\ \A e \in EventIds : abandoned[e] <= giveUps

LEMMA ServiceCounts ==
  ASSUME SenderTypes, DatabaseInv, GivenAnswers, failures \in 0..MaxFailures,
         NEW s, NEW p, Due(s, p), NEW answer, Synchronized(<<s, p>>, answer),
         UNCHANGED <<next, ref, results>>
  PROVE  GivenAnswers' /\ failures' \in 0..MaxFailures
<1> DEFINE e == <<s, p>>
           given == [event |-> e, body |-> Content(e), status |-> answer.status,
                     ref |-> answer.ref]
<1>1. e \in EventIds /\ Content(e) \in Bodies
  BY ContentFacts
<1>2. answer \in Answers
  BY ServicePreserves
<1>3. CASE answer.status # 503 /\ Answered(e, answer)
  <2>1. /\ given.event \in EventIds /\ given.body \in Bodies
        /\ given.status \in {200, 404, 409, 422} /\ given.ref \in Ids \cup {NONE}
    BY <1>1, <1>2, <1>3 DEF Answers
  <2>2. answers' = answers \cup {given} /\ failures' = failures
    BY <1>3 DEF Answered
  <2> QED
    BY <2>1, <2>2 DEF GivenAnswers
<1>4. CASE UNCHANGED server
  BY <1>4 DEF server, GivenAnswers
<1>5. CASE Fails(e)
  BY <1>5, CustomerSenderAssumption DEF Fails, GivenAnswers
<1> QED
  BY <1>3, <1>4, <1>5 DEF Synchronized

LEMMA CountedStep == IInv /\ GivenAnswers /\ Counted /\ [Next]_vars => GivenAnswers' /\ Counted'
<1> SUFFICES ASSUME IInv, GivenAnswers, Counted, [Next]_vars PROVE GivenAnswers' /\ Counted'
  OBVIOUS
<1>1. /\ abandoned \in [EventIds -> Nat] /\ giveUps \in Nat /\ MaxGiveUps \in Nat
      /\ failures \in 0..MaxFailures
  BY CustomerSenderAssumption DEF IInv, RequestTypes, Counted
<1>2. ASSUME NEW s \in Streams, Serve(s) PROVE GivenAnswers' /\ Counted'
  <2>1. PICK answer : Synchronized(<<s, next[s]>>, answer)
    BY <1>2 DEF Serve, Current
  <2>2. Due(s, next[s]) /\ UNCHANGED <<next, ref, results>>
    BY <1>2, ServedIsDue DEF Serve, sender
  <2>3. GivenAnswers' /\ failures' \in 0..MaxFailures
    BY <1>1, <2>1, <2>2, ServiceCounts DEF IInv
  <2> QED
    BY <1>2, <2>3 DEF Serve, Counted
<1>3. ASSUME NEW e \in EventIds, ServeLate(e) PROVE GivenAnswers' /\ Counted'
  <2>1. PICK s, p : e = <<s, p>> /\ Due(s, p)
    BY <1>3, LateIsDue DEF ServeLate
  <2>2. PICK answer : Synchronized(<<s, p>>, answer)
    BY <1>3, <2>1 DEF ServeLate
  <2>3. GivenAnswers' /\ failures' \in 0..MaxFailures
    BY <1>1, <1>3, <2>1, <2>2, ServiceCounts DEF IInv, ServeLate, sender
  <2>4. giveUps' = giveUps /\ \A f \in EventIds : abandoned'[f] <= abandoned[f]
    BY <1>1, <1>3 DEF ServeLate
  <2>5. abandoned' \in [EventIds -> Nat]
    BY <1>1, <1>3 DEF ServeLate
  <2>6. ASSUME NEW f \in EventIds PROVE abandoned'[f] <= giveUps'
    <3>1. abandoned'[f] <= abandoned[f] /\ abandoned[f] <= giveUps
      BY <2>4 DEF Counted
    <3> QED
      BY <1>1, <2>4, <2>5, <3>1
  <2> QED
    BY <2>3, <2>4, <2>6 DEF Counted
<1>4. ASSUME NEW s \in Streams, GiveUp(s) PROVE GivenAnswers' /\ Counted'
  <2>1. /\ giveUps < MaxGiveUps /\ giveUps' = giveUps + 1
        /\ UNCHANGED <<answers, failures>>
        /\ \/ abandoned' = abandoned
           \/ abandoned' = [abandoned EXCEPT ![Current(s)] = @ + 1]
    BY <1>4 DEF GiveUp, server
  <2>2. ASSUME NEW f \in EventIds PROVE abandoned'[f] <= abandoned[f] + 1
    BY <1>1, <2>1
  <2>3. ASSUME NEW f \in EventIds PROVE abandoned'[f] \in Nat
    BY <1>1, <2>1
  <2>4. ASSUME NEW f \in EventIds PROVE abandoned'[f] <= giveUps'
    <3>1. abandoned'[f] <= abandoned[f] + 1 /\ abandoned[f] <= giveUps
      BY <2>2 DEF Counted
    <3> QED
      BY <1>1, <2>1, <2>3, <3>1
  <2>5. giveUps' \in 0..MaxGiveUps
    BY <1>1, <2>1
  <2> QED
    BY <1>1, <2>1, <2>4, <2>5 DEF Counted, GivenAnswers
<1>5. ASSUME NEW s \in Streams, Send(s) \/ Receive(s) PROVE GivenAnswers' /\ Counted'
  BY <1>5 DEF Send, Receive, server, GivenAnswers, Counted
<1>6. ASSUME NEW r \in Ids, Remove(r) PROVE GivenAnswers' /\ Counted'
  BY <1>6 DEF Remove, GivenAnswers, Counted
<1>7. CASE UNCHANGED vars
  BY <1>7 DEF vars, server, GivenAnswers, Counted
<1> QED
  BY <1>2, <1>3, <1>4, <1>5, <1>6, <1>7 DEF Next

\* Every variable keeps its type; the requests nobody waits for are bounded by
\* those that were given up.
THEOREM TypeCorrect == Spec => []TypeOK
<1>1. Init => GivenAnswers /\ Counted
  BY CustomerSenderAssumption DEF Init, GivenAnswers, Counted
<1>2. IInv /\ GivenAnswers /\ Counted => TypeOK
  <2> SUFFICES ASSUME IInv, GivenAnswers, Counted PROVE TypeOK
    OBVIOUS
  <2>1. abandoned \in [EventIds -> 0..MaxGiveUps]
    <3>1. abandoned \in [EventIds -> Nat]
      BY DEF IInv, RequestTypes
    <3>2. ASSUME NEW e \in EventIds PROVE abandoned[e] \in 0..MaxGiveUps
      <4>1. abandoned[e] \in Nat /\ abandoned[e] <= giveUps /\ giveUps \in 0..MaxGiveUps
        BY <3>1 DEF Counted
      <4> QED
        BY <4>1, CustomerSenderAssumption
    <3> QED
      BY <3>1, <3>2
  <2> QED
    BY <2>1 DEF IInv, SenderTypes, RequestTypes, DatabaseInv, DatabaseTypes, GivenAnswers, Counted,
                TypeOK
<1> QED
  BY <1>1, <1>2, CountedStep, InvariantHolds, PTL DEF Spec
=============================================================================
