-------------------------- MODULE CustomerContent --------------------------
(***************************************************************************)
(* The contents of one customer through its events.  The same events go to  *)
(* the PostgreSQL mapper (the variable row) and to the in-memory gateway    *)
(* that the tests of the application use (the variable view); the export    *)
(* reads the row back.  Other programs of Life365 write the same tables:    *)
(* they remove or disable references and clear columns.                     *)
(***************************************************************************)
EXTENDS CustomerUpdates, CustomerExportRow

CONSTANTS Creations,    \* the payloads of customer.created
          Patches,      \* the payloads of customer.updated
          Tables,       \* the references that exist at first
          MaxPatches, MaxIntrusions

\* Every label has one code; the tables hold no NULL.
ASSUME CatalogsAssumption ==
  /\ \A catalog \in {CategoryIds, GroupIds, ChannelIds} :
       \A code, other \in DOMAIN catalog : catalog[code] = catalog[other] => code = other
  /\ NONE \notin {FallbackAgent, REFUSED}
  /\ DOMAIN Tables = {"categories", "groups", "channels", "agents", "payment_types", "regions"}
  /\ \A kind \in DOMAIN Tables : NONE \notin Tables[kind]

ASSUME PayloadsAssumption ==
  (\A payload \in Creations : IsCreation(payload)) /\ (\A payload \in Patches : IsPatch(payload))

VARIABLES row,          \* the customer's row, NONE before the creation
          view,         \* the customer in the in-memory store
          tables,       \* the references that exist now
          broken,       \* columns that another program wrote last
          answer,       \* the answers of the two gateways to the last event
          patches, intrusions

vars == <<row, view, tables, broken, answer, patches, intrusions>>

Accepted == [database |-> 200, memory |-> 200]

Init ==
  /\ row = NONE /\ view = NONE
  /\ tables = Tables
  /\ broken = {}
  /\ answer = Accepted
  /\ patches = 0 /\ intrusions = 0

-----------------------------------------------------------------------------
(* The in-memory gateway.                                                  *)

MemoryMembers(old, patch, Inner(_, _)) ==
  LET removed   == {key \in DOMAIN patch : patch[key] = NONE}
      member(k) == IF IsObject(patch[k])
                   THEN [object |-> Inner(IF k \in DOMAIN old /\ IsObject(old[k])
                                          THEN old[k].object ELSE Nothing,
                                          patch[k].object)]
                   ELSE patch[k]
  IN [key \in DOMAIN patch \ removed |-> member(key)]
       ++ [key \in DOMAIN old \ DOMAIN patch |-> old[key]]

MemoryLeaves(old, patch) == MemoryMembers(old, patch, LAMBDA o, p : p)
MemoryMerge(old, patch) == MemoryMembers(old, patch, MemoryLeaves)

CreatesAnyNested(f, previous, value) ==
  f \in {"address"} /\ value # NONE /\ previous = NONE

CreatesNested(f, previous, value) ==
  f \in DOMAIN Nested /\ value # NONE /\ previous = NONE

PatchField(s, f, previous, value) ==
  CASE s = "extensions" /\ value # NONE ->
         MemoryMerge(IF previous = NONE THEN Nothing ELSE previous, value)
    [] f \in DOMAIN Nested /\ value # NONE /\ previous # NONE -> value ++ previous
    [] OTHER -> value

MemoryAnswer(patch) ==
  IF \E s \in DOMAIN patch : \E f \in DOMAIN patch[s] :
        /\ CreatesNested(f, view[s][f], patch[s][f])
        /\ DOMAIN patch[s][f] # Nested[f]
  THEN 409 ELSE 200

ApplyPatch(patch) ==
  [s \in DOMAIN view |->
     IF s \notin DOMAIN patch THEN view[s]
     ELSE [f \in DOMAIN view[s] |->
             IF f \in DOMAIN patch[s] THEN PatchField(s, f, view[s][f], patch[s][f])
             ELSE view[s][f]]]

-----------------------------------------------------------------------------
(* The events.  The two gateways get the events that the database accepts,  *)
(* so that they hold the same customer.                                     *)

Create(payload) ==
  LET data   == ConvertCustomer(payload)
      status == CreateAnswer(data, tables)
  IN /\ row = NONE
     /\ answer' = [database |-> status, memory |-> 200]
     /\ IF status = 200 THEN row' = CreatedRow(data) /\ view' = data
                        ELSE UNCHANGED <<row, view>>
     /\ UNCHANGED <<tables, broken, patches, intrusions>>

Update(payload) ==
  LET patch  == ConvertCustomer(payload)
      status == UpdateAnswer(patch, row, tables)
      memory == MemoryAnswer(patch)
      values == UpdateValues(patch, row)
  IN /\ row # NONE
     /\ patches < MaxPatches
     /\ patches' = patches + 1
     /\ answer' = [database |-> status, memory |-> memory]
     /\ IF status # 200 THEN UNCHANGED <<row, view, broken>>
        ELSE /\ row' = values ++ row
             /\ view' = IF memory = 200 THEN ApplyPatch(patch) ELSE view
             /\ broken' = broken \ DOMAIN values
     /\ UNCHANGED <<tables, intrusions>>

(* A reference that the row holds and that a foreign key protects stays.   *)
Referenced(kind, id) ==
  row # NONE /\ \/ kind = "agents" /\ row.agent_id = id
                \/ kind = "channels" /\ row.sales_channel_id = id
                \/ kind = "payment_types" /\ row.preferred_payment_type = id

Retire(kind, id) ==
  /\ intrusions < MaxIntrusions
  /\ id \in tables[kind]
  /\ ~Referenced(kind, id)
  /\ tables' = [tables EXCEPT ![kind] = @ \ {id}]
  /\ intrusions' = intrusions + 1
  /\ UNCHANGED <<row, view, broken, answer, patches>>

LegacyValues == [business_name    |-> NONE, business_contact_name |-> NONE,
                 region_id        |-> NONE, parameters |-> [leaf |-> 0]]

(* Another program clears a column, or stores a list as the parameters.     *)
(* It clears the street of a delivery address and leaves the rest.          *)
LegacyWrite(column) ==
  /\ row # NONE
  /\ intrusions < MaxIntrusions
  /\ \/ column \in DOMAIN LegacyValues
     \/ column = "delivery_address" /\ row.delivery_address # NONE
  /\ row' = [row EXCEPT ![column] = IF column \in DOMAIN LegacyValues
                                    THEN LegacyValues[column] ELSE NONE]
  /\ broken' = broken \cup {column}
  /\ intrusions' = intrusions + 1
  /\ UNCHANGED <<view, tables, answer, patches>>

Next ==
  \/ \E payload \in Creations : Create(payload)
  \/ \E payload \in Patches : Update(payload)
  \/ \E kind \in DOMAIN Tables : \E id \in Tables[kind] : Retire(kind, id)
  \/ \E column \in DOMAIN LegacyValues \cup {"delivery_address"} : LegacyWrite(column)

Spec == Init /\ [][Next]_vars

-----------------------------------------------------------------------------
(* The customer as the export is expected to give it: instants in UTC, the  *)
(* login and the IBAN in their stored form, the fallback agent when none is *)
(* assigned, and the labels and the agent's card of the tables.             *)
Utc(t) == IF t = NONE THEN NONE ELSE InUtc(t)

Relabelled(list, ids, names) ==
  [i \in DOMAIN list |-> [code |-> list[i].code, label |-> names[ids[list[i].code]]]]

ChannelLabel(code) ==
  LET words == ChannelNames[ChannelIds[code]]
  IN IF Len(words) > 1 /\ Head(words) = code THEN Tail(words) ELSE words

NormalField(f, value) ==
  CASE f = "login"                              -> Strip(value)
    [] f \in {"registered_at", "last_login_at"} -> Utc(value)
    [] f = "preferred_categories" -> Relabelled(value, CategoryIds, CategoryNames)
    [] f = "groups"               -> Relabelled(value, GroupIds, GroupNames)
    [] f = "sales_channel"        -> IF value = NONE THEN NONE
                                     ELSE [code  |-> value.code,
                                           label |-> ChannelLabel(value.code)]
    [] f = "assigned_agent"       -> [reference_id |-> AgentId(value)] ++ Agents[AgentId(value)]
    [] f = "iban"                 -> DatabaseIban(value)
    [] f = "items" -> [i \in DOMAIN value |-> [value[i] EXCEPT !.occurred_at = InUtc(@)]]
    [] OTHER                      -> value

Normal(c) == [s \in DOMAIN c |-> [f \in DOMAIN c[s] |-> NormalField(f, c[s][f])]]

LabelsGone ==
  \/ \E i \in DOMAIN view.commercial.preferred_categories :
        CategoryIds[view.commercial.preferred_categories[i].code] \notin tables.categories
  \/ \E i \in DOMAIN view.shop.groups :
        GroupIds[view.shop.groups[i].code] \notin tables.groups

(* Whatever events a customer went through, its export is the customer that *)
(* the same events build in memory, and the counter that the back office    *)
(* filters on counts its open notes.  The export is refused exactly when    *)
(* another program left a required column, a delivery address or the        *)
(* parameters in a form the contract does not have and no event has         *)
(* rewritten it since, or removed a category or a group of the customer.    *)
ExportFaithful ==
  row # NONE =>
    /\ CustomerFromRow(row, tables) =
         IF broken # {} \/ LabelsGone THEN REFUSED ELSE Normal(view)
    /\ row.notes_open =
         Cardinality({i \in DOMAIN view.notes.items : view.notes.items[i].open})

(* On a customer that no other program has touched, the two gateways accept *)
(* and refuse alike: a patch that the database accepts is accepted in       *)
(* memory, and a conflict is a conflict in both (unless the database has    *)
(* found an invalid value first; only the database looks at references).    *)
BackendsAgree ==
  broken = {} => /\ answer.database = 200 => answer.memory = 200
                 /\ answer.database = 409 => answer.memory = 409
                 /\ answer.memory = 409 => answer.database \in {409, 422}
=============================================================================
