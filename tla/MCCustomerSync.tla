--------------------------- MODULE MCCustomerSync ---------------------------
(* Small instances of CustomerSync: the data, and one scenario per run.    *)
EXTENDS CustomerSync, TLC

MCLogins == {"ann", "Ann", "bob", "eve", "Eve"}
MCFold == [l \in MCLogins |-> CASE l = "Ann" -> "ann" [] l = "Eve" -> "eve" [] OTHER -> l]
MCRegions == {<<"IT", "Roma">>, <<"IT", "Milano">>, <<"FR", "Paris">>}

NoExtra == [k \in ExtKeys |-> NULL]
NoPatch == [login |-> UNSET, fiscal |-> UNSET, vat |-> UNSET, address |-> UNSET,
            extra |-> [k \in ExtKeys |-> UNSET]]

Row(login) == [login |-> login, fiscal |-> "tax", vat |-> "tax",
               street |-> "via", region |-> <<"IT", "Roma">>, extra |-> NoExtra]
Create(row) == [kind |-> "create", row |-> row, ok |-> TRUE]
Update(id, patch) == [kind |-> "update", ref |-> id, patch |-> patch, ok |-> TRUE]
Address(street, country, name) == [street |-> street, country |-> country, name |-> name]

OneCustomer == [i \in 1..MaxId |-> IF i = 1 THEN Row("bob") ELSE NONE]
TwoCustomers == [i \in 1..MaxId |-> IF i = 1 THEN Row("bob") ELSE IF i = 2 THEN Row("ann") ELSE NONE]
NoRows == {}

Message(e, body) == [event |-> e, body |-> body]

\* Creations whose logins differ in case only, one of them sent again with
\* the other's content, and a rename to the same login.
CreateMessages ==
  {Message("e1", Create(Row("eve"))), Message("e2", Create(Row("Eve"))),
   Message("e1", Create(Row("Eve"))), Message("e3", Update(1, [NoPatch EXCEPT !.login = "eve"]))}

\* Two customers that want each other's login.
RenameMessages ==
  {Message("e1", Update(1, [NoPatch EXCEPT !.login = "Ann"])),
   Message("e2", Update(2, [NoPatch EXCEPT !.login = "bob"])),
   Message("e3", Update(1, [NoPatch EXCEPT !.login = "bob"]))}

\* A creation and an update of customers that other programs insert and
\* delete meanwhile.
LegacyMessages ==
  {Message("e1", Update(1, [NoPatch EXCEPT !.login = "Ann"])),
   Message("e2", Create(Row("eve")))}

\* Contents that are refused: a conversion fails, there is no tax identity,
\* the reference is none or has no customer.
RefusedMessages ==
  {Message("e1", [Create(Row("eve")) EXCEPT !.ok = FALSE]),
   Message("e1", Create([Row("eve") EXCEPT !.fiscal = NULL, !.vat = NULL])),
   Message("e2", [Update(1, NoPatch) EXCEPT !.ok = FALSE]),
   Message("e2", Update(0, NoPatch)), Message("e2", Update(3, NoPatch)),
   Message("e3", Update(1, [NoPatch EXCEPT !.fiscal = NULL]))}

\* Patches of one customer that are each acceptable but not all together:
\* two remove one tax identifier each, two set one JSON key each, and all of
\* them change the address.
ExtraKey(k) == [l \in ExtKeys |-> IF l = k THEN "x" ELSE UNSET]
PatchMessages ==
  {Message("e1", Update(1, [NoPatch EXCEPT !.address = Address(UNSET, UNSET, "Milano"), !.fiscal = NULL])),
   Message("e2", Update(1, [NoPatch EXCEPT !.address = Address("rue", "FR", "Paris"), !.vat = NULL])),
   Message("e3", Update(1, [NoPatch EXCEPT !.address = NULL, !.extra = ExtraKey("a")])),
   Message("e4", Update(1, [NoPatch EXCEPT !.address = Address("rue", UNSET, UNSET), !.extra = ExtraKey("b")]))}

LegacyEve == {Row("eve")}
WorkerSymmetry == Permutations(Workers)
=============================================================================
