--------------------------- MODULE MCInMemorySync ---------------------------
(* Two creations, and patches of the first customer that remove its        *)
(* address and change part of it; two event ids are used twice.            *)
EXTENDS InMemorySync

MCLogins == {"ann", "bob"}
MCFold == [l \in MCLogins |-> l]
MCRegions == {}
NoPatch == [login |-> UNSET, fiscal |-> UNSET, vat |-> UNSET, address |-> UNSET,
            extra |-> [k \in ExtKeys |-> UNSET]]
Row(login) == [login |-> login, fiscal |-> NULL, vat |-> NULL, street |-> "via",
               region |-> <<"IT", "Roma">>, extra |-> [k \in ExtKeys |-> NULL]]
Creation(e, login) ==
  [event |-> e, body |-> [kind |-> "create", row |-> Row(login), ok |-> TRUE]]
Change(e, i, patch) ==
  [event |-> e, body |-> [kind |-> "update", ref |-> i, patch |-> patch, ok |-> TRUE]]

MCMessages ==
  {Creation("e1", "ann"), Creation("e2", "bob"),
   Change("e2", 1, [NoPatch EXCEPT !.address = NULL, !.extra = [k \in ExtKeys |-> "x"]]),
   Change("e3", 1, [NoPatch EXCEPT !.address = [street |-> "rue", country |-> UNSET, name |-> UNSET]]),
   Change("e3", 0, NoPatch)}
=============================================================================
