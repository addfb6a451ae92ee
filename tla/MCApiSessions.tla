---------------------------- MODULE MCApiSessions ----------------------------
(* Users and a customer of the same name, before and after another program *)
(* has changed the users.                                                  *)
EXTENDS ApiSessions, TLC

MCSecret == [a \in Apps |-> "key"]

Row(type, id, name, role, enabled) ==
  [type |-> type, id |-> id, name |-> name, password |-> "right", role |-> role, enabled |-> enabled]
Ann == Row("customer", 1, "ann", "", TRUE)
MCAccountTables ==
  {{Ann, Row("user", 1, "ann", "admin", TRUE), Row("user", 2, "bob", "buyer", TRUE)},
   {Ann, Row("user", 1, "ann", "other", TRUE), Row("user", 2, "bob", "buyer", FALSE)},
   {Ann, Row("user", 1, "ann", "admin", TRUE), Row("user", 2, "ann", "buyer", TRUE)}}

Submitted(type, name, password) == [type |-> type, name |-> name, password |-> password]
MCCredentials ==
  {Submitted("user", "ann", "right"), Submitted("user", "ann", "wrong"),
   Submitted("user", "bob", "right"), Submitted("customer", "ann", "right")}
MCProducts == {[id |-> 1, owner |-> 1, enabled |-> TRUE]}

Symmetry == Permutations(Requests) \cup Permutations(TokenIds)
=============================================================================
