-------------------------- MODULE MCCustomerSender --------------------------
(* Two customers whose streams want each other's logins: a creation with two *)
(* updates, and two updates of a customer that exists, of which the service  *)
(* refuses one for its contents and cannot store the other.  A second        *)
(* instance has one stream, whose first event does not fit into its columns. *)
EXTENDS CustomerSender

MCStreams == {"acme", "bell"}
MCLogins == {"ann", "bob", "cat", "unfit", "long"}
MCUnfit == {"unfit"}
MCUnstorable == {"long"}
MCIds == 1..3
Create(login) == [kind |-> "created", login |-> login]
Update(login) == [kind |-> "updated", login |-> login]
MCPlan == [acme |-> <<Create("ann"), Update("bob"), Update("cat")>>,
           bell |-> <<Update("unfit"), Update("long")>>]
MCInitial == [i \in MCIds |-> IF i = 1 THEN "bob" ELSE NONE]
MCKnown == [acme |-> NONE, bell |-> 1]

LongStreams == {"bell"}
LongPlan == [bell |-> <<Update("long"), Update("ann")>>]
LongKnown == [bell |-> 1]
=============================================================================
