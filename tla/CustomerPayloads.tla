-------------------------- MODULE CustomerPayloads --------------------------
(***************************************************************************)
(* Payloads that the request schemas let through: one value of each kind    *)
(* for version n of a field, the creations, and for each patch schema the   *)
(* patches of one field, with a null where it may be cleared, and the       *)
(* combinations that the rules of the code tell apart.                      *)
(***************************************************************************)
EXTENDS CustomerFields, TLC

CONSTANTS CategoryCodes, GroupCodes, ChannelCodes, AgentRefs, Payments, Places
          \* functions from a version to a code, an id, or <<country, region>>

Code(code, s, n) == [code |-> code, label |-> <<s, "label", n>>]
Instant(n) == [wall |-> 2 * n, offset |-> n - 1]
Iban(n) == [of |-> n, spaced |-> TRUE, valid |-> TRUE]
InvalidIban == [of |-> 0, spaced |-> FALSE, valid |-> FALSE]
Text(n) == [of |-> n, padded |-> FALSE]
Padded(n) == [of |-> n, padded |-> TRUE]
Blank == Text(NONE)
Address(n) == [street |-> <<"street", n>>, city |-> <<"city", n>>,
               postal_code  |-> IF n = 1 THEN <<"postal_code", n>> ELSE NONE,
               country_code |-> Places[n][1], region_name |-> Places[n][2]]
Note(n, open) == [occurred_at |-> Instant(n), text |-> <<"text", n>>, open |-> open]

(* Version 2 clears member a, changes one of the members of b, replaces the *)
(* value of c by an object and adds d; version 1 has the old members.       *)
Leaf(v) == [leaf |-> v]
Object(n) ==
  IF n = 1 THEN [a |-> Leaf(1), b |-> [object |-> [x |-> Leaf(1), y |-> Leaf(1)]], c |-> Leaf(1)]
           ELSE [a |-> NONE, b |-> [object |-> [x |-> NONE, z |-> Leaf(2)]],
                 c |-> [object |-> [x |-> Leaf(2)]], d |-> Leaf(2)]

Value(s, f, n) ==
  CASE f \in {"login", "fiscal_code", "vat_number"} -> Text(n)
    [] s = "billing_address"                -> Address(n)[f]
    [] f = "address"                        -> Address(n)
    [] f = "additional_emails"              -> [i \in 1..n |->
         [email |-> <<"email", i>>, commercial |-> TRUE, marketing |-> FALSE, skype |-> NONE]]
    [] f \in {"registered_at", "last_login_at"} -> Instant(n)
    [] f \in Decimals                       -> [digits |-> <<f, n>>]
    [] f \in {"latitude", "longitude"}      -> [degrees |-> <<f, n>>]
    [] f = "iban"                           -> Iban(n)
    [] f = "preferred_categories"           -> <<Code(CategoryCodes[n], s, n)>>
    [] f = "groups"                         -> <<Code(GroupCodes[n], s, n)>>
    [] f = "sales_channel"                  -> Code(ChannelCodes[n], s, n)
    [] f = "assigned_agent"                 ->
         [reference_id |-> AgentRefs[n], user_login |-> <<"user_login", n>>,
          name |-> <<"name", n>>, email |-> <<"email", n>>, phone |-> NONE]
    [] f = "preferred_payment_type_code"    -> Payments[n]
    [] f = "items"                          -> [i \in 1..n |-> Note(i, i # n \/ n = 1)]
    [] f \in {"parameters", "extra_data"}   -> Object(n)
    [] OTHER                                -> <<s, f, n>>

-----------------------------------------------------------------------------
(* customer.created.                                                       *)

Full == [s \in DOMAIN Fields |-> [f \in Fields[s] |-> Value(s, f, 1)]]

(* Everything that may be null is null, except one tax identifier.          *)
Bare == [s \in DOMAIN Fields |-> [f \in Fields[s] |->
           CASE f = "vat_number"      -> Text(1)
             [] IsNullable(s, f)      -> NONE
             [] f \in DOMAIN Items    -> <<>>
             [] OTHER                 -> Value(s, f, 1)]]

AllCreations ==
  {Full, Bare, [Full EXCEPT !.banking.iban = InvalidIban],
   [Full EXCEPT !.billing_address.region_name = Places[2][2]]}

-----------------------------------------------------------------------------
(* customer.updated.                                                       *)

Assign(s, f, value) == s :> (f :> value)

OneField(sections, n) ==
  UNION {UNION {{Assign(s, f, value) :
                   value \in {Value(s, f, n)} \cup IF IsNullable(s, f) THEN {NONE} ELSE {}} :
                f \in Fields[s]} : s \in sections}

(* The login of a patch is not stripped by its schema.                     *)
ProfilePatches(n) ==
  OneField(DOMAIN ProfileFields, n)
    \cup {Assign("credentials", "login", login) : login \in {Padded(n), Blank}}

(* A channel patch may hold the code or the label alone, and any code.     *)
CommercialPatches(n) ==
  OneField({"commercial"}, n)
    \cup {Assign("commercial", "sales_channel", channel) :
            channel \in {[code |-> ChannelCodes[n]], [label |-> <<"label", n>>],
                         [code |-> "", label |-> <<"label", n>>]}}
    \cup {Assign("commercial", "preferred_categories", list) :
            list \in {<<>>, [i \in 1..2 |-> Code(CategoryCodes[3 - i], "commercial", i)],
                      <<Code("unknown", "commercial", n)>>}}

(* Any text may replace a tax identifier; a patch may clear the two.        *)
FinancePatches(n) ==
  OneField(DOMAIN FinanceFields, n)
    \cup {"tax_profile" :> [fiscal_code |-> one, vat_number |-> other] :
            one \in {NONE, Blank}, other \in {NONE, Text(n)}}
    \cup {Assign("banking", "iban", InvalidIban)}

OperationsPatches(n) ==
  OneField(DOMAIN OperationsFields, n)
    \cup {Assign("shop", "groups", <<>>), Assign("notes", "items", <<>>)}

(* Country and region patched together, and every subset of an address.     *)
AddressPatches(n) ==
  OneField(DOMAIN DeliveryFields, n)
    \cup {"billing_address" :> [country_code |-> Places[n][1], region_name |-> Places[n][2]]}
    \cup {Assign("delivery", "address", [f \in given |-> Address(n)[f]]) :
            given \in SUBSET AddressFields}

AllPatches(n) == {<<>>} \cup ProfilePatches(n) \cup CommercialPatches(n)
                   \cup FinancePatches(n) \cup OperationsPatches(n) \cup AddressPatches(n)
=============================================================================
