--------------------------- MODULE CustomerFields ---------------------------
(***************************************************************************)
(* The contents of the customer events: the sections and fields of the API  *)
(* payload, which values the request schemas accept, and the conversion of  *)
(* a payload to the application's data.                                     *)
(*                                                                         *)
(* A payload is a record of sections, a section a record of fields.  An     *)
(* UNSET field or section of a patch is absent from its record's domain; a  *)
(* null is NONE.  Text, flags and numbers that no rule looks into are the   *)
(* tuple <<section, field, version>>.  A decimal is a string of digits in   *)
(* the payload ([digits |-> d]) and the number d after the conversion.      *)
(***************************************************************************)
EXTENDS Integers, Sequences

CONSTANT NONE                   \* null, None and SQL NULL

\* f, and g where f says nothing.
f ++ g == [x \in DOMAIN f \cup DOMAIN g |-> IF x \in DOMAIN f THEN f[x] ELSE g[x]]

-----------------------------------------------------------------------------
(* The fields that the converters copy, section by section.                *)

ProfileFields ==
  [ credentials     |-> {"login", "password"},
    company         |-> {"name", "website", "primary_phone", "secondary_phone"},
    primary_contact |-> {"full_name", "email", "additional_emails",
                         "certified_email", "preferred_language"},
    communication_preferences |->
                        {"newsletter", "privacy_registered", "rules_registered"},
    registration    |-> {"registered_at", "verified", "last_login_at"} ]

FinanceFields ==
  [ tax_profile |-> {"fiscal_code", "vat_country_code", "vat_number",
                     "vies_validated", "fiscal_agent_code", "secondary_tax_value"},
    banking     |-> {"abi", "cab", "iban"} ]

CommercialFields ==
  [ commercial |-> {"preferred_categories", "sales_channel", "assigned_agent",
                    "payment_agreement", "preferred_payment_type_code", "payment_days",
                    "payment_days_end_of_month", "credit_granted", "credit_value"} ]

OperationsFields ==
  [ shop |-> {"latitude", "longitude", "groups"},
    operational_settings |-> {"disable_box_discount", "disable_quantity_delivery",
                              "prepaid_returns", "disable_sale_limit"},
    notes      |-> {"items", "administrative_note"},
    extensions |-> {"parameters", "extra_data"} ]

AddressFields == {"street", "city", "postal_code", "country_code", "region_name"}

DeliveryFields ==
  [ billing_address |-> AddressFields,
    delivery        |-> {"business_name", "contact_name", "phone", "address"} ]

Fields == ProfileFields ++ FinanceFields ++ CommercialFields ++ OperationsFields
            ++ DeliveryFields

(* Fields that hold an object, and lists of objects.                       *)
Nested == [ address        |-> AddressFields,
            sales_channel  |-> {"code", "label"},
            assigned_agent |-> {"reference_id", "user_login", "name", "email", "phone"} ]

Items == [ additional_emails    |-> {"email", "commercial", "marketing", "skype"},
           preferred_categories |-> {"code", "label"},
           groups               |-> {"code", "label"},
           items                |-> {"occurred_at", "text", "open"} ]

-----------------------------------------------------------------------------
(* From the payload to the application's data.                             *)

Decimals == {"secondary_tax_value", "credit_granted", "credit_value"}

ConvertDecimal(value) == value.digits

ConvertObject(fields, source) == [f \in fields \cap DOMAIN source |-> source[f]]

ConvertField(f, value) ==
  IF value = NONE THEN NONE ELSE
  CASE f \in Decimals      -> ConvertDecimal(value)
    [] f \in DOMAIN Nested -> ConvertObject(Nested[f], value)
    [] f \in DOMAIN Items  -> [i \in DOMAIN value |-> ConvertObject(Items[f], value[i])]
    [] OTHER               -> value

(* One operator for both events: a section or a field that is UNSET stays   *)
(* UNSET, everything else is copied.                                        *)
ConvertCustomer(source) ==
  [s \in DOMAIN source |->
     [f \in Fields[s] \cap DOMAIN source[s] |-> ConvertField(f, source[s][f])]]

-----------------------------------------------------------------------------
(* The fields for which the schemas accept a null, in both events.         *)

ProfileNullable ==
  [ company         |-> {"website", "primary_phone", "secondary_phone"},
    primary_contact |-> {"certified_email", "preferred_language"},
    communication_preferences |-> ProfileFields.communication_preferences,
    registration    |-> ProfileFields.registration ]

FinanceNullable ==
  [ tax_profile |-> FinanceFields.tax_profile \ {"vies_validated"},
    banking     |-> FinanceFields.banking ]

CommercialNullable ==
  [ commercial |-> CommercialFields.commercial \ {"preferred_categories"} ]

ShopNullable ==
  [ shop |-> {"latitude", "longitude"},
    operational_settings |-> OperationsFields.operational_settings
                               \ {"disable_box_discount"} ]

NotesNullable == [ notes |-> {"administrative_note"} ]

ExtensionsNullable == [ extensions |-> OperationsFields.extensions ]

AddressNullable ==
  [ billing_address |-> {"postal_code"}, delivery |-> DeliveryFields.delivery ]

Nullable == ProfileNullable ++ FinanceNullable ++ CommercialNullable ++ ShopNullable
              ++ NotesNullable ++ ExtensionsNullable ++ AddressNullable

IsNullable(s, f) == s \in DOMAIN Nullable /\ f \in Nullable[s]

-----------------------------------------------------------------------------
(* The values that the schemas let through, as far as a rule looks into     *)
(* them.  Only an address and a sales channel can be patched in part.       *)

IsRecord(fields, value) == value = [f \in fields |-> value[f]]

Instants == [wall : Int, offset : Int]

AcceptsItems(f, value) ==
  /\ IsRecord(DOMAIN value, value)
  /\ \A i \in DOMAIN value :
       /\ IsRecord(Items[f], value[i])
       /\ f = "items" => value[i].occurred_at \in Instants

AcceptsNested(f, value) ==
  /\ IsRecord(DOMAIN value, value) /\ DOMAIN value \subseteq Nested[f]
  /\ f = "assigned_agent" => DOMAIN value = Nested.assigned_agent
  /\ f = "address" => \A part \in DOMAIN value : value[part] = NONE => part = "postal_code"

AcceptsValue(f, value) ==
  /\ f \in {"registered_at", "last_login_at"} => value \in Instants
  /\ f \in {"latitude", "longitude"} => IsRecord({"degrees"}, value) /\ value.degrees # NONE
  /\ f \in DOMAIN Items => AcceptsItems(f, value)
  /\ f \in DOMAIN Nested => AcceptsNested(f, value)

Accepts(s, f, value) == IF value = NONE THEN IsNullable(s, f) ELSE AcceptsValue(f, value)

IsPatch(payload) ==
  /\ DOMAIN payload \subseteq DOMAIN Fields
  /\ \A s \in DOMAIN payload :
       /\ DOMAIN payload[s] \subseteq Fields[s]
       /\ \A f \in DOMAIN payload[s] : Accepts(s, f, payload[s][f])

IsCreation(payload) ==
  /\ IsPatch(payload)
  /\ DOMAIN payload = DOMAIN Fields
  /\ \A s \in DOMAIN Fields :
       /\ DOMAIN payload[s] = Fields[s]
       /\ \A f \in Fields[s] \cap DOMAIN Nested :
            payload[s][f] = NONE \/ DOMAIN payload[s][f] = Nested[f]
=============================================================================
