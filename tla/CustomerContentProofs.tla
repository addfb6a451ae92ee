----------------------- MODULE CustomerContentProofs -----------------------
(***************************************************************************)
(* The three tables of fields and columns agree: for every payload that the *)
(* schemas let through and every sequence of events, the export is the      *)
(* customer that the events describe, and the two gateways answer alike.    *)
(***************************************************************************)
EXTENDS CustomerContent, TLAPS, WellFoundedInduction

\* None and NULL are no dictionary, no list and no tuple.
NoneIsAtom == NONE # [x \in DOMAIN NONE |-> NONE[x]]

-----------------------------------------------------------------------------
(* The fields.                                                             *)

LEMMA Over ==
  ASSUME NEW f, NEW g
  PROVE  /\ DOMAIN (f ++ g) = DOMAIN f \cup DOMAIN g
         /\ \A x \in DOMAIN f : (f ++ g)[x] = f[x]
         /\ \A x \in DOMAIN g \ DOMAIN f : (f ++ g)[x] = g[x]
BY DEF ++

LEMMA SectionFields ==
  /\ DOMAIN Fields = {"credentials", "company", "primary_contact", "communication_preferences",
                      "registration", "tax_profile", "banking", "commercial", "shop",
                      "operational_settings", "notes", "extensions", "billing_address",
                      "delivery"}
  /\ Fields.credentials = ProfileFields.credentials
  /\ Fields.company = ProfileFields.company
  /\ Fields.primary_contact = ProfileFields.primary_contact
  /\ Fields.communication_preferences = ProfileFields.communication_preferences
  /\ Fields.registration = ProfileFields.registration
  /\ Fields.tax_profile = FinanceFields.tax_profile
  /\ Fields.banking = FinanceFields.banking
  /\ Fields.commercial = CommercialFields.commercial
  /\ Fields.shop = OperationsFields.shop
  /\ Fields.operational_settings = OperationsFields.operational_settings
  /\ Fields.notes = OperationsFields.notes
  /\ Fields.extensions = OperationsFields.extensions
  /\ Fields.billing_address = AddressFields
  /\ Fields.delivery = DeliveryFields.delivery
<1> DEFINE A == ProfileFields ++ FinanceFields
           B == A ++ CommercialFields
           C == B ++ OperationsFields
<1>1. /\ DOMAIN A = DOMAIN ProfileFields \cup DOMAIN FinanceFields
      /\ \A s \in DOMAIN ProfileFields : A[s] = ProfileFields[s]
      /\ \A s \in DOMAIN FinanceFields : A[s] = FinanceFields[s]
  BY DEF ++, ProfileFields, FinanceFields
<1> HIDE DEF A
<1>2. /\ DOMAIN B = DOMAIN A \cup {"commercial"}
      /\ \A s \in DOMAIN A : B[s] = A[s]
      /\ B.commercial = CommercialFields.commercial
  BY <1>1 DEF ++, ProfileFields, FinanceFields, CommercialFields
<1> HIDE DEF B
<1>3. /\ DOMAIN C = DOMAIN B \cup DOMAIN OperationsFields
      /\ \A s \in DOMAIN B : C[s] = B[s]
      /\ \A s \in DOMAIN OperationsFields : C[s] = OperationsFields[s]
  BY <1>1, <1>2 DEF ++, ProfileFields, FinanceFields, OperationsFields
<1> HIDE DEF C
<1>4. /\ DOMAIN Fields = DOMAIN C \cup DOMAIN DeliveryFields
      /\ \A s \in DOMAIN C : Fields[s] = C[s]
      /\ \A s \in DOMAIN DeliveryFields : Fields[s] = DeliveryFields[s]
  <2>1. Fields = C ++ DeliveryFields
    BY DEF Fields, A, B, C
  <2>2. DOMAIN C \cap DOMAIN DeliveryFields = {}
    BY <1>1, <1>2, <1>3 DEF ProfileFields, FinanceFields, OperationsFields, DeliveryFields
  <2>3. /\ DOMAIN (C ++ DeliveryFields) = DOMAIN C \cup DOMAIN DeliveryFields
        /\ \A s \in DOMAIN C : (C ++ DeliveryFields)[s] = C[s]
        /\ \A s \in DOMAIN DeliveryFields \ DOMAIN C :
              (C ++ DeliveryFields)[s] = DeliveryFields[s]
    BY Over
  <2> QED
    BY <2>1, <2>2, <2>3
<1>5. /\ DOMAIN ProfileFields = {"credentials", "company", "primary_contact",
                                 "communication_preferences", "registration"}
      /\ DOMAIN FinanceFields = {"tax_profile", "banking"}
      /\ DOMAIN OperationsFields = {"shop", "operational_settings", "notes", "extensions"}
      /\ DOMAIN DeliveryFields = {"billing_address", "delivery"}
      /\ DeliveryFields.billing_address = AddressFields
  BY DEF ProfileFields, FinanceFields, OperationsFields, DeliveryFields
<1> QED
  BY <1>1, <1>2, <1>3, <1>4, <1>5

\* Fields with a rule of their own are each of one section.
LEMMA PlaceOfField ==
  ASSUME NEW s \in DOMAIN Fields, NEW f \in Fields[s]
  PROVE  /\ f = "address" => s = "delivery"
         /\ f \in {"sales_channel", "assigned_agent", "preferred_categories", "credit_granted",
                   "credit_value"} => s = "commercial"
         /\ f = "secondary_tax_value" => s = "tax_profile"
         /\ f \in {"registered_at", "last_login_at"} => s = "registration"
         /\ f \in {"latitude", "longitude", "groups"} => s = "shop"
         /\ f = "items" => s = "notes"
         /\ f = "additional_emails" => s = "primary_contact"
         /\ f = "login" => s = "credentials"
         /\ f = "iban" => s = "banking"
         /\ f \in {"parameters", "extra_data"} => s = "extensions"
BY SectionFields DEF ProfileFields, FinanceFields, CommercialFields, OperationsFields,
       AddressFields, DeliveryFields

LEMMA NestedFields ==
  /\ DOMAIN Nested = {"address", "sales_channel", "assigned_agent"}
  /\ Nested["address"] = AddressFields
  /\ Nested["sales_channel"] = {"code", "label"}
  /\ Nested["assigned_agent"] = {"reference_id", "user_login", "name", "email", "phone"}
BY DEF Nested

LEMMA ItemFields ==
  /\ DOMAIN Items = {"additional_emails", "preferred_categories", "groups", "items"}
  /\ Items["additional_emails"] = {"email", "commercial", "marketing", "skype"}
  /\ Items["preferred_categories"] = {"code", "label"}
  /\ Items["groups"] = {"code", "label"}
  /\ Items["items"] = {"occurred_at", "text", "open"}
BY DEF Items

LEMMA NullableFields ==
  /\ IsNullable("commercial", "credit_granted") /\ IsNullable("commercial", "credit_value")
  /\ IsNullable("tax_profile", "secondary_tax_value")
  /\ IsNullable("extensions", "parameters") /\ IsNullable("extensions", "extra_data")
  /\ IsNullable("commercial", "sales_channel") /\ IsNullable("commercial", "assigned_agent")
  /\ IsNullable("delivery", "address")
  /\ ~IsNullable("credentials", "login") /\ ~IsNullable("credentials", "password")
  /\ ~IsNullable("company", "name")
  /\ ~IsNullable("primary_contact", "full_name") /\ ~IsNullable("primary_contact", "email")
  /\ ~IsNullable("primary_contact", "additional_emails")
  /\ ~IsNullable("billing_address", "street") /\ ~IsNullable("billing_address", "city")
  /\ ~IsNullable("billing_address", "country_code")
  /\ ~IsNullable("billing_address", "region_name")
  /\ ~IsNullable("tax_profile", "vies_validated")
  /\ ~IsNullable("operational_settings", "disable_box_discount")
  /\ ~IsNullable("commercial", "preferred_categories") /\ ~IsNullable("shop", "groups")
  /\ ~IsNullable("notes", "items")
<1> DEFINE A == ProfileNullable ++ FinanceNullable
           B == A ++ CommercialNullable
           C == B ++ ShopNullable
           D == C ++ NotesNullable
           E == D ++ ExtensionsNullable
<1>1. /\ DOMAIN A = {"company", "primary_contact", "communication_preferences", "registration",
                     "tax_profile", "banking"}
      /\ A.company = ProfileNullable.company /\ A.primary_contact = ProfileNullable.primary_contact
      /\ A.tax_profile = FinanceNullable.tax_profile
  BY DEF ++, ProfileNullable, FinanceNullable
<1> HIDE DEF A
<1>2. /\ DOMAIN B = DOMAIN A \cup {"commercial"}
      /\ (\A s \in DOMAIN A : B[s] = A[s]) /\ B.commercial = CommercialNullable.commercial
  BY <1>1 DEF ++, CommercialNullable
<1> HIDE DEF B
<1>3. /\ DOMAIN C = DOMAIN B \cup {"shop", "operational_settings"}
      /\ (\A s \in DOMAIN B : C[s] = B[s]) /\ C.shop = ShopNullable.shop
      /\ C.operational_settings = ShopNullable.operational_settings
  BY <1>1, <1>2 DEF ++, ShopNullable
<1> HIDE DEF C
<1>4. /\ DOMAIN D = DOMAIN C \cup {"notes"}
      /\ (\A s \in DOMAIN C : D[s] = C[s]) /\ D.notes = NotesNullable.notes
  BY <1>1, <1>2, <1>3 DEF ++, NotesNullable
<1> HIDE DEF D
<1>5. /\ DOMAIN E = DOMAIN D \cup {"extensions"}
      /\ (\A s \in DOMAIN D : E[s] = D[s]) /\ E.extensions = ExtensionsNullable.extensions
  BY <1>1, <1>2, <1>3, <1>4 DEF ++, ExtensionsNullable
<1> HIDE DEF E
<1>6. /\ DOMAIN Nullable = DOMAIN E \cup {"billing_address", "delivery"}
      /\ \A s \in DOMAIN E : Nullable[s] = E[s]
      /\ Nullable.billing_address = AddressNullable.billing_address
      /\ Nullable.delivery = AddressNullable.delivery
  BY <1>1, <1>2, <1>3, <1>4, <1>5 DEF Nullable, A, B, C, D, E, ++, AddressNullable
<1>7. /\ "credentials" \notin DOMAIN Nullable
      /\ Nullable.company = ProfileNullable.company
      /\ Nullable.primary_contact = ProfileNullable.primary_contact
      /\ Nullable.tax_profile = FinanceNullable.tax_profile
      /\ Nullable.commercial = CommercialNullable.commercial
      /\ Nullable.shop = ShopNullable.shop
      /\ Nullable.operational_settings = ShopNullable.operational_settings
      /\ Nullable.notes = NotesNullable.notes
      /\ Nullable.extensions = ExtensionsNullable.extensions
      /\ {"company", "primary_contact", "tax_profile", "commercial", "shop", "notes", "extensions",
          "operational_settings", "billing_address", "delivery"} \subseteq DOMAIN Nullable
  BY <1>1, <1>2, <1>3, <1>4, <1>5, <1>6
<1> QED
  BY <1>6, <1>7
  DEF IsNullable, ProfileNullable, FinanceNullable, CommercialNullable, ShopNullable,
      NotesNullable, ExtensionsNullable, AddressNullable,
      FinanceFields, CommercialFields, OperationsFields, DeliveryFields

-----------------------------------------------------------------------------
(* A converted payload is as complete and as typed as the payload.          *)

LEMMA ConvertedObject ==
  ASSUME NoneIsAtom, NEW fields, NEW source
  PROVE  /\ ConvertObject(fields, source) # NONE
         /\ DOMAIN ConvertObject(fields, source) = fields \cap DOMAIN source
         /\ IsRecord(fields \cap DOMAIN source, ConvertObject(fields, source))
         /\ \A f \in fields \cap DOMAIN source : ConvertObject(fields, source)[f] = source[f]
BY DEF ConvertObject, IsRecord, NoneIsAtom

LEMMA ConvertedItems ==
  ASSUME NoneIsAtom, NEW f \in DOMAIN Items, NEW value, AcceptsItems(f, value)
  PROVE  value = NONE \/ ConvertField(f, value) = value
<1>1. ASSUME NEW i \in DOMAIN value PROVE ConvertObject(Items[f], value[i]) = value[i]
  BY <1>1 DEF AcceptsItems, ConvertObject, IsRecord
<1>2. value # NONE =>
        ConvertField(f, value) = [i \in DOMAIN value |-> ConvertObject(Items[f], value[i])]
  BY NestedFields, ItemFields DEF ConvertField, Decimals
<1>3. [i \in DOMAIN value |-> ConvertObject(Items[f], value[i])] = [i \in DOMAIN value |-> value[i]]
  BY <1>1
<1> QED
  BY <1>2, <1>3 DEF AcceptsItems, IsRecord

LEMMA ConvertedNested ==
  ASSUME NoneIsAtom, NEW f \in DOMAIN Nested, NEW value, value # NONE, AcceptsNested(f, value)
  PROVE  ConvertField(f, value) = value
<1>1. ConvertField(f, value) = ConvertObject(Nested[f], value)
  BY NestedFields, ItemFields DEF ConvertField, Decimals
<1> QED
  BY <1>1 DEF AcceptsNested, ConvertObject, IsRecord

\* Only decimals change their form.
LEMMA ConvertedField ==
  ASSUME NoneIsAtom, NEW s \in DOMAIN Fields, NEW f \in Fields[s], NEW value,
         Accepts(s, f, value)
  PROVE  /\ Accepts(s, f, ConvertField(f, value))
         /\ value = NONE \/ f \notin Decimals => ConvertField(f, value) = value
<1>1. CASE value = NONE
  BY <1>1 DEF ConvertField
<1>2. CASE value # NONE /\ f \in Decimals
  <2>1. IsNullable(s, f)
    BY <1>2, PlaceOfField, NullableFields DEF Decimals
  <2> QED
    BY <1>2, <2>1, NestedFields, ItemFields DEF Accepts, AcceptsValue, Decimals
<1>3. CASE value # NONE /\ f \in DOMAIN Nested
  BY <1>3, ConvertedNested, NestedFields DEF Accepts, AcceptsValue, Decimals
<1>4. CASE value # NONE /\ f \in DOMAIN Items
  BY <1>4, ConvertedItems, ItemFields DEF Accepts, AcceptsValue, Decimals
<1>5. CASE value # NONE /\ f \notin Decimals /\ f \notin DOMAIN Nested /\ f \notin DOMAIN Items
  BY <1>5 DEF ConvertField
<1> QED
  BY <1>1, <1>2, <1>3, <1>4, <1>5

LEMMA ConvertedSections ==
  ASSUME NEW payload, IsPatch(payload)
  PROVE  /\ DOMAIN ConvertCustomer(payload) = DOMAIN payload
         /\ \A s \in DOMAIN payload :
              /\ DOMAIN ConvertCustomer(payload)[s] = DOMAIN payload[s]
              /\ \A f \in DOMAIN payload[s] :
                   ConvertCustomer(payload)[s][f] = ConvertField(f, payload[s][f])
BY DEF ConvertCustomer, IsPatch

LEMMA ConvertedPatch ==
  ASSUME NoneIsAtom, NEW payload, IsPatch(payload)
  PROVE  IsPatch(ConvertCustomer(payload))
BY ConvertedSections, ConvertedField DEF IsPatch

LEMMA ConvertedCreation ==
  ASSUME NoneIsAtom, NEW payload, IsCreation(payload)
  PROVE  IsCreation(ConvertCustomer(payload))
<1>1. IsPatch(payload) /\ IsPatch(ConvertCustomer(payload))
  BY ConvertedPatch DEF IsCreation
<1>2. ASSUME NEW s \in DOMAIN Fields, NEW f \in Fields[s] \cap DOMAIN Nested
      PROVE  ConvertCustomer(payload)[s][f] = payload[s][f]
  <2>1. f \notin Decimals
    BY NestedFields DEF Decimals
  <2>2. Accepts(s, f, payload[s][f])
    BY <1>1 DEF IsCreation, IsPatch
  <2> QED
    BY <1>1, <2>1, <2>2, ConvertedField, ConvertedSections DEF IsCreation
<1> QED
  BY <1>1, <1>2, ConvertedSections DEF IsCreation

-----------------------------------------------------------------------------
(* The answers.                                                            *)

LEMMA LeastOf ==
  ASSUME NEW T, T \subseteq Nat, T # {}
  PROVE  \E n \in T : \A m \in T : n <= m
<1>1. PICK n \in T : \A m \in T : ~ (<<m, n>> \in OpToRel(<, Nat))
  BY NatLessThanWellFounded, WFMin
<1>2. \A m \in T : ~ (m < n)
  BY <1>1 DEF OpToRel
<1> QED
  BY <1>2

LEMMA AnswerOfChecks ==
  ASSUME NEW checks, DOMAIN checks \subseteq Nat
  PROVE  /\ Answer(checks) = 200 => \A i \in DOMAIN checks : checks[i] = 200
         /\ Answer(checks) # 200 =>
              \E i \in DOMAIN checks : checks[i] # 200 /\ Answer(checks) = checks[i]
<1> DEFINE failed == {i \in DOMAIN checks : checks[i] # 200}
           first == CHOOSE i \in failed : \A j \in failed : i <= j
<1>1. CASE failed = {}
  BY <1>1 DEF Answer
<1>2. CASE failed # {}
  <2>1. \E i \in failed : \A j \in failed : i <= j
    <3>1. failed \subseteq Nat
      OBVIOUS
    <3> HIDE DEF failed
    <3> QED
      BY <1>2, <3>1, LeastOf
  <2>2. first \in failed
    <3> HIDE DEF failed
    <3> QED
      BY <2>1
  <2>3. Answer(checks) = checks[first]
    BY <1>2 DEF Answer
  <2> QED
    BY <2>2, <2>3
<1> QED
  BY <1>1, <1>2

\* What the database has looked up of a creation that it accepts, ...
Resolved(data) ==
  /\ RegionId(data.billing_address) \in tables.regions
  /\ data.delivery.address # NONE => RegionId(data.delivery.address) \in tables.regions
  /\ data.commercial.assigned_agent # NONE =>
       data.commercial.assigned_agent.reference_id \in tables.agents
  /\ \A i \in DOMAIN data.commercial.preferred_categories :
       data.commercial.preferred_categories[i].code \in DOMAIN CategoryIds
  /\ data.commercial.sales_channel # NONE =>
       /\ data.commercial.sales_channel.code \in DOMAIN ChannelIds
       /\ ChannelIds[data.commercial.sales_channel.code] \in tables.channels
  /\ \A i \in DOMAIN data.shop.groups : data.shop.groups[i].code \in DOMAIN GroupIds

LEMMA CreationAnswered ==
  ASSUME NEW data
  PROVE  /\ CreateAnswer(data, tables) \in {200, 422}
         /\ CreateAnswer(data, tables) = 200 => Resolved(data)
<1> DEFINE address == data.delivery.address
           channel == data.commercial.sales_channel
           checks == <<
       Invalid(IsBlank(data.credentials.login)),
       Invalid(BadIban(data.banking.iban)),
       Invalid(RegionId(data.billing_address) \notin tables.regions),
       Invalid(address # NONE /\ RegionId(address) \notin tables.regions),
       Invalid(UnknownAgent(data.commercial.assigned_agent, tables)),
       Invalid(Unavailable(data.commercial.preferred_categories, CategoryIds,
                           tables.categories)),
       Invalid(channel # NONE /\ UnknownChannel(channel.code, tables)),
       Invalid(UnknownPayment(data.commercial.preferred_payment_type_code, tables)),
       Invalid(Unavailable(data.shop.groups, GroupIds, tables.groups)) >>
<1>1. CreateAnswer(data, tables) = Answer(checks)
  BY DEF CreateAnswer
<1>2. DOMAIN checks = 1..9 /\ \A i \in 1..9 : checks[i] \in {200, 422}
  BY DEF Invalid
<1>3. (\A i \in 1..9 : checks[i] = 200) => Resolved(data)
  <2> SUFFICES ASSUME \A i \in 1..9 : checks[i] = 200 PROVE Resolved(data)
    OBVIOUS
  <2>1. checks[3] = 200 /\ checks[4] = 200 /\ checks[5] = 200
    OBVIOUS
  <2>2. checks[6] = 200 /\ checks[7] = 200 /\ checks[9] = 200
    OBVIOUS
  <2> QED
    BY <2>1, <2>2 DEF Invalid, UnknownAgent, Unavailable, UnknownChannel, Resolved
<1> HIDE DEF checks
<1> QED
  BY <1>1, <1>2, <1>3, AnswerOfChecks

\* ... and of a patch.
Fits(patch, r) ==
  /\ "billing_address" \in DOMAIN patch /\ PatchesRegion(patch.billing_address) =>
       /\ r.region_id # NONE \/ RegionFields \subseteq DOMAIN patch.billing_address
       /\ PatchedRegion(patch.billing_address, r.region_id) \in tables.regions
  /\ Given(patch, "delivery", "address") =>
       /\ r.delivery_address # NONE \/ DOMAIN patch.delivery.address = AddressFields
       /\ PatchesRegion(patch.delivery.address) =>
            /\ r.delivery_region_id # NONE
                 \/ RegionFields \subseteq DOMAIN patch.delivery.address
            /\ PatchedRegion(patch.delivery.address, r.delivery_region_id) \in tables.regions
  /\ Has(patch, "commercial", "preferred_categories") =>
       \A i \in DOMAIN patch.commercial.preferred_categories :
         patch.commercial.preferred_categories[i].code \in DOMAIN CategoryIds
  /\ Given(patch, "commercial", "assigned_agent") =>
       patch.commercial.assigned_agent.reference_id \in tables.agents
  /\ Given(patch, "commercial", "sales_channel") =>
       /\ r.sales_channel_id # NONE
            \/ DOMAIN patch.commercial.sales_channel = Nested.sales_channel
       /\ "code" \in DOMAIN patch.commercial.sales_channel =>
            /\ patch.commercial.sales_channel.code \in DOMAIN ChannelIds
            /\ ChannelIds[patch.commercial.sales_channel.code] \in tables.channels
  /\ Has(patch, "shop", "groups") =>
       \A i \in DOMAIN patch.shop.groups : patch.shop.groups[i].code \in DOMAIN GroupIds
  /\ \A column \in {"parameters", "extra_data"} :
       Given(patch, "extensions", column) => r[column] = NONE \/ IsObject(r[column])

Conflicts(patch, r) ==
  \/ /\ "billing_address" \in DOMAIN patch
     /\ r.region_id = NONE
  \/ /\ Given(patch, "delivery", "address")
     /\ \/ r.delivery_address = NONE /\ DOMAIN patch.delivery.address # AddressFields
        \/ r.delivery_region_id = NONE /\ ~(RegionFields \subseteq DOMAIN patch.delivery.address)
  \/ /\ Given(patch, "commercial", "sales_channel")
     /\ r.sales_channel_id = NONE
     /\ DOMAIN patch.commercial.sales_channel # Nested.sales_channel

LEMMA PatchAnswered ==
  ASSUME NEW patch, NEW r
  PROVE  /\ UpdateAnswer(patch, r, tables) \in {200, 409, 422}
         /\ UpdateAnswer(patch, r, tables) = 200 => Fits(patch, r)
         /\ UpdateAnswer(patch, r, tables) = 409 => Conflicts(patch, r)
<1> DEFINE billing == IF "billing_address" \in DOMAIN patch THEN patch.billing_address
                      ELSE Nothing
           delivery == IF Given(patch, "delivery", "address") THEN patch.delivery.address
                       ELSE Nothing
           channel == IF Given(patch, "commercial", "sales_channel")
                      THEN patch.commercial.sales_channel ELSE Nothing
           checks == <<
       Invalid(Has(patch, "banking", "iban") /\ BadIban(patch.banking.iban)),
       Invalid(Has(patch, "credentials", "login") /\ IsBlank(patch.credentials.login)),
       Conflict(IncompleteRegion(billing, r.region_id)),
       Invalid(UnknownRegion(billing, r.region_id, tables)),
       Conflict(/\ Given(patch, "delivery", "address")
                /\ r.delivery_address = NONE
                /\ DOMAIN delivery # AddressFields),
       Conflict(IncompleteRegion(delivery, r.delivery_region_id)),
       Invalid(UnknownRegion(delivery, r.delivery_region_id, tables)),
       Invalid(Has(patch, "commercial", "preferred_categories")
                 /\ Unavailable(patch.commercial.preferred_categories, CategoryIds,
                                tables.categories)),
       Invalid(Has(patch, "commercial", "assigned_agent")
                 /\ UnknownAgent(patch.commercial.assigned_agent, tables)),
       Conflict(/\ Given(patch, "commercial", "sales_channel")
                /\ r.sales_channel_id = NONE
                /\ DOMAIN channel # Nested.sales_channel),
       Invalid("code" \in DOMAIN channel /\ UnknownChannel(channel.code, tables)),
       Invalid(Has(patch, "commercial", "preferred_payment_type_code")
                 /\ UnknownPayment(patch.commercial.preferred_payment_type_code, tables)),
       Invalid(Has(patch, "shop", "groups")
                 /\ Unavailable(patch.shop.groups, GroupIds, tables.groups)),
       Invalid(LegacyJson(patch, r)),
       Invalid(NoTaxIdentity(patch, r)) >>
<1>1. UpdateAnswer(patch, r, tables) = Answer(checks)
  BY DEF UpdateAnswer
<1>2. DOMAIN checks = 1..15 /\ \A i \in 1..15 : checks[i] \in {200, 409, 422}
  BY DEF Invalid, Conflict
<1>3. (\A i \in 1..15 : checks[i] = 200) => Fits(patch, r)
  <2> SUFFICES ASSUME \A i \in 1..15 : checks[i] = 200 PROVE Fits(patch, r)
    OBVIOUS
  <2> HIDE DEF checks
  <2>1. ~IncompleteRegion(billing, r.region_id) /\ ~UnknownRegion(billing, r.region_id, tables)
    <3>1. checks[3] = 200 /\ checks[4] = 200
      OBVIOUS
    <3> QED
      BY <3>1 DEF checks, Invalid, Conflict
  <2>2. /\ Given(patch, "delivery", "address") =>
             r.delivery_address # NONE \/ DOMAIN delivery = AddressFields
        /\ ~IncompleteRegion(delivery, r.delivery_region_id)
        /\ ~UnknownRegion(delivery, r.delivery_region_id, tables)
    <3>1. checks[5] = 200 /\ checks[6] = 200 /\ checks[7] = 200
      OBVIOUS
    <3> QED
      BY <3>1 DEF checks, Invalid, Conflict
  <2>3. /\ Has(patch, "commercial", "preferred_categories") =>
             ~Unavailable(patch.commercial.preferred_categories, CategoryIds, tables.categories)
        /\ Has(patch, "commercial", "assigned_agent") =>
             ~UnknownAgent(patch.commercial.assigned_agent, tables)
        /\ Given(patch, "commercial", "sales_channel") =>
             r.sales_channel_id # NONE \/ DOMAIN channel = Nested.sales_channel
        /\ "code" \in DOMAIN channel => ~UnknownChannel(channel.code, tables)
    <3>1. checks[8] = 200 /\ checks[9] = 200 /\ checks[10] = 200 /\ checks[11] = 200
      OBVIOUS
    <3> QED
      BY <3>1 DEF checks, Invalid, Conflict
  <2>4. /\ Has(patch, "shop", "groups") => ~Unavailable(patch.shop.groups, GroupIds, tables.groups)
        /\ ~LegacyJson(patch, r)
    <3>1. checks[13] = 200 /\ checks[14] = 200
      OBVIOUS
    <3> QED
      BY <3>1 DEF checks, Invalid
  <2>5. "billing_address" \in DOMAIN patch /\ PatchesRegion(patch.billing_address) =>
          /\ r.region_id # NONE \/ RegionFields \subseteq DOMAIN patch.billing_address
          /\ PatchedRegion(patch.billing_address, r.region_id) \in tables.regions
    BY <2>1 DEF IncompleteRegion, UnknownRegion
  <2>6. Given(patch, "delivery", "address") =>
          /\ r.delivery_address # NONE \/ DOMAIN patch.delivery.address = AddressFields
          /\ PatchesRegion(patch.delivery.address) =>
               /\ r.delivery_region_id # NONE
                    \/ RegionFields \subseteq DOMAIN patch.delivery.address
               /\ PatchedRegion(patch.delivery.address, r.delivery_region_id) \in tables.regions
    BY <2>2 DEF IncompleteRegion, UnknownRegion
  <2> QED
    BY <2>3, <2>4, <2>5, <2>6
    DEF Fits, Given, Unavailable, UnknownAgent, UnknownChannel, LegacyJson
<1>4. ASSUME NEW i \in 1..15, checks[i] = 409 PROVE Conflicts(patch, r)
  <2>1. i \in {3, 5, 6, 10}
    BY <1>4 DEF Invalid
  <2>2. CASE i = 3
    BY <1>4, <2>2 DEF Conflict, IncompleteRegion, Conflicts, PatchesRegion, Nothing
  <2>3. CASE i = 5
    BY <1>4, <2>3 DEF Conflict, Conflicts
  <2>4. CASE i = 6
    BY <1>4, <2>4 DEF Conflict, IncompleteRegion, Conflicts, PatchesRegion, Nothing
  <2>5. CASE i = 10
    BY <1>4, <2>5 DEF Conflict, Conflicts
  <2> QED
    BY <2>1, <2>2, <2>3, <2>4, <2>5
<1> HIDE DEF checks
<1>5. /\ Answer(checks) = 200 => \A i \in 1..15 : checks[i] = 200
      /\ Answer(checks) # 200 => \E i \in 1..15 : Answer(checks) = checks[i]
  BY <1>2, AnswerOfChecks
<1> QED
  BY <1>1, <1>2, <1>3, <1>4, <1>5

-----------------------------------------------------------------------------
(* The columns.                                                            *)

\* The field that a column holds.
FieldOf ==
  [ pass |-> <<"credentials", "password">>,
    business_name |-> <<"company", "name">>,
    website |-> <<"company", "website">>,
    phone |-> <<"company", "primary_phone">>,
    phone2 |-> <<"company", "secondary_phone">>,
    business_contact_name |-> <<"primary_contact", "full_name">>,
    email |-> <<"primary_contact", "email">>,
    additional_emails |-> <<"primary_contact", "additional_emails">>,
    pec |-> <<"primary_contact", "certified_email">>,
    preferred_language |-> <<"primary_contact", "preferred_language">>,
    address_street |-> <<"billing_address", "street">>,
    address_city |-> <<"billing_address", "city">>,
    address_zip_code |-> <<"billing_address", "postal_code">>,
    delivery_business_name |-> <<"delivery", "business_name">>,
    delivery_contact_name |-> <<"delivery", "contact_name">>,
    delivery_phone |-> <<"delivery", "phone">>,
    fiscal_code |-> <<"tax_profile", "fiscal_code">>,
    vat_country |-> <<"tax_profile", "vat_country_code">>,
    vat_number |-> <<"tax_profile", "vat_number">>,
    vies |-> <<"tax_profile", "vies_validated">>,
    fiscal_agent_code |-> <<"tax_profile", "fiscal_agent_code">>,
    tax2 |-> <<"tax_profile", "secondary_tax_value">>,
    newsletter |-> <<"communication_preferences", "newsletter">>,
    reg_privacy |-> <<"communication_preferences", "privacy_registered">>,
    reg_rules |-> <<"communication_preferences", "rules_registered">>,
    registration_date |-> <<"registration", "registered_at">>,
    verified |-> <<"registration", "verified">>,
    last_login_date |-> <<"registration", "last_login_at">>,
    payment_agreement |-> <<"commercial", "payment_agreement">>,
    payment_days |-> <<"commercial", "payment_days">>,
    payment_days_eom |-> <<"commercial", "payment_days_end_of_month">>,
    fido_granted |-> <<"commercial", "credit_granted">>,
    fido |-> <<"commercial", "credit_value">>,
    payment_abi |-> <<"banking", "abi">>,
    payment_cab |-> <<"banking", "cab">>,
    payment_iban |-> <<"banking", "iban">>,
    shop_location_lat |-> <<"shop", "latitude">>,
    shop_location_lng |-> <<"shop", "longitude">>,
    disable_box_discount |-> <<"operational_settings", "disable_box_discount">>,
    disable_qty_delivery |-> <<"operational_settings", "disable_quantity_delivery">>,
    rma_prepaid |-> <<"operational_settings", "prepaid_returns">>,
    disable_limit_sale |-> <<"operational_settings", "disable_sale_limit">>,
    admin_note |-> <<"notes", "administrative_note">> ]

DirectColumns == DOMAIN FieldOf

SpecialColumns ==
  {"login", "region_id", "delivery_address", "delivery_city", "delivery_zip_code",
   "delivery_region_id", "agent_id", "preferred_categories", "sales_channel_id",
   "preferred_payment_type", "shop_group_ids", "notes", "notes_open", "parameters",
   "extra_data"}

SectionOf(column) == FieldOf[column][1]
PartOf(column) == FieldOf[column][2]

LEMMA DirectSections ==
  DOMAIN DirectFields = {"credentials", "company", "primary_contact", "billing_address",
                         "delivery", "tax_profile", "communication_preferences",
                         "registration", "commercial", "banking", "shop",
                         "operational_settings", "notes"}
BY DEF DirectFields

LEMMA ColumnOfField ==
  ASSUME NEW s \in DOMAIN DirectFields, NEW f \in DOMAIN DirectFields[s]
  PROVE  /\ DirectFields[s][f] \in DirectColumns
         /\ FieldOf[DirectFields[s][f]] = <<s, f>>
<1>1. CASE s = "credentials"
  BY <1>1 DEF DirectFields, FieldOf, DirectColumns
<1>2. CASE s = "company"
  BY <1>2 DEF DirectFields, FieldOf, DirectColumns
<1>3. CASE s = "primary_contact"
  BY <1>3 DEF DirectFields, FieldOf, DirectColumns
<1>4. CASE s = "billing_address"
  BY <1>4 DEF DirectFields, FieldOf, DirectColumns
<1>5. CASE s = "delivery"
  BY <1>5 DEF DirectFields, FieldOf, DirectColumns
<1>6. CASE s = "tax_profile"
  BY <1>6 DEF DirectFields, FieldOf, DirectColumns
<1>7. CASE s = "communication_preferences"
  BY <1>7 DEF DirectFields, FieldOf, DirectColumns
<1>8. CASE s = "registration"
  BY <1>8 DEF DirectFields, FieldOf, DirectColumns
<1>9. CASE s = "commercial"
  BY <1>9 DEF DirectFields, FieldOf, DirectColumns
<1>10. CASE s = "banking"
  BY <1>10 DEF DirectFields, FieldOf, DirectColumns
<1>11. CASE s = "shop"
  BY <1>11 DEF DirectFields, FieldOf, DirectColumns
<1>12. CASE s = "operational_settings"
  BY <1>12 DEF DirectFields, FieldOf, DirectColumns
<1>13. CASE s = "notes"
  BY <1>13 DEF DirectFields, FieldOf, DirectColumns
<1> QED
  BY DirectSections, <1>1, <1>2, <1>3, <1>4, <1>5, <1>6, <1>7, <1>8, <1>9, <1>10, <1>11, <1>12, <1>13

LEMMA FieldOfColumn ==
  ASSUME NEW column \in DirectColumns
  PROVE  /\ FieldOf[column] = <<SectionOf(column), PartOf(column)>>
         /\ SectionOf(column) \in DOMAIN DirectFields
         /\ PartOf(column) \in DOMAIN DirectFields[SectionOf(column)]
         /\ DirectFields[SectionOf(column)][PartOf(column)] = column
BY DEF DirectFields, FieldOf, DirectColumns, SectionOf, PartOf

LEMMA CreatedColumns ==
  ASSUME NEW data
  PROVE  DOMAIN CreatedRow(data) = DirectColumns \cup SpecialColumns
BY DEF CreatedRow, CreateValues, ReferenceValues, ++, DirectColumns, FieldOf, SpecialColumns

LEMMA ColumnsApart == DirectColumns \cap SpecialColumns = {}
BY DEF DirectColumns, FieldOf, SpecialColumns

LEMMA CreatedByField ==
  ASSUME NEW data, NEW s \in DOMAIN DirectFields, NEW f \in DOMAIN DirectFields[s]
  PROVE  CreateValues(data)[DirectFields[s][f]] = ConvertValue(f, data[s][f])
<1>1. CASE s = "credentials"
  BY <1>1 DEF DirectFields, CreateValues, ConvertValue
<1>2. CASE s = "company"
  BY <1>2 DEF DirectFields, CreateValues, ConvertValue
<1>3. CASE s = "primary_contact"
  BY <1>3 DEF DirectFields, CreateValues, ConvertValue
<1>4. CASE s = "billing_address"
  BY <1>4 DEF DirectFields, CreateValues, ConvertValue
<1>5. CASE s = "delivery"
  BY <1>5 DEF DirectFields, CreateValues, ConvertValue
<1>6. CASE s = "tax_profile"
  BY <1>6 DEF DirectFields, CreateValues, ConvertValue
<1>7. CASE s = "communication_preferences"
  BY <1>7 DEF DirectFields, CreateValues, ConvertValue
<1>8. CASE s = "registration"
  BY <1>8 DEF DirectFields, CreateValues, ConvertValue
<1>9. CASE s = "commercial"
  BY <1>9 DEF DirectFields, CreateValues, ConvertValue
<1>10. CASE s = "banking"
  BY <1>10 DEF DirectFields, CreateValues, ConvertValue
<1>11. CASE s = "shop"
  BY <1>11 DEF DirectFields, CreateValues, ConvertValue
<1>12. CASE s = "operational_settings"
  BY <1>12 DEF DirectFields, CreateValues, ConvertValue
<1>13. CASE s = "notes"
  BY <1>13 DEF DirectFields, CreateValues, ConvertValue
<1> QED
  BY DirectSections, <1>1, <1>2, <1>3, <1>4, <1>5, <1>6, <1>7, <1>8, <1>9, <1>10, <1>11, <1>12, <1>13

LEMMA CreatedDirectly ==
  ASSUME NEW data, NEW column \in DirectColumns
  PROVE  CreatedRow(data)[column] =
           ConvertValue(PartOf(column), data[SectionOf(column)][PartOf(column)])
<1>1. DirectColumns \subseteq DOMAIN CreateValues(data)
  BY DEF DirectColumns, FieldOf, CreateValues
<1>2. CreatedRow(data)[column] = CreateValues(data)[column]
  BY <1>1 DEF CreatedRow, ++
<1> QED
  BY <1>2, FieldOfColumn, CreatedByField

-----------------------------------------------------------------------------
(* The columns that a patch writes.                                        *)

AddressColumns ==
  {"delivery_address", "delivery_city", "delivery_zip_code", "delivery_region_id"}

LEMMA AddressPatched ==
  ASSUME NEW address, NEW r
  PROVE  LET values == DeliveryUpdateValues(address, r) IN
         /\ DOMAIN values \subseteq AddressColumns
         /\ address = NONE => /\ DOMAIN values = AddressColumns
                              /\ \A c \in AddressColumns : values[c] = NONE
         /\ address # NONE =>
              /\ "delivery_address" \in DOMAIN values <=> "street" \in DOMAIN address
              /\ "delivery_city" \in DOMAIN values <=> "city" \in DOMAIN address
              /\ "delivery_zip_code" \in DOMAIN values <=> "postal_code" \in DOMAIN address
              /\ "delivery_region_id" \in DOMAIN values <=> PatchesRegion(address)
              /\ "street" \in DOMAIN address => values.delivery_address = address.street
              /\ "city" \in DOMAIN address => values.delivery_city = address.city
              /\ "postal_code" \in DOMAIN address =>
                   values.delivery_zip_code = address.postal_code
              /\ PatchesRegion(address) =>
                   values.delivery_region_id = PatchedRegion(address, r.delivery_region_id)
<1>1. CASE address = NONE
  BY <1>1 DEF DeliveryUpdateValues, AddressColumns
<1>2. CASE address # NONE
  <2> DEFINE given == DOMAIN address \cap DOMAIN DeliveryColumns
             parts == [column \in {DeliveryColumns[f] : f \in given} |->
                         address[CHOOSE f \in given : DeliveryColumns[f] = column]]
             region == When(PatchesRegion(address),
                            [delivery_region_id |-> PatchedRegion(address, r.delivery_region_id)])
  <2>1. DeliveryUpdateValues(address, r) = parts ++ region
    BY <1>2 DEF DeliveryUpdateValues
  <2>2. /\ DOMAIN DeliveryColumns = {"street", "city", "postal_code"}
        /\ DeliveryColumns["street"] = "delivery_address"
        /\ DeliveryColumns["city"] = "delivery_city"
        /\ DeliveryColumns["postal_code"] = "delivery_zip_code"
    BY DEF DeliveryColumns
  <2>3. ASSUME NEW f \in given PROVE parts[DeliveryColumns[f]] = address[f]
    <3>1. (CHOOSE g \in given : DeliveryColumns[g] = DeliveryColumns[f]) = f
      BY <2>2
    <3> QED
      BY <3>1
  <2>4. DOMAIN parts = {DeliveryColumns[f] : f \in given}
    OBVIOUS
  <2>5. /\ DOMAIN region = IF PatchesRegion(address) THEN {"delivery_region_id"} ELSE {}
        /\ PatchesRegion(address) =>
             region.delivery_region_id = PatchedRegion(address, r.delivery_region_id)
    BY DEF When, Nothing
  <2> HIDE DEF parts, region
  <2>6. /\ DOMAIN (parts ++ region) = DOMAIN parts \cup DOMAIN region
        /\ \A x \in DOMAIN parts : (parts ++ region)[x] = parts[x]
        /\ \A x \in DOMAIN region \ DOMAIN parts : (parts ++ region)[x] = region[x]
    BY Over
  <2> QED
    BY <1>2, <2>1, <2>2, <2>3, <2>4, <2>5, <2>6 DEF AddressColumns
<1> QED
  BY <1>1, <1>2

ReferenceColumns ==
  AddressColumns \cup {"login", "region_id", "agent_id", "preferred_categories",
                       "sales_channel_id", "preferred_payment_type", "shop_group_ids"}

\* The conditions and the values of the columns that need a rule or a lookup.
ReferencesPatched(patch, r, values) ==
  /\ "login" \in DOMAIN values <=> Has(patch, "credentials", "login")
  /\ Has(patch, "credentials", "login") => values.login = Strip(patch.credentials.login)
  /\ "region_id" \in DOMAIN values <=>
       "billing_address" \in DOMAIN patch /\ PatchesRegion(patch.billing_address)
  /\ "region_id" \in DOMAIN values =>
       values.region_id = PatchedRegion(patch.billing_address, r.region_id)
  /\ \A c \in AddressColumns :
       LET delivered == DeliveryUpdateValues(patch.delivery.address, r) IN
       /\ c \in DOMAIN values <=> Has(patch, "delivery", "address") /\ c \in DOMAIN delivered
       /\ c \in DOMAIN values => values[c] = delivered[c]
  /\ "preferred_categories" \in DOMAIN values <=>
       Has(patch, "commercial", "preferred_categories")
  /\ Has(patch, "commercial", "preferred_categories") =>
       values.preferred_categories = CategoryIdsOf(patch.commercial.preferred_categories)
  /\ "agent_id" \in DOMAIN values <=> Has(patch, "commercial", "assigned_agent")
  /\ Has(patch, "commercial", "assigned_agent") =>
       values.agent_id = AgentId(patch.commercial.assigned_agent)
  /\ "sales_channel_id" \in DOMAIN values <=>
       /\ Has(patch, "commercial", "sales_channel")
       /\ patch.commercial.sales_channel # NONE =>
            "code" \in DOMAIN patch.commercial.sales_channel
  /\ "sales_channel_id" \in DOMAIN values =>
       values.sales_channel_id =
         IF patch.commercial.sales_channel = NONE THEN NONE
         ELSE ChannelIds[patch.commercial.sales_channel.code]
  /\ "preferred_payment_type" \in DOMAIN values <=>
       Has(patch, "commercial", "preferred_payment_type_code")
  /\ Has(patch, "commercial", "preferred_payment_type_code") =>
       values.preferred_payment_type = patch.commercial.preferred_payment_type_code
  /\ "shop_group_ids" \in DOMAIN values <=> Has(patch, "shop", "groups")
  /\ Has(patch, "shop", "groups") => values.shop_group_ids = GroupIdsOf(patch.shop.groups)

LEMMA PatchedReferences ==
  ASSUME NEW patch, NEW r
  PROVE  /\ DOMAIN ReferenceUpdateValues(patch, r) \subseteq ReferenceColumns
         /\ ReferencesPatched(patch, r, ReferenceUpdateValues(patch, r))
<1> DEFINE delivered == DeliveryUpdateValues(patch.delivery.address, r)
           channel == patch.commercial.sales_channel
           P1 == When(Has(patch, "credentials", "login"),
                      [login |-> Strip(patch.credentials.login)])
           P2 == When("billing_address" \in DOMAIN patch /\ PatchesRegion(patch.billing_address),
                      [region_id |-> PatchedRegion(patch.billing_address, r.region_id)])
           P3 == When(Has(patch, "delivery", "address"), delivered)
           P4 == When(Has(patch, "commercial", "preferred_categories"),
                      [preferred_categories |->
                         CategoryIdsOf(patch.commercial.preferred_categories)])
           P5 == When(Has(patch, "commercial", "assigned_agent"),
                      [agent_id |-> AgentId(patch.commercial.assigned_agent)])
           P6 == When(Has(patch, "commercial", "sales_channel")
                        /\ ~Given(patch, "commercial", "sales_channel"),
                      [sales_channel_id |-> NONE])
           P7 == When(Given(patch, "commercial", "sales_channel")
                        /\ "code" \in DOMAIN patch.commercial.sales_channel,
                      [sales_channel_id |-> ChannelIds[patch.commercial.sales_channel.code]])
           P8 == When(Has(patch, "commercial", "preferred_payment_type_code"),
                      [preferred_payment_type |->
                         patch.commercial.preferred_payment_type_code])
           P9 == When(Has(patch, "shop", "groups"),
                      [shop_group_ids |-> GroupIdsOf(patch.shop.groups)])
           Q2 == P1 ++ P2
           Q3 == Q2 ++ P3
           Q4 == Q3 ++ P4
           Q5 == Q4 ++ P5
           Q6 == Q5 ++ P6
           Q7 == Q6 ++ P7
           Q8 == Q7 ++ P8
           Q9 == Q8 ++ P9
<1>1. ReferenceUpdateValues(patch, r) = Q9
  BY DEF ReferenceUpdateValues
<1>2. /\ DOMAIN P1 = IF Has(patch, "credentials", "login") THEN {"login"} ELSE {}
      /\ Has(patch, "credentials", "login") => P1.login = Strip(patch.credentials.login)
  BY DEF When, Nothing
<1>3. /\ DOMAIN P2 = IF "billing_address" \in DOMAIN patch /\ PatchesRegion(patch.billing_address)
                     THEN {"region_id"} ELSE {}
      /\ "region_id" \in DOMAIN P2 =>
           P2.region_id = PatchedRegion(patch.billing_address, r.region_id)
  BY DEF When, Nothing
<1>4. /\ DOMAIN P3 = IF Has(patch, "delivery", "address") THEN DOMAIN delivered ELSE {}
      /\ Has(patch, "delivery", "address") => P3 = delivered
      /\ DOMAIN P3 \subseteq AddressColumns
  BY AddressPatched DEF When, Nothing
<1>5. /\ DOMAIN P4 = IF Has(patch, "commercial", "preferred_categories")
                     THEN {"preferred_categories"} ELSE {}
      /\ Has(patch, "commercial", "preferred_categories") =>
           P4.preferred_categories = CategoryIdsOf(patch.commercial.preferred_categories)
  BY DEF When, Nothing
<1>6. /\ DOMAIN P5 = IF Has(patch, "commercial", "assigned_agent") THEN {"agent_id"} ELSE {}
      /\ Has(patch, "commercial", "assigned_agent") =>
           P5.agent_id = AgentId(patch.commercial.assigned_agent)
  BY DEF When, Nothing
<1>7. /\ DOMAIN P6 = IF Has(patch, "commercial", "sales_channel") /\ channel = NONE
                     THEN {"sales_channel_id"} ELSE {}
      /\ "sales_channel_id" \in DOMAIN P6 => P6.sales_channel_id = NONE
  BY DEF When, Nothing, Given
<1>8. /\ DOMAIN P7 = IF Has(patch, "commercial", "sales_channel") /\ channel # NONE
                          /\ "code" \in DOMAIN channel
                     THEN {"sales_channel_id"} ELSE {}
      /\ "sales_channel_id" \in DOMAIN P7 => P7.sales_channel_id = ChannelIds[channel.code]
  BY DEF When, Nothing, Given
<1>9. /\ DOMAIN P8 = IF Has(patch, "commercial", "preferred_payment_type_code")
                     THEN {"preferred_payment_type"} ELSE {}
      /\ Has(patch, "commercial", "preferred_payment_type_code") =>
           P8.preferred_payment_type = patch.commercial.preferred_payment_type_code
  BY DEF When, Nothing
<1>10. /\ DOMAIN P9 = IF Has(patch, "shop", "groups") THEN {"shop_group_ids"} ELSE {}
       /\ Has(patch, "shop", "groups") => P9.shop_group_ids = GroupIdsOf(patch.shop.groups)
  BY DEF When, Nothing
<1> HIDE DEF P1, P2, P3, P4, P5, P6, P7, P8, P9
<1>11. /\ DOMAIN Q2 = DOMAIN P1 \cup DOMAIN P2 /\ (\A x \in DOMAIN P1 : Q2[x] = P1[x])
       /\ \A x \in DOMAIN P2 \ DOMAIN P1 : Q2[x] = P2[x]
  BY Over
<1> HIDE DEF Q2
<1>12. /\ DOMAIN Q3 = DOMAIN Q2 \cup DOMAIN P3 /\ (\A x \in DOMAIN Q2 : Q3[x] = Q2[x])
       /\ \A x \in DOMAIN P3 \ DOMAIN Q2 : Q3[x] = P3[x]
  BY Over
<1> HIDE DEF Q3
<1>13. /\ DOMAIN Q4 = DOMAIN Q3 \cup DOMAIN P4 /\ (\A x \in DOMAIN Q3 : Q4[x] = Q3[x])
       /\ \A x \in DOMAIN P4 \ DOMAIN Q3 : Q4[x] = P4[x]
  BY Over
<1> HIDE DEF Q4
<1>14. /\ DOMAIN Q5 = DOMAIN Q4 \cup DOMAIN P5 /\ (\A x \in DOMAIN Q4 : Q5[x] = Q4[x])
       /\ \A x \in DOMAIN P5 \ DOMAIN Q4 : Q5[x] = P5[x]
  BY Over
<1> HIDE DEF Q5
<1>15. /\ DOMAIN Q6 = DOMAIN Q5 \cup DOMAIN P6 /\ (\A x \in DOMAIN Q5 : Q6[x] = Q5[x])
       /\ \A x \in DOMAIN P6 \ DOMAIN Q5 : Q6[x] = P6[x]
  BY Over
<1> HIDE DEF Q6
<1>16. /\ DOMAIN Q7 = DOMAIN Q6 \cup DOMAIN P7 /\ (\A x \in DOMAIN Q6 : Q7[x] = Q6[x])
       /\ \A x \in DOMAIN P7 \ DOMAIN Q6 : Q7[x] = P7[x]
  BY Over
<1> HIDE DEF Q7
<1>17. /\ DOMAIN Q8 = DOMAIN Q7 \cup DOMAIN P8 /\ (\A x \in DOMAIN Q7 : Q8[x] = Q7[x])
       /\ \A x \in DOMAIN P8 \ DOMAIN Q7 : Q8[x] = P8[x]
  BY Over
<1> HIDE DEF Q8
<1>18. /\ DOMAIN Q9 = DOMAIN Q8 \cup DOMAIN P9 /\ (\A x \in DOMAIN Q8 : Q9[x] = Q8[x])
       /\ \A x \in DOMAIN P9 \ DOMAIN Q8 : Q9[x] = P9[x]
  BY Over
<1> HIDE DEF Q9
<1>19. /\ DOMAIN Q9 = DOMAIN P1 \cup DOMAIN P2 \cup DOMAIN P3 \cup DOMAIN P4 \cup DOMAIN P5
                       \cup DOMAIN P6 \cup DOMAIN P7 \cup DOMAIN P8 \cup DOMAIN P9
       /\ \A x \in DOMAIN P1 : Q9[x] = P1[x]
       /\ \A x \in DOMAIN P2 : x \notin DOMAIN P1 => Q9[x] = P2[x]
  BY <1>11, <1>12, <1>13, <1>14, <1>15, <1>16, <1>17, <1>18
<1>20. DOMAIN Q9 \subseteq ReferenceColumns
  BY <1>2, <1>3, <1>4, <1>5, <1>6, <1>7, <1>8, <1>9, <1>10, <1>19
  DEF ReferenceColumns
<1>21. /\ "login" \in DOMAIN Q9 <=> Has(patch, "credentials", "login")
       /\ Has(patch, "credentials", "login") => Q9.login = Strip(patch.credentials.login)
       /\ "region_id" \in DOMAIN Q9 <=>
            "billing_address" \in DOMAIN patch /\ PatchesRegion(patch.billing_address)
       /\ "region_id" \in DOMAIN Q9 =>
            Q9.region_id = PatchedRegion(patch.billing_address, r.region_id)
  BY <1>2, <1>3, <1>4, <1>5, <1>6, <1>7, <1>8, <1>9, <1>10, <1>19 DEF AddressColumns
<1>22. ASSUME NEW c \in AddressColumns
       PROVE  /\ c \in DOMAIN Q9 <=> c \in DOMAIN P3
              /\ c \in DOMAIN Q9 => Q9[c] = P3[c]
  <2>1. c \notin DOMAIN P1 \cup DOMAIN P2 \cup DOMAIN P4 \cup DOMAIN P5 \cup DOMAIN P6
                   \cup DOMAIN P7 \cup DOMAIN P8 \cup DOMAIN P9
    BY <1>2, <1>3, <1>5, <1>6, <1>7, <1>8, <1>9, <1>10 DEF AddressColumns
  <2> QED
    BY <2>1, <1>11, <1>12, <1>13, <1>14, <1>15, <1>16, <1>17, <1>18
<1>23. ASSUME NEW c \in {"preferred_categories", "agent_id", "sales_channel_id",
                         "preferred_payment_type", "shop_group_ids"}
       PROVE  /\ c \notin DOMAIN Q3
              /\ c = "preferred_categories" =>
                   (c \in DOMAIN Q9 <=> c \in DOMAIN P4) /\ (c \in DOMAIN P4 => Q9[c] = P4[c])
              /\ c = "agent_id" =>
                   (c \in DOMAIN Q9 <=> c \in DOMAIN P5) /\ (c \in DOMAIN P5 => Q9[c] = P5[c])
              /\ c = "sales_channel_id" =>
                   /\ c \in DOMAIN Q9 <=> c \in DOMAIN P6 \cup DOMAIN P7
                   /\ c \in DOMAIN P6 => Q9[c] = P6[c]
                   /\ c \in DOMAIN P7 => Q9[c] = P7[c]
              /\ c = "preferred_payment_type" =>
                   (c \in DOMAIN Q9 <=> c \in DOMAIN P8) /\ (c \in DOMAIN P8 => Q9[c] = P8[c])
              /\ c = "shop_group_ids" =>
                   (c \in DOMAIN Q9 <=> c \in DOMAIN P9) /\ (c \in DOMAIN P9 => Q9[c] = P9[c])
  <2>1. c \notin DOMAIN Q3
    BY <1>2, <1>3, <1>4, <1>11, <1>12 DEF AddressColumns
  <2>2. /\ c \in DOMAIN P4 => c = "preferred_categories"
        /\ c \in DOMAIN P5 => c = "agent_id"
        /\ c \in DOMAIN P6 => c = "sales_channel_id" /\ c \notin DOMAIN P7
        /\ c \in DOMAIN P7 => c = "sales_channel_id"
        /\ c \in DOMAIN P8 => c = "preferred_payment_type"
        /\ c \in DOMAIN P9 => c = "shop_group_ids"
    BY <1>5, <1>6, <1>7, <1>8, <1>9, <1>10
  <2> QED
    BY <2>1, <2>2, <1>13, <1>14, <1>15, <1>16, <1>17, <1>18
<1>24. /\ "preferred_categories" \in DOMAIN Q9 <=> Has(patch, "commercial", "preferred_categories")
       /\ Has(patch, "commercial", "preferred_categories") =>
            Q9.preferred_categories = CategoryIdsOf(patch.commercial.preferred_categories)
       /\ "agent_id" \in DOMAIN Q9 <=> Has(patch, "commercial", "assigned_agent")
       /\ Has(patch, "commercial", "assigned_agent") =>
            Q9.agent_id = AgentId(patch.commercial.assigned_agent)
  BY <1>5, <1>6, <1>23
<1>25. /\ "sales_channel_id" \in DOMAIN Q9 <=>
            Has(patch, "commercial", "sales_channel") /\ (channel # NONE => "code" \in DOMAIN channel)
       /\ "sales_channel_id" \in DOMAIN Q9 =>
            Q9.sales_channel_id = IF channel = NONE THEN NONE ELSE ChannelIds[channel.code]
  BY <1>7, <1>8, <1>23
<1>26. /\ "preferred_payment_type" \in DOMAIN Q9 <=>
            Has(patch, "commercial", "preferred_payment_type_code")
       /\ Has(patch, "commercial", "preferred_payment_type_code") =>
            Q9.preferred_payment_type = patch.commercial.preferred_payment_type_code
       /\ "shop_group_ids" \in DOMAIN Q9 <=> Has(patch, "shop", "groups")
       /\ Has(patch, "shop", "groups") => Q9.shop_group_ids = GroupIdsOf(patch.shop.groups)
  BY <1>9, <1>10, <1>23
<1>27. ReferencesPatched(patch, r, Q9)
  BY <1>4, <1>21, <1>22, <1>24, <1>25, <1>26 DEF ReferencesPatched
<1> QED
  BY <1>1, <1>20, <1>27

\* A column that holds a field is written when the field is patched, and no other.
LEMMA PatchedFields ==
  ASSUME NEW patch, NEW column \in DirectColumns
  PROVE  /\ column \in DOMAIN DirectUpdateValues(patch)
              <=> Has(patch, SectionOf(column), PartOf(column))
         /\ Has(patch, SectionOf(column), PartOf(column)) =>
              DirectUpdateValues(patch)[column] =
                ConvertValue(PartOf(column), patch[SectionOf(column)][PartOf(column)])
<1> DEFINE given == UNION {{s} \X (DOMAIN patch[s] \cap DOMAIN DirectFields[s]) :
                             s \in DOMAIN patch \cap DOMAIN DirectFields}
           columnOf(p) == DirectFields[p[1]][p[2]]
           chosen(c) == CHOOSE q \in given : columnOf(q) = c
           direct == [c \in {columnOf(p) : p \in given} |->
                        ConvertValue(chosen(c)[2], patch[chosen(c)[1]][chosen(c)[2]])]
           notes == When(Has(patch, "notes", "items"),
                         [notes      |-> NotesJson(patch.notes.items),
                          notes_open |-> OpenNotesCount(patch.notes.items)])
           s == SectionOf(column)
           f == PartOf(column)
<1>1. DirectUpdateValues(patch) = direct ++ notes
  BY DEF DirectUpdateValues
<1>2. DOMAIN notes \subseteq {"notes", "notes_open"}
  BY DEF When, Nothing
<1>3. column \notin DOMAIN notes
  BY <1>2, ColumnsApart DEF SpecialColumns
<1>4. \A p \in given : /\ p = <<p[1], p[2]>> /\ p[1] \in DOMAIN DirectFields
                       /\ p[2] \in DOMAIN DirectFields[p[1]] /\ Has(patch, p[1], p[2])
  BY DEF Has
<1>5. \A p \in given : columnOf(p) = column => p = <<s, f>>
  BY <1>4, ColumnOfField, FieldOfColumn
<1>6. Has(patch, s, f) => <<s, f>> \in given /\ columnOf(<<s, f>>) = column
  BY FieldOfColumn DEF Has
<1>7. DOMAIN direct = {columnOf(p) : p \in given}
  OBVIOUS
<1> HIDE DEF given
<1>8. column \in DOMAIN direct <=> Has(patch, s, f)
  BY <1>4, <1>5, <1>6, <1>7
<1>9. ASSUME Has(patch, s, f)
      PROVE  direct[column] = ConvertValue(f, patch[s][f])
  <2>1. chosen(column) \in given /\ columnOf(chosen(column)) = column
    BY <1>6, <1>9
  <2>2. chosen(column) = <<s, f>>
    BY <1>5, <2>1
  <2>3. direct[column] = ConvertValue(chosen(column)[2], patch[chosen(column)[1]][chosen(column)[2]])
    BY <1>7, <1>8, <1>9
  <2> HIDE DEF direct, chosen
  <2> QED
    BY <2>2, <2>3
<1> HIDE DEF direct, notes
<1>10. /\ DOMAIN (direct ++ notes) = DOMAIN direct \cup DOMAIN notes
       /\ \A x \in DOMAIN direct : (direct ++ notes)[x] = direct[x]
  BY Over
<1> QED
  BY <1>1, <1>3, <1>8, <1>9, <1>10

LEMMA PatchedNotes ==
  ASSUME NEW patch
  PROVE  LET values == DirectUpdateValues(patch) IN
         /\ DOMAIN values \subseteq DirectColumns \cup {"notes", "notes_open"}
         /\ "notes" \in DOMAIN values <=> Has(patch, "notes", "items")
         /\ "notes_open" \in DOMAIN values <=> Has(patch, "notes", "items")
         /\ Has(patch, "notes", "items") =>
              /\ values.notes = NotesJson(patch.notes.items)
              /\ values.notes_open = OpenNotesCount(patch.notes.items)
<1> DEFINE given == UNION {{s} \X (DOMAIN patch[s] \cap DOMAIN DirectFields[s]) :
                             s \in DOMAIN patch \cap DOMAIN DirectFields}
           columnOf(p) == DirectFields[p[1]][p[2]]
           chosen(c) == CHOOSE q \in given : columnOf(q) = c
           direct == [c \in {columnOf(p) : p \in given} |->
                        ConvertValue(chosen(c)[2], patch[chosen(c)[1]][chosen(c)[2]])]
           notes == When(Has(patch, "notes", "items"),
                         [notes      |-> NotesJson(patch.notes.items),
                          notes_open |-> OpenNotesCount(patch.notes.items)])
<1>1. DirectUpdateValues(patch) = direct ++ notes
  BY DEF DirectUpdateValues
<1>2. /\ DOMAIN notes = IF Has(patch, "notes", "items") THEN {"notes", "notes_open"} ELSE {}
      /\ Has(patch, "notes", "items") =>
           /\ notes.notes = NotesJson(patch.notes.items)
           /\ notes.notes_open = OpenNotesCount(patch.notes.items)
  BY DEF When, Nothing
<1>3. \A p \in given : columnOf(p) \in DirectColumns
  BY ColumnOfField
<1>4. DOMAIN direct \subseteq DirectColumns
  BY <1>3
<1>5. "notes" \notin DirectColumns /\ "notes_open" \notin DirectColumns
  BY ColumnsApart DEF SpecialColumns
<1> HIDE DEF direct, notes
<1>6. /\ DOMAIN (direct ++ notes) = DOMAIN direct \cup DOMAIN notes
      /\ \A x \in DOMAIN notes \ DOMAIN direct : (direct ++ notes)[x] = notes[x]
  BY Over
<1> QED
  BY <1>1, <1>2, <1>4, <1>5, <1>6

\* The columns that the merge writes.
JsonPatched(patch, r, values) ==
  \A c \in {"parameters", "extra_data"} :
    /\ c \in DOMAIN values <=> Has(patch, "extensions", c)
    /\ Has(patch, "extensions", c) =>
         values[c] = IF patch.extensions[c] = NONE THEN NONE
                     ELSE Extension(MergeJson(IF r[c] = NONE THEN Nothing ELSE r[c].object,
                                              patch.extensions[c]))

LEMMA PatchedJson ==
  ASSUME NEW patch, IsPatch(patch), NEW r
  PROVE  /\ DOMAIN JsonUpdateValues(patch, r) \subseteq {"parameters", "extra_data"}
         /\ JsonPatched(patch, r, JsonUpdateValues(patch, r))
<1>1. "extensions" \in DOMAIN patch => DOMAIN patch.extensions \subseteq {"parameters", "extra_data"}
  BY SectionFields DEF IsPatch, OperationsFields
<1> QED
  BY <1>1 DEF JsonUpdateValues, JsonPatched, Has

\* What a patch writes to the row r.
LEMMA Patched ==
  ASSUME NEW patch, IsPatch(patch), NEW r
  PROVE  LET values == UpdateValues(patch, r) IN
         /\ DOMAIN values \subseteq DirectColumns \cup SpecialColumns
         /\ \A c \in DirectColumns :
              /\ c \in DOMAIN values <=> Has(patch, SectionOf(c), PartOf(c))
              /\ Has(patch, SectionOf(c), PartOf(c)) =>
                   values[c] = ConvertValue(PartOf(c), patch[SectionOf(c)][PartOf(c)])
         /\ "notes" \in DOMAIN values <=> Has(patch, "notes", "items")
         /\ "notes_open" \in DOMAIN values <=> Has(patch, "notes", "items")
         /\ Has(patch, "notes", "items") =>
              /\ values.notes = NotesJson(patch.notes.items)
              /\ values.notes_open = OpenNotesCount(patch.notes.items)
         /\ ReferencesPatched(patch, r, values)
         /\ JsonPatched(patch, r, values)
<1> DEFINE J == JsonUpdateValues(patch, r)
           R == ReferenceUpdateValues(patch, r)
           D == DirectUpdateValues(patch)
           values == (J ++ R) ++ D
<1>1. UpdateValues(patch, r) = values
  BY DEF UpdateValues
<1>2. DOMAIN J \subseteq {"parameters", "extra_data"} /\ JsonPatched(patch, r, J)
  BY PatchedJson
<1>3. DOMAIN R \subseteq ReferenceColumns /\ ReferencesPatched(patch, r, R)
  BY PatchedReferences
<1>4. /\ DOMAIN D \subseteq DirectColumns \cup {"notes", "notes_open"}
      /\ "notes" \in DOMAIN D <=> Has(patch, "notes", "items")
      /\ "notes_open" \in DOMAIN D <=> Has(patch, "notes", "items")
      /\ Has(patch, "notes", "items") =>
           /\ D.notes = NotesJson(patch.notes.items)
           /\ D.notes_open = OpenNotesCount(patch.notes.items)
  BY PatchedNotes
<1>5. \A c \in DirectColumns :
        /\ c \in DOMAIN D <=> Has(patch, SectionOf(c), PartOf(c))
        /\ Has(patch, SectionOf(c), PartOf(c)) =>
             D[c] = ConvertValue(PartOf(c), patch[SectionOf(c)][PartOf(c)])
  BY PatchedFields
<1>6. /\ ReferenceColumns \subseteq SpecialColumns
      /\ {"parameters", "extra_data", "notes", "notes_open"} \subseteq SpecialColumns
      /\ ReferenceColumns \cap {"parameters", "extra_data", "notes", "notes_open"} = {}
  BY DEF ReferenceColumns, AddressColumns, SpecialColumns
<1> HIDE DEF J, R, D
<1>7. /\ DOMAIN (J ++ R) = DOMAIN J \cup DOMAIN R
      /\ \A x \in DOMAIN J : (J ++ R)[x] = J[x]
      /\ \A x \in DOMAIN R \ DOMAIN J : (J ++ R)[x] = R[x]
  BY Over
<1>8. /\ DOMAIN values = DOMAIN (J ++ R) \cup DOMAIN D
      /\ \A x \in DOMAIN (J ++ R) : values[x] = (J ++ R)[x]
      /\ \A x \in DOMAIN D \ DOMAIN (J ++ R) : values[x] = D[x]
  BY Over
<1> HIDE DEF values
<1>9. /\ DOMAIN values = DOMAIN J \cup DOMAIN R \cup DOMAIN D
      /\ \A x \in DOMAIN J : values[x] = J[x]
      /\ \A x \in DOMAIN R \ DOMAIN J : values[x] = R[x]
      /\ \A x \in DOMAIN D \ (DOMAIN J \cup DOMAIN R) : values[x] = D[x]
  BY <1>7, <1>8
<1>10. ASSUME NEW c \in ReferenceColumns
       PROVE  (c \in DOMAIN values <=> c \in DOMAIN R) /\ (c \in DOMAIN R => values[c] = R[c])
  BY <1>2, <1>3, <1>4, <1>6, <1>9, ColumnsApart
<1>11. ReferencesPatched(patch, r, values)
  <2>1. {"login", "region_id", "agent_id", "preferred_categories", "sales_channel_id",
         "preferred_payment_type", "shop_group_ids"} \subseteq ReferenceColumns
        /\ AddressColumns \subseteq ReferenceColumns
    BY DEF ReferenceColumns
  <2> QED
    BY <1>3, <1>10, <2>1 DEF ReferencesPatched
<1>12. JsonPatched(patch, r, values)
  <2>1. ASSUME NEW c \in {"parameters", "extra_data"}
        PROVE  (c \in DOMAIN values <=> c \in DOMAIN J) /\ (c \in DOMAIN J => values[c] = J[c])
    BY <1>3, <1>4, <1>6, <1>9, ColumnsApart
  <2> QED
    BY <1>2, <2>1 DEF JsonPatched
<1>13. ASSUME NEW c \in DirectColumns \cup {"notes", "notes_open"}
       PROVE  (c \in DOMAIN values <=> c \in DOMAIN D) /\ (c \in DOMAIN D => values[c] = D[c])
  BY <1>2, <1>3, <1>6, <1>9, ColumnsApart
<1>14. DOMAIN values \subseteq DirectColumns \cup SpecialColumns
  BY <1>2, <1>3, <1>4, <1>6, <1>9
<1> QED
  BY <1>1, <1>4, <1>5, <1>11, <1>12, <1>13, <1>14

-----------------------------------------------------------------------------
(* What a patch does to the customer in memory.                            *)

LEMMA MergeMemory ==
  ASSUME NEW old, NEW patch
  PROVE  MemoryMerge(old, patch) = MergeJson(old, patch)
<1>1. ASSUME NEW o, NEW p PROVE MemoryLeaves(o, p) = MergeLeaves(o, p)
  BY DEF MemoryLeaves, MemoryMembers, MergeLeaves, MergeMembers, ++
<1> QED
  BY <1>1 DEF MemoryMerge, MemoryMembers, MergeJson, MergeMembers, ++

LEMMA FieldPatched ==
  ASSUME NEW s, NEW f, NEW previous, NEW value
  PROVE  /\ s # "extensions" /\ f \notin DOMAIN Nested =>
              PatchField(s, f, previous, value) = value
         /\ value = NONE => PatchField(s, f, previous, value) = NONE
         /\ s = "extensions" /\ f \notin DOMAIN Nested /\ value # NONE =>
              PatchField(s, f, previous, value) =
                MemoryMerge(IF previous = NONE THEN Nothing ELSE previous, value)
         /\ s # "extensions" /\ f \in DOMAIN Nested /\ value # NONE =>
              PatchField(s, f, previous, value) =
                IF previous = NONE THEN value ELSE value ++ previous
BY DEF PatchField

LEMMA SectionsPatched ==
  ASSUME IsCreation(view), NEW patch, IsPatch(patch)
  PROVE  /\ DOMAIN ApplyPatch(patch) = DOMAIN Fields
         /\ \A s \in DOMAIN Fields :
              /\ DOMAIN ApplyPatch(patch)[s] = Fields[s]
              /\ \A f \in Fields[s] :
                   ApplyPatch(patch)[s][f] =
                     IF Has(patch, s, f) THEN PatchField(s, f, view[s][f], patch[s][f])
                     ELSE view[s][f]
BY DEF ApplyPatch, IsCreation, Has

\* A patch that is given in part goes to an object that is there.
LEMMA NestedPatched ==
  ASSUME IsCreation(view), NEW patch, IsPatch(patch), MemoryAnswer(patch) = 200,
         NEW s \in DOMAIN Fields, NEW f \in Fields[s] \cap DOMAIN Nested
  PROVE  LET next == ApplyPatch(patch)[s][f] IN
         /\ ~Has(patch, s, f) => next = view[s][f]
         /\ Has(patch, s, f) /\ patch[s][f] = NONE => next = NONE
         /\ Given(patch, s, f) /\ view[s][f] = NONE =>
              next = patch[s][f] /\ DOMAIN patch[s][f] = Nested[f]
         /\ Given(patch, s, f) /\ view[s][f] # NONE => next = patch[s][f] ++ view[s][f]
         /\ view[s][f] # NONE => DOMAIN view[s][f] = Nested[f] /\ AcceptsNested(f, view[s][f])
         /\ Given(patch, s, f) => AcceptsNested(f, patch[s][f])
<1>1. s # "extensions"
  BY PlaceOfField, NestedFields
<1>2. ApplyPatch(patch)[s][f] = IF Has(patch, s, f)
                                THEN PatchField(s, f, view[s][f], patch[s][f]) ELSE view[s][f]
  BY SectionsPatched
<1>3. Given(patch, s, f) /\ view[s][f] = NONE => DOMAIN patch[s][f] = Nested[f]
  BY DEF MemoryAnswer, CreatesNested, Given, Has
<1>4. view[s][f] # NONE => DOMAIN view[s][f] = Nested[f] /\ AcceptsNested(f, view[s][f])
  BY DEF IsCreation, IsPatch, Accepts, AcceptsValue
<1>5. Given(patch, s, f) => AcceptsNested(f, patch[s][f])
  BY DEF Given, Has, IsPatch, Accepts, AcceptsValue
<1> QED
  BY <1>1, <1>2, <1>3, <1>4, <1>5, FieldPatched DEF Given

LEMMA StaysWhole ==
  ASSUME NoneIsAtom, IsCreation(view), NEW patch, IsPatch(patch), MemoryAnswer(patch) = 200
  PROVE  IsCreation(ApplyPatch(patch))
<1> DEFINE next == ApplyPatch(patch)
<1>1. ASSUME NEW s \in DOMAIN Fields, NEW f \in Fields[s] \cap DOMAIN Nested
      PROVE  /\ next[s][f] # NONE => AcceptsNested(f, next[s][f]) /\ DOMAIN next[s][f] = Nested[f]
             /\ IsNullable(s, f)
  <2>1. IsNullable(s, f)
    BY NestedFields, PlaceOfField, NullableFields
  <2>2. CASE ~Given(patch, s, f) \/ view[s][f] = NONE
    BY <2>1, <2>2, NestedPatched DEF Given
  <2>3. CASE Given(patch, s, f) /\ view[s][f] # NONE
    <3> DEFINE new == patch[s][f]
               old == view[s][f]
    <3>1. /\ next[s][f] = new ++ old /\ AcceptsNested(f, new)
          /\ AcceptsNested(f, old) /\ DOMAIN old = Nested[f]
      BY <2>3, NestedPatched
    <3> HIDE DEF new, old, next
    <3>2. DOMAIN (new ++ old) = Nested[f]
      <4>1. DOMAIN (new ++ old) = DOMAIN new \cup DOMAIN old
        BY Over
      <4>2. DOMAIN new \subseteq Nested[f]
        BY <3>1 DEF AcceptsNested
      <4> QED
        BY <3>1, <4>1, <4>2
    <3>3. IsRecord(DOMAIN (new ++ old), new ++ old)
      BY DEF IsRecord, ++
    <3>4. \A part \in DOMAIN (new ++ old) : (new ++ old)[part] \in {new[part], old[part]}
                                            /\ (part \notin DOMAIN new => (new ++ old)[part] = old[part])
                                            /\ (part \in DOMAIN new => (new ++ old)[part] = new[part])
      BY DEF ++
    <3>5. f = "address" => \A part \in DOMAIN (new ++ old) :
                              (new ++ old)[part] = NONE => part = "postal_code"
      BY <3>1, <3>2, <3>4 DEF AcceptsNested
    <3>6. AcceptsNested(f, new ++ old)
      BY <3>2, <3>3, <3>5 DEF AcceptsNested
    <3> QED
      BY <2>1, <3>1, <3>2, <3>6
  <2> QED
    BY <2>2, <2>3
<1>2. ASSUME NEW s \in DOMAIN Fields, NEW f \in Fields[s] PROVE Accepts(s, f, next[s][f])
  <2>1. Accepts(s, f, view[s][f]) /\ (Has(patch, s, f) => Accepts(s, f, patch[s][f]))
    BY DEF IsCreation, IsPatch, Has
  <2>2. next[s][f] = IF Has(patch, s, f) THEN PatchField(s, f, view[s][f], patch[s][f])
                     ELSE view[s][f]
    BY SectionsPatched
  <2> HIDE DEF next
  <2>3. CASE f \in DOMAIN Nested
    <3>1. f \notin DOMAIN Items /\ f \notin {"registered_at", "last_login_at", "latitude", "longitude"}
      BY <2>3, NestedFields, ItemFields
    <3> QED
      BY <1>1, <2>3, <3>1 DEF Accepts, AcceptsValue
  <2>4. CASE f \notin DOMAIN Nested /\ s # "extensions"
    BY <2>1, <2>2, <2>4, FieldPatched
  <2>5. CASE f \notin DOMAIN Nested /\ s = "extensions"
    <3>1. f \in {"parameters", "extra_data"}
      BY <2>5, SectionFields DEF OperationsFields
    <3> QED
      BY <2>5, <3>1, NullableFields, ItemFields DEF Accepts, AcceptsValue
  <2> QED
    BY <2>3, <2>4, <2>5
<1>3. DOMAIN next = DOMAIN Fields /\ \A s \in DOMAIN Fields : DOMAIN next[s] = Fields[s]
  BY SectionsPatched
<1> HIDE DEF next
<1>4. IsCreation(next)
  BY <1>1, <1>2, <1>3 DEF IsCreation, IsPatch
<1> QED
  BY <1>4 DEF next

-----------------------------------------------------------------------------
(* The invariant: the row is the one that would be created from the         *)
(* customer as it is in memory, except where another program wrote last.    *)

AllColumns == DirectColumns \cup SpecialColumns

Breakable == DOMAIN LegacyValues \cup {"delivery_address"}

LegacyValue(column) == IF column = "delivery_address" THEN NONE ELSE LegacyValues[column]

\* The codes of the customer have ids.
Coded(c) ==
  /\ AgentId(c.commercial.assigned_agent) # NONE
  /\ \A i \in DOMAIN c.commercial.preferred_categories :
       c.commercial.preferred_categories[i].code \in DOMAIN CategoryIds
  /\ c.commercial.sales_channel # NONE =>
       /\ c.commercial.sales_channel.code \in DOMAIN ChannelIds
       /\ ChannelIds[c.commercial.sales_channel.code] # NONE
  /\ \A i \in DOMAIN c.shop.groups : c.shop.groups[i].code \in DOMAIN GroupIds

InStep ==
  /\ IsCreation(view) /\ Coded(view)
  /\ DOMAIN row = AllColumns
  /\ \A column \in AllColumns \ broken : row[column] = CreatedRow(view)[column]
  /\ broken \subseteq Breakable
  /\ \A column \in broken : row[column] = LegacyValue(column)
  /\ "delivery_address" \in broken => view.delivery.address # NONE

TablesOK ==
  DOMAIN tables = DOMAIN Tables /\ \A kind \in DOMAIN Tables : NONE \notin tables[kind]

IInv ==
  /\ TablesOK
  /\ row = NONE => broken = {}
  /\ row # NONE => InStep
  /\ BackendsAgree

LEMMA CreatedSpecially ==
  ASSUME NEW c
  PROVE  LET created == CreatedRow(c)
             address == c.delivery.address
             channel == c.commercial.sales_channel
         IN
         /\ created.login = Strip(c.credentials.login)
         /\ created.region_id = RegionId(c.billing_address)
         /\ created.delivery_address = IF address = NONE THEN NONE ELSE address.street
         /\ created.delivery_city = IF address = NONE THEN NONE ELSE address.city
         /\ created.delivery_zip_code = IF address = NONE THEN NONE ELSE address.postal_code
         /\ created.delivery_region_id = IF address = NONE THEN NONE ELSE RegionId(address)
         /\ created.agent_id = AgentId(c.commercial.assigned_agent)
         /\ created.preferred_categories = CategoryIdsOf(c.commercial.preferred_categories)
         /\ created.sales_channel_id = IF channel = NONE THEN NONE ELSE ChannelIds[channel.code]
         /\ created.preferred_payment_type = c.commercial.preferred_payment_type_code
         /\ created.shop_group_ids = GroupIdsOf(c.shop.groups)
         /\ created.notes = NotesJson(c.notes.items)
         /\ created.notes_open = OpenNotesCount(c.notes.items)
         /\ created.parameters = Extension(c.extensions.parameters)
         /\ created.extra_data = Extension(c.extensions.extra_data)
<1> DEFINE V == CreateValues(c)
           R == ReferenceValues(c)
           address == c.delivery.address
           channel == c.commercial.sales_channel
<1>1. /\ {"login", "delivery_address", "delivery_city", "delivery_zip_code", "notes",
          "notes_open", "parameters", "extra_data"} \subseteq DOMAIN V
      /\ DOMAIN V \cap {"region_id", "delivery_region_id", "agent_id", "preferred_categories",
                        "sales_channel_id", "preferred_payment_type", "shop_group_ids"} = {}
  BY DEF CreateValues
<1>2. /\ V.login = Strip(c.credentials.login)
      /\ V.notes = NotesJson(c.notes.items)
      /\ V.notes_open = OpenNotesCount(c.notes.items)
      /\ V.parameters = Extension(c.extensions.parameters)
      /\ V.extra_data = Extension(c.extensions.extra_data)
  BY DEF CreateValues
<1>3. /\ V.delivery_address = IF address = NONE THEN NONE ELSE address.street
      /\ V.delivery_city = IF address = NONE THEN NONE ELSE address.city
      /\ V.delivery_zip_code = IF address = NONE THEN NONE ELSE address.postal_code
  BY DEF CreateValues
<1>4. /\ DOMAIN R = {"region_id", "delivery_region_id", "agent_id", "preferred_categories",
                     "sales_channel_id", "preferred_payment_type", "shop_group_ids"}
      /\ R.region_id = RegionId(c.billing_address)
      /\ R.delivery_region_id = IF address = NONE THEN NONE ELSE RegionId(address)
      /\ R.agent_id = AgentId(c.commercial.assigned_agent)
      /\ R.preferred_categories = CategoryIdsOf(c.commercial.preferred_categories)
      /\ R.sales_channel_id = IF channel = NONE THEN NONE ELSE ChannelIds[channel.code]
      /\ R.preferred_payment_type = c.commercial.preferred_payment_type_code
      /\ R.shop_group_ids = GroupIdsOf(c.shop.groups)
  BY DEF ReferenceValues
<1>5. CreatedRow(c) = V ++ R
  BY DEF CreatedRow
<1> HIDE DEF V, R
<1>6. /\ \A x \in DOMAIN V : (V ++ R)[x] = V[x]
      /\ \A x \in DOMAIN R \ DOMAIN V : (V ++ R)[x] = R[x]
  BY Over
<1> QED
  BY <1>1, <1>2, <1>3, <1>4, <1>5, <1>6

LEMMA SpecialFields ==
  /\ {"login", "password"} \subseteq Fields["credentials"]
  /\ {"street", "city", "postal_code", "country_code", "region_name"} = Fields["billing_address"]
  /\ "address" \in Fields["delivery"]
  /\ {"preferred_categories", "sales_channel", "assigned_agent", "preferred_payment_type_code"}
       \subseteq Fields["commercial"]
  /\ "groups" \in Fields["shop"] /\ "items" \in Fields["notes"]
  /\ {"parameters", "extra_data"} = Fields["extensions"]
  /\ {"credentials", "billing_address", "delivery", "commercial", "shop", "notes", "extensions"}
       \subseteq DOMAIN Fields
BY SectionFields DEF ProfileFields, AddressFields, DeliveryFields, CommercialFields,
   OperationsFields

\* The three columns from which the checks learn whether an address, a channel
\* and a region are there.
LEMMA RowTells ==
  ASSUME NoneIsAtom, InStep
  PROVE  /\ view.delivery.address = NONE => row.delivery_address = NONE
         /\ "delivery_address" \notin broken =>
              (row.delivery_address = NONE => view.delivery.address = NONE)
         /\ row.delivery_region_id =
              IF view.delivery.address = NONE THEN NONE ELSE RegionId(view.delivery.address)
         /\ row.delivery_region_id = NONE => view.delivery.address = NONE
         /\ row.sales_channel_id = NONE <=> view.commercial.sales_channel = NONE
         /\ "region_id" \notin broken => row.region_id = RegionId(view.billing_address)
         /\ "region_id" \notin broken => row.region_id # NONE
<1> DEFINE address == view.delivery.address
<1>1. ASSUME address # NONE PROVE address.street # NONE
  <2>1. AcceptsNested("address", address) /\ DOMAIN address = AddressFields
    BY <1>1, SpecialFields, NestedFields DEF InStep, IsCreation, IsPatch, Accepts, AcceptsValue
  <2> HIDE DEF address
  <2> QED
    BY <2>1 DEF AcceptsNested, AddressFields
<1>2. ASSUME NEW c PROVE RegionId(c) # NONE
  BY DEF RegionId, NoneIsAtom
<1>3. {"delivery_address", "delivery_region_id", "sales_channel_id", "region_id"} \subseteq AllColumns
  BY DEF AllColumns, SpecialColumns
<1>4. /\ "delivery_region_id" \notin broken /\ "sales_channel_id" \notin broken
      /\ "delivery_address" \in broken => row.delivery_address = NONE
  BY DEF InStep, Breakable, LegacyValues, LegacyValue
<1>5. /\ row.delivery_region_id = CreatedRow(view).delivery_region_id
      /\ row.sales_channel_id = CreatedRow(view).sales_channel_id
      /\ "delivery_address" \notin broken =>
           row.delivery_address = CreatedRow(view).delivery_address
      /\ "region_id" \notin broken => row.region_id = CreatedRow(view).region_id
  BY <1>3, <1>4 DEF InStep
<1>6. /\ view.delivery.address = NONE => row.delivery_address = NONE
      /\ "delivery_address" \notin broken =>
           (row.delivery_address = NONE => view.delivery.address = NONE)
  BY <1>1, <1>4, <1>5, CreatedSpecially
<1>7. /\ row.delivery_region_id =
           IF view.delivery.address = NONE THEN NONE ELSE RegionId(view.delivery.address)
      /\ row.delivery_region_id = NONE => view.delivery.address = NONE
  BY <1>2, <1>5, CreatedSpecially
<1>8. row.sales_channel_id = NONE <=> view.commercial.sales_channel = NONE
  BY <1>5, CreatedSpecially DEF InStep, Coded
<1>9. "region_id" \notin broken => row.region_id = RegionId(view.billing_address)
  BY <1>5, CreatedSpecially
<1> QED
  BY <1>2, <1>6, <1>7, <1>8, <1>9

-----------------------------------------------------------------------------
(* The two answers to a patch.                                             *)

LEMMA MemoryAnswers ==
  ASSUME NEW patch
  PROVE  MemoryAnswer(patch) \in {200, 409}
BY DEF MemoryAnswer

LEMMA AcceptedInMemory ==
  ASSUME NoneIsAtom, InStep, NEW patch, IsPatch(patch), Fits(patch, row)
  PROVE  MemoryAnswer(patch) = 200
<1> SUFFICES ASSUME NEW s \in DOMAIN patch, NEW f \in DOMAIN patch[s],
                    CreatesNested(f, view[s][f], patch[s][f]),
                    DOMAIN patch[s][f] # Nested[f]
             PROVE  FALSE
  BY DEF MemoryAnswer
<1>1. /\ s \in DOMAIN Fields /\ f \in Fields[s] /\ f \in DOMAIN Nested
      /\ patch[s][f] # NONE /\ view[s][f] = NONE /\ Given(patch, s, f)
      /\ AcceptsNested(f, patch[s][f])
  BY DEF CreatesNested, IsPatch, Given, Has, Accepts, AcceptsValue
<1>2. CASE f = "address"
  <2>1. s = "delivery"
    BY <1>1, <1>2, PlaceOfField
  <2> QED
    BY <1>1, <1>2, <2>1, RowTells, NestedFields DEF Fits
<1>3. CASE f = "sales_channel"
  <2>1. s = "commercial"
    BY <1>1, <1>3, PlaceOfField
  <2> QED
    BY <1>1, <1>3, <2>1, RowTells DEF Fits
<1>4. CASE f = "assigned_agent"
  BY <1>1, <1>4 DEF AcceptsNested
<1> QED
  BY <1>1, <1>2, <1>3, <1>4, NestedFields

LEMMA ConflictInMemory ==
  ASSUME NoneIsAtom, InStep, broken = {}, NEW patch, IsPatch(patch), Conflicts(patch, row)
  PROVE  MemoryAnswer(patch) = 409
<1>1. row.region_id # NONE
  BY RowTells
<1>2. CASE /\ Given(patch, "delivery", "address")
           /\ \/ row.delivery_address = NONE /\ DOMAIN patch.delivery.address # AddressFields
              \/ row.delivery_region_id = NONE
                 /\ ~(RegionFields \subseteq DOMAIN patch.delivery.address)
  <2>1. view.delivery.address = NONE /\ DOMAIN patch.delivery.address # Nested["address"]
    BY <1>2, RowTells, NestedFields DEF RegionFields, AddressFields
  <2> QED
    BY <1>2, <2>1, NestedFields DEF MemoryAnswer, CreatesNested, Given, Has
<1>3. CASE /\ Given(patch, "commercial", "sales_channel")
           /\ row.sales_channel_id = NONE
           /\ DOMAIN patch.commercial.sales_channel # Nested.sales_channel
  <2>1. view.commercial.sales_channel = NONE
    BY <1>3, RowTells
  <2> QED
    BY <1>3, <2>1, NestedFields DEF MemoryAnswer, CreatesNested, Given, Has
<1> QED
  BY <1>1, <1>2, <1>3 DEF Conflicts

-----------------------------------------------------------------------------
(* A patch writes the columns that it changes in the customer in memory, as *)
(* the creation of the new customer would write them.                       *)

LEMMA DirectPlaces ==
  ASSUME NEW column \in DirectColumns
  PROVE  /\ SectionOf(column) \in DOMAIN Fields /\ SectionOf(column) # "extensions"
         /\ PartOf(column) \in Fields[SectionOf(column)]
         /\ PartOf(column) \notin DOMAIN Nested
<1> DEFINE s == SectionOf(column)
           f == PartOf(column)
<1>1. s \in DOMAIN DirectFields /\ f \in DOMAIN DirectFields[s]
  BY FieldOfColumn
<1> HIDE DEF s, f
<1>2. s \in DOMAIN Fields /\ s # "extensions"
  BY <1>1, DirectSections, SectionFields
<1>3. f \in Fields[s]
  BY <1>1, DirectSections, SectionFields
  DEF DirectFields, ProfileFields, FinanceFields, CommercialFields, OperationsFields,
      AddressFields, DeliveryFields
<1>4. f \notin DOMAIN Nested
  BY <1>1, DirectSections, NestedFields DEF DirectFields
<1> QED
  BY <1>2, <1>3, <1>4 DEF s, f

\* A field without a rule of its own is replaced.
LEMMA PlainPatched ==
  ASSUME IsCreation(view), NEW patch, IsPatch(patch),
         NEW s \in DOMAIN Fields, NEW f \in Fields[s], s # "extensions", f \notin DOMAIN Nested
  PROVE  ApplyPatch(patch)[s][f] = IF Has(patch, s, f) THEN patch[s][f] ELSE view[s][f]
BY SectionsPatched, FieldPatched

\* The column holds what the creation of the new customer would write.
Follows(column, patch, values) ==
  LET created == CreatedRow(ApplyPatch(patch))[column] IN
  /\ column \in DOMAIN values => values[column] = created
  /\ column \notin DOMAIN values => created = CreatedRow(view)[column]

LEMMA DirectFollows ==
  ASSUME IsCreation(view), NEW patch, IsPatch(patch), NEW column \in DirectColumns
  PROVE  Follows(column, patch, UpdateValues(patch, row))
<1> DEFINE s == SectionOf(column)
           f == PartOf(column)
           values == UpdateValues(patch, row)
           next == ApplyPatch(patch)
<1>1. next[s][f] = IF Has(patch, s, f) THEN patch[s][f] ELSE view[s][f]
  BY PlainPatched, DirectPlaces
<1>2. /\ CreatedRow(next)[column] = ConvertValue(f, next[s][f])
      /\ CreatedRow(view)[column] = ConvertValue(f, view[s][f])
  BY CreatedDirectly
<1>3. /\ column \in DOMAIN values <=> Has(patch, s, f)
      /\ Has(patch, s, f) => values[column] = ConvertValue(f, patch[s][f])
  BY Patched
<1> HIDE DEF s, f, next, values
<1>4. /\ column \in DOMAIN values => values[column] = CreatedRow(next)[column]
      /\ column \notin DOMAIN values => CreatedRow(next)[column] = CreatedRow(view)[column]
  BY <1>1, <1>2, <1>3
<1> QED
  BY <1>4 DEF Follows, values, next

LEMMA PlainSpecials ==
  ASSUME IsCreation(view), NEW patch, IsPatch(patch)
  PROVE  LET next == ApplyPatch(patch)
             plain(s, f) == next[s][f] = IF Has(patch, s, f) THEN patch[s][f] ELSE view[s][f]
         IN /\ plain("credentials", "login")
            /\ plain("billing_address", "country_code")
            /\ plain("billing_address", "region_name")
            /\ plain("commercial", "preferred_categories")
            /\ plain("commercial", "preferred_payment_type_code")
            /\ plain("shop", "groups") /\ plain("notes", "items")
<1> DEFINE plain(s, f) ==
             ApplyPatch(patch)[s][f] = IF Has(patch, s, f) THEN patch[s][f] ELSE view[s][f]
<1>1. \A s \in DOMAIN Fields : \A f \in Fields[s] :
         s # "extensions" /\ f \notin DOMAIN Nested => plain(s, f)
  BY PlainPatched
<1> HIDE DEF plain
<1>2. /\ plain("credentials", "login")
      /\ plain("billing_address", "country_code")
      /\ plain("billing_address", "region_name")
      /\ plain("commercial", "preferred_categories")
      /\ plain("commercial", "preferred_payment_type_code")
      /\ plain("shop", "groups") /\ plain("notes", "items")
  BY <1>1, SpecialFields, NestedFields
<1> QED
  BY <1>2 DEF plain

LEMMA PlainFollow ==
  ASSUME IsCreation(view), NEW patch, IsPatch(patch),
         NEW column \in {"login", "preferred_categories", "preferred_payment_type",
                         "shop_group_ids", "notes", "notes_open"}
  PROVE  Follows(column, patch, UpdateValues(patch, row))
<1> DEFINE values == UpdateValues(patch, row)
           next == ApplyPatch(patch)
           new(s, f) == IF Has(patch, s, f) THEN patch[s][f] ELSE view[s][f]
<1>1. /\ next.credentials.login = new("credentials", "login")
      /\ next.commercial.preferred_categories = new("commercial", "preferred_categories")
      /\ next.commercial.preferred_payment_type_code =
           new("commercial", "preferred_payment_type_code")
      /\ next.shop.groups = new("shop", "groups") /\ next.notes.items = new("notes", "items")
  BY PlainSpecials
<1>2. /\ "notes" \in DOMAIN values <=> Has(patch, "notes", "items")
      /\ "notes_open" \in DOMAIN values <=> Has(patch, "notes", "items")
      /\ Has(patch, "notes", "items") =>
           /\ values.notes = NotesJson(patch.notes.items)
           /\ values.notes_open = OpenNotesCount(patch.notes.items)
      /\ ReferencesPatched(patch, row, values)
  BY Patched
<1> HIDE DEF next, values
<1>3. /\ "login" \in DOMAIN values <=> Has(patch, "credentials", "login")
      /\ Has(patch, "credentials", "login") => values.login = Strip(patch.credentials.login)
      /\ "preferred_categories" \in DOMAIN values <=>
           Has(patch, "commercial", "preferred_categories")
      /\ Has(patch, "commercial", "preferred_categories") =>
           values.preferred_categories = CategoryIdsOf(patch.commercial.preferred_categories)
      /\ "preferred_payment_type" \in DOMAIN values <=>
           Has(patch, "commercial", "preferred_payment_type_code")
      /\ Has(patch, "commercial", "preferred_payment_type_code") =>
           values.preferred_payment_type = patch.commercial.preferred_payment_type_code
      /\ "shop_group_ids" \in DOMAIN values <=> Has(patch, "shop", "groups")
      /\ Has(patch, "shop", "groups") => values.shop_group_ids = GroupIdsOf(patch.shop.groups)
  BY <1>2 DEF ReferencesPatched
<1>4. ASSUME NEW c
      PROVE  /\ CreatedRow(c).login = Strip(c.credentials.login)
             /\ CreatedRow(c).preferred_categories =
                  CategoryIdsOf(c.commercial.preferred_categories)
             /\ CreatedRow(c).preferred_payment_type = c.commercial.preferred_payment_type_code
             /\ CreatedRow(c).shop_group_ids = GroupIdsOf(c.shop.groups)
             /\ CreatedRow(c).notes = NotesJson(c.notes.items)
             /\ CreatedRow(c).notes_open = OpenNotesCount(c.notes.items)
  BY CreatedSpecially
<1>5. /\ column \in DOMAIN values => values[column] = CreatedRow(next)[column]
      /\ column \notin DOMAIN values => CreatedRow(next)[column] = CreatedRow(view)[column]
  <2>1. CASE column = "login"
    BY <1>1, <1>3, <1>4, <2>1
  <2>2. CASE column = "preferred_categories"
    BY <1>1, <1>3, <1>4, <2>2
  <2>3. CASE column = "preferred_payment_type"
    BY <1>1, <1>3, <1>4, <2>3
  <2>4. CASE column = "shop_group_ids"
    BY <1>1, <1>3, <1>4, <2>4
  <2>5. CASE column \in {"notes", "notes_open"}
    BY <1>1, <1>2, <1>4, <2>5
  <2> QED
    BY <2>1, <2>2, <2>3, <2>4, <2>5
<1> QED
  BY <1>5 DEF Follows, values, next

\* The region that another program cleared is patched as a whole.
LEMMA RegionFollows ==
  ASSUME NoneIsAtom, InStep, NEW patch, IsPatch(patch), Fits(patch, row)
  PROVE  Follows("region_id", patch, UpdateValues(patch, row))
<1> DEFINE values == UpdateValues(patch, row)
           next == ApplyPatch(patch)
           given == patch.billing_address
           new(f) == IF Has(patch, "billing_address", f) THEN given[f]
                     ELSE view.billing_address[f]
<1>1. /\ next.billing_address.country_code = new("country_code")
      /\ next.billing_address.region_name = new("region_name")
  BY PlainSpecials DEF InStep
<1>2. /\ "region_id" \in DOMAIN values <=>
           "billing_address" \in DOMAIN patch /\ PatchesRegion(given)
      /\ "region_id" \in DOMAIN values => values.region_id = PatchedRegion(given, row.region_id)
  <2>1. ReferencesPatched(patch, row, values)
    BY Patched
  <2> QED
    BY <2>1 DEF ReferencesPatched
<1>3. /\ CreatedRow(next).region_id = RegionId(next.billing_address)
      /\ CreatedRow(view).region_id = RegionId(view.billing_address)
  BY CreatedSpecially
<1>4. row.region_id = RegionId(view.billing_address) \/ row.region_id = NONE
  BY RowTells DEF InStep, LegacyValue, LegacyValues
<1>5. "region_id" \in DOMAIN values =>
        row.region_id = RegionId(view.billing_address) \/ RegionFields \subseteq DOMAIN given
  BY <1>2, <1>4 DEF Fits
<1> HIDE DEF values, next
<1>6. ASSUME "region_id" \in DOMAIN values
      PROVE  values.region_id = CreatedRow(next).region_id
  BY <1>1, <1>2, <1>3, <1>5, <1>6 DEF PatchedRegion, RegionId, RegionFields, Has
<1>7. ASSUME "region_id" \notin DOMAIN values
      PROVE  CreatedRow(next).region_id = CreatedRow(view).region_id
  BY <1>1, <1>2, <1>3, <1>7 DEF PatchesRegion, RegionId, RegionFields, Has
<1> QED
  BY <1>6, <1>7 DEF Follows, values, next

LEMMA AgentFollows ==
  ASSUME NoneIsAtom, InStep, NEW patch, IsPatch(patch), MemoryAnswer(patch) = 200
  PROVE  Follows("agent_id", patch, UpdateValues(patch, row))
<1> DEFINE values == UpdateValues(patch, row)
           next == ApplyPatch(patch)
           old == view.commercial.assigned_agent
           new == next.commercial.assigned_agent
           given == patch.commercial.assigned_agent
<1>1. /\ ~Has(patch, "commercial", "assigned_agent") => new = old
      /\ Has(patch, "commercial", "assigned_agent") /\ given = NONE => new = NONE
      /\ Given(patch, "commercial", "assigned_agent") =>
           /\ new \in {given, given ++ old}
           /\ DOMAIN given = Nested["assigned_agent"]
  BY NestedPatched, SpecialFields, NestedFields DEF InStep, AcceptsNested
<1>2. /\ "agent_id" \in DOMAIN values <=> Has(patch, "commercial", "assigned_agent")
      /\ Has(patch, "commercial", "assigned_agent") => values.agent_id = AgentId(given)
  <2>1. ReferencesPatched(patch, row, values)
    BY Patched
  <2> QED
    BY <2>1 DEF ReferencesPatched
<1>3. CreatedRow(next).agent_id = AgentId(new) /\ CreatedRow(view).agent_id = AgentId(old)
  BY CreatedSpecially
<1> HIDE DEF values, next, old, new, given
<1>4. ASSUME Given(patch, "commercial", "assigned_agent"), given # NONE
      PROVE  AgentId(new) = AgentId(given)
  <2>1. (given ++ old) # NONE /\ (given ++ old).reference_id = given.reference_id
    BY <1>1, <1>4, NestedFields DEF ++, NoneIsAtom
  <2> QED
    BY <1>1, <1>4, <2>1 DEF AgentId
<1>5. Has(patch, "commercial", "assigned_agent") => AgentId(new) = AgentId(given)
  BY <1>1, <1>4 DEF Given, given
<1> QED
  BY <1>1, <1>2, <1>3, <1>5 DEF Follows, values, next

LEMMA ChannelFollows ==
  ASSUME NoneIsAtom, InStep, NEW patch, IsPatch(patch), MemoryAnswer(patch) = 200
  PROVE  /\ Follows("sales_channel_id", patch, UpdateValues(patch, row))
         /\ LET channel == ApplyPatch(patch).commercial.sales_channel
                given == patch.commercial.sales_channel
            IN channel # NONE =>
                 \/ /\ Given(patch, "commercial", "sales_channel")
                    /\ "code" \in DOMAIN given /\ channel.code = given.code
                 \/ /\ view.commercial.sales_channel # NONE
                    /\ channel.code = view.commercial.sales_channel.code
<1> DEFINE values == UpdateValues(patch, row)
           next == ApplyPatch(patch)
           old == view.commercial.sales_channel
           new == next.commercial.sales_channel
           given == patch.commercial.sales_channel
           has == Has(patch, "commercial", "sales_channel")
<1>1. /\ ~has => new = old
      /\ has /\ given = NONE => new = NONE
      /\ has /\ given # NONE /\ old = NONE => new = given /\ DOMAIN given = {"code", "label"}
      /\ has /\ given # NONE /\ old # NONE => new = given ++ old
      /\ old # NONE => DOMAIN old = {"code", "label"}
  BY NestedPatched, SpecialFields, NestedFields DEF InStep, Given
<1>2. /\ "sales_channel_id" \in DOMAIN values <=>
           has /\ (given # NONE => "code" \in DOMAIN given)
      /\ "sales_channel_id" \in DOMAIN values =>
           values.sales_channel_id = IF given = NONE THEN NONE ELSE ChannelIds[given.code]
  <2>1. ReferencesPatched(patch, row, values)
    BY Patched
  <2> QED
    BY <2>1 DEF ReferencesPatched
<1>3. /\ CreatedRow(next).sales_channel_id = IF new = NONE THEN NONE ELSE ChannelIds[new.code]
      /\ CreatedRow(view).sales_channel_id = IF old = NONE THEN NONE ELSE ChannelIds[old.code]
  BY CreatedSpecially
<1> HIDE DEF values, next, old, new, given, has
<1>4. /\ (given ++ old) # NONE
      /\ "code" \in DOMAIN given => (given ++ old).code = given.code
      /\ "code" \in DOMAIN old /\ "code" \notin DOMAIN given => (given ++ old).code = old.code
  BY DEF ++, NoneIsAtom
<1>5. /\ new = NONE => IF has THEN given = NONE ELSE old = NONE
      /\ new # NONE => \/ has /\ given # NONE /\ "code" \in DOMAIN given /\ new.code = given.code
                       \/ /\ old # NONE /\ new.code = old.code
                          /\ has => given # NONE /\ "code" \notin DOMAIN given
  BY <1>1, <1>4
<1>6. Follows("sales_channel_id", patch, values)
  BY <1>1, <1>2, <1>3, <1>5 DEF Follows, next
<1> QED
  BY <1>5, <1>6 DEF values, next, old, new, given, has, Given

LEMMA JsonFollows ==
  ASSUME NoneIsAtom, InStep, NEW patch, IsPatch(patch), Fits(patch, row),
         NEW column \in {"parameters", "extra_data"}
  PROVE  Follows(column, patch, UpdateValues(patch, row))
<1> DEFINE values == UpdateValues(patch, row)
           next == ApplyPatch(patch)
           old == view.extensions[column]
           new == next.extensions[column]
           given == patch.extensions[column]
           has == Has(patch, "extensions", column)
<1>1. column \notin DOMAIN Nested /\ column \in Fields["extensions"]
  BY NestedFields, SpecialFields
<1>2. /\ ~has => new = old
      /\ has /\ given = NONE => new = NONE
      /\ has /\ given # NONE => new = MergeJson(IF old = NONE THEN Nothing ELSE old, given)
  BY <1>1, SectionsPatched, FieldPatched, MergeMemory, SpecialFields DEF InStep
<1>3. /\ column \in DOMAIN values <=> has
      /\ has => values[column] = IF given = NONE THEN NONE
                   ELSE Extension(MergeJson(IF row[column] = NONE THEN Nothing
                                            ELSE row[column].object, given))
  <2>1. JsonPatched(patch, row, values)
    BY Patched
  <2> QED
    BY <2>1 DEF JsonPatched
<1>4. CreatedRow(next)[column] = Extension(new) /\ CreatedRow(view)[column] = Extension(old)
  BY CreatedSpecially
<1>5. column \in broken => row[column] = [leaf |-> 0]
  BY DEF InStep, Breakable, LegacyValue, LegacyValues
<1>6. column \notin broken => row[column] = Extension(old)
  BY <1>4 DEF InStep, AllColumns, SpecialColumns
<1>7. has /\ given # NONE => row[column] = NONE \/ IsObject(row[column])
  BY DEF Fits, Given
<1> HIDE DEF values, next, old, new, given, has
<1>8. has /\ given # NONE => row[column] = Extension(old)
  BY <1>5, <1>6, <1>7 DEF IsObject, NoneIsAtom
<1>9. /\ Extension(old) = NONE => old = NONE
      /\ old = NONE => Extension(old) = NONE
      /\ old # NONE => Extension(old).object = old
  BY DEF Extension, NoneIsAtom
<1>10. has /\ given # NONE => values[column] = Extension(new)
  BY <1>2, <1>3, <1>8, <1>9
<1>11. has /\ given = NONE => values[column] = Extension(new)
  BY <1>2, <1>3 DEF Extension
<1> QED
  BY <1>2, <1>3, <1>4, <1>10, <1>11 DEF Follows, values, next

LEMMA AddressFollows ==
  ASSUME NoneIsAtom, InStep, NEW patch, IsPatch(patch), Fits(patch, row),
         MemoryAnswer(patch) = 200, NEW column \in AddressColumns
  PROVE  Follows(column, patch, UpdateValues(patch, row))
<1> DEFINE values == UpdateValues(patch, row)
           next == ApplyPatch(patch)
           old == view.delivery.address
           new == next.delivery.address
           given == patch.delivery.address
           has == Has(patch, "delivery", "address")
           delivered == DeliveryUpdateValues(given, row)
           region == row.delivery_region_id
<1>1. /\ ~has => new = old
      /\ has /\ given = NONE => new = NONE
      /\ has /\ given # NONE /\ old = NONE => new = given /\ DOMAIN given = AddressFields
      /\ has /\ given # NONE /\ old # NONE => new = given ++ old
      /\ old # NONE => DOMAIN old = AddressFields
      /\ has /\ given # NONE => DOMAIN given \subseteq AddressFields
  BY NestedPatched, SpecialFields, NestedFields DEF InStep, Given, AcceptsNested
<1>2. /\ column \in DOMAIN values <=> has /\ column \in DOMAIN delivered
      /\ column \in DOMAIN values => values[column] = delivered[column]
  <2>1. ReferencesPatched(patch, row, values)
    BY Patched
  <2> QED
    BY <2>1 DEF ReferencesPatched
<1>3. /\ DOMAIN delivered \subseteq AddressColumns
      /\ given = NONE => /\ DOMAIN delivered = AddressColumns
                         /\ \A c \in AddressColumns : delivered[c] = NONE
      /\ given # NONE =>
           /\ "delivery_address" \in DOMAIN delivered <=> "street" \in DOMAIN given
           /\ "delivery_city" \in DOMAIN delivered <=> "city" \in DOMAIN given
           /\ "delivery_zip_code" \in DOMAIN delivered <=> "postal_code" \in DOMAIN given
           /\ "delivery_region_id" \in DOMAIN delivered <=> PatchesRegion(given)
           /\ "street" \in DOMAIN given => delivered.delivery_address = given.street
           /\ "city" \in DOMAIN given => delivered.delivery_city = given.city
           /\ "postal_code" \in DOMAIN given =>
                delivered.delivery_zip_code = given.postal_code
           /\ PatchesRegion(given) =>
                delivered.delivery_region_id = PatchedRegion(given, region)
  BY AddressPatched
<1>4. ASSUME NEW c
      PROVE  LET address == c.delivery.address IN
             /\ CreatedRow(c).delivery_address = IF address = NONE THEN NONE ELSE address.street
             /\ CreatedRow(c).delivery_city = IF address = NONE THEN NONE ELSE address.city
             /\ CreatedRow(c).delivery_zip_code =
                  IF address = NONE THEN NONE ELSE address.postal_code
             /\ CreatedRow(c).delivery_region_id =
                  IF address = NONE THEN NONE ELSE RegionId(address)
  BY CreatedSpecially
<1>5. /\ CreatedRow(next).delivery_address = IF new = NONE THEN NONE ELSE new.street
      /\ CreatedRow(next).delivery_city = IF new = NONE THEN NONE ELSE new.city
      /\ CreatedRow(next).delivery_zip_code = IF new = NONE THEN NONE ELSE new.postal_code
      /\ CreatedRow(next).delivery_region_id = IF new = NONE THEN NONE ELSE RegionId(new)
  BY <1>4
<1>6. /\ CreatedRow(view).delivery_address = IF old = NONE THEN NONE ELSE old.street
      /\ CreatedRow(view).delivery_city = IF old = NONE THEN NONE ELSE old.city
      /\ CreatedRow(view).delivery_zip_code = IF old = NONE THEN NONE ELSE old.postal_code
      /\ CreatedRow(view).delivery_region_id = IF old = NONE THEN NONE ELSE RegionId(old)
  BY <1>4
<1>7. old # NONE => region = RegionId(old)
  BY RowTells
<1>8. /\ (given ++ old) # NONE
      /\ DOMAIN (given ++ old) = DOMAIN given \cup DOMAIN old
      /\ \A x \in DOMAIN given : (given ++ old)[x] = given[x]
      /\ \A x \in DOMAIN old \ DOMAIN given : (given ++ old)[x] = old[x]
  BY Over DEF ++, NoneIsAtom
<1> HIDE DEF values, next, old, new, given, has, delivered, region
<1>9. /\ column \in DOMAIN values => values[column] = CreatedRow(next)[column]
      /\ column \notin DOMAIN values => CreatedRow(next)[column] = CreatedRow(view)[column]
  <2>1. column \in {"delivery_address", "delivery_city", "delivery_zip_code",
                    "delivery_region_id"}
    BY DEF AddressColumns
  <2>2. CASE ~has
    BY <1>1, <1>2, <1>5, <1>6, <2>1, <2>2
  <2>3. CASE has /\ given = NONE
    BY <1>1, <1>2, <1>3, <1>5, <2>1, <2>3
  <2>4. CASE has /\ given # NONE /\ old = NONE
    <3>1. /\ {"street", "city", "postal_code"} \subseteq DOMAIN given
          /\ PatchesRegion(given) /\ PatchedRegion(given, region) = RegionId(given)
      BY <1>1, <2>4 DEF AddressFields, PatchesRegion, RegionFields, PatchedRegion, RegionId
    <3> QED
      BY <1>1, <1>2, <1>3, <1>5, <2>1, <2>4, <3>1
  <2>5. CASE has /\ given # NONE /\ old # NONE
    <3>1. new = given ++ old /\ new # NONE
      BY <1>1, <1>8, <2>5
    <3>2. /\ new.street = IF "street" \in DOMAIN given THEN given.street ELSE old.street
          /\ new.city = IF "city" \in DOMAIN given THEN given.city ELSE old.city
          /\ new.postal_code = IF "postal_code" \in DOMAIN given THEN given.postal_code
                               ELSE old.postal_code
          /\ new.country_code = IF "country_code" \in DOMAIN given THEN given.country_code
                                ELSE old.country_code
          /\ new.region_name = IF "region_name" \in DOMAIN given THEN given.region_name
                               ELSE old.region_name
      BY <1>1, <1>8, <2>5, <3>1 DEF AddressFields
    <3>3. /\ PatchesRegion(given) => RegionId(new) = PatchedRegion(given, region)
          /\ ~PatchesRegion(given) => RegionId(new) = RegionId(old)
      BY <1>7, <2>5, <3>2 DEF PatchesRegion, RegionFields, PatchedRegion, RegionId
    <3> QED
      BY <1>2, <1>3, <1>5, <1>6, <2>1, <2>5, <3>1, <3>2, <3>3
  <2> QED
    BY <2>2, <2>3, <2>4, <2>5
<1> QED
  BY <1>9 DEF Follows, values, next

LEMMA AllFollow ==
  ASSUME NoneIsAtom, InStep, NEW patch, IsPatch(patch), Fits(patch, row),
         NEW column \in AllColumns
  PROVE  Follows(column, patch, UpdateValues(patch, row))
<1>1. MemoryAnswer(patch) = 200 /\ IsCreation(view)
  BY AcceptedInMemory DEF InStep
<1>2. CASE column \in DirectColumns
  BY <1>1, <1>2, DirectFollows
<1>3. CASE column \in {"login", "preferred_categories", "preferred_payment_type",
                       "shop_group_ids", "notes", "notes_open"}
  BY <1>1, <1>3, PlainFollow
<1>4. CASE column \in AddressColumns
  BY <1>1, <1>4, AddressFollows
<1>5. CASE column \in {"parameters", "extra_data"}
  BY <1>5, JsonFollows
<1>6. column \in DirectColumns \cup AddressColumns
        \cup {"login", "preferred_categories", "preferred_payment_type", "shop_group_ids",
              "notes", "notes_open", "parameters", "extra_data", "region_id", "agent_id",
              "sales_channel_id"}
  BY DEF AllColumns, SpecialColumns, AddressColumns
<1> QED
  BY <1>1, <1>2, <1>3, <1>4, <1>5, <1>6, RegionFollows, AgentFollows, ChannelFollows

LEMMA StaysCoded ==
  ASSUME NoneIsAtom, InStep, TablesOK, NEW patch, IsPatch(patch), Fits(patch, row)
  PROVE  Coded(ApplyPatch(patch))
<1> DEFINE next == ApplyPatch(patch)
           channel == next.commercial.sales_channel
           agent == next.commercial.assigned_agent
<1>1. MemoryAnswer(patch) = 200 /\ IsCreation(view) /\ Coded(view)
  BY AcceptedInMemory DEF InStep
<1>2. AgentId(agent) # NONE
  <2>1. Follows("agent_id", patch, UpdateValues(patch, row))
    BY <1>1, AgentFollows
  <2>2. CreatedRow(next).agent_id = AgentId(agent)
        /\ CreatedRow(view).agent_id = AgentId(view.commercial.assigned_agent)
    BY CreatedSpecially
  <2>3. "agent_id" \in DOMAIN UpdateValues(patch, row) =>
          UpdateValues(patch, row).agent_id = AgentId(patch.commercial.assigned_agent)
          /\ Has(patch, "commercial", "assigned_agent")
    <3>1. ReferencesPatched(patch, row, UpdateValues(patch, row))
      BY Patched
    <3> QED
      BY <3>1 DEF ReferencesPatched
  <2>4. Has(patch, "commercial", "assigned_agent") =>
          AgentId(patch.commercial.assigned_agent) # NONE
    BY CatalogsAssumption DEF Fits, Given, AgentId, TablesOK
  <2> QED
    BY <1>1, <2>1, <2>2, <2>3, <2>4 DEF Follows, Coded
<1>3. channel # NONE => channel.code \in DOMAIN ChannelIds /\ ChannelIds[channel.code] # NONE
  <2>1. channel # NONE =>
          \/ /\ Given(patch, "commercial", "sales_channel")
             /\ "code" \in DOMAIN patch.commercial.sales_channel
             /\ channel.code = patch.commercial.sales_channel.code
          \/ /\ view.commercial.sales_channel # NONE
             /\ channel.code = view.commercial.sales_channel.code
    BY <1>1, ChannelFollows
  <2> HIDE DEF channel
  <2> QED
    BY <1>1, <2>1, CatalogsAssumption DEF Fits, Coded, TablesOK
<1>4. /\ \A i \in DOMAIN next.commercial.preferred_categories :
           next.commercial.preferred_categories[i].code \in DOMAIN CategoryIds
      /\ \A i \in DOMAIN next.shop.groups : next.shop.groups[i].code \in DOMAIN GroupIds
  <2>1. /\ next.commercial.preferred_categories =
             IF Has(patch, "commercial", "preferred_categories")
             THEN patch.commercial.preferred_categories ELSE view.commercial.preferred_categories
        /\ next.shop.groups = IF Has(patch, "shop", "groups") THEN patch.shop.groups
                              ELSE view.shop.groups
    BY <1>1, PlainSpecials
  <2> HIDE DEF next
  <2> QED
    BY <1>1, <2>1 DEF Fits, Coded
<1> QED
  BY <1>2, <1>3, <1>4 DEF Coded

-----------------------------------------------------------------------------
(* The invariant.                                                          *)

\* A street that another program cleared is only written with its address.
LEMMA StreetPatched ==
  ASSUME NoneIsAtom, InStep, NEW patch, IsPatch(patch), Fits(patch, row),
         "delivery_address" \in broken \ DOMAIN UpdateValues(patch, row)
  PROVE  ApplyPatch(patch).delivery.address # NONE
<1> DEFINE values == UpdateValues(patch, row)
           given == patch.delivery.address
<1>1. MemoryAnswer(patch) = 200 /\ IsCreation(view) /\ view.delivery.address # NONE
      /\ row.delivery_address = NONE
  BY AcceptedInMemory DEF InStep, LegacyValue
<1>2. "delivery_address" \in DOMAIN values <=>
        Has(patch, "delivery", "address")
          /\ "delivery_address" \in DOMAIN DeliveryUpdateValues(given, row)
  <2>1. ReferencesPatched(patch, row, values)
    BY Patched
  <2> QED
    BY <2>1 DEF ReferencesPatched, AddressColumns
<1>3. ~Has(patch, "delivery", "address")
  <2> SUFFICES ASSUME Has(patch, "delivery", "address") PROVE FALSE
    OBVIOUS
  <2>1. CASE given = NONE
    BY <1>2, <2>1, AddressPatched DEF AddressColumns
  <2>2. CASE given # NONE
    <3>1. "street" \in DOMAIN given
      BY <1>1, <2>2 DEF Fits, Given, AddressFields
    <3> QED
      BY <1>2, <2>2, <3>1, AddressPatched
  <2> QED
    BY <2>1, <2>2
<1> QED
  BY <1>1, <1>3, NestedPatched, SpecialFields, NestedFields

LEMMA InitIInv == NoneIsAtom /\ Init => IInv
BY CatalogsAssumption DEF Init, IInv, TablesOK, BackendsAgree, Accepted

LEMMA CreateIInv ==
  ASSUME NoneIsAtom, IInv, NEW payload \in Creations, Create(payload)
  PROVE  IInv'
<1> DEFINE data == ConvertCustomer(payload)
           status == CreateAnswer(data, tables)
<1>1. IsCreation(data)
  BY PayloadsAssumption, ConvertedCreation
<1>2. status \in {200, 422} /\ (status = 200 => Resolved(data))
  BY CreationAnswered
<1> HIDE DEF data
<1>3. /\ row = NONE /\ answer' = [database |-> status, memory |-> 200]
      /\ IF status = 200 THEN row' = CreatedRow(data) /\ view' = data
                         ELSE UNCHANGED <<row, view>>
      /\ UNCHANGED <<tables, broken, patches, intrusions>>
  BY DEF Create, data
<1>4. TablesOK' /\ BackendsAgree' /\ broken' = {}
  <2> HIDE DEF status
  <2> QED
    BY <1>2, <1>3 DEF IInv, TablesOK, BackendsAgree
<1>5. ASSUME status = 200 PROVE InStep'
  <2>1. Resolved(data)
    BY <1>2, <1>5
  <2>2. Coded(data)
    BY <2>1, CatalogsAssumption DEF Resolved, Coded, AgentId, IInv, TablesOK
  <2>3. DOMAIN CreatedRow(data) = AllColumns
    BY CreatedColumns DEF AllColumns
  <2> HIDE DEF status
  <2> QED
    BY <1>1, <1>3, <1>4, <1>5, <2>2, <2>3 DEF InStep
<1> QED
  BY <1>3, <1>4, <1>5 DEF IInv

LEMMA UpdateIInv ==
  ASSUME NoneIsAtom, IInv, NEW payload \in Patches, Update(payload)
  PROVE  IInv'
<1> DEFINE patch == ConvertCustomer(payload)
           status == UpdateAnswer(patch, row, tables)
           memory == MemoryAnswer(patch)
           values == UpdateValues(patch, row)
<1>1. IsPatch(patch)
  BY PayloadsAssumption, ConvertedPatch
<1> HIDE DEF patch
<1>2. /\ row # NONE /\ answer' = [database |-> status, memory |-> memory]
      /\ IF status # 200 THEN UNCHANGED <<row, view, broken>>
         ELSE /\ row' = values ++ row
              /\ view' = IF memory = 200 THEN ApplyPatch(patch) ELSE view
              /\ broken' = broken \ DOMAIN values
      /\ UNCHANGED <<tables, intrusions>>
  BY DEF Update, patch
<1>3. TablesOK /\ InStep
  BY <1>2 DEF IInv
<1>4. /\ status \in {200, 409, 422}
      /\ status = 200 => Fits(patch, row)
      /\ status = 409 => Conflicts(patch, row)
      /\ memory \in {200, 409}
  BY PatchAnswered, MemoryAnswers
<1>5. TablesOK'
  BY <1>2, <1>3 DEF TablesOK
<1>6. status = 200 => memory = 200
  BY <1>1, <1>3, <1>4, AcceptedInMemory
<1>7. status = 409 /\ broken = {} => memory = 409
  BY <1>1, <1>3, <1>4, ConflictInMemory
<1>8. BackendsAgree'
  <2> HIDE DEF status, memory, values
  <2> QED
    BY <1>2, <1>4, <1>6, <1>7 DEF BackendsAgree
<1>9. CASE status # 200
  <2> HIDE DEF status, memory, values
  <2>1. row' = row /\ view' = view /\ broken' = broken
    BY <1>2, <1>9
  <2> QED
    BY <1>3, <1>5, <1>8, <2>1, <1>2 DEF IInv, InStep
<1>10. CASE status = 200
  <2>1. Fits(patch, row) /\ memory = 200
    BY <1>4, <1>6, <1>10
  <2>2. row' = values ++ row /\ view' = ApplyPatch(patch) /\ broken' = broken \ DOMAIN values
    BY <1>2, <1>10, <2>1
  <2>3. IsCreation(view') /\ Coded(view')
    BY <1>1, <1>3, <2>1, <2>2, StaysWhole, StaysCoded DEF InStep
  <2>4. /\ DOMAIN (values ++ row) = DOMAIN values \cup DOMAIN row
        /\ \A x \in DOMAIN values : (values ++ row)[x] = values[x]
        /\ \A x \in DOMAIN row \ DOMAIN values : (values ++ row)[x] = row[x]
    BY Over
  <2>5. DOMAIN values \subseteq AllColumns /\ DOMAIN row = AllColumns
    BY <1>1, <1>3, Patched DEF AllColumns, InStep
  <2>6. ASSUME NEW column \in AllColumns
        PROVE  Follows(column, patch, values)
    BY <1>1, <1>3, <2>1, AllFollow
  <2>7. "delivery_address" \in broken' => view'.delivery.address # NONE
    BY <1>1, <1>3, <2>1, <2>2, StreetPatched
  <2>8. row' # NONE
    BY <2>2 DEF ++, NoneIsAtom
  <2> HIDE DEF status, memory, values
  <2>9. ASSUME NEW column \in AllColumns \ broken'
        PROVE  row'[column] = CreatedRow(view')[column]
    <3>1. CASE column \in DOMAIN values
      BY <2>2, <2>4, <2>6, <3>1 DEF Follows
    <3>2. CASE column \notin DOMAIN values
      <4>1. row[column] = CreatedRow(view)[column]
        BY <1>3, <2>2, <2>9, <3>2 DEF InStep
      <4> QED
        BY <2>2, <2>4, <2>5, <2>6, <3>2, <4>1 DEF Follows
    <3> QED
      BY <3>1, <3>2
  <2>10. ASSUME NEW column \in broken'
         PROVE  row'[column] = LegacyValue(column)
    <3>1. column \in broken /\ column \notin DOMAIN values /\ column \in DOMAIN row
      BY <1>3, <2>2, <2>5 DEF InStep, Breakable, LegacyValues, AllColumns, SpecialColumns,
             DirectColumns, FieldOf
    <3> QED
      BY <1>3, <2>2, <2>4, <3>1 DEF InStep
  <2>11. DOMAIN row' = AllColumns /\ broken' \subseteq Breakable
    BY <1>3, <2>2, <2>4, <2>5 DEF InStep
  <2>12. InStep'
    BY <2>3, <2>7, <2>9, <2>10, <2>11 DEF InStep
  <2> QED
    BY <1>5, <1>8, <2>8, <2>12 DEF IInv
<1> QED
  BY <1>9, <1>10

LEMMA RetireIInv ==
  ASSUME NoneIsAtom, IInv, NEW kind \in DOMAIN Tables, NEW id \in Tables[kind],
         Retire(kind, id)
  PROVE  IInv'
<1>1. TablesOK'
  BY DEF IInv, TablesOK, Retire
<1>2. UNCHANGED <<row, view, broken, answer>>
  BY DEF Retire
<1> QED
  BY <1>1, <1>2 DEF IInv, InStep, BackendsAgree

LEMMA LegacyIInv ==
  ASSUME NoneIsAtom, IInv, NEW column \in Breakable, LegacyWrite(column)
  PROVE  IInv'
<1>1. /\ row # NONE /\ InStep
      /\ row' = [row EXCEPT ![column] = LegacyValue(column)]
      /\ broken' = broken \cup {column}
      /\ UNCHANGED <<view, tables, answer, patches>>
      /\ column = "delivery_address" => row.delivery_address # NONE
  BY DEF LegacyWrite, IInv, LegacyValue, LegacyValues, Breakable
<1>2. "delivery_address" \in broken' => view'.delivery.address # NONE
  BY <1>1, RowTells DEF InStep
<1>3. row' # NONE
  BY <1>1 DEF NoneIsAtom
<1>4. column \in AllColumns
  BY DEF Breakable, LegacyValues, AllColumns, SpecialColumns, DirectColumns, FieldOf
<1>5. InStep'
  BY <1>1, <1>2, <1>4 DEF InStep
<1>6. TablesOK' /\ BackendsAgree'
  BY <1>1 DEF IInv, TablesOK, BackendsAgree
<1> QED
  BY <1>3, <1>5, <1>6 DEF IInv

LEMMA NextIInv ==
  ASSUME NoneIsAtom, IInv, [Next]_vars
  PROVE  IInv'
<1>1. CASE UNCHANGED vars
  BY <1>1 DEF vars, IInv, TablesOK, InStep, BackendsAgree
<1>2. CASE \E payload \in Creations : Create(payload)
  BY <1>2, CreateIInv
<1>3. CASE \E payload \in Patches : Update(payload)
  BY <1>3, UpdateIInv
<1>4. CASE \E kind \in DOMAIN Tables : \E id \in Tables[kind] : Retire(kind, id)
  BY <1>4, RetireIInv
<1>5. CASE \E column \in DOMAIN LegacyValues \cup {"delivery_address"} : LegacyWrite(column)
  BY <1>5, LegacyIInv DEF Breakable
<1> QED
  BY <1>1, <1>2, <1>3, <1>4, <1>5 DEF Next

LEMMA InvariantHolds == ASSUME NoneIsAtom PROVE Spec => []IInv
<1>1. Init => IInv
  BY InitIInv
<1>2. IInv /\ [Next]_vars => IInv'
  BY NextIInv
<1> QED
  BY <1>1, <1>2, PTL DEF Spec

\* Whatever the events, and for every catalogue and payload: on a customer that
\* no other program has touched, a patch is accepted by the database only if it
\* is accepted in memory, and their conflicts are the same conflicts
\* (CustomerEventMapper.apply_update and InMemoryCustomerEventGateway).
THEOREM BackendsAlike == ASSUME NoneIsAtom PROVE Spec => []BackendsAgree
<1>1. IInv => BackendsAgree
  BY DEF IInv
<1> QED
  BY <1>1, InvariantHolds, PTL

-----------------------------------------------------------------------------
(* The conversions of the export undo those of the events.                 *)

LEMMA TimestampRead ==
  ASSUME NoneIsAtom, NEW t, t = NONE \/ t \in Instants
  PROVE  /\ ExportTimestamp(UtcNaive(t)) = Utc(t)
         /\ t # NONE => ExportTimestamp(InUtc(t)) = InUtc(t)
<1>1. CASE t = NONE
  BY <1>1 DEF ExportTimestamp, UtcNaive, Utc
<1>2. CASE t # NONE
  <2> DEFINE u == InUtc(t)
             n == UtcNaive(t)
  <2>1. u = [wall |-> t.wall - t.offset, offset |-> 0] /\ t.wall - t.offset \in Int
    BY <1>2 DEF InUtc, Instants
  <2>2. n = [wall |-> t.wall - t.offset, offset |-> NONE]
    BY <1>2, <2>1 DEF UtcNaive
  <2> HIDE DEF u, n
  <2>3. ExportTimestamp(n) = u
    <3>1. n # NONE /\ n.offset = NONE
      BY <2>2 DEF NoneIsAtom
    <3>2. ExportTimestamp(n) = [n EXCEPT !.offset = 0]
      BY <3>1 DEF ExportTimestamp
    <3> QED
      BY <2>1, <2>2, <3>2
  <2>4. ExportTimestamp(u) = u
    <3>1. u # NONE /\ u.offset = 0 /\ InUtc(u) = u /\ [u EXCEPT !.offset = 0] = u
      BY <2>1 DEF NoneIsAtom, InUtc
    <3> QED
      BY <3>1 DEF ExportTimestamp
  <2> QED
    BY <1>2, <2>3, <2>4 DEF Utc, u, n
<1> QED
  BY <1>1, <1>2

LEMMA CoordinateRead ==
  ASSUME NoneIsAtom, NEW c,
         c = NONE \/ (IsRecord({"degrees"}, c) /\ c.degrees # NONE)
  PROVE  ExportCoordinate(Coordinate(c)) = c
BY DEF ExportCoordinate, Coordinate, IsRecord

LEMMA EmailsRead ==
  ASSUME NEW emails, AcceptsItems("additional_emails", emails)
  PROVE  ExportEmails(EmailsJson(emails)) = emails
<1>1. /\ emails = [i \in DOMAIN emails |-> emails[i]]
      /\ \A i \in DOMAIN emails :
           emails[i] = [f \in {"email", "commercial", "marketing", "skype"} |-> emails[i][f]]
  BY ItemFields DEF AcceptsItems, IsRecord
<1>2. ASSUME NEW i \in DOMAIN emails
      PROVE  [email |-> emails[i].email, skype |-> emails[i].skype,
              commercial |-> emails[i].commercial, marketing |-> emails[i].marketing] = emails[i]
  <2> DEFINE e == emails[i]
  <2>1. e = [f \in {"email", "commercial", "marketing", "skype"} |-> e[f]]
    BY <1>1
  <2> HIDE DEF e
  <2>2. [email |-> e.email, skype |-> e.skype, commercial |-> e.commercial,
         marketing |-> e.marketing] = e
    BY <2>1
  <2> QED
    BY <2>2 DEF e
<1>3. ExportEmails(EmailsJson(emails)) =
        [i \in DOMAIN emails |->
           [email |-> emails[i].email, skype |-> emails[i].skype,
            commercial |-> emails[i].commercial, marketing |-> emails[i].marketing]]
  BY DEF ExportEmails, EmailsJson
<1>4. [i \in DOMAIN emails |->
           [email |-> emails[i].email, skype |-> emails[i].skype,
            commercial |-> emails[i].commercial, marketing |-> emails[i].marketing]]
        = [i \in DOMAIN emails |-> emails[i]]
  BY <1>2
<1> QED
  BY <1>1, <1>3, <1>4

LEMMA NotesRead ==
  ASSUME NoneIsAtom, NEW items, AcceptsItems("items", items)
  PROVE  ExportNotes(NotesJson(items)) =
           [i \in DOMAIN items |-> [items[i] EXCEPT !.occurred_at = InUtc(@)]]
<1>1. ASSUME NEW i \in DOMAIN items
      PROVE  [occurred_at |-> ExportTimestamp(InUtc(items[i].occurred_at)),
              text |-> items[i].text, open |-> items[i].open]
               = [items[i] EXCEPT !.occurred_at = InUtc(@)]
  <2> DEFINE e == items[i]
             u == InUtc(e.occurred_at)
  <2>1. e = [f \in {"occurred_at", "text", "open"} |-> e[f]] /\ e.occurred_at \in Instants
    BY ItemFields DEF AcceptsItems, IsRecord
  <2>2. e.occurred_at # NONE
    BY <2>1 DEF Instants, NoneIsAtom
  <2>3. ExportTimestamp(u) = u
    BY <2>1, <2>2, TimestampRead
  <2> HIDE DEF e, u
  <2>4. [occurred_at |-> u, text |-> e.text, open |-> e.open] = [e EXCEPT !.occurred_at = u]
    BY <2>1
  <2> QED
    BY <2>3, <2>4 DEF e, u
<1>2. ExportNotes(NotesJson(items)) =
        [i \in DOMAIN items |-> [occurred_at |-> ExportTimestamp(InUtc(items[i].occurred_at)),
                                 text |-> items[i].text, open |-> items[i].open]]
  BY DEF ExportNotes, NotesJson
<1> QED
  BY <1>1, <1>2

LEMMA CodeRead ==
  ASSUME NEW catalog \in {CategoryIds, GroupIds, ChannelIds}, NEW code \in DOMAIN catalog
  PROVE  CodeForId(catalog, catalog[code]) = code
BY CatalogsAssumption DEF CodeForId

LEMMA CategoriesRead ==
  ASSUME NEW list, \A i \in DOMAIN list : list[i].code \in DOMAIN CategoryIds
  PROVE  ExportCategories(CategoryIdsOf(list)) = Relabelled(list, CategoryIds, CategoryNames)
<1>1. \A i \in DOMAIN list : CodeForId(CategoryIds, CategoryIds[list[i].code]) = list[i].code
  BY CodeRead
<1> QED
  BY <1>1 DEF ExportCategories, CategoryIdsOf, Relabelled

LEMMA GroupsRead ==
  ASSUME NEW list, \A i \in DOMAIN list : list[i].code \in DOMAIN GroupIds
  PROVE  ExportGroups(GroupIdsOf(list)) = Relabelled(list, GroupIds, GroupNames)
<1>1. \A i \in DOMAIN list : CodeForId(GroupIds, GroupIds[list[i].code]) = list[i].code
  BY CodeRead
<1> QED
  BY <1>1 DEF ExportGroups, GroupIdsOf, Relabelled

LEMMA ChannelRead ==
  ASSUME NEW code \in DOMAIN ChannelIds, ChannelIds[code] # NONE
  PROVE  ExportChannel(ChannelIds[code]) = [code |-> code, label |-> ChannelLabel(code)]
<1>1. CodeForId(ChannelIds, ChannelIds[code]) = code
  BY CodeRead
<1> QED
  BY <1>1 DEF ExportChannel, ChannelLabel

LEMMA AddressRead ==
  ASSUME NEW address, IsRecord(AddressFields, address), NEW region, region = RegionId(address)
  PROVE  ExportAddress(address.street, address.city, address.postal_code, region) = address
<1>1. address = [f \in {"street", "city", "postal_code", "country_code", "region_name"}
                   |-> address[f]]
  BY DEF IsRecord, AddressFields
<1>2. region[1] = address.country_code /\ region[2] = address.region_name
  BY DEF RegionId
<1> QED
  BY <1>1, <1>2 DEF ExportAddress

LEMMA ObjectRead ==
  ASSUME NoneIsAtom, NEW value
  PROVE  /\ ExportObject(Extension(value)) = value
         /\ IsJsonObject(Extension(value))
BY DEF ExportObject, Extension, IsJsonObject, NoneIsAtom

-----------------------------------------------------------------------------
(* The row of a customer that no other program has touched.                *)

Untouched == InStep /\ broken = {}

\* What the schemas say of a field, whether it was created or patched.
LEMMA ViewAccepted ==
  ASSUME IsCreation(view)
  PROVE  /\ DOMAIN view = DOMAIN Fields
         /\ \A s \in DOMAIN Fields :
              /\ DOMAIN view[s] = Fields[s]
              /\ \A f \in Fields[s] : Accepts(s, f, view[s][f])
BY DEF IsCreation, IsPatch

LEMMA RequiredFields ==
  ASSUME IsCreation(view)
  PROVE  /\ view.credentials.password # NONE
         /\ view.company.name # NONE
         /\ view.primary_contact.full_name # NONE /\ view.primary_contact.email # NONE
         /\ view.billing_address.street # NONE /\ view.billing_address.city # NONE
         /\ view.tax_profile.vies_validated # NONE
         /\ view.operational_settings.disable_box_discount # NONE
<1>1. \A s \in DOMAIN Fields : \A f \in Fields[s] : ~IsNullable(s, f) => view[s][f] # NONE
  BY ViewAccepted DEF Accepts
<1>2. /\ "password" \in Fields["credentials"] /\ "name" \in Fields["company"]
      /\ {"full_name", "email"} \subseteq Fields["primary_contact"]
      /\ {"street", "city"} \subseteq Fields["billing_address"]
      /\ "vies_validated" \in Fields["tax_profile"]
      /\ "disable_box_discount" \in Fields["operational_settings"]
  BY SectionFields DEF ProfileFields, FinanceFields, OperationsFields, AddressFields
<1> QED
  BY <1>1, <1>2, SectionFields, NullableFields

LEMMA RuledFields ==
  ASSUME IsCreation(view)
  PROVE  /\ AcceptsItems("additional_emails", view.primary_contact.additional_emails)
         /\ AcceptsItems("items", view.notes.items)
         /\ \A f \in {"registered_at", "last_login_at"} :
              view.registration[f] = NONE \/ view.registration[f] \in Instants
         /\ \A f \in {"latitude", "longitude"} :
              view.shop[f] = NONE
                \/ (IsRecord({"degrees"}, view.shop[f]) /\ view.shop[f].degrees # NONE)
         /\ view.delivery.address # NONE =>
              /\ IsRecord(AddressFields, view.delivery.address)
              /\ view.delivery.address.street # NONE /\ view.delivery.address.city # NONE
<1>1. \A s \in DOMAIN Fields : \A f \in Fields[s] : Accepts(s, f, view[s][f])
  BY ViewAccepted
<1>2. /\ "additional_emails" \in Fields["primary_contact"] /\ "items" \in Fields["notes"]
      /\ {"registered_at", "last_login_at"} \subseteq Fields["registration"]
      /\ {"latitude", "longitude"} \subseteq Fields["shop"]
      /\ "address" \in Fields["delivery"]
  BY SectionFields DEF ProfileFields, OperationsFields, DeliveryFields
<1>3. /\ AcceptsItems("additional_emails", view.primary_contact.additional_emails)
      /\ AcceptsItems("items", view.notes.items)
  BY <1>1, <1>2, SectionFields, NullableFields, ItemFields DEF Accepts, AcceptsValue
<1>4. \A f \in {"registered_at", "last_login_at"} :
        view.registration[f] = NONE \/ view.registration[f] \in Instants
  BY <1>1, <1>2, SectionFields DEF Accepts, AcceptsValue
<1>5. \A f \in {"latitude", "longitude"} :
        view.shop[f] = NONE
          \/ (IsRecord({"degrees"}, view.shop[f]) /\ view.shop[f].degrees # NONE)
  BY <1>1, <1>2, SectionFields DEF Accepts, AcceptsValue
<1>6. ASSUME view.delivery.address # NONE
      PROVE  /\ IsRecord(AddressFields, view.delivery.address)
             /\ view.delivery.address.street # NONE /\ view.delivery.address.city # NONE
  <2> DEFINE address == view.delivery.address
  <2>1. AcceptsNested("address", address) /\ DOMAIN address = AddressFields
    BY <1>1, <1>2, <1>6, SectionFields, NestedFields DEF Accepts, AcceptsValue, IsCreation
  <2> HIDE DEF address
  <2>2. IsRecord(AddressFields, address) /\ address.street # NONE /\ address.city # NONE
    BY <2>1 DEF AcceptsNested, AddressFields
  <2> QED
    BY <2>2 DEF address
<1> QED
  BY <1>3, <1>4, <1>5, <1>6

\* Most columns hold their field as it is.
LEMMA PlainRow ==
  ASSUME Untouched, NEW s \in DOMAIN DirectFields, NEW f \in DOMAIN DirectFields[s]
  PROVE  /\ row[DirectFields[s][f]] = ConvertValue(f, view[s][f])
         /\ f \notin {"additional_emails", "registered_at", "last_login_at", "iban",
                      "latitude", "longitude"} =>
              row[DirectFields[s][f]] = NormalField(f, view[s][f])
<1> DEFINE column == DirectFields[s][f]
<1>1. column \in DirectColumns /\ SectionOf(column) = s /\ PartOf(column) = f
  BY ColumnOfField DEF SectionOf, PartOf
<1> HIDE DEF column
<1>2. row[column] = ConvertValue(f, view[s][f])
  BY <1>1, CreatedDirectly DEF Untouched, InStep, AllColumns
<1>3. f \notin {"login", "preferred_categories", "groups", "sales_channel", "assigned_agent",
                "items"}
  <2>1. s \in DOMAIN Fields /\ f \in Fields[s]
    BY <1>1, DirectPlaces
  <2>2. /\ f = "login" => s = "credentials"
        /\ f \in {"preferred_categories", "sales_channel", "assigned_agent"} => s = "commercial"
        /\ f = "groups" => s = "shop"
        /\ f = "items" => s = "notes"
    BY <2>1, PlaceOfField
  <2>3. /\ "login" \notin DOMAIN DirectFields["credentials"]
        /\ {"preferred_categories", "sales_channel", "assigned_agent"}
             \cap DOMAIN DirectFields["commercial"] = {}
        /\ "groups" \notin DOMAIN DirectFields["shop"]
        /\ "items" \notin DOMAIN DirectFields["notes"]
    BY DEF DirectFields
  <2> QED
    BY <2>2, <2>3
<1>4. f \notin {"additional_emails", "registered_at", "last_login_at", "iban",
                "latitude", "longitude"} =>
        ConvertValue(f, view[s][f]) = NormalField(f, view[s][f])
  BY <1>3 DEF ConvertValue, NormalField
<1> QED
  BY <1>2, <1>4 DEF column

LEMMA SpecialRow ==
  ASSUME NoneIsAtom, Untouched
  PROVE  /\ row.login = Strip(view.credentials.login)
         /\ row.region_id = RegionId(view.billing_address)
         /\ row.delivery_address = IF view.delivery.address = NONE THEN NONE
                                   ELSE view.delivery.address.street
         /\ row.delivery_city = IF view.delivery.address = NONE THEN NONE
                                ELSE view.delivery.address.city
         /\ row.delivery_zip_code = IF view.delivery.address = NONE THEN NONE
                                    ELSE view.delivery.address.postal_code
         /\ row.delivery_region_id = IF view.delivery.address = NONE THEN NONE
                                     ELSE RegionId(view.delivery.address)
         /\ row.agent_id = AgentId(view.commercial.assigned_agent)
         /\ row.preferred_categories = CategoryIdsOf(view.commercial.preferred_categories)
         /\ row.sales_channel_id = IF view.commercial.sales_channel = NONE THEN NONE
                                   ELSE ChannelIds[view.commercial.sales_channel.code]
         /\ row.preferred_payment_type = view.commercial.preferred_payment_type_code
         /\ row.shop_group_ids = GroupIdsOf(view.shop.groups)
         /\ row.notes = NotesJson(view.notes.items)
         /\ row.parameters = Extension(view.extensions.parameters)
         /\ row.extra_data = Extension(view.extensions.extra_data)
<1>1. \A column \in SpecialColumns : row[column] = CreatedRow(view)[column]
  BY DEF Untouched, InStep, AllColumns
<1>2. {"login", "region_id", "delivery_address", "delivery_city", "delivery_zip_code",
       "delivery_region_id", "agent_id", "preferred_categories", "sales_channel_id",
       "preferred_payment_type", "shop_group_ids", "notes", "parameters", "extra_data"}
         \subseteq SpecialColumns
  BY DEF SpecialColumns
<1> QED
  BY <1>1, <1>2, CreatedSpecially

LEMMA ExportableRow ==
  ASSUME NoneIsAtom, Untouched, ~LabelsGone
  PROVE  Exportable(row, tables)
<1>1. IsCreation(view)
  BY DEF Untouched, InStep
<1>2. /\ row.pass = view.credentials.password /\ row.business_name = view.company.name
      /\ row.business_contact_name = view.primary_contact.full_name
      /\ row.email = view.primary_contact.email
      /\ row.address_street = view.billing_address.street
      /\ row.address_city = view.billing_address.city
      /\ row.vies = view.tax_profile.vies_validated
      /\ row.disable_box_discount = view.operational_settings.disable_box_discount
  <2>1. \A s \in DOMAIN DirectFields : \A f \in DOMAIN DirectFields[s] :
           row[DirectFields[s][f]] = ConvertValue(f, view[s][f])
    BY PlainRow
  <2>2. \A f \in {"password", "name", "full_name", "email", "street", "city", "vies_validated",
                  "disable_box_discount"} : \A v : ConvertValue(f, v) = v
    BY DEF ConvertValue
  <2> QED
    BY <2>1, <2>2 DEF DirectFields
<1>3. row.login # NONE /\ row.region_id # NONE
  BY SpecialRow DEF Strip, RegionId, NoneIsAtom
<1>4. row.delivery_address # NONE => row.delivery_city # NONE /\ row.delivery_region_id # NONE
  BY <1>1, SpecialRow, RuledFields DEF RegionId, NoneIsAtom
<1>5. row.delivery_address = NONE => row.delivery_city = NONE /\ row.delivery_zip_code = NONE
  BY <1>1, SpecialRow, RuledFields
<1>6. \A column \in RequiredColumns(row) : row[column] # NONE
  BY <1>1, <1>2, <1>3, <1>4, RequiredFields DEF RequiredColumns
<1>7. IsJsonObject(row.parameters) /\ IsJsonObject(row.extra_data)
  BY SpecialRow, ObjectRead
<1>8. Labelled(row, tables)
  BY SpecialRow DEF LabelsGone, Labelled, CategoryIdsOf, GroupIdsOf
<1> QED
  BY <1>5, <1>6, <1>7, <1>8 DEF Exportable

-----------------------------------------------------------------------------
(* The export, section by section.                                         *)

NormalSection(s) == [f \in Fields[s] |-> NormalField(f, view[s][f])]

\* The sections all of whose fields have a column of their own.
LEMMA ProfileRead ==
  ASSUME NoneIsAtom, Untouched
  PROVE  /\ [login |-> row.login, password |-> row.pass] = NormalSection("credentials")
         /\ [name |-> row.business_name, website |-> row.website,
             primary_phone |-> row.phone, secondary_phone |-> row.phone2]
              = NormalSection("company")
         /\ [newsletter         |-> row.newsletter,
             privacy_registered |-> row.reg_privacy,
             rules_registered   |-> row.reg_rules]
              = NormalSection("communication_preferences")
<1>1. \A s \in DOMAIN DirectFields : \A f \in DOMAIN DirectFields[s] :
        f \notin {"additional_emails", "registered_at", "last_login_at", "iban",
                  "latitude", "longitude"} =>
          row[DirectFields[s][f]] = NormalField(f, view[s][f])
  BY PlainRow
<1>2. [login |-> row.login, password |-> row.pass] = NormalSection("credentials")
  <2>1. row.pass = NormalField("password", view.credentials.password)
    BY <1>1 DEF DirectFields
  <2>2. row.login = NormalField("login", view.credentials.login)
    BY SpecialRow DEF NormalField
  <2>3. Fields["credentials"] = {"login", "password"}
    BY SectionFields DEF ProfileFields
  <2> QED
    BY <2>1, <2>2, <2>3 DEF NormalSection
<1>3. [name |-> row.business_name, website |-> row.website,
       primary_phone |-> row.phone, secondary_phone |-> row.phone2] = NormalSection("company")
  <2>1. /\ row.business_name = NormalField("name", view.company.name)
        /\ row.website = NormalField("website", view.company.website)
        /\ row.phone = NormalField("primary_phone", view.company.primary_phone)
        /\ row.phone2 = NormalField("secondary_phone", view.company.secondary_phone)
    BY <1>1 DEF DirectFields
  <2>2. Fields["company"] = {"name", "website", "primary_phone", "secondary_phone"}
    BY SectionFields DEF ProfileFields
  <2> QED
    BY <2>1, <2>2 DEF NormalSection
<1>4. [newsletter |-> row.newsletter, privacy_registered |-> row.reg_privacy,
       rules_registered |-> row.reg_rules] = NormalSection("communication_preferences")
  <2> DEFINE s == "communication_preferences"
  <2>1. /\ row.newsletter = NormalField("newsletter", view[s].newsletter)
        /\ row.reg_privacy = NormalField("privacy_registered", view[s].privacy_registered)
        /\ row.reg_rules = NormalField("rules_registered", view[s].rules_registered)
    BY <1>1 DEF DirectFields
  <2>2. Fields[s] = {"newsletter", "privacy_registered", "rules_registered"}
    BY SectionFields DEF ProfileFields
  <2> QED
    BY <2>1, <2>2 DEF NormalSection
<1> QED
  BY <1>2, <1>3, <1>4

LEMMA FinanceRead ==
  ASSUME NoneIsAtom, Untouched
  PROVE  /\ [fiscal_code         |-> row.fiscal_code,
             vat_country_code    |-> row.vat_country,
             vat_number          |-> row.vat_number,
             vies_validated      |-> row.vies,
             fiscal_agent_code   |-> row.fiscal_agent_code,
             secondary_tax_value |-> row.tax2] = NormalSection("tax_profile")
         /\ [abi |-> row.payment_abi, cab |-> row.payment_cab, iban |-> row.payment_iban]
              = NormalSection("banking")
         /\ [disable_box_discount |-> row.disable_box_discount,
             disable_quantity_delivery |-> row.disable_qty_delivery,
             prepaid_returns      |-> row.rma_prepaid,
             disable_sale_limit   |-> row.disable_limit_sale]
              = NormalSection("operational_settings")
<1>1. \A s \in DOMAIN DirectFields : \A f \in DOMAIN DirectFields[s] :
        /\ row[DirectFields[s][f]] = ConvertValue(f, view[s][f])
        /\ f \notin {"additional_emails", "registered_at", "last_login_at", "iban",
                     "latitude", "longitude"} =>
             row[DirectFields[s][f]] = NormalField(f, view[s][f])
  BY PlainRow
<1>2. [fiscal_code |-> row.fiscal_code, vat_country_code |-> row.vat_country,
       vat_number |-> row.vat_number, vies_validated |-> row.vies,
       fiscal_agent_code |-> row.fiscal_agent_code, secondary_tax_value |-> row.tax2]
        = NormalSection("tax_profile")
  <2> DEFINE t == view.tax_profile
  <2>1. /\ row.fiscal_code = NormalField("fiscal_code", t.fiscal_code)
        /\ row.vat_country = NormalField("vat_country_code", t.vat_country_code)
        /\ row.vat_number = NormalField("vat_number", t.vat_number)
        /\ row.vies = NormalField("vies_validated", t.vies_validated)
        /\ row.fiscal_agent_code = NormalField("fiscal_agent_code", t.fiscal_agent_code)
        /\ row.tax2 = NormalField("secondary_tax_value", t.secondary_tax_value)
    BY <1>1 DEF DirectFields
  <2>2. Fields["tax_profile"] = {"fiscal_code", "vat_country_code", "vat_number",
                                 "vies_validated", "fiscal_agent_code", "secondary_tax_value"}
    BY SectionFields DEF FinanceFields
  <2> QED
    BY <2>1, <2>2 DEF NormalSection
<1>3. [abi |-> row.payment_abi, cab |-> row.payment_cab, iban |-> row.payment_iban]
        = NormalSection("banking")
  <2>1. /\ row.payment_abi = NormalField("abi", view.banking.abi)
        /\ row.payment_cab = NormalField("cab", view.banking.cab)
        /\ row.payment_iban = ConvertValue("iban", view.banking.iban)
    BY <1>1 DEF DirectFields
  <2>2. ConvertValue("iban", view.banking.iban) = NormalField("iban", view.banking.iban)
    BY DEF ConvertValue, NormalField
  <2>3. Fields["banking"] = {"abi", "cab", "iban"}
    BY SectionFields DEF FinanceFields
  <2> QED
    BY <2>1, <2>2, <2>3 DEF NormalSection
<1>4. [disable_box_discount |-> row.disable_box_discount,
       disable_quantity_delivery |-> row.disable_qty_delivery,
       prepaid_returns |-> row.rma_prepaid, disable_sale_limit |-> row.disable_limit_sale]
        = NormalSection("operational_settings")
  <2> DEFINE o == view.operational_settings
  <2>1. /\ row.disable_box_discount = NormalField("disable_box_discount", o.disable_box_discount)
        /\ row.disable_qty_delivery =
             NormalField("disable_quantity_delivery", o.disable_quantity_delivery)
        /\ row.rma_prepaid = NormalField("prepaid_returns", o.prepaid_returns)
        /\ row.disable_limit_sale = NormalField("disable_sale_limit", o.disable_sale_limit)
    BY <1>1 DEF DirectFields
  <2>2. Fields["operational_settings"] = {"disable_box_discount", "disable_quantity_delivery",
                                          "prepaid_returns", "disable_sale_limit"}
    BY SectionFields DEF OperationsFields
  <2> QED
    BY <2>1, <2>2 DEF NormalSection
<1> QED
  BY <1>2, <1>3, <1>4

\* The sections whose columns are converted back.
LEMMA ConvertedRead ==
  ASSUME NoneIsAtom, Untouched
  PROVE  /\ [full_name |-> row.business_contact_name, email |-> row.email,
             additional_emails  |-> ExportEmails(row.additional_emails),
             certified_email    |-> row.pec,
             preferred_language |-> row.preferred_language] = NormalSection("primary_contact")
         /\ [registered_at |-> ExportTimestamp(row.registration_date),
             verified      |-> row.verified,
             last_login_at |-> ExportTimestamp(row.last_login_date)]
              = NormalSection("registration")
         /\ [latitude  |-> ExportCoordinate(row.shop_location_lat),
             longitude |-> ExportCoordinate(row.shop_location_lng),
             groups    |-> ExportGroups(row.shop_group_ids)] = NormalSection("shop")
<1>1. \A s \in DOMAIN DirectFields : \A f \in DOMAIN DirectFields[s] :
        /\ row[DirectFields[s][f]] = ConvertValue(f, view[s][f])
        /\ f \notin {"additional_emails", "registered_at", "last_login_at", "iban",
                     "latitude", "longitude"} =>
             row[DirectFields[s][f]] = NormalField(f, view[s][f])
  BY PlainRow
<1>2. IsCreation(view) /\ Coded(view)
  BY DEF Untouched, InStep
<1>3. [full_name |-> row.business_contact_name, email |-> row.email,
       additional_emails |-> ExportEmails(row.additional_emails), certified_email |-> row.pec,
       preferred_language |-> row.preferred_language] = NormalSection("primary_contact")
  <2> DEFINE p == view.primary_contact
  <2>1. /\ row.business_contact_name = NormalField("full_name", p.full_name)
        /\ row.email = NormalField("email", p.email)
        /\ row.additional_emails = ConvertValue("additional_emails", p.additional_emails)
        /\ row.pec = NormalField("certified_email", p.certified_email)
        /\ row.preferred_language = NormalField("preferred_language", p.preferred_language)
    BY <1>1 DEF DirectFields
  <2>2. ExportEmails(EmailsJson(p.additional_emails)) = p.additional_emails
    BY <1>2, RuledFields, EmailsRead
  <2>3. /\ ConvertValue("additional_emails", p.additional_emails)
             = EmailsJson(p.additional_emails)
        /\ NormalField("additional_emails", p.additional_emails) = p.additional_emails
    BY DEF ConvertValue, NormalField
  <2>4. Fields["primary_contact"] = {"full_name", "email", "additional_emails",
                                     "certified_email", "preferred_language"}
    BY SectionFields DEF ProfileFields
  <2> QED
    BY <2>1, <2>2, <2>3, <2>4 DEF NormalSection
<1>4. [registered_at |-> ExportTimestamp(row.registration_date), verified |-> row.verified,
       last_login_at |-> ExportTimestamp(row.last_login_date)] = NormalSection("registration")
  <2> DEFINE g == view.registration
  <2>1. /\ row.registration_date = ConvertValue("registered_at", g.registered_at)
        /\ row.verified = NormalField("verified", g.verified)
        /\ row.last_login_date = ConvertValue("last_login_at", g.last_login_at)
    BY <1>1 DEF DirectFields
  <2>2. \A f \in {"registered_at", "last_login_at"} :
          /\ ConvertValue(f, g[f]) = UtcNaive(g[f])
          /\ NormalField(f, g[f]) = Utc(g[f])
    BY DEF ConvertValue, NormalField
  <2>3. \A f \in {"registered_at", "last_login_at"} : ExportTimestamp(UtcNaive(g[f])) = Utc(g[f])
    BY <1>2, RuledFields, TimestampRead
  <2>4. Fields["registration"] = {"registered_at", "verified", "last_login_at"}
    BY SectionFields DEF ProfileFields
  <2> QED
    BY <2>1, <2>2, <2>3, <2>4 DEF NormalSection
<1>5. [latitude |-> ExportCoordinate(row.shop_location_lat),
       longitude |-> ExportCoordinate(row.shop_location_lng),
       groups |-> ExportGroups(row.shop_group_ids)] = NormalSection("shop")
  <2> DEFINE p == view.shop
  <2>1. /\ row.shop_location_lat = ConvertValue("latitude", p.latitude)
        /\ row.shop_location_lng = ConvertValue("longitude", p.longitude)
        /\ row.shop_group_ids = GroupIdsOf(p.groups)
    BY <1>1, SpecialRow DEF DirectFields
  <2>2. /\ \A f \in {"latitude", "longitude"} :
             /\ ConvertValue(f, p[f]) = Coordinate(p[f])
             /\ NormalField(f, p[f]) = p[f]
        /\ NormalField("groups", p.groups) = Relabelled(p.groups, GroupIds, GroupNames)
    BY DEF ConvertValue, NormalField
  <2>3. \A f \in {"latitude", "longitude"} : ExportCoordinate(Coordinate(p[f])) = p[f]
    BY <1>2, RuledFields, CoordinateRead
  <2>4. ExportGroups(GroupIdsOf(p.groups)) = Relabelled(p.groups, GroupIds, GroupNames)
    BY <1>2, GroupsRead DEF Coded
  <2>5. Fields["shop"] = {"latitude", "longitude", "groups"}
    BY SectionFields DEF OperationsFields
  <2> QED
    BY <2>1, <2>2, <2>3, <2>4, <2>5 DEF NormalSection
<1> QED
  BY <1>3, <1>4, <1>5

LEMMA AddressesRead ==
  ASSUME NoneIsAtom, Untouched
  PROVE  /\ ExportAddress(row.address_street, row.address_city, row.address_zip_code,
                          row.region_id) = NormalSection("billing_address")
         /\ [business_name |-> row.delivery_business_name,
             contact_name  |-> row.delivery_contact_name,
             phone         |-> row.delivery_phone,
             address |-> IF row.delivery_address = NONE THEN NONE
                         ELSE ExportAddress(row.delivery_address, row.delivery_city,
                                            row.delivery_zip_code, row.delivery_region_id)]
              = NormalSection("delivery")
<1>1. \A s \in DOMAIN DirectFields : \A f \in DOMAIN DirectFields[s] :
        f \notin {"additional_emails", "registered_at", "last_login_at", "iban",
                  "latitude", "longitude"} =>
          row[DirectFields[s][f]] = NormalField(f, view[s][f])
  BY PlainRow
<1>2. IsCreation(view)
  BY DEF Untouched, InStep
<1>3. ExportAddress(row.address_street, row.address_city, row.address_zip_code, row.region_id)
        = NormalSection("billing_address")
  <2> DEFINE b == view.billing_address
  <2>1. /\ row.address_street = NormalField("street", b.street)
        /\ row.address_city = NormalField("city", b.city)
        /\ row.address_zip_code = NormalField("postal_code", b.postal_code)
    BY <1>1 DEF DirectFields
  <2>2. /\ row.region_id[1] = NormalField("country_code", b.country_code)
        /\ row.region_id[2] = NormalField("region_name", b.region_name)
    BY SpecialRow DEF RegionId, NormalField
  <2>3. Fields["billing_address"] = {"street", "city", "postal_code", "country_code",
                                     "region_name"}
    BY SectionFields DEF AddressFields
  <2> QED
    BY <2>1, <2>2, <2>3 DEF ExportAddress, NormalSection
<1>4. [business_name |-> row.delivery_business_name, contact_name |-> row.delivery_contact_name,
       phone |-> row.delivery_phone,
       address |-> IF row.delivery_address = NONE THEN NONE
                   ELSE ExportAddress(row.delivery_address, row.delivery_city,
                                      row.delivery_zip_code, row.delivery_region_id)]
        = NormalSection("delivery")
  <2> DEFINE d == view.delivery
             address == d.address
             exported == IF row.delivery_address = NONE THEN NONE
                         ELSE ExportAddress(row.delivery_address, row.delivery_city,
                                            row.delivery_zip_code, row.delivery_region_id)
  <2>1. /\ row.delivery_business_name = NormalField("business_name", d.business_name)
        /\ row.delivery_contact_name = NormalField("contact_name", d.contact_name)
        /\ row.delivery_phone = NormalField("phone", d.phone)
    BY <1>1 DEF DirectFields
  <2>2. exported = address
    <3>1. CASE address = NONE
      BY <3>1, SpecialRow
    <3>2. CASE address # NONE
      <4>1. /\ IsRecord(AddressFields, address) /\ row.delivery_address # NONE
            /\ row.delivery_address = address.street /\ row.delivery_city = address.city
            /\ row.delivery_zip_code = address.postal_code
            /\ row.delivery_region_id = RegionId(address)
        BY <1>2, <3>2, SpecialRow, RuledFields
      <4> HIDE DEF address
      <4> QED
        BY <4>1, AddressRead
    <3> QED
      BY <3>1, <3>2
  <2>3. NormalField("address", address) = address
    BY DEF NormalField
  <2>4. Fields["delivery"] = {"business_name", "contact_name", "phone", "address"}
    BY SectionFields DEF DeliveryFields
  <2> HIDE DEF exported
  <2>5. [business_name |-> row.delivery_business_name,
         contact_name |-> row.delivery_contact_name, phone |-> row.delivery_phone,
         address |-> exported] = NormalSection("delivery")
    BY <2>1, <2>2, <2>3, <2>4 DEF NormalSection
  <2> QED
    BY <2>5 DEF exported
<1> QED
  BY <1>3, <1>4

LEMMA OperationsRead ==
  ASSUME NoneIsAtom, Untouched
  PROVE  /\ [preferred_categories |-> ExportCategories(row.preferred_categories),
             sales_channel        |-> ExportChannel(row.sales_channel_id),
             assigned_agent       |-> ExportAgent(row.agent_id),
             payment_agreement    |-> row.payment_agreement,
             preferred_payment_type_code |-> row.preferred_payment_type,
             payment_days              |-> row.payment_days,
             payment_days_end_of_month |-> row.payment_days_eom,
             credit_granted            |-> row.fido_granted,
             credit_value              |-> row.fido] = NormalSection("commercial")
         /\ [items |-> ExportNotes(row.notes), administrative_note |-> row.admin_note]
              = NormalSection("notes")
         /\ [parameters |-> ExportObject(row.parameters),
             extra_data |-> ExportObject(row.extra_data)] = NormalSection("extensions")
<1>1. \A s \in DOMAIN DirectFields : \A f \in DOMAIN DirectFields[s] :
        f \notin {"additional_emails", "registered_at", "last_login_at", "iban",
                  "latitude", "longitude"} =>
          row[DirectFields[s][f]] = NormalField(f, view[s][f])
  BY PlainRow
<1>2. IsCreation(view) /\ Coded(view)
  BY DEF Untouched, InStep
<1>3. [preferred_categories |-> ExportCategories(row.preferred_categories),
       sales_channel        |-> ExportChannel(row.sales_channel_id),
       assigned_agent       |-> ExportAgent(row.agent_id),
       payment_agreement    |-> row.payment_agreement,
       preferred_payment_type_code |-> row.preferred_payment_type,
       payment_days              |-> row.payment_days,
       payment_days_end_of_month |-> row.payment_days_eom,
       credit_granted            |-> row.fido_granted,
       credit_value              |-> row.fido] = NormalSection("commercial")
  <2> DEFINE c == view.commercial
             channel == c.sales_channel
             agent == c.assigned_agent
  <2>1. /\ row.payment_agreement = NormalField("payment_agreement", c.payment_agreement)
        /\ row.payment_days = NormalField("payment_days", c.payment_days)
        /\ row.payment_days_eom =
             NormalField("payment_days_end_of_month", c.payment_days_end_of_month)
        /\ row.fido_granted = NormalField("credit_granted", c.credit_granted)
        /\ row.fido = NormalField("credit_value", c.credit_value)
    BY <1>1 DEF DirectFields
  <2>2. ExportCategories(row.preferred_categories)
          = NormalField("preferred_categories", c.preferred_categories)
    <3>1. ExportCategories(CategoryIdsOf(c.preferred_categories))
            = Relabelled(c.preferred_categories, CategoryIds, CategoryNames)
      BY <1>2, CategoriesRead DEF Coded
    <3> QED
      BY <3>1, SpecialRow DEF NormalField
  <2>3. ExportChannel(row.sales_channel_id) = NormalField("sales_channel", channel)
    <3>1. CASE channel = NONE
      BY <3>1, SpecialRow DEF ExportChannel, NormalField
    <3>2. CASE channel # NONE
      <4>1. ExportChannel(ChannelIds[channel.code])
              = [code |-> channel.code, label |-> ChannelLabel(channel.code)]
        BY <1>2, <3>2, ChannelRead DEF Coded
      <4>2. row.sales_channel_id = ChannelIds[channel.code]
        BY <3>2, SpecialRow
      <4> HIDE DEF channel
      <4> QED
        BY <3>2, <4>1, <4>2 DEF NormalField
    <3> QED
      BY <3>1, <3>2
  <2>4. ExportAgent(row.agent_id) = NormalField("assigned_agent", agent)
    <3>1. row.agent_id = AgentId(agent) /\ AgentId(agent) # NONE
      BY <1>2, SpecialRow DEF Coded
    <3> HIDE DEF agent
    <3> QED
      BY <3>1 DEF ExportAgent, NormalField
  <2>5. row.preferred_payment_type
          = NormalField("preferred_payment_type_code", c.preferred_payment_type_code)
    BY SpecialRow DEF NormalField
  <2>6. Fields["commercial"] = {"preferred_categories", "sales_channel", "assigned_agent",
                     "payment_agreement", "preferred_payment_type_code", "payment_days",
                     "payment_days_end_of_month", "credit_granted", "credit_value"}
    BY SectionFields DEF CommercialFields
  <2> QED
    BY <2>1, <2>2, <2>3, <2>4, <2>5, <2>6 DEF NormalSection
<1>4. [items |-> ExportNotes(row.notes), administrative_note |-> row.admin_note]
        = NormalSection("notes")
  <2> DEFINE items == view.notes.items
  <2>1. row.admin_note = NormalField("administrative_note", view.notes.administrative_note)
    BY <1>1 DEF DirectFields
  <2>2. row.notes = NotesJson(items) /\ AcceptsItems("items", items)
    BY <1>2, SpecialRow, RuledFields
  <2>3. Fields["notes"] = {"items", "administrative_note"}
    BY SectionFields DEF OperationsFields
  <2>4. ExportNotes(row.notes) = NormalField("items", items)
    <3> HIDE DEF items
    <3>1. ExportNotes(row.notes)
            = [i \in DOMAIN items |-> [items[i] EXCEPT !.occurred_at = InUtc(@)]]
      BY <2>2, NotesRead
    <3> QED
      BY <3>1 DEF NormalField
  <2> QED
    BY <2>1, <2>3, <2>4 DEF NormalSection
<1>5. [parameters |-> ExportObject(row.parameters), extra_data |-> ExportObject(row.extra_data)]
        = NormalSection("extensions")
  <2>1. /\ ExportObject(row.parameters) = NormalField("parameters", view.extensions.parameters)
        /\ ExportObject(row.extra_data) = NormalField("extra_data", view.extensions.extra_data)
    BY SpecialRow, ObjectRead DEF NormalField
  <2>2. Fields["extensions"] = {"parameters", "extra_data"}
    BY SectionFields DEF OperationsFields
  <2> QED
    BY <2>1, <2>2 DEF NormalSection
<1> QED
  BY <1>3, <1>4, <1>5

LEMMA CustomerRead ==
  ASSUME NoneIsAtom, Untouched, ~LabelsGone
  PROVE  CustomerFromRow(row, tables) = Normal(view)
<1> DEFINE exported == CustomerFromRow(row, tables)
<1>1. Exportable(row, tables)
  BY ExportableRow
<1>2. /\ exported = [s \in DOMAIN exported |-> exported[s]]
      /\ DOMAIN exported = {"credentials", "company", "primary_contact",
              "communication_preferences", "registration", "tax_profile", "banking",
              "commercial", "shop", "operational_settings", "notes", "extensions",
              "billing_address", "delivery"}
  BY <1>1 DEF CustomerFromRow
<1>3. /\ exported["credentials"] = NormalSection("credentials")
      /\ exported["company"] = NormalSection("company")
      /\ exported["communication_preferences"] = NormalSection("communication_preferences")
  BY <1>1, ProfileRead DEF CustomerFromRow
<1>4. /\ exported["tax_profile"] = NormalSection("tax_profile")
      /\ exported["banking"] = NormalSection("banking")
      /\ exported["operational_settings"] = NormalSection("operational_settings")
  BY <1>1, FinanceRead DEF CustomerFromRow
<1>5. /\ exported["primary_contact"] = NormalSection("primary_contact")
      /\ exported["registration"] = NormalSection("registration")
      /\ exported["shop"] = NormalSection("shop")
  BY <1>1, ConvertedRead DEF CustomerFromRow
<1>6. /\ exported["billing_address"] = NormalSection("billing_address")
      /\ exported["delivery"] = NormalSection("delivery")
  BY <1>1, AddressesRead DEF CustomerFromRow
<1>7. /\ exported["commercial"] = NormalSection("commercial")
      /\ exported["notes"] = NormalSection("notes")
      /\ exported["extensions"] = NormalSection("extensions")
  BY <1>1, OperationsRead DEF CustomerFromRow
<1> HIDE DEF exported
<1>8. DOMAIN exported = DOMAIN Fields
      /\ \A s \in DOMAIN Fields : exported[s] = NormalSection(s)
  BY <1>2, <1>3, <1>4, <1>5, <1>6, <1>7, SectionFields
<1>9. Normal(view) = [s \in DOMAIN Fields |-> NormalSection(s)]
  BY ViewAccepted DEF Untouched, InStep, Normal, NormalSection
<1>10. exported = [s \in DOMAIN Fields |-> NormalSection(s)]
  BY <1>2, <1>8
<1> QED
  BY <1>9, <1>10 DEF exported

\* What another program has written last refuses the export, each column in its
\* own way.
LEMMA BrokenRefused ==
  ASSUME NoneIsAtom, InStep, broken # {}
  PROVE  ~Exportable(row, tables)
<1>1. PICK column \in broken : TRUE
  OBVIOUS
<1>2. /\ column \in {"business_name", "business_contact_name", "region_id", "parameters",
                     "delivery_address"}
      /\ column = "parameters" => row.parameters = [leaf |-> 0]
      /\ column # "parameters" => row[column] = NONE
  BY DEF InStep, Breakable, LegacyValue, LegacyValues
<1>3. CASE column \in {"business_name", "business_contact_name", "region_id"}
  BY <1>2, <1>3 DEF Exportable, RequiredColumns
<1>4. CASE column = "parameters"
  BY <1>2, <1>4 DEF Exportable, IsJsonObject, NoneIsAtom
<1>5. CASE column = "delivery_address"
  <2>1. view.delivery.address # NONE /\ view.delivery.address.city # NONE
    BY <1>5, RuledFields DEF InStep
  <2>2. "delivery_city" \in AllColumns \ broken
    BY DEF InStep, Breakable, LegacyValues, AllColumns, SpecialColumns
  <2>3. row.delivery_city = view.delivery.address.city
    BY <2>1, <2>2, CreatedSpecially DEF InStep
  <2> QED
    BY <1>2, <1>5, <2>1, <2>3 DEF Exportable
<1> QED
  BY <1>2, <1>3, <1>4, <1>5

LEMMA LabelsRefused ==
  ASSUME InStep, LabelsGone
  PROVE  ~Exportable(row, tables)
<1>1. /\ row.preferred_categories = CategoryIdsOf(view.commercial.preferred_categories)
      /\ row.shop_group_ids = GroupIdsOf(view.shop.groups)
  <2>1. {"preferred_categories", "shop_group_ids"} \subseteq AllColumns \ broken
    BY DEF InStep, Breakable, LegacyValues, AllColumns, SpecialColumns
  <2> QED
    BY <2>1, CreatedSpecially DEF InStep
<1> QED
  BY <1>1 DEF LabelsGone, Exportable, Labelled, CategoryIdsOf, GroupIdsOf

\* Whatever the events, and for every catalogue and payload: the export of a
\* row is the customer that its events describe, it is refused exactly when
\* another program spoiled it, and the counter of open notes counts them
\* (CustomerEventMapper's writes against the reads of the Salesforce export).
THEOREM ExportsTheCustomer == ASSUME NoneIsAtom PROVE Spec => []ExportFaithful
<1>1. IInv => ExportFaithful
  <2> SUFFICES ASSUME InStep PROVE
        /\ CustomerFromRow(row, tables) =
             IF broken # {} \/ LabelsGone THEN REFUSED ELSE Normal(view)
        /\ row.notes_open =
             Cardinality({i \in DOMAIN view.notes.items : view.notes.items[i].open})
    BY DEF IInv, ExportFaithful
  <2>1. broken # {} \/ LabelsGone => CustomerFromRow(row, tables) = REFUSED
    BY BrokenRefused, LabelsRefused DEF CustomerFromRow
  <2>2. broken = {} /\ ~LabelsGone => CustomerFromRow(row, tables) = Normal(view)
    BY CustomerRead DEF Untouched
  <2>3. "notes_open" \in AllColumns \ broken
    BY DEF InStep, Breakable, LegacyValues, AllColumns, SpecialColumns
  <2>4. row.notes_open = OpenNotesCount(view.notes.items)
    BY <2>3, CreatedSpecially DEF InStep
  <2> QED
    BY <2>1, <2>2, <2>4 DEF OpenNotesCount
<1> QED
  BY <1>1, InvariantHolds, PTL
=============================================================================
