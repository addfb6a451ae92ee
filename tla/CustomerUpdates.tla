-------------------------- MODULE CustomerUpdates --------------------------
(***************************************************************************)
(* The columns that customer.updated writes, and the checks that refuse it. *)
(* A patch is the converted payload: what is UNSET is not in a domain.      *)
(***************************************************************************)
EXTENDS CustomerColumns

Has(patch, s, f) == s \in DOMAIN patch /\ f \in DOMAIN patch[s]
Given(patch, s, f) == Has(patch, s, f) /\ patch[s][f] # NONE
Nothing == [column \in {} |-> NONE]
When(condition, values) == IF condition THEN values ELSE Nothing

DirectFields ==
  [ credentials |-> [password |-> "pass"],
    company |-> [name |-> "business_name", website |-> "website",
                 primary_phone |-> "phone", secondary_phone |-> "phone2"],
    primary_contact |->
      [full_name |-> "business_contact_name", email |-> "email",
       additional_emails |-> "additional_emails", certified_email |-> "pec",
       preferred_language |-> "preferred_language"],
    billing_address |-> [street |-> "address_street", city |-> "address_city",
                         postal_code |-> "address_zip_code"],
    delivery |-> [business_name |-> "delivery_business_name",
                  contact_name |-> "delivery_contact_name", phone |-> "delivery_phone"],
    tax_profile |->
      [fiscal_code |-> "fiscal_code", vat_country_code |-> "vat_country",
       vat_number |-> "vat_number", vies_validated |-> "vies",
       fiscal_agent_code |-> "fiscal_agent_code", secondary_tax_value |-> "tax2"],
    communication_preferences |->
      [newsletter |-> "newsletter", privacy_registered |-> "reg_privacy",
       rules_registered |-> "reg_rules"],
    registration |-> [registered_at |-> "registration_date", verified |-> "verified",
                      last_login_at |-> "last_login_date"],
    commercial |->
      [payment_agreement |-> "payment_agreement", payment_days |-> "payment_days",
       payment_days_end_of_month |-> "payment_days_eom",
       credit_granted |-> "fido_granted", credit_value |-> "fido"],
    banking |-> [abi |-> "payment_abi", cab |-> "payment_cab", iban |-> "payment_iban"],
    shop |-> [latitude |-> "shop_location_lat", longitude |-> "shop_location_lng"],
    operational_settings |->
      [disable_box_discount |-> "disable_box_discount",
       disable_quantity_delivery |-> "disable_qty_delivery",
       prepaid_returns |-> "rma_prepaid", disable_sale_limit |-> "disable_limit_sale"],
    notes |-> [administrative_note |-> "admin_note"] ]

ConvertValue(f, value) ==
  CASE f = "additional_emails"                -> EmailsJson(value)
    [] f \in {"registered_at", "last_login_at"} -> UtcNaive(value)
    [] f = "iban"                             -> DatabaseIban(value)
    [] f \in {"latitude", "longitude"}        -> Coordinate(value)
    [] OTHER                                  -> value

DirectUpdateValues(patch) ==
  LET given == UNION {{s} \X (DOMAIN patch[s] \cap DOMAIN DirectFields[s]) :
                        s \in DOMAIN patch \cap DOMAIN DirectFields}
      columnOf(p) == DirectFields[p[1]][p[2]]
  IN [column \in {columnOf(p) : p \in given} |->
        LET p == CHOOSE q \in given : columnOf(q) = column
        IN ConvertValue(p[2], patch[p[1]][p[2]])]
     ++ When(Has(patch, "notes", "items"),
             [notes      |-> NotesJson(patch.notes.items),
              notes_open |-> OpenNotesCount(patch.notes.items)])

(* The region that an address patch and the stored region name together.   *)
RegionFields == {"country_code", "region_name"}

PatchesRegion(patch) == RegionFields \cap DOMAIN patch # {}

PatchedRegion(patch, region) ==
  << IF "country_code" \in DOMAIN patch THEN patch.country_code ELSE region[1],
     IF "region_name" \in DOMAIN patch THEN patch.region_name ELSE region[2] >>

DeliveryColumns == [street      |-> "delivery_address", city |-> "delivery_city",
                    postal_code |-> "delivery_zip_code"]

DeliveryUpdateValues(address, row) ==
  IF address = NONE
  THEN [delivery_address  |-> NONE, delivery_city      |-> NONE,
        delivery_zip_code |-> NONE, delivery_region_id |-> NONE]
  ELSE LET given == DOMAIN address \cap DOMAIN DeliveryColumns
       IN [column \in {DeliveryColumns[f] : f \in given} |->
             address[CHOOSE f \in given : DeliveryColumns[f] = column]]
          ++ When(PatchesRegion(address),
                  [delivery_region_id |->
                     PatchedRegion(address, row.delivery_region_id)])

ReferenceUpdateValues(patch, row) ==
  When(Has(patch, "credentials", "login"), [login |-> Strip(patch.credentials.login)])
    ++ When("billing_address" \in DOMAIN patch /\ PatchesRegion(patch.billing_address),
            [region_id |-> PatchedRegion(patch.billing_address, row.region_id)])
    ++ When(Has(patch, "delivery", "address"),
            DeliveryUpdateValues(patch.delivery.address, row))
    ++ When(Has(patch, "commercial", "preferred_categories"),
            [preferred_categories |->
               CategoryIdsOf(patch.commercial.preferred_categories)])
    ++ When(Has(patch, "commercial", "assigned_agent"),
            [agent_id |-> AgentId(patch.commercial.assigned_agent)])
    ++ When(Has(patch, "commercial", "sales_channel")
              /\ ~Given(patch, "commercial", "sales_channel"),
            [sales_channel_id |-> NONE])
    ++ When(Given(patch, "commercial", "sales_channel")
              /\ "code" \in DOMAIN patch.commercial.sales_channel,
            [sales_channel_id |-> ChannelIds[patch.commercial.sales_channel.code]])
    ++ When(Has(patch, "commercial", "preferred_payment_type_code"),
            [preferred_payment_type |-> patch.commercial.preferred_payment_type_code])
    ++ When(Has(patch, "shop", "groups"), [shop_group_ids |-> GroupIdsOf(patch.shop.groups)])

-----------------------------------------------------------------------------
(* JSON Merge Patch of the extension columns.  A value of the payload nests *)
(* at most two objects, so the recursion of the code is two operators.      *)

IsObject(value) == value # NONE /\ "object" \in DOMAIN value

MergeMembers(old, patch, Inner(_, _)) ==
  [key \in (DOMAIN old \cup DOMAIN patch) \ {k \in DOMAIN patch : patch[k] = NONE} |->
     IF key \notin DOMAIN patch THEN old[key]
     ELSE IF IsObject(patch[key])
     THEN [object |-> Inner(IF key \in DOMAIN old /\ IsObject(old[key])
                            THEN old[key].object ELSE Nothing, patch[key].object)]
     ELSE patch[key]]

MergeLeaves(old, patch) == MergeMembers(old, patch, LAMBDA o, p : p)
MergeJson(old, patch) == MergeMembers(old, patch, MergeLeaves)

JsonUpdateValues(patch, row) ==
  [column \in IF "extensions" \in DOMAIN patch THEN DOMAIN patch.extensions ELSE {} |->
     LET value == patch.extensions[column] IN
     IF value = NONE THEN NONE
     ELSE Extension(MergeJson(IF row[column] = NONE THEN Nothing
                              ELSE row[column].object, value))]

UpdateValues(patch, row) ==
  JsonUpdateValues(patch, row) ++ ReferenceUpdateValues(patch, row)
    ++ DirectUpdateValues(patch)

-----------------------------------------------------------------------------
(* The checks, in the order of the code.                                   *)

IncompleteRegion(patch, region) ==
  PatchesRegion(patch) /\ region = NONE /\ ~(RegionFields \subseteq DOMAIN patch)

UnknownRegion(patch, region, tables) ==
  /\ PatchesRegion(patch)
  /\ ~IncompleteRegion(patch, region)
  /\ PatchedRegion(patch, region) \notin tables.regions

LegacyJson(patch, row) ==
  \E column \in {"parameters", "extra_data"} :
     /\ Given(patch, "extensions", column)
     /\ row[column] # NONE
     /\ ~IsObject(row[column])

(* The tax rule is about the row as the patch would leave it.              *)
NoTaxIdentity(patch, row) ==
  LET left(f) == IF Has(patch, "tax_profile", f) THEN patch.tax_profile[f] ELSE row[f]
  IN \A f \in {"fiscal_code", "vat_number"} : left(f) = NONE \/ IsBlank(left(f))

UpdateAnswer(patch, row, tables) ==
  LET billing  == IF "billing_address" \in DOMAIN patch THEN patch.billing_address
                  ELSE Nothing
      delivery == IF Given(patch, "delivery", "address") THEN patch.delivery.address
                  ELSE Nothing
      channel  == IF Given(patch, "commercial", "sales_channel")
                  THEN patch.commercial.sales_channel ELSE Nothing
  IN Answer(<<
       Invalid(Has(patch, "banking", "iban") /\ BadIban(patch.banking.iban)),
       Invalid(Has(patch, "credentials", "login") /\ IsBlank(patch.credentials.login)),
       Conflict(IncompleteRegion(billing, row.region_id)),
       Invalid(UnknownRegion(billing, row.region_id, tables)),
       Conflict(/\ Given(patch, "delivery", "address")
                /\ row.delivery_address = NONE
                /\ DOMAIN delivery # AddressFields),
       Conflict(IncompleteRegion(delivery, row.delivery_region_id)),
       Invalid(UnknownRegion(delivery, row.delivery_region_id, tables)),
       Invalid(Has(patch, "commercial", "preferred_categories")
                 /\ Unavailable(patch.commercial.preferred_categories, CategoryIds,
                                tables.categories)),
       Invalid(Has(patch, "commercial", "assigned_agent")
                 /\ UnknownAgent(patch.commercial.assigned_agent, tables)),
       Conflict(/\ Given(patch, "commercial", "sales_channel")
                /\ row.sales_channel_id = NONE
                /\ DOMAIN channel # Nested.sales_channel),
       Invalid("code" \in DOMAIN channel /\ UnknownChannel(channel.code, tables)),
       Invalid(Has(patch, "commercial", "preferred_payment_type_code")
                 /\ UnknownPayment(patch.commercial.preferred_payment_type_code, tables)),
       Invalid(Has(patch, "shop", "groups")
                 /\ Unavailable(patch.shop.groups, GroupIds, tables.groups)),
       Invalid(LegacyJson(patch, row)),
       Invalid(NoTaxIdentity(patch, row)) >>)
=============================================================================
