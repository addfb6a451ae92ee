------------------------- MODULE CustomerExportRow -------------------------
(***************************************************************************)
(* The export of one customer: a row of public.customers, with the tables   *)
(* it refers to, read back as the data that is sent to Salesforce, or       *)
(* REFUSED (InvalidCustomerDataException) when a value that the contract    *)
(* requires is not there.                                                  *)
(***************************************************************************)
EXTENDS CustomerColumns

CONSTANTS REFUSED,
          CategoryNames, GroupNames,  \* id -> label
          ChannelNames,               \* id -> the words of sales_channels.c_name
          Agents                      \* id -> [user_login, name, email, phone]

IsJsonObject(value) == value = NONE \/ "object" \in DOMAIN value

CodeForId(catalog, id) == CHOOSE code \in DOMAIN catalog : catalog[code] = id

ExportTimestamp(t) ==
  IF t = NONE THEN NONE ELSE IF t.offset = NONE THEN [t EXCEPT !.offset = 0] ELSE InUtc(t)

ExportAddress(street, city, postal_code, region) ==
  [street |-> street, city |-> city, postal_code |-> postal_code,
   country_code |-> region[1], region_name |-> region[2]]

ExportAgent(id) == IF id = NONE THEN NONE ELSE [reference_id |-> id] ++ Agents[id]

(* A label that starts with its own code loses that word.                  *)
ExportChannel(id) ==
  IF id = NONE THEN NONE
  ELSE LET code  == CodeForId(ChannelIds, id)
           words == ChannelNames[id]
       IN [code  |-> code,
           label |-> IF Len(words) > 1 /\ Head(words) = code THEN Tail(words) ELSE words]

ExportCategories(ids) ==
  [i \in DOMAIN ids |-> [code  |-> CodeForId(CategoryIds, ids[i]),
                         label |-> CategoryNames[ids[i]]]]

ExportGroups(ids) ==
  [i \in DOMAIN ids |-> [code  |-> CodeForId(GroupIds, ids[i]),
                         label |-> GroupNames[ids[i]]]]

ExportNotes(stored) ==
  [i \in DOMAIN stored |-> [occurred_at |-> ExportTimestamp(stored[i].date),
                            text |-> stored[i].note, open |-> stored[i].open]]

ExportEmails(stored) ==
  [i \in DOMAIN stored |-> [email     |-> stored[i].email, skype |-> stored[i].skype,
                            commercial |-> stored[i].commercial,
                            marketing  |-> stored[i].marketing]]

(* The joins of CUSTOMER_QUERY give no label for a category or a group whose *)
(* row is gone; regions are joined whether they are enabled or not.         *)
Labelled(row, tables) ==
  /\ \A i \in DOMAIN row.preferred_categories :
        row.preferred_categories[i] \in tables.categories
  /\ \A i \in DOMAIN row.shop_group_ids : row.shop_group_ids[i] \in tables.groups

(* The columns that go through required_string and required_bool.           *)
RequiredColumns(row) ==
  {"login", "pass", "business_name", "business_contact_name", "email", "address_street",
   "address_city", "region_id", "vies", "disable_box_discount"}
    \cup IF row.delivery_address = NONE THEN {} ELSE {"delivery_city", "delivery_region_id"}

Exportable(row, tables) ==
  /\ IsJsonObject(row.parameters) /\ IsJsonObject(row.extra_data)
  /\ row.delivery_address = NONE => row.delivery_city = NONE /\ row.delivery_zip_code = NONE
  /\ \A column \in RequiredColumns(row) : row[column] # NONE
  /\ Labelled(row, tables)

ExportCoordinate(d) == IF d = NONE THEN NONE ELSE [degrees |-> d]

ExportObject(column) == IF column = NONE THEN NONE ELSE column.object

CustomerFromRow(row, tables) ==
  IF ~Exportable(row, tables) THEN REFUSED ELSE
  [ credentials |-> [login |-> row.login, password |-> row.pass],
    company |-> [name |-> row.business_name, website |-> row.website,
                 primary_phone |-> row.phone, secondary_phone |-> row.phone2],
    primary_contact |-> [full_name |-> row.business_contact_name, email |-> row.email,
                         additional_emails  |-> ExportEmails(row.additional_emails),
                         certified_email    |-> row.pec,
                         preferred_language |-> row.preferred_language],
    billing_address |-> ExportAddress(row.address_street, row.address_city,
                                      row.address_zip_code, row.region_id),
    delivery |-> [business_name |-> row.delivery_business_name,
                  contact_name  |-> row.delivery_contact_name,
                  phone         |-> row.delivery_phone,
                  address |-> IF row.delivery_address = NONE THEN NONE
                              ELSE ExportAddress(row.delivery_address, row.delivery_city,
                                                 row.delivery_zip_code,
                                                 row.delivery_region_id)],
    tax_profile |-> [fiscal_code         |-> row.fiscal_code,
                     vat_country_code    |-> row.vat_country,
                     vat_number          |-> row.vat_number,
                     vies_validated      |-> row.vies,
                     fiscal_agent_code   |-> row.fiscal_agent_code,
                     secondary_tax_value |-> row.tax2],
    communication_preferences |-> [newsletter         |-> row.newsletter,
                                   privacy_registered |-> row.reg_privacy,
                                   rules_registered   |-> row.reg_rules],
    registration |-> [registered_at |-> ExportTimestamp(row.registration_date),
                      verified      |-> row.verified,
                      last_login_at |-> ExportTimestamp(row.last_login_date)],
    commercial |-> [preferred_categories |-> ExportCategories(row.preferred_categories),
                    sales_channel        |-> ExportChannel(row.sales_channel_id),
                    assigned_agent       |-> ExportAgent(row.agent_id),
                    payment_agreement    |-> row.payment_agreement,
                    preferred_payment_type_code |-> row.preferred_payment_type,
                    payment_days              |-> row.payment_days,
                    payment_days_end_of_month |-> row.payment_days_eom,
                    credit_granted            |-> row.fido_granted,
                    credit_value              |-> row.fido],
    banking |-> [abi |-> row.payment_abi, cab |-> row.payment_cab, iban |-> row.payment_iban],
    shop |-> [latitude  |-> ExportCoordinate(row.shop_location_lat),
              longitude |-> ExportCoordinate(row.shop_location_lng),
              groups    |-> ExportGroups(row.shop_group_ids)],
    operational_settings |-> [disable_box_discount |-> row.disable_box_discount,
                              disable_quantity_delivery |-> row.disable_qty_delivery,
                              prepaid_returns      |-> row.rma_prepaid,
                              disable_sale_limit   |-> row.disable_limit_sale],
    notes      |-> [items |-> ExportNotes(row.notes), administrative_note |-> row.admin_note],
    extensions |-> [parameters |-> ExportObject(row.parameters),
                    extra_data |-> ExportObject(row.extra_data)] ]
=============================================================================
