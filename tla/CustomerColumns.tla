--------------------------- MODULE CustomerColumns ---------------------------
(***************************************************************************)
(* The columns of public.customers that customer.created writes, and the    *)
(* checks that refuse it.                                                   *)
(*                                                                         *)
(* A region's id is the pair of its country and its name; a timestamp is    *)
(* [wall, offset], in hours, with offset NONE for a wall time without zone; *)
(* an IBAN is [of, spaced, valid], a login or a tax identifier              *)
(* [of, padded] with of = NONE when it is blank; a coordinate is            *)
(* [degrees |-> d] and the column's number d; a JSON value is               *)
(* [leaf |-> v] or [object |-> members].                                    *)
(***************************************************************************)
EXTENDS CustomerFields, FiniteSets

CONSTANTS CategoryIds, GroupIds, ChannelIds   \* code -> id, reference_codes.py

Strip(text) == [text EXCEPT !.padded = FALSE]
IsBlank(text) == text.of = NONE

-----------------------------------------------------------------------------
(* Conversions of values that are accepted.                                *)

InUtc(t) == [wall |-> t.wall - t.offset, offset |-> 0]
WallTime(t) == IF t = NONE THEN NONE ELSE [t EXCEPT !.offset = NONE]
UtcNaive(t) == IF t = NONE THEN NONE ELSE [InUtc(t) EXCEPT !.offset = NONE]
DatabaseIban(i) == IF i = NONE THEN NONE ELSE [i EXCEPT !.spaced = FALSE]
Coordinate(c) == IF c = NONE THEN NONE ELSE c.degrees

EmailsJson(emails) ==
  [i \in DOMAIN emails |-> [email      |-> emails[i].email,
                            commercial |-> emails[i].commercial,
                            marketing  |-> emails[i].marketing,
                            skype      |-> emails[i].skype]]

NotesJson(items) ==
  [i \in DOMAIN items |-> [date |-> InUtc(items[i].occurred_at),
                           note |-> items[i].text, open |-> items[i].open]]

OpenNotesCount(items) == Cardinality({i \in DOMAIN items : items[i].open})

Extension(value) == IF value = NONE THEN NONE ELSE [object |-> value]

-----------------------------------------------------------------------------
(* customer.created.                                                       *)

CategoryIdsOf(list) == [i \in DOMAIN list |-> CategoryIds[list[i].code]]
GroupIdsOf(list) == [i \in DOMAIN list |-> GroupIds[list[i].code]]

FallbackAgent == 1

AgentId(agent) == IF agent = NONE THEN FallbackAgent ELSE agent.reference_id

RegionId(address) == <<address.country_code, address.region_name>>

CreateValues(data) ==
  LET delivered(f) == IF data.delivery.address = NONE THEN NONE
                      ELSE data.delivery.address[f]
  IN [ login |-> Strip(data.credentials.login),
       pass  |-> data.credentials.password,
       business_name |-> data.company.name,
       website |-> data.company.website,
       phone   |-> data.company.primary_phone,
       phone2  |-> data.company.secondary_phone,
       business_contact_name |-> data.primary_contact.full_name,
       email   |-> data.primary_contact.email,
       additional_emails  |-> EmailsJson(data.primary_contact.additional_emails),
       pec                |-> data.primary_contact.certified_email,
       preferred_language |-> data.primary_contact.preferred_language,
       address_street     |-> data.billing_address.street,
       address_city       |-> data.billing_address.city,
       address_zip_code   |-> data.billing_address.postal_code,
       delivery_business_name |-> data.delivery.business_name,
       delivery_contact_name  |-> data.delivery.contact_name,
       delivery_phone     |-> data.delivery.phone,
       delivery_address   |-> delivered("street"),
       delivery_city      |-> delivered("city"),
       delivery_zip_code  |-> delivered("postal_code"),
       fiscal_code |-> data.tax_profile.fiscal_code,
       vat_country |-> data.tax_profile.vat_country_code,
       vat_number  |-> data.tax_profile.vat_number,
       vies        |-> data.tax_profile.vies_validated,
       fiscal_agent_code |-> data.tax_profile.fiscal_agent_code,
       tax2        |-> data.tax_profile.secondary_tax_value,
       newsletter  |-> data.communication_preferences.newsletter,
       reg_privacy |-> data.communication_preferences.privacy_registered,
       reg_rules   |-> data.communication_preferences.rules_registered,
       registration_date |-> UtcNaive(data.registration.registered_at),
       verified          |-> data.registration.verified,
       last_login_date   |-> UtcNaive(data.registration.last_login_at),
       payment_agreement |-> data.commercial.payment_agreement,
       payment_days      |-> data.commercial.payment_days,
       payment_days_eom  |-> data.commercial.payment_days_end_of_month,
       fido_granted      |-> data.commercial.credit_granted,
       fido              |-> data.commercial.credit_value,
       payment_abi  |-> data.banking.abi,
       payment_cab  |-> data.banking.cab,
       payment_iban |-> DatabaseIban(data.banking.iban),
       shop_location_lat |-> Coordinate(data.shop.latitude),
       shop_location_lng |-> Coordinate(data.shop.longitude),
       disable_box_discount |-> data.operational_settings.disable_box_discount,
       disable_qty_delivery |-> data.operational_settings.disable_quantity_delivery,
       rma_prepaid          |-> data.operational_settings.prepaid_returns,
       disable_limit_sale   |-> data.operational_settings.disable_sale_limit,
       notes      |-> NotesJson(data.notes.items),
       notes_open |-> OpenNotesCount(data.notes.items),
       admin_note |-> data.notes.administrative_note,
       parameters |-> Extension(data.extensions.parameters),
       extra_data |-> Extension(data.extensions.extra_data) ]

ReferenceValues(data) ==
  LET address == data.delivery.address
      channel == data.commercial.sales_channel
  IN [ region_id          |-> RegionId(data.billing_address),
       delivery_region_id |-> IF address = NONE THEN NONE ELSE RegionId(address),
       agent_id           |-> AgentId(data.commercial.assigned_agent),
       preferred_categories   |-> CategoryIdsOf(data.commercial.preferred_categories),
       sales_channel_id   |-> IF channel = NONE THEN NONE ELSE ChannelIds[channel.code],
       preferred_payment_type |-> data.commercial.preferred_payment_type_code,
       shop_group_ids     |-> GroupIdsOf(data.shop.groups) ]

CreatedRow(data) == CreateValues(data) ++ ReferenceValues(data)

-----------------------------------------------------------------------------
(* The checks, in the order of the code; the first one that fails answers.  *)
(* "tables" holds the ids that exist (for regions: that are enabled).       *)

Conflict(fails) == IF fails THEN 409 ELSE 200
Invalid(fails) == IF fails THEN 422 ELSE 200

Answer(checks) ==
  LET failed == {i \in DOMAIN checks : checks[i] # 200}
      first  == CHOOSE i \in failed : \A j \in failed : i <= j
  IN IF failed = {} THEN 200 ELSE checks[first]

BadIban(iban) == iban # NONE /\ ~iban.valid

Unavailable(list, ids, existing) ==
  \E i \in DOMAIN list : list[i].code \notin DOMAIN ids
                          \/ ids[list[i].code] \notin existing

UnknownAgent(agent, tables) == agent # NONE /\ agent.reference_id \notin tables.agents

UnknownChannel(code, tables) ==
  code \notin DOMAIN ChannelIds \/ ChannelIds[code] \notin tables.channels

UnknownPayment(code, tables) == code # NONE /\ code \notin tables.payment_types

CreateAnswer(data, tables) ==
  LET address == data.delivery.address
      channel == data.commercial.sales_channel
  IN Answer(<<
       Invalid(IsBlank(data.credentials.login)),
       Invalid(BadIban(data.banking.iban)),
       Invalid(RegionId(data.billing_address) \notin tables.regions),
       Invalid(address # NONE /\ RegionId(address) \notin tables.regions),
       Invalid(UnknownAgent(data.commercial.assigned_agent, tables)),
       Invalid(Unavailable(data.commercial.preferred_categories, CategoryIds,
                           tables.categories)),
       Invalid(channel # NONE /\ UnknownChannel(channel.code, tables)),
       Invalid(UnknownPayment(data.commercial.preferred_payment_type_code, tables)),
       Invalid(Unavailable(data.shop.groups, GroupIds, tables.groups)) >>)
=============================================================================
