---------------------------- MODULE CustomerData ----------------------------
(***************************************************************************)
(* The customer rows of Life365 and the events that Salesforce sends about *)
(* them, with the rules a create and a patch have to satisfy.              *)
(*                                                                         *)
(* A row keeps only what those rules tell apart: the login, the two tax    *)
(* identifiers, the delivery address (its street and its region, the       *)
(* latter a <<country, name>> pair) and one JSON extension object.  City,  *)
(* postal code, the billing address and the plain columns follow the same  *)
(* paths as these and are left out.                                        *)
(***************************************************************************)
EXTENDS Integers

CONSTANTS
  Logins,          \* spellings of a login, already stripped of outer blanks
  Fold,            \* Fold[l] is lower(btrim(l)): the key logins are compared by
  TaxCodes,        \* fiscal codes and VAT numbers that are not blank
  Streets,
  Countries,
  RegionNames,
  EnabledRegions,  \* the <<country, name>> pairs public.regions resolves
  ExtKeys,         \* keys of the JSON extension object
  ExtValues,
  NULL,            \* SQL NULL, JSON null, an absent key
  UNSET            \* a property the patch does not mention

ASSUME CustomerDataAssumption ==
  /\ NULL # UNSET
  /\ {NULL, UNSET} \cap (Logins \cup TaxCodes \cup Streets \cup Countries
                           \cup RegionNames \cup ExtValues) = {}
  /\ EnabledRegions \subseteq Countries \X RegionNames
  /\ NULL \notin EnabledRegions
  /\ Fold \in [Logins -> Logins]

-----------------------------------------------------------------------------
Customer == [login  : Logins,
             fiscal : TaxCodes \cup {NULL},
             vat    : TaxCodes \cup {NULL},
             street : Streets \cup {NULL},
             region : EnabledRegions \cup {NULL},
             extra  : [ExtKeys -> ExtValues \cup {NULL}]]

AddressPatch == [street  : Streets \cup {UNSET},
                 country : Countries \cup {UNSET},
                 name    : RegionNames \cup {UNSET}]

Patch == [login   : Logins \cup {UNSET},
          fiscal  : TaxCodes \cup {NULL, UNSET},
          vat     : TaxCodes \cup {NULL, UNSET},
          address : AddressPatch \cup {NULL, UNSET},
          extra   : [ExtKeys -> ExtValues \cup {NULL, UNSET}]]

\* A body is what the fingerprint covers: everything of an event but its id.
\* "ok" says whether its values pass the conversions (password length,
\* decimals, timestamps, coordinates); in a create it also stands for the
\* lookups of its regions, agent, categories, groups and payment type.
CreateBody == [kind : {"create"}, row : Customer, ok : BOOLEAN]
UpdateBody == [kind : {"update"}, ref : Int, patch : Patch, ok : BOOLEAN]

-----------------------------------------------------------------------------
Overlay(new, old) == IF new = UNSET THEN old ELSE new

\* "Customer needs a fiscal code or VAT number", for a row or a draft of one.
HasTaxIdentity(row) == row.fiscal # NULL \/ row.vat # NULL

\* A delivery address is there as a whole or not at all.
AddressWhole(row) == row.street = NULL <=> row.region = NULL

\* The region a patch asks for, given the country and name read with the row;
\* NULL in a component means that the merge has no value for it.
Country(region) == IF region = NULL THEN NULL ELSE region[1]
RegionName(region) == IF region = NULL THEN NULL ELSE region[2]
WantedRegion(address, region) ==
  <<Overlay(address.country, Country(region)), Overlay(address.name, RegionName(region))>>
TouchesRegion(address) == address.country # UNSET \/ address.name # UNSET

IsAddressPatch(address) == address \notin {NULL, UNSET}

\* 409 when the patch lacks what the stored row does not supply either.
AddressIncomplete(address, current) ==
  /\ IsAddressPatch(address)
  /\ \/ current.street = NULL /\ UNSET \in {address.street, address.country, address.name}
     \/ TouchesRegion(address)
          /\ \E i \in 1..2 : WantedRegion(address, current.region)[i] = NULL

\* 422 when the merged country and name are no enabled region.
RegionUnknown(address, current) ==
  /\ IsAddressPatch(address)
  /\ TouchesRegion(address)
  /\ WantedRegion(address, current.region) \notin EnabledRegions

\* The street and the region that the UPDATE assigns.
PatchedStreet(address, current) ==
  IF address = NULL THEN NULL
  ELSE IF address = UNSET THEN current.street
  ELSE Overlay(address.street, current.street)
PatchedRegion(address, current, stored) ==
  IF address = NULL THEN NULL
  ELSE IF address # UNSET /\ TouchesRegion(address)
    THEN WantedRegion(address, current.region)
    ELSE stored

\* The row after a patch.  "current" is what the SELECT ... FOR UPDATE
\* returned; the columns the UPDATE does not assign keep the "stored" row's.
Patched(patch, current, stored) ==
  [login  |-> Overlay(patch.login, stored.login),
   fiscal |-> Overlay(patch.fiscal, stored.fiscal),
   vat    |-> Overlay(patch.vat, stored.vat),
   street |-> PatchedStreet(patch.address, stored),
   region |-> PatchedRegion(patch.address, current, stored.region),
   extra  |-> IF \A k \in ExtKeys : patch.extra[k] = UNSET
                THEN stored.extra
                ELSE [k \in ExtKeys |-> Overlay(patch.extra[k], current.extra[k])]]

\* The tax check looks at the patch merged with the row as it was read.
PatchKeepsTaxIdentity(patch, current) ==
  HasTaxIdentity([fiscal |-> Overlay(patch.fiscal, current.fiscal),
                  vat    |-> Overlay(patch.vat, current.vat)])

\* The status a patch is refused with, or 200: the references are resolved
\* before the tax check, so that a 409 for the address comes first.
PatchStatus(patch, current) ==
  IF AddressIncomplete(patch.address, current) THEN 409
  ELSE IF RegionUnknown(patch.address, current) \/ ~PatchKeepsTaxIdentity(patch, current)
    THEN 422
  ELSE 200
=============================================================================
