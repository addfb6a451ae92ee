SPECIFICATION Spec
CONSTANTS
  NONE = NONE
  REFUSED = REFUSED
  SHIPPING = SHIPPING
  MISSING = MISSING
  FAILED = FAILED
  ISSUED = ISSUED
  HOME = HOME
  ABROAD = ABROAD
  Ids <- MCIds
  Qualifying <- MCQualifying
  OtherStates <- MCOtherStates
  Addresses <- MCAddresses
  Incomplete <- MCIncomplete
  Dates <- MCDates
  Contents <- MCContents
  ProductIds <- MCProductIds
  ShippingProducts <- MCShippingProducts
  InitialStates <- MCInitialStates
  Exports <- MCExports
  Target <- MCTarget
  TAX = 44
  Limit = 2
  MaxCommits = 2
INVARIANTS TypeOK ExportOneState TaxAsStored ListingOrdered WalkMissesNone
CHECK_DEADLOCK FALSE
