CONSTANTS
  Prices <- GridPrices
  Quantities = {1, 2}
  SHIPPING_FREE_THRESHOLD = 20000
  SHIPPING_FEE = 990
  MAX_QUANTITY_INDIVIDUAL = 8
  MaxUnits = 9
SPECIFICATION Spec
INVARIANTS
  TypeOK
  ChargedAtMostShown
  ShortfallIsBounded
  ReceiptAddsUp
  RecapIsClose
CHECK_DEADLOCK FALSE
