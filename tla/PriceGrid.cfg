CONSTANTS
  c1 = c1
  c2 = c2
  k1 = k1
  k2 = k2
  Refs <- TwoRefs
  SlugBase <- OneSlug
  Codes = {c1, c2}
  Keys = {k1, k2}
  Prices = {1, 2}
  Files <- SomeFiles
  Quote = Quote
  Unlisted = Unlisted
  None = None
  Null = Null
  MaxImports = 4
  MaxEdits = 1
SPECIFICATION Spec
INVARIANTS
  TypeOK
  PricesAreFromTheirGrid
  TablesAgree
PROPERTIES
  ImportIsRepeatable
  ImplementsCatalogue
CHECK_DEADLOCK FALSE
