CONSTANTS
  o1 = o1
  o2 = o2
  w1 = w1
  NoPrice = NoPrice
  Workers <- OneWorker
  Orders <- TwoOrders
  MaxId = 4
  Batch = 2
  Edited = {1, 3}
  Prices = {1, 2}
  ItemLists <- AllLists
  MaxQuantity = 3
  MaxUnitPrice = 1
SPECIFICATION FairSpec
INVARIANTS
  TypeOK
  OrdersReferToVariants
PROPERTIES
  PricesAreOfTheMoment
  ImplementsShop
  RequestsEnd
  
