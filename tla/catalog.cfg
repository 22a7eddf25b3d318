SPECIFICATION Spec
CONSTANTS
  s1 = s1
  s2 = s2
  word = word
  Products = {1, 2, 3, 4}
  Skus = {s1, s2}
  Prices = {1, 2}
  Quantities = {2}
  Category <- MCCategory
  SkuPrefix <- MCSkuPrefix
  NamePrefix <- MCNamePrefix
  Words = {word}
  MaxSequence = 6
  Base = 2
  Width = 2
  Limit = 2
  Requests <- MCRequests
  Workers = {w1, w2}
  InitialTables <- MCInitialTables
  MaxRequests = 3
  MaxAborts = 1
  Absent = Absent
  NoProduct = NoProduct
INVARIANTS CustomersKnowPrices CountedNumberIsFree RecommendationsComplete
PROPERTIES EditKeepsUnnamed
CHECK_DEADLOCK FALSE
