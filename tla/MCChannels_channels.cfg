\* Three sizes under two editors; two sizes, three channels, two notices.
CONSTANTS
  Articles = {a1}
  MaxSizes = 3
  SentPlaces = {1}
  Labels = {v1, v2}
  Carts = {k1}
  Editors = {n1, n2}
  Nothing = Nothing
  Sizes = {v1, v2}
  Channels = {"MERCADO_LIVRE", "SHOPEE", "AMAZON"}
  Notices = {n1, n2}
  MaxSales = 2
  MaxItems = 1
  MaxUnits = 1
  Plans <- SmallPlans
  OnHand = 1
  NoSize = NoSize
SPECIFICATION Spec
SYMMETRY Symmetry
CHECK_DEADLOCK FALSE
INVARIANTS
  TypeOK
  KeepsASize
  OneSizePerPlace
  ImportedOnce
  ShelfIsAccounted
  EveryImportIsTold
PROPERTY
  RemovalWasReviewed
