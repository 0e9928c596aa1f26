\* Two clerks at work; two products, two orders, two channels.
CONSTANTS
  Products = {1, 2}
  Categories = {g1}
  Names = {"camiseta"}
  Prices = {4990, 5990}
  Clerks = {c1, c2}
  MaxSuffix = 2
  SlugIds = {1}
  PerPage = 1
  RawTables <- Tables
  Regions = {"sul", "norte"}
  Goods <- Articles3
  Services = 1
  Fares = {10, 20}
  DefaultWeight = 1
  FreeAbove = 120
  MaxQuantity = 2
  Unknown = Unknown
  OrderIds = {o1, o2}
  Wares = {1, 2}
  Carriage = {3}
  Stocked = 1
  PerOrder = 1
  Horizon = 2
  Behind = 1
  Granule = 2
  PageSize = 1
  Connected = {"MERCADO_LIVRE", "AMAZON"}
  Calls = {c1, c2}
  MaxGrants = 3
  Nobody = Nobody
SPECIFICATION Spec
SYMMETRY Symmetry
CHECK_DEADLOCK FALSE
INVARIANTS
  TypeOK
  StorefrontAgrees
  QuoteIgnoresTheTypist
  ScreensReconcile
  SoldOrUnsold
  ConnectedIsUsable
PROPERTIES
  DisconnectedStays
  GrantImplemented
