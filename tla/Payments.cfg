SPECIFICATION PartsSpec
CHECK_DEADLOCK FALSE
CONSTANTS
  p1 = p1
  p2 = p2
  o1 = o1
  o2 = o2
  d1 = d1
  d2 = d2
  None = None
  Packages <- MCPackages
  Trials <- MCTrials
  Orders <- MCOrders
  Deliveries <- MCDeliveries
  MaxDeaths = 1
  Tabs = {t1, t2}
  Accounts = {a1, a2}
  NoOne = NoOne
  MaxCheckouts = 2
INVARIANTS
  AckedIsPaid
PROPERTIES
  LedgerKept
  PaymentsArrive
  PackageScreensAreFair
