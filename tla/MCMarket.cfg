CONSTANTS
  Session = {s1, s2}
  Provider <- MCProvider
  First = "brsapi"
  FirstKeys <- MCProvider
  Daily = {"brsapi"}
  Limit <- MCLimit
  Reserve <- MCReserve
  Item = {"USD", "usd_sell"}
  ItemsOf <- MCItemsOf
  Price = {1, 2}
  Alert = {"dear"}
  AlertItem <- MCAlertItem
  AlertHit <- MCAlertHit
  MaxDay = 1
  MaxRequests = 4
SYMMETRY Symmetry
SPECIFICATION Spec
CHECK_DEADLOCK FALSE
INVARIANTS
  TypeOK
  CallsCounted
  QuotaKept
  AlertsTold
PROPERTY AsksOwnItems
