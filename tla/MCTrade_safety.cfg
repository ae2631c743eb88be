SPECIFICATION Spec
CONSTANTS
  Trades = {t1}
  Attempts = {a1, a2}
  TxIds = {x1, x2}
  Workers = {w1}
  Amounts = {"exact"}
  Events = {"successful", "failed"}
  ReuseIds = FALSE
  Outages = FALSE
  NoTrade = NoTrade
  NoRef = NoRef
  NoTx = NoTx
\* A trade may reach a state from which no handler changes anything.
CHECK_DEADLOCK FALSE
SYMMETRY Symmetry
INVARIANTS
  TypeOK
  Linked
  
  PayoutOrRefund
  NoPaymentDropped
  InventoryFollowsTrade
  ChargedOnce
PROPERTIES
  SettledStays
  KeepsPromise
