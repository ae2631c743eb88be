SPECIFICATION Spec
CONSTANTS
  Trades = {t1}
  Attempts = {a1}
  TxIds = {x1, x2}
  Workers = {w1, w2}
  Amounts = {"exact", "under"}
  Events = {"successful", "failed"}
  ReuseIds = FALSE
  Outages = FALSE
  NoTrade = NoTrade
  NoRef = NoRef
  NoTx = NoTx
\* A trade may reach a state from which no handler changes anything.
CHECK_DEADLOCK FALSE
SYMMETRY Symmetry
INVARIANTS
  
  NoPaymentDropped
PROPERTIES
  SettledStays
  KeepsPromise
