SPECIFICATION Spec
CONSTANTS
  Trades = {t1, t2}
  Attempts = {a1, a2}
  TxIds = {x1}
  Workers = {w1}
  Amounts = {"exact", "over"}
  Events = {}
  ReuseIds = FALSE
  Outages = FALSE
  NoTrade = NoTrade
  NoRef = NoRef
  NoTx = NoTx
\* A trade may reach a state from which no handler changes anything.
CHECK_DEADLOCK FALSE
SYMMETRY Symmetry

  
PROPERTIES
  ConsumedOnce
