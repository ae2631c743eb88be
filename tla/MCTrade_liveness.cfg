SPECIFICATION FairSpec
CONSTANTS
  Trades = {t1}
  Attempts = {a1, a2}
  TxIds = {x1}
  Workers = {w1}
  Amounts = {"exact"}
  Events = {"successful", "failed"}
  ReuseIds = FALSE
  Outages = TRUE
  NoTrade = NoTrade
  NoRef = NoRef
  NoTx = NoTx
\* A trade may reach a state from which no handler changes anything.
CHECK_DEADLOCK FALSE
PROPERTIES
  AbandonedTradeEnds
  SlotIsFreed
