SPECIFICATION Spec
CONSTANTS
  Entries = {e1, e2, e3}
  Trades = {t1, t2, t3}
  Creators = {c1}
  Units = {1}
  Total = 3
  LateRefunds = FALSE
  NoEntry = NoEntry
  NoTrade = NoTrade
\* When every request is settled no handler changes anything.
CHECK_DEADLOCK FALSE
SYMMETRY Symmetry
INVARIANTS
  TypeOK
  OneActiveSlot
  InventoryExact
  ReservationBacked
PROPERTIES
  EntriesStayClosed
