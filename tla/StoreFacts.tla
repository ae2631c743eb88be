----------------------------- MODULE StoreFacts -----------------------------
(***************************************************************************)
(* What the functions of the trade store do to the shape of its memory,    *)
(* and to the rows they send to the database.  The modules that prove      *)
(* about TradeStore and EscrowSettlement, which both call them, cite it.   *)
(***************************************************************************)
EXTENDS StoreSettlement, SumProofs

(* Only a listing is an open offer.                                        *)
OpensListed(m) ==
    \A t \in TradeIds :
        m.trades[t] # Null /\ m.trades[t].life = "OPEN" => t \in Listings
Typed(m) == m \in Memory /\ OpensListed(m)
(* The result of a call: memory keeps its shape and rows that are sent     *)
(* exist.                                                                  *)
Proper(res) ==
    /\ Typed(res.mem)
    /\ \A t \in res.trades : t \in TradeIds => res.mem.trades[t] # Null
    /\ \A l \in res.listings : l \in Listings => res.mem.inv[l] # Null

LEMMA NullApart ==
    /\ \A t \in TradeIds : t # Null
    /\ \A x \in SharedTrade : x # Null
    /\ \A x \in SellerInventory : x # Null
    /\ \A x \in QueueEntry : x # Null
    /\ \A x \in PaymentAttempt : x # Null
    /\ \A x \in Buyers \cup {Seller} : x # Null
    /\ \A x \in TxRefs \cup FlwIds \cup QueueRefs \cup Suffixes : x # Null
    /\ \A x \in Nat : x # Null
    BY NullAssumption

LEMMA Children ==
    /\ \A l \in Listings : l \in TradeIds
    /\ \A l \in Listings, s \in Suffixes : <<l, s>> \in TradeIds
    BY DEF TradeIds

LEMMA ThrowProper ==
    ASSUME NEW m, Typed(m)
    PROVE  Proper(Throw(m))
    BY DEF Throw, Result, Proper

LEMMA SetTrade ==
    ASSUME NEW m, Typed(m), NEW t \in TradeIds, NEW row \in SharedTrade,
           row.life = "OPEN" => t \in Listings
    PROVE  Typed([m EXCEPT !.trades[t] = row])
    BY DEF Typed, OpensListed, Memory

LEMMA SyncedProper ==
    ASSUME NEW m, Typed(m), NEW t \in TradeIds, m.trades[t] # Null,
           NEW ls, \A l \in ls : l \in Listings => m.inv[l] # Null
    PROVE  Proper(Synced(m, t, ls))
    BY DEF Synced, Result, Proper
-----------------------------------------------------------------------------
(* The functions that only move a trade along its lifecycle.               *)
SameDeal(row, old) ==
    /\ row.buyer = old.buyer /\ row.units = old.units /\ row.due = old.due
    /\ row.locked = old.locked /\ row.ref = old.ref /\ row.flw = old.flw
Underway == Lifecycle \ {"OPEN", "AWAITING_PAYMENT", "COMPLETED", "CANCELLED"}

Steps(m, t, res) ==
    \/ res = Throw(m)
    \/ \E row \in SharedTrade :
        /\ m.trades[t] # Null
        /\ SameDeal(row, m.trades[t]) /\ row.pay = m.trades[t].pay
        /\ row.life \in Underway
        /\ res = Synced([m EXCEPT !.trades[t] = row], t, {})

LEMMA StepsProper ==
    ASSUME NEW m, Typed(m), NEW t \in TradeIds, NEW res, Steps(m, t, res)
    PROVE  Proper(res)
<1>1. CASE res = Throw(m)
    BY <1>1, ThrowProper
<1>2. ASSUME NEW row \in SharedTrade, row.life \in Underway,
             res = Synced([m EXCEPT !.trades[t] = row], t, {})
      PROVE  Proper(res)
  <2> DEFINE m2 == [m EXCEPT !.trades[t] = row]
  <2>1. Typed(m2)
    BY <1>2, SetTrade DEF Underway
  <2>2. m2.trades[t] = row
    BY DEF Typed, Memory
  <2> HIDE DEF m2
  <2> QED
    BY <1>2, <2>1, <2>2, NullApart, SyncedProper DEF m2
<1> QED
    BY <1>1, <1>2 DEF Steps

LEMMA HoldSteps ==
    ASSUME NEW m, Typed(m), NEW t \in TradeIds
    PROVE  Steps(m, t, HoldRelease(m, t))
<1>2. CASE m.trades[t] # Null
  <2> DEFINE row == [m.trades[t] EXCEPT !.life = "RELEASE_ON_HOLD"]
  <2>1. /\ row \in SharedTrade /\ row.life \in Underway
        /\ SameDeal(row, m.trades[t]) /\ row.pay = m.trades[t].pay
    BY <1>2 DEF Typed, Memory, SharedTrade, Lifecycle, Underway, SameDeal
  <2>2. HoldRelease(m, t) = Synced([m EXCEPT !.trades[t] = row], t, {})
    BY <1>2 DEF HoldRelease
  <2> HIDE DEF row
  <2> QED
    BY <1>2, <2>1, <2>2 DEF Steps
<1> QED
    BY <1>2 DEF HoldRelease, Steps

LEMMA RequestSteps ==
    ASSUME NEW m, Typed(m), NEW t \in TradeIds
    PROVE  Steps(m, t, RequestRelease(m, t)) /\ Steps(m, t, RefundRequest(m, t))
<1>1. ASSUME m.trades[t] # Null, NEW life \in {"RELEASE_PENDING", "REFUND_PENDING"}
      PROVE  Steps(m, t, Synced([m EXCEPT !.trades[t].life = life], t, {}))
  <2> DEFINE row == [m.trades[t] EXCEPT !.life = life]
  <2>1. /\ row \in SharedTrade /\ row.life \in Underway
        /\ SameDeal(row, m.trades[t]) /\ row.pay = m.trades[t].pay
    BY <1>1 DEF Typed, Memory, SharedTrade, Lifecycle, Underway, SameDeal
  <2>2. [m EXCEPT !.trades[t].life = life] = [m EXCEPT !.trades[t] = row]
    OBVIOUS
  <2> HIDE DEF row
  <2> QED
    BY <1>1, <2>1, <2>2 DEF Steps
<1> QED
    BY <1>1 DEF RequestRelease, RefundRequest, Steps

LEMMA PayoutSteps ==
    ASSUME NEW m, Typed(m), NEW t \in TradeIds, NEW op \in {"initiate", "confirm", "hold"}
    PROVE  Steps(m, t, PayoutStep(m, t, op))
<1>1. ASSUME m.trades[t] # Null,
             NEW life \in {"SELLER_PAYOUT_PENDING", "SELLER_PAYOUT_CONFIRMED", "PAYOUT_ON_HOLD"},
             NEW payout \in {"PROCESSING", "CONFIRMED", "ON_HOLD"}
      PROVE  Steps(m, t, Synced([m EXCEPT !.trades[t].life = life,
                                          !.trades[t].payout = payout], t, {}))
  <2> DEFINE row == [m.trades[t] EXCEPT !.life = life, !.payout = payout]
  <2>1. /\ row \in SharedTrade /\ row.life \in Underway
        /\ SameDeal(row, m.trades[t]) /\ row.pay = m.trades[t].pay
    <3>1. m.trades[t] \in SharedTrade
      BY <1>1 DEF Typed, Memory
    <3>2. row \in SharedTrade
      BY <1>1, <3>1 DEF SharedTrade, Lifecycle
    <3>3. row.life = life /\ row.pay = m.trades[t].pay /\ SameDeal(row, m.trades[t])
      BY <3>1 DEF SharedTrade, SameDeal
    <3>4. life \in Underway
      BY <1>1 DEF Underway, Lifecycle
    <3> QED
      BY <3>2, <3>3, <3>4
  <2> DEFINE x == [m EXCEPT !.trades[t].life = life]
             y == [x EXCEPT !.trades[t].payout = payout]
  <2>2. y = [m EXCEPT !.trades[t] = row]
    <3>1. x = [m EXCEPT !.trades[t] = [m.trades[t] EXCEPT !.life = life]]
      OBVIOUS
    <3> PICK w : w = [m.trades[t] EXCEPT !.life = life]
      OBVIOUS
    <3>2. m.trades[t] \in SharedTrade /\ w \in SharedTrade
      BY <1>1 DEF Typed, Memory, SharedTrade, Lifecycle
    <3>3. row = [w EXCEPT !.payout = payout]
      BY <1>1 DEF Typed, Memory, SharedTrade
    <3> HIDE DEF row
    <3>4. x \in Memory /\ x.trades = [m.trades EXCEPT ![t] = w]
      BY <3>1, <3>2 DEF Typed, Memory
    <3>5. y = [x EXCEPT !.trades[t] = row]
      <4>1. x.trades[t] = w
        BY <3>1 DEF Typed, Memory
      <4> HIDE DEF x
      <4> QED
        BY <4>1, <3>3
    <3>6. m \in Memory /\ m.trades \in [TradeIds -> SharedTrade \cup {Null}]
      BY DEF Typed, Memory
    <3>7. [m.trades EXCEPT ![t] = row] = [x.trades EXCEPT ![t] = row]
      BY <3>4, <3>6
    <3> HIDE DEF x, y
    <3> PICK f : f = [m.trades EXCEPT ![t] = row]
      OBVIOUS
    <3>8. y = [x EXCEPT !.trades = f]
      BY <3>5, <3>7
    <3>9. x = [m EXCEPT !.trades = [m.trades EXCEPT ![t] = w]]
      BY <3>1 DEF x
    <3>10. [x EXCEPT !.trades = f] = [m EXCEPT !.trades = f]
      BY <3>6, <3>9 DEF Memory
    <3> QED
      BY <3>8, <3>10 DEF x, y
  <2>3. Synced([m EXCEPT !.trades[t].life = life, !.trades[t].payout = payout], t, {})
            = Synced([m EXCEPT !.trades[t] = row], t, {})
    BY <2>2
  <2> HIDE DEF row
  <2> QED
    BY <1>1, <2>1, <2>3 DEF Steps
<1>2. CASE op = "initiate"
  <2>1. \/ PayoutStep(m, t, op) = Throw(m)
        \/ /\ m.trades[t] # Null
           /\ PayoutStep(m, t, op) =
                Synced([m EXCEPT !.trades[t].life = "SELLER_PAYOUT_PENDING",
                                 !.trades[t].payout = "PROCESSING"], t, {})
    BY <1>2 DEF PayoutStep
  <2> QED
    BY <1>1, <2>1 DEF Steps
<1>3. CASE op = "confirm"
  <2>1. \/ PayoutStep(m, t, op) = Throw(m)
        \/ /\ m.trades[t] # Null
           /\ PayoutStep(m, t, op) =
                Synced([m EXCEPT !.trades[t].life = "SELLER_PAYOUT_CONFIRMED",
                                 !.trades[t].payout = "CONFIRMED"], t, {})
    BY <1>3 DEF PayoutStep
  <2> QED
    BY <1>1, <2>1 DEF Steps
<1>4. CASE op = "hold"
  <2>1. \/ PayoutStep(m, t, op) = Throw(m)
        \/ /\ m.trades[t] # Null
           /\ PayoutStep(m, t, op) =
                Synced([m EXCEPT !.trades[t].life = "PAYOUT_ON_HOLD",
                                 !.trades[t].payout = "ON_HOLD"], t, {})
    BY <1>4 DEF PayoutStep
  <2> QED
    BY <1>1, <2>1 DEF Steps
<1> QED
    BY <1>2, <1>3, <1>4
-----------------------------------------------------------------------------
(* The release of a slot.                                                  *)
(* What a call leaves alone that only moves units and queue entries.       *)
SameTrades(m, n) ==
    /\ n.trades = m.trades /\ n.parent = m.parent
    /\ n.attempts = m.attempts /\ n.consumed = m.consumed
    /\ n.ghost.own = m.ghost.own /\ n.ghost.charged = m.ghost.charged
    /\ n.ghost.read = m.ghost.read
(* The entry q of the queue still asks for the same.                       *)
SameEntry(e, old) ==
    e.listing = old.listing /\ e.units = old.units /\ e.buyer = old.buyer

LEMMA ReleaseFields ==
    ASSUME NEW m, Typed(m), NEW t \in TradeIds, NEW c \in BOOLEAN
    PROVE  LET n == ReleaseSlot(m, t, c) IN
           /\ SameTrades(m, n)
           /\ n.ghost.created = m.ghost.created
    BY DEF ReleaseSlot, SameTrades, Typed, Memory, Ghost

LEMMA EmptiedTyped ==
    ASSUME NEW i \in SellerInventory, NEW t \in TradeIds, NEW units \in Nat,
           NEW c \in BOOLEAN
    PROVE  LET v == Emptied(i, t, units, c) IN
           /\ v \in SellerInventory
           /\ v.total = i.total /\ v.reserved = i.reserved
           /\ v.slot = SlotAfter(i.slot, t)
           /\ v.alloc = IF Moved(i, units) THEN i.alloc - units ELSE i.alloc
           /\ v.avail = IF Moved(i, units) /\ ~c THEN i.avail + units ELSE i.avail
           /\ v.filled = FilledAfter(i, units, c)
<1>1. (Moved(i, units) => i.alloc - units \in Nat) /\ SlotAfter(i.slot, t) \in TradeIds \cup {Null}
    BY DEF Moved, SlotAfter, SellerInventory
<1>2. FilledAfter(i, units, c) \in Nat /\ i.avail + units \in Nat
    BY DEF FilledAfter, SellerInventory
<1> QED
    BY <1>1, <1>2 DEF Emptied, SellerInventory

(* Entries close or come to the head; none is made.                        *)
LEMMA AdvancedTyped ==
    ASSUME NEW queue \in [QueueRefs -> QueueEntry \cup {Null}], NEW l \in Listings,
           NEW t \in TradeIds, NEW c \in BOOLEAN
    PROVE  LET w == Advanced(queue, l, t, c) IN
           /\ w \in [QueueRefs -> QueueEntry \cup {Null}]
           /\ \A q \in QueueRefs :
                /\ w[q] = Null <=> queue[q] = Null
                /\ queue[q] # Null => SameEntry(w[q], queue[q])
                /\ queue[q] # Null =>
                    (w[q].status \in {"QUEUED", "ELIGIBLE"}
                        <=> queue[q].status \in {"QUEUED", "ELIGIBLE"})
<1> PICK w : w = Advanced(queue, l, t, c)
    OBVIOUS
<1>1. ASSUME NEW q \in QueueRefs, queue[q] # Null
      PROVE  \/ w[q] = queue[q]
             \/ /\ queue[q].status = "ACTIVE_SLOT"
                /\ \/ w[q] = [queue[q] EXCEPT !.status = "COMPLETED"]
                   \/ w[q] = [queue[q] EXCEPT !.status = "EXPIRED"]
             \/ /\ queue[q].status = "QUEUED"
                /\ w[q] = [queue[q] EXCEPT !.status = "ELIGIBLE", !.pos = 1]
    BY <1>1 DEF Advanced
<1>2. ASSUME NEW q \in QueueRefs, queue[q] # Null
      PROVE  /\ w[q] \in QueueEntry
             /\ SameEntry(w[q], queue[q])
             /\ w[q].status \in {"QUEUED", "ELIGIBLE"}
                        <=> queue[q].status \in {"QUEUED", "ELIGIBLE"}
  <2> PICK e \in QueueEntry : e = queue[q]
    BY <1>2
  <2>1. /\ [e EXCEPT !.status = "ELIGIBLE", !.pos = 1] \in QueueEntry
        /\ [e EXCEPT !.status = "COMPLETED"] \in QueueEntry
        /\ [e EXCEPT !.status = "EXPIRED"] \in QueueEntry
    BY DEF QueueEntry
  <2>2. /\ SameEntry([e EXCEPT !.status = "ELIGIBLE", !.pos = 1], e)
        /\ SameEntry([e EXCEPT !.status = "COMPLETED"], e)
        /\ SameEntry([e EXCEPT !.status = "EXPIRED"], e)
        /\ [e EXCEPT !.status = "ELIGIBLE", !.pos = 1].status = "ELIGIBLE"
        /\ [e EXCEPT !.status = "COMPLETED"].status = "COMPLETED"
        /\ [e EXCEPT !.status = "EXPIRED"].status = "EXPIRED"
    BY DEF QueueEntry, SameEntry
  <2>3. SameEntry(e, e)
    BY DEF SameEntry
  <2> QED
    BY <1>1, <1>2, <2>1, <2>2, <2>3
<1>3. ASSUME NEW q \in QueueRefs, queue[q] = Null
      PROVE  w[q] = Null
    BY <1>3 DEF Advanced
<1>4. w = [q \in QueueRefs |-> w[q]]
    BY DEF Advanced
<1> QED
    BY <1>2, <1>3, <1>4, NullApart

LEMMA ReleaseTyped ==
    ASSUME NEW m, Typed(m), NEW t \in TradeIds, m.trades[t] # Null, NEW c \in BOOLEAN
    PROVE  Typed(ReleaseSlot(m, t, c))
<1> PICK l : l = Keeper(m, t)
    OBVIOUS
<1>1. CASE l \notin Listings \/ m.inv[l] = Null
    BY <1>1 DEF ReleaseSlot
<1>2. CASE l \in Listings /\ m.inv[l] # Null
  <2> PICK v : v = Emptied(m.inv[l], t, m.trades[t].units, c)
    OBVIOUS
  <2> PICK w : w = Advanced(m.queue, l, t, c)
    OBVIOUS
  <2> PICK r : r = Upto(m.ghost.released[t] + 1, 2)
    OBVIOUS
  <2>1. ReleaseSlot(m, t, c) = [m EXCEPT !.inv[l] = v, !.queue = w, !.ghost.released[t] = r]
    BY <1>2 DEF ReleaseSlot
  <2>2. v \in SellerInventory
    <3>1. m.inv[l] \in SellerInventory /\ m.trades[t].units \in Nat
      BY <1>2 DEF Typed, Memory, SharedTrade
    <3> QED
      BY <3>1, EmptiedTyped
  <2>3. w \in [QueueRefs -> QueueEntry \cup {Null}]
    BY <1>2, AdvancedTyped DEF Typed, Memory
  <2>4. r \in 0..2
    <3>1. m.ghost.released[t] \in 0..2
      BY DEF Typed, Memory, Ghost
    <3> QED
      BY <3>1 DEF Upto
  <2>5. ReleaseSlot(m, t, c) \in Memory
    <3>1. l \in Listings /\ m \in Memory
      BY <1>2 DEF Typed
    <3>2. [m EXCEPT !.inv[l] = v, !.queue = w, !.ghost.released[t] = r] \in Memory
      BY <2>2, <2>3, <2>4, <3>1 DEF Memory, Ghost
    <3> QED
      BY <2>1, <3>2
  <2> QED
    BY <2>5, ReleaseFields DEF Typed, OpensListed, SameTrades
<1> QED
    BY <1>1, <1>2
-----------------------------------------------------------------------------
(* Invariants of the memory.  The transaction a row names is remembered as *)
(* consumed by that trade.                                                 *)
PaidTo(m) ==
    \A t \in TradeIds :
        m.trades[t] # Null /\ m.trades[t].flw # Null => m.consumed[m.trades[t].flw] = t
(* The row of a trade this process opened names the open attempt of the    *)
(* trade, and the trade is charged with an expiry when it leaves its wait  *)
(* for the payment, to which it does not return.                           *)
OwnedAt(m, now, t) ==
    /\ m.trades[t] # Null
    /\ \A r \in TxRefs : OpenAttempt(m, now, r) /\ m.attempts[r].trade = t
                            => m.trades[t].ref = r
    /\ m.ghost.charged[t] <= 1
    /\ m.trades[t].life = "AWAITING_PAYMENT" => m.ghost.charged[t] = 0
Owned(m, now) == \A t \in m.ghost.own : OwnedAt(m, now, t)
Sound(m, now) == Typed(m) /\ PaidTo(m) /\ Owned(m, now)
Good(res, now) == Proper(res) /\ Sound(res.mem, now)

(* What most calls do: no attempt opens, no trade is opened or paid and    *)
(* none waits for its payment again.                                       *)
Quieter(m, n, now) ==
    /\ n.ghost.own \subseteq m.ghost.own
    /\ n.consumed = m.consumed
    /\ \A r \in TxRefs : OpenAttempt(n, now, r) =>
            OpenAttempt(m, now, r) /\ n.attempts[r].trade = m.attempts[r].trade
    /\ \A t \in TradeIds : n.trades[t] # Null =>
            \/ n.trades[t].flw = Null
            \/ m.trades[t] # Null /\ n.trades[t].flw = m.trades[t].flw
    /\ \A t \in n.ghost.own :
            /\ n.trades[t] # Null /\ n.trades[t].ref = m.trades[t].ref
            /\ n.trades[t].life = "AWAITING_PAYMENT"
                    => m.trades[t].life = "AWAITING_PAYMENT"
            /\ n.ghost.charged[t] = m.ghost.charged[t]

LEMMA OwnIds ==
    ASSUME NEW m, Typed(m)
    PROVE  m.ghost.own \subseteq TradeIds
    BY DEF Typed, Memory, Ghost

LEMMA QuieterSound ==
    ASSUME NEW m, NEW n, NEW now, Sound(m, now), Typed(n), Quieter(m, n, now)
    PROVE  Sound(n, now)
<1>1. PaidTo(n)
    BY DEF Sound, PaidTo, Quieter
<1>2. ASSUME NEW t \in n.ghost.own
      PROVE  OwnedAt(n, now, t)
  <2>1. OwnedAt(m, now, t)
    BY DEF Sound, Owned, Quieter
  <2> QED
    BY <2>1 DEF OwnedAt, Quieter
<1> QED
    BY <1>1, <1>2 DEF Sound, Owned

LEMMA SameTradesSound ==
    ASSUME NEW m, NEW n, NEW now, Sound(m, now), Typed(n), SameTrades(m, n)
    PROVE  Sound(n, now)
<1>1. \A t \in m.ghost.own : m.trades[t] # Null
    BY DEF Sound, Owned, OwnedAt
<1>2. Quieter(m, n, now)
    BY <1>1 DEF Quieter, SameTrades, OpenAttempt
<1> QED
    BY <1>2, QuieterSound

(* A row may change but for what it names.                                 *)
LEMMA RowSound ==
    ASSUME NEW m, NEW now, Sound(m, now), NEW t \in TradeIds, m.trades[t] # Null,
           NEW row \in SharedTrade, row.life = "OPEN" => t \in Listings,
           row.flw = m.trades[t].flw, row.ref = m.trades[t].ref,
           row.life = "AWAITING_PAYMENT" => m.trades[t].life = "AWAITING_PAYMENT"
    PROVE  Sound([m EXCEPT !.trades[t] = row], now)
<1> PICK n : n = [m EXCEPT !.trades[t] = row]
    OBVIOUS
<1>1. \A u \in m.ghost.own : m.trades[u] # Null
    BY DEF Sound, Owned, OwnedAt
<1>2. /\ n.trades = [m.trades EXCEPT ![t] = row]
      /\ n.ghost = m.ghost /\ n.consumed = m.consumed /\ n.attempts = m.attempts
    BY DEF Sound, Typed, Memory
<1>3. Typed(n)
    BY SetTrade DEF Sound
<1>4. \A u \in TradeIds : n.trades[u] = IF u = t THEN row ELSE m.trades[u]
    BY <1>2 DEF Sound, Typed, Memory
<1>5. Quieter(m, n, now)
    BY <1>1, <1>2, <1>4, NullApart, OwnIds DEF Quieter, OpenAttempt, Sound
<1> QED
    BY <1>3, <1>5, QuieterSound

LEMMA StepsGood ==
    ASSUME NEW m, NEW now, Sound(m, now), NEW t \in TradeIds, NEW res, Steps(m, t, res)
    PROVE  Good(res, now)
<1>1. Proper(res)
    BY StepsProper DEF Sound
<1>2. CASE res = Throw(m)
    BY <1>1, <1>2 DEF Throw, Result, Good
<1>3. ASSUME NEW row \in SharedTrade, m.trades[t] # Null, SameDeal(row, m.trades[t]),
             row.life \in Underway, res = Synced([m EXCEPT !.trades[t] = row], t, {})
      PROVE  Good(res, now)
  <2>1. Sound([m EXCEPT !.trades[t] = row], now)
    BY <1>3, RowSound DEF SameDeal, Underway
  <2> QED
    BY <1>1, <1>3, <2>1 DEF Good, Synced, Result
<1> QED
    BY <1>2, <1>3 DEF Steps
-----------------------------------------------------------------------------
(* The calls that end a trade.                                             *)
LEMMA ReleaseSound ==
    ASSUME NEW m, NEW now, Sound(m, now), NEW t \in TradeIds, m.trades[t] # Null,
           NEW c \in BOOLEAN
    PROVE  Sound(ReleaseSlot(m, t, c), now)
    BY ReleaseTyped, ReleaseFields, SameTradesSound DEF Sound

LEMMA ReleasedProper ==
    ASSUME NEW m, NEW t, NEW l \in ReleasedListing(m, t)
    PROVE  l \in Listings /\ m.inv[l] # Null
    BY DEF ReleasedListing

LEMMA ReleaseInv ==
    ASSUME NEW m, Typed(m), NEW t \in TradeIds, m.trades[t] # Null, NEW c \in BOOLEAN,
           NEW l \in Listings
    PROVE  ReleaseSlot(m, t, c).inv[l] = Null <=> m.inv[l] = Null
<1> PICK k : k = Keeper(m, t)
    OBVIOUS
<1>1. CASE k \notin Listings \/ m.inv[k] = Null
    BY <1>1 DEF ReleaseSlot
<1>2. CASE k \in Listings /\ m.inv[k] # Null
  <2> PICK v : v = Emptied(m.inv[k], t, m.trades[t].units, c)
    OBVIOUS
  <2>1. ReleaseSlot(m, t, c).inv = [m.inv EXCEPT ![k] = v]
    BY <1>2 DEF ReleaseSlot, Typed, Memory
  <2>2. v \in SellerInventory
    <3>1. m.inv[k] \in SellerInventory /\ m.trades[t].units \in Nat
      BY <1>2 DEF Typed, Memory, SharedTrade
    <3> QED
      BY <3>1, EmptiedTyped
  <2> QED
    BY <1>2, <2>1, <2>2, NullApart DEF Typed, Memory
<1> QED
    BY <1>1, <1>2

(* The end of a trade whose row is there and whose slot is released.        *)
LEMMA EndGood ==
    ASSUME NEW m, NEW n, NEW now, NEW t \in TradeIds, NEW c \in BOOLEAN,
           Sound(m, now), Sound(n, now), n.trades[t] # Null,
           n.inv = m.inv
    PROVE  Good(Synced(ReleaseSlot(n, t, c), t, ReleasedListing(m, t)), now)
<1> PICK x : x = ReleaseSlot(n, t, c)
    OBVIOUS
<1>1. Sound(x, now)
    BY ReleaseSound
<1>2. x.trades[t] # Null
    BY ReleaseFields DEF SameTrades, Sound
<1>3. \A l \in ReleasedListing(m, t) : l \in Listings => x.inv[l] # Null
    BY ReleasedProper, ReleaseInv DEF Sound
<1>4. Proper(Synced(x, t, ReleasedListing(m, t)))
    BY <1>1, <1>2, <1>3, SyncedProper DEF Sound
<1> QED
    BY <1>1, <1>4 DEF Good, Synced, Result

(* The trade t is closed, and only its row is another one.                 *)
ClosedRow(row, pay) == [row EXCEPT !.life = "CANCELLED", !.pay = pay]
Closes(m, n, t, row) ==
    /\ n.trades = [m.trades EXCEPT ![t] = row]
    /\ n.inv = m.inv /\ n.queue = m.queue /\ n.ghost = m.ghost /\ n.parent = m.parent
LEMMA ClosedSound ==
    ASSUME NEW m, NEW now, Sound(m, now), NEW t \in TradeIds, m.trades[t] # Null,
           NEW pay \in {"EXPIRED", "FAILED"}, NEW attempt \in {"EXPIRED", "FAILED"}
    PROVE  /\ Sound(Closed(m, t, pay, attempt), now)
           /\ Closes(m, Closed(m, t, pay, attempt), t, ClosedRow(m.trades[t], pay))
<1> PICK old \in SharedTrade : old = m.trades[t]
    BY DEF Sound, Typed, Memory
<1> PICK row : row = [old EXCEPT !.life = "CANCELLED", !.pay = pay]
    OBVIOUS
<1>1. row \in SharedTrade /\ row.life = "CANCELLED" /\ row.flw = old.flw /\ row.ref = old.ref
  <2>1. row \in SharedTrade
    <3>1. "CANCELLED" \in Lifecycle /\ pay \in PaymentStates
      BY DEF Lifecycle, PaymentStates
    <3> QED
      BY <3>1 DEF SharedTrade
  <2>2. row.life = "CANCELLED" /\ row.flw = old.flw /\ row.ref = old.ref
    BY DEF SharedTrade
  <2> QED
    BY <2>1, <2>2
<1> PICK x : x = [m EXCEPT !.trades[t] = row]
    OBVIOUS
<1>2. Sound(x, now)
    BY <1>1, RowSound
<1> PICK a : a = [r \in TxRefs |->
            IF r = m.trades[t].ref /\ m.attempts[r] # Null
            THEN [m.attempts[r] EXCEPT !.status = attempt] ELSE m.attempts[r]]
    OBVIOUS
<1>3. \A r \in TxRefs : \/ a[r] = m.attempts[r]
                        \/ /\ m.attempts[r] # Null
                           /\ a[r] = [m.attempts[r] EXCEPT !.status = attempt]
    OBVIOUS
<1>4. ASSUME NEW r \in TxRefs
      PROVE  /\ a[r] \in PaymentAttempt \cup {Null}
             /\ OpenAttempt(m, now, r) \/ a[r] = Null \/ a[r].status # "REDIRECT_READY"
                \/ ~(a[r].expires > now)
             /\ a[r] # Null => m.attempts[r] # Null /\ a[r].trade = m.attempts[r].trade
  <2>1. m.attempts[r] \in PaymentAttempt \cup {Null}
    BY DEF Sound, Typed, Memory
  <2> QED
    BY <1>3, <2>1, NullApart DEF PaymentAttempt, OpenAttempt
<1> PICK n : n = Closed(m, t, pay, attempt)
    OBVIOUS
<1>5. n = [m EXCEPT !.trades[t] = row, !.attempts = a]
    BY DEF Closed
<1>6. n.trades = [m.trades EXCEPT ![t] = row]
    BY <1>5 DEF Sound, Typed, Memory
<1>7. n.attempts = a /\ n.inv = m.inv /\ n.queue = m.queue
    BY <1>5 DEF Sound, Typed, Memory
<1>8. n.ghost = m.ghost /\ n.parent = m.parent /\ n.consumed = m.consumed
    BY <1>5 DEF Sound, Typed, Memory
<1>9. a \in [TxRefs -> PaymentAttempt \cup {Null}]
    BY <1>4
<1>10. x.trades = n.trades /\ x.ghost = m.ghost /\ x.attempts = m.attempts /\ x.consumed = m.consumed
    BY <1>6 DEF Sound, Typed, Memory
<1>11. n \in Memory
  <2>1. m \in Memory
    BY DEF Sound, Typed
  <2>2. [m EXCEPT !.trades[t] = row, !.attempts = a] \in Memory
    BY <1>1, <1>9, <2>1 DEF Memory
  <2> QED
    BY <1>5, <2>2
<1>12. Typed(n)
    BY <1>2, <1>10, <1>11 DEF Sound, Typed, OpensListed
<1>13. \A r \in TxRefs : OpenAttempt(n, now, r) =>
            OpenAttempt(x, now, r) /\ n.attempts[r].trade = x.attempts[r].trade
    BY <1>4, <1>7, <1>10 DEF OpenAttempt
<1>14. \A u \in x.ghost.own : x.trades[u] # Null
    BY <1>2 DEF Sound, Owned, OwnedAt
<1>15. Quieter(x, n, now)
    BY <1>8, <1>10, <1>13, <1>14 DEF Quieter
<1>16. Sound(n, now)
    BY <1>2, <1>12, <1>15, QuieterSound
<1>17. row = ClosedRow(m.trades[t], pay)
    BY DEF ClosedRow
<1>18. Closes(m, n, t, row)
    BY <1>6, <1>7, <1>8 DEF Closes
<1> QED
    BY <1>16, <1>17, <1>18

LEMMA NothingGood ==
    ASSUME NEW m, NEW now, Sound(m, now), NEW ok
    PROVE  Good(Result(m, {}, {}, ok), now)
    BY DEF Result, Good, Proper, Sound

LEMMA ThrowGood ==
    ASSUME NEW m, NEW now, Sound(m, now)
    PROVE  Good(Throw(m), now)
    BY NothingGood DEF Throw

LEMMA CancelGood ==
    ASSUME NEW m, NEW now, Sound(m, now), NEW t \in TradeIds, NEW u
    PROVE  Good(CancelTrade(m, u, t), now)
<1>1. ASSUME m.trades[t] # Null
      PROVE  Good(Synced(ReleaseSlot(Closed(m, t, "FAILED", "FAILED"), t, FALSE),
                         t, ReleasedListing(m, t)), now)
  <2> PICK n : n = Closed(m, t, "FAILED", "FAILED")
    OBVIOUS
  <2>0. Sound(n, now) /\ Closes(m, n, t, ClosedRow(m.trades[t], "FAILED"))
    BY <1>1, ClosedSound
  <2>1. Sound(n, now) /\ n.inv = m.inv
        /\ n.trades = [m.trades EXCEPT ![t] = [m.trades[t] EXCEPT !.life = "CANCELLED", !.pay = "FAILED"]]
    BY <2>0 DEF Closes, ClosedRow
  <2>2. n.trades[t] # Null
    <3>1. m.trades[t] \in SharedTrade
      BY <1>1 DEF Sound, Typed, Memory
    <3>2. [m.trades[t] EXCEPT !.life = "CANCELLED", !.pay = "FAILED"] \in SharedTrade
      BY <3>1 DEF SharedTrade, Lifecycle, PaymentStates
    <3> QED
      BY <2>1, <3>2, NullApart DEF Sound, Typed, Memory
  <2> QED
    BY <2>1, <2>2, EndGood
<1> QED
  BY <1>1, ThrowGood, NothingGood DEF CancelTrade

LEMMA RefundGood ==
    ASSUME NEW m, NEW now, Sound(m, now), NEW t \in TradeIds
    PROVE  Good(RefundComplete(m, t), now)
<1>1. ASSUME m.trades[t] # Null
      PROVE  Good(Synced(ReleaseSlot([m EXCEPT !.trades[t].life = "CANCELLED"], t, FALSE),
                         t, ReleasedListing(m, t)), now)
  <2> PICK old \in SharedTrade : old = m.trades[t]
    BY <1>1 DEF Sound, Typed, Memory
  <2> PICK row : row = [old EXCEPT !.life = "CANCELLED"]
    OBVIOUS
  <2>1. row \in SharedTrade /\ row.life = "CANCELLED" /\ row.flw = old.flw /\ row.ref = old.ref
    BY DEF SharedTrade, Lifecycle
  <2> PICK n : n = [m EXCEPT !.trades[t] = row]
    OBVIOUS
  <2>2. Sound(n, now)
    BY <1>1, <2>1, RowSound
  <2>3. n.inv = m.inv /\ n.trades[t] # Null
    BY <2>1, NullApart DEF Sound, Typed, Memory
  <2>4. n = [m EXCEPT !.trades[t].life = "CANCELLED"]
    OBVIOUS
  <2> QED
    BY <2>2, <2>3, <2>4, EndGood
<1> QED
  BY <1>1, ThrowGood DEF RefundComplete

(* The buyer's record.                                                     *)
LEMMA TrustSound ==
    ASSUME NEW m, NEW now, Sound(m, now), NEW n, n \in Memory, SameTrades(m, n)
    PROVE  Sound(n, now)
<1>1. Typed(n)
    BY DEF Sound, Typed, OpensListed, SameTrades
<1> QED
    BY <1>1, SameTradesSound

LEMMA CountUp ==
    ASSUME NEW n \in 0..MaxCount
    PROVE  Upto(n + 1, MaxCount) \in 0..MaxCount /\ 0 \in 0..MaxCount
    BY CountAssumption DEF Upto

LEMMA TrustTyped ==
    ASSUME NEW s \in TrustSummary, NEW now \in Nat
    PROVE  Rewarded(s) \in TrustSummary /\ Penalised(s, now) \in TrustSummary
<1>1. /\ s.completed \in 0..MaxCount /\ s.expiries \in 0..MaxCount
      /\ s.streak \in 0..MaxCount
    BY DEF TrustSummary
<1> PICK c \in 0..MaxCount : c = Upto(s.completed + 1, MaxCount)
    BY <1>1, CountUp
<1> PICK e \in 0..MaxCount : e = Upto(s.expiries + 1, MaxCount)
    BY <1>1, CountUp
<1> PICK k \in 0..MaxCount : k = Upto(s.streak + 1, MaxCount)
    BY <1>1, CountUp
<1>2. 0 \in 0..MaxCount
    BY <1>1, CountUp
<1>3. now + 1 \in Nat
    OBVIOUS
<1>4. [s EXCEPT !.completed = c, !.streak = 0] \in TrustSummary
    BY <1>2 DEF TrustSummary
<1>5. [s EXCEPT !.expiries = e, !.streak = k, !.until = now + 1] \in TrustSummary
    BY <1>3 DEF TrustSummary
<1> QED
    BY <1>4, <1>5 DEF Rewarded, Penalised

LEMMA RewardGood ==
    ASSUME NEW m, NEW now, NEW t, NEW ls, Good(Synced(m, t, ls), now), NEW b \in Buyers
    PROVE  Good(Synced([m EXCEPT !.trust[b] = Rewarded(@)], t, ls), now)
<1> PICK y : y = [m EXCEPT !.trust[b] = Rewarded(@)]
    OBVIOUS
<1>1. /\ Synced(y, t, ls).mem = y /\ Synced(y, t, ls).trades = {t}
      /\ Synced(y, t, ls).listings = ls
      /\ Synced(m, t, ls).mem = m /\ Synced(m, t, ls).trades = {t}
      /\ Synced(m, t, ls).listings = ls
    BY DEF Synced, Result
<1>2. Sound(m, now) /\ Proper(Synced(m, t, ls))
    BY <1>1 DEF Good
<1>3. y \in Memory /\ SameTrades(m, y) /\ y.inv = m.inv
  <2>1. m \in Memory /\ m.trust \in [Buyers -> TrustSummary]
    BY <1>2 DEF Sound, Typed, Memory
  <2>2. Rewarded(m.trust[b]) \in TrustSummary
    BY <2>1, TrustTyped, 0 \in Nat
  <2> QED
    BY <2>1, <2>2 DEF Memory, SameTrades
<1>4. Sound(y, now)
    BY <1>2, <1>3, TrustSound
<1>5. Typed(y) /\ y.trades = m.trades /\ y.inv = m.inv
    BY <1>3, <1>4 DEF SameTrades, Sound
<1>6. Proper(Synced(y, t, ls))
    BY <1>1, <1>2, <1>5 DEF Proper
<1> QED
    BY <1>1, <1>4, <1>6 DEF Good

LEMMA CompleteGood ==
    ASSUME NEW m, NEW now, Sound(m, now), NEW t \in TradeIds
    PROVE  Good(CompletePeerTrade(m, t), now)
<1>1. CASE m.trades[t] = Null
    BY <1>1, NothingGood DEF CompletePeerTrade
<1>2. CASE m.trades[t] # Null
  <2> PICK old \in SharedTrade : old = m.trades[t]
    BY <1>2 DEF Sound, Typed, Memory
  <2> PICK row : row = Finished(old)
    OBVIOUS
  <2>1. row \in SharedTrade /\ row.life = "COMPLETED" /\ row.flw = old.flw /\ row.ref = old.ref
    <3>1. row \in SharedTrade
      <4>1. "COMPLETED" \in Lifecycle /\ "CONFIRMED" \in PaymentStates
        BY DEF Lifecycle, PaymentStates
      <4> QED
        BY <4>1 DEF SharedTrade, Finished
    <3>2. row.life = "COMPLETED" /\ row.flw = old.flw /\ row.ref = old.ref
      BY DEF SharedTrade, Finished
    <3> QED
      BY <3>1, <3>2
  <2> PICK n : n = [m EXCEPT !.trades[t] = row]
    OBVIOUS
  <2>2. Sound(n, now)
    BY <1>2, <2>1, RowSound
  <2>3. n.inv = m.inv /\ n.trades[t] = row
    BY <2>1 DEF Sound, Typed, Memory
  <2> PICK done : done = ReleaseSlot(n, t, TRUE)
    OBVIOUS
  <2>4. Good(Synced(done, t, ReleasedListing(m, t)), now)
    BY <2>1, <2>2, <2>3, NullApart, EndGood
  <2>5. CASE old.buyer = Null
    BY <1>2, <2>4, <2>5 DEF CompletePeerTrade
  <2>6. CASE old.buyer # Null
    <3> PICK b \in Buyers : b = old.buyer
      BY <2>6 DEF SharedTrade
    <3> PICK y : y = [done EXCEPT !.trust[b] = Rewarded(@)]
      OBVIOUS
    <3>1. Good(Synced(y, t, ReleasedListing(m, t)), now)
      BY <2>4, RewardGood
    <3>2. CompletePeerTrade(m, t) = Synced(y, t, ReleasedListing(m, t))
      <4>1. b = m.trades[t].buyer /\ b # Null
        BY <2>6
      <4>2. done = ReleaseSlot([m EXCEPT !.trades[t] = Finished(@)], t, TRUE)
        OBVIOUS
      <4> QED
        BY <1>2, <4>1, <4>2 DEF CompletePeerTrade
    <3> QED
      BY <3>1, <3>2
  <2> QED
    BY <2>5, <2>6
<1> QED
  BY <1>1, <1>2

LEMMA ConfirmGood ==
    ASSUME NEW m, NEW now, Sound(m, now), NEW t \in TradeIds
    PROVE  Good(ConfirmRelease(m, t), now)
    BY CompleteGood, ThrowGood DEF ConfirmRelease
-----------------------------------------------------------------------------
(* The pass over the trades that expired: a fold, whose steps take one     *)
(* trade of the set after the other.                                       *)
Rounds(g, m, now, D) ==
    g = [s \in SUBSET D |->
            IF s = {} THEN m ELSE ExpireTrade(g[s \ {AnyOf(s)}], now, AnyOf(s))]
Round(m, now, s) == (CHOOSE g : Rounds(g, m, now, s))[s]
ExpiredTrades(m, now) == {t \in TradeIds : Expired(m, now, t)}

LEMMA RoundIs ==
    ASSUME NEW m, NEW now
    PROVE  ReconcileExpired(m, now).mem = Round(m, now, ExpiredTrades(m, now))
    BY DEF ReconcileExpired, FoldSet, MapThenFoldSet, Rounds, Round, Result, ExpiredTrades, AnyOf

LEMMA RoundsUnique ==
    ASSUME NEW m, NEW now, NEW D, NEW E, NEW g, NEW h, IsFiniteSet(D),
           Rounds(g, m, now, D), Rounds(h, m, now, E), NEW s \in SUBSET D, s \in SUBSET E
    PROVE  g[s] = h[s]
<1> DEFINE B == {r \in SUBSET D : r \in SUBSET E /\ g[r] # h[r]}
<1> SUFFICES ASSUME B # {} PROVE FALSE
    OBVIOUS
<1>0. B \in SUBSET (SUBSET D)
    OBVIOUS
<1>1. PICK r \in B : \A q \in SUBSET r : q # r => q \notin B
  <2> HIDE DEF B
  <2> QED
    BY <1>0, LeastSubset
<1>2. CASE r = {}
    BY <1>1, <1>2 DEF Rounds
<1>3. CASE r # {}
  <2> DEFINE q == r \ {AnyOf(r)}
  <2>1. q \in SUBSET r /\ q # r
    BY <1>3, AnyOfIn
  <2>2. g[q] = h[q]
    BY <1>1, <2>1
  <2>3. /\ g[r] = ExpireTrade(g[q], now, AnyOf(r))
        /\ h[r] = ExpireTrade(h[q], now, AnyOf(r))
    BY <1>3 DEF Rounds
  <2> QED
    BY <2>2, <2>3
<1> QED
    BY <1>2, <1>3

LEMMA RoundOf ==
    ASSUME NEW m, NEW now, NEW D, IsFiniteSet(D), NEW g, Rounds(g, m, now, D),
           NEW s \in SUBSET D, \E h : Rounds(h, m, now, s)
    PROVE  g[s] = Round(m, now, s)
<1> DEFINE h == CHOOSE h : Rounds(h, m, now, s)
<1>1. Rounds(h, m, now, s)
    OBVIOUS
<1>2. Round(m, now, s) = h[s]
    BY DEF Round
<1> HIDE DEF h
<1> QED
    BY <1>1, <1>2, RoundsUnique

LEMMA RoundsExist ==
    ASSUME NEW m, NEW now, NEW D, IsFiniteSet(D)
    PROVE  \E g : Rounds(g, m, now, D)
<1> DEFINE B == {s \in SUBSET D : ~\E g : Rounds(g, m, now, s)}
<1> SUFFICES ASSUME B # {} PROVE FALSE
    OBVIOUS
<1>0. B \in SUBSET (SUBSET D)
    OBVIOUS
<1>1. PICK T \in B : \A r \in SUBSET T : r # T => r \notin B
  <2> HIDE DEF B
  <2> QED
    BY <1>0, LeastSubset
<1> DEFINE After(r) == Round(m, now, r)
           h == [s \in SUBSET T |->
                    IF s = {} THEN m
                    ELSE ExpireTrade(After(s \ {AnyOf(s)}), now, AnyOf(s))]
<1>2. ASSUME NEW r \in SUBSET T, r # T
      PROVE  h[r] = After(r)
  <2>1. IsFiniteSet(r) /\ r \in SUBSET D
    BY FS_Subset
  <2>2. PICK g : Rounds(g, m, now, r)
    BY <1>1, <1>2, <2>1
  <2>3. After(r) = g[r]
    BY <2>1, <2>2, RoundOf
  <2>4. CASE r = {}
    BY <2>2, <2>3, <2>4 DEF Rounds
  <2>5. CASE r # {}
    <3> DEFINE q == r \ {AnyOf(r)}
    <3>1. q \in SUBSET T /\ q # T /\ q \in SUBSET r
      BY <1>2
    <3>2. \E k : Rounds(k, m, now, q)
      BY <1>1, <3>1
    <3>3. g[q] = After(q)
      BY <2>1, <2>2, <3>1, <3>2, RoundOf
    <3>4. g[r] = ExpireTrade(g[q], now, AnyOf(r))
      BY <2>2, <2>5 DEF Rounds
    <3>5. h[r] = ExpireTrade(After(q), now, AnyOf(r))
      BY <2>5
    <3> QED
      BY <2>3, <3>3, <3>4, <3>5
  <2> QED
    BY <2>4, <2>5
<1>3. ASSUME NEW s \in SUBSET T, s # {}
      PROVE  h[s] = ExpireTrade(h[s \ {AnyOf(s)}], now, AnyOf(s))
  <2>1. s \ {AnyOf(s)} \in SUBSET T /\ s \ {AnyOf(s)} # T
    BY <1>3, AnyOfIn
  <2>2. h[s \ {AnyOf(s)}] = After(s \ {AnyOf(s)})
    BY <1>2, <2>1
  <2> QED
    BY <1>3, <2>2
<1>4. h[{}] = m
    OBVIOUS
<1>5. Rounds(h, m, now, T)
  <2>1. h = [s \in SUBSET T |-> h[s]]
    OBVIOUS
  <2>2. \A s \in SUBSET T : h[s] = IF s = {} THEN m
                                   ELSE ExpireTrade(h[s \ {AnyOf(s)}], now, AnyOf(s))
    BY <1>3, <1>4
  <2> HIDE DEF h
  <2> QED
    BY <2>1, <2>2 DEF Rounds
<1> QED
    BY <1>1, <1>5

(* What holds of the memory before the pass, with no trade done, and is    *)
(* kept when a trade that is due is done, holds after it.  Q is the set of *)
(* memories, with the trades done, of which it holds.                      *)
LEMMA Reconciles ==
    ASSUME NEW m, NEW now, NEW Q,
           <<m, {}>> \in Q,
           \A x, s : \A t \in ExpiredTrades(m, now) \ s :
                <<x, s>> \in Q /\ s \subseteq ExpiredTrades(m, now)
                    => <<ExpireTrade(x, now, t), s \cup {t}>> \in Q
    PROVE  <<ReconcileExpired(m, now).mem, ExpiredTrades(m, now)>> \in Q
<1> PICK D : D = ExpiredTrades(m, now)
    OBVIOUS
<1>1. IsFiniteSet(D)
    BY FiniteAssumption, FS_Subset DEF ExpiredTrades
<1>2. PICK g : Rounds(g, m, now, D)
    BY <1>1, RoundsExist
<1> DEFINE B == {s \in SUBSET D : <<g[s], s>> \notin Q}
<1>3. B = {}
  <2> SUFFICES ASSUME B # {} PROVE FALSE
    OBVIOUS
  <2>0. B \in SUBSET (SUBSET D)
    OBVIOUS
  <2>1. PICK s \in B : \A r \in SUBSET s : r # s => r \notin B
    <3> HIDE DEF B
    <3> QED
      BY <1>1, <2>0, LeastSubset
  <2>2. s # {}
    BY <1>2 DEF Rounds
  <2> PICK t : t = AnyOf(s)
    OBVIOUS
  <2> PICK r : r = s \ {t}
    OBVIOUS
  <2>3. t \in s /\ r \in SUBSET s /\ r # s /\ r \cup {t} = s /\ t \in D \ r
    BY <2>2, AnyOfIn
  <2>4. <<g[r], r>> \in Q
    BY <2>1, <2>3
  <2>5. g[s] = ExpireTrade(g[r], now, t)
    BY <1>2, <2>2 DEF Rounds
  <2>6. r \subseteq ExpiredTrades(m, now)
    BY <2>1, <2>3
  <2>7. <<ExpireTrade(g[r], now, t), r \cup {t}>> \in Q
    BY <2>3, <2>4, <2>6
  <2>8. <<g[s], s>> \notin Q
    BY <2>1
  <2> QED
    BY <2>3, <2>5, <2>7, <2>8
<1>4. g[D] = ReconcileExpired(m, now).mem
    BY <1>1, <1>2, RoundIs, RoundOf
<1>5. <<g[D], D>> \in Q
    BY <1>3
<1> QED
    BY <1>4, <1>5

(* Of a memory only the buyer's record is another one.                     *)
Charges(m, n, t) ==
    /\ n.inv = m.inv /\ n.trades = m.trades /\ n.parent = m.parent
    /\ n.queue = m.queue /\ n.attempts = m.attempts /\ n.consumed = m.consumed
    /\ n.ghost.own = m.ghost.own /\ n.ghost.created = m.ghost.created
    /\ n.ghost.read = m.ghost.read /\ n.ghost.released = m.ghost.released
    /\ \A u \in TradeIds :
        \/ n.ghost.charged[u] = m.ghost.charged[u]
        \/ u = t /\ n.ghost.charged[u] = Upto(m.ghost.charged[t] + 1, 2)
LEMMA ChargeFields ==
    ASSUME NEW m, Typed(m), NEW now, NEW t \in TradeIds
    PROVE  Charges(m, Charge(m, now, t), t)
<1> PICK b : b = m.trades[t].buyer
    OBVIOUS
<1>1. CASE b = Null
    BY <1>1 DEF Charge, Charges
<1>2. CASE b # Null
  <2> PICK x : x = Penalised(m.trust[b], now)
    OBVIOUS
  <2> PICK k : k = Upto(m.ghost.charged[t] + 1, 2)
    OBVIOUS
  <2>1. Charge(m, now, t) = [m EXCEPT !.trust[b] = x, !.ghost.charged[t] = k]
    BY <1>2 DEF Charge
  <2>2. m \in Memory
    BY DEF Typed
  <2> QED
    BY <2>1, <2>2 DEF Memory, Ghost, Charges
<1> QED
    BY <1>1, <1>2

LEMMA ChargeSound ==
    ASSUME NEW m, NEW now \in Nat, Sound(m, now), NEW t \in TradeIds, m.trades[t] # Null,
           m.trades[t].life = "CANCELLED",
           t \in m.ghost.own => m.ghost.charged[t] = 0
    PROVE  Sound(Charge(m, now, t), now)
<1> PICK b : b = m.trades[t].buyer
    OBVIOUS
<1>1. CASE b = Null
    BY <1>1 DEF Charge
<1>2. CASE b # Null
  <2>1. m \in Memory /\ m.trades[t] \in SharedTrade
    BY DEF Sound, Typed, Memory
  <2>2. b \in Buyers
    BY <1>2, <2>1 DEF SharedTrade
  <2> PICK n : n = Charge(m, now, t)
    OBVIOUS
  <2> PICK x : x = Penalised(m.trust[b], now)
    OBVIOUS
  <2> PICK k : k = Upto(m.ghost.charged[t] + 1, 2)
    OBVIOUS
  <2>3. n = [m EXCEPT !.trust[b] = x, !.ghost.charged[t] = k]
    BY <1>2 DEF Charge
  <2>4. x \in TrustSummary
    BY <2>1, <2>2, TrustTyped DEF Memory
  <2>5. k \in 0..2
    <3>1. m.ghost.charged[t] \in 0..2
      BY <2>1 DEF Memory, Ghost
    <3> QED
      BY <3>1 DEF Upto
  <2>6. n \in Memory
    <3>1. [m EXCEPT !.trust[b] = x, !.ghost.charged[t] = k] \in Memory
      BY <2>1, <2>2, <2>4, <2>5 DEF Memory, Ghost
    <3> QED
      BY <2>3, <3>1
  <2>0. Charges(m, n, t)
    BY ChargeFields DEF Sound
  <2>7. /\ n.trades = m.trades /\ n.attempts = m.attempts /\ n.consumed = m.consumed
        /\ n.ghost.own = m.ghost.own
    BY <2>0 DEF Charges
  <2>8. Typed(n) /\ PaidTo(n)
    BY <2>6, <2>7 DEF Sound, Typed, OpensListed, PaidTo
  <2>9. ASSUME NEW u \in n.ghost.own
        PROVE  OwnedAt(n, now, u)
    <3>1. OwnedAt(m, now, u) /\ u \in TradeIds
      BY <2>7, <2>9, OwnIds DEF Sound, Owned
    <3>2. u = t => n.ghost.charged[u] <= 1 /\ m.trades[u].life # "AWAITING_PAYMENT"
      BY <2>0, <2>7, <2>9, <3>1 DEF Charges, Upto, OwnedAt
    <3>3. u # t => n.ghost.charged[u] = m.ghost.charged[u]
      BY <2>0, <3>1 DEF Charges
    <3> QED
      BY <2>7, <3>1, <3>2, <3>3 DEF OwnedAt, OpenAttempt
  <2> QED
    BY <2>8, <2>9 DEF Sound, Owned
<1> QED
    BY <1>1, <1>2

(* What closing one trade that expired leaves of the others.               *)
Expires(m, n, t) ==
    /\ n.parent = m.parent
    /\ \A u \in TradeIds \ {t} : n.trades[u] = m.trades[u]
    /\ n.trades[t] # Null
    /\ \A l \in Listings : n.inv[l] = Null <=> m.inv[l] = Null
LEMMA ExpireFields ==
    ASSUME NEW m, NEW now \in Nat, Sound(m, now), NEW t \in TradeIds, Expired(m, now, t)
    PROVE  Sound(ExpireTrade(m, now, t), now) /\ Expires(m, ExpireTrade(m, now, t), t)
<1> PICK x : x = Closed(m, t, "EXPIRED", "EXPIRED")
    OBVIOUS
<1> PICK y : y = ReleaseSlot(x, t, FALSE)
    OBVIOUS
<1> PICK n : n = Charge(y, now, t)
    OBVIOUS
<1>1. m.trades[t] # Null /\ m.trades[t].life = "AWAITING_PAYMENT"
    BY DEF Expired
<1>0. Sound(x, now) /\ Closes(m, x, t, ClosedRow(m.trades[t], "EXPIRED"))
    BY <1>1, ClosedSound
<1>2. /\ Sound(x, now)
      /\ x.trades = [m.trades EXCEPT ![t] = [m.trades[t] EXCEPT !.life = "CANCELLED", !.pay = "EXPIRED"]]
      /\ x.inv = m.inv /\ x.ghost = m.ghost /\ x.parent = m.parent
    BY <1>0 DEF Closes, ClosedRow
<1>3. /\ x.trades[t] \in SharedTrade /\ x.trades[t].life = "CANCELLED"
      /\ \A u \in TradeIds \ {t} : x.trades[u] = m.trades[u]
  <2>1. m.trades[t] \in SharedTrade
    BY <1>1 DEF Sound, Typed, Memory
  <2>2. [m.trades[t] EXCEPT !.life = "CANCELLED", !.pay = "EXPIRED"] \in SharedTrade
    BY <2>1 DEF SharedTrade, Lifecycle, PaymentStates
  <2>3. [m.trades[t] EXCEPT !.life = "CANCELLED", !.pay = "EXPIRED"].life = "CANCELLED"
    BY <2>1 DEF SharedTrade
  <2>4. m.trades \in [TradeIds -> SharedTrade \cup {Null}]
    BY DEF Sound, Typed, Memory
  <2> QED
    BY <1>2, <2>2, <2>3, <2>4
<1>4. Sound(y, now) /\ SameTrades(x, y)
      /\ \A l \in Listings : y.inv[l] = Null <=> x.inv[l] = Null
  <2>1. Typed(x) /\ x.trades[t] # Null
    BY <1>2, <1>3, NullApart DEF Sound
  <2>2. Sound(y, now)
    BY <1>2, <2>1, ReleaseSound
  <2>3. SameTrades(x, y)
    BY <2>1, ReleaseFields
  <2>4. \A l \in Listings : y.inv[l] = Null <=> x.inv[l] = Null
    BY <2>1, ReleaseInv
  <2> QED
    BY <2>2, <2>3, <2>4
<1>6. t \in y.ghost.own => y.ghost.charged[t] = 0
  <2>1. y.ghost.own = m.ghost.own /\ y.ghost.charged = m.ghost.charged
    BY <1>2, <1>4 DEF SameTrades
  <2>2. t \in m.ghost.own => OwnedAt(m, now, t)
    BY DEF Sound, Owned
  <2> QED
    BY <1>1, <2>1, <2>2 DEF OwnedAt
<1>7. Sound(n, now)
  <2>1. y.trades[t] # Null /\ y.trades[t].life = "CANCELLED"
    BY <1>3, <1>4, NullApart DEF SameTrades
  <2> QED
    BY <1>4, <1>6, <2>1, ChargeSound
<1>5. Charges(y, n, t)
    BY <1>4, ChargeFields DEF Sound
<1>8. n.parent = y.parent /\ n.trades = y.trades /\ n.inv = y.inv
    BY <1>5 DEF Charges
<1>9. n = ExpireTrade(m, now, t)
    BY DEF ExpireTrade
<1> QED
  <2>1. y.trades = x.trades /\ y.parent = x.parent
    BY <1>4 DEF SameTrades
  <2>2. n.parent = m.parent /\ n.trades = x.trades
    BY <1>2, <1>8, <2>1
  <2>3. x.trades[t] # Null
    BY <1>3, NullApart
  <2>4. \A l \in Listings : n.inv[l] = Null <=> m.inv[l] = Null
    <3>1. x.inv = m.inv
      BY <1>2
    <3>2. n.inv = y.inv
      BY <1>8
    <3>3. \A l \in Listings : y.inv[l] = Null <=> x.inv[l] = Null
      BY <1>4
    <3> QED
      BY <3>1, <3>2, <3>3
  <2>5. ASSUME NEW u \in TradeIds \ {t}
        PROVE  n.trades[u] = m.trades[u]
    <3>1. x.trades[u] = m.trades[u]
      BY <1>3
    <3> QED
      BY <2>2, <3>1
  <2>6. n.parent = m.parent /\ n.trades[t] # Null
    BY <2>2, <2>3
  <2>7. Expires(m, n, t)
    BY <2>4, <2>5, <2>6 DEF Expires
  <2> QED
    BY <1>7, <1>9, <2>7

LEMMA ReconcileGood ==
    ASSUME NEW m, NEW now \in Nat, Sound(m, now)
    PROVE  Good(ReconcileExpired(m, now), now)
<1> PICK due : due = ExpiredTrades(m, now)
    OBVIOUS
<1> DEFINE Done(x, s) ==
              /\ Sound(x, now)
              /\ x.parent = m.parent
              /\ \A u \in TradeIds \ s : x.trades[u] = m.trades[u]
              /\ \A u \in s : x.trades[u] # Null
              /\ \A l \in Listings : x.inv[l] = Null <=> m.inv[l] = Null
           Q == {p \in Memory \X SUBSET TradeIds : Done(p[1], p[2])}
<1>1. <<m, {}>> \in Q
    BY DEF Sound, Typed
<1>2. ASSUME NEW x, NEW s, NEW t \in due \ s, <<x, s>> \in Q, s \subseteq due
      PROVE  <<ExpireTrade(x, now, t), s \cup {t}>> \in Q
  <2>1. Done(x, s) /\ s \in SUBSET TradeIds
    BY <1>2
  <2>2. t \in TradeIds /\ Expired(m, now, t) /\ x.trades[t] = m.trades[t]
    BY <1>2, <2>1 DEF ExpiredTrades
  <2>3. Expired(x, now, t)
    BY <2>2 DEF Expired
  <2> PICK n : n = ExpireTrade(x, now, t)
    OBVIOUS
  <2>0. Sound(n, now) /\ Expires(x, n, t)
    BY <2>1, <2>2, <2>3, ExpireFields
  <2>4. /\ Sound(n, now)
        /\ n.parent = x.parent
        /\ \A u \in TradeIds \ {t} : n.trades[u] = x.trades[u]
        /\ n.trades[t] # Null
        /\ \A l \in Listings : n.inv[l] = Null <=> x.inv[l] = Null
    BY <2>0 DEF Expires
  <2>5. Done(n, s \cup {t})
    BY <2>1, <2>4
  <2>6. n \in Memory /\ s \cup {t} \in SUBSET TradeIds
    BY <2>1, <2>2, <2>4 DEF Sound, Typed
  <2> HIDE DEF Done
  <2> QED
    BY <2>5, <2>6
<1> PICK n : n = ReconcileExpired(m, now).mem
    OBVIOUS
<1>3. <<n, due>> \in Q
  <2> HIDE DEF Q
  <2> QED
    BY <1>1, <1>2, Reconciles
<1>4. Done(n, due)
    BY <1>3
<1>5. /\ ReconcileExpired(m, now).trades = due
      /\ ReconcileExpired(m, now).listings = UNION {ReleasedListing(m, t) : t \in due}
    BY DEF ReconcileExpired, Result, ExpiredTrades
<1>6. Proper(ReconcileExpired(m, now))
    BY <1>4, <1>5, ReleasedProper DEF Proper, Sound
<1> QED
    BY <1>4, <1>6 DEF Good
-----------------------------------------------------------------------------
(* Listings and the queue.                                                 *)
LEMMA StockTyped ==
    ASSUME NEW i \in SellerInventory, NEW units \in Nat, NEW t \in TradeIds
    PROVE  /\ units <= i.avail => Reserved(i, units) \in SellerInventory
           /\ units <= i.avail => Slotted(i, units, t) \in SellerInventory
           /\ GivenBack(i, units) \in SellerInventory
           /\ Unreserved(i, units) \in SellerInventory
<1>1. i.avail + units \in Nat /\ i.alloc + units \in Nat /\ i.reserved + units \in Nat
    BY DEF SellerInventory
<1>2. /\ units <= i.avail => i.avail - units \in Nat
      /\ units <= i.reserved => i.reserved - units \in Nat
    BY DEF SellerInventory
<1>3. units <= i.avail => Reserved(i, units) \in SellerInventory
    BY <1>1, <1>2 DEF Reserved, SellerInventory
<1>4. units <= i.avail => Slotted(i, units, t) \in SellerInventory
    BY <1>1, <1>2 DEF Slotted, SellerInventory
<1>5. GivenBack(i, units) \in SellerInventory
    BY <1>1, <1>2 DEF GivenBack, SellerInventory
<1>6. Unreserved(i, units) \in SellerInventory
  <2> PICK x : x = Max({0, i.reserved - units})
    OBVIOUS
  <2>1. x \in Nat
    <3> PICK d \in Int : d = i.reserved - units
      BY DEF SellerInventory
    <3>1. \E y \in {0, d} : \A z \in {0, d} : y >= z
      BY d >= 0 \/ d < 0
    <3>2. x \in {0, d} /\ x >= 0
      BY <3>1 DEF Max
    <3> QED
      BY <3>2
  <2> QED
    BY <1>1, <2>1 DEF Unreserved, SellerInventory
<1> QED
    BY <1>3, <1>4, <1>5, <1>6

LEMMA OpenTyped ==
    ASSUME NEW units \in Nat
    PROVE  OpenTrade(units) \in SharedTrade
    BY DEF OpenTrade, SharedTrade, Lifecycle, PaymentStates

LEMMA AwaitingTyped ==
    ASSUME NEW b \in Buyers, NEW units \in Nat, NEW due \in Nat
    PROVE  LET row == Awaiting(b, units, due) IN
           /\ row \in SharedTrade
           /\ row.life = "AWAITING_PAYMENT" /\ row.units = units
           /\ row.ref = Null /\ row.flw = Null
<1> PICK x : x = Awaiting(b, units, due)
    OBVIOUS
<1>1. x = [buyer |-> b, units |-> units, life |-> "AWAITING_PAYMENT", pay |-> "UNPAID",
           payout |-> "NOT_STARTED", due |-> due, locked |-> TRUE, ref |-> Null, flw |-> Null]
    BY DEF Awaiting, OpenTrade
<1> QED
    BY <1>1 DEF SharedTrade, Lifecycle, PaymentStates

LEMMA NewTyped == NewInventory \in SellerInventory
    BY DepositAssumption DEF NewInventory, SellerInventory

LEMMA PublishedTyped ==
    ASSUME NEW g \in Ghost, NEW l \in Listings, NEW new \in BOOLEAN
    PROVE  LET h == Published(g, l, new) IN
           /\ h \in Ghost
           /\ h.created = IF new THEN g.created \cup {l} ELSE g.created \ {l}
           /\ h.own = g.own \ {l}
           /\ h.read = g.read /\ h.released = g.released /\ h.charged = g.charged
<1> PICK c \in SUBSET Listings : c = IF new THEN g.created \cup {l} ELSE g.created \ {l}
    BY DEF Ghost
<1> PICK o \in SUBSET TradeIds : o = g.own \ {l}
    BY DEF Ghost
<1>1. Published(g, l, new) = [g EXCEPT !.created = c, !.own = o]
    BY DEF Published
<1>2. [g EXCEPT !.created = c, !.own = o] \in Ghost
    BY DEF Ghost
<1> QED
    BY <1>1, <1>2 DEF Ghost

LEMMA OpenedTyped ==
    ASSUME NEW g \in Ghost, NEW t \in TradeIds, NEW unused \in BOOLEAN
    PROVE  LET h == Opened(g, t, unused) IN
           /\ h \in Ghost
           /\ h.own = IF unused THEN g.own \cup {t} ELSE g.own \ {t}
           /\ h.created = g.created
           /\ h.read = g.read /\ h.released = g.released /\ h.charged = g.charged
<1> PICK o \in SUBSET TradeIds : o = IF unused THEN g.own \cup {t} ELSE g.own \ {t}
    BY DEF Ghost
<1>1. Opened(g, t, unused) = [g EXCEPT !.own = o]
    BY DEF Opened
<1>2. [g EXCEPT !.own = o] \in Ghost
    BY DEF Ghost
<1> QED
    BY <1>1, <1>2 DEF Ghost

LEMMA CreateFields ==
    ASSUME NEW m, m \in Memory, NEW l \in Listings
    PROVE  LET n == CreatePeerOffer(m, l).mem IN
           /\ n \in Memory
           /\ n.inv = [m.inv EXCEPT ![l] = NewInventory]
           /\ n.trades = [m.trades EXCEPT ![l] = OpenTrade(Deposit)]
           /\ n.ghost = Published(m.ghost, l, m.inv[l] = Null)
           /\ n.parent = m.parent /\ n.queue = m.queue
           /\ n.attempts = m.attempts /\ n.consumed = m.consumed
<1> PICK n : n = CreatePeerOffer(m, l).mem
    OBVIOUS
<1> PICK g : g = Published(m.ghost, l, m.inv[l] = Null)
    OBVIOUS
<1>1. n = [m EXCEPT !.inv[l] = NewInventory, !.trades[l] = OpenTrade(Deposit), !.ghost = g]
    BY DEF CreatePeerOffer, Result
<1>2. NewInventory \in SellerInventory /\ OpenTrade(Deposit) \in SharedTrade /\ l \in TradeIds
    BY NewTyped, OpenTyped, DepositAssumption, Children
<1>3. g \in Ghost
  <2>1. m.ghost \in Ghost /\ (m.inv[l] = Null) \in BOOLEAN
    BY DEF Memory
  <2> QED
    BY <2>1, PublishedTyped
<1>4. [m EXCEPT !.inv[l] = NewInventory, !.trades[l] = OpenTrade(Deposit), !.ghost = g] \in Memory
    BY <1>2, <1>3 DEF Memory
<1>5. n.inv = [m.inv EXCEPT ![l] = NewInventory] /\ n.ghost = g
    BY <1>1 DEF Memory
<1>6. n.trades = [m.trades EXCEPT ![l] = OpenTrade(Deposit)]
    BY <1>1 DEF Memory
<1>7. n.parent = m.parent /\ n.queue = m.queue
    BY <1>1 DEF Memory
<1>8. n.attempts = m.attempts /\ n.consumed = m.consumed
    BY <1>1 DEF Memory
<1> QED
    BY <1>1, <1>4, <1>5, <1>6, <1>7, <1>8

LEMMA CreateGood ==
    ASSUME NEW m, NEW now, Sound(m, now), NEW l \in Listings
    PROVE  Good(CreatePeerOffer(m, l), now)
<1> PICK n : n = CreatePeerOffer(m, l).mem
    OBVIOUS
<1>1. m \in Memory /\ l \in TradeIds
    BY Children DEF Sound, Typed
<1>2. /\ n \in Memory
      /\ n.inv = [m.inv EXCEPT ![l] = NewInventory]
      /\ n.trades = [m.trades EXCEPT ![l] = OpenTrade(Deposit)]
      /\ n.ghost = Published(m.ghost, l, m.inv[l] = Null)
      /\ n.attempts = m.attempts /\ n.consumed = m.consumed
    BY <1>1, CreateFields
<1>3. n.ghost.own = m.ghost.own \ {l} /\ n.ghost.charged = m.ghost.charged
  <2> PICK new \in BOOLEAN : new = (m.inv[l] = Null)
    OBVIOUS
  <2>1. m.ghost \in Ghost /\ n.ghost = Published(m.ghost, l, new)
    BY <1>1, <1>2 DEF Memory
  <2>2. Published(m.ghost, l, new).own = m.ghost.own \ {l}
    BY <2>1, PublishedTyped
  <2>3. Published(m.ghost, l, new).charged = m.ghost.charged
    BY <2>1, PublishedTyped
  <2> QED
    BY <2>1, <2>2, <2>3
<1>4. \A t \in TradeIds : n.trades[t] = IF t = l THEN OpenTrade(Deposit) ELSE m.trades[t]
    BY <1>1, <1>2 DEF Memory
<1>5. Typed(n)
    BY <1>2, <1>4 DEF Typed, OpensListed, Sound
<1>6. \A t \in m.ghost.own : m.trades[t] # Null /\ t \in TradeIds
    BY OwnIds DEF Sound, Owned, OwnedAt
<1>7. OpenTrade(Deposit).flw = Null
    BY DEF OpenTrade
<1>8. Quieter(m, n, now)
    BY <1>2, <1>3, <1>4, <1>6, <1>7 DEF Quieter, OpenAttempt
<1>9. Sound(n, now)
    BY <1>5, <1>8, QuieterSound
<1>10. n.trades[l] # Null /\ n.inv[l] # Null
    BY <1>1, <1>2, <1>4, NewTyped, OpenTyped, DepositAssumption, NullApart DEF Memory
<1> QED
    BY <1>9, <1>10 DEF Good, Proper, CreatePeerOffer, Result, Sound

LEMMA CardTyped ==
    ASSUME NEW S \in SUBSET QueueRefs
    PROVE  Cardinality(S) \in Nat
    BY FiniteAssumption, FS_Subset, FS_CardinalityType

LEMMA JoinFields ==
    ASSUME NEW m, m \in Memory, NEW b \in Buyers, NEW l \in Listings, NEW q \in QueueRefs,
           m.inv[l] # Null, NEW units \in Nat, units <= m.inv[l].avail
    PROVE  LET n == JoinQueue(m, b, l, units, q).mem IN
           /\ n \in Memory
           /\ n.inv = [m.inv EXCEPT ![l] = Reserved(m.inv[l], units)]
           /\ \E e \in QueueEntry :
                /\ n.queue = [m.queue EXCEPT ![q] = e]
                /\ e.listing = l /\ e.units = units /\ e.buyer = b
                /\ e.status = "QUEUED" /\ e.trade = Null
           /\ n.ghost = m.ghost
           /\ SameTrades(m, n)
<1> PICK n : n = JoinQueue(m, b, l, units, q).mem
    OBVIOUS
<1> PICK p \in Nat : p = Cardinality(Waiting(m, l)) + 1
  <2>1. Cardinality(Waiting(m, l)) \in Nat
    BY CardTyped DEF Waiting
  <2> QED
    BY <2>1
<1> PICK k \in Nat : k = 1 + Cardinality({r \in QueueRefs : m.queue[r] # Null})
  <2> PICK S \in SUBSET QueueRefs : S = {r \in QueueRefs : m.queue[r] # Null}
    OBVIOUS
  <2>1. Cardinality(S) \in Nat
    BY CardTyped
  <2> QED
    BY <2>1
<1> PICK e : e = [listing |-> l, buyer |-> b, units |-> units, pos |-> p, at |-> k,
                  status |-> "QUEUED", trade |-> Null]
    OBVIOUS
<1>1. /\ e \in QueueEntry /\ e.listing = l /\ e.units = units /\ e.buyer = b
      /\ e.status = "QUEUED" /\ e.trade = Null
    BY DEF QueueEntry
<1>2. n = [m EXCEPT !.inv[l] = Reserved(m.inv[l], units), !.queue[q] = e]
    BY DEF JoinQueue, Result
<1>3. Reserved(m.inv[l], units) \in SellerInventory
  <2>1. m.inv[l] \in SellerInventory
    BY DEF Memory
  <2>2. PICK t : t \in TradeIds
    BY Children
  <2> QED
    BY <2>1, <2>2, StockTyped
<1>4. [m EXCEPT !.inv[l] = Reserved(m.inv[l], units), !.queue[q] = e] \in Memory
    BY <1>1, <1>3 DEF Memory
<1>5. n.inv = [m.inv EXCEPT ![l] = Reserved(m.inv[l], units)] /\ n.queue = [m.queue EXCEPT ![q] = e]
    BY <1>2 DEF Memory
<1>6. n.ghost = m.ghost /\ SameTrades(m, n)
    BY <1>2 DEF Memory, SameTrades
<1> QED
    BY <1>1, <1>2, <1>4, <1>5, <1>6

Allocates(m, n, now, b, l, units, t) ==
    /\ n \in Memory
    /\ n.inv = [m.inv EXCEPT ![l] = Slotted(m.inv[l], units, t)]
    /\ n.parent = [m.parent EXCEPT ![t] = l]
    /\ n.trades = [m.trades EXCEPT ![t] = Awaiting(b, units, now + PaymentTimeout)]
    /\ n.ghost = Opened(m.ghost, t, Unused(m, t))
    /\ n.queue = m.queue
    /\ n.attempts = m.attempts /\ n.consumed = m.consumed

LEMMA AllocateFields ==
    ASSUME NEW m, m \in Memory, NEW now \in Nat, NEW b \in Buyers, NEW l \in Listings,
           NEW t \in TradeIds, m.inv[l] # Null, NEW units \in Nat, units <= m.inv[l].avail
    PROVE  Allocates(m, Allocate(m, now, b, l, units, t).mem, now, b, l, units, t)
<1> PICK n : n = Allocate(m, now, b, l, units, t).mem
    OBVIOUS
<1> PICK i : i = Slotted(m.inv[l], units, t)
    OBVIOUS
<1> PICK row : row = Awaiting(b, units, now + PaymentTimeout)
    OBVIOUS
<1> PICK g : g = Opened(m.ghost, t, Unused(m, t))
    OBVIOUS
<1>1. n = [m EXCEPT !.inv[l] = i, !.parent[t] = l, !.trades[t] = row, !.ghost = g]
    BY DEF Allocate, Result
<1>2. i \in SellerInventory
  <2>1. m.inv[l] \in SellerInventory
    BY DEF Memory
  <2> QED
    BY <2>1, StockTyped
<1>3. row \in SharedTrade
    BY TimeoutAssumption, AwaitingTyped
<1>4. g \in Ghost
  <2> PICK u \in BOOLEAN : u = Unused(m, t)
    BY DEF Unused
  <2>1. m.ghost \in Ghost /\ g = Opened(m.ghost, t, u)
    BY DEF Memory
  <2>2. Opened(m.ghost, t, u) \in Ghost
    BY <2>1, OpenedTyped
  <2> QED
    BY <2>1, <2>2
<1>5. [m EXCEPT !.inv[l] = i, !.parent[t] = l, !.trades[t] = row, !.ghost = g] \in Memory
    BY <1>2, <1>3, <1>4 DEF Memory
<1>6. n.inv = [m.inv EXCEPT ![l] = i] /\ n.ghost = g
    BY <1>1 DEF Memory
<1>7. n.trades = [m.trades EXCEPT ![t] = row] /\ n.parent = [m.parent EXCEPT ![t] = l]
    BY <1>1 DEF Memory
<1>8. n.queue = m.queue /\ n.attempts = m.attempts /\ n.consumed = m.consumed
    BY <1>1 DEF Memory
<1> QED
    BY <1>1, <1>5, <1>6, <1>7, <1>8 DEF Allocates

LEMMA AllocateGood ==
    ASSUME NEW m, NEW now \in Nat, Sound(m, now), NEW b \in Buyers, NEW l \in Listings,
           NEW t \in TradeIds, m.inv[l] # Null, NEW units \in Nat, units <= m.inv[l].avail
    PROVE  Good(Allocate(m, now, b, l, units, t), now)
<1> PICK n : n = Allocate(m, now, b, l, units, t).mem
    OBVIOUS
<1> PICK row : row = Awaiting(b, units, now + PaymentTimeout)
    OBVIOUS
<1>1. m \in Memory
    BY DEF Sound, Typed
<1>2. /\ n \in Memory
      /\ n.inv = [m.inv EXCEPT ![l] = Slotted(m.inv[l], units, t)]
      /\ n.trades = [m.trades EXCEPT ![t] = row]
      /\ n.ghost = Opened(m.ghost, t, Unused(m, t))
      /\ n.attempts = m.attempts /\ n.consumed = m.consumed
  <2>1. Allocates(m, n, now, b, l, units, t)
    BY <1>1, AllocateFields
  <2> QED
    BY <2>1 DEF Allocates
<1>3. row \in SharedTrade /\ row.life = "AWAITING_PAYMENT" /\ row.flw = Null
  <2> PICK due \in Nat : due = now + PaymentTimeout
    BY TimeoutAssumption
  <2> QED
    BY AwaitingTyped
<1>4. \A u \in TradeIds : n.trades[u] = IF u = t THEN row ELSE m.trades[u]
    BY <1>1, <1>2 DEF Memory
<1>5. Typed(n)
    BY <1>2, <1>3, <1>4 DEF Typed, OpensListed, Sound
<1>6. PaidTo(n)
    BY <1>2, <1>3, <1>4 DEF PaidTo, Sound
<1>7. /\ n.ghost.own = IF Unused(m, t) THEN m.ghost.own \cup {t} ELSE m.ghost.own \ {t}
      /\ n.ghost.charged = m.ghost.charged
  <2> PICK u \in BOOLEAN : u = Unused(m, t)
    BY DEF Unused
  <2>1. m.ghost \in Ghost /\ n.ghost = Opened(m.ghost, t, u)
    BY <1>1, <1>2 DEF Memory
  <2> PICK g \in Ghost : g = m.ghost
    BY <2>1
  <2>2. Opened(g, t, u).own = IF u THEN g.own \cup {t} ELSE g.own \ {t}
    BY DEF Opened, Ghost
  <2>3. Opened(g, t, u).charged = g.charged
    BY DEF Opened, Ghost
  <2> QED
    BY <2>1, <2>2, <2>3
<1>8. ASSUME NEW u \in n.ghost.own
      PROVE  OwnedAt(n, now, u)
  <2>1. CASE u # t
    <3>1. OwnedAt(m, now, u) /\ u \in TradeIds
      BY <1>7, <2>1, OwnIds DEF Sound, Owned
    <3> QED
      BY <1>2, <1>4, <1>7, <2>1, <3>1 DEF OwnedAt, OpenAttempt
  <2>2. CASE u = t
    <3>1. Unused(m, t)
      BY <1>7, <2>2
    <3>2. n.trades[t] = row /\ row # Null
      BY <1>3, <1>4, NullApart
    <3>3. \A r \in TxRefs : n.attempts[r] = Null \/ n.attempts[r].trade # t
      BY <1>2, <3>1 DEF Unused
    <3>4. n.ghost.charged[t] = 0
      BY <1>7, <3>1 DEF Unused
    <3> QED
      BY <2>2, <3>2, <3>3, <3>4 DEF OwnedAt, OpenAttempt
  <2> QED
    BY <2>1, <2>2
<1>9. Sound(n, now)
    BY <1>5, <1>6, <1>8 DEF Sound, Owned
<1>10. n.trades[t] # Null /\ n.inv[l] # Null
  <2>1. m.inv[l] \in SellerInventory
    BY <1>1 DEF Memory
  <2> QED
    BY <1>1, <1>2, <1>3, <1>4, <2>1, StockTyped, NullApart DEF Memory
<1> QED
    BY <1>9, <1>10 DEF Good, Proper, Allocate, Result, Sound

(* What a call that takes an offer draws.                                  *)
Drawn(m, l, draw) ==
    m.inv[l] # Null =>
        IF m.inv[l].slot = Null THEN draw[1] \in Suffixes
        ELSE draw[2] \in QueueRefs /\ m.queue[draw[2]] = Null
(* The two ways to take an offer: to wait in its queue or to take its slot. *)
Takes(m, res, now, b, l, want, draw) ==
    \/ res = Throw(m)
    \/ /\ m.inv[l] # Null /\ m.trades[l] # Null
       /\ \E units \in Nat \ {0} :
            /\ units <= m.inv[l].avail
            /\ want # Null => units = want
            /\ \/ /\ m.inv[l].slot # Null
                  /\ draw[2] \in QueueRefs /\ m.queue[draw[2]] = Null
                  /\ res = JoinQueue(m, b, l, units, draw[2])
               \/ /\ m.inv[l].slot = Null
                  /\ draw[1] \in Suffixes
                  /\ res = Allocate(m, now, b, l, units, ActiveId(m, l, units, draw[1]))

LEMMA TakeTakes ==
    ASSUME NEW m, m \in Memory, NEW now, NEW b, NEW l \in Listings,
           NEW want \in Nat \cup {Null}, NEW draw, Drawn(m, l, draw)
    PROVE  Takes(m, TakePeerOffer(m, now, b, l, want, draw), now, b, l, want, draw)
<1> PICK units : units = IF want = Null THEN m.inv[l].avail ELSE want
    OBVIOUS
<1> PICK res : res = TakePeerOffer(m, now, b, l, want, draw)
    OBVIOUS
<1>1. CASE m.inv[l] = Null
    BY <1>1 DEF TakePeerOffer, Takes
<1>2. CASE m.inv[l] # Null /\ TakeRefused(m, now, b, l, units)
    BY <1>2 DEF TakePeerOffer, Takes
<1>3. CASE m.inv[l] # Null /\ ~TakeRefused(m, now, b, l, units)
  <2>1. units \in Nat \ {0} /\ units <= m.inv[l].avail /\ m.trades[l] # Null
    <3>1. m.inv[l].avail \in Nat
      BY <1>3 DEF Memory, SellerInventory
    <3>2. units \in Nat
      BY <3>1
    <3>3. ~(units <= 0) /\ ~(units > m.inv[l].avail) /\ m.trades[l] # Null
      BY <1>3 DEF TakeRefused
    <3> QED
      BY <3>1, <3>2, <3>3
  <2>2. res = IF m.inv[l].slot # Null THEN JoinQueue(m, b, l, units, draw[2])
              ELSE Allocate(m, now, b, l, units, ActiveId(m, l, units, draw[1]))
    BY <1>3 DEF TakePeerOffer
  <2>3. CASE m.inv[l].slot # Null
    BY <1>3, <2>1, <2>2, <2>3 DEF Drawn, Takes
  <2>4. CASE m.inv[l].slot = Null
    BY <1>3, <2>1, <2>2, <2>4 DEF Drawn, Takes
  <2> QED
    BY <2>3, <2>4
<1> QED
    BY <1>1, <1>2, <1>3

LEMMA ActiveIdTyped ==
    ASSUME NEW m, NEW l \in Listings, NEW units, NEW s \in Suffixes
    PROVE  ActiveId(m, l, units, s) \in TradeIds
    BY Children DEF ActiveId

LEMMA TakesGood ==
    ASSUME NEW m, NEW now \in Nat, Sound(m, now), NEW b \in Buyers, NEW l \in Listings,
           NEW want, NEW draw, NEW res, Takes(m, res, now, b, l, want, draw)
    PROVE  Good(res, now)
<1>1. CASE res = Throw(m)
    BY <1>1, ThrowGood
<1>2. ASSUME m.inv[l] # Null, NEW units \in Nat, units <= m.inv[l].avail,
             draw[2] \in QueueRefs, res = JoinQueue(m, b, l, units, draw[2])
      PROVE  Good(res, now)
  <2>1. m \in Memory
    BY DEF Sound, Typed
  <2>2. res.mem \in Memory /\ SameTrades(m, res.mem)
    BY <1>2, <2>1, JoinFields
  <2>3. Sound(res.mem, now)
    BY <2>2, TrustSound
  <2> QED
    BY <1>2, <2>3 DEF Good, Proper, JoinQueue, Result, Sound
<1>3. ASSUME m.inv[l] # Null, NEW units \in Nat, units <= m.inv[l].avail,
             draw[1] \in Suffixes,
             res = Allocate(m, now, b, l, units, ActiveId(m, l, units, draw[1]))
      PROVE  Good(res, now)
    BY <1>3, ActiveIdTyped, AllocateGood
<1> QED
    BY <1>1, <1>2, <1>3 DEF Takes

LEMMA TakeGood ==
    ASSUME NEW m, NEW now \in Nat, Sound(m, now), NEW b \in Buyers, NEW l \in Listings,
           NEW want \in Nat \cup {Null}, NEW draw, Drawn(m, l, draw)
    PROVE  Good(TakePeerOffer(m, now, b, l, want, draw), now)
    BY TakeTakes, TakesGood DEF Sound, Typed

LEMMA DrawsDrawn ==
    ASSUME NEW m, NEW l, NEW draw \in Draws(m, l)
    PROVE  Drawn(m, l, draw)
<1>1. \A free : \A x \in Pick(free) : x \in free
    BY DEF Pick
<1> QED
    BY <1>1 DEF Draws, Drawn

LEMMA VouchGood ==
    ASSUME NEW m, NEW now, Sound(m, now), NEW b \in Buyers, NEW amount \in Nat
    PROVE  Good(SubmitGuarantor(m, b, amount), now) /\ Good(VerifyIdentity(m, b), now)
<1> PICK x : x = [m.trust[b] EXCEPT !.backed = amount]
    OBVIOUS
<1> PICK y : y = [m.trust[b] EXCEPT !.verified = TRUE]
    OBVIOUS
<1>1. m \in Memory /\ m.trust[b] \in TrustSummary
    BY DEF Sound, Typed, Memory
<1>2. x \in TrustSummary /\ y \in TrustSummary
    BY <1>1 DEF TrustSummary
<1>3. /\ SubmitGuarantor(m, b, amount).mem = [m EXCEPT !.trust[b] = x]
      /\ VerifyIdentity(m, b).mem = [m EXCEPT !.trust[b] = y]
    BY <1>1 DEF SubmitGuarantor, VerifyIdentity, Result, Memory
<1>4. ASSUME NEW s \in TrustSummary
      PROVE  Sound([m EXCEPT !.trust[b] = s], now)
  <2> PICK n : n = [m EXCEPT !.trust[b] = s]
    OBVIOUS
  <2>1. n \in Memory /\ SameTrades(m, n)
    BY <1>1 DEF Memory, SameTrades
  <2> QED
    BY <2>1, TrustSound
<1> QED
    BY <1>2, <1>3, <1>4 DEF Good, Proper, SubmitGuarantor, VerifyIdentity, Result, Sound

Waits(e) == e.status \in {"QUEUED", "ELIGIBLE"}
(* A queue whose entries are the same but for their places and states.     *)
SameQueue(w, queue) ==
    /\ w \in [QueueRefs -> QueueEntry \cup {Null}]
    /\ \A p \in QueueRefs :
        /\ w[p] = Null <=> queue[p] = Null
        /\ queue[p] # Null => SameEntry(w[p], queue[p])

LEMMA RenumberedTyped ==
    ASSUME NEW m, m \in Memory, NEW q \in QueueRefs, m.queue[q] # Null
    PROVE  LET w == Renumbered(m, q) IN
           /\ SameQueue(w, m.queue)
           /\ w[q].status = "CANCELLED" /\ w[q].trade = m.queue[q].trade
           /\ \A p \in QueueRefs \ {q} : m.queue[p] # Null =>
                (Waits(w[p]) <=> Waits(m.queue[p])) /\ w[p].trade = m.queue[p].trade
<1> PICK w : w = Renumbered(m, q)
    OBVIOUS
<1> PICK left \in SUBSET QueueRefs : left = Waiting(m, m.queue[q].listing) \ {q}
    BY DEF Waiting
<1>1. ASSUME NEW p \in QueueRefs
      PROVE  \/ p = q /\ w[p] = [m.queue[q] EXCEPT !.status = "CANCELLED"]
             \/ /\ p # q /\ p \in left
                /\ w[p] = [m.queue[p] EXCEPT !.pos = 1, !.status = "ELIGIBLE"]
             \/ /\ p # q /\ p \in left
                /\ \E k \in Nat : w[p] = [m.queue[p] EXCEPT !.pos = k]
             \/ p # q /\ w[p] = m.queue[p]
  <2> DEFINE older == {o \in left : m.queue[o].at <= m.queue[p].at}
             first == Cardinality(older) = 1 /\ m.inv[m.queue[q].listing] # Null
                          /\ m.inv[m.queue[q].listing].slot = Null
  <2>1. Cardinality(older) \in Nat
    <3>1. older \in SUBSET QueueRefs
      OBVIOUS
    <3> HIDE DEF older
    <3> QED
      BY <3>1, CardTyped
  <2>2. CASE p = q
    BY <2>2 DEF Renumbered
  <2>3. CASE p # q /\ p \in left /\ first
    BY <2>3 DEF Renumbered
  <2>4. CASE p # q /\ p \in left /\ ~first
    <3>1. w[p] = [m.queue[p] EXCEPT !.pos = Cardinality(older)]
      BY <2>4 DEF Renumbered
    <3> QED
      BY <2>1, <2>4, <3>1
  <2>5. CASE p # q /\ p \notin left
    BY <2>5 DEF Renumbered
  <2> QED
    BY <2>2, <2>3, <2>4, <2>5
<1>5. \A p \in left : m.queue[p] # Null /\ Waits(m.queue[p])
    BY DEF Waiting, Waits
<1>6. ASSUME NEW p \in QueueRefs, m.queue[p] # Null
      PROVE  /\ w[p] \in QueueEntry /\ SameEntry(w[p], m.queue[p])
             /\ p = q => w[p].status = "CANCELLED" /\ w[p].trade = m.queue[p].trade
             /\ p # q => (Waits(w[p]) <=> Waits(m.queue[p])) /\ w[p].trade = m.queue[p].trade
  <2> PICK e \in QueueEntry : e = m.queue[p]
    BY <1>6 DEF Memory
  <2> PICK x : x = w[p]
    OBVIOUS
  <2>1. CASE p = q
    <3>1. x = [e EXCEPT !.status = "CANCELLED"]
      BY <1>1, <2>1
    <3>2. x \in QueueEntry /\ SameEntry(x, e)
      BY <3>1 DEF QueueEntry, SameEntry
    <3>3. x.status = "CANCELLED" /\ x.trade = e.trade
      BY <3>1 DEF QueueEntry
    <3> QED
      BY <2>1, <3>2, <3>3 DEF Waits
  <2>2. CASE p # q /\ x = [e EXCEPT !.pos = 1, !.status = "ELIGIBLE"] /\ p \in left
    <3>1. x \in QueueEntry
      <4>1. [e EXCEPT !.pos = 1, !.status = "ELIGIBLE"] \in QueueEntry
        BY DEF QueueEntry
      <4> QED
        BY <2>2, <4>1
    <3>2. x.listing = e.listing /\ x.units = e.units /\ x.buyer = e.buyer
      BY <2>2 DEF QueueEntry
    <3>3. x.status = "ELIGIBLE" /\ x.trade = e.trade
      BY <2>2 DEF QueueEntry
    <3> QED
      BY <1>5, <2>2, <3>1, <3>2, <3>3 DEF Waits, SameEntry
  <2>3. CASE p # q /\ x = e
    BY <2>3 DEF SameEntry
  <2>4. ASSUME p # q, NEW k \in Nat, x = [e EXCEPT !.pos = k]
        PROVE  /\ x \in QueueEntry /\ SameEntry(x, e)
               /\ (Waits(x) <=> Waits(e)) /\ x.trade = e.trade
    <3>1. x \in QueueEntry /\ SameEntry(x, e)
      BY <2>4 DEF QueueEntry, SameEntry
    <3>2. x.status = e.status /\ x.trade = e.trade
      BY <2>4 DEF QueueEntry
    <3> QED
      BY <3>1, <3>2 DEF Waits
  <2> QED
    BY <1>1, <2>1, <2>2, <2>3, <2>4
<1>7. ASSUME NEW p \in QueueRefs, m.queue[p] = Null
      PROVE  w[p] = Null
    BY <1>1, <1>5, <1>7
<1>8. w = [p \in QueueRefs |-> w[p]]
    BY DEF Renumbered
<1>9. SameQueue(w, m.queue)
    BY <1>6, <1>7, <1>8, NullApart DEF SameQueue
<1> QED
    BY <1>6, <1>9

LEMMA CancelFields ==
    ASSUME NEW m, m \in Memory, NEW q \in QueueRefs, m.queue[q] # Null
    PROVE  LET l == m.queue[q].listing
               n == [m EXCEPT !.inv[l] = GivenBack(@, m.queue[q].units),
                              !.queue = Renumbered(m, q)] IN
           /\ n \in Memory
           /\ n.inv = [m.inv EXCEPT ![l] = GivenBack(m.inv[l], m.queue[q].units)]
           /\ n.queue = Renumbered(m, q)
           /\ n.ghost = m.ghost /\ SameTrades(m, n)
<1> PICK l \in Listings : l = m.queue[q].listing
    BY DEF Memory, QueueEntry
<1> PICK units \in Nat : units = m.queue[q].units
    BY DEF Memory, QueueEntry
<1> PICK i : i = GivenBack(m.inv[l], units)
    OBVIOUS
<1> PICK w : w = Renumbered(m, q)
    OBVIOUS
<1> PICK n : n = [m EXCEPT !.inv[l] = i, !.queue = w]
    OBVIOUS
<1>1. i \in SellerInventory \cup {Null}
  <2>1. CASE m.inv[l] = Null
    BY <2>1 DEF GivenBack
  <2>2. CASE m.inv[l] # Null
    <3>1. m.inv[l] \in SellerInventory /\ \E t : t \in TradeIds
      BY <2>2, Children DEF Memory
    <3> QED
      BY <3>1, StockTyped
  <2> QED
    BY <2>1, <2>2
<1>2. w \in [QueueRefs -> QueueEntry \cup {Null}]
    BY RenumberedTyped DEF SameQueue
<1>3. n \in Memory
    BY <1>1, <1>2 DEF Memory
<1>4. n.inv = [m.inv EXCEPT ![l] = i] /\ n.queue = w
    BY DEF Memory
<1>5. n.ghost = m.ghost /\ SameTrades(m, n)
    BY DEF Memory, SameTrades
<1> QED
    BY <1>3, <1>4, <1>5

LEMMA CancelQueueGood ==
    ASSUME NEW m, NEW now, Sound(m, now), NEW b, NEW q \in QueueRefs
    PROVE  Good(CancelQueueEntry(m, b, q), now)
<1> PICK n : n = [m EXCEPT !.inv[m.queue[q].listing] = GivenBack(@, m.queue[q].units),
                           !.queue = Renumbered(m, q)]
    OBVIOUS
<1>1. ASSUME m.queue[q] # Null
      PROVE  Sound(n, now)
  <2>1. m \in Memory
    BY DEF Sound, Typed
  <2>2. n \in Memory /\ SameTrades(m, n)
    BY <1>1, <2>1, CancelFields
  <2> QED
    BY <2>2, TrustSound
<1>2. \/ CancelQueueEntry(m, b, q) = Throw(m)
      \/ m.queue[q] # Null /\ CancelQueueEntry(m, b, q) = Result(n, {}, {}, TRUE)
    BY DEF CancelQueueEntry
<1> QED
    BY <1>1, <1>2, ThrowGood, NothingGood

LEMMA EntryTyped ==
    ASSUME NEW e \in QueueEntry, NEW t \in TradeIds \cup {Null}
    PROVE  LET x == [e EXCEPT !.status = "ACTIVE_SLOT"]
               y == InSlot(e, t) IN
           /\ x \in QueueEntry /\ SameEntry(x, e)
           /\ x.status = "ACTIVE_SLOT" /\ x.trade = e.trade
           /\ y \in QueueEntry /\ SameEntry(y, e)
           /\ y.status = e.status /\ y.trade = t
<1>1. InSlot(e, t) \in QueueEntry
    BY DEF QueueEntry, InSlot
<1>2. [e EXCEPT !.status = "ACTIVE_SLOT"] \in QueueEntry
    BY DEF QueueEntry
<1>3. SameEntry(InSlot(e, t), e) /\ InSlot(e, t).status = e.status /\ InSlot(e, t).trade = t
    BY DEF QueueEntry, SameEntry, InSlot
<1> PICK x : x = [e EXCEPT !.status = "ACTIVE_SLOT"]
    OBVIOUS
<1>4. SameEntry(x, e) /\ x.status = "ACTIVE_SLOT" /\ x.trade = e.trade
    BY DEF QueueEntry, SameEntry
<1> QED
    BY <1>1, <1>2, <1>3, <1>4

LEMMA ServedFields ==
    ASSUME NEW m, m \in Memory, NEW q \in QueueRefs, m.queue[q] # Null,
           m.inv[m.queue[q].listing] # Null
    PROVE  LET l == m.queue[q].listing
               n == Served(m, q) IN
           /\ n \in Memory
           /\ n.inv = [m.inv EXCEPT ![l] = Unreserved(m.inv[l], m.queue[q].units)]
           /\ n.queue = [m.queue EXCEPT ![q] = [m.queue[q] EXCEPT !.status = "ACTIVE_SLOT"]]
           /\ n.ghost = m.ghost /\ SameTrades(m, n)
<1> PICK l \in Listings : l = m.queue[q].listing
    BY DEF Memory, QueueEntry
<1> PICK units \in Nat : units = m.queue[q].units
    BY DEF Memory, QueueEntry
<1> PICK i : i = Unreserved(m.inv[l], units)
    OBVIOUS
<1> PICK e : e = [m.queue[q] EXCEPT !.status = "ACTIVE_SLOT"]
    OBVIOUS
<1> PICK n : n = Served(m, q)
    OBVIOUS
<1>1. n = [m EXCEPT !.inv[l] = i, !.queue[q] = e]
    BY DEF Served
<1>2. i \in SellerInventory
  <2>1. m.inv[l] \in SellerInventory /\ \E t : t \in TradeIds
    BY Children DEF Memory
  <2> QED
    BY <2>1, StockTyped
<1>3. e \in QueueEntry
  <2>1. m.queue[q] \in QueueEntry
    BY DEF Memory
  <2> QED
    BY <2>1 DEF QueueEntry
<1>4. [m EXCEPT !.inv[l] = i, !.queue[q] = e] \in Memory
    BY <1>2, <1>3 DEF Memory
<1>5. n.inv = [m.inv EXCEPT ![l] = i] /\ n.queue = [m.queue EXCEPT ![q] = e]
    BY <1>1 DEF Memory
<1>6. n.ghost = m.ghost /\ SameTrades(m, n)
    BY <1>1 DEF Memory, SameTrades
<1> QED
    BY <1>1, <1>4, <1>5, <1>6

(* The ways to be served: refused, refused after the reservation is gone,  *)
(* or with the slot.                                                       *)
Slots(m, res, now, b, q, draw) ==
    LET l == m.queue[q].listing
        units == m.queue[q].units
        t == ActiveId(Served(m, q), l, units, draw[1])
        x == Allocate(Served(m, q), now, b, l, units, t).mem
    IN  /\ draw[1] \in Suffixes
        /\ units <= Served(m, q).inv[l].avail
        /\ res = Result(Seated(x, q, l), {t}, {l}, TRUE)
Activates(m, res, now, b, q, draw) ==
    \/ res = Throw(m)
    \/ /\ m.queue[q] # Null /\ m.queue[q].buyer = b
       /\ Waits(m.queue[q])
       /\ m.inv[m.queue[q].listing] # Null /\ m.trades[m.queue[q].listing] # Null
       /\ m.inv[m.queue[q].listing].slot = Null
       /\ res = Throw(Served(m, q)) \/ Slots(m, res, now, b, q, draw)

LEMMA ResultFields ==
    ASSUME NEW m, NEW ts, NEW ls, NEW ok
    PROVE  LET res == Result(m, ts, ls, ok) IN
           res.mem = m /\ res.trades = ts /\ res.listings = ls /\ res.ok = ok
    BY DEF Result

LEMMA ActivateActivates ==
    ASSUME NEW m, m \in Memory, NEW now, NEW b, NEW q \in QueueRefs, NEW draw,
           m.queue[q] # Null, Drawn(m, m.queue[q].listing, draw)
    PROVE  Activates(m, ActivateQueueEntry(m, now, b, q, draw), now, b, q, draw)
<1> PICK l \in Listings : l = m.queue[q].listing
    BY DEF Memory, QueueEntry
<1> PICK units \in Nat : units = m.queue[q].units
    BY DEF Memory, QueueEntry
<1> PICK res : res = ActivateQueueEntry(m, now, b, q, draw)
    OBVIOUS
<1> PICK n : n = Served(m, q)
    OBVIOUS
<1> PICK taken : taken = TakePeerOffer(n, now, b, l, units, draw)
    OBVIOUS
<1>1. CASE \/ m.queue[q].buyer # b \/ ~Waits(m.queue[q])
           \/ m.inv[l] = Null \/ m.trades[l] = Null \/ m.inv[l].slot # Null
    BY <1>1 DEF ActivateQueueEntry, Activates, Waits
<1>2. CASE /\ m.queue[q].buyer = b /\ Waits(m.queue[q])
           /\ m.inv[l] # Null /\ m.trades[l] # Null /\ m.inv[l].slot = Null
  <2>1. \/ res = Throw(m)
        \/ ~taken.ok /\ res = taken
        \/ /\ taken.ok
           /\ res = Result(Seated(taken.mem, q, l), taken.trades, taken.listings, TRUE)
    BY <1>2 DEF ActivateQueueEntry
  <2>2. n \in Memory /\ n.inv = [m.inv EXCEPT ![l] = Unreserved(m.inv[l], units)]
        /\ SameTrades(m, n)
    BY <1>2, ServedFields
  <2>3. n.inv[l].slot = Null
    <3>1. m.inv[l] \in SellerInventory /\ n.inv[l] = Unreserved(m.inv[l], units)
      BY <1>2, <2>2 DEF Memory
    <3> QED
      BY <1>2, <3>1 DEF Unreserved, SellerInventory
  <2>4. Drawn(n, l, draw)
    BY <1>2, <2>3 DEF Drawn
  <2>5. Takes(n, taken, now, b, l, units, draw)
    BY <2>2, <2>4, TakeTakes
  <2>6. ~Throw(n).ok
    BY DEF Throw, Result
  <2> PICK t : t = ActiveId(n, l, units, draw[1])
    OBVIOUS
  <2> PICK A : A = Allocate(n, now, b, l, units, t)
    OBVIOUS
  <2>7. A.ok /\ A = Result(A.mem, {t}, {l}, TRUE)
    BY DEF Allocate, Result
  <2>8. \/ taken = Throw(n)
        \/ taken = A /\ units <= n.inv[l].avail /\ draw[1] \in Suffixes
    BY <2>3, <2>5, NullApart DEF Takes
  <2>9. CASE res = Throw(m)
    BY <2>9 DEF Activates
  <2>10. CASE res = Throw(n)
    BY <1>2, <2>10 DEF Activates
  <2>11. CASE /\ taken = A /\ units <= n.inv[l].avail /\ draw[1] \in Suffixes
              /\ res = Result(Seated(taken.mem, q, l), taken.trades, taken.listings, TRUE)
    <3>1. res = Result(Seated(A.mem, q, l), {t}, {l}, TRUE)
      <4>1. A.trades = {t} /\ A.listings = {l}
        BY DEF Allocate, Result
      <4> QED
        BY <2>11, <4>1
    <3>2. Slots(m, res, now, b, q, draw)
      BY <2>11, <3>1 DEF Slots
    <3> QED
      BY <1>2, <3>2 DEF Activates
  <2> QED
    BY <2>1, <2>6, <2>7, <2>8, <2>9, <2>10, <2>11
<1> QED
    BY <1>1, <1>2

LEMMA InSlotFields ==
    ASSUME NEW x, x \in Memory, NEW q \in QueueRefs, x.queue[q] # Null,
           NEW l \in Listings, x.inv[l] # Null
    PROVE  LET y == Seated(x, q, l) IN
           /\ y \in Memory
           /\ y.queue = [x.queue EXCEPT ![q] = InSlot(x.queue[q], x.inv[l].slot)]
           /\ y.inv = x.inv /\ y.ghost = x.ghost /\ SameTrades(x, y)
<1>1. x.inv[l] \in SellerInventory /\ x.queue[q] \in QueueEntry
    BY DEF Memory
<1>2. x.inv[l].slot \in TradeIds \cup {Null}
    BY <1>1 DEF SellerInventory
<1> PICK e : e = InSlot(x.queue[q], x.inv[l].slot)
    OBVIOUS
<1>3. e \in QueueEntry
    BY <1>1, <1>2, EntryTyped
<1> PICK y : y = [x EXCEPT !.queue[q] = e]
    OBVIOUS
<1>4. y \in Memory /\ y.queue = [x.queue EXCEPT ![q] = e]
    BY <1>3 DEF Memory
<1>5. y.inv = x.inv /\ y.ghost = x.ghost /\ SameTrades(x, y)
    BY DEF Memory, SameTrades
<1>6. y = Seated(x, q, l)
    BY DEF Seated
<1> QED
    BY <1>4, <1>5, <1>6

Seats(x, y) == y.trades = x.trades /\ y.inv = x.inv
LEMMA SeatedSound ==
    ASSUME NEW x, NEW now, Sound(x, now), NEW q \in QueueRefs, x.queue[q] # Null,
           NEW l \in Listings, x.inv[l] # Null
    PROVE  Sound(Seated(x, q, l), now) /\ Seats(x, Seated(x, q, l))
<1>1. x \in Memory
    BY DEF Sound, Typed
<1> PICK y : y = Seated(x, q, l)
    OBVIOUS
<1>2. y \in Memory /\ SameTrades(x, y) /\ y.inv = x.inv
    BY <1>1, InSlotFields
<1>3. Sound(y, now)
    BY <1>2, TrustSound
<1> QED
    BY <1>2, <1>3 DEF Seats, SameTrades

LEMMA ActivatesGood ==
    ASSUME NEW m, NEW now \in Nat, Sound(m, now), NEW b \in Buyers, NEW q \in QueueRefs,
           NEW draw, NEW res, Activates(m, res, now, b, q, draw)
    PROVE  Good(res, now)
<1>1. CASE res = Throw(m)
    BY <1>1, ThrowGood
<1>2. CASE /\ m.queue[q] # Null
           /\ m.inv[m.queue[q].listing] # Null /\ m.trades[m.queue[q].listing] # Null
           /\ res = Throw(Served(m, q)) \/ Slots(m, res, now, b, q, draw)
  <2>1. m \in Memory
    BY DEF Sound, Typed
  <2> PICK l \in Listings : l = m.queue[q].listing
    BY <1>2, <2>1 DEF Memory, QueueEntry
  <2> PICK units \in Nat : units = m.queue[q].units
    BY <1>2, <2>1 DEF Memory, QueueEntry
  <2> PICK n : n = Served(m, q)
    OBVIOUS
  <2>2. n \in Memory /\ SameTrades(m, n) /\ n.inv = [m.inv EXCEPT ![l] = Unreserved(m.inv[l], units)]
    BY <1>2, <2>1, ServedFields
  <2>3. Sound(n, now)
    BY <2>2, TrustSound
  <2>4. CASE res = Throw(n)
    BY <2>3, <2>4, ThrowGood
  <2>5. CASE Slots(m, res, now, b, q, draw)
    <3> PICK t : t = ActiveId(n, l, units, draw[1])
      OBVIOUS
    <3> PICK A : A = Allocate(n, now, b, l, units, t)
      OBVIOUS
    <3> PICK x : x = A.mem
      OBVIOUS
    <3> PICK y : y = Seated(x, q, l)
      OBVIOUS
    <3>1. draw[1] \in Suffixes /\ units <= n.inv[l].avail /\ res = Result(y, {t}, {l}, TRUE)
      BY <2>5 DEF Slots
    <3>2. t \in TradeIds
      BY <3>1, ActiveIdTyped
    <3>3. n.inv[l] # Null
      <4>1. m.inv[l] \in SellerInventory /\ n.inv[l] = Unreserved(m.inv[l], units)
        BY <1>2, <2>1, <2>2 DEF Memory
      <4> QED
        BY <3>2, <4>1, StockTyped, NullApart
    <3>4. Good(A, now)
      BY <2>3, <3>1, <3>2, <3>3, AllocateGood
    <3>5. Sound(x, now) /\ x.trades[t] # Null /\ x.inv[l] # Null
      BY <3>2, <3>4 DEF Good, Proper, Allocate, Result
    <3>6. x \in Memory /\ x.queue[q] # Null
      <4>1. x \in Memory
        BY <3>5 DEF Sound, Typed
      <4>2. Allocates(n, x, now, b, l, units, t)
        BY <2>2, <3>1, <3>2, <3>3, AllocateFields
      <4>3. x.queue = n.queue
        BY <4>2 DEF Allocates
      <4>4. m.queue[q] \in QueueEntry /\ m.queue \in [QueueRefs -> QueueEntry \cup {Null}]
        BY <1>2, <2>1 DEF Memory
      <4>5. n.queue = [m.queue EXCEPT ![q] = [m.queue[q] EXCEPT !.status = "ACTIVE_SLOT"]]
        BY <1>2, <2>1, ServedFields
      <4>6. [m.queue[q] EXCEPT !.status = "ACTIVE_SLOT"] \in QueueEntry
        BY <4>4, EntryTyped
      <4>7. x.queue[q] = [m.queue[q] EXCEPT !.status = "ACTIVE_SLOT"]
        BY <4>3, <4>4, <4>5
      <4>8. x.queue[q] \in QueueEntry
        BY <4>6, <4>7
      <4> QED
        BY <4>1, <4>8, NullApart
    <3>7. Sound(y, now) /\ Seats(x, y)
      BY <3>5, <3>6, SeatedSound
    <3> QED
      BY <3>1, <3>5, <3>7 DEF Good, Proper, Result, Sound, Seats
  <2> QED
    BY <1>2, <2>4, <2>5
<1> QED
    BY <1>1, <1>2 DEF Activates

(* A call that also throws: its memory and rows are those it had.          *)
LEMMA ThrowsGood ==
    ASSUME NEW m, NEW ts, NEW ls, NEW ok, NEW now, Good(Result(m, ts, ls, ok), now)
    PROVE  Good([Result(m, ts, ls, ok) EXCEPT !.ok = FALSE], now)
<1> PICK x : x = [Result(m, ts, ls, ok) EXCEPT !.ok = FALSE]
    OBVIOUS
<1>1. x.mem = m /\ x.trades = ts /\ x.listings = ls
    BY DEF Result
<1>2. Proper(Result(m, ts, ls, ok)) /\ Sound(m, now)
    BY DEF Good, Result
<1>3. Proper(x)
    BY <1>1, <1>2 DEF Proper, Result
<1> QED
    BY <1>1, <1>2, <1>3 DEF Good

LEMMA TakesResult ==
    ASSUME NEW m, NEW res, NEW now, NEW b, NEW l, NEW want, NEW draw,
           Takes(m, res, now, b, l, want, draw)
    PROVE  \E n, ts, ls, ok : res = Result(n, ts, ls, ok)
    BY DEF Takes, Throw, JoinQueue, Allocate

LEMMA BilledSound ==
    ASSUME NEW m, NEW now, Sound(m, now), NEW t \in TradeIds, m.trades[t] # Null,
           NEW r \in TxRefs, m.attempts[r] = Null, ~Reusable(m, now, m.trades[t]),
           NEW row \in SharedTrade, row.life = m.trades[t].life,
           row.flw = m.trades[t].flw, row.ref = r,
           NEW a \in PaymentAttempt, a.trade = t
    PROVE  Sound([m EXCEPT !.attempts[r] = a, !.trades[t] = row], now)
<1> PICK n : n = [m EXCEPT !.attempts[r] = a, !.trades[t] = row]
    OBVIOUS
<1>1. m \in Memory
    BY DEF Sound, Typed
<1>2. n \in Memory
    BY <1>1 DEF Memory
<1>3. /\ n.attempts = [m.attempts EXCEPT ![r] = a]
      /\ n.trades = [m.trades EXCEPT ![t] = row]
      /\ n.consumed = m.consumed /\ n.ghost = m.ghost
    BY <1>1 DEF Memory
<1>4. \A u \in TradeIds : n.trades[u] = IF u = t THEN row ELSE m.trades[u]
    BY <1>1, <1>3 DEF Memory
<1>5. \A x \in TxRefs : n.attempts[x] = IF x = r THEN a ELSE m.attempts[x]
    BY <1>1, <1>3 DEF Memory
<1>6. OpensListed(n)
    BY <1>4 DEF OpensListed, Sound, Typed
<1>7. PaidTo(n)
    BY <1>3, <1>4 DEF PaidTo, Sound
<1>8. ASSUME NEW u \in n.ghost.own
      PROVE  OwnedAt(n, now, u)
  <2>1. u \in TradeIds
    BY <1>2, <1>8 DEF Memory, Ghost
  <2>2. OwnedAt(m, now, u)
    BY <1>3, <1>8 DEF Sound, Owned
  <2>3. CASE u = t
    <3>1. ASSUME NEW x \in TxRefs, OpenAttempt(n, now, x), n.attempts[x].trade = u, x # r
          PROVE  FALSE
      <4>1. OpenAttempt(m, now, x) /\ m.attempts[x].trade = t
        BY <1>5, <2>3, <3>1 DEF OpenAttempt
      <4>2. m.trades[t].ref = x
        BY <2>2, <2>3, <4>1 DEF OwnedAt
      <4> QED
        BY <4>1, <4>2, NullApart DEF Reusable
    <3> QED
      BY <1>3, <1>4, <2>2, <2>3, <3>1, NullApart DEF OwnedAt
  <2>4. CASE u # t
    BY <1>3, <1>4, <1>5, <2>1, <2>2, <2>4 DEF OwnedAt, OpenAttempt
  <2> QED
    BY <2>3, <2>4
<1> QED
    BY <1>2, <1>6, <1>7, <1>8 DEF Sound, Typed, Owned

(* The trade t is billed by the attempt r.                                 *)
Bills(m, now, t, r, row, a) ==
    /\ Sound(m, now) /\ t \in TradeIds /\ m.trades[t] # Null
    /\ r \in TxRefs /\ m.attempts[r] = Null /\ ~Reusable(m, now, m.trades[t])
    /\ row \in SharedTrade /\ row.life = m.trades[t].life
    /\ row.flw = m.trades[t].flw /\ row.ref = r
    /\ a \in PaymentAttempt /\ a.trade = t
Billed(m, t, r, row, a) == [m EXCEPT !.attempts[r] = a, !.trades[t] = row]
LEMMA BilledGood ==
    ASSUME NEW m, NEW now, NEW t, NEW r, NEW row, NEW a, Bills(m, now, t, r, row, a)
    PROVE  Good(Synced(Billed(m, t, r, row, a), t, {}), now)
<1> PICK n : n = Billed(m, t, r, row, a)
    OBVIOUS
<1>1. Sound(n, now)
    BY BilledSound DEF Bills, Billed
<1>2. n.trades[t] # Null
    BY NullApart DEF Bills, Billed, Sound, Typed, Memory
<1>3. /\ Synced(n, t, {}).mem = n /\ Synced(n, t, {}).trades = {t}
      /\ Synced(n, t, {}).listings = {}
    BY DEF Synced, Result
<1>4. Proper(Synced(n, t, {}))
    BY <1>1, <1>2, <1>3 DEF Proper, Sound
<1> QED
    BY <1>1, <1>3, <1>4 DEF Good

LEMMA LockedTyped ==
    ASSUME NEW row \in SharedTrade, NEW due \in Nat \cup {Null}
    PROVE  [row EXCEPT !.due = due, !.locked = TRUE] \in SharedTrade
    BY DEF SharedTrade

LEMMA AttachedTyped ==
    ASSUME NEW row \in SharedTrade, NEW r \in TxRefs
    PROVE  [row EXCEPT !.ref = r, !.pay = "CHECKOUT_CREATED"] \in SharedTrade
    BY DEF SharedTrade, PaymentStates

LEMMA LockedSound ==
    ASSUME NEW m, NEW now, Sound(m, now), NEW t \in TradeIds, m.trades[t] # Null,
           NEW due \in Nat \cup {Null}
    PROVE  Sound([m EXCEPT !.trades[t] = [m.trades[t] EXCEPT !.due = due, !.locked = TRUE]], now)
<1> PICK row : row = m.trades[t]
    OBVIOUS
<1> PICK new : new = [row EXCEPT !.due = due, !.locked = TRUE]
    OBVIOUS
<1>1. row \in SharedTrade /\ (row.life = "OPEN" => t \in Listings)
    BY DEF Sound, Typed, OpensListed, Memory
<1>2. new \in SharedTrade
    BY <1>1, LockedTyped
<1>3. new.life = row.life /\ new.flw = row.flw /\ new.ref = row.ref
    BY <1>1 DEF SharedTrade
<1>4. Sound([m EXCEPT !.trades[t] = new], now)
    BY <1>1, <1>2, <1>3, RowSound
<1> QED
    BY <1>4

(* A checkout that opens an attempt, call by call.                         *)
ClaimedBy(m, b, t) == [m EXCEPT !.trades[t].buyer = b]
DueOf(row, now) == IF row.due = Null THEN now + PaymentTimeout ELSE row.due
LockedBy(m, now, b, t) ==
    [ClaimedBy(m, b, t) EXCEPT
        !.trades[t] = [@ EXCEPT !.due = DueOf(m.trades[t], now), !.locked = TRUE]]
Attempted(m, now, b, t, r) ==
    [LockedBy(m, now, b, t) EXCEPT
        !.attempts[r] = [trade |-> t, buyer |-> b, expires |-> DueOf(m.trades[t], now),
                         flw |-> Null, status |-> "REDIRECT_READY"],
        !.trades[t] = [@ EXCEPT !.ref = r, !.pay = "CHECKOUT_CREATED"]]

LEMMA CheckoutAttempts ==
    ASSUME NEW m, NEW now, NEW b, NEW t, NEW r, NEW draw,
           m.trades[t] # Null, m.trades[t].buyer \in {b, Null},
           m.trades[t].life = "AWAITING_PAYMENT", ~(now >= DueOf(m.trades[t], now)),
           ~Reusable(m, now, m.trades[t])
    PROVE  Checkout(m, now, b, t, r, draw) = Synced(Attempted(m, now, b, t, r), t, {})
    BY DEF Checkout, Attempted, LockedBy, ClaimedBy, DueOf

LEMMA CheckoutGood ==
    ASSUME NEW m, NEW now \in Nat, Sound(m, now), NEW b \in Buyers, NEW t \in TradeIds,
           NEW r \in TxRefs, m.attempts[r] = Null, NEW draw,
           t \in Listings /\ m.trades[t] # Null /\ m.trades[t].life = "OPEN"
                => Drawn(m, t, draw)
    PROVE  Good(Checkout(m, now, b, t, r, draw), now)
<1> PICK row : row = m.trades[t]
    OBVIOUS
<1> PICK res : res = Checkout(m, now, b, t, r, draw)
    OBVIOUS
<1>1. m \in Memory
    BY DEF Sound, Typed
<1>2. CASE res = Throw(m)
    BY <1>2, ThrowGood
<1>3. ASSUME row # Null, row.buyer \in {b, Null}, res # Throw(m)
      PROVE  Good(res, now)
  <2>1. row \in SharedTrade
    BY <1>1, <1>3 DEF Memory
  <2> PICK row1 : row1 = [row EXCEPT !.buyer = b]
    OBVIOUS
  <2>2. row1 \in SharedTrade
    BY <2>1 DEF SharedTrade
  <2>3. /\ row1.life = row.life /\ row1.flw = row.flw /\ row1.ref = row.ref
        /\ row1.due = row.due
    BY <2>1 DEF SharedTrade
  <2> PICK m1 : m1 = [m EXCEPT !.trades[t].buyer = b]
    OBVIOUS
  <2>4. m1 = [m EXCEPT !.trades[t] = row1]
    BY <1>1
  <2>5. row.life = "OPEN" => t \in Listings
    BY <1>3 DEF Sound, Typed, OpensListed
  <2>6. Sound(m1, now)
    <3>1. Sound([m EXCEPT !.trades[t] = row1], now)
      BY <1>3, <2>2, <2>3, <2>5, RowSound
    <3> QED
      BY <2>4, <3>1
  <2>7. m1 \in Memory /\ m1.trades[t] = row1 /\ row1 # Null
    <3>1. m1.trades[t] = row1
      BY <1>1, <2>4 DEF Memory
    <3> QED
      BY <2>2, <2>6, <3>1, NullApart DEF Sound, Typed
  <2>8. m1.inv = m.inv /\ m1.queue = m.queue /\ m1.attempts = m.attempts
    BY <1>1, <2>4 DEF Memory
  <2> PICK took : took = TakePeerOffer(m1, now, b, t, Null, draw)
    OBVIOUS
  <2> PICK due : due = IF row.due = Null THEN now + PaymentTimeout ELSE row.due
    OBVIOUS
  <2> PICK row2 : row2 = [row1 EXCEPT !.due = due, !.locked = TRUE]
    OBVIOUS
  <2> PICK m2 : m2 = [m1 EXCEPT !.trades[t] = row2]
    OBVIOUS
  <2> PICK row3 : row3 = [row2 EXCEPT !.ref = r, !.pay = "CHECKOUT_CREATED"]
    OBVIOUS
  <2> PICK a : a = [trade |-> t, buyer |-> b, expires |-> due,
                    flw |-> Null, status |-> "REDIRECT_READY"]
    OBVIOUS
  <2> PICK m3 : m3 = [m2 EXCEPT !.attempts[r] = a, !.trades[t] = row3]
    OBVIOUS
  <2>9. due \in Nat
    BY <2>1, TimeoutAssumption DEF SharedTrade
  <2>10. row2 \in SharedTrade
    BY <2>2, <2>9, LockedTyped
  <2>11. row2.life = row.life /\ row2.flw = row.flw /\ row2.ref = row.ref
    BY <2>2, <2>3 DEF SharedTrade
  <2>12. m2.trades[t] = row2 /\ m2.attempts = m.attempts /\ m2.inv = m.inv
    BY <2>7, <2>8 DEF Memory
  <2>13. m2 = [m1 EXCEPT !.trades[t] = [@ EXCEPT !.due = due, !.locked = TRUE]]
    BY <2>7
  <2>14. m3 = [m2 EXCEPT !.attempts[r] = a,
                !.trades[t] = [@ EXCEPT !.ref = r, !.pay = "CHECKOUT_CREATED"]]
    BY <2>12
  <2>15. CASE row.life = "OPEN"
    <3>1. res = [took EXCEPT !.ok = FALSE]
      BY <1>3, <2>15 DEF Checkout
    <3>2. t \in Listings /\ Drawn(m1, t, draw)
      BY <1>3, <2>5, <2>8, <2>15 DEF Drawn
    <3>3. Takes(m1, took, now, b, t, Null, draw)
      BY <2>7, <3>2, TakeTakes
    <3>4. Good(took, now)
      BY <2>6, <3>2, <3>3, TakesGood
    <3>5. PICK n, ts, ls, ok : took = Result(n, ts, ls, ok)
      BY <3>3, TakesResult
    <3>6. Good(Result(n, ts, ls, ok), now)
      BY <3>4, <3>5
    <3>7. Good([Result(n, ts, ls, ok) EXCEPT !.ok = FALSE], now)
      BY <3>6, ThrowsGood
    <3> QED
      BY <3>1, <3>5, <3>7
  <2>16. CASE row.life # "OPEN" /\ (row.life # "AWAITING_PAYMENT" \/ now >= due)
    <3>1. res = Throw(m1)
      BY <1>3, <2>16 DEF Checkout
    <3> QED
      BY <2>6, <3>1, ThrowGood
  <2>17. CASE row.life = "AWAITING_PAYMENT" /\ ~(now >= due)
    <3>1. Sound(m2, now)
      <4>1. Sound([m1 EXCEPT !.trades[t] =
                     [m1.trades[t] EXCEPT !.due = due, !.locked = TRUE]], now)
        BY <2>6, <2>7, <2>9, LockedSound
      <4> QED
        BY <2>7, <4>1
    <3>2. CASE Reusable(m, now, row)
      <4>1. res = Result(m2, {}, {}, TRUE)
        BY <1>3, <2>13, <2>17, <3>2 DEF Checkout
      <4>2. res.mem = m2 /\ res.trades = {} /\ res.listings = {}
        BY <4>1 DEF Result
      <4>3. Typed(m2)
        BY <3>1 DEF Sound
      <4> QED
        BY <3>1, <4>2, <4>3 DEF Good, Proper
    <3>3. CASE ~Reusable(m, now, row)
      <4>1. res = Synced(m3, t, {})
        <5>1. m1 = ClaimedBy(m, b, t) /\ due = DueOf(m.trades[t], now)
          BY DEF ClaimedBy, DueOf
        <5>2. m2 = LockedBy(m, now, b, t)
          BY <2>13, <5>1 DEF LockedBy
        <5>3. m3 = Attempted(m, now, b, t, r)
          BY <2>14, <5>1, <5>2 DEF Attempted
        <5>4. res = Synced(Attempted(m, now, b, t, r), t, {})
          BY <1>3, <2>17, <3>3, <5>1, CheckoutAttempts
        <5> QED
          BY <5>3, <5>4
      <4>2. row3 \in SharedTrade
        BY <2>10, AttachedTyped
      <4>3. row3.life = row2.life /\ row3.flw = row2.flw /\ row3.ref = r
        BY <2>10 DEF SharedTrade
      <4>4. a \in PaymentAttempt /\ a.trade = t
        BY <2>9 DEF PaymentAttempt
      <4>5. ~Reusable(m2, now, m2.trades[t])
        BY <2>11, <2>12, <3>3 DEF Reusable, OpenAttempt
      <4>6. Bills(m2, now, t, r, row3, a)
        BY <2>10, <2>12, <3>1, <4>2, <4>3, <4>4, <4>5, NullApart DEF Bills
      <4>7. m3 = Billed(m2, t, r, row3, a)
        BY DEF Billed
      <4>8. Good(Synced(Billed(m2, t, r, row3, a), t, {}), now)
        BY <4>6, BilledGood
      <4> QED
        BY <4>1, <4>7, <4>8
    <3> QED
      BY <3>2, <3>3
  <2> QED
    BY <2>15, <2>16, <2>17
<1> QED
    BY <1>2, <1>3 DEF Checkout
-----------------------------------------------------------------------------
(* What a reported payment does.                                           *)
LEMMA SeenSound ==
    ASSUME NEW m, NEW now, Sound(m, now), NEW s \in SUBSET FlwIds
    PROVE  Sound([m EXCEPT !.seen = s], now)
<1> PICK n : n = [m EXCEPT !.seen = s]
    OBVIOUS
<1>1. m \in Memory
    BY DEF Sound, Typed
<1>2. n \in Memory /\ SameTrades(m, n)
    BY <1>1 DEF Memory, SameTrades
<1> QED
    BY <1>2, TrustSound

(* The row, and the attempt that is then no longer open.                   *)
Pays(m, n, t, r, row, a, c) ==
    /\ row \in SharedTrade /\ (row.life = "OPEN" => m.trades[t].life = "OPEN")
    /\ row.life = "AWAITING_PAYMENT" => m.trades[t].life = "AWAITING_PAYMENT"
    /\ row.ref = m.trades[t].ref
    /\ a.trade = m.attempts[r].trade /\ a.status # "REDIRECT_READY"
    /\ \A f \in FlwIds : m.consumed[f] # Null => c[f] = m.consumed[f]
    /\ row.flw # Null => c[row.flw] = t
    /\ n \in Memory /\ n.consumed = c /\ n.ghost = m.ghost
    /\ n.attempts = [m.attempts EXCEPT ![r] = a]
    /\ n.trades = [m.trades EXCEPT ![t] = row]
LEMMA PaidSound ==
    ASSUME NEW m, NEW now, Sound(m, now), NEW t \in TradeIds, m.trades[t] # Null,
           NEW r \in TxRefs, m.attempts[r] # Null,
           NEW row, NEW a, NEW c, NEW n, Pays(m, n, t, r, row, a, c)
    PROVE  Sound(n, now)
<1>1. m \in Memory
    BY DEF Sound, Typed
<1>2. n \in Memory
    BY DEF Pays
<1>3. /\ n.attempts = [m.attempts EXCEPT ![r] = a]
      /\ n.trades = [m.trades EXCEPT ![t] = row]
      /\ n.consumed = c /\ n.ghost = m.ghost
    BY DEF Pays
<1>9. /\ row \in SharedTrade /\ (row.life = "OPEN" => m.trades[t].life = "OPEN")
      /\ row.life = "AWAITING_PAYMENT" => m.trades[t].life = "AWAITING_PAYMENT"
      /\ row.ref = m.trades[t].ref
      /\ a.trade = m.attempts[r].trade /\ a.status # "REDIRECT_READY"
      /\ \A f \in FlwIds : m.consumed[f] # Null => c[f] = m.consumed[f]
      /\ row.flw # Null => c[row.flw] = t
    BY DEF Pays
<1>4. \A u \in TradeIds : n.trades[u] = IF u = t THEN row ELSE m.trades[u]
    BY <1>1, <1>3 DEF Memory
<1>5. \A x \in TxRefs : n.attempts[x] = IF x = r THEN a ELSE m.attempts[x]
    BY <1>1, <1>3 DEF Memory
<1>6. OpensListed(n)
    BY <1>4, <1>9 DEF OpensListed, Sound, Typed
<1>7. PaidTo(n)
  <2>1. ASSUME NEW u \in TradeIds, u # t, m.trades[u] # Null, m.trades[u].flw # Null
        PROVE  c[m.trades[u].flw] = u
    <3>1. m.consumed[m.trades[u].flw] = u
      BY <2>1 DEF Sound, PaidTo
    <3>2. m.trades[u].flw \in FlwIds
      BY <1>1, <2>1 DEF Memory, SharedTrade
    <3> QED
      BY <1>9, <3>1, <3>2, NullApart
  <2> QED
    BY <1>3, <1>4, <1>9, <2>1 DEF PaidTo
<1>8. ASSUME NEW u \in n.ghost.own
      PROVE  OwnedAt(n, now, u)
  <2>1. u \in TradeIds
    BY <1>2, <1>8 DEF Memory, Ghost
  <2>2. OwnedAt(m, now, u)
    BY <1>3, <1>8 DEF Sound, Owned
  <2>3. \A x \in TxRefs : OpenAttempt(n, now, x) => OpenAttempt(m, now, x)
                            /\ n.attempts[x].trade = m.attempts[x].trade
    BY <1>5, <1>9 DEF OpenAttempt
  <2> QED
    BY <1>3, <1>4, <1>9, <2>1, <2>2, <2>3, NullApart DEF OwnedAt
<1> QED
    BY <1>2, <1>6, <1>7, <1>8 DEF Sound, Typed, Owned

LEMMA FailedSound ==
    ASSUME NEW m, NEW now, Sound(m, now), NEW t \in TradeIds, m.trades[t] # Null,
           NEW r \in TxRefs, m.attempts[r] # Null
    PROVE  Sound([m EXCEPT !.attempts[r].status = "MISMATCH_HOLD",
                           !.trades[t].pay = "FAILED"], now)
<1> PICK row : row = [m.trades[t] EXCEPT !.pay = "FAILED"]
    OBVIOUS
<1> PICK a : a = [m.attempts[r] EXCEPT !.status = "MISMATCH_HOLD"]
    OBVIOUS
<1> PICK n : n = [m EXCEPT !.attempts[r] = a, !.trades[t] = row]
    OBVIOUS
<1>1. m \in Memory /\ m.trades[t] \in SharedTrade /\ m.attempts[r] \in PaymentAttempt
    BY DEF Sound, Typed, Memory
<1>2. row \in SharedTrade /\ a \in PaymentAttempt
    BY <1>1 DEF SharedTrade, PaymentAttempt, PaymentStates
<1>3. /\ row.life = m.trades[t].life /\ row.ref = m.trades[t].ref
      /\ row.flw = m.trades[t].flw
    BY <1>1 DEF SharedTrade
<1>4. a.trade = m.attempts[r].trade /\ a.status # "REDIRECT_READY"
    BY <1>1 DEF PaymentAttempt
<1>5. n \in Memory
    BY <1>1, <1>2 DEF Memory
<1>6. /\ n.attempts = [m.attempts EXCEPT ![r] = a]
      /\ n.trades = [m.trades EXCEPT ![t] = row]
      /\ n.consumed = m.consumed /\ n.ghost = m.ghost
    BY <1>1 DEF Memory
<1>7. /\ m.consumed \in [FlwIds -> TradeIds \cup {Null}]
      /\ row.flw # Null => m.consumed[row.flw] = t
    BY <1>1, <1>3 DEF Sound, PaidTo, Memory
<1>8. Sound(n, now)
  <2>1. Pays(m, n, t, r, row, a, m.consumed)
    BY <1>2, <1>3, <1>4, <1>5, <1>6, <1>7 DEF Pays
  <2> QED
    BY <2>1, PaidSound
<1>9. n = [m EXCEPT !.attempts[r].status = "MISMATCH_HOLD", !.trades[t].pay = "FAILED"]
    OBVIOUS
<1> QED
    BY <1>8, <1>9

LEMMA PaidRowTyped ==
    ASSUME NEW row \in SharedTrade, NEW f \in FlwIds, NEW status, NEW amount \in Amounts
    PROVE  LET new == PaidRow(row, f, status, amount) IN
           /\ new \in SharedTrade
           /\ new.flw = f /\ new.ref = row.ref
           /\ new.life \in {row.life, "LATE_PAYMENT_REVIEW", "PAYMENT_CONFIRMED"}
<1> PICK pay : pay = CASE amount = "under" -> "UNDERPAID"
                       [] amount = "over"  -> "OVERPAID"
                       [] amount \notin {"under", "over"} /\ status = "LATE_VERIFIED"
                             -> "LATE_CONFIRMED"
                       [] OTHER -> "CONFIRMED"
    OBVIOUS
<1>1. pay \in PaymentStates
    BY DEF PaymentStates
<1> PICK life : life = CASE amount # "exact" -> row.life
                         [] amount = "exact" /\ status = "LATE_VERIFIED"
                              -> "LATE_PAYMENT_REVIEW"
                         [] OTHER -> "PAYMENT_CONFIRMED"
    OBVIOUS
<1>2. life \in {row.life, "LATE_PAYMENT_REVIEW", "PAYMENT_CONFIRMED"}
    OBVIOUS
<1>3. life \in Lifecycle
    BY <1>2 DEF SharedTrade, Lifecycle
<1> PICK new : new = [row EXCEPT !.flw = f, !.pay = pay, !.life = life]
    OBVIOUS
<1>4. new = PaidRow(row, f, status, amount)
    BY DEF PaidRow
<1>5. new \in SharedTrade
    BY <1>1, <1>3 DEF SharedTrade
<1>6. new.flw = f /\ new.ref = row.ref /\ new.life = life
    BY DEF SharedTrade
<1> QED
    BY <1>2, <1>4, <1>5, <1>6

LEMMA CreditedSound ==
    ASSUME NEW m, NEW now \in Nat, Sound(m, now), NEW t \in TradeIds, m.trades[t] # Null,
           NEW r \in TxRefs, m.attempts[r] # Null, NEW f \in FlwIds,
           ~ConsumedElsewhere(m, t, f), NEW amount \in Amounts
    PROVE  Sound(Credited(m, now, t, r, f, amount), now)
<1> PICK status : status = Verified(m, now, t, r, amount)
    OBVIOUS
<1>1. status \in {"MISMATCH_HOLD", "LATE_VERIFIED", "VERIFIED"}
    BY DEF Verified
<1>2. m \in Memory /\ m.trades[t] \in SharedTrade /\ m.attempts[r] \in PaymentAttempt
    BY DEF Sound, Typed, Memory
<1> PICK row : row = PaidRow(m.trades[t], f, status, amount)
    OBVIOUS
<1> PICK a : a = [m.attempts[r] EXCEPT !.flw = f, !.status = status]
    OBVIOUS
<1> PICK c : c = [m.consumed EXCEPT ![f] = t]
    OBVIOUS
<1> PICK n : n = [m EXCEPT !.consumed[f] = t, !.attempts[r] = a, !.trades[t] = row]
    OBVIOUS
<1>3. /\ row \in SharedTrade /\ row.flw = f /\ row.ref = m.trades[t].ref
      /\ row.life \in {m.trades[t].life, "LATE_PAYMENT_REVIEW", "PAYMENT_CONFIRMED"}
    BY <1>2, PaidRowTyped
<1>4. a \in PaymentAttempt
    BY <1>1, <1>2 DEF PaymentAttempt
<1>5. a.trade = m.attempts[r].trade /\ a.status # "REDIRECT_READY"
    BY <1>1, <1>2 DEF PaymentAttempt
<1>6. n \in Memory
    BY <1>2, <1>3, <1>4 DEF Memory
<1>7. /\ n.attempts = [m.attempts EXCEPT ![r] = a]
      /\ n.trades = [m.trades EXCEPT ![t] = row]
      /\ n.consumed = c /\ n.ghost = m.ghost
    BY <1>2 DEF Memory
<1>8. c[f] = t /\ (\A g \in FlwIds : m.consumed[g] # Null => c[g] = m.consumed[g])
    BY <1>2 DEF Memory, ConsumedElsewhere
<1>9. Pays(m, n, t, r, row, a, c)
    BY <1>3, <1>5, <1>6, <1>7, <1>8 DEF Pays
<1>10. Sound(n, now)
    BY <1>9, PaidSound
<1>11. n = Credited(m, now, t, r, f, amount)
    BY DEF Credited
<1> QED
    BY <1>10, <1>11

(* What is left of a payment that is recorded.                             *)
Records(m, now, t, r, f, amount, res) ==
    \/ res = Result(m, {}, {}, TRUE) \/ res = Throw(m)
    \/ /\ m.trades[t] # Null /\ m.attempts[r] # Null
       /\ ~ConsumedElsewhere(m, t, f)
       /\ \/ \E n : /\ n = [m EXCEPT !.attempts[r].status = "MISMATCH_HOLD",
                                     !.trades[t].pay = "FAILED"]
                   /\ res = [Synced(n, t, {}) EXCEPT !.ok = FALSE]
          \/ res = Synced(Credited(m, now, t, r, f, amount), t, {})

LEMMA RecordsGood ==
    ASSUME NEW m, NEW now \in Nat, Sound(m, now), NEW t \in TradeIds, NEW r \in TxRefs,
           NEW f \in FlwIds, NEW amount \in Amounts, NEW res,
           Records(m, now, t, r, f, amount, res)
    PROVE  Good(res, now)
<1>1. CASE res = Result(m, {}, {}, TRUE) \/ res = Throw(m)
    BY <1>1, ThrowGood DEF Good, Proper, Result, Sound
<1>2. ASSUME m.trades[t] # Null, m.attempts[r] # Null,
             NEW n, n = [m EXCEPT !.attempts[r].status = "MISMATCH_HOLD",
                                  !.trades[t].pay = "FAILED"],
             res = [Synced(n, t, {}) EXCEPT !.ok = FALSE]
      PROVE  Good(res, now)
  <2>1. Sound(n, now)
    BY <1>2, FailedSound
  <2>2. n.trades[t] # Null
    <3>1. m \in Memory /\ m.trades[t] \in SharedTrade
      BY <1>2 DEF Sound, Typed, Memory
    <3> PICK row : row = [m.trades[t] EXCEPT !.pay = "FAILED"]
      OBVIOUS
    <3>2. row \in SharedTrade
      BY <3>1 DEF SharedTrade, PaymentStates
    <3>3. n.trades[t] = row
      BY <1>2, <3>1 DEF Memory
    <3> QED
      BY <3>2, <3>3, NullApart
  <2>3. Proper(Synced(n, t, {}))
    BY <2>1, <2>2, SyncedProper DEF Sound
  <2>4. Good(Result(n, {t}, {}, TRUE), now)
    BY <2>1, <2>3 DEF Good, Synced, Result
  <2>5. Good([Result(n, {t}, {}, TRUE) EXCEPT !.ok = FALSE], now)
    BY <2>4, ThrowsGood
  <2> QED
    BY <1>2, <2>5 DEF Synced
<1>3. ASSUME m.trades[t] # Null, m.attempts[r] # Null, ~ConsumedElsewhere(m, t, f),
             res = Synced(Credited(m, now, t, r, f, amount), t, {})
      PROVE  Good(res, now)
  <2> PICK n : n = Credited(m, now, t, r, f, amount)
    OBVIOUS
  <2>1. Sound(n, now)
    BY <1>3, CreditedSound
  <2>2. n.trades[t] # Null
    <3>1. m \in Memory /\ m.trades[t] \in SharedTrade
      BY <1>3 DEF Sound, Typed, Memory
    <3> PICK row : row = PaidRow(m.trades[t], f, Verified(m, now, t, r, amount), amount)
      OBVIOUS
    <3>2. row \in SharedTrade
      BY <3>1, PaidRowTyped
    <3>3. n.trades[t] = row
      BY <3>1 DEF Credited, Memory
    <3> QED
      BY <3>2, <3>3, NullApart
  <2>3. Proper(Synced(n, t, {}))
    BY <2>1, <2>2, SyncedProper DEF Sound
  <2> QED
    BY <1>3, <2>1, <2>3 DEF Good, Synced, Result
<1> QED
    BY <1>1, <1>2, <1>3 DEF Records

LEMMA RecordGood ==
    ASSUME NEW m, NEW now \in Nat, Sound(m, now), NEW t \in TradeIds, NEW r \in TxRefs,
           NEW f \in FlwIds, NEW amount \in Amounts, NEW event \in FlwIds \cup {Null}
    PROVE  Good(RecordPayment(m, now, t, r, f, amount, event), now)
<1> PICK res : res = RecordPayment(m, now, t, r, f, amount, event)
    OBVIOUS
<1> PICK s : s = IF event = Null THEN m.seen ELSE m.seen \cup {event}
    OBVIOUS
<1> PICK m1 : m1 = [m EXCEPT !.seen = s]
    OBVIOUS
<1>1. m \in Memory
    BY DEF Sound, Typed
<1>2. s \in SUBSET FlwIds
    BY <1>1 DEF Memory
<1>3. Sound(m1, now)
    BY <1>2, SeenSound
<1>4. /\ m1.attempts = m.attempts /\ m1.trades = m.trades
      /\ m1.consumed = m.consumed
    BY <1>1 DEF Memory
<1>5. m1 = [m EXCEPT !.seen = IF event = Null THEN @ ELSE @ \cup {event}]
    BY <1>1
<1>6. \/ res = Result(m, {}, {}, TRUE)
      \/ Records(m1, now, t, r, f, amount, res)
    BY <1>4, <1>5 DEF RecordPayment, Records, ConsumedElsewhere
<1>7. CASE res = Result(m, {}, {}, TRUE)
    BY <1>7 DEF Good, Proper, Result, Sound
<1> QED
    BY <1>3, <1>6, <1>7, RecordsGood

(* The memory of a process that just started.                             *)
LEMMA EmptySound ==
    ASSUME NEW n
    PROVE  Sound(EmptyMemory, n)
<1>1. FreshTrust \in TrustSummary
    BY CountAssumption DEF FreshTrust, TrustSummary
<1>2. EmptyMemory \in Memory
    BY <1>1 DEF EmptyMemory, Memory, Ghost
<1>3. /\ EmptyMemory.ghost.own = {}
      /\ \A t \in TradeIds : EmptyMemory.trades[t] = Null
    BY DEF EmptyMemory
<1> QED
    BY <1>2, <1>3 DEF Sound, Typed, OpensListed, PaidTo, Owned
=============================================================================
