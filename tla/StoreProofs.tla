---------------------------- MODULE StoreProofs ----------------------------
(***************************************************************************)
(* Proofs about TradeStore.  What its functions do to one memory is in     *)
(* StoreFacts: there every call is shown to take a sound memory to a sound *)
(* one, and to send only rows that exist.  Here the calls meet the         *)
(* database, the clock, restarts and the rows read back.                   *)
(***************************************************************************)
EXTENDS StoreProperties, StoreFacts

(* The rows of the database have the shape of what was sent, and only a    *)
(* listing's is an open offer's.                                           *)
DbTrade ==
    [buyer : Buyers \cup {Null}, units : Nat, life : Lifecycle,
     pay : PaymentStates, payout : {"NOT_STARTED", "PROCESSING", "CONFIRMED", "ON_HOLD"},
     due : Nat \cup {Null}, locked : BOOLEAN]
DbListing ==
    [total : Nat, avail : Nat, alloc : Nat, reserved : Nat, filled : Nat,
     status : {"ACTIVE", "DEPLETED"}]
DbRows(d) ==
    /\ \A t \in TradeIds : d.trades[t] # Null =>
            /\ d.trades[t] \in DbTrade
            /\ d.trades[t].life = "OPEN" => t \in Listings
    /\ \A l \in Listings : d.listings[l] # Null => d.listings[l] \in DbListing
DbTyped == DbRows(db)

Counters ==
    /\ now \in 0..MaxTime
    /\ charges \subseteq [ref : TxRefs, flw : FlwIds, amount : Amounts]
    /\ paidOut \in [TradeIds -> 0..2]
    /\ events \in 0..MaxEvents

StoreInv == Sound(mem, now) /\ DbTyped /\ Counters
-----------------------------------------------------------------------------
LEMMA TradeRowTyped ==
    ASSUME NEW x \in SharedTrade
    PROVE  TradeRow(x) \in DbTrade /\ TradeRow(x).life = x.life
    BY DEF TradeRow, DbTrade, SharedTrade

LEMMA ListingRowTyped ==
    ASSUME NEW i \in SellerInventory
    PROVE  ListingRow(i) \in DbListing
    BY DEF ListingRow, DbListing, SellerInventory

(* What a call of the store leaves.                                        *)
LEMMA PerformKeeps ==
    ASSUME NEW res, Good(res, now), DbTyped, Perform(res), UNCHANGED now
    PROVE  Sound(mem, now)' /\ DbTyped'
<1>1. Sound(mem, now)'
    BY DEF Good, Perform
<1> PICK m : m = res.mem
    OBVIOUS
<1>2. m \in Memory /\ OpensListed(m)
    BY DEF Good, Proper, Typed
<1>3. ASSUME NEW t \in TradeIds, db'.trades[t] # Null
      PROVE  db'.trades[t] \in DbTrade /\ (db'.trades[t].life = "OPEN" => t \in Listings)
  <2>1. db'.trades[t] =
            IF t \notin res.trades THEN db.trades[t]
            ELSE Sent(db.trades[t], TradeRow(m.trades[t]),
                      TradeAccepted(db.trades[t], TradeRow(m.trades[t])))
    BY DEF Perform
  <2>2. db'.trades[t] = db.trades[t]
        \/ (t \in res.trades /\ db'.trades[t] = TradeRow(m.trades[t]))
    BY <2>1 DEF Sent
  <2>3. CASE db'.trades[t] = db.trades[t]
    BY <1>3, <2>3 DEF DbTyped, DbRows
  <2>4. CASE t \in res.trades /\ db'.trades[t] = TradeRow(m.trades[t])
    <3>1. m.trades[t] # Null
      BY <2>4 DEF Good, Proper
    <3>2. m.trades[t] \in SharedTrade /\ (m.trades[t].life = "OPEN" => t \in Listings)
      BY <1>2, <3>1 DEF Memory, OpensListed
    <3> QED
      BY <2>4, <3>2, TradeRowTyped
  <2> QED
    BY <2>2, <2>3, <2>4
<1>4. ASSUME NEW l \in Listings, db'.listings[l] # Null
      PROVE  db'.listings[l] \in DbListing
  <2>1. db'.listings[l] =
            IF l \notin res.listings THEN db.listings[l]
            ELSE Sent(db.listings[l], ListingRow(m.inv[l]),
                      ListingAccepted(db.listings[l], ListingRow(m.inv[l])))
    BY DEF Perform
  <2>2. db'.listings[l] = db.listings[l]
        \/ (l \in res.listings /\ db'.listings[l] = ListingRow(m.inv[l]))
    BY <2>1 DEF Sent
  <2>3. CASE db'.listings[l] = db.listings[l]
    BY <1>4, <2>3 DEF DbTyped, DbRows
  <2>4. CASE l \in res.listings /\ db'.listings[l] = ListingRow(m.inv[l])
    <3>1. m.inv[l] # Null
      BY <2>4 DEF Good, Proper
    <3>2. m.inv[l] \in SellerInventory
      BY <1>2, <3>1 DEF Memory
    <3> QED
      BY <2>4, <3>2, ListingRowTyped
  <2> QED
    BY <2>2, <2>3, <2>4
<1> QED
    BY <1>1, <1>3, <1>4 DEF DbTyped, DbRows
-----------------------------------------------------------------------------
(* The clock, restarts and the rows read back.                             *)
LEMMA TickSound ==
    ASSUME NEW m, NEW n \in Nat, Sound(m, n)
    PROVE  Sound(m, n + 1)
<1>1. m \in Memory
    BY DEF Sound, Typed
<1>2. ASSUME NEW r \in TxRefs, OpenAttempt(m, n + 1, r)
      PROVE  OpenAttempt(m, n, r)
  <2>1. m.attempts[r] \in PaymentAttempt
    BY <1>1, <1>2 DEF OpenAttempt, Memory
  <2>2. m.attempts[r].expires \in Nat
    BY <2>1 DEF PaymentAttempt
  <2> QED
    BY <1>2, <2>2 DEF OpenAttempt
<1> QED
    BY <1>2 DEF Sound, Owned, OwnedAt

LEMMA OpenUnpaid ==
    ASSUME NEW units \in Nat
    PROVE  OpenTrade(units) \in SharedTrade /\ OpenTrade(units).flw = Null
    BY DEF OpenTrade, SharedTrade, Lifecycle, PaymentStates

LEMMA ReadTyped ==
    ASSUME NEW row \in DbTrade
    PROVE  /\ ReadTrade(row) \in SharedTrade
           /\ ReadTrade(row).life = row.life /\ ReadTrade(row).flw = Null
    BY DEF ReadTrade, DbTrade, SharedTrade

LEMMA HydrateListingsKeeps ==
    ASSUME StoreInv, HydrateListings
    PROVE  Sound(mem, now)' /\ DbTyped'
<1> PICK read : read = {l \in Listings : db.listings[l] # Null
                                  /\ db.listings[l].status # "DEPLETED"}
    OBVIOUS
<1> PICK inv : inv = [l \in Listings |->
            IF l \notin read THEN mem.inv[l]
            ELSE LET row == db.listings[l] IN
                 [total |-> row.total, avail |-> row.avail, alloc |-> row.alloc,
                  reserved |-> row.reserved, filled |-> row.filled, slot |-> Null]]
    OBVIOUS
<1> PICK trades : trades = [t \in TradeIds |->
            IF t \in read /\ mem.trades[t] = Null
            THEN OpenTrade(db.listings[t].total)
            ELSE mem.trades[t]]
    OBVIOUS
<1>1. mem \in Memory /\ mem.ghost \in Ghost
    BY DEF StoreInv, Sound, Typed, Memory
<1>2. \A l \in read : l \in Listings /\ db.listings[l] \in DbListing
    BY DEF StoreInv, DbTyped, DbRows
<1>3. inv \in [Listings -> SellerInventory \cup {Null}]
  <2>1. ASSUME NEW l \in read
        PROVE  [total |-> db.listings[l].total, avail |-> db.listings[l].avail,
                alloc |-> db.listings[l].alloc, reserved |-> db.listings[l].reserved,
                filled |-> db.listings[l].filled, slot |-> Null] \in SellerInventory
    BY <1>2 DEF DbListing, SellerInventory
  <2> QED
    BY <1>1, <2>1 DEF Memory
<1>4. \A t \in TradeIds :
        \/ trades[t] = mem.trades[t]
        \/ /\ t \in Listings /\ mem.trades[t] = Null
           /\ trades[t] \in SharedTrade /\ trades[t].flw = Null
  <2>1. \A l \in read : db.listings[l].total \in Nat
    BY <1>2 DEF DbListing
  <2> QED
    BY <1>2, <2>1, OpenUnpaid
<1>5. trades \in [TradeIds -> SharedTrade \cup {Null}]
    BY <1>1, <1>4 DEF Memory
<1> PICK n : n = [mem EXCEPT !.inv = inv, !.trades = trades,
                             !.ghost.created = mem.ghost.created \ read]
    OBVIOUS
<1>6. mem' = n
    BY DEF HydrateListings
<1>7. n \in Memory
    BY <1>1, <1>3, <1>5 DEF Memory, Ghost
<1>8. /\ n.trades = trades /\ n.attempts = mem.attempts /\ n.consumed = mem.consumed
      /\ n.ghost.own = mem.ghost.own /\ n.ghost.charged = mem.ghost.charged
    BY <1>1 DEF Memory, Ghost
<1>9. Typed(n)
  <2>1. OpensListed(mem)
    BY DEF StoreInv, Sound, Typed
  <2>2. ASSUME NEW t \in TradeIds, n.trades[t] # Null, n.trades[t].life = "OPEN"
        PROVE  t \in Listings
    <3>1. trades[t] = mem.trades[t] \/ t \in Listings
      BY <1>4
    <3> QED
      BY <1>8, <2>1, <2>2, <3>1 DEF OpensListed
  <2> QED
    BY <1>7, <2>2 DEF Typed, OpensListed
<1>10. Quieter(mem, n, now)
  <2>1. ASSUME NEW t \in mem.ghost.own
        PROVE  t \in TradeIds /\ mem.trades[t] # Null /\ trades[t] = mem.trades[t]
    <3>1. t \in TradeIds
      BY <1>1, <2>1 DEF Ghost
    <3>2. mem.trades[t] # Null
      BY <2>1 DEF StoreInv, Sound, Owned, OwnedAt
    <3> QED
      BY <1>4, <3>1, <3>2
  <2>2. \A r \in TxRefs : OpenAttempt(n, now, r) => OpenAttempt(mem, now, r)
                                /\ n.attempts[r].trade = mem.attempts[r].trade
    BY <1>8 DEF OpenAttempt
  <2>3. ASSUME NEW t \in TradeIds, n.trades[t] # Null
        PROVE  \/ n.trades[t].flw = Null
               \/ mem.trades[t] # Null /\ n.trades[t].flw = mem.trades[t].flw
    <3>1. trades[t] = mem.trades[t] \/ trades[t].flw = Null
      BY <1>4
    <3> QED
      BY <1>8, <2>3, <3>1
  <2>4. ASSUME NEW t \in n.ghost.own
        PROVE  n.trades[t] # Null /\ n.trades[t] = mem.trades[t]
    <3>1. t \in mem.ghost.own
      BY <1>8, <2>4
    <3>2. mem.trades[t] # Null /\ trades[t] = mem.trades[t]
      BY <2>1, <3>1
    <3> QED
      BY <1>8, <3>2
  <2> QED
    BY <1>8, <2>2, <2>3, <2>4 DEF Quieter
<1>11. Sound(n, now)
    BY <1>9, <1>10, QuieterSound DEF StoreInv
<1> QED
    BY <1>6, <1>11 DEF HydrateListings, StoreInv, DbTyped

(* A row read back is sent back as it is.                                  *)
LEMMA HydrateTradesGood ==
    ASSUME StoreInv, NEW read \in SUBSET TradeIds,
           \A t \in read : db.trades[t] # Null,
           NEW n, n = [mem EXCEPT
                !.trades = [t \in TradeIds |->
                    IF t \in read THEN ReadTrade(db.trades[t]) ELSE @[t]],
                !.ghost = ReadBack(@, read)]
    PROVE  Good(Result(n, read, {}, TRUE), now)
<1> PICK trades : trades = [t \in TradeIds |->
            IF t \in read THEN ReadTrade(db.trades[t]) ELSE mem.trades[t]]
    OBVIOUS
<1> PICK ghost : ghost = ReadBack(mem.ghost, read)
    OBVIOUS
<1>1. mem \in Memory /\ mem.ghost \in Ghost
    BY DEF StoreInv, Sound, Typed, Memory
<1>2. \A t \in read : /\ trades[t] \in SharedTrade /\ trades[t].flw = Null
                      /\ trades[t].life = "OPEN" => t \in Listings
    BY ReadTyped DEF StoreInv, DbTyped, DbRows
<1>3. \A t \in TradeIds : t \notin read => trades[t] = mem.trades[t]
    OBVIOUS
<1>4. trades \in [TradeIds -> SharedTrade \cup {Null}]
    BY <1>1, <1>2 DEF Memory
<1>5. /\ ghost \in Ghost /\ ghost.own = mem.ghost.own \ read
      /\ ghost.charged = mem.ghost.charged
    BY <1>1 DEF Ghost, ReadBack
<1> PICK y : y = [mem EXCEPT !.trades = trades, !.ghost = ghost]
    OBVIOUS
<1>6. y \in Memory
    BY <1>1, <1>4, <1>5 DEF Memory
<1>7. /\ y.trades = trades /\ y.ghost = ghost
      /\ y.attempts = mem.attempts /\ y.consumed = mem.consumed
    BY <1>1 DEF Memory
<1>8. Typed(y)
    BY <1>2, <1>3, <1>6, <1>7 DEF StoreInv, Sound, Typed, OpensListed
<1>9. Quieter(mem, y, now)
  <2>1. \A t \in ghost.own : t \in TradeIds /\ t \notin read /\ t \in mem.ghost.own
    BY <1>1, <1>5 DEF Ghost
  <2>2. \A t \in ghost.own : mem.trades[t] # Null /\ trades[t] = mem.trades[t]
    BY <1>3, <2>1 DEF StoreInv, Sound, Owned, OwnedAt
  <2>3. \A r \in TxRefs : OpenAttempt(y, now, r) => OpenAttempt(mem, now, r)
                                /\ y.attempts[r].trade = mem.attempts[r].trade
    BY <1>7 DEF OpenAttempt
  <2>4. \A t \in TradeIds : y.trades[t] # Null =>
            \/ y.trades[t].flw = Null
            \/ mem.trades[t] # Null /\ y.trades[t].flw = mem.trades[t].flw
    BY <1>2, <1>3, <1>7
  <2>5. y.ghost.own \subseteq mem.ghost.own /\ y.ghost.charged = mem.ghost.charged
    BY <1>5, <1>7
  <2>6. \A t \in y.ghost.own : y.trades[t] # Null /\ y.trades[t] = mem.trades[t]
    BY <1>7, <2>2
  <2> QED
    BY <1>7, <2>3, <2>4, <2>5, <2>6 DEF Quieter
<1>10. Sound(y, now)
    BY <1>8, <1>9, QuieterSound DEF StoreInv
<1>11. \A t \in read : y.trades[t] # Null
    BY <1>2, <1>7, NullApart
<1>12. y = n
    BY <1>1
<1> QED
    BY <1>8, <1>10, <1>11, <1>12 DEF Good, Proper, Result

LEMMA LoadTradeKeeps ==
    ASSUME StoreInv, NEW t \in TradeIds, LoadTrade(t)
    PROVE  Sound(mem, now)' /\ DbTyped'
<1> PICK row : row = [ReadTrade(db.trades[t]) EXCEPT !.due = Null, !.locked = TRUE]
    OBVIOUS
<1> PICK n : n = [mem EXCEPT !.trades[t] = row, !.ghost.read = mem.ghost.read \cup {t}]
    OBVIOUS
<1>1. mem \in Memory /\ mem.ghost \in Ghost
    BY DEF StoreInv, Sound, Typed, Memory
<1>2. mem.trades[t] = Null /\ db.trades[t] # Null /\ mem' = n
    BY DEF LoadTrade, Known
<1>3. /\ ReadTrade(db.trades[t]) \in SharedTrade /\ ReadTrade(db.trades[t]).flw = Null
      /\ ReadTrade(db.trades[t]).life = "OPEN" => t \in Listings
    BY <1>2, ReadTyped DEF StoreInv, DbTyped, DbRows
<1>4. row \in SharedTrade
    BY <1>3, LockedTyped
<1>5. row.flw = Null /\ (row.life = "OPEN" => t \in Listings)
    BY <1>3 DEF SharedTrade
<1>6. n \in Memory
    BY <1>1, <1>4 DEF Memory, Ghost
<1>7. /\ n.trades = [mem.trades EXCEPT ![t] = row]
      /\ n.attempts = mem.attempts /\ n.consumed = mem.consumed
      /\ n.ghost.own = mem.ghost.own /\ n.ghost.charged = mem.ghost.charged
    BY <1>1 DEF Memory, Ghost
<1>8. \A u \in TradeIds : n.trades[u] = IF u = t THEN row ELSE mem.trades[u]
    BY <1>1, <1>7 DEF Memory
<1>9. Typed(n)
    BY <1>5, <1>6, <1>8 DEF StoreInv, Sound, Typed, OpensListed
<1>10. Quieter(mem, n, now)
  <2>1. \A u \in mem.ghost.own : u \in TradeIds /\ mem.trades[u] # Null
    BY <1>1 DEF StoreInv, Sound, Owned, OwnedAt, Ghost
  <2>2. \A u \in n.ghost.own : n.trades[u] # Null /\ n.trades[u] = mem.trades[u]
    BY <1>2, <1>7, <1>8, <2>1
  <2>3. \A r \in TxRefs : OpenAttempt(n, now, r) => OpenAttempt(mem, now, r)
                                /\ n.attempts[r].trade = mem.attempts[r].trade
    BY <1>7 DEF OpenAttempt
  <2>4. \A u \in TradeIds : n.trades[u] # Null =>
            \/ n.trades[u].flw = Null
            \/ mem.trades[u] # Null /\ n.trades[u].flw = mem.trades[u].flw
    BY <1>5, <1>8
  <2> QED
    BY <1>7, <2>2, <2>3, <2>4 DEF Quieter
<1>11. Sound(n, now)
    BY <1>9, <1>10, QuieterSound DEF StoreInv
<1> QED
    BY <1>2, <1>11 DEF LoadTrade, StoreInv, DbTyped
-----------------------------------------------------------------------------
(* The invariant, step by step.                                            *)
LEMMA InitInv ==
    ASSUME Init
    PROVE  StoreInv
<1>1. Sound(mem, now)
    BY EmptySound DEF Init
<1>2. DbTyped
    BY DEF Init, DbTyped, DbRows
<1>3. Counters
    BY BoundsAssumption DEF Init, Counters
<1> QED
    BY <1>1, <1>2, <1>3 DEF StoreInv

LEMMA CountersKept ==
    ASSUME Counters, [Next]_vars
    PROVE  Counters'
<1>1. events' \in 0..MaxEvents
  <2>1. ASSUME Event PROVE events' \in 0..MaxEvents
    BY <2>1, BoundsAssumption DEF Counters, Event
  <2>2. ASSUME UNCHANGED events PROVE events' \in 0..MaxEvents
    BY <2>2 DEF Counters
  <2>3. CASE UNCHANGED vars
    BY <2>2, <2>3 DEF vars
  <2>4. CASE \E l \in Listings : CreateOffer(l)
    BY <2>1, <2>2, <2>4 DEF CreateOffer
  <2>5. CASE BuyerStep
    BY <2>1, <2>2, <2>5 DEF BuyerStep, TakeOffer, Draw, CancelQueue, Quiet, ActivateQueue,
        StartCheckout, Guarantee, Identify, Forced
  <2>6. CASE PaymentStep
    BY <2>1, <2>2, <2>6 DEF PaymentStep, Pay, Webhook, Quiet, VerifyPayment, VerifyReported,
        VerifyAssumed
  <2>7. CASE TradeStep
    BY <2>1, <2>2, <2>7 DEF TradeStep, Payout, Cancel, Refund, AskRelease, Hold, Quiet, Forced,
        OracleSettles, ConfirmSettled, UpdateStatus, LoadTrade
  <2>8. CASE ReadStep
    BY <2>1, <2>2, <2>8 DEF ReadStep, HydrateListings, Reconcile, HydrateTrades,
        CompleteFromChain, Quiet
  <2>9. CASE WorldStep
    BY <2>1, <2>2, <2>9 DEF WorldStep, Tick, Restart
  <2> QED
    BY <2>3, <2>4, <2>5, <2>6, <2>7, <2>8, <2>9 DEF Next
<1>2. now' \in 0..MaxTime
  <2>1. ASSUME Tick PROVE now' \in 0..MaxTime
    BY <2>1, BoundsAssumption DEF Counters, Tick
  <2>2. ASSUME UNCHANGED now PROVE now' \in 0..MaxTime
    BY <2>2 DEF Counters
  <2> QED
    BY <2>1, <2>2 DEF Next, vars, CreateOffer, BuyerStep, TakeOffer, CancelQueue, Quiet,
        ActivateQueue, StartCheckout, Guarantee, Identify, Forced, PaymentStep, Pay, Webhook,
        VerifyPayment, TradeStep, Payout, Cancel, Refund, AskRelease, Hold, OracleSettles,
        ConfirmSettled, UpdateStatus, LoadTrade, ReadStep, HydrateListings, Reconcile,
        HydrateTrades, CompleteFromChain, WorldStep, Restart
<1>3. charges' \subseteq [ref : TxRefs, flw : FlwIds, amount : Amounts]
  <2>1. ASSUME NEW r \in TxRefs, NEW f \in FlwIds, NEW amount \in Reported, Pay(r, f, amount)
        PROVE  charges' \subseteq [ref : TxRefs, flw : FlwIds, amount : Amounts]
    BY <2>1, ReportedAssumption DEF Counters, Pay
  <2>2. ASSUME UNCHANGED charges
        PROVE  charges' \subseteq [ref : TxRefs, flw : FlwIds, amount : Amounts]
    BY <2>2 DEF Counters
  <2> QED
    BY <2>1, <2>2 DEF Next, vars, CreateOffer, BuyerStep, TakeOffer, CancelQueue, Quiet,
        ActivateQueue, StartCheckout, Guarantee, Identify, Forced, PaymentStep, Webhook,
        VerifyPayment, TradeStep, Payout, Cancel, Refund, AskRelease, Hold, OracleSettles,
        ConfirmSettled, UpdateStatus, LoadTrade, ReadStep, HydrateListings, Reconcile,
        HydrateTrades, CompleteFromChain, WorldStep, Tick, Restart
<1>4. paidOut' \in [TradeIds -> 0..2]
  <2>1. ASSUME NEW t \in TradeIds, OracleSettles(t)
        PROVE  paidOut' \in [TradeIds -> 0..2]
    BY <2>1 DEF Counters, OracleSettles, Upto
  <2>2. ASSUME UNCHANGED paidOut
        PROVE  paidOut' \in [TradeIds -> 0..2]
    BY <2>2 DEF Counters
  <2> QED
    BY <2>1, <2>2 DEF Next, vars, CreateOffer, BuyerStep, TakeOffer, CancelQueue, Quiet,
        ActivateQueue, StartCheckout, Guarantee, Identify, Forced, PaymentStep, Pay, Webhook,
        VerifyPayment, TradeStep, Payout, Cancel, Refund, AskRelease, Hold,
        ConfirmSettled, UpdateStatus, LoadTrade, ReadStep, HydrateListings, Reconcile,
        HydrateTrades, CompleteFromChain, WorldStep, Tick, Restart
<1> QED
    BY <1>1, <1>2, <1>3, <1>4 DEF Counters

(* What the calls and the rows read back leave is sound.                   *)
Kept == Sound(mem, now)' /\ DbTyped'

LEMMA CallKept ==
    ASSUME StoreInv, NEW res, Good(res, now), Perform(res), UNCHANGED now
    PROVE  Kept
    BY PerformKeeps DEF StoreInv, Kept

LEMMA OfferStep ==
    ASSUME StoreInv, NEW l \in Listings, CreateOffer(l)
    PROVE  Kept
<1>1. Good(CreatePeerOffer(mem, l), now)
    BY CreateGood DEF StoreInv
<1> QED
    BY <1>1, CallKept DEF CreateOffer

LEMMA TakeStep ==
    ASSUME StoreInv, NEW b \in Buyers, NEW l \in Listings, NEW want \in Requests,
           TakeOffer(b, l, want)
    PROVE  Kept
<1>1. PICK draw \in Draws(mem, l) : Perform(TakePeerOffer(mem, now, b, l, want, draw))
    BY DEF TakeOffer
<1>2. now \in Nat /\ want \in Nat \cup {Null} /\ Drawn(mem, l, draw)
    BY DrawsDrawn, RequestsAssumption, BoundsAssumption DEF StoreInv, Counters
<1>3. Good(TakePeerOffer(mem, now, b, l, want, draw), now)
    BY <1>2, TakeGood DEF StoreInv
<1> QED
    BY <1>1, <1>3, CallKept DEF TakeOffer

LEMMA ActivateStep ==
    ASSUME StoreInv, NEW b \in Buyers, NEW q \in QueueRefs, ActivateQueue(b, q)
    PROVE  Kept
<1>1. PICK draw \in Draws(mem, mem.queue[q].listing) :
            Perform(ActivateQueueEntry(mem, now, b, q, draw))
    BY DEF ActivateQueue
<1>2. now \in Nat /\ mem \in Memory /\ mem.queue[q] # Null
      /\ Drawn(mem, mem.queue[q].listing, draw)
    BY DrawsDrawn, BoundsAssumption DEF StoreInv, Counters, Sound, Typed, ActivateQueue
<1>3. Activates(mem, ActivateQueueEntry(mem, now, b, q, draw), now, b, q, draw)
    BY <1>2, ActivateActivates
<1>4. Good(ActivateQueueEntry(mem, now, b, q, draw), now)
    BY <1>2, <1>3, ActivatesGood DEF StoreInv
<1> QED
    BY <1>1, <1>4, CallKept DEF ActivateQueue

LEMMA CheckoutStep ==
    ASSUME StoreInv, NEW b \in Buyers, NEW t \in TradeIds, StartCheckout(b, t)
    PROVE  Kept
<1>1. PICK r \in Pick({x \in TxRefs : mem.attempts[x] = Null}),
           draw \in IF TakesOffer(t) THEN Draws(mem, t) ELSE {<<Null, Null>>} :
            Perform(Checkout(mem, now, b, t, r, draw))
    BY DEF StartCheckout
<1>2. r \in TxRefs /\ mem.attempts[r] = Null
  <2>1. \A free : \A x \in Pick(free) : x \in free
    BY DEF Pick
  <2> QED
    BY <2>1
<1>3. now \in Nat /\ (TakesOffer(t) => Drawn(mem, t, draw))
    BY DrawsDrawn, BoundsAssumption DEF StoreInv, Counters
<1>4. Good(Checkout(mem, now, b, t, r, draw), now)
    BY <1>2, <1>3, CheckoutGood DEF StoreInv, TakesOffer
<1> QED
    BY <1>1, <1>4, CallKept DEF StartCheckout

LEMMA BuyerKept ==
    ASSUME StoreInv, BuyerStep
    PROVE  Kept
<1>1. ASSUME NEW b \in Buyers, NEW q \in QueueRefs, CancelQueue(b, q) PROVE Kept
  <2>1. Good(CancelQueueEntry(mem, b, q), now)
    BY CancelQueueGood DEF StoreInv
  <2> QED
    BY <1>1, <2>1, CallKept DEF CancelQueue, Quiet
<1>2. ASSUME NEW b \in Buyers, Guarantee(b) \/ Identify(b) PROVE Kept
  <2>1. \A amount \in Backing : Good(SubmitGuarantor(mem, b, amount), now)
    BY VouchGood, BackingAssumption DEF StoreInv
  <2>2. 0 \in Nat /\ Good(VerifyIdentity(mem, b), now)
    BY VouchGood DEF StoreInv
  <2> QED
    BY <1>2, <2>1, <2>2, CallKept DEF Guarantee, Identify, Forced
<1> QED
    BY <1>1, <1>2, TakeStep, ActivateStep, CheckoutStep DEF BuyerStep

LEMMA PaymentKept ==
    ASSUME StoreInv, PaymentStep
    PROVE  Kept
<1>1. now \in Nat /\ mem \in Memory
    BY BoundsAssumption DEF StoreInv, Counters, Sound, Typed
<1>2. \A r \in TxRefs : mem.attempts[r] # Null => mem.attempts[r].trade \in TradeIds
    BY <1>1 DEF Memory, PaymentAttempt
<1>3. ASSUME NEW c \in charges, Webhook(c) PROVE Kept
  <2>1. c.ref \in TxRefs /\ c.flw \in FlwIds /\ c.amount \in Amounts
    BY DEF StoreInv, Counters
  <2>2. mem.attempts[c.ref].trade \in TradeIds
    BY <1>2, <1>3, <2>1 DEF Webhook
  <2>3. Good(RecordPayment(mem, now, mem.attempts[c.ref].trade, c.ref, c.flw,
                           c.amount, c.flw), now)
    BY <1>1, <2>1, <2>2, RecordGood DEF StoreInv
  <2> QED
    BY <1>3, <2>3, CallKept DEF Webhook, Quiet
<1>4. ASSUME NEW r \in TxRefs, VerifyPayment(r) PROVE Kept
  <2>1. mem.attempts[r].trade \in TradeIds
    BY <1>2, <1>4 DEF VerifyPayment
  <2>2. ASSUME NEW f \in FlwIds, NEW amount \in Amounts
        PROVE  Good(RecordPayment(mem, now, mem.attempts[r].trade, r, f, amount, Null), now)
    BY <1>1, <2>1, RecordGood DEF StoreInv
  <2>3. \A c \in charges : c.flw \in FlwIds /\ c.amount \in Amounts
    BY DEF StoreInv, Counters
  <2>4. CASE VerifyReported(r)
    BY <1>4, <2>2, <2>3, <2>4, CallKept DEF VerifyPayment, VerifyReported
  <2>5. CASE VerifyAssumed(r)
    BY <1>4, <2>2, <2>5, CallKept, ReportedAssumption DEF VerifyPayment, VerifyAssumed
  <2> QED
    BY <1>4, <2>4, <2>5 DEF VerifyPayment
<1>5. ASSUME UNCHANGED <<mem, db, now>> PROVE Kept
    BY <1>5 DEF StoreInv, Kept, DbTyped
<1> QED
    BY <1>3, <1>4, <1>5 DEF PaymentStep, Pay

LEMMA TradeKept ==
    ASSUME StoreInv, TradeStep
    PROVE  Kept
<1> PICK t \in TradeIds :
        \/ \E op \in {"initiate", "confirm", "hold"} : Payout(t, op)
        \/ \E u \in {mem.trades[t].buyer, Seller} \ {Null} : Cancel(u, t)
        \/ Refund(t) \/ AskRelease(t) \/ Hold(t)
        \/ OracleSettles(t) \/ ConfirmSettled(t) \/ UpdateStatus(t) \/ LoadTrade(t)
    BY DEF TradeStep
<1>1. Typed(mem) /\ Sound(mem, now)
    BY DEF StoreInv, Sound
<1>2. ASSUME NEW op \in {"initiate", "confirm", "hold"}, Payout(t, op) PROVE Kept
  <2>1. Good(PayoutStep(mem, t, op), now)
    BY <1>1, PayoutSteps, StepsGood
  <2> QED
    BY <1>2, <2>1, CallKept DEF Payout, Quiet
<1>3. ASSUME NEW u, Cancel(u, t) PROVE Kept
  <2>1. Good(CancelTrade(mem, u, t), now)
    BY <1>1, CancelGood
  <2> QED
    BY <1>3, <2>1, CallKept DEF Cancel, Quiet
<1>4. ASSUME Refund(t) \/ AskRelease(t) PROVE Kept
  <2>1. Good(RefundRequest(mem, t), now) /\ Good(RequestRelease(mem, t), now)
    BY <1>1, RequestSteps, StepsGood
  <2>2. Good(RefundComplete(mem, t), now)
    BY <1>1, RefundGood
  <2> QED
    BY <1>4, <2>1, <2>2, CallKept DEF Refund, AskRelease, Quiet
<1>5. ASSUME Hold(t) PROVE Kept
  <2>1. Good(HoldRelease(mem, t), now)
    BY <1>1, HoldSteps, StepsGood
  <2> QED
    BY <1>5, <2>1, CallKept DEF Hold, Forced
<1>6. ASSUME OracleSettles(t) PROVE Kept
    BY <1>6 DEF OracleSettles, StoreInv, Kept, DbTyped
<1>7. ASSUME ConfirmSettled(t) \/ UpdateStatus(t) PROVE Kept
  <2>1. Good(ConfirmRelease(mem, t), now) /\ Good(CompletePeerTrade(mem, t), now)
    BY <1>1, ConfirmGood, CompleteGood
  <2> QED
    BY <1>7, <2>1, CallKept DEF ConfirmSettled, UpdateStatus, Quiet, Forced
<1>8. ASSUME LoadTrade(t) PROVE Kept
    BY <1>8, LoadTradeKeeps DEF Kept
<1> QED
    BY <1>2, <1>3, <1>4, <1>5, <1>6, <1>7, <1>8

LEMMA ReadKept ==
    ASSUME StoreInv, ReadStep
    PROVE  Kept
<1>1. now \in Nat /\ Sound(mem, now)
    BY BoundsAssumption DEF StoreInv, Counters
<1>2. CASE HydrateListings
    BY <1>2, HydrateListingsKeeps DEF Kept
<1>3. CASE Reconcile
  <2>1. Good(ReconcileExpired(mem, now), now)
    BY <1>1, ReconcileGood
  <2> QED
    BY <1>3, <2>1, CallKept DEF Reconcile, Quiet
<1>4. ASSUME NEW u \in Buyers \cup {Seller}, HydrateTrades(u) PROVE Kept
  <2> PICK read : read = {t \in TradeIds : db.trades[t] # Null
                                  /\ u \in {Seller, db.trades[t].buyer}}
    OBVIOUS
  <2> PICK n : n = [mem EXCEPT
                !.trades = [t \in TradeIds |->
                    IF t \in read THEN ReadTrade(db.trades[t]) ELSE @[t]],
                !.ghost = ReadBack(@, read)]
    OBVIOUS
  <2>1. Perform(Result(n, read, {}, TRUE)) /\ UNCHANGED now
    BY <1>4 DEF HydrateTrades
  <2>2. Good(Result(n, read, {}, TRUE), now)
    BY HydrateTradesGood
  <2> QED
    BY <2>1, <2>2, CallKept
<1>5. ASSUME NEW l \in Listings, CompleteFromChain(l) PROVE Kept
  <2>1. Good(CompletePeerTrade(mem, l), now)
    BY <1>1, Children, CompleteGood
  <2> QED
    BY <1>5, <2>1, CallKept DEF CompleteFromChain, Quiet
<1> QED
    BY <1>2, <1>3, <1>4, <1>5 DEF ReadStep

LEMMA WorldKept ==
    ASSUME StoreInv, WorldStep
    PROVE  Kept
<1>1. CASE Tick
  <2>1. now \in Nat
    BY BoundsAssumption DEF StoreInv, Counters
  <2>2. Sound(mem, now + 1)
    BY <2>1, TickSound DEF StoreInv
  <2> QED
    BY <1>1, <2>2 DEF Tick, StoreInv, Kept, DbTyped
<1>2. CASE Restart
    BY <1>2, EmptySound DEF Restart, StoreInv, Kept, DbTyped
<1> QED
    BY <1>1, <1>2 DEF WorldStep

LEMMA StepInv ==
    ASSUME StoreInv, [Next]_vars
    PROVE  StoreInv'
<1>1. Counters'
    BY CountersKept DEF StoreInv
<1>2. CASE UNCHANGED vars
    BY <1>2 DEF vars, StoreInv, DbTyped, Counters
<1>3. ASSUME Next PROVE Kept
    BY <1>3, OfferStep, BuyerKept, PaymentKept, TradeKept, ReadKept, WorldKept
    DEF Next
<1> QED
    BY <1>1, <1>2, <1>3 DEF StoreInv, Kept

LEMMA AlwaysInv == Spec => []StoreInv
<1>1. StoreInv /\ [Next]_vars => StoreInv'
    BY StepInv
<1> QED
    BY <1>1, InitInv, PTL DEF Spec
-----------------------------------------------------------------------------
(* The Maps of the process keep their shape, for any sets of buyers,       *)
(* listings, entries and payments: whatever is read back from the          *)
(* database, no bucket of a listing goes below zero.                       *)
THEOREM StoreTypeCorrect == Spec => []TypeOK
<1>1. StoreInv => TypeOK
    BY DEF StoreInv, Sound, Typed, Counters, TypeOK
<1> QED
    BY <1>1, AlwaysInv, PTL

LEMMA AtMostOne ==
    ASSUME NEW S, NEW x, S \subseteq {x}
    PROVE  Cardinality(S) <= 1
<1>1. S = {} \/ S = {x}
    OBVIOUS
<1>2. Cardinality({}) = 0
    BY FS_EmptySet
<1>3. Cardinality({x}) = 1
    BY FS_Singleton
<1> QED
    BY <1>1, <1>2, <1>3

(* A trade this process opened has one checkout at which its buyer can     *)
(* pay, however often a checkout is asked for, expires or is held back.    *)
THEOREM OneCheckoutOpen == Spec => []OneOpenCheckout
<1>1. ASSUME StoreInv, NEW t \in mem.ghost.own
      PROVE  Cardinality({r \in TxRefs : OpenAttempt(mem, now, r)
                                        /\ mem.attempts[r].trade = t}) <= 1
  <2>1. {r \in TxRefs : OpenAttempt(mem, now, r) /\ mem.attempts[r].trade = t}
            \subseteq {mem.trades[t].ref}
    BY <1>1 DEF StoreInv, Sound, Owned, OwnedAt
  <2> QED
    BY <2>1, AtMostOne
<1>2. StoreInv => OneOpenCheckout
    BY <1>1 DEF OneOpenCheckout
<1> QED
    BY <1>2, AlwaysInv, PTL

(* A transaction of the provider pays for one trade, whichever of its      *)
(* reports comes first and whatever the verify call records.               *)
THEOREM TransactionsPayOnce == Spec => []TransactionPaysOnce
<1>1. StoreInv => TransactionPaysOnce
    BY DEF StoreInv, Sound, PaidTo, TransactionPaysOnce
<1> QED
    BY <1>1, AlwaysInv, PTL

(* The passes over expired trades hold a trade's expiry against its buyer  *)
(* once, if the process opened the trade and never lost it.                *)
THEOREM ExpiryChargedOnce == Spec => []ChargedOnce
<1>1. StoreInv => ChargedOnce
    BY DEF StoreInv, Sound, Owned, OwnedAt, ChargedOnce
<1> QED
    BY <1>1, AlwaysInv, PTL
-----------------------------------------------------------------------------
(* Where the units of a listing are.                                       *)
Buckets(i) == i.avail + i.alloc + i.reserved + i.filled
Balanced(m, l) ==
    /\ m.inv[l] # Null
    /\ m.inv[l].total = Deposit
    /\ Buckets(m.inv[l]) = Deposit
    /\ m.inv[l].reserved = SumFunctionOnSet(EntryUnits(m), Waiting(m, l))
(* An entry of the queue is of a listing that is there.                    *)
Placed(m) == \A q \in QueueRefs : m.queue[q] # Null => m.inv[m.queue[q].listing] # Null
Counted(m) == Placed(m) /\ \A l \in m.ghost.created : Balanced(m, l)

LEMMA UnitsTyped ==
    ASSUME NEW m \in Memory
    PROVE  /\ EntryUnits(m) \in [QueueRefs -> Nat]
           /\ \A l : Waiting(m, l) \in SUBSET QueueRefs /\ IsFiniteSet(Waiting(m, l))
<1>1. \A q \in QueueRefs : m.queue[q] # Null => m.queue[q].units \in Nat
    BY DEF Memory, QueueEntry
<1>2. EntryUnits(m) \in [QueueRefs -> Nat]
    BY <1>1 DEF EntryUnits
<1>3. \A l : Waiting(m, l) \in SUBSET QueueRefs
    BY DEF Waiting
<1> QED
    BY <1>2, <1>3, FiniteAssumption, FS_Subset

(* The same entries wait for the same units.                               *)
Sits(m, n) ==
    \A q \in QueueRefs :
        /\ n.queue[q] = Null <=> m.queue[q] = Null
        /\ m.queue[q] # Null => /\ SameEntry(n.queue[q], m.queue[q])
                                /\ Waits(n.queue[q]) <=> Waits(m.queue[q])
(* Units move between the buckets of a listing and past the reserved one.  *)
Shifts(i, j) ==
    /\ j = Null <=> i = Null
    /\ i # Null => /\ j.total = i.total /\ j.reserved = i.reserved
                   /\ Buckets(j) = Buckets(i)
Moves(m, n) ==
    /\ n.ghost.created = m.ghost.created
    /\ Sits(m, n)
    /\ \A l \in Listings : Shifts(m.inv[l], n.inv[l])

LEMMA SitsSum ==
    ASSUME NEW m, NEW n, Sits(m, n), NEW l
    PROVE  /\ Waiting(n, l) = Waiting(m, l)
           /\ EntryUnits(n) = EntryUnits(m)
<1>1. \A q \in QueueRefs : m.queue[q] # Null =>
            /\ n.queue[q].listing = m.queue[q].listing
            /\ n.queue[q].units = m.queue[q].units
            /\ n.queue[q].status \in {"QUEUED", "ELIGIBLE"}
                    <=> m.queue[q].status \in {"QUEUED", "ELIGIBLE"}
    BY DEF Sits, SameEntry, Waits
<1>2. \A q \in QueueRefs : n.queue[q] = Null <=> m.queue[q] = Null
    BY DEF Sits
<1>3. Waiting(n, l) = Waiting(m, l)
    BY <1>1, <1>2 DEF Waiting
<1>4. EntryUnits(n) = EntryUnits(m)
    BY <1>1, <1>2 DEF EntryUnits
<1> QED
    BY <1>3, <1>4

LEMMA MovesCounted ==
    ASSUME NEW m \in Memory, NEW n, Counted(m), Moves(m, n)
    PROVE  Counted(n)
<1>1. Placed(n)
  <2>1. ASSUME NEW q \in QueueRefs, n.queue[q] # Null
        PROVE  n.inv[n.queue[q].listing] # Null
    <3>1. m.queue[q] # Null /\ n.queue[q].listing = m.queue[q].listing
      BY <2>1 DEF Moves, Sits, SameEntry
    <3>2. m.queue[q].listing \in Listings /\ m.inv[m.queue[q].listing] # Null
      BY <3>1 DEF Counted, Placed, Memory, QueueEntry
    <3> QED
      BY <3>1, <3>2 DEF Moves, Shifts
  <2> QED
    BY <2>1 DEF Placed
<1>2. ASSUME NEW l \in n.ghost.created
      PROVE  Balanced(n, l)
  <2>1. l \in Listings /\ Balanced(m, l)
    BY <1>2 DEF Moves, Counted, Memory, Ghost
  <2>2. Shifts(m.inv[l], n.inv[l]) /\ Sits(m, n)
    BY <2>1 DEF Moves
  <2>3. /\ Waiting(n, l) = Waiting(m, l)
        /\ EntryUnits(n) = EntryUnits(m)
    BY <2>2, SitsSum
  <2> QED
    BY <2>1, <2>2, <2>3 DEF Balanced, Shifts
<1> QED
    BY <1>1, <1>2 DEF Counted

(* Units are put aside for a new entry, or come back from one that leaves. *)
LEMMA JoinsCounted ==
    ASSUME NEW m \in Memory, Counted(m), NEW n \in Memory, NEW l \in Listings,
           NEW q \in QueueRefs, m.queue[q] = Null, NEW e \in QueueEntry,
           m.inv[l] # Null, NEW units \in Nat, units <= m.inv[l].avail,
           n.ghost = m.ghost, n.inv = [m.inv EXCEPT ![l] = Reserved(m.inv[l], units)],
           n.queue = [m.queue EXCEPT ![q] = e],
           e.listing = l, e.units = units, e.status = "QUEUED"
    PROVE  Counted(n)
<1>1. m.inv[l] \in SellerInventory /\ n.inv[l] = Reserved(m.inv[l], units)
    BY DEF Memory
<1>2. \A k \in Listings : k # l => n.inv[k] = m.inv[k]
    BY DEF Memory
<1>3. n.queue[q] = e /\ e # Null /\ \A p \in QueueRefs : p # q => n.queue[p] = m.queue[p]
    BY NullApart DEF Memory
<1> PICK j : j = Reserved(m.inv[l], units)
    OBVIOUS
<1>4. /\ j.total = m.inv[l].total /\ j.reserved = m.inv[l].reserved + units
      /\ Buckets(j) = Buckets(m.inv[l]) /\ j # Null
  <2>1. /\ j.total = m.inv[l].total /\ j.reserved = m.inv[l].reserved + units
        /\ j.avail = m.inv[l].avail - units /\ j.alloc = m.inv[l].alloc
        /\ j.filled = m.inv[l].filled
    BY <1>1 DEF Reserved, SellerInventory
  <2>2. Buckets(j) = Buckets(m.inv[l])
    BY <1>1, <2>1 DEF Buckets, SellerInventory
  <2>3. j \in SellerInventory
    BY <1>1, StockTyped, Children
  <2> QED
    BY <2>1, <2>2, <2>3, NullApart
<1>5. Placed(n)
    BY <1>1, <1>2, <1>3, <1>4 DEF Placed, Counted, Memory, QueueEntry
<1>6. \A k \in Listings : Waiting(n, k) = IF k = l THEN Waiting(m, k) \cup {q} ELSE Waiting(m, k)
    BY <1>3 DEF Waiting
<1>7. ASSUME NEW k \in n.ghost.created
      PROVE  Balanced(n, k)
  <2>1. k \in Listings /\ Balanced(m, k)
    BY <1>7 DEF Counted, Memory, Ghost
  <2> PICK f \in [QueueRefs -> Nat] : f = EntryUnits(m)
    BY UnitsTyped
  <2> PICK g \in [QueueRefs -> Nat] : g = EntryUnits(n)
    BY UnitsTyped
  <2> PICK W \in SUBSET QueueRefs : W = Waiting(m, k) /\ IsFiniteSet(W)
    BY UnitsTyped
  <2>2. q \notin W /\ g[q] = units /\ \A p \in W : f[p] = g[p]
    BY <1>3 DEF Waiting, EntryUnits
  <2>3. SumFunctionOnSet(g, W) = SumFunctionOnSet(f, W)
    BY <2>2, SumSame
  <2>4. CASE k = l
    <3>1. SumFunctionOnSet(g, W \cup {q}) = units + SumFunctionOnSet(g, W)
      BY <2>2, SumAdd
    <3>2. SumFunctionOnSet(g, W) \in Nat /\ m.inv[l].reserved = SumFunctionOnSet(f, W)
      BY <2>1, <2>4, SumTyped DEF Balanced
    <3>3. m.inv[l].reserved + units = SumFunctionOnSet(g, W \cup {q})
      BY <2>3, <3>1, <3>2
    <3>4. Waiting(n, k) = W \cup {q}
      BY <1>6, <2>4
    <3> QED
      BY <1>1, <1>4, <2>1, <2>4, <3>3, <3>4 DEF Balanced
  <2>5. CASE k # l
    BY <1>2, <1>6, <2>1, <2>3, <2>5 DEF Balanced
  <2> QED
    BY <2>4, <2>5
<1> QED
    BY <1>5, <1>7 DEF Counted

Returns(i, j, units) ==
    /\ j \in SellerInventory
    /\ units <= i.reserved => /\ j.total = i.total
                             /\ j.reserved = i.reserved - units
                             /\ Buckets(j) = Buckets(i)

LEMMA BackReturns ==
    ASSUME NEW l \in Listings, NEW i \in SellerInventory, NEW units \in Nat
    PROVE  Returns(i, GivenBack(i, units), units) /\ Returns(i, Unreserved(i, units), units)
<1>1. i # Null /\ l \in TradeIds
    BY NullApart, Children
<1>2. GivenBack(i, units) \in SellerInventory /\ Unreserved(i, units) \in SellerInventory
    BY <1>1, StockTyped, NullApart
<1>3. ASSUME units <= i.reserved, NEW j,
             j = [i EXCEPT !.reserved = @ - units, !.avail = @ + units]
      PROVE  /\ j.total = i.total /\ j.reserved = i.reserved - units
             /\ Buckets(j) = Buckets(i)
  <2>1. /\ j.total = i.total /\ j.reserved = i.reserved - units
        /\ j.avail = i.avail + units /\ j.alloc = i.alloc /\ j.filled = i.filled
    BY <1>3 DEF SellerInventory
  <2> QED
    BY <1>3, <2>1 DEF Buckets, SellerInventory
<1>4. units <= i.reserved =>
        GivenBack(i, units) = [i EXCEPT !.reserved = @ - units, !.avail = @ + units]
    BY <1>1 DEF GivenBack, SellerInventory
<1>5. ASSUME units <= i.reserved
      PROVE  Unreserved(i, units) = [i EXCEPT !.reserved = @ - units, !.avail = @ + units]
  <2> PICK d \in Nat : d = i.reserved - units
    BY <1>5 DEF SellerInventory
  <2>1. Max({0, d}) = d
    <3>1. \A y \in {0, d} : d >= y
      OBVIOUS
    <3>2. Max({0, d}) \in {0, d} /\ Max({0, d}) >= d
      BY <3>1 DEF Max
    <3> QED
      BY <3>2
  <2> QED
    BY <2>1 DEF Unreserved
<1> QED
    BY <1>2, <1>3, <1>4, <1>5 DEF Returns

LEMMA LeavesCounted ==
    ASSUME NEW m \in Memory, Counted(m), NEW n \in Memory, NEW q \in QueueRefs,
           m.queue[q] # Null, Waits(m.queue[q]), NEW j,
           n.ghost = m.ghost,
           Returns(m.inv[m.queue[q].listing], j, m.queue[q].units),
           n.inv = [m.inv EXCEPT ![m.queue[q].listing] = j],
           SameQueue(n.queue, m.queue), ~Waits(n.queue[q]),
           \A p \in QueueRefs \ {q} : m.queue[p] # Null =>
                (Waits(n.queue[p]) <=> Waits(m.queue[p]))
    PROVE  Counted(n)
<1> PICK l \in Listings : l = m.queue[q].listing
    BY DEF Memory, QueueEntry
<1> PICK units \in Nat : units = m.queue[q].units
    BY DEF Memory, QueueEntry
<1>1. n.inv[l] = j /\ j # Null /\ \A k \in Listings : k # l => n.inv[k] = m.inv[k]
    BY NullApart DEF Memory, Returns
<1>2. \A p \in QueueRefs : /\ n.queue[p] = Null <=> m.queue[p] = Null
                           /\ m.queue[p] # Null => /\ n.queue[p].listing = m.queue[p].listing
                                                   /\ n.queue[p].units = m.queue[p].units
    BY DEF SameQueue, SameEntry
<1>3. Placed(n)
    BY <1>1, <1>2 DEF Placed, Counted, Memory, QueueEntry
<1>4. \A k \in Listings : Waiting(n, k) = Waiting(m, k) \ {q}
    BY <1>2 DEF Waiting, Waits
<1>5. EntryUnits(n) = EntryUnits(m)
    BY <1>2 DEF EntryUnits
<1>6. ASSUME NEW k \in n.ghost.created
      PROVE  Balanced(n, k)
  <2>1. k \in Listings /\ Balanced(m, k)
    BY <1>6 DEF Counted, Memory, Ghost
  <2> PICK f \in [QueueRefs -> Nat] : f = EntryUnits(m)
    BY UnitsTyped
  <2> PICK W \in SUBSET QueueRefs : W = Waiting(m, k) /\ IsFiniteSet(W)
    BY UnitsTyped
  <2>2. CASE k = l
    <3>1. q \in W /\ f[q] = units
      BY <2>2 DEF Waiting, Waits, EntryUnits
    <3>2. SumFunctionOnSet(f, W) = units + SumFunctionOnSet(f, W \ {q})
      BY <3>1, SumRemove
    <3>3. SumFunctionOnSet(f, W \ {q}) \in Nat
      BY SumTyped, FS_Subset
    <3>4. m.inv[l].reserved = SumFunctionOnSet(f, W)
      BY <2>1, <2>2 DEF Balanced
    <3>5. units <= m.inv[l].reserved
          /\ m.inv[l].reserved - units = SumFunctionOnSet(f, W \ {q})
      BY <3>2, <3>3, <3>4
    <3>6. /\ j.total = m.inv[l].total /\ j.reserved = m.inv[l].reserved - units
          /\ Buckets(j) = Buckets(m.inv[l])
      BY <3>5 DEF Returns
    <3>7. Waiting(n, k) = W \ {q} /\ EntryUnits(n) = f
      BY <1>4, <1>5, <2>1
    <3> QED
      BY <1>1, <2>1, <2>2, <3>5, <3>6, <3>7 DEF Balanced
  <2>3. CASE k # l
    <3>1. Waiting(n, k) = Waiting(m, k)
      BY <1>4, <2>1, <2>3 DEF Waiting
    <3> QED
      BY <1>1, <1>5, <2>1, <2>3, <3>1 DEF Balanced
  <2> QED
    BY <2>2, <2>3
<1> QED
    BY <1>3, <1>6 DEF Counted
-----------------------------------------------------------------------------
(* The slot of a listing.  A child names its listing and has an id made of *)
(* it; the trades of a listing are itself and its children.                *)
Family(m) ==
    \A t \in TradeIds : m.parent[t] # Null =>
        /\ m.trades[t] # Null /\ m.inv[m.parent[t]] # Null
        /\ t = m.parent[t] \/ t \in {m.parent[t]} \X Suffixes
Part(m, l, t) == t = l \/ m.parent[t] = l
Whole(m, l) ==
    \A t \in TradeIds : Part(m, l, t) =>
        t \notin m.ghost.read /\ (t = l \/ m.ghost.released[t] <= 1)
(* The trade in the slot holds the allocated units.                        *)
Holds(m, l) ==
    IF m.inv[l].slot = Null THEN m.inv[l].alloc = 0
    ELSE /\ m.inv[l].alloc = m.trades[m.inv[l].slot].units
         /\ m.trades[m.inv[l].slot].life \notin Terminal
(* A child is smaller than the deposit and holds the slot until it gives   *)
(* its units back; the trade named like the listing is all of it.          *)
ChildBerthed(m, l, t) ==
    /\ m.inv[l].slot = t \/ m.ghost.released[t] >= 1
    /\ t \notin m.ghost.read => m.trades[t].units < Deposit
Berthed(m, l) ==
    /\ m.trades[l] # Null
    /\ l \notin m.ghost.read => m.trades[l].units = Deposit
    /\ \A t \in TradeIds \ {l} : m.parent[t] = l => ChildBerthed(m, l, t)
    /\ m.inv[l].slot # Null => m.parent[m.inv[l].slot] = l
    /\ Whole(m, l) => Holds(m, l)
Stocked(m) ==
    /\ Counted(m)
    /\ Family(m)
    /\ \A l \in m.ghost.created : Berthed(m, l)

(* What a listing and its trades were, they still are.                     *)
SameRow(row, old) ==
    /\ row = Null <=> old = Null
    /\ old # Null => /\ row.units = old.units
                     /\ row.life \in Terminal => old.life \in Terminal
KeepsAt(m, n, l) ==
    /\ n.inv[l].slot = m.inv[l].slot /\ n.inv[l].alloc = m.inv[l].alloc
    /\ \A t \in TradeIds :
        /\ Part(n, l, t) <=> Part(m, l, t)
        /\ n.parent[t] = l <=> m.parent[t] = l
        /\ Part(m, l, t) => /\ SameRow(n.trades[t], m.trades[t])
                            /\ n.ghost.released[t] = m.ghost.released[t]
                            /\ t \in n.ghost.read <=> t \in m.ghost.read

LEMMA KeepsBerthed ==
    ASSUME NEW m \in Memory, NEW n \in Memory, NEW l \in Listings, m.inv[l] # Null,
           Berthed(m, l), KeepsAt(m, n, l)
    PROVE  Berthed(n, l)
<1>1. l \in TradeIds /\ Part(m, l, l)
    BY Children DEF Part
<1>2. m.inv[l].slot # Null => m.inv[l].slot \in TradeIds
    BY DEF Memory, SellerInventory
<1>3. n.trades[l] # Null /\ (l \notin n.ghost.read => n.trades[l].units = Deposit)
    BY <1>1 DEF Berthed, KeepsAt, SameRow
<1>4. ASSUME NEW t \in TradeIds \ {l}, n.parent[t] = l
      PROVE  ChildBerthed(n, l, t)
  <2>1. m.parent[t] = l /\ Part(m, l, t) /\ ChildBerthed(m, l, t)
    BY <1>4 DEF KeepsAt, Part, Berthed
  <2>2. SameRow(n.trades[t], m.trades[t]) /\ n.ghost.released[t] = m.ghost.released[t]
        /\ (t \in n.ghost.read <=> t \in m.ghost.read) /\ n.inv[l].slot = m.inv[l].slot
    BY <2>1 DEF KeepsAt
  <2>3. n.inv[l].slot = t \/ n.ghost.released[t] >= 1
    BY <2>1, <2>2 DEF ChildBerthed
  <2> QED
    BY <2>1, <2>2, <2>3 DEF ChildBerthed, SameRow
<1>5. n.inv[l].slot # Null => n.parent[n.inv[l].slot] = l
    BY <1>2 DEF KeepsAt, Berthed
<1>6. Whole(n, l) => Whole(m, l)
    BY DEF Whole, KeepsAt
<1>7. Holds(m, l) => Holds(n, l)
  <2>1. m.inv[l].slot # Null =>
            SameRow(n.trades[m.inv[l].slot], m.trades[m.inv[l].slot])
    BY <1>2 DEF KeepsAt, Berthed, Part
  <2> QED
    BY <2>1 DEF Holds, KeepsAt, SameRow
<1> QED
    BY <1>3, <1>4, <1>5, <1>6, <1>7 DEF Berthed

(* Nothing that backs the slots and the queue changes.                     *)
Undisturbed(m, n) ==
    /\ n.inv = m.inv /\ n.parent = m.parent
    /\ Sits(m, n)
    /\ n.ghost.created = m.ghost.created /\ n.ghost.read = m.ghost.read
    /\ n.ghost.released = m.ghost.released
    /\ \A t \in TradeIds : SameRow(n.trades[t], m.trades[t])

LEMMA UndisturbedStocked ==
    ASSUME NEW m \in Memory, NEW n \in Memory, Stocked(m), Undisturbed(m, n)
    PROVE  Stocked(n)
<1>1. Moves(m, n)
    BY DEF Moves, Undisturbed, Shifts
<1>2. Counted(n)
    BY <1>1, MovesCounted DEF Stocked
<1>3. Family(n)
    BY DEF Stocked, Family, Undisturbed, SameRow
<1>4. ASSUME NEW l \in n.ghost.created
      PROVE  Berthed(n, l)
  <2>1. l \in Listings /\ m.inv[l] # Null /\ Berthed(m, l)
    BY <1>4 DEF Undisturbed, Stocked, Counted, Balanced, Memory, Ghost
  <2>2. KeepsAt(m, n, l)
    BY DEF KeepsAt, Undisturbed, Part
  <2> QED
    BY <2>1, <2>2, KeepsBerthed
<1> QED
    BY <1>2, <1>3, <1>4 DEF Stocked

LEMMA SitsStill ==
    ASSUME NEW m, NEW n, n.queue = m.queue
    PROVE  Sits(m, n)
    BY DEF Sits, SameEntry

(* One row changes, and neither its units nor whether it has ended.        *)
Rewrites(m, n, t, row) ==
    /\ n.inv = m.inv /\ n.parent = m.parent /\ n.queue = m.queue /\ n.ghost = m.ghost
    /\ n.trades = [m.trades EXCEPT ![t] = row]
    /\ row # Null /\ row.units = m.trades[t].units
    /\ row.life \in Terminal => m.trades[t].life \in Terminal
LEMMA RewritesUndisturbed ==
    ASSUME NEW m \in Memory, NEW n, NEW t \in TradeIds, m.trades[t] # Null,
           NEW row, Rewrites(m, n, t, row)
    PROVE  Undisturbed(m, n)
<1>1. Sits(m, n)
    BY SitsStill DEF Rewrites
<1>2. n.trades[t] = row /\ \A u \in TradeIds : u # t => n.trades[u] = m.trades[u]
    BY DEF Rewrites, Memory
<1>3. \A u \in TradeIds : SameRow(n.trades[u], m.trades[u])
    BY <1>2 DEF Rewrites, SameRow
<1> QED
    BY <1>1, <1>3 DEF Undisturbed, Rewrites

(* A step of a payout, a refund or the release.                            *)
LEMMA StepsStocked ==
    ASSUME NEW m, Typed(m), Stocked(m), NEW t \in TradeIds, NEW res, Steps(m, t, res)
    PROVE  Stocked(res.mem)
<1>1. m \in Memory /\ Typed(res.mem)
    BY StepsProper DEF Typed, Proper
<1>2. CASE res = Throw(m)
    BY <1>2 DEF Result, Throw, Synced
<1>3. ASSUME NEW row \in SharedTrade, m.trades[t] # Null,
             SameDeal(row, m.trades[t]), row.life \in Underway,
             NEW n, n = [m EXCEPT !.trades[t] = row], res = Synced(n, t, {})
      PROVE  Stocked(res.mem)
  <2>1. Rewrites(m, n, t, row)
    <3>1. /\ n.inv = m.inv /\ n.parent = m.parent /\ n.queue = m.queue /\ n.ghost = m.ghost
          /\ n.trades = [m.trades EXCEPT ![t] = row]
      BY <1>1, <1>3 DEF Memory
    <3>2. row # Null /\ row.units = m.trades[t].units /\ row.life \notin Terminal
      BY <1>3, NullApart DEF SameDeal, Underway, Terminal
    <3> QED
      BY <3>1, <3>2 DEF Rewrites
  <2>2. Undisturbed(m, n)
    BY <1>1, <1>3, <2>1, RewritesUndisturbed
  <2>3. n \in Memory
    BY <1>1, <1>3 DEF Typed, Result, Throw, Synced
  <2>4. Stocked(n)
    BY <1>1, <2>2, <2>3, UndisturbedStocked
  <2> QED
    BY <1>3, <2>4 DEF Result, Throw, Synced
<1> QED
    BY <1>2, <1>3 DEF Steps

(* What only the profile of a buyer or the counters of the model see.      *)
LEMMA AsideStocked ==
    ASSUME NEW m \in Memory, NEW n \in Memory, Stocked(m),
           n.inv = m.inv, n.parent = m.parent, n.queue = m.queue, n.trades = m.trades,
           n.ghost.created = m.ghost.created, n.ghost.read = m.ghost.read,
           n.ghost.released = m.ghost.released
    PROVE  Stocked(n)
<1>1. Sits(m, n)
    BY SitsStill
<1>2. Undisturbed(m, n)
    BY <1>1 DEF Undisturbed, SameRow
<1> QED
    BY <1>2, UndisturbedStocked

LEMMA VouchStocked ==
    ASSUME NEW m, NEW at, Sound(m, at), Stocked(m), NEW b \in Buyers, NEW amount \in Nat
    PROVE  Stocked(SubmitGuarantor(m, b, amount).mem) /\ Stocked(VerifyIdentity(m, b).mem)
<1> PICK n : n = [m EXCEPT !.trust[b].backed = amount]
    OBVIOUS
<1> PICK o : o = [m EXCEPT !.trust[b].verified = TRUE]
    OBVIOUS
<1>1. m \in Memory
    BY DEF Sound, Typed
<1>2. SubmitGuarantor(m, b, amount).mem = n /\ VerifyIdentity(m, b).mem = o
    BY DEF SubmitGuarantor, VerifyIdentity, Result, Throw, Synced
<1>3. n \in Memory /\ o \in Memory
    BY <1>2, VouchGood DEF Good, Proper, Typed
<1>4. Stocked(n)
  <2>1. /\ n.inv = m.inv /\ n.parent = m.parent /\ n.queue = m.queue
        /\ n.trades = m.trades /\ n.ghost = m.ghost
    BY <1>1 DEF Memory
  <2> QED
    BY <1>1, <1>3, <2>1, AsideStocked
<1>5. Stocked(o)
  <2>1. /\ o.inv = m.inv /\ o.parent = m.parent /\ o.queue = m.queue
        /\ o.trades = m.trades /\ o.ghost = m.ghost
    BY <1>1 DEF Memory
  <2> QED
    BY <1>1, <1>3, <2>1, AsideStocked
<1> QED
    BY <1>2, <1>4, <1>5

(* A payment rewrites the row of its trade and leaves its units alone.     *)
LEMMA PaidRowUnits ==
    ASSUME NEW row \in SharedTrade, NEW f \in FlwIds, NEW status, NEW amount \in Amounts
    PROVE  PaidRow(row, f, status, amount).units = row.units
    BY DEF PaidRow, SharedTrade

LEMMA RecordsStocked ==
    ASSUME NEW m, NEW at \in Nat, Sound(m, at), Stocked(m), NEW t \in TradeIds,
           NEW r \in TxRefs, NEW f \in FlwIds, NEW amount \in Amounts, NEW res,
           Records(m, at, t, r, f, amount, res)
    PROVE  Stocked(res.mem)
<1>1. m \in Memory
    BY DEF Sound, Typed
<1>2. res.mem \in Memory
    BY RecordsGood DEF Good, Proper, Typed
<1>3. CASE res = Result(m, {}, {}, TRUE) \/ res = Throw(m)
    BY <1>3 DEF Result, Throw, Synced
<1>4. ASSUME m.trades[t] # Null, NEW n, res.mem = n, NEW row \in SharedTrade,
             n.inv = m.inv, n.parent = m.parent, n.queue = m.queue, n.ghost = m.ghost,
             n.trades = [m.trades EXCEPT ![t] = row],
             row.units = m.trades[t].units, row.life \in Terminal => row.life = m.trades[t].life
      PROVE  Stocked(n)
  <2>1. Rewrites(m, n, t, row)
    BY <1>4, NullApart DEF Rewrites
  <2>2. Undisturbed(m, n)
    BY <1>1, <1>4, <2>1, RewritesUndisturbed
  <2> QED
    BY <1>1, <1>2, <1>4, <2>2, UndisturbedStocked
<1>5. ASSUME m.trades[t] # Null, m.attempts[r] # Null,
             NEW n, n = [m EXCEPT !.attempts[r].status = "MISMATCH_HOLD",
                                  !.trades[t].pay = "FAILED"],
             res = [Synced(n, t, {}) EXCEPT !.ok = FALSE]
      PROVE  Stocked(res.mem)
  <2> PICK row : row = [m.trades[t] EXCEPT !.pay = "FAILED"]
    OBVIOUS
  <2>1. m.trades[t] \in SharedTrade
    BY <1>1, <1>5 DEF Memory
  <2>2. row \in SharedTrade /\ row.units = m.trades[t].units /\ row.life = m.trades[t].life
    BY <2>1 DEF SharedTrade, PaymentStates
  <2>3. /\ n.inv = m.inv /\ n.parent = m.parent /\ n.queue = m.queue /\ n.ghost = m.ghost
        /\ n.trades = [m.trades EXCEPT ![t] = row]
    BY <1>1, <1>5 DEF Memory
  <2>4. res.mem = n
    BY <1>5 DEF Result, Throw, Synced
  <2> QED
    BY <1>4, <1>5, <2>2, <2>3, <2>4
<1>6. ASSUME m.trades[t] # Null, m.attempts[r] # Null,
             res = Synced(Credited(m, at, t, r, f, amount), t, {})
      PROVE  Stocked(res.mem)
  <2> PICK status : status = Verified(m, at, t, r, amount)
    OBVIOUS
  <2> PICK row : row = PaidRow(m.trades[t], f, status, amount)
    OBVIOUS
  <2> PICK n : n = Credited(m, at, t, r, f, amount)
    OBVIOUS
  <2>1. m.trades[t] \in SharedTrade
    BY <1>1, <1>6 DEF Memory
  <2>2. /\ row \in SharedTrade /\ row.units = m.trades[t].units
        /\ row.life \in {m.trades[t].life, "LATE_PAYMENT_REVIEW", "PAYMENT_CONFIRMED"}
    BY <2>1, PaidRowTyped, PaidRowUnits
  <2>3. /\ n.inv = m.inv /\ n.parent = m.parent /\ n.queue = m.queue /\ n.ghost = m.ghost
        /\ n.trades = [m.trades EXCEPT ![t] = row]
    BY <1>1 DEF Memory, Credited
  <2>4. res.mem = n
    BY <1>6 DEF Result, Throw, Synced
  <2>5. row.life \in Terminal => row.life = m.trades[t].life
    BY <2>2 DEF Terminal
  <2> QED
    BY <1>4, <1>6, <2>2, <2>3, <2>4, <2>5
<1> QED
    BY <1>3, <1>5, <1>6 DEF Records

LEMMA RecordStocked ==
    ASSUME NEW m, NEW at \in Nat, Sound(m, at), Stocked(m), NEW t \in TradeIds,
           NEW r \in TxRefs, NEW f \in FlwIds, NEW amount \in Amounts,
           NEW event \in FlwIds \cup {Null}
    PROVE  Stocked(RecordPayment(m, at, t, r, f, amount, event).mem)
<1> PICK res : res = RecordPayment(m, at, t, r, f, amount, event)
    OBVIOUS
<1> PICK s : s = IF event = Null THEN m.seen ELSE m.seen \cup {event}
    OBVIOUS
<1> PICK m1 : m1 = [m EXCEPT !.seen = s]
    OBVIOUS
<1>1. m \in Memory
    BY DEF Sound, Typed
<1>2. s \in SUBSET FlwIds
    BY <1>1 DEF Memory
<1>3. Sound(m1, at)
    BY <1>2, SeenSound
<1>4. /\ m1.attempts = m.attempts /\ m1.trades = m.trades
      /\ m1.consumed = m.consumed
    BY <1>1 DEF Memory
<1>5. m1 = [m EXCEPT !.seen = IF event = Null THEN @ ELSE @ \cup {event}]
    BY <1>1
<1>6. \/ res = Result(m, {}, {}, TRUE)
      \/ Records(m1, at, t, r, f, amount, res)
    BY <1>4, <1>5 DEF RecordPayment, Records, ConsumedElsewhere
<1>7. Stocked(m1)
  <2>1. /\ m1.inv = m.inv /\ m1.parent = m.parent /\ m1.queue = m.queue
        /\ m1.ghost = m.ghost
    BY <1>1 DEF Memory
  <2>2. m1 \in Memory
    BY <1>3 DEF Sound, Typed
  <2> QED
    BY <1>1, <1>4, <2>1, <2>2, AsideStocked
<1> QED
    BY <1>3, <1>6, <1>7, RecordsStocked DEF Result, Throw, Synced

(* Units go into the reserved bucket or come back from it.                 *)
SameSlots(m, n) ==
    \A l \in Listings : m.inv[l] # Null =>
        n.inv[l] # Null /\ n.inv[l].slot = m.inv[l].slot /\ n.inv[l].alloc = m.inv[l].alloc

LEMMA ReservesStocked ==
    ASSUME NEW m \in Memory, NEW n \in Memory, Stocked(m), Counted(n),
           SameTrades(m, n), n.ghost = m.ghost, SameSlots(m, n)
    PROVE  Stocked(n)
<1>1. Family(n)
    BY DEF Stocked, Family, SameTrades, SameSlots, Memory
<1>2. ASSUME NEW l \in n.ghost.created
      PROVE  Berthed(n, l)
  <2>1. l \in Listings /\ m.inv[l] # Null /\ Berthed(m, l)
    BY <1>2 DEF Stocked, Counted, Balanced, Memory, Ghost
  <2>2. KeepsAt(m, n, l)
    BY <2>1 DEF KeepsAt, SameTrades, SameSlots, Part, SameRow
  <2> QED
    BY <2>1, <2>2, KeepsBerthed
<1> QED
    BY <1>1, <1>2 DEF Stocked

LEMMA JoinStocked ==
    ASSUME NEW m, m \in Memory, Stocked(m), NEW b \in Buyers, NEW l \in Listings,
           NEW q \in QueueRefs, m.queue[q] = Null, m.inv[l] # Null,
           NEW units \in Nat, units <= m.inv[l].avail
    PROVE  Stocked(JoinQueue(m, b, l, units, q).mem)
<1> PICK n : n = JoinQueue(m, b, l, units, q).mem
    OBVIOUS
<1>1. /\ n \in Memory /\ n.inv = [m.inv EXCEPT ![l] = Reserved(m.inv[l], units)]
      /\ n.ghost = m.ghost /\ SameTrades(m, n)
      /\ \E e \in QueueEntry : /\ n.queue = [m.queue EXCEPT ![q] = e]
                               /\ e.listing = l /\ e.units = units /\ e.buyer = b
                               /\ e.status = "QUEUED" /\ e.trade = Null
    BY JoinFields
<1>2. Counted(n)
    BY <1>1, JoinsCounted DEF Stocked
<1>3. SameSlots(m, n)
  <2>1. m.inv[l] \in SellerInventory
    BY DEF Memory
  <2>2. Reserved(m.inv[l], units) \in SellerInventory
    BY <2>1, StockTyped, Children
  <2>3. /\ Reserved(m.inv[l], units).slot = m.inv[l].slot
        /\ Reserved(m.inv[l], units).alloc = m.inv[l].alloc
    BY <2>1 DEF Reserved, SellerInventory
  <2>4. n.inv[l] = Reserved(m.inv[l], units)
        /\ \A k \in Listings : k # l => n.inv[k] = m.inv[k]
    BY <1>1 DEF Memory
  <2> QED
    BY <2>2, <2>3, <2>4, NullApart DEF SameSlots
<1> QED
    BY <1>1, <1>2, <1>3, ReservesStocked

(* An entry gives its units back.                                          *)
LEMMA BackSlots ==
    ASSUME NEW m \in Memory, NEW n, NEW l \in Listings, m.inv[l] # Null, NEW units \in Nat,
           NEW j, j \in {GivenBack(m.inv[l], units), Unreserved(m.inv[l], units)},
           n.inv = [m.inv EXCEPT ![l] = j]
    PROVE  /\ SameSlots(m, n)
           /\ Returns(m.inv[l], j, units)
<1>1. m.inv[l] \in SellerInventory
    BY DEF Memory
<1>2. Returns(m.inv[l], j, units)
    BY <1>1, BackReturns
<1>3. j.slot = m.inv[l].slot /\ j.alloc = m.inv[l].alloc
    BY <1>1 DEF GivenBack, Unreserved, SellerInventory
<1>4. j # Null
    BY <1>2, NullApart DEF Returns
<1>5. n.inv[l] = j /\ \A k \in Listings : k # l => n.inv[k] = m.inv[k]
    BY DEF Memory
<1> QED
    BY <1>2, <1>3, <1>4, <1>5 DEF SameSlots

LEMMA LeavesStocked ==
    ASSUME NEW m \in Memory, Stocked(m), NEW n \in Memory, NEW q \in QueueRefs,
           m.queue[q] # Null, Waits(m.queue[q]), n.ghost = m.ghost, SameTrades(m, n),
           n.inv = [m.inv EXCEPT ![m.queue[q].listing] =
                        GivenBack(m.inv[m.queue[q].listing], m.queue[q].units)]
           \/ n.inv = [m.inv EXCEPT ![m.queue[q].listing] =
                        Unreserved(m.inv[m.queue[q].listing], m.queue[q].units)],
           SameQueue(n.queue, m.queue), ~Waits(n.queue[q]),
           \A p \in QueueRefs \ {q} : m.queue[p] # Null =>
                (Waits(n.queue[p]) <=> Waits(m.queue[p]))
    PROVE  Stocked(n)
<1> PICK l \in Listings : l = m.queue[q].listing
    BY DEF Memory, QueueEntry
<1> PICK units \in Nat : units = m.queue[q].units
    BY DEF Memory, QueueEntry
<1>1. m.inv[l] # Null
    BY DEF Stocked, Counted, Placed
<1>2. PICK j \in {GivenBack(m.inv[l], units), Unreserved(m.inv[l], units)} :
            n.inv = [m.inv EXCEPT ![l] = j]
    OBVIOUS
<1>3. SameSlots(m, n) /\ Returns(m.inv[l], j, units)
    BY <1>1, <1>2, BackSlots
<1>4. Counted(n)
    BY <1>2, <1>3, LeavesCounted DEF Stocked
<1> QED
    BY <1>3, <1>4, ReservesStocked

LEMMA CancelQueueStocked ==
    ASSUME NEW m, NEW at, Sound(m, at), Stocked(m), NEW b, NEW q \in QueueRefs
    PROVE  Stocked(CancelQueueEntry(m, b, q).mem)
<1> PICK n : n = [m EXCEPT !.inv[m.queue[q].listing] = GivenBack(@, m.queue[q].units),
                           !.queue = Renumbered(m, q)]
    OBVIOUS
<1>1. ASSUME m.queue[q] # Null, Waits(m.queue[q])
      PROVE  Stocked(n)
  <2>1. m \in Memory
    BY DEF Sound, Typed
  <2>2. /\ n \in Memory /\ n.queue = Renumbered(m, q) /\ n.ghost = m.ghost /\ SameTrades(m, n)
        /\ n.inv = [m.inv EXCEPT ![m.queue[q].listing] =
                        GivenBack(m.inv[m.queue[q].listing], m.queue[q].units)]
    BY <1>1, <2>1, CancelFields
  <2>3. /\ SameQueue(n.queue, m.queue) /\ n.queue[q].status = "CANCELLED"
        /\ \A p \in QueueRefs \ {q} : m.queue[p] # Null =>
                (Waits(n.queue[p]) <=> Waits(m.queue[p]))
    BY <1>1, <2>1, <2>2, RenumberedTyped
  <2>4. ~Waits(n.queue[q])
    BY <2>3 DEF Waits
  <2> QED
    BY <1>1, <2>1, <2>2, <2>3, <2>4, LeavesStocked
<1>2. \/ CancelQueueEntry(m, b, q) = Throw(m)
      \/ /\ m.queue[q] # Null /\ Waits(m.queue[q])
         /\ CancelQueueEntry(m, b, q) = Result(n, {}, {}, TRUE)
    BY DEF CancelQueueEntry, Waits
<1> QED
    BY <1>1, <1>2 DEF Throw, Result

LEMMA ServedStocked ==
    ASSUME NEW m, m \in Memory, Stocked(m), NEW q \in QueueRefs, m.queue[q] # Null,
           Waits(m.queue[q])
    PROVE  Stocked(Served(m, q))
<1> PICK n : n = Served(m, q)
    OBVIOUS
<1> PICK x : x = [m.queue[q] EXCEPT !.status = "ACTIVE_SLOT"]
    OBVIOUS
<1>1. m.inv[m.queue[q].listing] # Null
    BY DEF Stocked, Counted, Placed
<1>2. /\ n \in Memory /\ n.queue = [m.queue EXCEPT ![q] = x]
      /\ n.ghost = m.ghost /\ SameTrades(m, n)
      /\ n.inv = [m.inv EXCEPT ![m.queue[q].listing] =
                    Unreserved(m.inv[m.queue[q].listing], m.queue[q].units)]
    BY <1>1, ServedFields
<1>3. m.queue[q] \in QueueEntry
    BY DEF Memory
<1>4. x \in QueueEntry /\ SameEntry(x, m.queue[q]) /\ x.status = "ACTIVE_SLOT"
    BY <1>3, EntryTyped
<1>5. /\ SameQueue(n.queue, m.queue) /\ ~Waits(n.queue[q])
      /\ \A p \in QueueRefs \ {q} : m.queue[p] # Null =>
              (Waits(n.queue[p]) <=> Waits(m.queue[p]))
  <2>1. n.queue[q] = x /\ \A p \in QueueRefs : p # q => n.queue[p] = m.queue[p]
    BY <1>2 DEF Memory
  <2>2. n.queue \in [QueueRefs -> QueueEntry \cup {Null}]
    BY <1>2 DEF Memory
  <2> QED
    BY <1>4, <2>1, <2>2, NullApart DEF SameQueue, SameEntry, Waits
<1> QED
    BY <1>2, <1>5, LeavesStocked
-----------------------------------------------------------------------------
(* A trade of one listing is a trade of no other.                          *)
LEMMA PartsApart ==
    ASSUME NEW m, Family(m), NEW k \in Listings, NEW l \in Listings, k # l,
           NEW t \in TradeIds, t = l \/ t \in {l} \X Suffixes
    PROVE  ~Part(m, k, t) /\ m.parent[t] # k
<1>1. k # Null
    BY NullApart, Children
<1>2. t # k
    BY IdsAssumption
<1>3. m.parent[t] # k
  <2>1. ASSUME m.parent[t] = k
        PROVE  FALSE
    <3>1. t \in {k} \X Suffixes
      BY <1>1, <1>2, <2>1 DEF Family
    <3> QED
      BY <3>1, IdsAssumption
  <2> QED
    BY <2>1
<1> QED
    BY <1>2, <1>3 DEF Part

(* A partial fill gets an id of its own, and is smaller than the deposit;  *)
(* the id of the listing stands for all of it.                             *)
LEMMA ActiveSize ==
    ASSUME NEW m \in Memory, NEW l \in Listings, Balanced(m, l), NEW s \in Suffixes,
           NEW units \in Nat, units <= m.inv[l].avail
    PROVE  LET t == ActiveId(m, l, units, s) IN
           /\ t \in TradeIds
           /\ t = l \/ t \in {l} \X Suffixes
           /\ t = l => units = Deposit
           /\ t # l => units < Deposit
<1> PICK i \in SellerInventory : i = m.inv[l]
    BY DEF Balanced, Memory
<1> PICK t : t = ActiveId(m, l, units, s)
    OBVIOUS
<1>1. <<l, s>> # l /\ <<l, s>> \in {l} \X Suffixes /\ t \in TradeIds
    BY IdsAssumption, ActiveIdTyped
<1>2. /\ i.avail \in Nat /\ i.alloc \in Nat /\ i.reserved \in Nat /\ i.filled \in Nat
      /\ i.avail + i.alloc + i.reserved + i.filled = Deposit /\ i.total = Deposit
      /\ units <= i.avail
    BY DEF SellerInventory, Balanced, Buckets
<1>3. CASE units < i.total \/ i.filled > 0 \/ i.reserved > 0
  <2>1. t = <<l, s>>
    BY <1>3 DEF ActiveId
  <2>2. units < Deposit
    BY <1>2, <1>3, DepositAssumption
  <2> QED
    BY <1>1, <2>1, <2>2
<1>4. CASE ~(units < i.total \/ i.filled > 0 \/ i.reserved > 0)
  <2>1. t = l
    BY <1>4 DEF ActiveId
  <2>2. units = Deposit
    BY <1>2, <1>4, DepositAssumption
  <2> QED
    BY <1>1, <2>1, <2>2
<1> QED
    BY <1>3, <1>4

(* A fill moves into the slot of its listing.                              *)
FillsSlot(m, n, l, t, units) ==
    /\ \A k \in Listings : k # l => n.inv[k] = m.inv[k]
    /\ n.inv[l].slot = t /\ n.inv[l].alloc = m.inv[l].alloc + units
    /\ Shifts(m.inv[l], n.inv[l])
    /\ n.queue = m.queue
    /\ \A u \in TradeIds : u # t => n.trades[u] = m.trades[u] /\ n.parent[u] = m.parent[u]
    /\ n.parent[t] = l
    /\ n.trades[t] # Null /\ n.trades[t].units = units /\ n.trades[t].life \notin Terminal
    /\ n.ghost.created = m.ghost.created /\ n.ghost.read = m.ghost.read
    /\ n.ghost.released = m.ghost.released

LEMMA AllocatesFills ==
    ASSUME NEW m \in Memory, NEW n, NEW at \in Nat, NEW b \in Buyers, NEW l \in Listings,
           m.inv[l] # Null, NEW units \in Nat, units <= m.inv[l].avail, NEW t \in TradeIds,
           Allocates(m, n, at, b, l, units, t)
    PROVE  FillsSlot(m, n, l, t, units)
<1> PICK i \in SellerInventory : i = m.inv[l]
    BY DEF Memory
<1> PICK j : j = Slotted(i, units, t)
    OBVIOUS
<1> PICK row : row = Awaiting(b, units, at + PaymentTimeout)
    OBVIOUS
<1>1. /\ j.slot = t /\ j.alloc = i.alloc + units /\ j.avail = i.avail - units
      /\ j.total = i.total /\ j.reserved = i.reserved /\ j.filled = i.filled
    BY DEF Slotted, SellerInventory
<1>2. j \in SellerInventory
    BY StockTyped
<1>3. Shifts(i, j)
  <2>1. Buckets(j) = Buckets(i)
    BY <1>1 DEF Buckets, SellerInventory
  <2> QED
    BY <1>1, <1>2, <2>1, NullApart DEF Shifts
<1>4. row \in SharedTrade /\ row.life = "AWAITING_PAYMENT" /\ row.units = units
    BY AwaitingTyped, TimeoutAssumption
<1>5. n.inv[l] = j /\ \A k \in Listings : k # l => n.inv[k] = m.inv[k]
    BY DEF Allocates, Memory
<1>6. n.trades[t] = row /\ \A u \in TradeIds : u # t => n.trades[u] = m.trades[u]
    BY DEF Allocates, Memory
<1>7. n.parent[t] = l /\ \A u \in TradeIds : u # t => n.parent[u] = m.parent[u]
    BY DEF Allocates, Memory
<1>8. /\ n.ghost.created = m.ghost.created /\ n.ghost.read = m.ghost.read
      /\ n.ghost.released = m.ghost.released
  <2> PICK u \in BOOLEAN : u = Unused(m, t)
    BY DEF Unused
  <2> PICK g \in Ghost : g = m.ghost
    BY DEF Memory
  <2>1. n.ghost = Opened(g, t, u)
    BY DEF Allocates
  <2>2. LET h == Opened(g, t, u) IN
            h.created = g.created /\ h.read = g.read /\ h.released = g.released
    BY DEF Opened, Ghost
  <2> QED
    BY <2>1, <2>2
<1>9. row.life \notin Terminal
    BY <1>4 DEF Terminal
<1>10. n.queue = m.queue
    BY DEF Allocates
<1> QED
    BY <1>1, <1>3, <1>4, <1>5, <1>6, <1>7, <1>8, <1>9, <1>10, NullApart DEF FillsSlot

LEMMA AllocatesStocked ==
    ASSUME NEW m \in Memory, Stocked(m), NEW n \in Memory, NEW l \in Listings,
           m.inv[l] # Null, m.trades[l] # Null, m.inv[l].slot = Null,
           NEW units \in Nat, units <= m.inv[l].avail, NEW s \in Suffixes,
           NEW t \in TradeIds, t = ActiveId(m, l, units, s),
           FillsSlot(m, n, l, t, units)
    PROVE  Stocked(n)
<1>1. Moves(m, n)
  <2>1. Sits(m, n)
    BY SitsStill DEF FillsSlot
  <2>2. \A k \in Listings : Shifts(m.inv[k], n.inv[k])
    BY DEF FillsSlot, Shifts
  <2> QED
    BY <2>1, <2>2 DEF Moves, FillsSlot
<1>2. Counted(n)
    BY <1>1, MovesCounted DEF Stocked
<1>3. t = l \/ t \in {l} \X Suffixes
    BY DEF ActiveId
<1>4. Family(n)
  <2>1. \A k \in Listings : n.inv[k] = Null <=> m.inv[k] = Null
    BY <1>1 DEF Moves, Shifts
  <2>2. \A u \in TradeIds : m.parent[u] # Null => m.parent[u] \in Listings
    BY DEF Memory
  <2>3. ASSUME NEW u \in TradeIds, n.parent[u] # Null
        PROVE  /\ n.trades[u] # Null /\ n.inv[n.parent[u]] # Null
               /\ u = n.parent[u] \/ u \in {n.parent[u]} \X Suffixes
    <3>1. CASE u = t
      BY <1>3, <2>1, <3>1 DEF FillsSlot
    <3>2. CASE u # t
      BY <2>1, <2>2, <2>3, <3>2 DEF FillsSlot, Stocked, Family
    <3> QED
      BY <3>1, <3>2
  <2> QED
    BY <2>3 DEF Family
<1>5. ASSUME NEW k \in n.ghost.created, k # l
      PROVE  Berthed(n, k)
  <2>1. k \in Listings /\ m.inv[k] # Null /\ Berthed(m, k)
    BY <1>5 DEF Stocked, FillsSlot, Counted, Balanced, Memory, Ghost
  <2>2. ~Part(m, k, t) /\ m.parent[t] # k /\ ~Part(n, k, t) /\ n.parent[t] # k
    BY <1>3, <1>5, <2>1, PartsApart DEF Stocked, Part, FillsSlot
  <2>3. KeepsAt(m, n, k)
    BY <1>5, <2>1, <2>2 DEF KeepsAt, FillsSlot, Part, SameRow
  <2> QED
    BY <2>1, <2>3, KeepsBerthed
<1>6. ASSUME l \in n.ghost.created
      PROVE  Berthed(n, l)
  <2>1. Balanced(m, l) /\ Berthed(m, l)
    BY <1>6 DEF Stocked, FillsSlot, Counted
  <2>2. (t = l => units = Deposit) /\ (t # l => units < Deposit)
    BY <2>1, ActiveSize
  <2>3. n.trades[l] # Null
    BY DEF FillsSlot, TradeIds
  <2>4. l \notin n.ghost.read => n.trades[l].units = Deposit
    BY <2>1, <2>2, Children DEF FillsSlot, Berthed
  <2>5. ASSUME NEW u \in TradeIds \ {l}, n.parent[u] = l
        PROVE  ChildBerthed(n, l, u)
    <3>1. CASE u = t
      BY <2>2, <2>5, <3>1 DEF ChildBerthed, FillsSlot
    <3>2. CASE u # t
      <4>1. m.parent[u] = l /\ n.trades[u] = m.trades[u]
        BY <2>5, <3>2 DEF FillsSlot
      <4>2. ChildBerthed(m, l, u) /\ m.inv[l].slot # u
        BY <2>1, <4>1, NullApart DEF Berthed
      <4> QED
        BY <4>1, <4>2 DEF ChildBerthed, FillsSlot
    <3> QED
      BY <3>1, <3>2
  <2>6. n.parent[n.inv[l].slot] = l
    BY DEF FillsSlot
  <2>7. Whole(n, l) => Holds(n, l)
    <3>1. ASSUME Whole(n, l)
          PROVE  Whole(m, l)
      <4>1. ASSUME NEW u \in TradeIds, Part(m, l, u)
            PROVE  Part(n, l, u)
        BY <4>1 DEF Part, FillsSlot
      <4> QED
        BY <3>1, <4>1 DEF Whole, FillsSlot
    <3>2. Whole(m, l) => m.inv[l].alloc = 0
      BY <2>1 DEF Berthed, Holds
    <3>3. t # Null
      BY NullApart
    <3> QED
      BY <3>1, <3>2, <3>3 DEF Holds, FillsSlot
  <2> QED
    BY <2>3, <2>4, <2>5, <2>6, <2>7 DEF Berthed
<1> QED
    BY <1>2, <1>4, <1>5, <1>6 DEF Stocked

LEMMA TakesStocked ==
    ASSUME NEW m, NEW at \in Nat, Sound(m, at), Stocked(m), NEW b \in Buyers,
           NEW l \in Listings, NEW want, NEW draw, NEW res,
           Takes(m, res, at, b, l, want, draw)
    PROVE  Stocked(res.mem)
<1>1. m \in Memory
    BY DEF Sound, Typed
<1>2. CASE res = Throw(m)
    BY <1>2 DEF Throw, Result
<1>3. ASSUME m.inv[l] # Null, m.trades[l] # Null, NEW units \in Nat,
             units <= m.inv[l].avail,
             draw[2] \in QueueRefs, m.queue[draw[2]] = Null,
             res = JoinQueue(m, b, l, units, draw[2])
      PROVE  Stocked(res.mem)
    BY <1>1, <1>3, JoinStocked
<1>4. ASSUME m.inv[l] # Null, m.trades[l] # Null, NEW units \in Nat,
             units <= m.inv[l].avail, m.inv[l].slot = Null, draw[1] \in Suffixes,
             res = Allocate(m, at, b, l, units, ActiveId(m, l, units, draw[1]))
      PROVE  Stocked(res.mem)
  <2> PICK t : t = ActiveId(m, l, units, draw[1])
    OBVIOUS
  <2> PICK n : n = Allocate(m, at, b, l, units, t).mem
    OBVIOUS
  <2>1. t \in TradeIds
    BY <1>4, ActiveIdTyped
  <2>2. Allocates(m, n, at, b, l, units, t)
    BY <1>1, <1>4, <2>1, AllocateFields
  <2>3. n \in Memory
    BY <2>2 DEF Allocates
  <2>4. FillsSlot(m, n, l, t, units)
    BY <1>1, <1>4, <2>1, <2>2, AllocatesFills
  <2>5. Stocked(n)
    BY <1>1, <1>4, <2>1, <2>3, <2>4, AllocatesStocked
  <2> QED
    BY <1>4, <2>5
<1> QED
    BY <1>2, <1>3, <1>4 DEF Takes

LEMMA SeatedStocked ==
    ASSUME NEW x, NEW at, Sound(x, at), Stocked(x), NEW q \in QueueRefs, x.queue[q] # Null,
           NEW l \in Listings, x.inv[l] # Null
    PROVE  Stocked(Seated(x, q, l))
<1> PICK y : y = Seated(x, q, l)
    OBVIOUS
<1> PICK e : e = InSlot(x.queue[q], x.inv[l].slot)
    OBVIOUS
<1>1. x \in Memory
    BY DEF Sound, Typed
<1>2. /\ y \in Memory /\ y.queue = [x.queue EXCEPT ![q] = e]
      /\ y.inv = x.inv /\ y.ghost = x.ghost /\ SameTrades(x, y)
    BY <1>1, InSlotFields
<1>3. x.queue[q] \in QueueEntry /\ x.inv[l].slot \in TradeIds \cup {Null}
    BY <1>1 DEF Memory, SellerInventory
<1>4. e \in QueueEntry /\ SameEntry(e, x.queue[q]) /\ e.status = x.queue[q].status
    BY <1>3, EntryTyped
<1>5. Sits(x, y)
  <2>1. y.queue[q] = e /\ \A p \in QueueRefs : p # q => y.queue[p] = x.queue[p]
    BY <1>1, <1>2 DEF Memory
  <2> QED
    BY <1>4, <2>1, NullApart DEF Sits, Waits, SameEntry
<1>6. Undisturbed(x, y)
    BY <1>2, <1>5 DEF Undisturbed, SameTrades, SameRow
<1> QED
    BY <1>1, <1>2, <1>6, UndisturbedStocked

LEMMA ActivatesStocked ==
    ASSUME NEW m, NEW at \in Nat, Sound(m, at), Stocked(m), NEW b \in Buyers,
           NEW q \in QueueRefs, NEW draw, NEW res, Activates(m, res, at, b, q, draw)
    PROVE  Stocked(res.mem)
<1>1. CASE res = Throw(m)
    BY <1>1 DEF Throw, Result
<1>2. CASE /\ m.queue[q] # Null /\ Waits(m.queue[q])
           /\ m.inv[m.queue[q].listing] # Null /\ m.trades[m.queue[q].listing] # Null
           /\ m.inv[m.queue[q].listing].slot = Null
           /\ res = Throw(Served(m, q)) \/ Slots(m, res, at, b, q, draw)
  <2>1. m \in Memory
    BY DEF Sound, Typed
  <2> PICK l \in Listings : l = m.queue[q].listing
    BY <1>2, <2>1 DEF Memory, QueueEntry
  <2> PICK units \in Nat : units = m.queue[q].units
    BY <1>2, <2>1 DEF Memory, QueueEntry
  <2> PICK n : n = Served(m, q)
    OBVIOUS
  <2>2. /\ n \in Memory /\ SameTrades(m, n)
        /\ n.inv = [m.inv EXCEPT ![l] = Unreserved(m.inv[l], units)]
        /\ n.queue = [m.queue EXCEPT ![q] = [m.queue[q] EXCEPT !.status = "ACTIVE_SLOT"]]
    BY <1>2, <2>1, ServedFields
  <2>3. Sound(n, at)
    BY <2>2, TrustSound
  <2>4. Stocked(n)
    BY <1>2, <2>1, ServedStocked
  <2>5. CASE res = Throw(n)
    BY <2>4, <2>5 DEF Throw, Result
  <2>6. CASE Slots(m, res, at, b, q, draw)
    <3> PICK t : t = ActiveId(n, l, units, draw[1])
      OBVIOUS
    <3> PICK A : A = Allocate(n, at, b, l, units, t)
      OBVIOUS
    <3> PICK x : x = A.mem
      OBVIOUS
    <3> PICK y : y = Seated(x, q, l)
      OBVIOUS
    <3>1. draw[1] \in Suffixes /\ units <= n.inv[l].avail /\ res = Result(y, {t}, {l}, TRUE)
      BY <2>6 DEF Slots
    <3>2. t \in TradeIds
      BY <3>1, ActiveIdTyped
    <3>3. n.inv[l] # Null /\ n.inv[l].slot = Null /\ n.trades[l] # Null
      <4>1. m.inv[l] \in SellerInventory /\ n.inv[l] = Unreserved(m.inv[l], units)
        BY <1>2, <2>1, <2>2 DEF Memory
      <4>2. Unreserved(m.inv[l], units).slot = m.inv[l].slot
        BY <4>1 DEF Unreserved, SellerInventory
      <4>3. Unreserved(m.inv[l], units) \in SellerInventory
        BY <3>2, <4>1, StockTyped
      <4> QED
        BY <1>2, <2>2, <4>1, <4>2, <4>3, NullApart DEF SameTrades
    <3>4. Allocates(n, x, at, b, l, units, t)
      BY <2>2, <3>1, <3>2, <3>3, AllocateFields
    <3>5. Good(A, at)
      BY <2>3, <3>1, <3>2, <3>3, AllocateGood
    <3>6. Sound(x, at) /\ x \in Memory /\ x.inv[l] # Null
      BY <3>2, <3>5 DEF Good, Proper, Allocate, Result, Sound, Typed
    <3>7. FillsSlot(n, x, l, t, units)
      BY <2>2, <3>1, <3>2, <3>3, <3>4, AllocatesFills
    <3>8. Stocked(x)
      BY <2>2, <2>4, <3>1, <3>2, <3>3, <3>6, <3>7, AllocatesStocked
    <3>9. x.queue[q] # Null
      <4>1. x.queue = n.queue
        BY <3>4 DEF Allocates
      <4>2. m.queue[q] \in QueueEntry /\ m.queue \in [QueueRefs -> QueueEntry \cup {Null}]
        BY <1>2, <2>1 DEF Memory
      <4>3. [m.queue[q] EXCEPT !.status = "ACTIVE_SLOT"] \in QueueEntry
        BY <4>2, EntryTyped
      <4>4. n.queue = [m.queue EXCEPT ![q] = [m.queue[q] EXCEPT !.status = "ACTIVE_SLOT"]]
        BY <2>2
      <4>5. x.queue[q] = [m.queue[q] EXCEPT !.status = "ACTIVE_SLOT"]
        BY <4>1, <4>2, <4>4
      <4>6. x.queue[q] \in QueueEntry
        BY <4>3, <4>5
      <4> QED
        BY <4>6, NullApart
    <3>10. Stocked(y)
      BY <3>6, <3>8, <3>9, SeatedStocked
    <3> QED
      BY <3>1, <3>10 DEF Result
  <2> QED
    BY <1>2, <2>5, <2>6
<1> QED
    BY <1>1, <1>2 DEF Activates
-----------------------------------------------------------------------------
(* A listing that is published has no entries and no parts yet.            *)
LEMMA CreateStocked ==
    ASSUME NEW m, NEW at, Sound(m, at), Stocked(m), NEW l \in Listings
    PROVE  Stocked(CreatePeerOffer(m, l).mem)
<1> PICK n : n = CreatePeerOffer(m, l).mem
    OBVIOUS
<1>1. m \in Memory /\ l \in TradeIds
    BY Children DEF Sound, Typed
<1>2. /\ n \in Memory
      /\ n.inv = [m.inv EXCEPT ![l] = NewInventory]
      /\ n.trades = [m.trades EXCEPT ![l] = OpenTrade(Deposit)]
      /\ n.ghost = Published(m.ghost, l, m.inv[l] = Null)
      /\ n.parent = m.parent /\ n.queue = m.queue
    BY <1>1, CreateFields
<1>3. /\ n.ghost.created = IF m.inv[l] = Null THEN m.ghost.created \cup {l}
                           ELSE m.ghost.created \ {l}
      /\ n.ghost.read = m.ghost.read /\ n.ghost.released = m.ghost.released
  <2> PICK g \in Ghost : g = m.ghost
    BY <1>1 DEF Memory
  <2> PICK new \in BOOLEAN : new = (m.inv[l] = Null)
    OBVIOUS
  <2>1. n.ghost = Published(g, l, new)
    BY <1>2
  <2>2. /\ Published(g, l, new).created = IF new THEN g.created \cup {l} ELSE g.created \ {l}
        /\ Published(g, l, new).read = g.read /\ Published(g, l, new).released = g.released
    BY DEF Published, Ghost
  <2> QED
    BY <2>1, <2>2
<1>4. /\ n.inv[l] = NewInventory /\ \A k \in Listings : k # l => n.inv[k] = m.inv[k]
      /\ \A t \in TradeIds : n.trades[t] = IF t = l THEN OpenTrade(Deposit) ELSE m.trades[t]
    BY <1>1, <1>2 DEF Memory
<1>5. /\ n.inv[l] # Null /\ n.trades[l] # Null
      /\ n.inv[l].total = Deposit /\ n.inv[l].alloc = 0 /\ n.inv[l].slot = Null
      /\ n.inv[l].reserved = 0 /\ Buckets(n.inv[l]) = Deposit
      /\ n.trades[l].units = Deposit
  <2>1. NewInventory # Null /\ OpenTrade(Deposit) # Null
    BY NewTyped, OpenTyped, DepositAssumption, NullApart
  <2>2. Buckets(NewInventory) = Deposit
    BY DepositAssumption DEF Buckets, NewInventory
  <2>3. /\ NewInventory.total = Deposit /\ NewInventory.alloc = 0
        /\ NewInventory.slot = Null /\ NewInventory.reserved = 0
        /\ OpenTrade(Deposit).units = Deposit
    BY DEF NewInventory, OpenTrade
  <2> QED
    BY <1>1, <1>4, <2>1, <2>2, <2>3
<1>6. Placed(n)
    BY <1>1, <1>2, <1>4, <1>5 DEF Stocked, Counted, Placed, Memory, QueueEntry
<1>7. Family(n)
  <2>1. \A t \in TradeIds : m.parent[t] # Null => m.parent[t] \in Listings
    BY <1>1 DEF Memory
  <2> QED
    BY <1>2, <1>4, <1>5, <2>1 DEF Stocked, Family
<1>8. \A k : Waiting(n, k) = Waiting(m, k) /\ EntryUnits(n) = EntryUnits(m)
    BY <1>2 DEF Waiting, EntryUnits
<1>9. ASSUME NEW k \in n.ghost.created, k # l
      PROVE  Balanced(n, k) /\ Berthed(n, k)
  <2>1. k \in Listings /\ Balanced(m, k) /\ Berthed(m, k)
    BY <1>1, <1>3, <1>9 DEF Stocked, Counted, Memory, Ghost
  <2>2. Balanced(n, k)
    BY <1>4, <1>8, <1>9, <2>1 DEF Balanced
  <2>3. ~Part(m, k, l)
    BY <1>1, <1>9, <2>1, PartsApart DEF Stocked
  <2>4. KeepsAt(m, n, k)
    BY <1>2, <1>3, <1>4, <1>9, <2>1, <2>3 DEF KeepsAt, Part, SameRow
  <2> QED
    BY <1>1, <1>2, <2>1, <2>2, <2>4, KeepsBerthed DEF Balanced
<1>10. ASSUME l \in n.ghost.created
       PROVE  Balanced(n, l) /\ Berthed(n, l)
  <2>1. m.inv[l] = Null
    BY <1>3, <1>10
  <2>2. Waiting(n, l) = {}
    BY <1>8, <2>1 DEF Waiting, Stocked, Counted, Placed
  <2>3. EntryUnits(n) \in [QueueRefs -> Nat]
    BY <1>2, UnitsTyped
  <2>4. SumFunctionOnSet(EntryUnits(n), {}) = 0
    BY <2>3, SumEmpty
  <2>5. Balanced(n, l)
    BY <1>5, <2>2, <2>4 DEF Balanced
  <2>6. \A t \in TradeIds : n.parent[t] # l
    BY <1>2, <2>1, NullApart, Children DEF Stocked, Family
  <2> QED
    BY <1>5, <2>5, <2>6 DEF Berthed, Holds
<1> QED
    BY <1>6, <1>7, <1>9, <1>10 DEF Stocked, Counted

(* A checkout rewrites the buyer, the deadline and the attempt of a row.   *)
LEMMA RewritesStocked ==
    ASSUME NEW m \in Memory, Stocked(m), NEW n \in Memory, NEW t \in TradeIds,
           m.trades[t] # Null, NEW row, Rewrites(m, n, t, row)
    PROVE  Stocked(n)
<1>1. Undisturbed(m, n)
    BY RewritesUndisturbed
<1> QED
    BY <1>1, UndisturbedStocked

LEMMA RowStocked ==
    ASSUME NEW m \in Memory, Stocked(m), NEW t \in TradeIds, m.trades[t] # Null,
           NEW row \in SharedTrade,
           row.units = m.trades[t].units, row.life = m.trades[t].life
    PROVE  /\ [m EXCEPT !.trades[t] = row] \in Memory
           /\ Stocked([m EXCEPT !.trades[t] = row])
<1> PICK n : n = [m EXCEPT !.trades[t] = row]
    OBVIOUS
<1>1. n \in Memory
    BY DEF Memory
<1>2. /\ n.inv = m.inv /\ n.queue = m.queue /\ n.parent = m.parent
      /\ n.ghost = m.ghost /\ n.trades = [m.trades EXCEPT ![t] = row]
    BY DEF Memory
<1>3. Rewrites(m, n, t, row)
    BY <1>2, NullApart DEF Rewrites
<1> QED
    BY <1>1, <1>3, RewritesStocked

LEMMA BilledStocked ==
    ASSUME NEW m \in Memory, Stocked(m), NEW t \in TradeIds, m.trades[t] # Null,
           NEW row \in SharedTrade,
           row.units = m.trades[t].units, row.life = m.trades[t].life,
           NEW r \in TxRefs, NEW a \in PaymentAttempt
    PROVE  Stocked([m EXCEPT !.attempts[r] = a, !.trades[t] = row])
<1> PICK n : n = [m EXCEPT !.attempts[r] = a, !.trades[t] = row]
    OBVIOUS
<1>1. n \in Memory
    BY DEF Memory
<1>2. /\ n.inv = m.inv /\ n.queue = m.queue /\ n.parent = m.parent
      /\ n.ghost = m.ghost /\ n.trades = [m.trades EXCEPT ![t] = row]
    BY DEF Memory
<1>3. Rewrites(m, n, t, row)
    BY <1>2, NullApart DEF Rewrites
<1> QED
    BY <1>1, <1>3, RewritesStocked

LEMMA CheckoutStocked ==
    ASSUME NEW m, NEW at \in Nat, Sound(m, at), Stocked(m), NEW b \in Buyers,
           NEW t \in TradeIds, NEW r \in TxRefs, m.attempts[r] = Null, NEW draw,
           t \in Listings /\ m.trades[t] # Null /\ m.trades[t].life = "OPEN"
                => Drawn(m, t, draw)
    PROVE  Stocked(Checkout(m, at, b, t, r, draw).mem)
<1> PICK row : row = m.trades[t]
    OBVIOUS
<1> PICK res : res = Checkout(m, at, b, t, r, draw)
    OBVIOUS
<1>1. m \in Memory
    BY DEF Sound, Typed
<1>2. CASE res = Throw(m)
    BY <1>2 DEF Throw, Result
<1>3. ASSUME row # Null, row.buyer \in {b, Null}, res # Throw(m)
      PROVE  Stocked(res.mem)
  <2>1. row \in SharedTrade
    BY <1>1, <1>3 DEF Memory
  <2> PICK row1 : row1 = [row EXCEPT !.buyer = b]
    OBVIOUS
  <2>2. row1 \in SharedTrade
    BY <2>1 DEF SharedTrade
  <2>3. /\ row1.life = row.life /\ row1.flw = row.flw /\ row1.ref = row.ref
        /\ row1.due = row.due /\ row1.units = row.units
    BY <2>1 DEF SharedTrade
  <2> PICK m1 : m1 = [m EXCEPT !.trades[t].buyer = b]
    OBVIOUS
  <2>4. m1 = [m EXCEPT !.trades[t] = row1]
    BY <1>1
  <2>5. row.life = "OPEN" => t \in Listings
    BY <1>3 DEF Sound, Typed, OpensListed
  <2>6. Sound(m1, at)
    <3>1. Sound([m EXCEPT !.trades[t] = row1], at)
      BY <1>3, <2>2, <2>3, <2>5, RowSound
    <3> QED
      BY <2>4, <3>1
  <2>7. m1 \in Memory
    BY <2>6 DEF Sound, Typed
  <2>8. /\ m1.inv = m.inv /\ m1.queue = m.queue /\ m1.attempts = m.attempts
        /\ m1.trades = [m.trades EXCEPT ![t] = row1]
    BY <1>1, <2>4 DEF Memory
  <2>9. m1.trades[t] = row1 /\ row1 # Null
    BY <1>1, <2>2, <2>8, NullApart DEF Memory
  <2>10. Stocked(m1)
    <3>1. Stocked([m EXCEPT !.trades[t] = row1])
      BY <1>1, <1>3, <2>2, <2>3, RowStocked
    <3> QED
      BY <2>4, <3>1
  <2> PICK took : took = TakePeerOffer(m1, at, b, t, Null, draw)
    OBVIOUS
  <2> PICK due : due = IF row.due = Null THEN at + PaymentTimeout ELSE row.due
    OBVIOUS
  <2> PICK row2 : row2 = [row1 EXCEPT !.due = due, !.locked = TRUE]
    OBVIOUS
  <2> PICK m2 : m2 = [m1 EXCEPT !.trades[t] = row2]
    OBVIOUS
  <2> PICK row3 : row3 = [row2 EXCEPT !.ref = r, !.pay = "CHECKOUT_CREATED"]
    OBVIOUS
  <2> PICK a : a = [trade |-> t, buyer |-> b, expires |-> due,
                    flw |-> Null, status |-> "REDIRECT_READY"]
    OBVIOUS
  <2> PICK m3 : m3 = [m2 EXCEPT !.attempts[r] = a, !.trades[t] = row3]
    OBVIOUS
  <2>11. due \in Nat
    BY <2>1, TimeoutAssumption DEF SharedTrade
  <2>12. row2 \in SharedTrade
    BY <2>2, <2>11, LockedTyped
  <2>13. row2.life = row.life /\ row2.units = row.units
    BY <2>2, <2>3 DEF SharedTrade
  <2>14. m2 \in Memory /\ Stocked(m2)
    BY <2>3, <2>7, <2>9, <2>10, <2>12, <2>13, RowStocked
  <2>15. m2.trades[t] = row2 /\ row2 # Null
    BY <2>7, <2>12, NullApart DEF Memory
  <2>16. row3 \in SharedTrade /\ a \in PaymentAttempt
    BY <2>11, <2>12, AttachedTyped DEF PaymentAttempt
  <2>17. row3.life = row2.life /\ row3.units = row2.units
    BY <2>12 DEF SharedTrade
  <2>18. Stocked(m3)
    BY <2>14, <2>15, <2>16, <2>17, BilledStocked
  <2>19. m2 = [m1 EXCEPT !.trades[t] = [@ EXCEPT !.due = due, !.locked = TRUE]]
    BY <2>9
  <2>20. m3 = [m2 EXCEPT !.attempts[r] = a,
                !.trades[t] = [@ EXCEPT !.ref = r, !.pay = "CHECKOUT_CREATED"]]
    BY <2>15
  <2>21. CASE row.life = "OPEN"
    <3>1. res = [took EXCEPT !.ok = FALSE]
      BY <1>3, <2>21 DEF Checkout
    <3>2. t \in Listings /\ Drawn(m1, t, draw)
      BY <1>3, <2>5, <2>8, <2>21 DEF Drawn
    <3>3. Takes(m1, took, at, b, t, Null, draw)
      BY <2>7, <3>2, TakeTakes
    <3>4. Stocked(took.mem)
      BY <2>6, <2>10, <3>2, <3>3, TakesStocked
    <3>5. PICK n, ts, ls, ok : took = Result(n, ts, ls, ok)
      BY <3>3, TakesResult
    <3> QED
      BY <3>1, <3>4, <3>5 DEF Result
  <2>22. CASE row.life # "OPEN" /\ (row.life # "AWAITING_PAYMENT" \/ at >= due)
    <3>1. res = Throw(m1)
      BY <1>3, <2>22 DEF Checkout
    <3> QED
      BY <2>10, <3>1 DEF Throw, Result
  <2>23. CASE row.life = "AWAITING_PAYMENT" /\ ~(at >= due)
    <3>1. CASE Reusable(m, at, row)
      <4>1. res = Result(m2, {}, {}, TRUE)
        BY <1>3, <2>19, <2>23, <3>1 DEF Checkout
      <4> QED
        BY <2>14, <4>1 DEF Result
    <3>2. CASE ~Reusable(m, at, row)
      <4>1. res = Synced(m3, t, {})
        <5>1. m1 = ClaimedBy(m, b, t) /\ due = DueOf(m.trades[t], at)
          BY DEF ClaimedBy, DueOf
        <5>2. m2 = LockedBy(m, at, b, t)
          BY <2>19, <5>1 DEF LockedBy
        <5>3. m3 = Attempted(m, at, b, t, r)
          BY <2>20, <5>1, <5>2 DEF Attempted
        <5>4. res = Synced(Attempted(m, at, b, t, r), t, {})
          BY <1>3, <2>23, <3>2, <5>1, CheckoutAttempts
        <5> QED
          BY <5>3, <5>4
      <4>2. res.mem = m3
        BY <4>1 DEF Synced, Result
      <4> QED
        BY <2>18, <4>2
    <3> QED
      BY <3>1, <3>2
  <2> QED
    BY <2>21, <2>22, <2>23
<1> QED
    BY <1>2, <1>3 DEF Checkout
-----------------------------------------------------------------------------
(* A trade that ends, and the slot it gives up.                            *)
Ends(m, x, t) ==
    /\ x.inv = m.inv /\ x.queue = m.queue /\ x.parent = m.parent /\ x.ghost = m.ghost
    /\ \A u \in TradeIds : u # t => x.trades[u] = m.trades[u]
    /\ x.trades[t] # Null /\ x.trades[t].units = m.trades[t].units
Vacates(x, n, l, t, c) ==
    /\ \A k \in Listings : k # l => n.inv[k] = x.inv[k]
    /\ n.inv[l] = Emptied(x.inv[l], t, x.trades[t].units, c)
    /\ Sits(x, n)
    /\ n.trades = x.trades /\ n.parent = x.parent
    /\ n.ghost.created = x.ghost.created /\ n.ghost.read = x.ghost.read
    /\ n.ghost.released[t] = Upto(x.ghost.released[t] + 1, 2)
    /\ \A u \in TradeIds : u # t => n.ghost.released[u] = x.ghost.released[u]

LEMMA ReleaseVacates ==
    ASSUME NEW x, Typed(x), NEW t \in TradeIds, NEW c \in BOOLEAN,
           NEW l \in Listings, l = Keeper(x, t), x.inv[l] # Null
    PROVE  Vacates(x, ReleaseSlot(x, t, c), l, t, c)
<1> PICK n : n = ReleaseSlot(x, t, c)
    OBVIOUS
<1> PICK v : v = Emptied(x.inv[l], t, x.trades[t].units, c)
    OBVIOUS
<1> PICK w : w = Advanced(x.queue, l, t, c)
    OBVIOUS
<1> PICK r : r = Upto(x.ghost.released[t] + 1, 2)
    OBVIOUS
<1>1. n = [x EXCEPT !.inv[l] = v, !.queue = w, !.ghost.released[t] = r]
    BY DEF ReleaseSlot
<1>2. x \in Memory
    BY DEF Typed
<1>3. n.inv[l] = v /\ \A k \in Listings : k # l => n.inv[k] = x.inv[k]
    BY <1>1, <1>2 DEF Memory
<1>4. n.queue = w /\ x.queue \in [QueueRefs -> QueueEntry \cup {Null}]
    BY <1>1, <1>2 DEF Memory
<1>5. Sits(x, n)
    BY <1>4, AdvancedTyped DEF Sits, Waits
<1>6. n.ghost.released = [x.ghost.released EXCEPT ![t] = r]
    BY <1>1, <1>2 DEF Memory, Ghost
<1>7. n.ghost.released[t] = r
      /\ \A u \in TradeIds : u # t => n.ghost.released[u] = x.ghost.released[u]
    BY <1>2, <1>6 DEF Memory, Ghost
<1>8. SameTrades(x, n) /\ n.ghost.created = x.ghost.created
    BY ReleaseFields
<1> QED
    BY <1>3, <1>5, <1>7, <1>8 DEF Vacates, SameTrades

(* Whatever leaves the slot goes to the filled or the available units.     *)
LEMMA EmptiedShifts ==
    ASSUME NEW i \in SellerInventory, NEW t \in TradeIds, NEW units \in Nat,
           NEW c \in BOOLEAN
    PROVE  Shifts(i, Emptied(i, t, units, c))
<1> PICK v : v = Emptied(i, t, units, c)
    OBVIOUS
<1>1. /\ v \in SellerInventory
      /\ v.total = i.total /\ v.reserved = i.reserved
      /\ v.alloc = IF Moved(i, units) THEN i.alloc - units ELSE i.alloc
      /\ v.avail = IF Moved(i, units) /\ ~c THEN i.avail + units ELSE i.avail
      /\ v.filled = FilledAfter(i, units, c)
    BY EmptiedTyped
<1>2. Buckets(v) = Buckets(i)
  <2>1. v.filled = IF Moved(i, units) /\ c THEN i.filled + units ELSE i.filled
    BY <1>1 DEF FilledAfter
  <2>2. CASE Moved(i, units) /\ c
    BY <1>1, <2>1, <2>2 DEF Buckets, SellerInventory
  <2>3. CASE Moved(i, units) /\ ~c
    BY <1>1, <2>1, <2>3 DEF Buckets, SellerInventory
  <2>4. CASE ~Moved(i, units)
    BY <1>1, <2>1, <2>4 DEF Buckets
  <2> QED
    BY <2>2, <2>3, <2>4
<1> QED
    BY <1>1, <1>2, NullApart DEF Shifts

(* The slot of the listing it leaves: a trade that gives its units back a  *)
(* second time is a child that was not whole, or finds too few of them.    *)
LEMMA VacatesBerthed ==
    ASSUME NEW m \in Memory, NEW x, NEW n \in Memory, NEW l \in Listings,
           NEW t \in TradeIds, NEW c \in BOOLEAN, Part(m, l, t), m.trades[t] # Null,
           Balanced(m, l), Berthed(m, l), Ends(m, x, t), Vacates(x, n, l, t, c)
    PROVE  Berthed(n, l)
<1> PICK i \in SellerInventory : i = m.inv[l]
    BY DEF Balanced, Memory
<1> PICK units \in Nat : units = m.trades[t].units
    BY DEF Memory, SharedTrade
<1> PICK j : j = Emptied(i, t, units, c)
    OBVIOUS
<1>1. n.inv[l] = j
    BY DEF Ends, Vacates
<1>2. /\ j.slot = SlotAfter(i.slot, t)
      /\ j.alloc = IF Moved(i, units) THEN i.alloc - units ELSE i.alloc
    BY EmptiedTyped
<1>3. /\ n.parent = m.parent /\ n.ghost.read = m.ghost.read
      /\ \A u \in TradeIds : u # t => /\ n.trades[u] = m.trades[u]
                                      /\ n.ghost.released[u] = m.ghost.released[u]
      /\ n.trades[t] # Null /\ n.trades[t].units = m.trades[t].units
    BY DEF Ends, Vacates
<1>4. m.ghost.released[t] \in 0..2
    BY DEF Memory, Ghost
<1>5. /\ n.ghost.released[t] >= 1
      /\ m.ghost.released[t] >= 1 => n.ghost.released[t] = 2
      /\ n.ghost.released[t] <= 1 => m.ghost.released[t] <= 1
  <2>1. n.ghost.released[t] = Upto(m.ghost.released[t] + 1, 2)
    BY DEF Ends, Vacates
  <2> QED
    BY <1>4, <2>1 DEF Upto
<1>6. n.trades[l] # Null /\ (l \notin n.ghost.read => n.trades[l].units = Deposit)
    BY <1>3, Children DEF Berthed
<1>7. ASSUME NEW u \in TradeIds \ {l}, n.parent[u] = l
      PROVE  ChildBerthed(n, l, u)
  <2>1. ChildBerthed(m, l, u)
    BY <1>3, <1>7 DEF Berthed
  <2>2. n.inv[l].slot = u \/ n.ghost.released[u] >= 1
    BY <1>1, <1>2, <1>3, <1>5, <2>1 DEF ChildBerthed, SlotAfter
  <2>3. u \notin n.ghost.read => n.trades[u].units < Deposit
    BY <1>3, <2>1 DEF ChildBerthed
  <2> QED
    BY <2>2, <2>3 DEF ChildBerthed
<1>8. n.inv[l].slot # Null => n.parent[n.inv[l].slot] = l
    BY <1>1, <1>2, <1>3 DEF Berthed, SlotAfter
<1>9. ASSUME Whole(n, l)
      PROVE  Holds(n, l)
  <2>1. Whole(m, l)
    BY <1>3, <1>5, <1>9 DEF Whole, Part
  <2>2. Holds(m, l)
    BY <2>1 DEF Berthed
  <2>3. t \notin m.ghost.read /\ (t # l => n.ghost.released[t] <= 1)
    BY <1>3, <1>9 DEF Whole, Part
  <2>4. CASE i.slot = t
    <3>1. i.alloc = units
      BY <2>2, <2>4, NullApart DEF Holds
    <3>2. j.alloc = 0
      BY <1>2, <3>1 DEF Moved, SellerInventory
    <3>3. j.slot = Null
      BY <1>2, <2>4 DEF SlotAfter
    <3> QED
      BY <1>1, <3>2, <3>3 DEF Holds
  <2>5. CASE i.slot # t
    <3>1. t = l
      <4>1. ASSUME t # l
            PROVE  FALSE
        <5>1. ChildBerthed(m, l, t)
          BY <4>1 DEF Berthed, Part
        <5>2. m.ghost.released[t] >= 1
          BY <2>5, <5>1 DEF ChildBerthed
        <5> QED
          BY <1>5, <2>3, <4>1, <5>2
      <4> QED
        BY <4>1
    <3>2. units = Deposit
      BY <2>3, <3>1 DEF Berthed
    <3>3. i.alloc < Deposit /\ (i.slot # Null => i.slot \in TradeIds \ {l})
      <4>1. CASE i.slot = Null
        BY <2>2, <4>1, DepositAssumption DEF Holds
      <4>2. CASE i.slot # Null
        <5>1. i.slot \in TradeIds \ {l} /\ m.parent[i.slot] = l
          BY <2>5, <3>1, <4>2 DEF SellerInventory, Berthed
        <5>2. ChildBerthed(m, l, i.slot) /\ i.slot \notin m.ghost.read
          BY <2>1, <5>1 DEF Berthed, Whole, Part
        <5>3. i.alloc = m.trades[i.slot].units
          BY <2>2, <4>2 DEF Holds
        <5> QED
          BY <5>1, <5>2, <5>3 DEF ChildBerthed
      <4> QED
        BY <4>1, <4>2
    <3>4. j.alloc = i.alloc
      BY <1>2, <3>2, <3>3, DepositAssumption DEF Moved, SellerInventory
    <3>5. j.slot = i.slot
      BY <1>2, <2>5 DEF SlotAfter
    <3>6. i.slot # Null => n.trades[i.slot] = m.trades[i.slot]
      BY <1>3, <2>5, <3>3
    <3> QED
      BY <1>1, <2>2, <3>4, <3>5, <3>6 DEF Holds
  <2> QED
    BY <2>4, <2>5
<1> QED
    BY <1>6, <1>7, <1>8, <1>9 DEF Berthed

LEMMA EndsStocked ==
    ASSUME NEW m \in Memory, Stocked(m), NEW t \in TradeIds, m.trades[t] # Null,
           NEW x, Typed(x), Ends(m, x, t), NEW c \in BOOLEAN
    PROVE  Stocked(ReleaseSlot(x, t, c))
<1> PICK n : n = ReleaseSlot(x, t, c)
    OBVIOUS
<1> PICK k : k = Keeper(m, t)
    OBVIOUS
<1>1. Keeper(x, t) = k /\ x \in Memory
    BY DEF Keeper, Ends, Typed
<1>2. n \in Memory
    BY ReleaseTyped DEF Ends, Typed
<1>3. \A l \in Listings : Part(m, l, t) => l = k
  <2>1. ASSUME NEW l \in Listings, Part(m, l, t), l # k
        PROVE  FALSE
    <3>1. t = l /\ m.parent[t] # Null /\ m.parent[t] = k /\ k \in Listings
      BY <2>1, NullApart, Children DEF Part, Keeper, Memory
    <3> QED
      BY <2>1, <3>1, PartsApart DEF Stocked, Part
  <2> QED
    BY <2>1
<1>4. ASSUME NEW l \in m.ghost.created, l # k
      PROVE  l \in Listings /\ Balanced(m, l) /\ Berthed(m, l) /\ ~Part(m, l, t)
    BY <1>3, <1>4 DEF Stocked, Counted, Memory, Ghost
<1>5. CASE k \notin Listings \/ m.inv[k] = Null
  <2>1. n = x
    BY <1>1, <1>5 DEF ReleaseSlot, Ends
  <2>2. Moves(m, x)
    <3>1. Sits(m, x)
      BY SitsStill DEF Ends
    <3> QED
      BY <3>1 DEF Moves, Ends, Shifts
  <2>3. Counted(x)
    BY <1>1, <2>2, MovesCounted DEF Stocked
  <2>4. Family(x)
    BY DEF Stocked, Family, Ends
  <2>5. ASSUME NEW l \in x.ghost.created
        PROVE  Berthed(x, l)
    <3>1. l \in Listings /\ m.inv[l] # Null /\ Berthed(m, l)
      BY <2>5 DEF Stocked, Counted, Balanced, Memory, Ghost, Ends
    <3>2. ~Part(m, l, t)
      BY <1>3, <1>5, <3>1
    <3>3. KeepsAt(m, x, l)
      BY <3>2 DEF KeepsAt, Ends, Part, SameRow
    <3> QED
      BY <1>1, <3>1, <3>3, KeepsBerthed
  <2> QED
    BY <2>1, <2>3, <2>4, <2>5 DEF Stocked
<1>6. CASE k \in Listings /\ m.inv[k] # Null
  <2>1. Vacates(x, n, k, t, c)
    BY <1>1, <1>6, ReleaseVacates DEF Ends
  <2>2. Shifts(m.inv[k], n.inv[k])
    <3>1. m.inv[k] \in SellerInventory /\ m.trades[t].units \in Nat
      BY <1>6 DEF Memory, SharedTrade
    <3>2. n.inv[k] = Emptied(m.inv[k], t, m.trades[t].units, c)
      BY <2>1 DEF Vacates, Ends
    <3> QED
      BY <3>1, <3>2, EmptiedShifts
  <2>3. Moves(m, n)
    <3>1. Sits(m, n)
      BY <2>1 DEF Vacates, Ends, Sits
    <3>2. \A l \in Listings : Shifts(m.inv[l], n.inv[l])
      BY <2>1, <2>2 DEF Vacates, Ends, Shifts
    <3> QED
      BY <2>1, <3>1, <3>2 DEF Moves, Vacates, Ends
  <2>4. Counted(n)
    BY <1>2, <2>3, MovesCounted DEF Stocked
  <2>5. Family(n)
    <3>1. \A l \in Listings : n.inv[l] = Null <=> m.inv[l] = Null
      BY <2>3 DEF Moves, Shifts
    <3>2. \A u \in TradeIds : m.parent[u] # Null => m.parent[u] \in Listings
      BY DEF Memory
    <3>3. n.parent = m.parent /\ \A u \in TradeIds : m.trades[u] # Null => n.trades[u] # Null
      BY <2>1 DEF Vacates, Ends
    <3> QED
      BY <3>1, <3>2, <3>3 DEF Stocked, Family
  <2>6. ASSUME NEW l \in n.ghost.created, l # k
        PROVE  Berthed(n, l)
    <3>1. l \in Listings /\ m.inv[l] # Null /\ Berthed(m, l) /\ ~Part(m, l, t)
      BY <1>4, <2>1, <2>6 DEF Vacates, Ends, Balanced
    <3>2. KeepsAt(m, n, l)
      BY <2>1, <2>6, <3>1 DEF KeepsAt, Vacates, Ends, Part, SameRow
    <3> QED
      BY <1>2, <3>1, <3>2, KeepsBerthed
  <2>7. ASSUME k \in n.ghost.created
        PROVE  Berthed(n, k)
    <3>1. Balanced(m, k) /\ Berthed(m, k)
      BY <2>1, <2>7 DEF Stocked, Counted, Vacates, Ends
    <3>2. Part(m, k, t)
      BY DEF Part, Keeper
    <3> QED
      BY <1>2, <1>6, <2>1, <3>1, <3>2, VacatesBerthed
  <2> QED
    BY <2>4, <2>5, <2>6, <2>7 DEF Stocked
<1> QED
    BY <1>5, <1>6

LEMMA ClosedEnds ==
    ASSUME NEW m, NEW at, Sound(m, at), NEW t \in TradeIds, m.trades[t] # Null,
           NEW pay \in {"EXPIRED", "FAILED"}, NEW attempt \in {"EXPIRED", "FAILED"}
    PROVE  /\ Sound(Closed(m, t, pay, attempt), at)
           /\ Ends(m, Closed(m, t, pay, attempt), t)
<1> PICK n : n = Closed(m, t, pay, attempt)
    OBVIOUS
<1> PICK row : row = ClosedRow(m.trades[t], pay)
    OBVIOUS
<1>1. Sound(n, at) /\ Closes(m, n, t, row)
    BY ClosedSound
<1>2. row # Null /\ row.units = m.trades[t].units
  <2>1. m.trades[t] \in SharedTrade
    BY DEF Sound, Typed, Memory
  <2>2. "CANCELLED" \in Lifecycle /\ pay \in PaymentStates
    BY DEF Lifecycle, PaymentStates
  <2>3. row \in SharedTrade
    BY <2>1, <2>2 DEF ClosedRow, SharedTrade
  <2>4. row.units = m.trades[t].units
    BY <2>1 DEF ClosedRow, SharedTrade
  <2> QED
    BY <2>3, <2>4, NullApart
<1>3. m.trades \in [TradeIds -> SharedTrade \cup {Null}]
    BY DEF Sound, Typed, Memory
<1>4. n.trades = [m.trades EXCEPT ![t] = row]
    BY <1>1 DEF Closes
<1>5. n.trades[t] = row /\ \A u \in TradeIds : u # t => n.trades[u] = m.trades[u]
    BY <1>3, <1>4
<1>6. Ends(m, n, t)
    BY <1>1, <1>2, <1>5 DEF Ends, Closes
<1> QED
    BY <1>1, <1>6

LEMMA RowEnds ==
    ASSUME NEW m \in Memory, NEW t \in TradeIds, m.trades[t] # Null,
           NEW row \in SharedTrade, row.units = m.trades[t].units
    PROVE  Ends(m, [m EXCEPT !.trades[t] = row], t)
<1> PICK n : n = [m EXCEPT !.trades[t] = row]
    OBVIOUS
<1>1. /\ n.inv = m.inv /\ n.queue = m.queue /\ n.parent = m.parent /\ n.ghost = m.ghost
      /\ n.trades = [m.trades EXCEPT ![t] = row]
    BY DEF Memory
<1>2. \A u \in TradeIds : n.trades[u] = IF u = t THEN row ELSE m.trades[u]
    BY <1>1 DEF Memory
<1> QED
    BY <1>1, <1>2, NullApart DEF Ends

LEMMA CancelStocked ==
    ASSUME NEW m, NEW at, Sound(m, at), Stocked(m), NEW t \in TradeIds, NEW u
    PROVE  Stocked(CancelTrade(m, u, t).mem)
<1>1. ASSUME m.trades[t] # Null
      PROVE  Stocked(ReleaseSlot(Closed(m, t, "FAILED", "FAILED"), t, FALSE))
  <2> PICK x : x = Closed(m, t, "FAILED", "FAILED")
    OBVIOUS
  <2>1. Sound(x, at) /\ Ends(m, x, t)
    BY <1>1, ClosedEnds
  <2>2. m \in Memory /\ Typed(x)
    BY <2>1 DEF Sound, Typed
  <2> QED
    BY <1>1, <2>1, <2>2, EndsStocked
<1> QED
    BY <1>1 DEF CancelTrade, Throw, Result, Synced

LEMMA RefundStocked ==
    ASSUME NEW m, NEW at, Sound(m, at), Stocked(m), NEW t \in TradeIds
    PROVE  Stocked(RefundComplete(m, t).mem)
<1>1. ASSUME m.trades[t] # Null
      PROVE  Stocked(ReleaseSlot([m EXCEPT !.trades[t].life = "CANCELLED"], t, FALSE))
  <2> PICK old \in SharedTrade : old = m.trades[t]
    BY <1>1 DEF Sound, Typed, Memory
  <2> PICK row : row = [old EXCEPT !.life = "CANCELLED"]
    OBVIOUS
  <2>1. row \in SharedTrade /\ row.life = "CANCELLED" /\ row.flw = old.flw
        /\ row.ref = old.ref /\ row.units = old.units
    BY DEF SharedTrade, Lifecycle
  <2> PICK x : x = [m EXCEPT !.trades[t] = row]
    OBVIOUS
  <2>2. Sound(x, at)
    BY <1>1, <2>1, RowSound
  <2>3. m \in Memory /\ Typed(x)
    BY <2>2 DEF Sound, Typed
  <2>4. Ends(m, x, t)
    BY <1>1, <2>1, <2>3, RowEnds
  <2>5. Stocked(ReleaseSlot(x, t, FALSE))
    BY <1>1, <2>3, <2>4, EndsStocked
  <2>6. x = [m EXCEPT !.trades[t].life = "CANCELLED"]
    OBVIOUS
  <2> QED
    BY <2>5, <2>6
<1> QED
    BY <1>1 DEF RefundComplete, Throw, Result, Synced

LEMMA CompleteStocked ==
    ASSUME NEW m, NEW at, Sound(m, at), Stocked(m), NEW t \in TradeIds
    PROVE  Stocked(CompletePeerTrade(m, t).mem)
<1>1. CASE m.trades[t] = Null
    BY <1>1 DEF CompletePeerTrade, Result
<1>2. CASE m.trades[t] # Null
  <2> PICK old \in SharedTrade : old = m.trades[t]
    BY <1>2 DEF Sound, Typed, Memory
  <2> PICK row : row = Finished(old)
    OBVIOUS
  <2>1. row \in SharedTrade /\ row.life = "COMPLETED" /\ row.flw = old.flw
        /\ row.ref = old.ref /\ row.units = old.units
    <3>1. "COMPLETED" \in Lifecycle /\ "CONFIRMED" \in PaymentStates
      BY DEF Lifecycle, PaymentStates
    <3>2. row \in SharedTrade
      BY <3>1 DEF SharedTrade, Finished
    <3>3. /\ row.life = "COMPLETED" /\ row.flw = old.flw
          /\ row.ref = old.ref /\ row.units = old.units
      BY DEF SharedTrade, Finished
    <3> QED
      BY <3>2, <3>3
  <2> PICK x : x = [m EXCEPT !.trades[t] = row]
    OBVIOUS
  <2>2. Sound(x, at)
    BY <1>2, <2>1, RowSound
  <2>3. m \in Memory /\ Typed(x)
    BY <2>2 DEF Sound, Typed
  <2>4. Ends(m, x, t)
    BY <1>2, <2>1, <2>3, RowEnds
  <2> PICK done : done = ReleaseSlot(x, t, TRUE)
    OBVIOUS
  <2>5. Stocked(done)
    BY <1>2, <2>3, <2>4, EndsStocked
  <2>6. done \in Memory
    BY <2>3, <2>4, ReleaseTyped DEF Typed, Ends
  <2> PICK n : n = CompletePeerTrade(m, t).mem
    OBVIOUS
  <2>7. n \in Memory
    BY CompleteGood DEF Good, Proper, Typed
  <2>8. n = IF old.buyer = Null THEN done ELSE [done EXCEPT !.trust[old.buyer] = Rewarded(@)]
    <3>1. x = [m EXCEPT !.trades[t] = Finished(@)]
      OBVIOUS
    <3> QED
      BY <1>2, <3>1 DEF CompletePeerTrade, Synced, Result
  <2>9. /\ n.inv = done.inv /\ n.parent = done.parent /\ n.queue = done.queue
        /\ n.trades = done.trades /\ n.ghost = done.ghost
    BY <2>6, <2>8 DEF Memory
  <2> QED
    BY <2>5, <2>6, <2>7, <2>9, AsideStocked
<1> QED
    BY <1>1, <1>2

LEMMA ConfirmStocked ==
    ASSUME NEW m, NEW at, Sound(m, at), Stocked(m), NEW t \in TradeIds
    PROVE  Stocked(ConfirmRelease(m, t).mem)
<1>1. Stocked(Throw(m).mem)
    BY DEF Throw, Result
<1> QED
    BY <1>1, CompleteStocked DEF ConfirmRelease

LEMMA ExpireStocked ==
    ASSUME NEW m, NEW at \in Nat, Sound(m, at), Stocked(m), NEW t \in TradeIds,
           Expired(m, at, t)
    PROVE  Stocked(ExpireTrade(m, at, t))
<1> PICK x : x = Closed(m, t, "EXPIRED", "EXPIRED")
    OBVIOUS
<1> PICK y : y = ReleaseSlot(x, t, FALSE)
    OBVIOUS
<1> PICK n : n = Charge(y, at, t)
    OBVIOUS
<1>1. m.trades[t] # Null
    BY DEF Expired
<1>2. Sound(x, at) /\ Ends(m, x, t)
    BY <1>1, ClosedEnds
<1>3. m \in Memory /\ Typed(x)
    BY <1>2 DEF Sound, Typed
<1>4. Stocked(y)
    BY <1>1, <1>2, <1>3, EndsStocked
<1>5. Typed(y)
    BY <1>2, <1>3, ReleaseTyped DEF Ends
<1>6. n = ExpireTrade(m, at, t)
    BY DEF ExpireTrade
<1>7. Sound(n, at)
    BY <1>6, ExpireFields
<1>8. Charges(y, n, t)
    BY <1>5, ChargeFields
<1>9. n \in Memory /\ y \in Memory
    BY <1>5, <1>7 DEF Sound, Typed
<1> QED
    BY <1>4, <1>6, <1>8, <1>9, AsideStocked DEF Charges

LEMMA ReconcileStocked ==
    ASSUME NEW m, NEW at \in Nat, Sound(m, at), Stocked(m)
    PROVE  Stocked(ReconcileExpired(m, at).mem)
<1> PICK due : due = ExpiredTrades(m, at)
    OBVIOUS
<1> DEFINE Done(x, s) ==
              /\ Sound(x, at) /\ Stocked(x)
              /\ \A u \in TradeIds \ s : x.trades[u] = m.trades[u]
           Q == {p \in Memory \X SUBSET TradeIds : Done(p[1], p[2])}
<1>1. <<m, {}>> \in Q
    BY DEF Sound, Typed
<1>2. ASSUME NEW x, NEW s, NEW t \in due \ s, <<x, s>> \in Q, s \subseteq due
      PROVE  <<ExpireTrade(x, at, t), s \cup {t}>> \in Q
  <2>1. Done(x, s) /\ s \in SUBSET TradeIds
    BY <1>2
  <2>2. t \in TradeIds /\ Expired(m, at, t) /\ x.trades[t] = m.trades[t]
    BY <1>2, <2>1 DEF ExpiredTrades
  <2>3. Expired(x, at, t)
    BY <2>2 DEF Expired
  <2> PICK n : n = ExpireTrade(x, at, t)
    OBVIOUS
  <2>0. Sound(n, at) /\ Expires(x, n, t)
    BY <2>1, <2>2, <2>3, ExpireFields
  <2>4. Sound(n, at) /\ \A u \in TradeIds \ {t} : n.trades[u] = x.trades[u]
    BY <2>0 DEF Expires
  <2>5. Stocked(n)
    BY <2>1, <2>2, <2>3, ExpireStocked
  <2>6. Done(n, s \cup {t})
    BY <2>1, <2>4, <2>5
  <2>7. n \in Memory /\ s \cup {t} \in SUBSET TradeIds
    BY <2>1, <2>2, <2>4 DEF Sound, Typed
  <2> HIDE DEF Done
  <2> QED
    BY <2>6, <2>7
<1> PICK n : n = ReconcileExpired(m, at).mem
    OBVIOUS
<1>3. <<n, due>> \in Q
  <2> HIDE DEF Q
  <2> QED
    BY <1>1, <1>2, Reconciles
<1> QED
    BY <1>3
-----------------------------------------------------------------------------
(* Rows read back from the database, and a process that starts anew.       *)
Reloads(m, n, R) ==
    /\ n.inv = m.inv /\ n.queue = m.queue /\ n.parent = m.parent
    /\ n.ghost.created = m.ghost.created /\ n.ghost.released = m.ghost.released
    /\ n.ghost.read = m.ghost.read \cup R
    /\ \A t \in R : n.trades[t] # Null
    /\ \A t \in TradeIds : t \notin R => n.trades[t] = m.trades[t]
Relists(m, n, R) ==
    /\ n.queue = m.queue /\ n.parent = m.parent
    /\ n.ghost.created = m.ghost.created \ R
    /\ n.ghost.released = m.ghost.released /\ n.ghost.read = m.ghost.read
    /\ \A l \in R : n.inv[l] # Null
    /\ \A l \in Listings : l \notin R => n.inv[l] = m.inv[l]
    /\ \A t \in TradeIds : m.trades[t] # Null => n.trades[t] = m.trades[t]

(* The trade in the slot of a listing that is not wholly known need not    *)
(* hold what is allocated any more.                                        *)
LEMMA ReloadsBerthed ==
    ASSUME NEW m \in Memory, NEW n \in Memory, NEW R \in SUBSET TradeIds,
           Reloads(m, n, R), NEW l \in Listings, m.inv[l] # Null, Berthed(m, l)
    PROVE  Berthed(n, l)
<1>1. \A t \in TradeIds : t \notin n.ghost.read =>
            t \notin m.ghost.read /\ n.trades[t] = m.trades[t]
    BY DEF Reloads
<1>2. l \in TradeIds /\ \A t \in TradeIds : Part(n, l, t) <=> Part(m, l, t)
    BY Children DEF Part, Reloads
<1>3. n.trades[l] # Null
    BY <1>2 DEF Berthed, Reloads
<1>4. l \notin n.ghost.read => n.trades[l].units = Deposit
    BY <1>1, <1>2 DEF Berthed
<1>5. ASSUME NEW t \in TradeIds \ {l}, n.parent[t] = l
      PROVE  ChildBerthed(n, l, t)
  <2>1. ChildBerthed(m, l, t)
    BY <1>5 DEF Berthed, Reloads
  <2> QED
    BY <1>1, <2>1 DEF ChildBerthed, Reloads
<1>6. n.inv[l].slot # Null => n.parent[n.inv[l].slot] = l
    BY DEF Berthed, Reloads
<1>7. ASSUME Whole(n, l)
      PROVE  Holds(n, l)
  <2>1. Whole(m, l)
    BY <1>1, <1>2, <1>7 DEF Whole, Reloads
  <2>2. Holds(m, l)
    BY <2>1 DEF Berthed
  <2>3. CASE n.inv[l].slot = Null
    BY <2>2, <2>3 DEF Holds, Reloads
  <2>4. CASE n.inv[l].slot # Null
    <3> PICK t : t = n.inv[l].slot
      OBVIOUS
    <3>1. t \in TradeIds /\ t = m.inv[l].slot
      BY <2>4 DEF Memory, SellerInventory, Reloads
    <3>2. Part(n, l, t)
      BY <1>6, <2>4 DEF Part
    <3>3. n.trades[t] = m.trades[t]
      BY <1>1, <1>7, <3>1, <3>2 DEF Whole
    <3> QED
      BY <2>2, <2>4, <3>1, <3>3 DEF Holds, Reloads
  <2> QED
    BY <2>3, <2>4
<1> QED
    BY <1>3, <1>4, <1>5, <1>6, <1>7 DEF Berthed

LEMMA ReloadsStocked ==
    ASSUME NEW m \in Memory, NEW n \in Memory, Stocked(m), NEW R \in SUBSET TradeIds,
           Reloads(m, n, R)
    PROVE  Stocked(n)
<1>1. Moves(m, n)
  <2>1. Sits(m, n)
    BY SitsStill DEF Reloads
  <2> QED
    BY <2>1 DEF Moves, Reloads, Shifts
<1>2. Counted(n)
    BY <1>1, MovesCounted DEF Stocked
<1>3. Family(n)
    BY DEF Stocked, Family, Reloads
<1>4. ASSUME NEW l \in n.ghost.created
      PROVE  Berthed(n, l)
  <2>1. l \in Listings /\ m.inv[l] # Null /\ Berthed(m, l)
    BY <1>4 DEF Reloads, Stocked, Counted, Balanced, Memory, Ghost
  <2> QED
    BY <2>1, ReloadsBerthed
<1> QED
    BY <1>2, <1>3, <1>4 DEF Stocked

LEMMA RelistsStocked ==
    ASSUME NEW m \in Memory, NEW n \in Memory, Stocked(m), NEW R \in SUBSET Listings,
           Relists(m, n, R)
    PROVE  Stocked(n)
<1>1. Sits(m, n)
    BY SitsStill DEF Relists
<1>2. \A l \in Listings : m.inv[l] # Null => n.inv[l] # Null
    BY DEF Relists
<1>3. Placed(n)
  <2>1. ASSUME NEW q \in QueueRefs, n.queue[q] # Null
        PROVE  n.inv[n.queue[q].listing] # Null
    <3>1. n.queue[q] = m.queue[q] /\ m.queue[q].listing \in Listings
      BY <2>1 DEF Relists, Memory, QueueEntry
    <3>2. m.inv[m.queue[q].listing] # Null
      BY <2>1, <3>1 DEF Stocked, Counted, Placed
    <3> QED
      BY <1>2, <3>1, <3>2
  <2> QED
    BY <2>1 DEF Placed
<1>4. ASSUME NEW l \in n.ghost.created
      PROVE  /\ l \in Listings /\ n.inv[l] = m.inv[l]
             /\ Balanced(m, l) /\ Berthed(m, l)
  <2>1. l \in m.ghost.created /\ l \notin R
    BY <1>4 DEF Relists
  <2>2. l \in Listings
    BY <2>1 DEF Memory, Ghost
  <2> QED
    BY <2>1, <2>2 DEF Relists, Stocked, Counted
<1>5. ASSUME NEW l \in n.ghost.created
      PROVE  Balanced(n, l)
  <2>1. Waiting(n, l) = Waiting(m, l) /\ EntryUnits(n) = EntryUnits(m)
    BY <1>1, SitsSum
  <2> QED
    BY <1>4, <1>5, <2>1 DEF Balanced
<1>6. Family(n)
  <2>1. \A t \in TradeIds : m.trades[t] # Null => n.trades[t] # Null
    BY DEF Relists
  <2>2. n.parent = m.parent /\ \A t \in TradeIds : m.parent[t] # Null => m.parent[t] \in Listings
    BY DEF Relists, Memory
  <2> QED
    BY <1>2, <2>1, <2>2 DEF Stocked, Family
<1>7. ASSUME NEW l \in n.ghost.created
      PROVE  Berthed(n, l)
  <2>1. /\ l \in Listings /\ n.inv[l] = m.inv[l] /\ m.inv[l] # Null
        /\ Berthed(m, l) /\ m.trades[l] # Null
    BY <1>4, <1>7 DEF Balanced, Berthed
  <2>2. \A t \in TradeIds : Part(m, l, t) => m.trades[t] # Null
    BY <2>1, NullApart, Children DEF Part, Stocked, Family
  <2>3. \A t \in TradeIds : Part(m, l, t) => n.trades[t] = m.trades[t]
    BY <2>2 DEF Relists
  <2>4. KeepsAt(m, n, l)
    BY <2>1, <2>3 DEF KeepsAt, SameRow, Part, Relists
  <2> QED
    BY <2>1, <2>4, KeepsBerthed
<1> QED
    BY <1>3, <1>5, <1>6, <1>7 DEF Stocked, Counted

LEMMA EmptyStocked == Stocked(EmptyMemory)
<1>1. /\ EmptyMemory.ghost.created = {}
      /\ \A t \in TradeIds : EmptyMemory.parent[t] = Null
      /\ \A q \in QueueRefs : EmptyMemory.queue[q] = Null
    BY DEF EmptyMemory
<1> QED
    BY <1>1 DEF Stocked, Counted, Placed, Family
-----------------------------------------------------------------------------
(* The units of every listing, step by step.                               *)
StockInv == StoreInv /\ Stocked(mem)

LEMMA StockCall ==
    ASSUME NEW res, Perform(res), Stocked(res.mem)
    PROVE  Stocked(mem')
    BY DEF Perform

LEMMA HydrateListingsStocked ==
    ASSUME StockInv, HydrateListings
    PROVE  Stocked(mem')
<1> PICK read : read = {l \in Listings : db.listings[l] # Null
                                  /\ db.listings[l].status # "DEPLETED"}
    OBVIOUS
<1> PICK inv : inv = [l \in Listings |->
            IF l \notin read THEN mem.inv[l]
            ELSE LET row == db.listings[l] IN
                 [total |-> row.total, avail |-> row.avail, alloc |-> row.alloc,
                  reserved |-> row.reserved, filled |-> row.filled, slot |-> Null]]
    OBVIOUS
<1> PICK trades : trades = [t \in TradeIds |->
            IF t \in read /\ mem.trades[t] = Null
            THEN OpenTrade(db.listings[t].total)
            ELSE mem.trades[t]]
    OBVIOUS
<1> PICK n : n = [mem EXCEPT !.inv = inv, !.trades = trades,
                             !.ghost.created = mem.ghost.created \ read]
    OBVIOUS
<1>1. mem' = n
    BY DEF HydrateListings
<1>2. Sound(mem, now)'
    BY HydrateListingsKeeps DEF StockInv
<1>3. mem \in Memory /\ mem.ghost \in Ghost /\ n \in Memory
    BY <1>1, <1>2 DEF StockInv, StoreInv, Sound, Typed, Memory
<1>4. /\ n.inv = inv /\ n.trades = trades /\ n.queue = mem.queue /\ n.parent = mem.parent
      /\ n.ghost.created = mem.ghost.created \ read
      /\ n.ghost.released = mem.ghost.released /\ n.ghost.read = mem.ghost.read
  <2> PICK g : g = [mem.ghost EXCEPT !.created = mem.ghost.created \ read]
    OBVIOUS
  <2>1. n = [mem EXCEPT !.inv = inv, !.trades = trades, !.ghost = g]
    BY <1>3 DEF Memory
  <2>2. /\ n.inv = inv /\ n.trades = trades /\ n.queue = mem.queue
        /\ n.parent = mem.parent /\ n.ghost = g
    BY <1>3, <2>1 DEF Memory
  <2>3. /\ g.created = mem.ghost.created \ read
        /\ g.released = mem.ghost.released /\ g.read = mem.ghost.read
    BY <1>3 DEF Ghost
  <2> QED
    BY <2>2, <2>3
<1>5. ASSUME NEW l \in read
      PROVE  inv[l] # Null
  <2>1. inv[l] = [total |-> db.listings[l].total, avail |-> db.listings[l].avail,
                  alloc |-> db.listings[l].alloc, reserved |-> db.listings[l].reserved,
                  filled |-> db.listings[l].filled, slot |-> Null]
    BY <1>5
  <2>2. db.listings[l] \in DbListing
    BY <1>5 DEF StockInv, StoreInv, DbTyped, DbRows
  <2>3. inv[l] \in SellerInventory
    BY <2>1, <2>2 DEF DbListing, SellerInventory
  <2> QED
    BY <2>3, NullApart
<1>6. \A l \in Listings : l \notin read => inv[l] = mem.inv[l]
    OBVIOUS
<1>7. \A t \in TradeIds : mem.trades[t] # Null => trades[t] = mem.trades[t]
    OBVIOUS
<1>8. Relists(mem, n, read)
  <2>1. \A l \in read : n.inv[l] # Null
    BY <1>4, <1>5
  <2>2. \A l \in Listings : l \notin read => n.inv[l] = mem.inv[l]
    BY <1>4, <1>6
  <2>3. \A t \in TradeIds : mem.trades[t] # Null => n.trades[t] = mem.trades[t]
    BY <1>4, <1>7
  <2> QED
    BY <1>4, <2>1, <2>2, <2>3 DEF Relists
<1> QED
    BY <1>1, <1>3, <1>8, RelistsStocked DEF StockInv

LEMMA HydrateTradesStocked ==
    ASSUME StockInv, NEW read \in SUBSET TradeIds, \A t \in read : db.trades[t] # Null,
           NEW n, n = [mem EXCEPT
                !.trades = [t \in TradeIds |->
                    IF t \in read THEN ReadTrade(db.trades[t]) ELSE @[t]],
                !.ghost = ReadBack(@, read)]
    PROVE  Stocked(n)
<1>1. mem \in Memory /\ mem.ghost \in Ghost
    BY DEF StockInv, StoreInv, Sound, Typed, Memory
<1>2. n \in Memory
  <2>1. Good(Result(n, read, {}, TRUE), now)
    BY HydrateTradesGood DEF StockInv
  <2> QED
    BY <2>1 DEF Good, Proper, Typed, Result
<1>3. /\ n.inv = mem.inv /\ n.queue = mem.queue /\ n.parent = mem.parent
      /\ n.ghost = ReadBack(mem.ghost, read)
    BY <1>1 DEF Memory
<1>4. n.trades = [t \in TradeIds |->
                    IF t \in read THEN ReadTrade(db.trades[t]) ELSE mem.trades[t]]
    BY <1>1 DEF Memory
<1>5. /\ n.ghost.created = mem.ghost.created /\ n.ghost.released = mem.ghost.released
      /\ n.ghost.read = mem.ghost.read \cup read
  <2> PICK g : g = mem.ghost
    OBVIOUS
  <2>1. g \in Ghost /\ n.ghost = [g EXCEPT !.own = g.own \ read,
                                          !.read = g.read \cup read]
    BY <1>1, <1>3 DEF ReadBack
  <2> PICK h : h = [g EXCEPT !.own = g.own \ read, !.read = g.read \cup read]
    OBVIOUS
  <2>2. h.created = g.created /\ h.released = g.released /\ h.read = g.read \cup read
    BY <2>1 DEF Ghost
  <2> QED
    BY <2>1, <2>2
<1>6. ASSUME NEW t \in read
      PROVE  n.trades[t] # Null
  <2>1. db.trades[t] \in DbTrade
    BY <1>6 DEF StockInv, StoreInv, DbTyped, DbRows
  <2>2. n.trades[t] \in SharedTrade
    BY <1>4, <1>6, <2>1, ReadTyped
  <2> QED
    BY <2>2, NullApart
<1>7. \A t \in TradeIds : t \notin read => n.trades[t] = mem.trades[t]
    BY <1>4
<1>8. Reloads(mem, n, read)
    BY <1>3, <1>5, <1>6, <1>7 DEF Reloads
<1> QED
    BY <1>1, <1>2, <1>8, ReloadsStocked DEF StockInv

LEMMA LoadTradeStocked ==
    ASSUME StockInv, NEW t \in TradeIds, LoadTrade(t)
    PROVE  Stocked(mem')
<1> PICK row : row = [ReadTrade(db.trades[t]) EXCEPT !.due = Null, !.locked = TRUE]
    OBVIOUS
<1> PICK n : n = [mem EXCEPT !.trades[t] = row, !.ghost.read = mem.ghost.read \cup {t}]
    OBVIOUS
<1>1. mem' = n /\ db.trades[t] # Null
    BY DEF LoadTrade
<1>2. Sound(mem, now)'
    BY LoadTradeKeeps DEF StockInv
<1>3. mem \in Memory /\ mem.ghost \in Ghost /\ n \in Memory
    BY <1>1, <1>2 DEF StockInv, StoreInv, Sound, Typed, Memory
<1>4. /\ n.inv = mem.inv /\ n.queue = mem.queue /\ n.parent = mem.parent
      /\ n.trades = [mem.trades EXCEPT ![t] = row]
      /\ n.ghost.created = mem.ghost.created /\ n.ghost.released = mem.ghost.released
      /\ n.ghost.read = mem.ghost.read \cup {t}
    BY <1>3 DEF Memory, Ghost
<1>5. row # Null
  <2>1. db.trades[t] \in DbTrade
    BY <1>1 DEF StockInv, StoreInv, DbTyped, DbRows
  <2>2. row \in SharedTrade
    BY <2>1, ReadTyped, LockedTyped
  <2> QED
    BY <2>2, NullApart
<1>6. n.trades[t] = row /\ \A u \in TradeIds : u # t => n.trades[u] = mem.trades[u]
    BY <1>3, <1>4 DEF Memory
<1>7. Reloads(mem, n, {t})
    BY <1>4, <1>5, <1>6 DEF Reloads
<1> QED
    BY <1>1, <1>3, <1>7, ReloadsStocked DEF StockInv

LEMMA OfferStocked ==
    ASSUME StockInv, NEW l \in Listings, CreateOffer(l)
    PROVE  Stocked(mem')
<1>1. Sound(mem, now) /\ Stocked(mem)
    BY DEF StockInv, StoreInv
<1>2. Stocked(CreatePeerOffer(mem, l).mem)
    BY <1>1, CreateStocked
<1> QED
    BY <1>2, StockCall DEF CreateOffer

LEMMA TakeStocked ==
    ASSUME StockInv, NEW b \in Buyers, NEW l \in Listings, NEW want \in Requests,
           TakeOffer(b, l, want)
    PROVE  Stocked(mem')
<1>1. PICK draw \in Draws(mem, l) : Perform(TakePeerOffer(mem, now, b, l, want, draw))
    BY DEF TakeOffer
<1>2. /\ now \in Nat /\ want \in Nat \cup {Null} /\ Drawn(mem, l, draw)
      /\ Sound(mem, now) /\ Stocked(mem) /\ mem \in Memory
    BY DrawsDrawn, RequestsAssumption, BoundsAssumption
    DEF StockInv, StoreInv, Counters, Sound, Typed
<1>3. Takes(mem, TakePeerOffer(mem, now, b, l, want, draw), now, b, l, want, draw)
    BY <1>2, TakeTakes
<1>4. Stocked(TakePeerOffer(mem, now, b, l, want, draw).mem)
    BY <1>2, <1>3, TakesStocked
<1> QED
    BY <1>1, <1>4, StockCall

LEMMA ActivateStocked ==
    ASSUME StockInv, NEW b \in Buyers, NEW q \in QueueRefs, ActivateQueue(b, q)
    PROVE  Stocked(mem')
<1>1. PICK draw \in Draws(mem, mem.queue[q].listing) :
            Perform(ActivateQueueEntry(mem, now, b, q, draw))
    BY DEF ActivateQueue
<1>2. /\ now \in Nat /\ mem \in Memory /\ mem.queue[q] # Null
      /\ Drawn(mem, mem.queue[q].listing, draw)
      /\ Sound(mem, now) /\ Stocked(mem)
    BY DrawsDrawn, BoundsAssumption
    DEF StockInv, StoreInv, Counters, Sound, Typed, ActivateQueue
<1>3. Activates(mem, ActivateQueueEntry(mem, now, b, q, draw), now, b, q, draw)
    BY <1>2, ActivateActivates
<1>4. Stocked(ActivateQueueEntry(mem, now, b, q, draw).mem)
    BY <1>2, <1>3, ActivatesStocked
<1> QED
    BY <1>1, <1>4, StockCall

LEMMA StartStocked ==
    ASSUME StockInv, NEW b \in Buyers, NEW t \in TradeIds, StartCheckout(b, t)
    PROVE  Stocked(mem')
<1>1. PICK r \in Pick({x \in TxRefs : mem.attempts[x] = Null}),
           draw \in IF TakesOffer(t) THEN Draws(mem, t) ELSE {<<Null, Null>>} :
            Perform(Checkout(mem, now, b, t, r, draw))
    BY DEF StartCheckout
<1>2. r \in TxRefs /\ mem.attempts[r] = Null
  <2>1. \A free : \A x \in Pick(free) : x \in free
    BY DEF Pick
  <2> QED
    BY <2>1
<1>3. /\ now \in Nat /\ (TakesOffer(t) => Drawn(mem, t, draw))
      /\ Sound(mem, now) /\ Stocked(mem)
    BY DrawsDrawn, BoundsAssumption DEF StockInv, StoreInv, Counters
<1>4. Stocked(Checkout(mem, now, b, t, r, draw).mem)
    BY <1>2, <1>3, CheckoutStocked DEF TakesOffer
<1> QED
    BY <1>1, <1>4, StockCall

LEMMA BuyerStocked ==
    ASSUME StockInv, BuyerStep
    PROVE  Stocked(mem')
<1>1. Sound(mem, now) /\ Stocked(mem)
    BY DEF StockInv, StoreInv
<1>2. ASSUME NEW b \in Buyers, NEW q \in QueueRefs, CancelQueue(b, q) PROVE Stocked(mem')
  <2>1. Stocked(CancelQueueEntry(mem, b, q).mem)
    BY <1>1, CancelQueueStocked
  <2> QED
    BY <1>2, <2>1, StockCall DEF CancelQueue
<1>3. ASSUME NEW b \in Buyers, Guarantee(b) \/ Identify(b) PROVE Stocked(mem')
  <2>1. \A amount \in Backing : Stocked(SubmitGuarantor(mem, b, amount).mem)
    BY <1>1, VouchStocked, BackingAssumption
  <2>2. 0 \in Nat /\ Stocked(VerifyIdentity(mem, b).mem)
    BY <1>1, VouchStocked
  <2> QED
    BY <1>3, <2>1, <2>2, StockCall DEF Guarantee, Identify
<1> QED
    BY <1>2, <1>3, TakeStocked, ActivateStocked, StartStocked DEF BuyerStep

LEMMA PaymentStocked ==
    ASSUME StockInv, PaymentStep
    PROVE  Stocked(mem')
<1>1. now \in Nat /\ mem \in Memory /\ Sound(mem, now) /\ Stocked(mem)
    BY BoundsAssumption DEF StockInv, StoreInv, Counters, Sound, Typed
<1>2. \A r \in TxRefs : mem.attempts[r] # Null => mem.attempts[r].trade \in TradeIds
    BY <1>1 DEF Memory, PaymentAttempt
<1>3. \A c \in charges : c.ref \in TxRefs /\ c.flw \in FlwIds /\ c.amount \in Amounts
    BY DEF StockInv, StoreInv, Counters
<1>4. ASSUME NEW c \in charges, Webhook(c) PROVE Stocked(mem')
  <2>1. mem.attempts[c.ref].trade \in TradeIds
    BY <1>2, <1>3, <1>4 DEF Webhook
  <2>2. Stocked(RecordPayment(mem, now, mem.attempts[c.ref].trade, c.ref, c.flw,
                              c.amount, c.flw).mem)
    BY <1>1, <1>3, <2>1, RecordStocked
  <2> QED
    BY <1>4, <2>2, StockCall DEF Webhook
<1>5. ASSUME NEW r \in TxRefs, VerifyPayment(r) PROVE Stocked(mem')
  <2>1. mem.attempts[r].trade \in TradeIds
    BY <1>2, <1>5 DEF VerifyPayment
  <2>2. ASSUME NEW f \in FlwIds, NEW amount \in Amounts
        PROVE  Stocked(RecordPayment(mem, now, mem.attempts[r].trade, r, f, amount, Null).mem)
    BY <1>1, <2>1, RecordStocked
  <2>3. CASE VerifyReported(r)
    BY <1>3, <2>2, <2>3, StockCall DEF VerifyReported
  <2>4. CASE VerifyAssumed(r)
    BY <2>2, <2>4, StockCall, ReportedAssumption DEF VerifyAssumed
  <2> QED
    BY <1>5, <2>3, <2>4 DEF VerifyPayment
<1>6. ASSUME UNCHANGED mem PROVE Stocked(mem')
    BY <1>1, <1>6
<1> QED
    BY <1>4, <1>5, <1>6 DEF PaymentStep, Pay

LEMMA TradeStocked ==
    ASSUME StockInv, TradeStep
    PROVE  Stocked(mem')
<1> PICK t \in TradeIds :
        \/ \E op \in {"initiate", "confirm", "hold"} : Payout(t, op)
        \/ \E u \in {mem.trades[t].buyer, Seller} \ {Null} : Cancel(u, t)
        \/ Refund(t) \/ AskRelease(t) \/ Hold(t)
        \/ OracleSettles(t) \/ ConfirmSettled(t) \/ UpdateStatus(t) \/ LoadTrade(t)
    BY DEF TradeStep
<1>1. Typed(mem) /\ Sound(mem, now) /\ Stocked(mem)
    BY DEF StockInv, StoreInv, Sound
<1>2. ASSUME NEW op \in {"initiate", "confirm", "hold"}, Payout(t, op) PROVE Stocked(mem')
  <2>1. Stocked(PayoutStep(mem, t, op).mem)
    BY <1>1, PayoutSteps, StepsStocked
  <2> QED
    BY <1>2, <2>1, StockCall DEF Payout
<1>3. ASSUME NEW u, Cancel(u, t) PROVE Stocked(mem')
  <2>1. Stocked(CancelTrade(mem, u, t).mem)
    BY <1>1, CancelStocked
  <2> QED
    BY <1>3, <2>1, StockCall DEF Cancel
<1>4. ASSUME Refund(t) PROVE Stocked(mem')
  <2>1. Stocked(RefundRequest(mem, t).mem)
    BY <1>1, RequestSteps, StepsStocked
  <2>2. Stocked(RefundComplete(mem, t).mem)
    BY <1>1, RefundStocked
  <2> QED
    BY <1>4, <2>1, <2>2, StockCall DEF Refund
<1>5. ASSUME AskRelease(t) \/ Hold(t) PROVE Stocked(mem')
  <2>1. Stocked(RequestRelease(mem, t).mem)
    BY <1>1, RequestSteps, StepsStocked
  <2>2. Stocked(HoldRelease(mem, t).mem)
    BY <1>1, HoldSteps, StepsStocked
  <2> QED
    BY <1>5, <2>1, <2>2, StockCall DEF AskRelease, Hold
<1>6. ASSUME OracleSettles(t) PROVE Stocked(mem')
    BY <1>1, <1>6 DEF OracleSettles
<1>7. ASSUME ConfirmSettled(t) \/ UpdateStatus(t) PROVE Stocked(mem')
  <2>1. Stocked(ConfirmRelease(mem, t).mem)
    BY <1>1, ConfirmStocked
  <2>2. Stocked(CompletePeerTrade(mem, t).mem)
    BY <1>1, CompleteStocked
  <2> QED
    BY <1>7, <2>1, <2>2, StockCall DEF ConfirmSettled, UpdateStatus
<1> QED
    BY <1>2, <1>3, <1>4, <1>5, <1>6, <1>7, LoadTradeStocked

LEMMA ReadStocked ==
    ASSUME StockInv, ReadStep
    PROVE  Stocked(mem')
<1>1. now \in Nat /\ Sound(mem, now) /\ Stocked(mem)
    BY BoundsAssumption DEF StockInv, StoreInv, Counters
<1>2. CASE HydrateListings
    BY <1>2, HydrateListingsStocked
<1>3. CASE Reconcile
  <2>1. Stocked(ReconcileExpired(mem, now).mem)
    BY <1>1, ReconcileStocked
  <2> QED
    BY <1>3, <2>1, StockCall DEF Reconcile
<1>4. ASSUME NEW u \in Buyers \cup {Seller}, HydrateTrades(u) PROVE Stocked(mem')
  <2> PICK read : read = {t \in TradeIds : db.trades[t] # Null
                                  /\ u \in {Seller, db.trades[t].buyer}}
    OBVIOUS
  <2> PICK n : n = [mem EXCEPT
                !.trades = [t \in TradeIds |->
                    IF t \in read THEN ReadTrade(db.trades[t]) ELSE @[t]],
                !.ghost = ReadBack(@, read)]
    OBVIOUS
  <2>1. Perform(Result(n, read, {}, TRUE))
    BY <1>4 DEF HydrateTrades
  <2>2. Stocked(n)
    BY HydrateTradesStocked
  <2>3. Result(n, read, {}, TRUE).mem = n
    BY DEF Result
  <2> QED
    BY <2>1, <2>2, <2>3, StockCall
<1>5. ASSUME NEW l \in Listings, CompleteFromChain(l) PROVE Stocked(mem')
  <2>1. Stocked(CompletePeerTrade(mem, l).mem)
    BY <1>1, Children, CompleteStocked
  <2> QED
    BY <1>5, <2>1, StockCall DEF CompleteFromChain
<1> QED
    BY <1>2, <1>3, <1>4, <1>5 DEF ReadStep

LEMMA WorldStocked ==
    ASSUME StockInv, WorldStep
    PROVE  Stocked(mem')
    BY EmptyStocked DEF StockInv, WorldStep, Tick, Restart

LEMMA AlwaysStock == Spec => []StockInv
<1>1. Init => StockInv
    BY InitInv, EmptyStocked DEF Init, StockInv
<1>2. ASSUME StockInv, [Next]_vars PROVE StockInv'
  <2>1. StoreInv'
    BY <1>2, StepInv DEF StockInv
  <2>2. Stocked(mem')
    <3>1. CASE UNCHANGED vars
      BY <1>2, <3>1 DEF StockInv, vars
    <3>2. CASE Next
      BY <1>2, <3>2, OfferStocked, BuyerStocked, PaymentStocked, TradeStocked,
         ReadStocked, WorldStocked DEF Next
    <3> QED
      BY <1>2, <3>1, <3>2
  <2> QED
    BY <2>1, <2>2 DEF StockInv
<1> QED
    BY <1>1, <1>2, PTL DEF Spec
-----------------------------------------------------------------------------
(* No operation makes or loses units of a listing, whichever buyers take,  *)
(* queue for, leave or complete parts of it, and in whatever order.        *)
THEOREM UnitsNeverLost == Spec => []UnitsConserved
<1>1. ASSUME StockInv, NEW l \in mem.ghost.created
      PROVE  /\ mem.inv[l].avail >= 0 /\ mem.inv[l].alloc >= 0
             /\ mem.inv[l].reserved >= 0 /\ mem.inv[l].filled >= 0
             /\ mem.inv[l].avail + mem.inv[l].alloc + mem.inv[l].reserved
                    + mem.inv[l].filled = mem.inv[l].total
  <2>1. mem \in Memory /\ Balanced(mem, l)
    BY <1>1 DEF StockInv, StoreInv, Sound, Typed, Stocked, Counted
  <2>2. l \in Listings /\ mem.inv[l] \in SellerInventory
    BY <1>1, <2>1 DEF Memory, Ghost, Balanced
  <2> PICK i : i = mem.inv[l]
    OBVIOUS
  <2>3. /\ i.avail \in Nat /\ i.alloc \in Nat /\ i.reserved \in Nat /\ i.filled \in Nat
        /\ i.total = Deposit /\ i.avail + i.alloc + i.reserved + i.filled = Deposit
    BY <2>1, <2>2 DEF Balanced, Buckets, SellerInventory
  <2> QED
    BY <2>3
<1>2. StockInv => UnitsConserved
    BY <1>1 DEF UnitsConserved
<1> QED
    BY <1>2, AlwaysStock, PTL

(* The units a listing keeps in reserve are those of the entries that wait *)
(* for it: an entry that joins, leaves, is served or is refused and put    *)
(* back at the end never parts the two.                                    *)
THEOREM ReservationsBacked == Spec => []ReservedBacksQueue
<1>1. StockInv => ReservedBacksQueue
    BY DEF StockInv, Stocked, Counted, Balanced, ReservedBacksQueue
<1> QED
    BY <1>1, AlwaysStock, PTL

(* The units a listing has allocated are those of the one trade in its     *)
(* slot, which is not over, unless a trade of the listing was read back or *)
(* a part of it gave its units back twice.                                 *)
THEOREM SlotsBacked == Spec => []AllocatedBacksSlot
<1>1. ASSUME StockInv, NEW l \in mem.ghost.created,
             \A t \in TradesOf(l) : Intact(l, t)
      PROVE  Holds(mem, l)
  <2>1. l \in Listings /\ Berthed(mem, l) /\ Family(mem)
    BY <1>1 DEF StockInv, StoreInv, Sound, Typed, Memory, Ghost, Stocked
  <2>2. \A t \in TradeIds : Part(mem, l, t) => mem.trades[t] # Null
    <3>1. l # Null /\ mem.trades[l] # Null
      BY <2>1, NullApart, Children DEF Berthed
    <3>2. \A t \in TradeIds : mem.parent[t] # Null => mem.trades[t] # Null
      BY <2>1 DEF Family
    <3> QED
      BY <3>1, <3>2 DEF Part
  <2>3. \A t \in TradeIds : Part(mem, l, t) => Intact(l, t)
    BY <1>1, <2>2 DEF TradesOf, Part
  <2>4. Whole(mem, l)
    BY <2>3 DEF Whole, Intact
  <2> QED
    BY <2>1, <2>4 DEF Berthed
<1>2. StockInv => AllocatedBacksSlot
    BY <1>1 DEF AllocatedBacksSlot, Holds
<1> QED
    BY <1>2, AlwaysStock, PTL
=============================================================================
