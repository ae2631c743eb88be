---------------------------- MODULE StoreHandlers ----------------------------
(***************************************************************************)
(* The functions of the Next.js trade store (lib/trades/tradeStore.ts).    *)
(* Its state is a dozen Maps of one Node process, and every function that  *)
(* changes them runs to completion without an await: each is an operator   *)
(* from the memory m before the call to a result, the memory after it, the *)
(* rows it handed to the database and whether it threw.  A function that   *)
(* throws half-way keeps what it changed before.                           *)
(*                                                                         *)
(* Ledgers, offers' display fields, audit lists and references that only   *)
(* name a row are projections of what is kept here and are left out, and   *)
(* so are refundState and escrowState: they are written and shown, and no  *)
(* branch of the store reads them.                                         *)
(* m.ghost is history: nothing reads it but the properties.                *)
(***************************************************************************)
EXTENDS Integers, FiniteSets, FiniteSetsExt

CONSTANTS
    Buyers, Seller,  \* wallets; every listing is Seller's
    Listings,        \* ids of listings, which are also ids of their trades
    Suffixes,        \* what takePeerOffer appends to name a child trade
    QueueRefs,       \* references of queue entries
    TxRefs,          \* references of payment attempts
    FlwIds,          \* transaction ids of the payment provider
    Deposit,         \* USDC a listing deposits
    PaymentTimeout,  \* ticks until the payment deadline
    MaxCount,        \* bound on the counters of the trust summary
    Null             \* absent value

ASSUME TimeoutAssumption == PaymentTimeout \in Nat \ {0}
ASSUME DepositAssumption == Deposit \in Nat \ {0}
ASSUME CountAssumption == MaxCount \in Nat \ {0}

TradeIds == Listings \cup (Listings \X Suffixes)

\* The calls a process takes are finitely many, and no child is a listing.
ASSUME FiniteAssumption == IsFiniteSet(TradeIds) /\ IsFiniteSet(QueueRefs)
ASSUME IdsAssumption == Listings \cap (Listings \X Suffixes) = {}

Lifecycle ==
    {"OPEN", "AWAITING_PAYMENT", "PAYMENT_CONFIRMED", "SELLER_PAYOUT_PENDING",
     "SELLER_PAYOUT_CONFIRMED", "RELEASE_PENDING", "COMPLETED",
     "PAYOUT_ON_HOLD", "REFUND_PENDING", "RELEASE_ON_HOLD",
     "LATE_PAYMENT_REVIEW", "CANCELLED", "DISPUTED"}
PaymentStates ==
    {"UNPAID", "CHECKOUT_CREATED", "PENDING_VERIFICATION", "CONFIRMED",
     "LATE_CONFIRMED", "UNDERPAID", "OVERPAID", "FAILED", "EXPIRED"}

(* due is the payment deadline, Null when the row has none.                *)
SharedTrade ==
    [buyer : Buyers \cup {Null}, units : Nat, life : Lifecycle,
     pay : PaymentStates, payout : {"NOT_STARTED", "PROCESSING", "CONFIRMED", "ON_HOLD"},
     due : Nat \cup {Null}, locked : BOOLEAN,
     ref : TxRefs \cup {Null}, flw : FlwIds \cup {Null}]
SellerInventory ==
    [total : Nat, avail : Nat, alloc : Nat, reserved : Nat, filled : Nat,
     slot : TradeIds \cup {Null}]
(* at is the moment of createdAt, by which cancellations sort.             *)
QueueEntry ==
    [listing : Listings, buyer : Buyers, units : Nat, pos : Nat, at : Nat,
     status : {"QUEUED", "ELIGIBLE", "ACTIVE_SLOT", "COMPLETED", "CANCELLED",
               "EXPIRED"},
     trade : TradeIds \cup {Null}]
PaymentAttempt ==
    [trade : TradeIds, buyer : Buyers, expires : Nat, flw : FlwIds \cup {Null},
     status : {"REDIRECT_READY", "VERIFIED", "LATE_VERIFIED", "MISMATCH_HOLD",
               "FAILED", "EXPIRED"}]
TrustSummary ==
    [completed : 0..MaxCount, expiries : 0..MaxCount, streak : 0..MaxCount,
     until : Nat, verified : BOOLEAN, backed : Nat]

ASSUME NullAssumption ==
    Null \notin Buyers \cup {Seller} \cup TradeIds \cup Suffixes \cup QueueRefs
                \cup TxRefs \cup FlwIds \cup Nat
                \cup SharedTrade \cup SellerInventory \cup QueueEntry \cup PaymentAttempt

(* created: listings this process published and has not overwritten since. *)
(* own: trades this process opened under an id it had not used before, in  *)
(* no attempt either, and whose row it has not overwritten since.          *)
(* read: trades whose row was read back from the database.                 *)
Ghost ==
    [created : SUBSET Listings, own : SUBSET TradeIds, read : SUBSET TradeIds,
     released : [TradeIds -> 0..2],
     charged : [TradeIds -> 0..2]]

Memory ==
    [inv : [Listings -> SellerInventory \cup {Null}],
     trades : [TradeIds -> SharedTrade \cup {Null}],
     parent : [TradeIds -> Listings \cup {Null}],
     queue : [QueueRefs -> QueueEntry \cup {Null}],
     attempts : [TxRefs -> PaymentAttempt \cup {Null}],
     consumed : [FlwIds -> TradeIds \cup {Null}], seen : SUBSET FlwIds,
     trust : [Buyers -> TrustSummary],
     ghost : Ghost]

FreshTrust ==
    [completed |-> 0, expiries |-> 0, streak |-> 0, until |-> 0,
     verified |-> FALSE, backed |-> 0]

(* The Maps of a process that just started.                                *)
EmptyMemory ==
    [inv |-> [l \in Listings |-> Null], trades |-> [t \in TradeIds |-> Null],
     parent |-> [t \in TradeIds |-> Null],
     queue |-> [q \in QueueRefs |-> Null],
     attempts |-> [r \in TxRefs |-> Null],
     consumed |-> [f \in FlwIds |-> Null], seen |-> {},
     trust |-> [b \in Buyers |-> FreshTrust],
     ghost |-> [created |-> {}, own |-> {}, read |-> {},
                released |-> [t \in TradeIds |-> 0],
                charged |-> [t \in TradeIds |-> 0]]]

(* What a call leaves: memory, the trades and listings whose rows it sent  *)
(* to the database, and whether it returned normally.                      *)
Result(m, ts, ls, ok) == [mem |-> m, trades |-> ts, listings |-> ls, ok |-> ok]
Throw(m) == Result(m, {}, {}, FALSE)

Upto(n, cap) == IF n < cap THEN n ELSE cap
-----------------------------------------------------------------------------
(* The lifecycle table and the trust summary.                              *)
LegalTransitions(life) ==
    CASE life = "OPEN" -> {"AWAITING_PAYMENT", "CANCELLED"}
      [] life = "AWAITING_PAYMENT" ->
            {"PAYMENT_CONFIRMED", "LATE_PAYMENT_REVIEW", "REFUND_PENDING",
             "CANCELLED", "DISPUTED"}
      [] life = "PAYMENT_CONFIRMED" ->
            {"SELLER_PAYOUT_PENDING", "PAYOUT_ON_HOLD", "REFUND_PENDING", "DISPUTED"}
      [] life = "SELLER_PAYOUT_PENDING" ->
            {"SELLER_PAYOUT_CONFIRMED", "PAYOUT_ON_HOLD", "DISPUTED"}
      [] life = "PAYOUT_ON_HOLD" ->
            {"SELLER_PAYOUT_PENDING", "SELLER_PAYOUT_CONFIRMED",
             "REFUND_PENDING", "DISPUTED"}
      [] life = "SELLER_PAYOUT_CONFIRMED" ->
            {"RELEASE_PENDING", "RELEASE_ON_HOLD", "DISPUTED"}
      [] life = "RELEASE_PENDING" -> {"COMPLETED", "RELEASE_ON_HOLD", "DISPUTED"}
      [] life = "RELEASE_ON_HOLD" -> {"RELEASE_PENDING", "COMPLETED", "DISPUTED"}
      [] life = "LATE_PAYMENT_REVIEW" ->
            {"PAYMENT_CONFIRMED", "REFUND_PENDING", "DISPUTED"}
      [] life = "REFUND_PENDING" -> {"CANCELLED", "DISPUTED"}
      [] life = "DISPUTED" -> {"COMPLETED", "CANCELLED"}
      [] OTHER -> {}

CanTransition(from, to) == from = to \/ to \in LegalTransitions(from)

Waiting(m, l) ==
    {q \in QueueRefs : m.queue[q] # Null /\ m.queue[q].listing = l
                       /\ m.queue[q].status \in {"QUEUED", "ELIGIBLE"}}

UnpaidObligations(m, b) ==
    Cardinality({t \in TradeIds :
        /\ m.trades[t] # Null
        /\ m.trades[t].buyer = b
        /\ m.trades[t].life = "AWAITING_PAYMENT"
        /\ m.trades[t].pay \in {"UNPAID", "CHECKOUT_CREATED", "PENDING_VERIFICATION"}})
    + Cardinality({q \in QueueRefs :
        /\ m.queue[q] # Null
        /\ m.queue[q].buyer = b
        /\ m.queue[q].status \in {"QUEUED", "ELIGIBLE"}})

TrustScore(s) ==
    LET raw == 50 + Upto(12 * s.completed, 240) + (IF s.verified THEN 60 ELSE 0)
                  - 25 * s.expiries - 20 * s.streak
    IN  IF raw < 0 THEN 0 ELSE Upto(raw, 1000)

Tier(s) ==
    CASE s.streak >= 4 \/ TrustScore(s) < 25          -> "RESTRICTED"
      [] s.completed >= 20 /\ TrustScore(s) >= 300    -> "HIGH_LIMIT"
      [] s.completed >= 5 /\ TrustScore(s) >= 140     -> "ESTABLISHED"
      [] s.completed >= 1 /\ TrustScore(s) >= 60      -> "STANDARD"
      [] OTHER                                        -> "NEW"

TierLimit(tier) ==
    CASE tier = "RESTRICTED" -> 50 [] tier = "HIGH_LIMIT" -> 10000
      [] tier = "ESTABLISHED" -> 2500 [] tier = "STANDARD" -> 500 [] OTHER -> 150

MaxTradeUnits(s) ==
    Max({TierLimit(Tier(s)), s.backed, IF s.verified THEN 2500 ELSE 0})

MaxConcurrent(s) ==
    CASE Tier(s) = "HIGH_LIMIT" -> 3 [] Tier(s) = "ESTABLISHED" -> 2 [] OTHER -> 1

SubmitGuarantor(m, b, amount) ==
    Result([m EXCEPT !.trust[b].backed = amount], {}, {}, TRUE)
VerifyIdentity(m, b) ==
    Result([m EXCEPT !.trust[b].verified = TRUE], {}, {}, TRUE)
-----------------------------------------------------------------------------
(* Listings and the buyer queue.                                           *)
OpenTrade(units) ==
    [buyer |-> Null, units |-> units, life |-> "OPEN", pay |-> "UNPAID",
     payout |-> "NOT_STARTED", due |-> Null, locked |-> FALSE, ref |-> Null, flw |-> Null]

(* createPeerOffer overwrites whatever had the id, a retry included.       *)
NewInventory ==
    [total |-> Deposit, avail |-> Deposit, alloc |-> 0,
     reserved |-> 0, filled |-> 0, slot |-> Null]
Published(g, l, new) ==
    [g EXCEPT !.created = IF new THEN @ \cup {l} ELSE @ \ {l}, !.own = @ \ {l}]
CreatePeerOffer(m, l) ==
    Result([m EXCEPT
        !.inv[l] = NewInventory,
        !.trades[l] = OpenTrade(Deposit),
        !.ghost = Published(@, l, m.inv[l] = Null)],
      {l}, {l}, TRUE)

(* The checks takePeerOffer makes before it changes anything.              *)
TakeRefused(m, now, b, l, units) ==
    \/ m.inv[l] = Null \/ m.trades[l] = Null
    \/ m.trust[b].until > now
    \/ UnpaidObligations(m, b) >= MaxConcurrent(m.trust[b])
    \/ units <= 0
    \/ units > m.inv[l].avail
    \/ units > MaxTradeUnits(m.trust[b])

Reserved(i, units) == [i EXCEPT !.avail = @ - units, !.reserved = @ + units]
JoinQueue(m, b, l, units, q) ==
    Result([m EXCEPT
        !.inv[l] = Reserved(@, units),
        !.queue[q] = [listing |-> l, buyer |-> b, units |-> units,
                      pos |-> Cardinality(Waiting(m, l)) + 1,
                      at |-> 1 + Cardinality({p \in QueueRefs : m.queue[p] # Null}),
                      status |-> "QUEUED", trade |-> Null]],
      {}, {}, TRUE)

(* An id this process knows nothing about but an open offer.               *)
Unused(m, t) ==
    /\ m.parent[t] = Null
    /\ m.trades[t] = Null \/ m.trades[t].life = "OPEN"
    /\ \A r \in TxRefs : m.attempts[r] = Null \/ m.attempts[r].trade # t
    /\ m.ghost.charged[t] = 0

(* A partial fill gets an id of its own, a full one the id of the listing. *)
ActiveId(m, l, units, s) ==
    IF units < m.inv[l].total \/ m.inv[l].filled > 0 \/ m.inv[l].reserved > 0
    THEN <<l, s>> ELSE l

Slotted(i, units, t) ==
    [i EXCEPT !.avail = @ - units, !.alloc = @ + units, !.slot = t]
Awaiting(b, units, due) ==
    [OpenTrade(units) EXCEPT
        !.buyer = b, !.life = "AWAITING_PAYMENT", !.due = due, !.locked = TRUE]
Opened(g, t, unused) ==
    [g EXCEPT !.own = IF unused THEN @ \cup {t} ELSE @ \ {t}]
Allocate(m, now, b, l, units, t) ==
    Result([m EXCEPT
        !.inv[l] = Slotted(@, units, t),
        !.parent[t] = l,
        !.trades[t] = Awaiting(b, units, now + PaymentTimeout),
        !.ghost = Opened(@, t, Unused(m, t))],
      {t}, {l}, TRUE)

(* What a call draws: a suffix when the slot is free, else a reference of  *)
(* the queue.  Names not in use are interchangeable.  A suffix is one of   *)
(* 89 numbers and may be in use; a reference is taken from the clock.      *)
Pick(free) == IF free = {} THEN {} ELSE {CHOOSE x \in free : TRUE}
Draws(m, l) ==
    LET unused == {s \in Suffixes : m.trades[<<l, s>>] = Null} IN
    IF m.inv[l] = Null THEN {<<Null, Null>>}
    ELSE IF m.inv[l].slot = Null
    THEN (Pick(unused) \cup (Suffixes \ unused)) \X {Null}
    ELSE {Null} \X Pick({q \in QueueRefs : m.queue[q] = Null})
Redrawn(m, l, draw) == draw[1] # Null /\ m.trades[<<l, draw[1]>>] # Null

(* want is the requested amount, Null when the call asks for all there is. *)
TakePeerOffer(m, now, b, l, want, draw) ==
    LET units == IF want = Null THEN m.inv[l].avail ELSE want IN
    IF m.inv[l] = Null THEN Throw(m)
    ELSE IF TakeRefused(m, now, b, l, units) THEN Throw(m)
    ELSE IF m.inv[l].slot # Null THEN JoinQueue(m, b, l, units, draw[2])
    ELSE Allocate(m, now, b, l, units, ActiveId(m, l, units, draw[1]))

(* The remaining entries are numbered by age; the first may be served when *)
(* nobody holds the slot.                                                  *)
GivenBack(i, units) ==
    IF i # Null /\ i.reserved >= units
    THEN [i EXCEPT !.reserved = @ - units, !.avail = @ + units] ELSE i
Renumbered(m, q) ==
    LET l == m.queue[q].listing
        left == Waiting(m, l) \ {q}
        rank(p) == Cardinality({o \in left : m.queue[o].at <= m.queue[p].at})
        serve(p) == rank(p) = 1 /\ m.inv[l] # Null /\ m.inv[l].slot = Null
    IN  [p \in QueueRefs |->
            CASE p = q -> [m.queue[q] EXCEPT !.status = "CANCELLED"]
              [] p \in left /\ serve(p) ->
                    [m.queue[p] EXCEPT !.pos = 1, !.status = "ELIGIBLE"]
              [] p \in left /\ ~serve(p) -> [m.queue[p] EXCEPT !.pos = rank(p)]
              [] OTHER -> m.queue[p]]
CancelQueueEntry(m, b, q) ==
    LET e == m.queue[q] IN
    IF e = Null THEN Throw(m)
    ELSE IF e.buyer # b \/ e.status \notin {"QUEUED", "ELIGIBLE"} THEN Throw(m)
    ELSE Result([m EXCEPT
            !.inv[e.listing] = GivenBack(@, e.units),
            !.queue = Renumbered(m, q)],
          {}, {}, TRUE)

\* Mutant: the units come back and stay reserved.
StillReserved(i, units) == [i EXCEPT !.avail = @ + units]
Unreserved(i, units) ==
    [i EXCEPT !.reserved = Max({0, @ - units}), !.avail = @ + units]

(* The reservation is given back and the entry marked before the offer is  *)
(* taken again, and the take may refuse: then both stay.                   *)
Served(m, q) ==
    [m EXCEPT !.inv[m.queue[q].listing] = Unreserved(@, m.queue[q].units),
              !.queue[q] = [@ EXCEPT !.status = "ACTIVE_SLOT"]]
InSlot(e, t) == [e EXCEPT !.trade = t, !.pos = 0]
Seated(m, q, l) == [m EXCEPT !.queue[q] = InSlot(@, m.inv[l].slot)]
ActivateQueueEntry(m, now, b, q, draw) ==
    LET e == m.queue[q]
        l == e.listing
        taken == TakePeerOffer(Served(m, q), now, b, l, e.units, draw)
    IN  IF e = Null THEN Throw(m)
        ELSE IF \/ e.buyer # b
                \/ e.status # "ELIGIBLE" /\ ~(e.status = "QUEUED" /\ e.pos = 1)
                \/ m.inv[l] = Null \/ m.trades[l] = Null
                \/ m.inv[l].slot # Null
        THEN Throw(m)
        ELSE IF ~taken.ok THEN taken
        ELSE Result(Seated(taken.mem, q, l), taken.trades, taken.listings, TRUE)

(* Units leave the slot once: a second release finds too few allocated.    *)
\* Mutants: nobody looks, the fill is counted all the same, the slot stays.
Unchecked(i, units) == TRUE
Moved(i, units) == i.alloc >= units
FilledAnyway(i, units, completed) == IF completed THEN i.filled + units ELSE i.filled
FilledAfter(i, units, completed) ==
    IF Moved(i, units) /\ completed THEN i.filled + units ELSE i.filled
SlotKept(slot, t) == slot
SlotAfter(slot, t) == IF slot = t THEN Null ELSE slot

(* The listing whose slot a trade takes: its parent, or itself.            *)
Keeper(m, t) == IF m.parent[t] # Null THEN m.parent[t] ELSE t

(* releaseSellerSlotAndAdvanceQueue: the units leave the slot, the entry   *)
(* they came from closes and the next queued buyer becomes eligible.       *)
Emptied(i, t, units, completed) ==
    [i EXCEPT
        !.alloc = IF Moved(i, units) THEN @ - units ELSE @,
        !.filled = FilledAfter(i, units, completed),
        !.avail = IF Moved(i, units) /\ ~completed THEN @ + units ELSE @,
        !.slot = SlotAfter(@, t)]
Advanced(queue, l, t, completed) ==
    LET queued == {q \in QueueRefs : queue[q] # Null /\ queue[q].listing = l
                                     /\ queue[q].status = "QUEUED"}
        first(q) == \A p \in queued : queue[q].pos <= queue[p].pos
                                      /\ (queue[q].pos = queue[p].pos =>
                                          queue[q].at <= queue[p].at)
    IN  [q \in QueueRefs |->
            IF queue[q] = Null THEN Null
            ELSE IF queue[q].trade = t /\ queue[q].status = "ACTIVE_SLOT"
            THEN [queue[q] EXCEPT !.status = IF completed THEN "COMPLETED" ELSE "EXPIRED"]
            ELSE IF q \in queued /\ first(q)
            THEN [queue[q] EXCEPT !.status = "ELIGIBLE", !.pos = 1]
            ELSE queue[q]]
ReleaseSlot(m, t, completed) ==
    LET l == Keeper(m, t) IN
    IF l \notin Listings THEN m
    ELSE IF m.inv[l] = Null THEN m
    ELSE [m EXCEPT
            !.inv[l] = Emptied(@, t, m.trades[t].units, completed),
            !.queue = Advanced(@, l, t, completed),
            !.ghost.released[t] = Upto(@ + 1, 2)]

ReleasedListing(m, t) ==
    IF Keeper(m, t) \in Listings
    THEN (IF m.inv[Keeper(m, t)] # Null THEN {Keeper(m, t)} ELSE {}) ELSE {}
=============================================================================
