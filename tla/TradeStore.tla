----------------------------- MODULE TradeStore -----------------------------
(***************************************************************************)
(* The Next.js trade store at work: one Node process whose memory is the   *)
(* authority while it lives, the Supabase tables it copies rows to and     *)
(* reads back on every dashboard request, the payment provider, and the    *)
(* oracle that pays out on chain.                                          *)
(*                                                                         *)
(* A route handler is one action from one await to the next.  The tables   *)
(* refuse what their trigger and CHECK refuse, which the store does not    *)
(* learn; a row they accept is there at once.                              *)
(***************************************************************************)
EXTENDS StoreSettlement

CONSTANTS
    Requests,       \* amounts buyers ask for; Null asks for all there is
    Backing,        \* amounts guarantors vouch for
    Vouched,        \* buyers who may be verified or find a guarantor
    Reported,       \* what payments amount to, of Amounts
    MaxTime, MaxCharges,
    MaxEvents       \* restarts, dashboard reads, releases, guarantors,
                    \* payments verified without the provider, listings published again,
                    \* ids drawn again, and calls that no state of a trade refuses

ASSUME RequestsAssumption == Requests \subseteq Nat \cup {Null}
ASSUME BackingAssumption == Backing \subseteq Nat
ASSUME ReportedAssumption == Reported \subseteq Amounts
ASSUME BoundsAssumption ==
    {MaxTime, MaxCharges, MaxEvents} \subseteq Nat

VARIABLES
    mem,       \* the Maps of the process
    db,        \* rows of public.trades and public.seller_listings
    now,       \* the clock, in ticks
    charges,   \* payments the provider has settled
    paidOut,   \* how often the oracle paid a trade's USDC out
    events     \* how much of MaxEvents is used

vars == <<mem, db, now, charges, paidOut, events>>
-----------------------------------------------------------------------------
(* Rows of the database.  A row of a trade has no attempt and no           *)
(* transaction: those live in memory only.                                 *)
TradeRow(x) ==
    [buyer |-> x.buyer, units |-> x.units, life |-> x.life, pay |-> x.pay,
     payout |-> x.payout, due |-> x.due, locked |-> x.locked]
ListingRow(i) ==
    [total |-> i.total, avail |-> i.avail, alloc |-> i.alloc,
     reserved |-> i.reserved, filled |-> i.filled,
     status |-> IF i.avail > 0 THEN "ACTIVE" ELSE "DEPLETED"]

(* enforce_trade_invariants: locked terms do not change, and neither does  *)
(* the lifecycle but along the table; a disputed trade stays.              *)
TradeAccepted(old, new) ==
    \/ old = Null
    \/ /\ old.locked => new.locked /\ new.buyer = old.buyer /\ new.units = old.units
       /\ \/ new.life = old.life
          \/ old.life # "DISPUTED" /\ new.life \in LegalTransitions(old.life)
(* seller_listings_inventory_conservation_chk.                             *)
ListingAccepted(old, row) ==
    row.avail + row.alloc + row.reserved + row.filled <= row.total

(* A call of the store inside a handler, and the rows it sends.            *)
Sent(old, row, accepted) == IF accepted THEN row ELSE old
Perform(res) ==
    /\ mem' = res.mem
    /\ db' = [trades |-> [t \in TradeIds |->
                IF t \notin res.trades THEN db.trades[t]
                ELSE LET row == TradeRow(res.mem.trades[t]) IN
                     Sent(db.trades[t], row, TradeAccepted(db.trades[t], row))],
              listings |-> [l \in Listings |->
                IF l \notin res.listings THEN db.listings[l]
                ELSE LET row == ListingRow(res.mem.inv[l]) IN
                     Sent(db.listings[l], row, ListingAccepted(db.listings[l], row))]]

Event == events < MaxEvents /\ events' = events + 1
Quiet == UNCHANGED <<now, charges, paidOut, events>>
Forced == Event /\ UNCHANGED <<now, charges, paidOut>>
-----------------------------------------------------------------------------
Init ==
    /\ mem = EmptyMemory
    /\ db = [trades |-> [t \in TradeIds |-> Null],
             listings |-> [l \in Listings |-> Null]]
    /\ now = 0 /\ charges = {}
    /\ paidOut = [t \in TradeIds |-> 0]
    /\ events = 0

(* POST /api/user/dashboard.                                               *)
CreateOffer(l) ==
    /\ \/ Event
       \/ mem.inv[l] = Null /\ db.listings[l] = Null /\ UNCHANGED events
    /\ Perform(CreatePeerOffer(mem, l))
    /\ UNCHANGED <<now, charges, paidOut>>

(* An id drawn that is in use counts as an event.                           *)
Draw(l, draw) ==
    /\ IF Redrawn(mem, l, draw) THEN Event ELSE UNCHANGED events
TakeOffer(b, l, want) ==
    /\ \E draw \in Draws(mem, l) :
        Draw(l, draw) /\ Perform(TakePeerOffer(mem, now, b, l, want, draw))
    /\ UNCHANGED <<now, charges, paidOut>>

CancelQueue(b, q) == Perform(CancelQueueEntry(mem, b, q)) /\ Quiet

ActivateQueue(b, q) ==
    /\ mem.queue[q] # Null
    /\ \E draw \in Draws(mem, mem.queue[q].listing) :
        /\ Draw(mem.queue[q].listing, draw)
        /\ Perform(ActivateQueueEntry(mem, now, b, q, draw))
    /\ UNCHANGED <<now, charges, paidOut>>

Guarantee(b) == (\E amount \in Backing : Perform(SubmitGuarantor(mem, b, amount))) /\ Forced
Identify(b) == Perform(VerifyIdentity(mem, b)) /\ Forced

(* "update_status" completes the trade it is told to.                      *)
UpdateStatus(t) == Perform(CompletePeerTrade(mem, t)) /\ Forced

(* POST .../flutterwave/checkout: the trade is read from the database when  *)
(* memory does not know it, then the attempt is created or reused.         *)
TakesOffer(t) ==
    t \in Listings /\ mem.trades[t] # Null /\ mem.trades[t].life = "OPEN"
StartCheckout(b, t) ==
    /\ \E r \in Pick({x \in TxRefs : mem.attempts[x] = Null}),
          draw \in IF TakesOffer(t) THEN Draws(mem, t) ELSE {<<Null, Null>>} :
        /\ IF TakesOffer(t) THEN Draw(t, draw) ELSE UNCHANGED events
        /\ Perform(Checkout(mem, now, b, t, r, draw))
    /\ UNCHANGED <<now, charges, paidOut>>

(* A buyer pays at the provider: one charge for one attempt's reference.   *)
Pay(r, f, amount) ==
    /\ mem.attempts[r] # Null
    /\ Cardinality(charges) < MaxCharges
    /\ \A c \in charges : c.flw # f
    /\ charges' = charges \cup {[ref |-> r, flw |-> f, amount |-> amount]}
    /\ UNCHANGED <<mem, db, now, paidOut, events>>

(* POST .../flutterwave/webhook: the provider reports a charge, as often as *)
(* it likes.  A reference this process never issued is ignored.            *)
Webhook(c) ==
    /\ mem.attempts[c.ref] # Null
    /\ Perform(RecordPayment(mem, now, mem.attempts[c.ref].trade, c.ref, c.flw,
                             c.amount, c.flw))
    /\ Quiet

(* POST .../flutterwave/verify: the provider is asked about the reference.  *)
VerifyReported(r) ==
    /\ \E c \in charges :
        /\ c.ref = r
        /\ Perform(RecordPayment(mem, now, mem.attempts[r].trade, r, c.flw, c.amount, Null))
    /\ UNCHANGED events
(* When it does not answer, or answers that there is no such payment, the  *)
(* amount the attempt expects, or the one the caller gives, is recorded.   *)
VerifyAssumed(r) ==
    /\ \E f \in FlwIds, amount \in Reported :
        Perform(RecordPayment(mem, now, mem.attempts[r].trade, r, f, amount, Null))
    /\ Event
VerifyPayment(r) ==
    /\ mem.attempts[r] # Null
    /\ VerifyReported(r) \/ VerifyAssumed(r)
    /\ UNCHANGED <<now, charges, paidOut>>
-----------------------------------------------------------------------------
(* POST /api/trades/[tradeId]/lifecycle.                                   *)
Payout(t, op) == Perform(PayoutStep(mem, t, op)) /\ Quiet
Refund(t) ==
    (Perform(RefundRequest(mem, t)) \/ Perform(RefundComplete(mem, t))) /\ Quiet
AskRelease(t) == Perform(RequestRelease(mem, t)) /\ Quiet
Hold(t) == Perform(HoldRelease(mem, t)) /\ Forced
Cancel(u, t) == Perform(CancelTrade(mem, u, t)) /\ Quiet
Reconcile == Perform(ReconcileExpired(mem, now)) /\ Quiet

(* escrow_confirm_on_chain without a hash: the oracle is asked to pay       *)
(* before the store is asked whether the trade may be completed.           *)
OracleSettles(t) ==
    /\ mem.trades[t] # Null
    /\ Event
    /\ paidOut' = [paidOut EXCEPT ![t] = Upto(@ + 1, 2)]
    /\ UNCHANGED <<mem, db, now, charges>>
(* What the request does next; also all that it does when it carries a      *)
(* hash, or when the oracle failed and a hash is made up.                  *)
ConfirmSettled(t) == Perform(ConfirmRelease(mem, t)) /\ Quiet
-----------------------------------------------------------------------------
(* GET /api/user/dashboard reads the tables, each read an await.  A row    *)
(* read replaces the one in memory, newer or not.                          *)
ReadTrade(row) ==
    [buyer |-> row.buyer, units |-> row.units, life |-> row.life,
     pay |-> row.pay, payout |-> row.payout,
     due |-> row.due, locked |-> row.locked,
     ref |-> Null, flw |-> Null]

(* hydrateListingsFromSupabase: depleted listings are not read, and the    *)
(* slot is not a column.                                                   *)
HydrateListings ==
    LET read == {l \in Listings : db.listings[l] # Null
                                  /\ db.listings[l].status # "DEPLETED"} IN
    /\ Event
    /\ mem' = [mem EXCEPT
        !.inv = [l \in Listings |->
            IF l \notin read THEN @[l]
            ELSE LET row == db.listings[l] IN
                 [total |-> row.total, avail |-> row.avail, alloc |-> row.alloc,
                  reserved |-> row.reserved, filled |-> row.filled, slot |-> Null]],
        !.trades = [t \in TradeIds |->
            IF t \in read /\ @[t] = Null
            THEN OpenTrade(db.listings[t].total)
            ELSE @[t]],
        !.ghost.created = @ \ read]
    /\ UNCHANGED <<db, now, charges, paidOut>>

ReadBack(g, read) == [g EXCEPT !.own = @ \ read, !.read = @ \cup read]
(* hydrateUserTradesFromSupabase reads the user's trades and sends each    *)
(* row back.                                                               *)
HydrateTrades(u) ==
    LET read == {t \in TradeIds : db.trades[t] # Null
                                  /\ u \in {Seller, db.trades[t].buyer}}
        m == [mem EXCEPT
                !.trades = [t \in TradeIds |->
                    IF t \in read THEN ReadTrade(db.trades[t]) ELSE @[t]],
                !.ghost = ReadBack(@, read)]
    IN  /\ Event
        /\ Perform(Result(m, read, {}, TRUE))
        /\ UNCHANGED <<now, charges, paidOut>>

(* getSharedTrade finds a trade by its id, a listing's by its slot and a   *)
(* child's by its parent.                                                  *)
Known(t) ==
    \/ mem.trades[t] # Null
    \/ mem.parent[t] # Null /\ mem.trades[mem.parent[t]] # Null
(* getOrHydrateSharedTrade reads a row of a trade nobody here knows, and   *)
(* takes it without its deadline.                                          *)
LoadTrade(t) ==
    /\ ~Known(t) /\ db.trades[t] # Null
    /\ mem' = [mem EXCEPT
                !.trades[t] = [ReadTrade(db.trades[t]) EXCEPT !.due = Null, !.locked = TRUE],
                !.ghost.read = @ \cup {t}]
    /\ UNCHANGED <<db, now, charges, paidOut, events>>

(* A trade the chain calls completed is completed here, at every request.  *)
CompleteFromChain(l) ==
    /\ \E t \in TradeIds : paidOut[t] > 0 /\ (t = l \/ mem.parent[t] = l)
    /\ Perform(CompletePeerTrade(mem, l))
    /\ Quiet
-----------------------------------------------------------------------------
(* The database, the clock and the process.                                *)
Tick ==
    /\ now < MaxTime
    /\ now' = now + 1
    /\ UNCHANGED <<mem, db, charges, paidOut, events>>
Restart ==
    /\ Event
    /\ mem' = EmptyMemory
    /\ UNCHANGED <<db, now, charges, paidOut>>

BuyerStep ==
    \E b \in Buyers :
        \/ \E l \in Listings, want \in Requests : TakeOffer(b, l, want)
        \/ \E q \in QueueRefs : CancelQueue(b, q) \/ ActivateQueue(b, q)
        \/ \E t \in TradeIds : StartCheckout(b, t)
        \/ b \in Vouched /\ (Guarantee(b) \/ Identify(b))
PaymentStep ==
    \/ \E r \in TxRefs, f \in FlwIds, amount \in Reported : Pay(r, f, amount)
    \/ \E c \in charges : Webhook(c)
    \/ \E r \in TxRefs : VerifyPayment(r)
(* A call for a trade that memory does not hold changes nothing.           *)
TradeStep ==
    \E t \in TradeIds :
        \/ /\ mem.trades[t] # Null
           /\ \/ \E op \in {"initiate", "confirm", "hold"} : Payout(t, op)
              \/ \E u \in {mem.trades[t].buyer, Seller} \ {Null} : Cancel(u, t)
              \/ Refund(t) \/ AskRelease(t) \/ Hold(t)
              \/ OracleSettles(t) \/ ConfirmSettled(t) \/ UpdateStatus(t)
        \/ LoadTrade(t)
ReadStep ==
    \/ HydrateListings \/ Reconcile
    \/ \E u \in Buyers \cup {Seller} : HydrateTrades(u)
    \/ \E l \in Listings : CompleteFromChain(l)
WorldStep ==
    \/ Tick \/ Restart

Next ==
    \/ \E l \in Listings : CreateOffer(l)
    \/ BuyerStep \/ PaymentStep \/ TradeStep \/ ReadStep \/ WorldStep

Spec == Init /\ [][Next]_vars
=============================================================================
