--------------------------- MODULE StoreSettlement ---------------------------
(***************************************************************************)
(* The trade store's functions on one trade: checkout attempts, payments   *)
(* the provider reports, seller payouts, refunds, the release of escrow,   *)
(* expiry and cancellation.  Amounts are compared with what the attempt    *)
(* expects: "exact", "under", "over" or, in another currency, "currency".  *)
(***************************************************************************)
EXTENDS StoreHandlers

Amounts == {"exact", "under", "over", "currency"}

(* syncBothUserLedgers ends every change of a trade: its row is sent to    *)
(* the database.  ls are listings whose row was sent as well.              *)
Synced(m, t, ls) == Result(m, {t}, ls, TRUE)

OpenAttempt(m, now, r) ==
    /\ m.attempts[r] # Null
    /\ m.attempts[r].expires > now
    /\ m.attempts[r].status = "REDIRECT_READY"

(* An attempt that is still open is handed out again.                      *)
\* Mutant: every checkout opens an attempt of its own.
AlwaysNew(m, now, row) == FALSE
Reusable(m, now, row) == row.ref # Null /\ OpenAttempt(m, now, row.ref)

(* createOrReuseCheckoutAttempt.  The caller becomes the row's buyer before *)
(* anything else is checked.  On an open listing it takes the offer, then  *)
(* looks at the row it read before: that one is still open, so it throws.  *)
Checkout(m, now, b, t, r, draw) ==
    LET row == m.trades[t]
        m1 == [m EXCEPT !.trades[t].buyer = b]
        took == TakePeerOffer(m1, now, b, t, Null, draw)
        due == IF row.due = Null THEN now + PaymentTimeout ELSE row.due
        m2 == [m1 EXCEPT !.trades[t] = [@ EXCEPT !.due = due, !.locked = TRUE]]
    IN  IF row = Null THEN Throw(m)
        ELSE IF row.buyer \notin {b, Null} THEN Throw(m)
        ELSE IF row.life = "OPEN" THEN [took EXCEPT !.ok = FALSE]
        ELSE IF row.life # "AWAITING_PAYMENT" \/ now >= due THEN Throw(m1)
        ELSE IF Reusable(m, now, row)
        THEN Result(m2, {}, {}, TRUE)
        ELSE Synced([m2 EXCEPT
                !.attempts[r] = [trade |-> t, buyer |-> b, expires |-> due,
                                 flw |-> Null, status |-> "REDIRECT_READY"],
                !.trades[t] = [@ EXCEPT !.ref = r, !.pay = "CHECKOUT_CREATED"]], t, {})

(* What a reported amount does to the attempt and to the trade.  The state *)
(* the trade is in is not looked at.                                       *)
Verified(m, now, t, r, amount) ==
    CASE amount \in {"under", "over"} -> "MISMATCH_HOLD"
      [] amount \notin {"under", "over"}
         /\ ((m.trades[t].due # Null /\ now > m.trades[t].due)
             \/ now > m.attempts[r].expires) -> "LATE_VERIFIED"
      [] OTHER -> "VERIFIED"
PaidRow(row, f, status, amount) ==
    [row EXCEPT
        !.flw = f,
        !.pay = CASE amount = "under" -> "UNDERPAID"
                  [] amount = "over"  -> "OVERPAID"
                  [] amount \notin {"under", "over"} /\ status = "LATE_VERIFIED"
                        -> "LATE_CONFIRMED"
                  [] OTHER -> "CONFIRMED",
        !.life = CASE amount # "exact" -> @
                   [] amount = "exact" /\ status = "LATE_VERIFIED"
                        -> "LATE_PAYMENT_REVIEW"
                   [] OTHER -> "PAYMENT_CONFIRMED"]
Credited(m, now, t, r, f, amount) ==
    LET status == Verified(m, now, t, r, amount) IN
    [m EXCEPT
        !.consumed[f] = t,
        !.attempts[r] = [@ EXCEPT !.flw = f, !.status = status],
        !.trades[t] = PaidRow(@, f, status, amount)]

\* Mutant: consumedTransactionIds is not asked.
NotAsked(m, t, f) == FALSE
ConsumedElsewhere(m, t, f) == m.consumed[f] \notin {Null, t}

(* recordVerifiedFlutterwavePayment.  event is the webhook's event id, Null *)
(* for the verify call: it is remembered before anything is checked.       *)
RecordPayment(m, now, t, r, f, amount, event) ==
    LET m1 == [m EXCEPT !.seen = IF event = Null THEN @ ELSE @ \cup {event}] IN
    IF event # Null /\ event \in m.seen /\ m.trades[t] # Null /\ m.attempts[r] # Null
    THEN Result(m, {}, {}, TRUE)
    ELSE IF m.attempts[r] = Null THEN Throw(m1)
    ELSE IF m.attempts[r].trade # t \/ ConsumedElsewhere(m, t, f)
            \/ m.trades[t] = Null THEN Throw(m1)
    ELSE IF /\ m.attempts[r].status = "VERIFIED"
            /\ m.trades[t].pay = "CONFIRMED"
            /\ m.attempts[r].flw = f
    THEN Result(m1, {}, {}, TRUE)
    ELSE IF amount = "currency"
    THEN [Synced([m1 EXCEPT !.attempts[r].status = "MISMATCH_HOLD",
                            !.trades[t].pay = "FAILED"], t, {}) EXCEPT !.ok = FALSE]
    ELSE Synced(Credited(m1, now, t, r, f, amount), t, {})
-----------------------------------------------------------------------------
(* transitionSellerPayoutState.                                            *)
PayoutStep(m, t, op) ==
    LET row == m.trades[t]
        from == IF op = "confirm" /\ row.life = "PAYMENT_CONFIRMED"
                THEN "SELLER_PAYOUT_PENDING" ELSE row.life
        to == CASE op = "initiate" -> "SELLER_PAYOUT_PENDING"
                [] op = "confirm"  -> "SELLER_PAYOUT_CONFIRMED"
                [] op = "hold"     -> "PAYOUT_ON_HOLD"
        payout == CASE op = "initiate" -> "PROCESSING"
                    [] op = "confirm"  -> "CONFIRMED"
                    [] op = "hold"     -> "ON_HOLD"
    IN  IF row = Null THEN Throw(m)
        ELSE IF row.pay # "CONFIRMED" \/ ~CanTransition(from, to) THEN Throw(m)
        ELSE Synced([m EXCEPT !.trades[t].life = to,
                              !.trades[t].payout = payout], t, {})

(* transitionTradeRefundState.                                             *)
RefundRequest(m, t) ==
    IF m.trades[t] = Null THEN Throw(m)
    ELSE IF ~CanTransition(m.trades[t].life, "REFUND_PENDING") THEN Throw(m)
    ELSE Synced([m EXCEPT !.trades[t].life = "REFUND_PENDING"], t, {})
RefundComplete(m, t) ==
    IF m.trades[t] = Null THEN Throw(m)
    ELSE IF m.trades[t].life # "REFUND_PENDING" THEN Throw(m)
    ELSE Synced(ReleaseSlot([m EXCEPT !.trades[t].life = "CANCELLED"], t, FALSE),
                t, ReleasedListing(m, t))

(* completePeerTrade asks nothing: any trade that exists is completed and  *)
(* its buyer credited.                                                     *)
Finished(row) ==
    [row EXCEPT !.life = "COMPLETED", !.pay = "CONFIRMED", !.payout = "CONFIRMED"]
Rewarded(s) == [s EXCEPT !.completed = Upto(@ + 1, MaxCount), !.streak = 0]
CompletePeerTrade(m, t) ==
    LET buyer == m.trades[t].buyer
        done == ReleaseSlot([m EXCEPT !.trades[t] = Finished(@)], t, TRUE)
    IN  IF m.trades[t] = Null THEN Result(m, {}, {}, TRUE)
        ELSE Synced(IF buyer = Null THEN done
                    ELSE [done EXCEPT !.trust[buyer] = Rewarded(@)],
                    t, ReleasedListing(m, t))

(* transitionEscrowReleaseState.  A hold is accepted in every state.       *)
RequestRelease(m, t) ==
    IF m.trades[t] = Null THEN Throw(m)
    ELSE IF \/ m.trades[t].pay # "CONFIRMED" \/ m.trades[t].payout # "CONFIRMED"
            \/ ~CanTransition(m.trades[t].life, "RELEASE_PENDING") THEN Throw(m)
    ELSE Synced([m EXCEPT !.trades[t].life = "RELEASE_PENDING"], t, {})
CanConfirmRelease(m, t) ==
    m.trades[t] # Null
    /\ m.trades[t].life \in {"RELEASE_PENDING", "RELEASE_ON_HOLD",
                             "SELLER_PAYOUT_CONFIRMED"}
ConfirmRelease(m, t) ==
    IF CanConfirmRelease(m, t) THEN CompletePeerTrade(m, t) ELSE Throw(m)
HoldRelease(m, t) ==
    IF m.trades[t] = Null THEN Throw(m)
    ELSE Synced([m EXCEPT !.trades[t].life = "RELEASE_ON_HOLD"], t, {})
-----------------------------------------------------------------------------
(* reconcileExpiredTrades, for one trade: an unpaid trade past its deadline *)
(* is cancelled and its buyer charged with the expiry.                     *)
\* Mutant: the lifecycle is not looked at.
PastDue(m, now, t) ==
    m.trades[t] # Null /\ m.trades[t].due # Null /\ now > m.trades[t].due
Expired(m, now, t) ==
    /\ m.trades[t] # Null
    /\ m.trades[t].life = "AWAITING_PAYMENT"
    /\ m.trades[t].due # Null
    /\ now > m.trades[t].due
    /\ m.trades[t].pay \notin {"PENDING_VERIFICATION", "CONFIRMED",
                               "LATE_CONFIRMED", "UNDERPAID", "OVERPAID"}

Closed(m, t, pay, attempt) ==
    [m EXCEPT
        !.trades[t] = [@ EXCEPT !.life = "CANCELLED", !.pay = pay],
        !.attempts = [r \in TxRefs |->
            IF r = m.trades[t].ref /\ @[r] # Null
            THEN [@[r] EXCEPT !.status = attempt] ELSE @[r]]]

(* The first cooldown is shorter than a payment deadline; it is one tick.  *)
Penalised(s, now) ==
    [s EXCEPT !.expiries = Upto(@ + 1, MaxCount),
              !.streak = Upto(@ + 1, MaxCount), !.until = now + 1]
Charge(m, now, t) ==
    LET b == m.trades[t].buyer IN
    IF b = Null THEN m
    ELSE [m EXCEPT !.trust[b] = Penalised(@, now),
                   !.ghost.charged[t] = Upto(@ + 1, 2)]

ExpireTrade(m, now, t) ==
    Charge(ReleaseSlot(Closed(m, t, "EXPIRED", "EXPIRED"), t, FALSE), now, t)

(* The pass goes over the whole Map; closing one trade expires no other.   *)
ReconcileExpired(m, now) ==
    LET due == {t \in TradeIds : Expired(m, now, t)}
        step(t, acc) == ExpireTrade(acc, now, t)
    IN  Result(FoldSet(step, m, due), due,
               UNION {ReleasedListing(m, t) : t \in due}, TRUE)

(* cancelPeerTradeUser, by the buyer of the row or by the seller.          *)
CancelTrade(m, u, t) ==
    LET row == m.trades[t] IN
    IF row = Null THEN Throw(m)
    ELSE IF \/ u \notin {row.buyer, Seller}
            \/ row.pay \in {"PENDING_VERIFICATION", "CONFIRMED", "LATE_CONFIRMED"}
            \/ row.life = "COMPLETED" THEN Throw(m)
    ELSE IF row.life = "CANCELLED" THEN Result(m, {}, {}, TRUE)
    ELSE Synced(ReleaseSlot(Closed(m, t, "FAILED", "FAILED"), t, FALSE),
                t, ReleasedListing(m, t))
=============================================================================
