-------------------------- MODULE TradeProperties --------------------------
(***************************************************************************)
(* What TradeLifecycle is checked for: invariants and action properties,   *)
(* the fairness of the service and liveness under it, and the refinement   *)
(* of SettlementPromise.  The last section states claims of the            *)
(* repository's documentation and tests that the code does not keep.       *)
(***************************************************************************)
EXTENDS TradeLifecycle

(* x is a payment of the full price of t that the service has verified.     *)
PaysFor(x, t) ==
    /\ consumed[x] = t
    /\ prov[x].amt = "exact"
    /\ "successful" \in prov[x].hist
    /\ att[prov[x].ref].trade = t

Paid(t) == \E x \in TxIds : PaysFor(x, t)

AfterPayment ==
    {"PAYMENT_CONFIRMED", "SELLER_PAYOUT_PENDING", "SELLER_PAYOUT_CONFIRMED",
     "PAYOUT_ON_HOLD", "RELEASE_PENDING", "RELEASE_ON_HOLD", "COMPLETED",
     "LATE_PAYMENT_REVIEW"}

AfterPayout ==
    {"SELLER_PAYOUT_CONFIRMED", "RELEASE_PENDING", "RELEASE_ON_HOLD", "COMPLETED"}

-----------------------------------------------------------------------------
(* Invariants.                                                              *)

(* The rows and handlers refer to rows that exist: an active checkout to an *)
(* attempt of its trade, a transaction to an attempt, a handler to the      *)
(* attempt and to an answer the provider gave.  A checkout is persisted     *)
(* before the provider is called, so no webhook can find it missing.        *)
Linked ==
    /\ \A t \in Trades :
          active[t] # NoRef => att[active[t]].status # "NONE"
                               /\ att[active[t]].trade = t
    /\ \A a \in Attempts :
          (a \in calls \/ att[a].url) => att[a].status # "NONE"
    /\ \A a \in Attempts :
          att[a].status # "NONE" => att[a].trade \in Trades
    /\ \A x \in TxIds :
          prov[x].hist # {} => prov[x].ref \in Attempts
                               /\ att[prov[x].ref].status # "NONE"
    /\ \A w \in Workers :
          worker[w].pc # "idle" =>
              /\ worker[w].tx \in TxIds
              /\ worker[w].st \in prov[worker[w].tx].hist
              /\ worker[w].ref \in Attempts
              /\ att[worker[w].ref].status # "NONE"

(* A trade is in a state that follows payment only when a transaction of    *)
(* its own attempt, successful at the provider and of the exact amount, was *)
(* consumed for it: no order of webhooks, verification calls and callers of *)
(* the payout and release routes gets a trade past payment without one.     *)
PaidBeforeSettlement ==
    \A t \in Trades : trade[t].life \in AfterPayment => Paid(t)

(* The seller's payout and the buyer's refund exclude each other: payout is *)
(* CONFIRMED exactly in the states that lead to release, a refund requested *)
(* or settled is found only in states from which no payout is reached, and  *)
(* custody is recorded as released exactly when the trade completed.  Also  *)
(* covers the hold and confirm routes, which do not check eligibility.      *)
PayoutOrRefund ==
    \A t \in Trades :
        /\ trade[t].payout = "CONFIRMED" <=> trade[t].life \in AfterPayout
        /\ trade[t].refund # "NONE" =>
               trade[t].life \in {"REFUND_PENDING", "CANCELLED", "LATE_PAYMENT_REVIEW"}
        /\ trade[t].escrow = "RELEASED" <=> trade[t].life = "COMPLETED"

(* A verified payment of the full price is never dropped: the trade left    *)
(* AWAITING_PAYMENT, and it is CANCELLED only when the refund completed,    *)
(* whatever the expiry, the refund and a late webhook do in between.        *)
NoPaymentDropped ==
    \A t \in Trades :
        Paid(t) => /\ trade[t].life # "AWAITING_PAYMENT"
                   /\ trade[t].life = "CANCELLED" => trade[t].refund = "COMPLETED"

(* The seller's listing counts the amount of a trade as filled only when    *)
(* the trade completed, and gives it back to the available units only when  *)
(* the trade can no longer be released; a handler that resolved the trade   *)
(* and has nothing left to do has freed the slot.                           *)
InventoryFollowsTrade ==
    \A t \in Trades :
        /\ listing[t] = "filled" => trade[t].life = "COMPLETED"
        /\ listing[t] = "available" =>
               trade[t].life \in {"CANCELLED", "LATE_PAYMENT_REVIEW", "REFUND_PENDING"}
        /\ trade[t].life \in {"COMPLETED", "CANCELLED"} /\ tails[t] = {} =>
               listing[t] # "allocated"

(* The buyer's trust profile is charged at most once for a trade, and never *)
(* for a trade it is also credited with.                                    *)
ChargedOnce ==
    \A t \in Trades :
        /\ strikes[t] <= 1
        /\ credits[t] <= 1
        /\ strikes[t] > 0 => credits[t] = 0

-----------------------------------------------------------------------------
(* Action properties.                                                       *)

(* A provider transaction pays one trade, the trade of the attempt it was   *)
(* made for, and stays consumed by it: no replay of a transaction id on     *)
(* another trade's attempt moves it.                                        *)
ConsumedOnce ==
    [][\A x \in TxIds :
          consumed'[x] # consumed[x] =>
              /\ consumed[x] = NoTrade
              /\ consumed'[x] = att[prov[x].ref].trade]_vars

(* What is settled stays settled: a completed trade never changes its       *)
(* lifecycle, payout, refund or escrow state again, and a cancelled one is  *)
(* only ever reopened for the review of a late payment.                     *)
SettledStays ==
    [][\A t \in Trades :
          /\ trade[t].life = "COMPLETED" =>
                 [trade'[t] EXCEPT !.pay = trade[t].pay] = trade[t]
          /\ trade[t].life = "CANCELLED" /\ trade'[t].life # "CANCELLED" =>
                 /\ trade'[t].life = "LATE_PAYMENT_REVIEW"
                 /\ Paid(t)']_vars

-----------------------------------------------------------------------------
(* The abstract specification.  Custody is what the service records of the  *)
(* escrow contract, payments are what it verified.                          *)
CustodyOf(t) ==
    CASE trade[t].life = "ABSENT" -> "nobody"
      [] trade[t].escrow = "RELEASED" -> "buyer"
      [] trade[t].escrow = "CANCELLED" -> "seller"
      [] OTHER -> "escrow"

P == INSTANCE SettlementPromise WITH
        custody <- [t \in Trades |-> CustodyOf(t)],
        buyerPaid <- [t \in Trades |-> Paid(t)],
        sellerPaid <- [t \in Trades |-> trade[t].payout = "CONFIRMED"],
        refunded <- [t \in Trades |-> trade[t].refund = "COMPLETED"
                                      /\ trade[t].life = "CANCELLED"]

(* The service's records keep the settlement promise.                       *)
KeepsPromise == P!Promise

-----------------------------------------------------------------------------
(* Fairness.  Time passes; the background worker of main.rs runs the        *)
(* reconciliation pass again and again and finishes what it started, and a  *)
(* handler that has started runs to its end.  Buyers, sellers and the       *)
(* provider owe nothing.                                                    *)
Fairness ==
    /\ \A t \in Trades :
          /\ WF_vars(Tick(t))
          /\ WF_vars(ExpireTrade(t))
          /\ WF_vars(ExpireTail(t) \/ RefundTail(t) \/ CompleteTail(t))
    /\ \A w \in Workers :
          WF_vars(WebhookInsert(w) \/ ReplayCheck(w) \/ ApplyNothing(w)
                  \/ ApplyPayment(w))

FairSpec == Spec /\ Fairness

HasPayment(t) == \E x \in TxIds : prov[x].ref # NoRef /\ att[prov[x].ref].trade = t

(* A trade nobody starts to pay does not stay in AWAITING_PAYMENT, whatever *)
(* checkouts are opened for it and whatever calls to the provider fail.     *)
AbandonedTradeEnds ==
    \A t \in Trades :
        trade[t].life = "AWAITING_PAYMENT" ~>
            (trade[t].life # "AWAITING_PAYMENT" \/ HasPayment(t))

(* The amount of a resolved trade does not stay allocated: the listing's    *)
(* active slot becomes free for the next buyer.                             *)
SlotIsFreed ==
    \A t \in Trades :
        (trade[t].life \in {"COMPLETED", "CANCELLED"} /\ listing[t] = "allocated")
            ~> listing[t] # "allocated"

-----------------------------------------------------------------------------
(* A claim of the documentation that the code does not keep.  The provider  *)
(* is as good as it can be here: it settles every payment and delivers      *)
(* every webhook, and callers initiate a payout as soon as they may.        *)
DiligentSpec ==
    /\ FairSpec
    /\ \A x \in TxIds : WF_vars(\E st \in TxStatus : PaySettle(x, st))
    /\ \A x \in TxIds, st \in Events :
          WF_vars(\E w \in Workers : WebhookCheck(w, x, st))
    /\ \A t \in Trades : WF_vars(InitiatePayout(t))

(* "After buyer payment verification (PAYMENT_CONFIRMED), the trade moves   *)
(* to SELLER_PAYOUT_PENDING": it leaves PAYMENT_CONFIRMED.  The webhook of  *)
(* a failed first payment that arrives after the successful one overwrites  *)
(* payment_state, which payout initiation then refuses.                     *)
ConfirmedTradeMoves ==
    \A t \in Trades :
        trade[t].life = "PAYMENT_CONFIRMED" ~> trade[t].life # "PAYMENT_CONFIRMED"
=============================================================================
