--------------------------- MODULE TradeLifecycle ---------------------------
(***************************************************************************)
(* The settlement of trades by the Rust service: checkout attempts,        *)
(* provider webhooks and verification calls, seller payout, buyer refund,  *)
(* escrow release and the reconciliation pass, over the in-memory tables   *)
(* of AppState.  A handler that holds the DashMap guard of a row from its  *)
(* first read to its last write is one action; a handler that releases it, *)
(* awaits, or reads one table and later writes another is one action per   *)
(* stretch, so that the actions of other handlers fall in between.         *)
(*                                                                         *)
(* The provider and the clock are the environment.  A trade's clock says   *)
(* whether the current time is before, at or after payment_deadline_at:    *)
(* the code compares times in no other way.                                *)
(***************************************************************************)
EXTENDS Naturals, FiniteSets

CONSTANTS
    Trades,     \* trade ids
    Attempts,   \* checkout attempts, named by their tx_ref
    TxIds,      \* transaction ids at the payment provider
    Workers,    \* concurrent webhook and verification handlers
    Amounts,    \* amounts a buyer may pay, a subset of AmountKinds
    ReuseIds,   \* TRUE: callers may register an id that is in use
    Events,     \* transaction statuses the provider sends webhooks for
    Outages,    \* TRUE: calls to the provider may time out
    NoTrade, NoRef, NoTx   \* absent values

AmountKinds == {"exact", "under", "over"}
TxStatus == {"pending", "successful", "failed"}

ASSUME AmountsAssumption == Amounts \subseteq AmountKinds
ASSUME EventsAssumption == Events \subseteq TxStatus
ASSUME SwitchesAssumption == ReuseIds \in BOOLEAN /\ Outages \in BOOLEAN
ASSUME AbsentAssumption ==
    NoTrade \notin Trades /\ NoRef \notin Attempts /\ NoTx \notin TxIds

-----------------------------------------------------------------------------
(* The states of lifecycle.rs.  "ABSENT" is a row that does not exist.      *)

LifeStates ==
    {"ABSENT", "AWAITING_PAYMENT", "PAYMENT_CONFIRMED",
     "SELLER_PAYOUT_PENDING", "SELLER_PAYOUT_CONFIRMED", "PAYOUT_ON_HOLD",
     "RELEASE_PENDING", "RELEASE_ON_HOLD", "COMPLETED", "REFUND_PENDING",
     "CANCELLED", "LATE_PAYMENT_REVIEW"}

PayStates ==
    {"UNPAID", "CHECKOUT_CREATED", "PENDING_VERIFICATION", "CONFIRMED",
     "LATE_CONFIRMED", "UNDERPAID", "OVERPAID", "FAILED", "EXPIRED"}

PayoutStates == {"NOT_STARTED", "PROCESSING", "CONFIRMED", "ON_HOLD"}
RefundStates == {"NONE", "REQUESTED", "COMPLETED"}
EscrowStates == {"FUNDED", "RELEASE_PENDING", "RELEASED", "ON_HOLD", "CANCELLED"}

InboxStates == {"NONE", "RECEIVED", "PROCESSED", "FAILED"}

AttemptStates ==
    {"NONE", "INITIATED", "REDIRECT_READY", "PENDING_VERIFICATION", "VERIFIED",
     "LATE_VERIFIED", "MISMATCH_HOLD", "FAILED", "EXPIRED"}

(* TradeLifecycleState::can_transition_to, without the states OPEN and      *)
(* DISPUTED, which no handler assigns.                                      *)
LegalMoves ==
    {<<"AWAITING_PAYMENT", "PAYMENT_CONFIRMED">>,
     <<"AWAITING_PAYMENT", "LATE_PAYMENT_REVIEW">>,
     <<"AWAITING_PAYMENT", "REFUND_PENDING">>,
     <<"AWAITING_PAYMENT", "CANCELLED">>,
     <<"PAYMENT_CONFIRMED", "SELLER_PAYOUT_PENDING">>,
     <<"PAYMENT_CONFIRMED", "PAYOUT_ON_HOLD">>,
     <<"PAYMENT_CONFIRMED", "REFUND_PENDING">>,
     <<"SELLER_PAYOUT_PENDING", "SELLER_PAYOUT_CONFIRMED">>,
     <<"SELLER_PAYOUT_PENDING", "PAYOUT_ON_HOLD">>,
     <<"PAYOUT_ON_HOLD", "SELLER_PAYOUT_PENDING">>,
     <<"PAYOUT_ON_HOLD", "SELLER_PAYOUT_CONFIRMED">>,
     <<"PAYOUT_ON_HOLD", "REFUND_PENDING">>,
     <<"SELLER_PAYOUT_CONFIRMED", "RELEASE_PENDING">>,
     <<"SELLER_PAYOUT_CONFIRMED", "RELEASE_ON_HOLD">>,
     <<"RELEASE_PENDING", "COMPLETED">>,
     <<"RELEASE_PENDING", "RELEASE_ON_HOLD">>,
     <<"RELEASE_ON_HOLD", "RELEASE_PENDING">>,
     <<"RELEASE_ON_HOLD", "COMPLETED">>,
     <<"LATE_PAYMENT_REVIEW", "PAYMENT_CONFIRMED">>,
     <<"LATE_PAYMENT_REVIEW", "REFUND_PENDING">>,
     <<"REFUND_PENDING", "CANCELLED">>}

(* Mutant: no legality check.                                               *)
AnyTransition(from, to) == from # "ABSENT" /\ to # "ABSENT"

CanTransition(from, to) ==
    from # "ABSENT" /\ (from = to \/ <<from, to>> \in LegalMoves)

TradeRecord ==
    [life : LifeStates, pay : PayStates, payout : PayoutStates,
     refund : RefundStates, escrow : EscrowStates, txHash : BOOLEAN]

(* Mutant: the provider's word for a payout that has not started.           *)
NewTradeWithProviderStatus ==
    [life |-> "AWAITING_PAYMENT", pay |-> "UNPAID", payout |-> "NEW",
     refund |-> "NONE", escrow |-> "FUNDED", txHash |-> FALSE]

(* TradeRecord::new_awaiting_payment.                                       *)
NewAwaitingPayment ==
    [life |-> "AWAITING_PAYMENT", pay |-> "UNPAID", payout |-> "NOT_STARTED",
     refund |-> "NONE", escrow |-> "FUNDED", txHash |-> FALSE]

AbsentTrade == [NewAwaitingPayment EXCEPT !.life = "ABSENT"]

AttemptRecord ==
    [trade : Trades \cup {NoTrade}, status : AttemptStates,
     url : BOOLEAN, tx : TxIds \cup {NoTx}]

AbsentAttempt ==
    [trade |-> NoTrade, status |-> "NONE", url |-> FALSE, tx |-> NoTx]

(* A transaction at the provider: the attempt it pays, what was paid, the   *)
(* statuses it has had (empty: not started) and whether it was submitted    *)
(* by the deadline.                                                         *)
ProviderTx ==
    [ref : Attempts \cup {NoRef}, amt : AmountKinds,
     hist : SUBSET TxStatus, onTime : BOOLEAN]
NoProviderTx ==
    [ref |-> NoRef, amt |-> "exact", hist |-> {}, onTime |-> FALSE]

(* A handler between two of its steps: "recv" has not found the event in    *)
(* the inbox, "check" is about to look the transaction up in                *)
(* consumed_flw_tx_ids, "apply" to take the attempt and trade rows.         *)
WorkerRecord ==
    [pc : {"idle", "recv", "check", "apply"}, src : {"webhook", "verify"},
     ref : Attempts \cup {NoRef}, tx : TxIds \cup {NoTx}, st : TxStatus]
IdleWorker ==
    [pc |-> "idle", src |-> "verify", ref |-> NoRef, tx |-> NoTx,
     st |-> "pending"]

(* Outbox jobs by deduplication key.  A job stays in the table for good; its *)
(* status, which no handler of a trade reads, is left to the outbox.        *)
JobKeys ==
    ({"EXECUTE_SELLER_PAYOUT", "EXECUTE_ESCROW_RELEASE"} \X Trades)
        \cup ({"VERIFY_PAYMENT"} \X Attempts)

VARIABLES
    clock,        \* time against payment_deadline_at, per trade
    trade,        \* state.trades
    registering,  \* registrations of an id that have yet to insert the row
    att,          \* state.payment_attempts
    active,       \* state.active_trade_checkout
    calls,        \* checkouts whose provider call is in flight
    prov,         \* the provider's transactions
    consumed,     \* state.consumed_flw_tx_ids
    inbox,        \* state.webhook_inbox, by transaction and status
    worker,       \* the webhook and verification handlers
    jobs,         \* state.outbox_jobs
    listing,      \* bucket of the seller's listing that holds the amount
    tails,        \* work a handler still does after it released the trade
    strikes,      \* unpaid expirations charged to the buyer, per trade
    credits       \* completions credited to the buyer, per trade

tableVars == <<trade, att, active, consumed, inbox, jobs>>
vars == <<clock, trade, registering, att, active, calls, prov, consumed,
          inbox, worker, jobs, listing, tails, strikes, credits>>

TypeOK ==
    /\ clock \in [Trades -> {"before", "at", "after"}]
    /\ trade \in [Trades -> TradeRecord]
    /\ registering \in [Trades -> SUBSET {"direct", "listed"}]
    /\ att \in [Attempts -> AttemptRecord]
    /\ active \in [Trades -> Attempts \cup {NoRef}]
    /\ calls \in SUBSET Attempts
    /\ prov \in [TxIds -> ProviderTx]
    /\ consumed \in [TxIds -> Trades \cup {NoTrade}]
    /\ inbox \in [TxIds \X Events -> InboxStates]
    /\ worker \in [Workers -> WorkerRecord]
    /\ jobs \in SUBSET JobKeys
    /\ listing \in [Trades -> {"none", "allocated", "filled", "available"}]
    /\ tails \in [Trades -> SUBSET {"expire", "refund", "complete"}]
    /\ strikes \in [Trades -> Nat]
    /\ credits \in [Trades -> Nat]

Init ==
    /\ clock = [t \in Trades |-> "before"]
    /\ trade = [t \in Trades |-> AbsentTrade]
    /\ registering = [t \in Trades |-> {}]
    /\ att = [a \in Attempts |-> AbsentAttempt]
    /\ active = [t \in Trades |-> NoRef]
    /\ calls = {}
    /\ prov = [x \in TxIds |-> NoProviderTx]
    /\ consumed = [x \in TxIds |-> NoTrade]
    /\ inbox = [e \in TxIds \X Events |-> "NONE"]
    /\ worker = [w \in Workers |-> IdleWorker]
    /\ jobs = {}
    /\ listing = [t \in Trades |-> "none"]
    /\ tails = [t \in Trades |-> {}]
    /\ strikes = [t \in Trades |-> 0]
    /\ credits = [t \in Trades |-> 0]

(* enqueue_outbox_job: the first job with a key stays.                      *)
Enqueue(k) == jobs' = jobs \cup {k}

-----------------------------------------------------------------------------
(* Registration.                                                            *)

(* An id is fresh when no row and no registration in flight has it.  The    *)
(* on-chain trade ids callers pass are fresh; nothing in the code enforces  *)
(* it for listing orders.                                                   *)
Fresh(t) == trade[t].life = "ABSENT" /\ registering[t] = {}

(* create_or_register_trade up to its lookup in state.trades.               *)
RegisterCheck(t) ==
    /\ trade[t].life = "ABSENT"
    /\ "direct" \notin registering[t]
    /\ ReuseIds \/ Fresh(t)
    /\ registering' = [registering EXCEPT ![t] = @ \cup {"direct"}]
    /\ UNCHANGED <<clock, tableVars, calls, prov, worker, listing, tails,
                   strikes, credits>>

(* request_listing_order with a free slot: the listing row is updated and   *)
(* released before the trade row is inserted.  The trade table is not read. *)
OrderAllocate(t) ==
    /\ listing[t] = "none"
    /\ ReuseIds \/ Fresh(t)
    /\ listing' = [listing EXCEPT ![t] = "allocated"]
    /\ registering' = [registering EXCEPT ![t] = @ \cup {"listed"}]
    /\ UNCHANGED <<clock, tableVars, calls, prov, worker, tails, strikes,
                   credits>>

(* The insert of either handler replaces whatever row has the id, and sets  *)
(* a new deadline.                                                          *)
RegisterInsert(t, how) ==
    /\ how \in registering[t]
    /\ registering' = [registering EXCEPT ![t] = @ \ {how}]
    /\ trade' = [trade EXCEPT ![t] = NewAwaitingPayment]
    /\ clock' = [clock EXCEPT ![t] = "before"]
    /\ UNCHANGED <<att, active, calls, prov, consumed, inbox, worker,
                   jobs, listing, tails, strikes, credits>>

-----------------------------------------------------------------------------
(* Checkout.                                                                *)

(* The attempt init_flutterwave_checkout hands out again.                   *)
HasLiveCheckout(t) ==
    /\ active[t] # NoRef
    /\ att[active[t]].url
    /\ att[active[t]].status
           \in {"INITIATED", "REDIRECT_READY", "PENDING_VERIFICATION"}

(* Mutant: the attempt is not persisted before the provider call.           *)
InitCheckoutUnsaved(t, a) ==
    /\ trade[t].life = "AWAITING_PAYMENT"
    /\ clock[t] = "before"
    /\ ~HasLiveCheckout(t)
    /\ att[a].status = "NONE"
    /\ active' = [active EXCEPT ![t] = a]
    /\ trade' = [trade EXCEPT ![t].pay = "CHECKOUT_CREATED"]
    /\ calls' = calls \cup {a}
    /\ UNCHANGED <<clock, registering, att, prov, consumed, inbox, worker, jobs,
                   listing, tails, strikes, credits>>

(* init_flutterwave_checkout up to the provider call.  The attempt is       *)
(* persisted without a checkout_url, then the trade row is released.        *)
InitCheckout(t, a) ==
    /\ trade[t].life = "AWAITING_PAYMENT"
    /\ clock[t] = "before"
    /\ ~HasLiveCheckout(t)
    /\ att[a].status = "NONE"
    /\ att' = [att EXCEPT ![a] = [trade |-> t, status |-> "INITIATED",
                                  url |-> FALSE, tx |-> NoTx]]
    /\ active' = [active EXCEPT ![t] = a]
    /\ trade' = [trade EXCEPT ![t].pay = "CHECKOUT_CREATED"]
    /\ calls' = calls \cup {a}
    /\ UNCHANGED <<clock, registering, prov, consumed, inbox, worker, jobs,
                   listing, tails, strikes, credits>>

(* The provider answers with a link: the handler writes back the copy of    *)
(* the attempt it made before the call.                                     *)
CheckoutReady(a) ==
    /\ a \in calls
    /\ calls' = calls \ {a}
    /\ att' = [att EXCEPT ![a] = [trade |-> att[a].trade, url |-> TRUE,
                                  status |-> "REDIRECT_READY", tx |-> NoTx]]
    /\ UNCHANGED <<clock, trade, registering, active, prov, consumed, inbox,
                   worker, jobs, listing, tails, strikes, credits>>

(* An error status or an answer without a link: nothing is written back.    *)
CheckoutRefused(a) ==
    /\ a \in calls
    /\ calls' = calls \ {a}
    /\ UNCHANGED <<clock, tableVars, registering, prov, worker, listing,
                   tails, strikes, credits>>

(* The call times out: only a verification job is left behind.              *)
CheckoutTimeout(a) ==
    /\ Outages
    /\ a \in calls
    /\ calls' = calls \ {a}
    /\ Enqueue(<<"VERIFY_PAYMENT", a>>)
    /\ UNCHANGED <<clock, trade, registering, att, active, prov, consumed,
                   inbox, worker, listing, tails, strikes, credits>>

-----------------------------------------------------------------------------
(* The provider.                                                            *)

(* A buyer who holds the link starts a payment.                             *)
PayStart(x, a, amount) ==
    /\ att[a].url
    /\ prov[x].hist = {}
    /\ prov' = [prov EXCEPT ![x] =
                   [ref |-> a, amt |-> amount, hist |-> {"pending"},
                    onTime |-> clock[att[a].trade] # "after"]]
    /\ UNCHANGED <<clock, tableVars, registering, calls, worker, listing,
                   tails, strikes, credits>>

PaySettle(x, st) ==
    /\ prov[x].hist = {"pending"}
    /\ prov' = [prov EXCEPT ![x].hist = @ \cup {st}]
    /\ UNCHANGED <<clock, tableVars, registering, calls, worker, listing,
                   tails, strikes, credits>>

(* What the verification endpoint answers now.                              *)
CurrentStatus(x) ==
    IF prov[x].hist = {"pending"} THEN "pending"
    ELSE CHOOSE st \in {"successful", "failed"} : st \in prov[x].hist

-----------------------------------------------------------------------------
(* Webhooks and verification calls.                                         *)

(* handle_flutterwave_webhook up to its lookup in the inbox.  An event of   *)
(* any status the transaction has had may arrive now, again or never.       *)
WebhookCheck(w, x, st) ==
    /\ worker[w].pc = "idle"
    /\ st \in prov[x].hist
    /\ inbox[<<x, st>>] = "NONE"
    /\ worker' = [worker EXCEPT ![w] = [pc |-> "recv", src |-> "webhook",
                      ref |-> prov[x].ref, tx |-> x, st |-> st]]
    /\ UNCHANGED <<clock, tableVars, registering, calls, prov, listing, tails,
                   strikes, credits>>

WebhookInsert(w) ==
    /\ worker[w].pc = "recv"
    /\ inbox' = [inbox EXCEPT ![<<worker[w].tx, worker[w].st>>] = "RECEIVED"]
    /\ worker' = [worker EXCEPT ![w].pc = "check"]
    /\ UNCHANGED <<clock, trade, registering, att, active, calls, prov,
                   consumed, jobs, listing, tails, strikes, credits>>

(* verify_flutterwave_payment: the provider's answer for any transaction    *)
(* the caller names, taken now and applied later.                           *)
VerifyFetch(w, a, x) ==
    /\ worker[w].pc = "idle"
    /\ att[a].status # "NONE"
    /\ prov[x].hist # {}
    /\ worker' = [worker EXCEPT ![w] = [pc |-> "check", src |-> "verify",
                      ref |-> a, tx |-> x, st |-> CurrentStatus(x)]]
    /\ UNCHANGED <<clock, tableVars, registering, calls, prov, listing, tails,
                   strikes, credits>>

(* The provider is unreachable or overloaded.                               *)
VerifyUnavailable(a) ==
    /\ Outages
    /\ att[a].status # "NONE"
    /\ Enqueue(<<"VERIFY_PAYMENT", a>>)
    /\ UNCHANGED <<clock, trade, registering, att, active, calls, prov,
                   consumed, inbox, worker, listing, tails, strikes, credits>>

(* The end of a handler; a webhook records its result in the inbox.         *)
Conclude(w, result) ==
    /\ worker' = [worker EXCEPT ![w] = IdleWorker]
    /\ inbox' = IF worker[w].src = "webhook"
                THEN [inbox EXCEPT ![<<worker[w].tx, worker[w].st>>] = result]
                ELSE inbox

(* apply_verified_payment_to_trade: the cross-trade replay check.           *)
ReplayCheck(w) ==
    /\ worker[w].pc = "check"
    /\ IF consumed[worker[w].tx] \in {NoTrade, att[worker[w].ref].trade}
       THEN /\ worker' = [worker EXCEPT ![w].pc = "apply"]
            /\ UNCHANGED inbox
       ELSE Conclude(w, "FAILED")
    /\ UNCHANGED <<clock, trade, registering, att, active, calls, prov,
                   consumed, jobs, listing, tails, strikes, credits>>

(* Mutant: the tx_ref comparison is dropped.                                *)
RefUnchecked(w) == worker[w].ref # NoRef

RefMatches(w) == prov[worker[w].tx].ref = worker[w].ref

AlreadyVerified(w) ==
    /\ att[worker[w].ref].status = "VERIFIED"
    /\ trade[att[worker[w].ref].trade].pay = "CONFIRMED"
    /\ att[worker[w].ref].tx = worker[w].tx

(* Mutant: an amount above the price counts as paid.                        *)
PayStateAtLeast(w) ==
    LET late == clock[att[worker[w].ref].trade] = "after"
    IN  CASE worker[w].st = "successful" /\ late -> "LATE_CONFIRMED"
          [] worker[w].st = "successful" /\ ~late -> "CONFIRMED"
          [] worker[w].st = "pending" -> "PENDING_VERIFICATION"
          [] worker[w].st = "failed" -> "FAILED"

(* evaluate_verified_transaction: the payment state of the answer.          *)
NewPayState(w) ==
    LET amt == prov[worker[w].tx].amt
        late == clock[att[worker[w].ref].trade] = "after"
    IN  CASE worker[w].st = "successful" /\ amt = "under" -> "UNDERPAID"
          [] worker[w].st = "successful" /\ amt = "over" -> "OVERPAID"
          [] worker[w].st = "successful" /\ amt = "exact" /\ late -> "LATE_CONFIRMED"
          [] worker[w].st = "successful" /\ amt = "exact" /\ ~late -> "CONFIRMED"
          [] worker[w].st = "pending" -> "PENDING_VERIFICATION"
          [] worker[w].st = "failed" -> "FAILED"

(* ... and the attempt status it goes with.                                 *)
NewAttemptStatus(pay) ==
    CASE pay = "CONFIRMED" -> "VERIFIED"
      [] pay = "LATE_CONFIRMED" -> "LATE_VERIFIED"
      [] pay \in {"UNDERPAID", "OVERPAID"} -> "MISMATCH_HOLD"
      [] pay = "PENDING_VERIFICATION" -> "PENDING_VERIFICATION"
      [] pay = "FAILED" -> "FAILED"

(* Mutants: a pending payment counts as paid; a payment for a trade that is *)
(* already cancelled is only recorded.                                      *)
LifeAfterAnyAnswer(life, pay) ==
    CASE pay \in {"CONFIRMED", "PENDING_VERIFICATION"}
             /\ life = "AWAITING_PAYMENT" -> "PAYMENT_CONFIRMED"
      [] pay = "LATE_CONFIRMED" /\ life \in {"AWAITING_PAYMENT", "CANCELLED"} ->
             "LATE_PAYMENT_REVIEW"
      [] OTHER -> life

LifeAfterIfOpen(life, pay) ==
    CASE pay = "CONFIRMED" /\ life = "AWAITING_PAYMENT" -> "PAYMENT_CONFIRMED"
      [] pay = "LATE_CONFIRMED" /\ life = "AWAITING_PAYMENT" -> "LATE_PAYMENT_REVIEW"
      [] OTHER -> life

(* Where a verified payment moves the trade.  The late arm assigns          *)
(* lifecycle_state directly, without can_transition_to.                     *)
LifeAfter(life, pay) ==
    CASE pay = "CONFIRMED" /\ life = "AWAITING_PAYMENT" -> "PAYMENT_CONFIRMED"
      [] pay = "LATE_CONFIRMED" /\ life \in {"AWAITING_PAYMENT", "CANCELLED"} ->
             "LATE_PAYMENT_REVIEW"
      [] OTHER -> life

(* The same payment was applied before, or it pays another attempt: the     *)
(* handler returns without a write.                                         *)
ApplyNothing(w) ==
    /\ worker[w].pc = "apply"
    /\ AlreadyVerified(w) \/ ~RefMatches(w)
    /\ Conclude(w, IF AlreadyVerified(w) THEN "PROCESSED" ELSE "FAILED")
    /\ UNCHANGED <<clock, trade, registering, att, active, calls, prov,
                   consumed, jobs, listing, tails, strikes, credits>>

ApplyPayment(w) ==
    LET a == worker[w].ref
        t == att[a].trade
        pay == NewPayState(w)
        first == pay = "CONFIRMED" /\ trade[t].life = "AWAITING_PAYMENT"
    IN  /\ worker[w].pc = "apply"
        /\ ~AlreadyVerified(w)
        /\ RefMatches(w)
        /\ att' = [att EXCEPT ![a].status = NewAttemptStatus(pay),
                              ![a].tx = worker[w].tx]
        /\ trade' = [trade EXCEPT ![t].pay = pay,
                                  ![t].life = LifeAfter(@, pay)]
        /\ consumed' = IF worker[w].st = "successful"
                       THEN [consumed EXCEPT ![worker[w].tx] = t]
                       ELSE consumed
        /\ IF first THEN Enqueue(<<"EXECUTE_SELLER_PAYOUT", t>>)
                    ELSE UNCHANGED jobs
        /\ Conclude(w, "PROCESSED")
        /\ UNCHANGED <<clock, registering, active, calls, prov, listing,
                       tails, strikes, credits>>

-----------------------------------------------------------------------------
(* Payout, refund and release.                                              *)

othersOfTrade == <<clock, registering, att, active, calls, prov, consumed,
                   inbox, worker, listing, strikes, credits>>

(* TradeRecord::transition with the assignments that follow it.  Every      *)
(* caller passes the version it reads under the same guard, so the version  *)
(* comparison never fails.                                                  *)
Transition(t, next, rest) ==
    /\ CanTransition(trade[t].life, next)
    /\ trade' = [trade EXCEPT ![t] = [rest EXCEPT !.life = next]]

(* process_seller_payout.                                                   *)
InitiatePayout(t) ==
    /\ trade[t].pay = "CONFIRMED"
    /\ trade[t].life \in {"PAYMENT_CONFIRMED", "PAYOUT_ON_HOLD",
                          "SELLER_PAYOUT_PENDING"}
    /\ Transition(t, "SELLER_PAYOUT_PENDING",
                  [trade[t] EXCEPT !.payout = "PROCESSING"])
    /\ UNCHANGED <<othersOfTrade, jobs, tails>>

(* Mutant: an unpaid trade is accepted.                                     *)
ConfirmPayoutUnpaid(t) ==
    /\ trade[t].life \in {"SELLER_PAYOUT_PENDING", "PAYMENT_CONFIRMED",
                          "PAYOUT_ON_HOLD", "AWAITING_PAYMENT"}
    /\ trade' = [trade EXCEPT ![t].life = "SELLER_PAYOUT_CONFIRMED",
                              ![t].payout = "CONFIRMED"]
    /\ Enqueue(<<"EXECUTE_ESCROW_RELEASE", t>>)
    /\ UNCHANGED <<othersOfTrade, tails>>

(* From PAYMENT_CONFIRMED the handler passes through SELLER_PAYOUT_PENDING. *)
ConfirmPayout(t) ==
    /\ trade[t].life \in {"SELLER_PAYOUT_PENDING", "PAYMENT_CONFIRMED",
                          "PAYOUT_ON_HOLD"}
    /\ trade' = [trade EXCEPT ![t].life = "SELLER_PAYOUT_CONFIRMED",
                              ![t].payout = "CONFIRMED"]
    /\ Enqueue(<<"EXECUTE_ESCROW_RELEASE", t>>)
    /\ UNCHANGED <<othersOfTrade, tails>>

HoldPayout(t) ==
    /\ Transition(t, "PAYOUT_ON_HOLD", [trade[t] EXCEPT !.payout = "ON_HOLD"])
    /\ UNCHANGED <<othersOfTrade, jobs, tails>>

(* process_trade_refund.                                                    *)
RequestRefund(t) ==
    /\ trade[t].life \in {"PAYOUT_ON_HOLD", "LATE_PAYMENT_REVIEW",
                          "PAYMENT_CONFIRMED", "AWAITING_PAYMENT"}
    /\ Transition(t, "REFUND_PENDING", [trade[t] EXCEPT !.refund = "REQUESTED"])
    /\ UNCHANGED <<othersOfTrade, jobs, tails>>

(* Mutant: the seller listing is not reconciled.                            *)
CompleteRefundOnly(t) ==
    /\ trade[t].life = "REFUND_PENDING"
    /\ Transition(t, "CANCELLED", [trade[t] EXCEPT !.refund = "COMPLETED",
                                                   !.escrow = "CANCELLED"])
    /\ UNCHANGED <<othersOfTrade, jobs, tails>>

CompleteRefund(t) ==
    /\ trade[t].life = "REFUND_PENDING"
    /\ Transition(t, "CANCELLED", [trade[t] EXCEPT !.refund = "COMPLETED",
                                                   !.escrow = "CANCELLED"])
    /\ tails' = [tails EXCEPT ![t] = @ \cup {"refund"}]
    /\ UNCHANGED <<othersOfTrade, jobs>>

(* TradeRecord::validate_escrow_release_eligibility.                        *)
ReleaseEligible(t) ==
    /\ trade[t].life \in {"SELLER_PAYOUT_CONFIRMED", "RELEASE_PENDING",
                          "RELEASE_ON_HOLD"}
    /\ trade[t].pay = "CONFIRMED"
    /\ trade[t].payout = "CONFIRMED"
    /\ trade[t].refund = "NONE"

(* process_escrow_release; hash says whether the caller names a chain tx.   *)
RequestRelease(t, hash) ==
    /\ ReleaseEligible(t)
    /\ Transition(t, "RELEASE_PENDING",
                  [trade[t] EXCEPT !.escrow = "RELEASE_PENDING", !.txHash = hash])
    /\ UNCHANGED <<othersOfTrade, jobs, tails>>

ConfirmRelease(t, hash) ==
    /\ trade[t].life \in {"RELEASE_PENDING", "RELEASE_ON_HOLD"}
    /\ hash \/ trade[t].txHash
    /\ Transition(t, "COMPLETED",
                  [trade[t] EXCEPT !.escrow = "RELEASED", !.txHash = TRUE])
    /\ tails' = [tails EXCEPT ![t] = @ \cup {"complete"}]
    /\ UNCHANGED <<othersOfTrade, jobs>>

HoldRelease(t) ==
    /\ trade[t].life \in {"RELEASE_PENDING", "SELLER_PAYOUT_CONFIRMED",
                          "RELEASE_ON_HOLD"}
    /\ Transition(t, "RELEASE_ON_HOLD", [trade[t] EXCEPT !.escrow = "ON_HOLD"])
    /\ UNCHANGED <<othersOfTrade, jobs, tails>>

-----------------------------------------------------------------------------
(* The reconciliation pass.                                                 *)

(* Mutant: a checkout whose link was handed out counts as in flight.        *)
InFlightOrReady(t) ==
    /\ active[t] # NoRef
    /\ att[active[t]].status \in {"REDIRECT_READY", "PENDING_VERIFICATION",
                                  "VERIFIED", "LATE_VERIFIED", "MISMATCH_HOLD"}

InFlightAttempt(t) ==
    /\ active[t] # NoRef
    /\ att[active[t]].status \in {"PENDING_VERIFICATION", "VERIFIED",
                                  "LATE_VERIFIED", "MISMATCH_HOLD"}

(* Mutant: the pass does not look at lifecycle_state; a transition from     *)
(* CANCELLED to itself is legal.                                            *)
ExpireTradeAgain(t) ==
    /\ clock[t] = "after"
    /\ trade[t].pay \in {"UNPAID", "CHECKOUT_CREATED", "FAILED", "EXPIRED"}
    /\ ~InFlightAttempt(t)
    /\ att' = IF active[t] = NoRef THEN att
              ELSE [att EXCEPT ![active[t]].status = "EXPIRED"]
    /\ Transition(t, "CANCELLED", [trade[t] EXCEPT !.pay = "EXPIRED",
                                                   !.escrow = "CANCELLED"])
    /\ tails' = [tails EXCEPT ![t] = @ \cup {"expire"}]
    /\ UNCHANGED <<clock, registering, active, calls, prov, consumed, inbox,
                   worker, jobs, listing, strikes, credits>>

(* One trade of run_reconciliation_pass, under the guard of its row.        *)
ExpireTrade(t) ==
    /\ trade[t].life = "AWAITING_PAYMENT"
    /\ clock[t] = "after"
    /\ trade[t].pay \in {"UNPAID", "CHECKOUT_CREATED", "FAILED", "EXPIRED"}
    /\ ~InFlightAttempt(t)
    /\ att' = IF active[t] = NoRef THEN att
              ELSE [att EXCEPT ![active[t]].status = "EXPIRED"]
    /\ Transition(t, "CANCELLED", [trade[t] EXCEPT !.pay = "EXPIRED",
                                                   !.escrow = "CANCELLED"])
    /\ tails' = [tails EXCEPT ![t] = @ \cup {"expire"}]
    /\ UNCHANGED <<clock, registering, active, calls, prov, consumed, inbox,
                   worker, jobs, listing, strikes, credits>>

(* reconcile_seller_listing_on_trade_resolution: nothing happens unless the *)
(* listing's active slot is this trade's.                                   *)
SettleListing(t, bucket) ==
    listing' = [listing EXCEPT ![t] = IF @ = "allocated" THEN bucket ELSE @]

(* Mutant: the penalty is applied without the listing.                      *)
ExpireTailPenalty(t) ==
    /\ "expire" \in tails[t]
    /\ strikes' = [strikes EXCEPT ![t] = @ + 1]
    /\ tails' = [tails EXCEPT ![t] = @ \ {"expire"}]
    /\ UNCHANGED <<clock, tableVars, registering, calls, prov, worker, listing,
                   credits>>

(* What a handler does once it has released the trade row.                  *)
ExpireTail(t) ==
    /\ "expire" \in tails[t]
    /\ SettleListing(t, "available")
    /\ strikes' = [strikes EXCEPT ![t] = @ + 1]
    /\ tails' = [tails EXCEPT ![t] = @ \ {"expire"}]
    /\ UNCHANGED <<clock, tableVars, registering, calls, prov, worker, credits>>

RefundTail(t) ==
    /\ "refund" \in tails[t]
    /\ SettleListing(t, "available")
    /\ tails' = [tails EXCEPT ![t] = @ \ {"refund"}]
    /\ UNCHANGED <<clock, tableVars, registering, calls, prov, worker, strikes,
                   credits>>

CompleteTail(t) ==
    /\ "complete" \in tails[t]
    /\ SettleListing(t, "filled")
    /\ credits' = [credits EXCEPT ![t] = @ + 1]
    /\ tails' = [tails EXCEPT ![t] = @ \ {"complete"}]
    /\ UNCHANGED <<clock, tableVars, registering, calls, prov, worker, strikes>>

Tick(t) ==
    /\ trade[t].life # "ABSENT"
    /\ clock[t] # "after"
    /\ clock' = [clock EXCEPT ![t] = IF @ = "before" THEN "at" ELSE "after"]
    /\ UNCHANGED <<tableVars, registering, calls, prov, worker, listing, tails,
                   strikes, credits>>

-----------------------------------------------------------------------------
Register(t) ==
    \/ RegisterCheck(t)
    \/ OrderAllocate(t)
    \/ \E how \in {"direct", "listed"} : RegisterInsert(t, how)

Checkout(a) ==
    \/ CheckoutReady(a)
    \/ CheckoutRefused(a)
    \/ CheckoutTimeout(a)
    \/ VerifyUnavailable(a)

Pay(x) ==
    \/ \E a \in Attempts, amount \in Amounts : PayStart(x, a, amount)
    \/ \E st \in {"successful", "failed"} : PaySettle(x, st)

Handle(w) ==
    \/ \E x \in TxIds, st \in Events : WebhookCheck(w, x, st)
    \/ WebhookInsert(w)
    \/ \E a \in Attempts, x \in TxIds : VerifyFetch(w, a, x)
    \/ ReplayCheck(w)
    \/ ApplyNothing(w)
    \/ ApplyPayment(w)

Settle(t) ==
    \/ InitiatePayout(t)
    \/ ConfirmPayout(t)
    \/ HoldPayout(t)
    \/ RequestRefund(t)
    \/ CompleteRefund(t)
    \/ \E hash \in BOOLEAN : RequestRelease(t, hash) \/ ConfirmRelease(t, hash)
    \/ HoldRelease(t)

Reconcile(t) ==
    \/ ExpireTrade(t)
    \/ ExpireTail(t)
    \/ RefundTail(t)
    \/ CompleteTail(t)

Next ==
    \/ \E t \in Trades : Register(t) \/ Settle(t) \/ Reconcile(t) \/ Tick(t)
    \/ \E t \in Trades, a \in Attempts : InitCheckout(t, a)
    \/ \E a \in Attempts : Checkout(a)
    \/ \E x \in TxIds : Pay(x)
    \/ \E w \in Workers : Handle(w)

Spec == Init /\ [][Next]_vars
=============================================================================
