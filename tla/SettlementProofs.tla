--------------------------- MODULE SettlementProofs ---------------------------
(***************************************************************************)
(* Proofs about TradeLifecycle for any sets of trades, attempts,           *)
(* transactions and handlers, any amounts and webhook statuses, with or    *)
(* without outages and reuse of ids.  TypeOK and Linked are inductive      *)
(* together: the row a handler writes back to is the row its attempt names. *)
(* PayoutOrRefund is inductive over the trade rows alone, the induction of *)
(* PaidBeforeSettlement needs TypeOK and Linked.  With fresh ids follow    *)
(* the rest of its promises, and SettlementPromise.                        *)
(***************************************************************************)
EXTENDS TradeProperties, TLAPS

-----------------------------------------------------------------------------
(* Typing of the rows.                                                      *)

(* A trade row stays a trade row when fields get values of their types.     *)
LEMMA RowTyped ==
    ASSUME NEW r \in TradeRecord
    PROVE  /\ \A v \in LifeStates : [r EXCEPT !.life = v] \in TradeRecord
           /\ \A v \in PayStates : [r EXCEPT !.pay = v] \in TradeRecord
           /\ \A v \in PayoutStates : [r EXCEPT !.payout = v] \in TradeRecord
           /\ \A v \in RefundStates : [r EXCEPT !.refund = v] \in TradeRecord
           /\ \A v \in EscrowStates : [r EXCEPT !.escrow = v] \in TradeRecord
           /\ \A v \in BOOLEAN : [r EXCEPT !.txHash = v] \in TradeRecord
    BY DEF TradeRecord

LEMMA AttemptTyped ==
    ASSUME NEW r \in AttemptRecord, NEW s \in AttemptStates
    PROVE  /\ [r EXCEPT !.status = s] \in AttemptRecord
           /\ \A x \in TxIds : [r EXCEPT !.status = s, !.tx = x] \in AttemptRecord
    BY DEF AttemptRecord

(* TradeRecord::transition keeps the table typed, whatever typed row it is  *)
(* given.                                                                   *)
LEMMA TransitionTyped ==
    ASSUME TypeOK, NEW t \in Trades, NEW next \in LifeStates,
           NEW rest \in TradeRecord, Transition(t, next, rest)
    PROVE  trade' \in [Trades -> TradeRecord]
<1>1. trade' = [trade EXCEPT ![t] = [rest EXCEPT !.life = next]]
    BY DEF Transition
<1>2. [rest EXCEPT !.life = next] \in TradeRecord
    BY RowTyped
<1> QED
    BY <1>1, <1>2 DEF TypeOK

-----------------------------------------------------------------------------
(* Type correctness, one lemma for each group of actions.                   *)

LEMMA RegisterTyped ==
    ASSUME TypeOK, NEW t \in Trades, Register(t)
    PROVE  TypeOK'
<1>1. CASE RegisterCheck(t)
    BY <1>1 DEF RegisterCheck, TypeOK, tableVars
<1>2. CASE OrderAllocate(t)
    BY <1>2 DEF OrderAllocate, TypeOK, tableVars
<1>3. ASSUME NEW how \in {"direct", "listed"}, RegisterInsert(t, how)
      PROVE  TypeOK'
  <2>1. NewAwaitingPayment \in TradeRecord
    BY DEF NewAwaitingPayment, TradeRecord, LifeStates, PayStates, PayoutStates,
           RefundStates, EscrowStates
  <2> QED
    BY <1>3, <2>1 DEF RegisterInsert, TypeOK
<1> QED
    BY <1>1, <1>2, <1>3 DEF Register

LEMMA CheckoutTyped ==
    ASSUME TypeOK, NEW a \in Attempts, Checkout(a)
    PROVE  TypeOK'
<1>1. CASE CheckoutReady(a)
    BY <1>1 DEF CheckoutReady, TypeOK, AttemptRecord, AttemptStates
<1>2. CASE CheckoutRefused(a)
    BY <1>2 DEF CheckoutRefused, TypeOK, tableVars
<1>3. CASE CheckoutTimeout(a)
    BY <1>3 DEF CheckoutTimeout, Enqueue, JobKeys, TypeOK
<1>4. CASE VerifyUnavailable(a)
    BY <1>4 DEF VerifyUnavailable, Enqueue, JobKeys, TypeOK
<1> QED
    BY <1>1, <1>2, <1>3, <1>4 DEF Checkout

LEMMA InitCheckoutTyped ==
    ASSUME TypeOK, NEW t \in Trades, NEW a \in Attempts, InitCheckout(t, a)
    PROVE  TypeOK'
<1>1. [trade |-> t, status |-> "INITIATED", url |-> FALSE, tx |-> NoTx]
          \in AttemptRecord
    BY DEF AttemptRecord, AttemptStates
<1>2. trade' \in [Trades -> TradeRecord]
  <2>1. "CHECKOUT_CREATED" \in PayStates
    BY DEF PayStates
  <2>2. trade' = [trade EXCEPT ![t].pay = "CHECKOUT_CREATED"]
    BY DEF InitCheckout
  <2>3. trade \in [Trades -> TradeRecord]
    BY DEF TypeOK
  <2> QED
    BY <2>1, <2>2, <2>3 DEF TradeRecord
<1>3. att' \in [Attempts -> AttemptRecord]
    BY <1>1 DEF InitCheckout, TypeOK
<1>4. active' \in [Trades -> Attempts \cup {NoRef}] /\ calls' \in SUBSET Attempts
    BY DEF InitCheckout, TypeOK
<1>5. UNCHANGED <<clock, registering, prov, consumed, inbox, worker, jobs,
                  listing, tails, strikes, credits>>
    BY DEF InitCheckout
<1> QED
    BY <1>2, <1>3, <1>4, <1>5 DEF TypeOK

LEMMA PayTyped ==
    ASSUME TypeOK, NEW x \in TxIds, Pay(x)
    PROVE  TypeOK'
<1>1. ASSUME NEW a \in Attempts, NEW amount \in Amounts, PayStart(x, a, amount)
      PROVE  TypeOK'
    BY <1>1, AmountsAssumption
    DEF PayStart, TypeOK, ProviderTx, TxStatus, tableVars
<1>2. ASSUME NEW st \in {"successful", "failed"}, PaySettle(x, st)
      PROVE  TypeOK'
    BY <1>2 DEF PaySettle, TypeOK, ProviderTx, TxStatus, tableVars
<1> QED
    BY <1>1, <1>2 DEF Pay

(* evaluate_verified_transaction always decides, and the attempt it decides *)
(* about stays a row that exists.                                           *)
LEMMA NewStatesTyped ==
    ASSUME TypeOK, Linked, NEW w \in Workers, worker[w].pc = "apply"
    PROVE  /\ NewPayState(w) \in PayStates
           /\ NewAttemptStatus(NewPayState(w)) \in AttemptStates \ {"NONE"}
<1>1. worker[w].st \in TxStatus /\ worker[w].tx \in TxIds
    BY DEF TypeOK, Linked, WorkerRecord
<1>2. prov[worker[w].tx].amt \in AmountKinds
    BY <1>1 DEF TypeOK, ProviderTx
<1>3. NewPayState(w) \in {"CONFIRMED", "LATE_CONFIRMED", "UNDERPAID", "OVERPAID",
                          "PENDING_VERIFICATION", "FAILED"}
    BY <1>1, <1>2 DEF NewPayState, TxStatus, AmountKinds
<1> QED
    BY <1>3 DEF NewAttemptStatus, AttemptStates, PayStates

(* The rows ApplyPayment writes: the attempt the handler was called for and *)
(* the trade of that attempt.                                               *)
LEMMA ApplyRows ==
    ASSUME TypeOK, Linked, NEW w \in Workers, ApplyPayment(w)
    PROVE  LET a == worker[w].ref
               t == att[a].trade
               pay == NewPayState(w)
           IN  /\ a \in Attempts /\ t \in Trades /\ worker[w].tx \in TxIds
               /\ prov[worker[w].tx].ref = a
               /\ pay \in PayStates
               /\ NewAttemptStatus(pay) \in AttemptStates \ {"NONE"}
               /\ att' = [att EXCEPT ![a] =
                             [att[a] EXCEPT !.status = NewAttemptStatus(pay),
                                            !.tx = worker[w].tx]]
               /\ trade' = [trade EXCEPT ![t] =
                               [trade[t] EXCEPT !.pay = pay,
                                   !.life = LifeAfter(trade[t].life, pay)]]
<1>1. worker[w].pc = "apply" /\ RefMatches(w)
    BY DEF ApplyPayment
<1>2. /\ worker[w].ref \in Attempts /\ worker[w].tx \in TxIds
      /\ att[worker[w].ref].trade \in Trades
    BY <1>1 DEF Linked
<1>3. /\ NewPayState(w) \in PayStates
      /\ NewAttemptStatus(NewPayState(w)) \in AttemptStates \ {"NONE"}
    BY <1>1, NewStatesTyped
<1>4. prov[worker[w].tx].ref = worker[w].ref
    BY <1>1 DEF RefMatches
<1>5. att' = [att EXCEPT ![worker[w].ref] =
                 [att[worker[w].ref] EXCEPT
                     !.status = NewAttemptStatus(NewPayState(w)),
                     !.tx = worker[w].tx]]
  <2>1. att \in [Attempts -> AttemptRecord]
    BY DEF TypeOK
  <2>2. att' = [att EXCEPT ![worker[w].ref].status =
                               NewAttemptStatus(NewPayState(w)),
                           ![worker[w].ref].tx = worker[w].tx]
    BY DEF ApplyPayment
  <2> QED
    BY <1>2, <2>1, <2>2 DEF AttemptRecord
<1>6. trade' = [trade EXCEPT ![att[worker[w].ref].trade] =
                   [trade[att[worker[w].ref].trade] EXCEPT
                       !.pay = NewPayState(w),
                       !.life = LifeAfter(trade[att[worker[w].ref].trade].life,
                                          NewPayState(w))]]
  <2>1. trade \in [Trades -> TradeRecord]
    BY DEF TypeOK
  <2> DEFINE t == att[worker[w].ref].trade
             pay == NewPayState(w)
  <2>2. trade' = [trade EXCEPT ![t].pay = pay, ![t].life = LifeAfter(@, pay)]
    BY DEF ApplyPayment
  <2>3. t \in Trades
    BY <1>2
  <2> HIDE DEF t, pay
  <2> QED
    BY <2>1, <2>2, <2>3 DEF TradeRecord, t, pay
<1> QED
    BY <1>2, <1>3, <1>4, <1>5, <1>6

LEMMA LifeAfterTyped ==
    ASSUME NEW life \in LifeStates, NEW pay \in PayStates
    PROVE  LifeAfter(life, pay) \in LifeStates
    BY DEF LifeAfter, LifeStates

LEMMA ConcludeTyped ==
    ASSUME TypeOK, NEW w \in Workers, NEW result \in {"PROCESSED", "FAILED"},
           Conclude(w, result)
    PROVE  /\ worker' \in [Workers -> WorkerRecord]
           /\ inbox' \in [TxIds \X Events -> InboxStates]
<1>1. IdleWorker \in WorkerRecord
    BY DEF IdleWorker, WorkerRecord, TxStatus
<1> QED
    BY <1>1 DEF Conclude, TypeOK, InboxStates

LEMMA PcTyped ==
    ASSUME TypeOK, NEW w \in Workers, NEW pc \in {"check", "apply"},
           worker' = [worker EXCEPT ![w].pc = pc]
    PROVE  worker' \in [Workers -> WorkerRecord]
<1>1. worker \in [Workers -> WorkerRecord]
    BY DEF TypeOK
<1> QED
    BY <1>1 DEF WorkerRecord

LEMMA ApplyTyped ==
    ASSUME TypeOK, Linked, NEW w \in Workers, ApplyPayment(w)
    PROVE  TypeOK'
<1> DEFINE a == worker[w].ref
           t == att[a].trade
           pay == NewPayState(w)
<1>1. /\ a \in Attempts /\ t \in Trades /\ worker[w].tx \in TxIds
      /\ pay \in PayStates
      /\ NewAttemptStatus(pay) \in AttemptStates
      /\ att' = [att EXCEPT ![a] = [att[a] EXCEPT !.status = NewAttemptStatus(pay),
                                                  !.tx = worker[w].tx]]
      /\ trade' = [trade EXCEPT ![t] =
                      [trade[t] EXCEPT !.pay = pay,
                                       !.life = LifeAfter(trade[t].life, pay)]]
    BY ApplyRows
<1>2. att' \in [Attempts -> AttemptRecord]
  <2>1. att[a] \in AttemptRecord
    BY <1>1 DEF TypeOK
  <2> HIDE DEF a, pay
  <2> QED
    BY <1>1, <2>1, AttemptTyped DEF TypeOK
<1>3. trade' \in [Trades -> TradeRecord]
  <2>1. trade[t] \in TradeRecord
    BY <1>1 DEF TypeOK
  <2>2. LifeAfter(trade[t].life, pay) \in LifeStates
    BY <1>1, <2>1, LifeAfterTyped DEF TradeRecord
  <2> HIDE DEF t, pay
  <2>3. [trade[t] EXCEPT !.pay = pay, !.life = LifeAfter(trade[t].life, pay)]
            \in TradeRecord
    BY <1>1, <2>1, <2>2 DEF TradeRecord
  <2> QED
    BY <1>1, <2>3 DEF TypeOK
<1>4. consumed' \in [TxIds -> Trades \cup {NoTrade}]
    BY <1>1 DEF ApplyPayment, TypeOK
<1>5. jobs' \in SUBSET JobKeys
  <2>1. <<"EXECUTE_SELLER_PAYOUT", t>> \in JobKeys
    BY <1>1 DEF JobKeys
  <2>2. jobs' = jobs \/ jobs' = jobs \cup {<<"EXECUTE_SELLER_PAYOUT", t>>}
    BY DEF ApplyPayment, Enqueue
  <2> QED
    BY <2>1, <2>2 DEF TypeOK
<1>6. Conclude(w, "PROCESSED")
      /\ UNCHANGED <<clock, registering, active, calls, prov, listing, tails,
                     strikes, credits>>
    BY DEF ApplyPayment
<1>7. /\ worker' \in [Workers -> WorkerRecord]
      /\ inbox' \in [TxIds \X Events -> InboxStates]
    BY <1>6, ConcludeTyped
<1> QED
    BY <1>2, <1>3, <1>4, <1>5, <1>6, <1>7 DEF TypeOK

LEMMA HandleTyped ==
    ASSUME TypeOK, Linked, NEW w \in Workers, Handle(w)
    PROVE  TypeOK'
<1>1. ASSUME NEW x \in TxIds, NEW st \in Events, WebhookCheck(w, x, st)
      PROVE  TypeOK'
  <2>1. worker' \in [Workers -> WorkerRecord]
    BY <1>1, EventsAssumption DEF WebhookCheck, TypeOK, ProviderTx, WorkerRecord
  <2> QED
    BY <1>1, <2>1 DEF WebhookCheck, TypeOK, tableVars
<1>2. CASE WebhookInsert(w)
  <2>1. worker' \in [Workers -> WorkerRecord]
    BY <1>2, PcTyped DEF WebhookInsert
  <2>2. inbox' \in [TxIds \X Events -> InboxStates]
    BY <1>2 DEF WebhookInsert, TypeOK, InboxStates
  <2> QED
    BY <1>2, <2>1, <2>2 DEF WebhookInsert, TypeOK
<1>3. ASSUME NEW a \in Attempts, NEW x \in TxIds, VerifyFetch(w, a, x)
      PROVE  TypeOK'
  <2>1. CurrentStatus(x) \in TxStatus
    BY <1>3 DEF VerifyFetch, CurrentStatus, TypeOK, ProviderTx, TxStatus
  <2>2. worker' \in [Workers -> WorkerRecord]
    BY <1>3, <2>1 DEF VerifyFetch, TypeOK, WorkerRecord
  <2> QED
    BY <1>3, <2>2 DEF VerifyFetch, TypeOK, tableVars
<1>4. CASE ReplayCheck(w)
  <2>1. UNCHANGED <<clock, trade, registering, att, active, calls, prov,
                    consumed, jobs, listing, tails, strikes, credits>>
    BY <1>4 DEF ReplayCheck
  <2>2. CASE worker' = [worker EXCEPT ![w].pc = "apply"] /\ UNCHANGED inbox
    BY <2>1, <2>2, PcTyped DEF TypeOK
  <2>3. CASE Conclude(w, "FAILED")
    BY <2>1, <2>3, ConcludeTyped DEF TypeOK
  <2> QED
    BY <1>4, <2>2, <2>3 DEF ReplayCheck
<1>5. CASE ApplyNothing(w)
  <2>1. PICK result \in {"PROCESSED", "FAILED"} : Conclude(w, result)
    BY <1>5 DEF ApplyNothing
  <2>2. UNCHANGED <<clock, trade, registering, att, active, calls, prov,
                    consumed, jobs, listing, tails, strikes, credits>>
    BY <1>5 DEF ApplyNothing
  <2> QED
    BY <2>1, <2>2, ConcludeTyped DEF TypeOK
<1>6. CASE ApplyPayment(w)
    BY <1>6, ApplyTyped
<1> QED
    BY <1>1, <1>2, <1>3, <1>4, <1>5, <1>6 DEF Handle

(* A legal move by TradeRecord::transition to a typed row, and to neither of *)
(* the two states that only a verified payment leads to.                    *)
MoveOf(t) ==
    \E next \in LifeStates, rest \in TradeRecord :
        /\ Transition(t, next, rest)
        /\ next \notin {"PAYMENT_CONFIRMED", "LATE_PAYMENT_REVIEW"}

(* Every route of payout, refund and release is such a move, except the     *)
(* confirmation of a payout, which assigns what two moves leave.            *)
LEMMA SettleMoves ==
    ASSUME TypeOK, NEW t \in Trades, Settle(t)
    PROVE  ConfirmPayout(t) \/ MoveOf(t)
<1>1. trade[t] \in TradeRecord
    BY DEF TypeOK
<1>2. CASE InitiatePayout(t)
  <2>1. [trade[t] EXCEPT !.payout = "PROCESSING"] \in TradeRecord
    BY <1>1, RowTyped DEF PayoutStates
  <2> QED
    BY <1>2, <2>1 DEF InitiatePayout, MoveOf, LifeStates
<1>3. CASE HoldPayout(t)
  <2>1. [trade[t] EXCEPT !.payout = "ON_HOLD"] \in TradeRecord
    BY <1>1, RowTyped DEF PayoutStates
  <2> QED
    BY <1>3, <2>1 DEF HoldPayout, MoveOf, LifeStates
<1>4. CASE RequestRefund(t)
  <2>1. [trade[t] EXCEPT !.refund = "REQUESTED"] \in TradeRecord
    BY <1>1, RowTyped DEF RefundStates
  <2> QED
    BY <1>4, <2>1 DEF RequestRefund, MoveOf, LifeStates
<1>5. CASE CompleteRefund(t)
  <2>1. [trade[t] EXCEPT !.refund = "COMPLETED", !.escrow = "CANCELLED"]
            \in TradeRecord
    BY <1>1, RowTyped DEF RefundStates, EscrowStates
  <2> QED
    BY <1>5, <2>1 DEF CompleteRefund, MoveOf, LifeStates
<1>6. ASSUME NEW hash \in BOOLEAN, RequestRelease(t, hash) PROVE MoveOf(t)
  <2>1. [trade[t] EXCEPT !.escrow = "RELEASE_PENDING", !.txHash = hash]
            \in TradeRecord
    BY <1>1, RowTyped DEF EscrowStates
  <2> QED
    BY <1>6, <2>1 DEF RequestRelease, MoveOf, LifeStates
<1>7. ASSUME NEW hash \in BOOLEAN, ConfirmRelease(t, hash) PROVE MoveOf(t)
  <2>1. [trade[t] EXCEPT !.escrow = "RELEASED", !.txHash = TRUE] \in TradeRecord
    BY <1>1, RowTyped DEF EscrowStates
  <2> QED
    BY <1>7, <2>1 DEF ConfirmRelease, MoveOf, LifeStates
<1>8. CASE HoldRelease(t)
  <2>1. [trade[t] EXCEPT !.escrow = "ON_HOLD"] \in TradeRecord
    BY <1>1, RowTyped DEF EscrowStates
  <2> QED
    BY <1>8, <2>1 DEF HoldRelease, MoveOf, LifeStates
<1> QED
    BY <1>2, <1>3, <1>4, <1>5, <1>6, <1>7, <1>8 DEF Settle

LEMMA SettleTyped ==
    ASSUME TypeOK, NEW t \in Trades, Settle(t)
    PROVE  TypeOK'
<1>1. /\ UNCHANGED othersOfTrade
      /\ tails' \in [Trades -> SUBSET {"expire", "refund", "complete"}]
      /\ jobs' \in SUBSET JobKeys
  <2>1. UNCHANGED othersOfTrade
    BY DEF Settle, InitiatePayout, ConfirmPayout, HoldPayout, RequestRefund,
           CompleteRefund, RequestRelease, ConfirmRelease, HoldRelease
  <2>2. \/ UNCHANGED tails
        \/ \E tail \in {"refund", "complete"} :
              tails' = [tails EXCEPT ![t] = @ \cup {tail}]
    BY DEF Settle, InitiatePayout, ConfirmPayout, HoldPayout, RequestRefund,
           CompleteRefund, RequestRelease, ConfirmRelease, HoldRelease
  <2>3. jobs' = jobs \/ jobs' = jobs \cup {<<"EXECUTE_ESCROW_RELEASE", t>>}
    BY DEF Settle, InitiatePayout, ConfirmPayout, HoldPayout, RequestRefund,
           CompleteRefund, RequestRelease, ConfirmRelease, HoldRelease,
           othersOfTrade, Enqueue
  <2> QED
    BY <2>1, <2>2, <2>3 DEF TypeOK, JobKeys
<1>2. CASE ConfirmPayout(t)
  <2>1. trade[t] \in TradeRecord
    BY DEF TypeOK
  <2>2. [[trade[t] EXCEPT !.life = "SELLER_PAYOUT_CONFIRMED"]
             EXCEPT !.payout = "CONFIRMED"] \in TradeRecord
    BY <2>1, RowTyped DEF LifeStates, PayoutStates
  <2>3. trade' = [trade EXCEPT ![t] =
                     [[trade[t] EXCEPT !.life = "SELLER_PAYOUT_CONFIRMED"]
                          EXCEPT !.payout = "CONFIRMED"]]
    BY <1>2, <2>1 DEF ConfirmPayout, TypeOK, TradeRecord
  <2> QED
    BY <1>1, <2>2, <2>3 DEF TypeOK, othersOfTrade
<1>3. CASE MoveOf(t)
  <2>1. trade' \in [Trades -> TradeRecord]
    BY <1>3, TransitionTyped DEF MoveOf
  <2> QED
    BY <1>1, <2>1 DEF TypeOK, othersOfTrade
<1> QED
    BY <1>2, <1>3, SettleMoves

LEMMA ReconcileTyped ==
    ASSUME TypeOK, NEW t \in Trades, Reconcile(t)
    PROVE  TypeOK'
<1>1. CASE ExpireTrade(t)
  <2>1. [trade[t] EXCEPT !.pay = "EXPIRED", !.escrow = "CANCELLED"] \in TradeRecord
    <3>1. trade[t] \in TradeRecord
      BY DEF TypeOK
    <3> QED
      BY <3>1, RowTyped DEF PayStates, EscrowStates
  <2>2. trade' \in [Trades -> TradeRecord]
    BY <1>1, <2>1, TransitionTyped DEF ExpireTrade, LifeStates
  <2>3. att' \in [Attempts -> AttemptRecord]
    <3>1. CASE active[t] = NoRef
      BY <1>1, <3>1 DEF ExpireTrade, TypeOK
    <3>2. CASE active[t] \in Attempts
      <4>1. att' = [att EXCEPT ![active[t]] = [att[active[t]] EXCEPT !.status = "EXPIRED"]]
        BY <1>1, <3>2, AbsentAssumption DEF ExpireTrade, TypeOK
      <4>2. [att[active[t]] EXCEPT !.status = "EXPIRED"] \in AttemptRecord
        BY <3>2, AttemptTyped DEF TypeOK, AttemptStates
      <4> QED
        BY <4>1, <4>2 DEF TypeOK
    <3> QED
      BY <3>1, <3>2 DEF TypeOK
  <2> QED
    BY <1>1, <2>2, <2>3 DEF ExpireTrade, TypeOK
<1>2. CASE ExpireTail(t)
    BY <1>2 DEF ExpireTail, SettleListing, TypeOK, tableVars
<1>3. CASE RefundTail(t)
    BY <1>3 DEF RefundTail, SettleListing, TypeOK, tableVars
<1>4. CASE CompleteTail(t)
    BY <1>4 DEF CompleteTail, SettleListing, TypeOK, tableVars
<1> QED
    BY <1>1, <1>2, <1>3, <1>4 DEF Reconcile

LEMMA TickTyped ==
    ASSUME TypeOK, NEW t \in Trades, Tick(t)
    PROVE  TypeOK'
    BY DEF Tick, TypeOK, tableVars

-----------------------------------------------------------------------------
(* Links.  Every action leaves the links alone or only adds rows.           *)

linkVars == <<active, att, calls, prov, worker>>

LEMMA LinkedFrame ==
    ASSUME Linked, UNCHANGED linkVars
    PROVE  Linked'
    BY DEF Linked, linkVars

(* A write that keeps the trade of every attempt row and removes none.      *)
AttemptRowsKept ==
    \A a \in Attempts :
        /\ att[a].status # "NONE" => att'[a].status # "NONE"
                                     /\ att'[a].trade = att[a].trade
        /\ att[a].status = "NONE" => att'[a] = att[a]

LEMMA ReadyKeepsRows ==
    ASSUME TypeOK, Linked, NEW a \in Attempts, CheckoutReady(a)
    PROVE  AttemptRowsKept
<1>1. att[a].status # "NONE"
    BY DEF CheckoutReady, Linked
<1> QED
    BY <1>1 DEF CheckoutReady, AttemptRowsKept, TypeOK

LEMMA ApplyKeepsRows ==
    ASSUME TypeOK, Linked, NEW w \in Workers, ApplyPayment(w)
    PROVE  AttemptRowsKept
<1> DEFINE a == worker[w].ref
<1>1. /\ a \in Attempts
      /\ NewAttemptStatus(NewPayState(w)) # "NONE"
      /\ att' = [att EXCEPT ![a] =
                    [att[a] EXCEPT !.status = NewAttemptStatus(NewPayState(w)),
                                   !.tx = worker[w].tx]]
    BY ApplyRows
<1>2. att[a].status # "NONE"
    BY DEF ApplyPayment, Linked
<1>3. att \in [Attempts -> AttemptRecord]
    BY DEF TypeOK
<1> HIDE DEF a
<1> QED
    BY <1>1, <1>2, <1>3 DEF AttemptRowsKept, AttemptRecord

LEMMA ExpireKeepsRows ==
    ASSUME TypeOK, Linked, NEW t \in Trades, ExpireTrade(t)
    PROVE  AttemptRowsKept
<1>1. CASE active[t] = NoRef
    BY <1>1 DEF ExpireTrade, AttemptRowsKept
<1>2. CASE active[t] # NoRef
  <2>1. active[t] \in Attempts /\ att[active[t]].status # "NONE"
    BY <1>2 DEF TypeOK, Linked
  <2>2. att' = [att EXCEPT ![active[t]].status = "EXPIRED"]
    BY <1>2 DEF ExpireTrade
  <2>3. att \in [Attempts -> AttemptRecord]
    BY DEF TypeOK
  <2> QED
    BY <2>1, <2>2, <2>3 DEF AttemptRowsKept, AttemptRecord
<1> QED
    BY <1>1, <1>2

(* Writing such rows, or moving a handler along without changing what it    *)
(* was called for, keeps the links.                                         *)
LEMMA LinkedKept ==
    ASSUME TypeOK, Linked, AttemptRowsKept, calls' \subseteq calls,
           UNCHANGED <<active, prov>>,
           \A w \in Workers :
               worker'[w].pc # "idle" =>
                   \/ worker'[w] = worker[w]
                   \/ worker[w].pc # "idle" /\ worker'[w].tx = worker[w].tx
                          /\ worker'[w].st = worker[w].st
                          /\ worker'[w].ref = worker[w].ref
    PROVE  Linked'
<1>1. \A t \in Trades :
         active'[t] # NoRef => att'[active'[t]].status # "NONE"
                               /\ att'[active'[t]].trade = t
    BY DEF Linked, AttemptRowsKept, TypeOK
<1>2. \A a \in Attempts :
         (a \in calls' \/ att'[a].url) => att'[a].status # "NONE"
    BY DEF Linked, AttemptRowsKept
<1>3. \A a \in Attempts : att'[a].status # "NONE" => att'[a].trade \in Trades
    BY DEF Linked, AttemptRowsKept
<1>4. \A x \in TxIds :
         prov'[x].hist # {} => prov'[x].ref \in Attempts
                               /\ att'[prov'[x].ref].status # "NONE"
    BY DEF Linked, AttemptRowsKept
<1>5. \A w \in Workers :
         worker'[w].pc # "idle" =>
             /\ worker'[w].tx \in TxIds
             /\ worker'[w].st \in prov'[worker'[w].tx].hist
             /\ worker'[w].ref \in Attempts
             /\ att'[worker'[w].ref].status # "NONE"
    BY DEF Linked, AttemptRowsKept
<1> QED
    BY <1>1, <1>2, <1>3, <1>4, <1>5 DEF Linked

LEMMA CheckoutLinked ==
    ASSUME TypeOK, Linked, NEW a \in Attempts, Checkout(a)
    PROVE  Linked'
<1>1. CASE CheckoutReady(a)
    BY <1>1, ReadyKeepsRows, LinkedKept DEF CheckoutReady
<1>2. CASE CheckoutRefused(a) \/ CheckoutTimeout(a)
  <2>1. AttemptRowsKept
    BY <1>2 DEF CheckoutRefused, CheckoutTimeout, tableVars, AttemptRowsKept
  <2> QED
    BY <1>2, <2>1, LinkedKept DEF CheckoutRefused, CheckoutTimeout, tableVars
<1>3. CASE VerifyUnavailable(a)
    BY <1>3, LinkedFrame DEF VerifyUnavailable, linkVars
<1> QED
    BY <1>1, <1>2, <1>3 DEF Checkout

(* The new attempt had no row, so nothing referred to it.                   *)
LEMMA InitCheckoutLinked ==
    ASSUME TypeOK, Linked, NEW t \in Trades, NEW a \in Attempts, InitCheckout(t, a)
    PROVE  Linked'
<1>1. /\ att[a].status = "NONE"
      /\ att' = [att EXCEPT ![a] = [trade |-> t, status |-> "INITIATED",
                                    url |-> FALSE, tx |-> NoTx]]
      /\ active' = [active EXCEPT ![t] = a]
      /\ calls' = calls \cup {a}
      /\ UNCHANGED <<prov, worker>>
    BY DEF InitCheckout
<1>2. /\ att'[a].status = "INITIATED" /\ att'[a].trade = t /\ ~att'[a].url
      /\ \A b \in Attempts \ {a} : att'[b] = att[b]
    BY <1>1 DEF TypeOK
<1>3. \A s \in Trades :
         active'[s] # NoRef => att'[active'[s]].status # "NONE"
                               /\ att'[active'[s]].trade = s
    BY <1>1, <1>2 DEF Linked, TypeOK
<1>4. \A b \in Attempts :
         (b \in calls' \/ att'[b].url) => att'[b].status # "NONE"
    BY <1>1, <1>2 DEF Linked
<1>5. \A b \in Attempts : att'[b].status # "NONE" => att'[b].trade \in Trades
    BY <1>1, <1>2 DEF Linked
<1>6. \A x \in TxIds :
         prov'[x].hist # {} => prov'[x].ref \in Attempts
                               /\ att'[prov'[x].ref].status # "NONE"
    BY <1>1, <1>2 DEF Linked
<1>7. \A w \in Workers :
         worker'[w].pc # "idle" =>
             /\ worker'[w].tx \in TxIds
             /\ worker'[w].st \in prov'[worker'[w].tx].hist
             /\ worker'[w].ref \in Attempts
             /\ att'[worker'[w].ref].status # "NONE"
    BY <1>1, <1>2 DEF Linked
<1> QED
    BY <1>3, <1>4, <1>5, <1>6, <1>7 DEF Linked

(* The provider's history of a transaction only grows, and a payment starts *)
(* on a link that was handed out.                                           *)
PaymentsGrow ==
    \A x \in TxIds : /\ prov[x].hist \subseteq prov'[x].hist
                     /\ prov'[x].hist # {} =>
                            /\ prov'[x].ref \in Attempts
                            /\ att[prov'[x].ref].status # "NONE"

LEMMA PayLinked ==
    ASSUME TypeOK, Linked, NEW x \in TxIds, Pay(x)
    PROVE  Linked'
<1>1. PaymentsGrow
  <2>1. ASSUME NEW a \in Attempts, NEW amount \in Amounts, PayStart(x, a, amount)
        PROVE  PaymentsGrow
    BY <2>1 DEF PayStart, Linked, TypeOK, PaymentsGrow
  <2>2. ASSUME NEW st \in {"successful", "failed"}, PaySettle(x, st)
        PROVE  PaymentsGrow
    <3>1. prov \in [TxIds -> ProviderTx]
      BY DEF TypeOK
    <3> QED
      BY <2>2, <3>1 DEF PaySettle, Linked, ProviderTx, PaymentsGrow
  <2> QED
    BY <2>1, <2>2 DEF Pay
<1>2. UNCHANGED <<active, att, calls, worker>>
    BY DEF Pay, PayStart, PaySettle, tableVars
<1> QED
    BY <1>1, <1>2 DEF Linked, PaymentsGrow

LEMMA HandleLinked ==
    ASSUME TypeOK, Linked, NEW w \in Workers, Handle(w)
    PROVE  Linked'
<1>0. worker \in [Workers -> WorkerRecord]
    BY DEF TypeOK
<1>1. ASSUME NEW x \in TxIds, NEW st \in Events, WebhookCheck(w, x, st)
      PROVE  Linked'
    BY <1>0, <1>1 DEF WebhookCheck, Linked, tableVars
<1>2. ASSUME NEW a \in Attempts, NEW x \in TxIds, VerifyFetch(w, a, x)
      PROVE  Linked'
  <2>1. CurrentStatus(x) \in prov[x].hist
    <3>1. prov[x].hist \in SUBSET TxStatus /\ prov[x].hist # {}
      BY <1>2 DEF VerifyFetch, TypeOK, ProviderTx
    <3>2. CASE prov[x].hist = {"pending"}
      BY <3>2 DEF CurrentStatus
    <3>3. CASE \E s \in {"successful", "failed"} : s \in prov[x].hist
      BY <3>3 DEF CurrentStatus
    <3> QED
      BY <3>1, <3>2, <3>3 DEF TxStatus
  <2> QED
    BY <1>0, <1>2, <2>1 DEF VerifyFetch, Linked, tableVars
<1>3. ASSUME NEW pc \in {"check", "apply"}, worker[w].pc # "idle",
             worker' = [worker EXCEPT ![w].pc = pc],
             UNCHANGED <<active, att, calls, prov>>
      PROVE  Linked'
    BY <1>0, <1>3 DEF Linked, WorkerRecord
<1>4. ASSUME AttemptRowsKept, worker' = [worker EXCEPT ![w] = IdleWorker],
             UNCHANGED <<active, calls, prov>>
      PROVE  Linked'
    BY <1>0, <1>4, LinkedKept DEF IdleWorker
<1>5. CASE WebhookInsert(w)
    BY <1>3, <1>5 DEF WebhookInsert
<1>6. CASE ReplayCheck(w) \/ ApplyNothing(w)
  <2>1. AttemptRowsKept /\ UNCHANGED <<active, att, calls, prov>>
    BY <1>6 DEF ReplayCheck, ApplyNothing, AttemptRowsKept
  <2> QED
    BY <1>3, <1>4, <1>6, <2>1 DEF ReplayCheck, ApplyNothing, Conclude
<1>7. CASE ApplyPayment(w)
  <2>1. worker' = [worker EXCEPT ![w] = IdleWorker]
        /\ UNCHANGED <<active, calls, prov>>
    BY <1>7 DEF ApplyPayment, Conclude
  <2> QED
    BY <1>4, <1>7, <2>1, ApplyKeepsRows
<1> QED
    BY <1>1, <1>2, <1>5, <1>6, <1>7 DEF Handle

LEMMA ReconcileLinked ==
    ASSUME TypeOK, Linked, NEW t \in Trades, Reconcile(t)
    PROVE  Linked'
<1>1. CASE ExpireTrade(t)
    BY <1>1, ExpireKeepsRows, LinkedKept DEF ExpireTrade
<1>2. CASE ExpireTail(t) \/ RefundTail(t) \/ CompleteTail(t)
    BY <1>2, LinkedFrame DEF ExpireTail, RefundTail, CompleteTail, tableVars, linkVars
<1> QED
    BY <1>1, <1>2 DEF Reconcile

LEMMA OtherLinked ==
    ASSUME Linked, NEW t \in Trades, Register(t) \/ Settle(t) \/ Tick(t)
    PROVE  Linked'
<1>1. CASE Register(t)
    BY <1>1, LinkedFrame
    DEF Register, RegisterCheck, OrderAllocate, RegisterInsert, tableVars, linkVars
<1>2. CASE Settle(t)
  <2>1. UNCHANGED linkVars
    BY <1>2
    DEF Settle, InitiatePayout, ConfirmPayout, HoldPayout, RequestRefund,
        CompleteRefund, RequestRelease, ConfirmRelease, HoldRelease,
        othersOfTrade, linkVars
  <2> QED
    BY <2>1, LinkedFrame
<1>3. CASE Tick(t)
    BY <1>3, LinkedFrame DEF Tick, tableVars, linkVars
<1> QED
    BY <1>1, <1>2, <1>3

LEMMA LinkedStep ==
    ASSUME TypeOK, Linked, [Next]_vars
    PROVE  Linked'
<1>1. CASE UNCHANGED vars
    BY <1>1, LinkedFrame DEF vars, linkVars
<1>2. CASE Next
    BY <1>2, CheckoutLinked, InitCheckoutLinked, PayLinked, HandleLinked,
       ReconcileLinked, OtherLinked DEF Next
<1> QED
    BY <1>1, <1>2

LEMMA TypeStep ==
    ASSUME TypeOK, Linked, [Next]_vars
    PROVE  TypeOK'
<1>1. CASE UNCHANGED vars
    BY <1>1 DEF vars, TypeOK
<1>2. CASE Next
    BY <1>2, RegisterTyped, CheckoutTyped, InitCheckoutTyped, PayTyped,
       HandleTyped, SettleTyped, ReconcileTyped, TickTyped DEF Next
<1> QED
    BY <1>1, <1>2

LEMMA InitTypedLinked == Init => TypeOK /\ Linked
<1> SUFFICES ASSUME Init PROVE TypeOK /\ Linked
    OBVIOUS
<1>1. AbsentTrade \in TradeRecord
    BY DEF AbsentTrade, NewAwaitingPayment, TradeRecord, LifeStates, PayStates,
           PayoutStates, RefundStates, EscrowStates
<1>2. AbsentAttempt \in AttemptRecord /\ IdleWorker \in WorkerRecord
      /\ NoProviderTx \in ProviderTx
    BY DEF AbsentAttempt, AttemptRecord, AttemptStates, IdleWorker, WorkerRecord,
           NoProviderTx, ProviderTx, TxStatus, AmountKinds
<1>3. TypeOK
    BY <1>1, <1>2 DEF Init, TypeOK, InboxStates
<1>4. Linked
    BY DEF Init, Linked, AbsentAttempt, IdleWorker, NoProviderTx
<1> QED
    BY <1>3, <1>4

(* Every table keeps its type, and rows and handlers refer only to rows     *)
(* that exist: a webhook never finds the checkout it is about missing.      *)
THEOREM TypeCorrect == Spec => [](TypeOK /\ Linked)
<1>1. Init => TypeOK /\ Linked
    BY InitTypedLinked
<1>2. TypeOK /\ Linked /\ [Next]_vars => (TypeOK /\ Linked)'
    BY TypeStep, LinkedStep
<1> QED
    BY <1>1, <1>2, PTL DEF Spec

(* A webhook never finds the checkout it is about missing, a worker never   *)
(* one of another trade: references between tables and handlers lead to     *)
(* rows of the same trade.                                                  *)
THEOREM ReferencesHold == Spec => []Linked
    BY TypeCorrect, PTL

-----------------------------------------------------------------------------
(* Payout and refund.                                                       *)

(* PayoutOrRefund of one row.                                               *)
RowSettled(r) ==
    /\ r.payout = "CONFIRMED" <=> r.life \in AfterPayout
    /\ r.refund # "NONE" =>
           r.life \in {"REFUND_PENDING", "CANCELLED", "LATE_PAYMENT_REVIEW"}
    /\ r.escrow = "RELEASED" <=> r.life = "COMPLETED"

(* It is enough that every row is left alone or replaced by a settled one.  *)
LEMMA RowsSettled ==
    ASSUME TypeOK, PayoutOrRefund, NEW t \in Trades, NEW r, RowSettled(r),
           trade' = [trade EXCEPT ![t] = r]
    PROVE  PayoutOrRefund'
    BY DEF TypeOK, PayoutOrRefund, RowSettled

LEMMA RowsUnchanged ==
    ASSUME PayoutOrRefund, UNCHANGED trade
    PROVE  PayoutOrRefund'
    BY DEF PayoutOrRefund

(* A payment confirms or reopens a trade, but never moves one whose seller  *)
(* was paid.                                                                *)
LEMMA LifeAfterSettled ==
    ASSUME NEW r \in TradeRecord, RowSettled(r), NEW pay \in PayStates
    PROVE  RowSettled([r EXCEPT !.pay = pay, !.life = LifeAfter(r.life, pay)])
<1> DEFINE s == [r EXCEPT !.pay = pay, !.life = LifeAfter(r.life, pay)]
<1>1. /\ s.life = LifeAfter(r.life, pay)
      /\ s.payout = r.payout /\ s.refund = r.refund /\ s.escrow = r.escrow
    BY DEF TradeRecord
<1>2. \/ s.life = r.life
      \/ r.life = "AWAITING_PAYMENT" /\ s.life = "PAYMENT_CONFIRMED"
      \/ /\ r.life \in {"AWAITING_PAYMENT", "CANCELLED"}
         /\ s.life = "LATE_PAYMENT_REVIEW"
    BY <1>1 DEF LifeAfter
<1> HIDE DEF s
<1> QED
    BY <1>1, <1>2 DEF RowSettled, AfterPayout, s

LEMMA SettleSettled ==
    ASSUME TypeOK, PayoutOrRefund, NEW t \in Trades, Settle(t)
    PROVE  PayoutOrRefund'
<1> DEFINE r == trade[t]
<1>0. r \in TradeRecord /\ RowSettled(r)
    BY DEF TypeOK, PayoutOrRefund, RowSettled
<1>1. CASE InitiatePayout(t)
  <2> DEFINE s == [[r EXCEPT !.payout = "PROCESSING"]
                       EXCEPT !.life = "SELLER_PAYOUT_PENDING"]
  <2>1. trade' = [trade EXCEPT ![t] = s]
    BY <1>1 DEF InitiatePayout, Transition
  <2>2. r.life \in {"PAYMENT_CONFIRMED", "PAYOUT_ON_HOLD", "SELLER_PAYOUT_PENDING"}
    BY <1>1 DEF InitiatePayout
  <2>3. RowSettled(s)
    BY <1>0, <2>2 DEF RowSettled, AfterPayout, TradeRecord
  <2> QED
    BY <2>1, <2>3, RowsSettled
<1>2. CASE ConfirmPayout(t)
  <2> DEFINE s == [r EXCEPT !.life = "SELLER_PAYOUT_CONFIRMED",
                            !.payout = "CONFIRMED"]
  <2>1. trade' = [trade EXCEPT ![t] = s]
    BY <1>0, <1>2 DEF ConfirmPayout, TypeOK, TradeRecord
  <2>2. r.life \in {"SELLER_PAYOUT_PENDING", "PAYMENT_CONFIRMED", "PAYOUT_ON_HOLD"}
    BY <1>2 DEF ConfirmPayout
  <2>3. RowSettled(s)
    BY <1>0, <2>2 DEF RowSettled, AfterPayout, TradeRecord
  <2> QED
    BY <2>1, <2>3, RowsSettled
<1>3. CASE HoldPayout(t)
  <2> DEFINE s == [[r EXCEPT !.payout = "ON_HOLD"] EXCEPT !.life = "PAYOUT_ON_HOLD"]
  <2>1. trade' = [trade EXCEPT ![t] = s]
    BY <1>3 DEF HoldPayout, Transition
  <2>2. r.life \in {"PAYMENT_CONFIRMED", "SELLER_PAYOUT_PENDING", "PAYOUT_ON_HOLD"}
    BY <1>0, <1>3
    DEF HoldPayout, Transition, CanTransition, LegalMoves
  <2>3. RowSettled(s)
    BY <1>0, <2>2 DEF RowSettled, AfterPayout, TradeRecord
  <2> QED
    BY <2>1, <2>3, RowsSettled
<1>4. CASE RequestRefund(t)
  <2> DEFINE s == [[r EXCEPT !.refund = "REQUESTED"] EXCEPT !.life = "REFUND_PENDING"]
  <2>1. trade' = [trade EXCEPT ![t] = s]
    BY <1>4 DEF RequestRefund, Transition
  <2>2. r.life \in {"PAYOUT_ON_HOLD", "LATE_PAYMENT_REVIEW", "PAYMENT_CONFIRMED",
                    "AWAITING_PAYMENT"}
    BY <1>4 DEF RequestRefund
  <2>3. RowSettled(s)
    BY <1>0, <2>2 DEF RowSettled, AfterPayout, TradeRecord
  <2> QED
    BY <2>1, <2>3, RowsSettled
<1>5. CASE CompleteRefund(t)
  <2> DEFINE s == [[r EXCEPT !.refund = "COMPLETED", !.escrow = "CANCELLED"]
                       EXCEPT !.life = "CANCELLED"]
  <2>1. trade' = [trade EXCEPT ![t] = s]
    BY <1>5 DEF CompleteRefund, Transition
  <2>2. r.life = "REFUND_PENDING"
    BY <1>5 DEF CompleteRefund
  <2>3. RowSettled(s)
    BY <1>0, <2>2 DEF RowSettled, AfterPayout, TradeRecord
  <2> QED
    BY <2>1, <2>3, RowsSettled
<1>6. ASSUME NEW hash \in BOOLEAN, RequestRelease(t, hash)
      PROVE  PayoutOrRefund'
  <2> DEFINE s == [[r EXCEPT !.escrow = "RELEASE_PENDING", !.txHash = hash]
                       EXCEPT !.life = "RELEASE_PENDING"]
  <2>1. trade' = [trade EXCEPT ![t] = s]
    BY <1>6 DEF RequestRelease, Transition
  <2>2. r.life \in {"SELLER_PAYOUT_CONFIRMED", "RELEASE_PENDING", "RELEASE_ON_HOLD"}
    BY <1>6 DEF RequestRelease, ReleaseEligible
  <2>3. RowSettled(s)
    BY <1>0, <2>2 DEF RowSettled, AfterPayout, TradeRecord
  <2> QED
    BY <2>1, <2>3, RowsSettled
<1>7. ASSUME NEW hash \in BOOLEAN, ConfirmRelease(t, hash)
      PROVE  PayoutOrRefund'
  <2> DEFINE s == [[r EXCEPT !.escrow = "RELEASED", !.txHash = TRUE]
                       EXCEPT !.life = "COMPLETED"]
  <2>1. trade' = [trade EXCEPT ![t] = s]
    BY <1>7 DEF ConfirmRelease, Transition
  <2>2. r.life \in {"RELEASE_PENDING", "RELEASE_ON_HOLD"}
    BY <1>7 DEF ConfirmRelease
  <2>3. RowSettled(s)
    BY <1>0, <2>2 DEF RowSettled, AfterPayout, TradeRecord
  <2> QED
    BY <2>1, <2>3, RowsSettled
<1>8. CASE HoldRelease(t)
  <2> DEFINE s == [[r EXCEPT !.escrow = "ON_HOLD"] EXCEPT !.life = "RELEASE_ON_HOLD"]
  <2>1. trade' = [trade EXCEPT ![t] = s]
    BY <1>8 DEF HoldRelease, Transition
  <2>2. r.life \in {"RELEASE_PENDING", "SELLER_PAYOUT_CONFIRMED", "RELEASE_ON_HOLD"}
    BY <1>8 DEF HoldRelease
  <2>3. RowSettled(s)
    BY <1>0, <2>2 DEF RowSettled, AfterPayout, TradeRecord
  <2> QED
    BY <2>1, <2>3, RowsSettled
<1> QED
    BY <1>1, <1>2, <1>3, <1>4, <1>5, <1>6, <1>7, <1>8 DEF Settle

LEMMA OtherSettled ==
    ASSUME TypeOK, Linked, PayoutOrRefund, NEW t \in Trades,
           Register(t) \/ Reconcile(t) \/ Tick(t)
                \/ \E a \in Attempts : InitCheckout(t, a)
    PROVE  PayoutOrRefund'
<1> DEFINE r == trade[t]
<1>0. r \in TradeRecord /\ RowSettled(r)
    BY DEF TypeOK, PayoutOrRefund, RowSettled
<1>1. ASSUME NEW how \in {"direct", "listed"}, RegisterInsert(t, how)
      PROVE  PayoutOrRefund'
  <2>1. RowSettled(NewAwaitingPayment)
    BY DEF RowSettled, NewAwaitingPayment, AfterPayout
  <2> QED
    BY <1>1, <2>1, RowsSettled DEF RegisterInsert
<1>2. ASSUME NEW a \in Attempts, InitCheckout(t, a)
      PROVE  PayoutOrRefund'
  <2> DEFINE s == [r EXCEPT !.pay = "CHECKOUT_CREATED"]
  <2>1. trade' = [trade EXCEPT ![t] = s]
    BY <1>2 DEF InitCheckout, TypeOK
  <2>2. RowSettled(s)
    BY <1>0 DEF RowSettled, TradeRecord
  <2> QED
    BY <2>1, <2>2, RowsSettled
<1>3. CASE ExpireTrade(t)
  <2> DEFINE s == [[r EXCEPT !.pay = "EXPIRED", !.escrow = "CANCELLED"]
                       EXCEPT !.life = "CANCELLED"]
  <2>1. trade' = [trade EXCEPT ![t] = s]
    BY <1>3 DEF ExpireTrade, Transition
  <2>2. r.life = "AWAITING_PAYMENT"
    BY <1>3 DEF ExpireTrade
  <2>3. RowSettled(s)
    BY <1>0, <2>2 DEF RowSettled, AfterPayout, TradeRecord
  <2> QED
    BY <2>1, <2>3, RowsSettled
<1>4. CASE UNCHANGED trade
    BY <1>4, RowsUnchanged
<1>5. RegisterCheck(t) \/ OrderAllocate(t) \/ ExpireTail(t) \/ RefundTail(t)
          \/ CompleteTail(t) \/ Tick(t) => UNCHANGED trade
    BY DEF RegisterCheck, OrderAllocate, ExpireTail, RefundTail, CompleteTail,
           Tick, tableVars
<1> QED
    BY <1>1, <1>2, <1>3, <1>4, <1>5 DEF Register, Reconcile

LEMMA HandleSettled ==
    ASSUME TypeOK, Linked, PayoutOrRefund, NEW w \in Workers, Handle(w)
    PROVE  PayoutOrRefund'
<1>1. CASE ApplyPayment(w)
  <2> DEFINE t == att[worker[w].ref].trade
             pay == NewPayState(w)
             s == [trade[t] EXCEPT !.pay = pay,
                                   !.life = LifeAfter(trade[t].life, pay)]
  <2>1. t \in Trades /\ pay \in PayStates /\ trade' = [trade EXCEPT ![t] = s]
    BY <1>1, ApplyRows
  <2>2. trade[t] \in TradeRecord /\ RowSettled(trade[t])
    BY <2>1 DEF TypeOK, PayoutOrRefund, RowSettled
  <2> HIDE DEF t, pay
  <2>3. RowSettled(s)
    BY <2>1, <2>2, LifeAfterSettled
  <2> QED
    BY <2>1, <2>3, RowsSettled
<1>2. CASE ~ApplyPayment(w)
  <2>1. UNCHANGED trade
    BY <1>2
    DEF Handle, WebhookCheck, WebhookInsert, VerifyFetch, ReplayCheck,
        ApplyNothing, tableVars
  <2> QED
    BY <2>1, RowsUnchanged
<1> QED
    BY <1>1, <1>2

LEMMA SettledStep ==
    ASSUME TypeOK, Linked, PayoutOrRefund, [Next]_vars
    PROVE  PayoutOrRefund'
<1>1. CASE UNCHANGED vars
    BY <1>1, RowsUnchanged DEF vars
<1>2. ASSUME NEW a \in Attempts, Checkout(a) PROVE PayoutOrRefund'
    BY <1>2, RowsUnchanged
    DEF Checkout, CheckoutReady, CheckoutRefused, CheckoutTimeout,
        VerifyUnavailable, tableVars
<1>3. ASSUME NEW x \in TxIds, Pay(x) PROVE PayoutOrRefund'
    BY <1>3, RowsUnchanged DEF Pay, PayStart, PaySettle, tableVars
<1>4. CASE Next
    BY <1>2, <1>3, <1>4, SettleSettled, OtherSettled, HandleSettled DEF Next
<1> QED
    BY <1>1, <1>4

(* A seller's payout and a buyer's refund are never both on the books of a  *)
(* trade, and custody is released only for a completed one.                 *)
THEOREM SettlementExclusive == Spec => []PayoutOrRefund
<1>1. Init => PayoutOrRefund
    BY DEF Init, PayoutOrRefund, AbsentTrade, NewAwaitingPayment, AfterPayout
<1>2. TypeOK /\ Linked /\ PayoutOrRefund /\ [Next]_vars => PayoutOrRefund'
    BY SettledStep
<1> QED
    BY <1>1, <1>2, TypeCorrect, PTL DEF Spec

-----------------------------------------------------------------------------
(* Payment before settlement.                                               *)

(* What the service was paid is never undone: attempts keep their trade,    *)
(* transactions keep the attempt and the amount they were started with, and *)
(* a transaction is consumed for the trade of its attempt.                  *)
HistoryKept ==
    /\ \A a \in Attempts :
          att[a].status # "NONE" => att'[a].trade = att[a].trade
    /\ \A x \in TxIds :
          prov[x].hist # {} => /\ prov'[x].ref = prov[x].ref
                               /\ prov'[x].amt = prov[x].amt
                               /\ prov[x].hist \subseteq prov'[x].hist
    /\ \A x \in TxIds :
          consumed'[x] = consumed[x] \/ consumed'[x] = att[prov[x].ref].trade

LEMMA HistoryFrame ==
    ASSUME UNCHANGED <<att, prov, consumed>>
    PROVE  HistoryKept
    BY DEF HistoryKept

LEMMA HistoryRows ==
    ASSUME AttemptRowsKept, UNCHANGED <<prov, consumed>>
    PROVE  HistoryKept
    BY DEF HistoryKept, AttemptRowsKept

LEMMA PayHistory ==
    ASSUME TypeOK, NEW x \in TxIds, Pay(x)
    PROVE  HistoryKept
<1>0. prov \in [TxIds -> ProviderTx]
    BY DEF TypeOK
<1>1. ASSUME NEW a \in Attempts, NEW amount \in Amounts, PayStart(x, a, amount)
      PROVE  HistoryKept
    BY <1>0, <1>1 DEF PayStart, HistoryKept, tableVars
<1>2. ASSUME NEW st \in {"successful", "failed"}, PaySettle(x, st)
      PROVE  HistoryKept
    BY <1>0, <1>2 DEF PaySettle, HistoryKept, ProviderTx, tableVars
<1> QED
    BY <1>1, <1>2 DEF Pay

LEMMA ApplyHistory ==
    ASSUME TypeOK, Linked, NEW w \in Workers, ApplyPayment(w)
    PROVE  HistoryKept
<1> DEFINE tx == worker[w].tx
<1>1. AttemptRowsKept
    BY ApplyKeepsRows
<1>2. tx \in TxIds /\ prov[tx].ref = worker[w].ref
    BY ApplyRows
<1>3. consumed' = consumed
          \/ consumed' = [consumed EXCEPT ![tx] = att[worker[w].ref].trade]
    BY DEF ApplyPayment
<1>4. \A x \in TxIds :
         consumed'[x] = consumed[x] \/ consumed'[x] = att[prov[x].ref].trade
    BY <1>2, <1>3 DEF TypeOK
<1>5. UNCHANGED prov
    BY DEF ApplyPayment
<1> QED
    BY <1>1, <1>4, <1>5 DEF HistoryKept, AttemptRowsKept

LEMMA HandleHistory ==
    ASSUME TypeOK, Linked, NEW w \in Workers, Handle(w)
    PROVE  HistoryKept
<1>1. CASE ApplyPayment(w)
    BY <1>1, ApplyHistory
<1>2. CASE ~ApplyPayment(w)
  <2>1. UNCHANGED <<att, prov, consumed>>
    BY <1>2
    DEF Handle, WebhookCheck, WebhookInsert, VerifyFetch, ReplayCheck,
        ApplyNothing, tableVars
  <2> QED
    BY <2>1, HistoryFrame
<1> QED
    BY <1>1, <1>2

LEMMA InitCheckoutHistory ==
    ASSUME TypeOK, NEW t \in Trades, NEW a \in Attempts, InitCheckout(t, a)
    PROVE  HistoryKept
<1>1. \A b \in Attempts \ {a} : att'[b] = att[b]
    BY DEF InitCheckout, TypeOK
<1> QED
    BY <1>1 DEF InitCheckout, HistoryKept

LEMMA TradeHistory ==
    ASSUME TypeOK, Linked, NEW t \in Trades,
           Register(t) \/ Settle(t) \/ Reconcile(t) \/ Tick(t)
    PROVE  HistoryKept
<1>1. CASE ExpireTrade(t)
    BY <1>1, ExpireKeepsRows, HistoryRows DEF ExpireTrade
<1>2. CASE Settle(t)
  <2>1. UNCHANGED othersOfTrade
    BY <1>2
    DEF Settle, InitiatePayout, ConfirmPayout, HoldPayout, RequestRefund,
        CompleteRefund, RequestRelease, ConfirmRelease, HoldRelease
  <2> QED
    BY <2>1, HistoryFrame DEF othersOfTrade
<1>3. CASE Register(t) \/ Tick(t) \/ ExpireTail(t) \/ RefundTail(t) \/ CompleteTail(t)
    BY <1>3, HistoryFrame
    DEF Register, RegisterCheck, OrderAllocate, RegisterInsert, Tick,
        ExpireTail, RefundTail, CompleteTail, tableVars
<1> QED
    BY <1>1, <1>2, <1>3 DEF Reconcile

LEMMA StepHistory ==
    ASSUME TypeOK, Linked, [Next]_vars
    PROVE  HistoryKept
<1>1. CASE UNCHANGED vars
    BY <1>1, HistoryFrame DEF vars
<1>2. ASSUME NEW a \in Attempts, Checkout(a) PROVE HistoryKept
  <2>1. CASE CheckoutReady(a)
    BY <2>1, ReadyKeepsRows, HistoryRows DEF CheckoutReady
  <2>2. CASE ~CheckoutReady(a)
    BY <1>2, <2>2, HistoryFrame
    DEF Checkout, CheckoutRefused, CheckoutTimeout, VerifyUnavailable, tableVars
  <2> QED
    BY <2>1, <2>2
<1>3. CASE Next
    BY <1>2, <1>3, PayHistory, HandleHistory, InitCheckoutHistory, TradeHistory
    DEF Next
<1> QED
    BY <1>1, <1>3

(* A payment stays the payment of its trade.                                *)
LEMMA PaidStays ==
    ASSUME TypeOK, Linked, HistoryKept, NEW t \in Trades, Paid(t)
    PROVE  Paid(t)'
<1>1. PICK x \in TxIds : PaysFor(x, t)
    BY DEF Paid
<1>2. /\ consumed[x] = t /\ prov[x].amt = "exact"
      /\ "successful" \in prov[x].hist /\ att[prov[x].ref].trade = t
    BY <1>1 DEF PaysFor
<1>3. prov[x].ref \in Attempts /\ att[prov[x].ref].status # "NONE"
    BY <1>2 DEF Linked
<1>4. /\ prov'[x].ref = prov[x].ref /\ prov'[x].amt = "exact"
      /\ "successful" \in prov'[x].hist
    BY <1>2 DEF HistoryKept
<1>5. att'[prov'[x].ref].trade = t
    BY <1>2, <1>3, <1>4 DEF HistoryKept
<1>6. consumed'[x] = t
    BY <1>2 DEF HistoryKept
<1>7. PaysFor(x, t)'
    BY <1>4, <1>5, <1>6 DEF PaysFor
<1> QED
    BY <1>7 DEF Paid

(* Among the legal moves, only the two into PAYMENT_CONFIRMED and           *)
(* LATE_PAYMENT_REVIEW lead from before payment to after it.                *)
LEMMA LegalAfterPayment ==
    ASSUME NEW from, NEW next,
           CanTransition(from, next), next \in AfterPayment,
           next \notin {"PAYMENT_CONFIRMED", "LATE_PAYMENT_REVIEW"}
    PROVE  from \in AfterPayment
<1>1. CASE from = next
    BY <1>1
<1>2. CASE <<from, next>> \in LegalMoves
    BY <1>2 DEF LegalMoves, AfterPayment
<1> QED
    BY <1>1, <1>2 DEF CanTransition

(* The routes of payout, refund and release never move a trade past         *)
(* payment.                                                                 *)
LEMMA SettleNeedsPayment ==
    ASSUME TypeOK, NEW t \in Trades, NEW u \in Trades, Settle(u),
           trade'[t].life \in AfterPayment
    PROVE  trade[t].life \in AfterPayment
<1>1. trade \in [Trades -> TradeRecord]
    BY DEF TypeOK
<1>2. ASSUME NEW next \in LifeStates, NEW rest \in TradeRecord,
             Transition(u, next, rest),
             next \notin {"PAYMENT_CONFIRMED", "LATE_PAYMENT_REVIEW"}
      PROVE  trade[t].life \in AfterPayment
  <2>1. CASE t # u
    BY <1>1, <1>2, <2>1 DEF Transition
  <2>2. CASE t = u
    <3>1. trade'[t].life = next
      BY <1>1, <1>2, <2>2 DEF Transition, TradeRecord
    <3> QED
      BY <1>2, <2>2, <3>1, LegalAfterPayment DEF Transition
  <2> QED
    BY <2>1, <2>2
<1>3. CASE ConfirmPayout(u)
  <2>1. trade[u].life \in AfterPayment
    BY <1>3 DEF ConfirmPayout, AfterPayment
  <2>2. t # u => trade'[t] = trade[t]
    BY <1>1, <1>3 DEF ConfirmPayout
  <2> QED
    BY <2>1, <2>2
<1> QED
    BY <1>2, <1>3, SettleMoves DEF MoveOf

(* Only a payment that the provider reports successful, of the exact        *)
(* amount, moves a trade past payment, and it is on the books by then.      *)
LEMMA ApplyPays ==
    ASSUME TypeOK, Linked, NEW w \in Workers, ApplyPayment(w), NEW t \in Trades,
           trade[t].life \notin AfterPayment, trade'[t].life \in AfterPayment
    PROVE  Paid(t)'
<1> DEFINE a == worker[w].ref
           x == worker[w].tx
           pay == NewPayState(w)
           s == [trade[att[a].trade] EXCEPT
                    !.pay = pay, !.life = LifeAfter(trade[att[a].trade].life, pay)]
<1>1. /\ a \in Attempts /\ att[a].trade \in Trades /\ x \in TxIds
      /\ prov[x].ref = a
      /\ trade' = [trade EXCEPT ![att[a].trade] = s]
    BY ApplyRows
<1>2. worker[w].st \in prov[x].hist /\ att[a].status # "NONE"
    BY DEF ApplyPayment, Linked
<1>3. UNCHANGED prov /\ (worker[w].st = "successful" =>
                            consumed' = [consumed EXCEPT ![x] = att[a].trade])
    BY DEF ApplyPayment
<1>4. t = att[a].trade
    BY <1>1 DEF TypeOK
<1>5. s.life = LifeAfter(trade[t].life, pay)
    BY <1>4 DEF TypeOK, TradeRecord
<1>6. pay \in {"CONFIRMED", "LATE_CONFIRMED"}
  <2>1. trade'[t].life = LifeAfter(trade[t].life, pay)
    BY <1>1, <1>4, <1>5 DEF TypeOK
  <2> HIDE DEF pay
  <2> QED
    BY <2>1 DEF LifeAfter, AfterPayment
<1>7. worker[w].st = "successful" /\ prov[x].amt = "exact"
  <2>1. worker[w].st \in TxStatus /\ prov[x].amt \in AmountKinds
    BY <1>1 DEF TypeOK, WorkerRecord, ProviderTx
  <2> QED
    BY <1>6, <2>1 DEF NewPayState, TxStatus, AmountKinds
<1>8. consumed'[x] = t
    BY <1>1, <1>3, <1>4, <1>7 DEF TypeOK
<1>9. att'[prov'[x].ref].trade = t
  <2>1. AttemptRowsKept
    BY ApplyKeepsRows
  <2> QED
    BY <1>1, <1>2, <1>3, <1>4, <2>1 DEF AttemptRowsKept
<1>10. PICK y \in TxIds : y = x
    BY <1>1
<1>11. PaysFor(y, t)'
    BY <1>2, <1>3, <1>7, <1>8, <1>9, <1>10 DEF PaysFor
<1> QED
    BY <1>11 DEF Paid

LEMMA OthersNeedPayment ==
    ASSUME TypeOK, NEW t \in Trades, NEW u \in Trades,
           Register(u) \/ Reconcile(u) \/ Tick(u)
                \/ \E a \in Attempts : InitCheckout(u, a),
           trade'[t].life \in AfterPayment
    PROVE  trade[t].life \in AfterPayment
<1>0. trade \in [Trades -> TradeRecord]
    BY DEF TypeOK
<1>1. ASSUME NEW how \in {"direct", "listed"}, RegisterInsert(u, how)
      PROVE  trade[t].life \in AfterPayment
    BY <1>0, <1>1 DEF RegisterInsert, NewAwaitingPayment, AfterPayment
<1>2. ASSUME NEW a \in Attempts, InitCheckout(u, a)
      PROVE  trade[t].life \in AfterPayment
  <2>1. trade' = [trade EXCEPT ![u] = [trade[u] EXCEPT !.pay = "CHECKOUT_CREATED"]]
    BY <1>0, <1>2 DEF InitCheckout
  <2>2. [trade[u] EXCEPT !.pay = "CHECKOUT_CREATED"].life = trade[u].life
    BY <1>0 DEF TradeRecord
  <2> QED
    BY <1>0, <2>1, <2>2
<1>3. CASE ExpireTrade(u)
  <2>1. trade' = [trade EXCEPT ![u] =
                     [[trade[u] EXCEPT !.pay = "EXPIRED", !.escrow = "CANCELLED"]
                          EXCEPT !.life = "CANCELLED"]]
    BY <1>3 DEF ExpireTrade, Transition
  <2>2. [[trade[u] EXCEPT !.pay = "EXPIRED", !.escrow = "CANCELLED"]
             EXCEPT !.life = "CANCELLED"].life = "CANCELLED"
    BY <1>0 DEF TradeRecord
  <2> QED
    BY <1>0, <2>1, <2>2 DEF AfterPayment
<1>4. CASE UNCHANGED trade
    BY <1>4
<1>5. RegisterCheck(u) \/ OrderAllocate(u) \/ ExpireTail(u) \/ RefundTail(u)
          \/ CompleteTail(u) \/ Tick(u) => UNCHANGED trade
    BY DEF RegisterCheck, OrderAllocate, ExpireTail, RefundTail, CompleteTail,
           Tick, tableVars
<1> QED
    BY <1>1, <1>2, <1>3, <1>4, <1>5 DEF Register, Reconcile

LEMMA PaidStep ==
    ASSUME TypeOK, Linked, PaidBeforeSettlement, [Next]_vars
    PROVE  PaidBeforeSettlement'
<1> SUFFICES ASSUME NEW t \in Trades, trade'[t].life \in AfterPayment
             PROVE  Paid(t)'
    BY DEF PaidBeforeSettlement
<1>1. CASE trade[t].life \in AfterPayment
  <2>1. Paid(t)
    BY <1>1 DEF PaidBeforeSettlement
  <2> QED
    BY <2>1, StepHistory, PaidStays
<1>2. CASE trade[t].life \notin AfterPayment
  <2>1. ASSUME NEW w \in Workers, Handle(w) PROVE Paid(t)'
    <3>1. CASE ApplyPayment(w)
      BY <1>2, <3>1, ApplyPays
    <3>2. CASE ~ApplyPayment(w)
      <4>1. UNCHANGED trade
        BY <2>1, <3>2
        DEF Handle, WebhookCheck, WebhookInsert, VerifyFetch, ReplayCheck,
            ApplyNothing, tableVars
      <4> QED
        BY <1>2, <4>1
    <3> QED
      BY <3>1, <3>2
  <2>2. ASSUME NEW a \in Attempts, Checkout(a) PROVE UNCHANGED trade
    BY <2>2
    DEF Checkout, CheckoutReady, CheckoutRefused, CheckoutTimeout,
        VerifyUnavailable, tableVars
  <2>3. ASSUME NEW x \in TxIds, Pay(x) PROVE UNCHANGED trade
    BY <2>3 DEF Pay, PayStart, PaySettle, tableVars
  <2>4. UNCHANGED vars => UNCHANGED trade
    BY DEF vars
  <2>5. ~UNCHANGED trade
    BY <1>2
  <2> QED
    BY <1>2, <2>1, <2>2, <2>3, <2>4, <2>5, SettleNeedsPayment, OthersNeedPayment
    DEF Next
<1> QED
    BY <1>1, <1>2

(* A trade is paid out, released, completed or held for review only when a  *)
(* transaction of its own checkout, of the exact amount and successful at   *)
(* the provider, was consumed for it, for any number of concurrent webhooks *)
(* and verification calls, in any order.                                    *)
THEOREM PaymentPrecedesSettlement == Spec => []PaidBeforeSettlement
<1>1. Init => PaidBeforeSettlement
    BY DEF Init, PaidBeforeSettlement, AbsentTrade, NewAwaitingPayment, AfterPayment
<1>2. TypeOK /\ Linked /\ PaidBeforeSettlement /\ [Next]_vars => PaidBeforeSettlement'
    BY PaidStep
<1> QED
    BY <1>1, <1>2, TypeCorrect, PTL DEF Spec

-----------------------------------------------------------------------------
(* No transaction pays twice.                                               *)

(* A consumed transaction succeeded at the provider and is consumed for the *)
(* trade of the checkout it was made for.                                   *)
ConsumedForOwnTrade ==
    \A x \in TxIds :
        consumed[x] # NoTrade => /\ "successful" \in prov[x].hist
                                 /\ consumed[x] = att[prov[x].ref].trade

(* consumed_flw_tx_ids is written only for a transaction that succeeded.    *)
LEMMA ConsumedSucceeded ==
    ASSUME TypeOK, Linked, Next, NEW x \in TxIds, consumed'[x] # consumed[x]
    PROVE  "successful" \in prov[x].hist
<1>1. ASSUME NEW w \in Workers, Handle(w) PROVE "successful" \in prov[x].hist
  <2>1. CASE ApplyPayment(w)
    <3>1. x = worker[w].tx /\ worker[w].st = "successful"
      BY <2>1 DEF ApplyPayment, TypeOK
    <3> QED
      BY <2>1, <3>1 DEF ApplyPayment, Linked
  <2>2. CASE ~ApplyPayment(w)
    BY <1>1, <2>2
    DEF Handle, WebhookCheck, WebhookInsert, VerifyFetch, ReplayCheck,
        ApplyNothing, tableVars
  <2> QED
    BY <2>1, <2>2
<1>2. ASSUME NEW a \in Attempts, Checkout(a) PROVE UNCHANGED consumed
    BY <1>2
    DEF Checkout, CheckoutReady, CheckoutRefused, CheckoutTimeout,
        VerifyUnavailable, tableVars
<1>3. ASSUME NEW y \in TxIds, Pay(y) PROVE UNCHANGED consumed
    BY <1>3 DEF Pay, PayStart, PaySettle, tableVars
<1>4. ASSUME NEW t \in Trades, Settle(t) PROVE UNCHANGED consumed
    BY <1>4
    DEF Settle, InitiatePayout, ConfirmPayout, HoldPayout, RequestRefund,
        CompleteRefund, RequestRelease, ConfirmRelease, HoldRelease, othersOfTrade
<1>5. ASSUME NEW t \in Trades, Register(t) \/ Reconcile(t) \/ Tick(t)
      PROVE  UNCHANGED consumed
    BY <1>5
    DEF Register, RegisterCheck, OrderAllocate, RegisterInsert, Reconcile,
        ExpireTrade, ExpireTail, RefundTail, CompleteTail, Tick, tableVars
<1>6. ASSUME NEW t \in Trades, NEW a \in Attempts, InitCheckout(t, a)
      PROVE  UNCHANGED consumed
    BY <1>6 DEF InitCheckout
<1> QED
    BY <1>1, <1>2, <1>3, <1>4, <1>5, <1>6 DEF Next

LEMMA ConsumedStep ==
    ASSUME TypeOK, Linked, ConsumedForOwnTrade, [Next]_vars
    PROVE  /\ ConsumedForOwnTrade'
           /\ \A x \in TxIds :
                 consumed'[x] # consumed[x] =>
                     /\ consumed[x] = NoTrade
                     /\ consumed'[x] = att[prov[x].ref].trade
<1>1. HistoryKept
    BY StepHistory
<1>2. ASSUME NEW x \in TxIds, consumed'[x] # consumed[x]
      PROVE  /\ "successful" \in prov[x].hist
             /\ consumed[x] = NoTrade
             /\ consumed'[x] = att[prov[x].ref].trade
  <2>1. Next
    BY <1>2 DEF vars
  <2> QED
    BY <1>1, <1>2, <2>1, ConsumedSucceeded DEF HistoryKept, ConsumedForOwnTrade
<1>3. ASSUME NEW x \in TxIds, "successful" \in prov[x].hist
      PROVE  /\ "successful" \in prov'[x].hist
             /\ att'[prov'[x].ref].trade = att[prov[x].ref].trade
    BY <1>1, <1>3 DEF HistoryKept, Linked
<1>4. ConsumedForOwnTrade'
    BY <1>2, <1>3 DEF ConsumedForOwnTrade
<1> QED
    BY <1>2, <1>4

(* Each provider transaction is consumed by one trade, once and for all:    *)
(* replaying its id on another trade's checkout changes nothing.            *)
THEOREM ReplayRejected == Spec => ConsumedOnce
<1>1. Init => ConsumedForOwnTrade
    BY DEF Init, ConsumedForOwnTrade
<1>2. TypeOK /\ Linked /\ ConsumedForOwnTrade /\ [Next]_vars => ConsumedForOwnTrade'
    BY ConsumedStep
<1>3. TypeOK /\ Linked /\ ConsumedForOwnTrade /\ [Next]_vars =>
          [\A x \in TxIds :
               consumed'[x] # consumed[x] =>
                   /\ consumed[x] = NoTrade
                   /\ consumed'[x] = att[prov[x].ref].trade]_vars
    BY ConsumedStep
<1> QED
    BY <1>1, <1>2, <1>3, TypeCorrect, PTL DEF Spec, ConsumedOnce

-----------------------------------------------------------------------------
(* What TradeLifecycle promises when no caller registers an id that is in  *)
(* use (ReuseIds is FALSE, as in every run but one): a verified payment is *)
(* not dropped, inventory and trust follow the trade, what is settled      *)
(* stays settled, and the records implement SettlementPromise.  The        *)
(* argument goes trade by trade: every action is a step of one trade       *)
(* (RowStep) that leaves all others as they are (Same).                    *)

(* The states of a trade that can no longer be released.                    *)
Ended == {"CANCELLED", "LATE_PAYMENT_REVIEW", "REFUND_PENDING"}

(* The states of a paid trade on its way to release.                        *)
Paying == AfterPayment \ {"COMPLETED", "LATE_PAYMENT_REVIEW"}

-----------------------------------------------------------------------------
(* The inductive invariant.                                                 *)

(* An id is claimed by one registration at a time, before its row exists.   *)
RegistersFresh ==
    \A t \in Trades : \E how \in {"direct", "listed"} :
        /\ registering[t] \subseteq {how}
        /\ registering[t] # {} => trade[t].life = "ABSENT"

(* The trade of an attempt exists.                                          *)
AttemptsRegistered ==
    \A a \in Attempts :
        att[a].status # "NONE" => trade[att[a].trade].life # "ABSENT"

(* What a trade that ended or completed still owes (tails) and has already  *)
(* done (strikes, credits, listing): each of it once, in the state for it.  *)
ResolvedRow(t) ==
    /\ "expire" \in tails[t] \/ "refund" \in tails[t] \/ strikes[t] > 0
           => trade[t].life \in Ended
    /\ listing[t] = "available" \/ trade[t].escrow = "CANCELLED"
           => trade[t].life \in Ended
    /\ "complete" \in tails[t] \/ credits[t] > 0 \/ listing[t] = "filled"
           => trade[t].life = "COMPLETED"
    /\ strikes[t] <= 1
    /\ credits[t] <= 1
    /\ "expire" \in tails[t] => strikes[t] = 0
    /\ "complete" \in tails[t] => credits[t] = 0
    /\ trade[t].life \in {"COMPLETED", "CANCELLED"} /\ tails[t] = {}
           => listing[t] # "allocated"

Resolved == \A t \in Trades : ResolvedRow(t)

(* A trade is cancelled by a refund or after its deadline.                  *)
CancelledWhy(t) ==
    trade[t].life = "CANCELLED" => trade[t].refund = "COMPLETED" \/ clock[t] = "after"

(* NoPaymentDropped of one trade.                                           *)
Honoured(t) ==
    Paid(t) => /\ trade[t].life # "AWAITING_PAYMENT"
               /\ trade[t].life = "CANCELLED" => trade[t].refund = "COMPLETED"

CancelledOwed == \A t \in Trades : CancelledWhy(t) /\ Honoured(t)

Base == TypeOK /\ Linked /\ PayoutOrRefund /\ PaidBeforeSettlement /\ ConsumedForOwnTrade

FreshInv ==
    Base /\ RegistersFresh /\ AttemptsRegistered /\ Resolved /\ CancelledOwed

-----------------------------------------------------------------------------
(* Rows.  What each action does to the fields of a trade row.               *)

(* A payout or release route before completion.                             *)
Proceeds(r, s) ==
    /\ r.life \in Paying /\ s.life \in Paying
    /\ s.refund = r.refund
    /\ s.escrow \in {r.escrow, "RELEASE_PENDING", "ON_HOLD"}
    /\ r.payout = "CONFIRMED" => s.payout = "CONFIRMED"

AsksRefund(r, s) ==
    /\ r.life \in {"PAYOUT_ON_HOLD", "LATE_PAYMENT_REVIEW", "PAYMENT_CONFIRMED",
                   "AWAITING_PAYMENT"}
    /\ s.life = "REFUND_PENDING"
    /\ s.payout = r.payout /\ s.escrow = r.escrow

EndsRefund(r, s) ==
    /\ r.life = "REFUND_PENDING" /\ s.life = "CANCELLED"
    /\ s.refund = "COMPLETED" /\ s.escrow = "CANCELLED"
    /\ s.payout = r.payout

Completes(r, s) ==
    /\ r.life \in {"RELEASE_PENDING", "RELEASE_ON_HOLD"} /\ s.life = "COMPLETED"
    /\ s.escrow = "RELEASED"
    /\ s.payout = r.payout /\ s.refund = r.refund

Expires(r, s) ==
    /\ r.life = "AWAITING_PAYMENT" /\ s.life = "CANCELLED"
    /\ s.escrow = "CANCELLED"
    /\ s.payout = r.payout /\ s.refund = r.refund

(* A payment, or a new checkout: only pay and life may change.              *)
OnlyPay(r, s) ==
    s = [r EXCEPT !.pay = s.pay]

Confirms(r, s) ==
    /\ s = [r EXCEPT !.pay = s.pay, !.life = s.life]
    /\ \/ r.life = "AWAITING_PAYMENT"
          /\ s.life \in {"PAYMENT_CONFIRMED", "LATE_PAYMENT_REVIEW"}
       \/ r.life = "CANCELLED" /\ s.life = "LATE_PAYMENT_REVIEW"

-----------------------------------------------------------------------------
(* Steps of one trade.                                                      *)

Books(t, tl, li, st, cr) ==
    tails'[t] = tl /\ listing'[t] = li /\ strikes'[t] = st /\ credits'[t] = cr

Owes(t, tail) ==
    Books(t, tails[t] \cup {tail}, listing[t], strikes[t], credits[t])

SameBooks(t) == Books(t, tails[t], listing[t], strikes[t], credits[t])

SameClaim(t) == registering'[t] = registering[t]

SamePaid(t) == Paid(t)' = Paid(t)

(* Nothing of the trade changes; its deadline may come closer.              *)
Same(t) ==
    /\ trade'[t] = trade[t] /\ SameBooks(t) /\ SameClaim(t) /\ SamePaid(t)
    /\ clock[t] = "after" => clock'[t] = "after"

(* Payout, refund, release and expiry.                                      *)
SettleRow(t) ==
    \/ Proceeds(trade[t], trade'[t]) /\ SameBooks(t)
    \/ AsksRefund(trade[t], trade'[t]) /\ SameBooks(t)
    \/ EndsRefund(trade[t], trade'[t]) /\ Owes(t, "refund")
    \/ Completes(trade[t], trade'[t]) /\ Owes(t, "complete")
    \/ Expires(trade[t], trade'[t]) /\ Owes(t, "expire") /\ clock[t] = "after"

(* A checkout or a payment: it leaves an unpaid trade unpaid, moves it, or  *)
(* finds it past AWAITING_PAYMENT and, if cancelled, refunded.              *)
PayRow(t) ==
    /\ SameBooks(t)
    /\ \/ OnlyPay(trade[t], trade'[t]) /\ SamePaid(t)
       \/ Confirms(trade[t], trade'[t]) /\ Paid(t)'
       \/ /\ OnlyPay(trade[t], trade'[t]) /\ Paid(t)'
          /\ trade[t].life \notin {"ABSENT", "AWAITING_PAYMENT"}
          /\ trade[t].life = "CANCELLED" => trade[t].refund = "COMPLETED"

(* The tails: what a handler does once it released the trade.               *)
TailRow(t) ==
    /\ trade'[t] = trade[t]
    /\ \E bucket \in {"available", "filled"} :
          LET freed == IF listing[t] = "allocated" THEN bucket ELSE listing[t]
          IN  \/ /\ "expire" \in tails[t] /\ bucket = "available"
                 /\ Books(t, tails[t] \ {"expire"}, freed, strikes[t] + 1, credits[t])
              \/ /\ "refund" \in tails[t] /\ bucket = "available"
                 /\ Books(t, tails[t] \ {"refund"}, freed, strikes[t], credits[t])
              \/ /\ "complete" \in tails[t] /\ bucket = "filled"
                 /\ Books(t, tails[t] \ {"complete"}, freed, strikes[t], credits[t] + 1)

(* A registration claims the id of a trade that does not exist.             *)
ClaimRow(t) ==
    /\ trade[t].life = "ABSENT" /\ trade'[t] = trade[t]
    /\ registering[t] = {}
    /\ \E how \in {"direct", "listed"} : registering'[t] = {how}
    /\ \/ SameBooks(t)
       \/ Books(t, tails[t], "allocated", strikes[t], credits[t])

InsertRow(t) ==
    /\ trade[t].life = "ABSENT" /\ trade'[t] = NewAwaitingPayment
    /\ SameBooks(t)
    /\ \E how \in registering[t] : registering'[t] = registering[t] \ {how}

RowStep(t) ==
    \/ ClaimRow(t) /\ SamePaid(t) /\ clock'[t] = clock[t]
    \/ InsertRow(t) /\ SamePaid(t)
    \/ /\ SameClaim(t) /\ clock'[t] = clock[t]
       /\ \/ PayRow(t)
          \/ SettleRow(t) /\ SamePaid(t)
          \/ TailRow(t) /\ SamePaid(t)

-----------------------------------------------------------------------------
(* Each action is such a step.                                              *)

(* A legal move leaves a row of the state it moves to.                      *)
LEMMA MovedRow ==
    ASSUME TypeOK, NEW t \in Trades, NEW next, NEW rest \in TradeRecord,
           Transition(t, next, rest)
    PROVE  /\ CanTransition(trade[t].life, next)
           /\ trade'[t].life = next
           /\ trade'[t].payout = rest.payout
           /\ trade'[t].refund = rest.refund
           /\ trade'[t].escrow = rest.escrow
           /\ \A u \in Trades \ {t} : trade'[u] = trade[u]
    BY DEF Transition, TypeOK, TradeRecord

(* The rows of payout, refund and release.                                  *)
LEMMA SettleRows ==
    ASSUME TypeOK, PayoutOrRefund, NEW t \in Trades, Settle(t)
    PROVE  SettleRow(t) /\ \A u \in Trades \ {t} : trade'[u] = trade[u]
<1>0. trade \in [Trades -> TradeRecord] /\ trade[t] \in TradeRecord
      /\ tails \in [Trades -> SUBSET {"expire", "refund", "complete"}]
    BY DEF TypeOK
<1>. DEFINE r == trade[t]
<1>b. UNCHANGED <<listing, strikes, credits>>
    BY DEF Settle, InitiatePayout, ConfirmPayout, HoldPayout, RequestRefund,
           CompleteRefund, RequestRelease, ConfirmRelease, HoldRelease, othersOfTrade
<1>c. r.payout = "CONFIRMED" => r.life \in AfterPayout
    BY DEF PayoutOrRefund
<1>1. CASE InitiatePayout(t)
  <2>1. [r EXCEPT !.payout = "PROCESSING"] \in TradeRecord
    BY <1>0, RowTyped DEF PayoutStates
  <2>2. Transition(t, "SELLER_PAYOUT_PENDING", [r EXCEPT !.payout = "PROCESSING"])
        /\ SameBooks(t)
        /\ r.life \in {"PAYMENT_CONFIRMED", "PAYOUT_ON_HOLD", "SELLER_PAYOUT_PENDING"}
    BY <1>1, <1>b DEF InitiatePayout, SameBooks, Books
  <2>3. Proceeds(r, trade'[t])
    BY <1>0, <1>c, <2>1, <2>2, MovedRow
    DEF Proceeds, Paying, AfterPayment, AfterPayout, TradeRecord
  <2> QED
    BY <2>1, <2>2, <2>3, MovedRow DEF SettleRow
<1>2. CASE ConfirmPayout(t)
  <2>1. /\ trade'[t] = [r EXCEPT !.life = "SELLER_PAYOUT_CONFIRMED",
                                 !.payout = "CONFIRMED"]
        /\ \A u \in Trades \ {t} : trade'[u] = trade[u]
        /\ r.life \in {"SELLER_PAYOUT_PENDING", "PAYMENT_CONFIRMED", "PAYOUT_ON_HOLD"}
        /\ SameBooks(t)
    BY <1>0, <1>2, <1>b DEF ConfirmPayout, SameBooks, Books, TradeRecord
  <2>2. Proceeds(r, trade'[t])
    BY <1>0, <2>1 DEF Proceeds, Paying, AfterPayment, TradeRecord
  <2> QED
    BY <2>1, <2>2 DEF SettleRow
<1>3. CASE HoldPayout(t)
  <2>1. [r EXCEPT !.payout = "ON_HOLD"] \in TradeRecord
    BY <1>0, RowTyped DEF PayoutStates
  <2>2. Transition(t, "PAYOUT_ON_HOLD", [r EXCEPT !.payout = "ON_HOLD"]) /\ SameBooks(t)
    BY <1>3, <1>b DEF HoldPayout, SameBooks, Books
  <2>3. r.life \in {"PAYMENT_CONFIRMED", "SELLER_PAYOUT_PENDING", "PAYOUT_ON_HOLD"}
    BY <1>0, <2>2 DEF Transition, CanTransition, LegalMoves
  <2>4. Proceeds(r, trade'[t])
    BY <1>0, <1>c, <2>1, <2>2, <2>3, MovedRow
    DEF Proceeds, Paying, AfterPayment, AfterPayout, TradeRecord
  <2> QED
    BY <2>1, <2>2, <2>4, MovedRow DEF SettleRow
<1>4. CASE RequestRefund(t)
  <2>1. [r EXCEPT !.refund = "REQUESTED"] \in TradeRecord
    BY <1>0, RowTyped DEF RefundStates
  <2>2. Transition(t, "REFUND_PENDING", [r EXCEPT !.refund = "REQUESTED"])
        /\ SameBooks(t)
        /\ r.life \in {"PAYOUT_ON_HOLD", "LATE_PAYMENT_REVIEW", "PAYMENT_CONFIRMED",
                       "AWAITING_PAYMENT"}
    BY <1>4, <1>b DEF RequestRefund, SameBooks, Books
  <2>3. AsksRefund(r, trade'[t])
    BY <1>0, <2>1, <2>2, MovedRow DEF AsksRefund, TradeRecord
  <2> QED
    BY <2>1, <2>2, <2>3, MovedRow DEF SettleRow
<1>5. CASE CompleteRefund(t)
  <2> DEFINE rest == [r EXCEPT !.refund = "COMPLETED", !.escrow = "CANCELLED"]
  <2>1. rest \in TradeRecord
    BY <1>0, RowTyped DEF RefundStates, EscrowStates
  <2>2. Transition(t, "CANCELLED", rest) /\ Owes(t, "refund") /\ r.life = "REFUND_PENDING"
    BY <1>0, <1>5, <1>b DEF CompleteRefund, Owes, Books
  <2>3. rest.refund = "COMPLETED" /\ rest.escrow = "CANCELLED" /\ rest.payout = r.payout
    BY <1>0 DEF TradeRecord
  <2> HIDE DEF rest
  <2>4. EndsRefund(r, trade'[t])
    BY <2>1, <2>2, <2>3, MovedRow DEF EndsRefund
  <2> QED
    BY <2>1, <2>2, <2>4, MovedRow DEF SettleRow
<1>6. ASSUME NEW hash \in BOOLEAN, RequestRelease(t, hash)
      PROVE  SettleRow(t) /\ \A u \in Trades \ {t} : trade'[u] = trade[u]
  <2> DEFINE rest == [r EXCEPT !.escrow = "RELEASE_PENDING", !.txHash = hash]
  <2>1. rest \in TradeRecord
    BY <1>0, RowTyped DEF EscrowStates
  <2>2. Transition(t, "RELEASE_PENDING", rest)
        /\ SameBooks(t)
        /\ r.life \in {"SELLER_PAYOUT_CONFIRMED", "RELEASE_PENDING", "RELEASE_ON_HOLD"}
    BY <1>6, <1>b DEF RequestRelease, ReleaseEligible, SameBooks, Books
  <2>3. /\ rest.refund = r.refund /\ rest.payout = r.payout
        /\ rest.escrow = "RELEASE_PENDING"
    BY <1>0 DEF TradeRecord
  <2> HIDE DEF rest
  <2>4. Proceeds(r, trade'[t])
    BY <2>1, <2>2, <2>3, MovedRow DEF Proceeds, Paying, AfterPayment
  <2> QED
    BY <2>1, <2>2, <2>4, MovedRow DEF SettleRow
<1>7. ASSUME NEW hash \in BOOLEAN, ConfirmRelease(t, hash)
      PROVE  SettleRow(t) /\ \A u \in Trades \ {t} : trade'[u] = trade[u]
  <2> DEFINE rest == [r EXCEPT !.escrow = "RELEASED", !.txHash = TRUE]
  <2>1. rest \in TradeRecord
    BY <1>0, RowTyped DEF EscrowStates
  <2>2. Transition(t, "COMPLETED", rest)
        /\ Owes(t, "complete") /\ r.life \in {"RELEASE_PENDING", "RELEASE_ON_HOLD"}
    BY <1>0, <1>7, <1>b DEF ConfirmRelease, Owes, Books
  <2>3. /\ rest.refund = r.refund /\ rest.payout = r.payout
        /\ rest.escrow = "RELEASED"
    BY <1>0 DEF TradeRecord
  <2> HIDE DEF rest
  <2>4. Completes(r, trade'[t])
    BY <2>1, <2>2, <2>3, MovedRow DEF Completes
  <2> QED
    BY <2>1, <2>2, <2>4, MovedRow DEF SettleRow
<1>8. CASE HoldRelease(t)
  <2>1. [r EXCEPT !.escrow = "ON_HOLD"] \in TradeRecord
    BY <1>0, RowTyped DEF EscrowStates
  <2>2. Transition(t, "RELEASE_ON_HOLD", [r EXCEPT !.escrow = "ON_HOLD"])
        /\ SameBooks(t)
        /\ r.life \in {"RELEASE_PENDING", "SELLER_PAYOUT_CONFIRMED", "RELEASE_ON_HOLD"}
    BY <1>8, <1>b DEF HoldRelease, SameBooks, Books
  <2>3. Proceeds(r, trade'[t])
    BY <1>0, <2>1, <2>2, MovedRow DEF Proceeds, Paying, AfterPayment, TradeRecord
  <2> QED
    BY <2>1, <2>2, <2>3, MovedRow DEF SettleRow
<1> QED
    BY <1>1, <1>2, <1>3, <1>4, <1>5, <1>6, <1>7, <1>8 DEF Settle

(* A trade becomes paid only when a transaction is consumed for it.         *)
LEMMA PaidOnlyByConsuming ==
    ASSUME Base, HistoryKept, NEW t \in Trades,
           \A x \in TxIds : consumed'[x] = t => consumed[x] = t
    PROVE  SamePaid(t)
<1>1. Paid(t) => Paid(t)'
    BY PaidStays DEF Base
<1>2. ASSUME Paid(t)' PROVE Paid(t)
  <2>1. PICK x \in TxIds : PaysFor(x, t)'
    BY <1>2 DEF Paid
  <2>2. consumed[x] = t /\ t # NoTrade
    BY <2>1, AbsentAssumption DEF PaysFor
  <2>3. "successful" \in prov[x].hist /\ att[prov[x].ref].trade = t
    BY <2>2 DEF Base, ConsumedForOwnTrade
  <2>4. prov[x].amt = "exact"
    BY <2>1, <2>3 DEF PaysFor, HistoryKept
  <2> QED
    BY <2>2, <2>3, <2>4 DEF Paid, PaysFor
<1> QED
    BY <1>1, <1>2 DEF SamePaid, Paid

(* Handlers that touch neither the trade table nor the books.               *)
LEMMA SameFrame ==
    ASSUME Base, HistoryKept,
           UNCHANGED <<trade, registering, consumed, tails, listing, strikes, credits>>,
           \A t \in Trades : clock[t] = "after" => clock'[t] = "after"
    PROVE  \A u \in Trades : Same(u)
    BY PaidOnlyByConsuming DEF Same, SameBooks, Books, SameClaim

StepOf(t) == RowStep(t) /\ \A u \in Trades \ {t} : Same(u)

OneTradeSteps == (\A u \in Trades : Same(u)) \/ \E t \in Trades : StepOf(t)

(* With fresh ids a registration claims an id or inserts its row.           *)
LEMMA RegisterSteps ==
    ASSUME FreshInv, ReuseIds = FALSE, HistoryKept, NEW t \in Trades, Register(t)
    PROVE  StepOf(t)
<1>0. /\ trade \in [Trades -> TradeRecord] /\ clock \in [Trades -> {"before", "at", "after"}]
      /\ registering \in [Trades -> SUBSET {"direct", "listed"}]
      /\ listing \in [Trades -> {"none", "allocated", "filled", "available"}]
    BY DEF FreshInv, Base, TypeOK
<1>1. UNCHANGED <<consumed, tails, strikes, credits>>
    BY DEF Register, RegisterCheck, OrderAllocate, RegisterInsert, tableVars
<1>2. \A u \in Trades : SamePaid(u)
    BY <1>1, PaidOnlyByConsuming DEF FreshInv
<1>3. CASE RegisterCheck(t)
  <2>1. /\ ClaimRow(t) /\ UNCHANGED <<clock, trade, listing>>
        /\ \A u \in Trades \ {t} : registering'[u] = registering[u]
    BY <1>0, <1>1, <1>3 DEF RegisterCheck, Fresh, ClaimRow, SameBooks, Books, tableVars
  <2> QED
    BY <1>1, <1>2, <2>1 DEF StepOf, RowStep, Same, SameBooks, Books, SameClaim
<1>4. CASE OrderAllocate(t)
  <2>1. /\ ClaimRow(t) /\ UNCHANGED <<clock, trade>>
        /\ \A u \in Trades \ {t} : registering'[u] = registering[u]
                                    /\ listing'[u] = listing[u]
    BY <1>0, <1>1, <1>4 DEF OrderAllocate, Fresh, ClaimRow, SameBooks, Books, tableVars
  <2> QED
    BY <1>1, <1>2, <2>1 DEF StepOf, RowStep, Same, SameBooks, Books, SameClaim
<1>5. ASSUME NEW how \in {"direct", "listed"}, RegisterInsert(t, how)
      PROVE  StepOf(t)
  <2>1. trade[t].life = "ABSENT"
    BY <1>5 DEF RegisterInsert, FreshInv, RegistersFresh
  <2>2. /\ InsertRow(t)
        /\ \A u \in Trades \ {t} : /\ registering'[u] = registering[u]
                                    /\ trade'[u] = trade[u]
                                    /\ clock'[u] = clock[u]
        /\ UNCHANGED listing
    BY <1>0, <1>1, <1>5, <2>1 DEF RegisterInsert, InsertRow, SameBooks, Books
  <2> QED
    BY <1>1, <1>2, <2>2 DEF StepOf, RowStep, Same, SameBooks, Books, SameClaim
<1> QED
    BY <1>3, <1>4, <1>5 DEF Register

(* The routes of payout, refund and release.                                *)
LEMMA SettleSteps ==
    ASSUME FreshInv, HistoryKept, NEW t \in Trades, Settle(t)
    PROVE  StepOf(t)
<1>1. SettleRow(t) /\ \A u \in Trades \ {t} : trade'[u] = trade[u]
    BY SettleRows DEF FreshInv, Base
<1>2. /\ UNCHANGED <<clock, registering, consumed, listing, strikes, credits>>
      /\ \A u \in Trades \ {t} : tails'[u] = tails[u]
  <2>1. tails \in [Trades -> SUBSET {"expire", "refund", "complete"}]
    BY DEF FreshInv, Base, TypeOK
  <2> QED
    BY <2>1
    DEF Settle, InitiatePayout, ConfirmPayout, HoldPayout, RequestRefund,
        CompleteRefund, RequestRelease, ConfirmRelease, HoldRelease, othersOfTrade
<1>3. \A u \in Trades : SamePaid(u)
    BY <1>2, PaidOnlyByConsuming DEF FreshInv
<1> QED
    BY <1>1, <1>2, <1>3 DEF StepOf, RowStep, Same, SameBooks, Books, SameClaim

(* Expiry, and the tails of the handlers that resolved a trade.             *)
LEMMA ReconcileSteps ==
    ASSUME FreshInv, HistoryKept, NEW t \in Trades, Reconcile(t)
    PROVE  StepOf(t)
<1>0. /\ trade \in [Trades -> TradeRecord]
      /\ tails \in [Trades -> SUBSET {"expire", "refund", "complete"}]
      /\ listing \in [Trades -> {"none", "allocated", "filled", "available"}]
      /\ strikes \in [Trades -> Nat] /\ credits \in [Trades -> Nat]
    BY DEF FreshInv, Base, TypeOK
<1>1. UNCHANGED <<clock, registering, consumed>>
    BY DEF Reconcile, ExpireTrade, ExpireTail, RefundTail, CompleteTail, tableVars
<1>2. \A u \in Trades : SamePaid(u)
    BY <1>1, PaidOnlyByConsuming DEF FreshInv
<1>3. CASE ExpireTrade(t)
  <2> DEFINE rest == [trade[t] EXCEPT !.pay = "EXPIRED", !.escrow = "CANCELLED"]
  <2>1. /\ rest.payout = trade[t].payout /\ rest.refund = trade[t].refund
        /\ rest.escrow = "CANCELLED" /\ rest \in TradeRecord
    BY <1>0 DEF TradeRecord, PayStates, EscrowStates
  <2>2. Transition(t, "CANCELLED", rest) /\ trade[t].life = "AWAITING_PAYMENT"
    BY <1>3 DEF ExpireTrade
  <2> HIDE DEF rest
  <2>3. /\ Expires(trade[t], trade'[t])
        /\ \A u \in Trades \ {t} : trade'[u] = trade[u]
    BY <2>1, <2>2, MovedRow DEF Expires, FreshInv, Base
  <2>4. Owes(t, "expire") /\ clock[t] = "after"
        /\ \A u \in Trades \ {t} : SameBooks(u)
    BY <1>0, <1>3 DEF ExpireTrade, Owes, SameBooks, Books
  <2> QED
    BY <1>1, <1>2, <2>3, <2>4 DEF StepOf, RowStep, SettleRow, Same, SameClaim
<1>4. CASE ExpireTail(t) \/ RefundTail(t) \/ CompleteTail(t)
  <2>1. UNCHANGED trade /\ TailRow(t)
    BY <1>0, <1>4
    DEF ExpireTail, RefundTail, CompleteTail, SettleListing, TailRow, Books, tableVars
  <2>2. \A u \in Trades \ {t} : SameBooks(u)
    BY <1>0, <1>4
    DEF ExpireTail, RefundTail, CompleteTail, SettleListing, SameBooks, Books
  <2> QED
    BY <1>1, <1>2, <2>1, <2>2 DEF StepOf, RowStep, Same, SameClaim
<1> QED
    BY <1>3, <1>4 DEF Reconcile

(* A new checkout changes nothing of the row but its payment state.         *)
LEMMA CheckoutSteps ==
    ASSUME FreshInv, HistoryKept, NEW t \in Trades, NEW a \in Attempts,
           InitCheckout(t, a)
    PROVE  StepOf(t)
<1>1. UNCHANGED <<clock, registering, consumed, listing, tails, strikes, credits>>
    BY DEF InitCheckout
<1>2. \A u \in Trades : SamePaid(u)
    BY <1>1, PaidOnlyByConsuming DEF FreshInv
<1>3. trade \in [Trades -> TradeRecord]
    BY DEF FreshInv, Base, TypeOK
<1>4. /\ trade'[t] = [trade[t] EXCEPT !.pay = "CHECKOUT_CREATED"]
      /\ \A u \in Trades \ {t} : trade'[u] = trade[u]
    BY <1>3 DEF InitCheckout
<1>5. OnlyPay(trade[t], trade'[t])
    BY <1>3, <1>4 DEF OnlyPay, TradeRecord
<1> QED
    BY <1>1, <1>2, <1>4, <1>5 DEF StepOf, RowStep, PayRow, Same, SameBooks, Books, SameClaim

(* A payment moves an unpaid trade, reopens a cancelled one that was not    *)
(* refunded, or is recorded beside what the trade already is.               *)
LEMMA ApplySteps ==
    ASSUME FreshInv, HistoryKept, NEW w \in Workers, ApplyPayment(w)
    PROVE  \E t \in Trades : StepOf(t)
<1>0. TypeOK /\ Linked /\ Base
    BY DEF FreshInv, Base
<1> PICK a \in Attempts : a = worker[w].ref
    BY <1>0, ApplyRows
<1> PICK x \in TxIds : x = worker[w].tx
    BY <1>0, ApplyRows
<1> PICK t \in Trades : t = att[a].trade
    BY <1>0, ApplyRows
<1> DEFINE pay == NewPayState(w)
           s == [trade[t] EXCEPT !.pay = pay, !.life = LifeAfter(trade[t].life, pay)]
<1> SUFFICES StepOf(t)
    OBVIOUS
<1>1. pay \in PayStates /\ trade' = [trade EXCEPT ![t] = s]
    BY <1>0, ApplyRows
<1>2. UNCHANGED <<clock, registering, prov, listing, tails, strikes, credits>>
    BY DEF ApplyPayment
<1>3. consumed' = consumed \/ /\ worker[w].st = "successful"
                              /\ consumed' = [consumed EXCEPT ![x] = t]
    BY DEF ApplyPayment
<1>4. trade[t].life # "ABSENT"
  <2>1. att[a].status # "NONE"
    BY <1>0 DEF ApplyPayment, Linked
  <2> QED
    BY <1>1, <2>1 DEF FreshInv, AttemptsRegistered
<1>5. \A u \in Trades \ {t} : Same(u)
  <2>1. \A u \in Trades \ {t} : trade'[u] = trade[u]
    BY <1>0, <1>1 DEF TypeOK
  <2>2. \A u \in Trades \ {t} : \A y \in TxIds : consumed'[y] = u => consumed[y] = u
    BY <1>0, <1>1, <1>3 DEF TypeOK
  <2>3. \A u \in Trades \ {t} : SamePaid(u)
    BY <1>0, <2>2, PaidOnlyByConsuming
  <2> QED
    BY <1>2, <2>1, <2>3 DEF Same, SameBooks, Books, SameClaim
<1>6. trade'[t] = s /\ trade[t] \in TradeRecord
    BY <1>0, <1>1 DEF TypeOK
<1>7. s.pay = pay /\ s.life = LifeAfter(trade[t].life, pay)
    BY <1>6 DEF TradeRecord
<1>8. CASE s.life # trade[t].life
  <2>1. /\ trade[t].life \in {"AWAITING_PAYMENT", "CANCELLED"}
        /\ Confirms(trade[t], s)
    <3>1. \/ /\ trade[t].life = "AWAITING_PAYMENT"
             /\ s.life \in {"PAYMENT_CONFIRMED", "LATE_PAYMENT_REVIEW"}
          \/ trade[t].life = "CANCELLED" /\ s.life = "LATE_PAYMENT_REVIEW"
      <4> HIDE DEF pay, s
      <4> QED
        BY <1>7, <1>8 DEF LifeAfter
    <3>2. s = [trade[t] EXCEPT !.pay = s.pay, !.life = s.life]
      BY <1>7
    <3> QED
      BY <3>1, <3>2 DEF Confirms
  <2>2. trade[t].life \notin AfterPayment /\ trade'[t].life \in AfterPayment
    BY <1>6, <2>1 DEF Confirms, AfterPayment
  <2>3. Paid(t)'
    BY <1>0, <1>1, <2>2, ApplyPays
  <2>4. PayRow(t)
    BY <1>2, <1>6, <2>1, <2>3 DEF PayRow, SameBooks, Books
  <2>5. SameClaim(t) /\ clock'[t] = clock[t]
    BY <1>2 DEF SameClaim
  <2>6. RowStep(t)
    BY <2>4, <2>5, Zenon DEF RowStep
  <2> QED
    BY <1>5, <2>6, Zenon DEF StepOf
<1>9. CASE s.life = trade[t].life
  <2>1. OnlyPay(trade[t], trade'[t])
    <3>1. s = [trade[t] EXCEPT !.pay = pay]
      BY <1>6, <1>7, <1>9 DEF TradeRecord
    <3> QED
      BY <1>6, <1>7, <3>1 DEF OnlyPay
  <2>2. CASE SamePaid(t)
    BY <1>2, <1>5, <2>1, <2>2 DEF StepOf, RowStep, PayRow, SameBooks, Books, SameClaim
  <2>3. CASE ~SamePaid(t)
    <3>1. /\ consumed' = [consumed EXCEPT ![x] = t] /\ consumed[x] # t
          /\ worker[w].st = "successful"
      <4> QED
        BY <1>0, <1>1, <1>3, <2>3, PaidOnlyByConsuming DEF TypeOK
    <3>2. Paid(t)'
      <4> QED
        BY <1>0, <1>1, <2>3, PaidStays DEF SamePaid, Paid
    <3>3. prov[x].amt = "exact"
      <4>1. ~Paid(t)
        <5> QED
          BY <1>0, <1>1, <2>3, <3>2, PaidStays DEF SamePaid, Paid
      <4>2. PICK y \in TxIds : PaysFor(y, t)'
        BY <3>2 DEF Paid
      <4>3. consumed'[y] = t /\ prov'[y].amt = "exact"
        BY <4>2 DEF PaysFor
      <4>4. CASE y = x
        BY <1>2, <4>3, <4>4
      <4>5. CASE y # x
        <5>1. consumed[y] = t /\ t # NoTrade
          BY <1>0, <1>1, <3>1, <4>3, <4>5, AbsentAssumption DEF TypeOK
        <5>2. "successful" \in prov[y].hist /\ att[prov[y].ref].trade = t
          BY <5>1, <1>0 DEF Base, ConsumedForOwnTrade
        <5>3. PaysFor(y, t)
          BY <1>2, <4>3, <5>1, <5>2 DEF PaysFor
        <5> QED
          BY <4>1, <5>3 DEF Paid
      <4> QED
        BY <4>4, <4>5
    <3>4. pay = IF clock[t] = "after" THEN "LATE_CONFIRMED" ELSE "CONFIRMED"
      BY <3>1, <3>3 DEF NewPayState
    <3>5. /\ trade[t].life # "AWAITING_PAYMENT"
          /\ trade[t].life = "CANCELLED" => clock[t] # "after"
      <4> HIDE DEF pay, s
      <4> QED
        BY <1>7, <1>9, <3>4 DEF LifeAfter
    <3>6. trade[t].life = "CANCELLED" => trade[t].refund = "COMPLETED"
      BY <1>1, <3>5 DEF FreshInv, CancelledOwed, CancelledWhy
    <3>7. PayRow(t)
      BY <1>2, <1>4, <2>1, <3>2, <3>5, <3>6 DEF PayRow, SameBooks, Books
    <3>8. SameClaim(t) /\ clock'[t] = clock[t]
      BY <1>2 DEF SameClaim
    <3>9. RowStep(t)
      BY <3>7, <3>8, Zenon DEF RowStep
    <3> QED
      BY <1>5, <3>9, Zenon DEF StepOf
  <2> QED
    BY <2>2, <2>3
<1> QED
    BY <1>8, <1>9

(* All of Next.                                                             *)
LEMMA StepsOneTrade ==
    ASSUME FreshInv, ReuseIds = FALSE, [Next]_vars
    PROVE  OneTradeSteps
<1>0. HistoryKept /\ Base
    BY StepHistory DEF FreshInv, Base
<1>1. CASE UNCHANGED vars
    BY <1>0, <1>1, SameFrame DEF vars, OneTradeSteps
<1>2. ASSUME NEW t \in Trades, Register(t) \/ Settle(t) \/ Reconcile(t)
      PROVE  OneTradeSteps
    BY <1>0, <1>2, RegisterSteps, SettleSteps, ReconcileSteps DEF OneTradeSteps
<1>3. ASSUME NEW t \in Trades, Tick(t) PROVE OneTradeSteps
  <2>1. clock \in [Trades -> {"before", "at", "after"}]
    BY DEF FreshInv, Base, TypeOK
  <2>2. \A u \in Trades : clock[u] = "after" => clock'[u] = "after"
    BY <1>3, <2>1 DEF Tick
  <2> QED
    BY <1>0, <1>3, <2>2, SameFrame DEF Tick, tableVars, OneTradeSteps
<1>4. ASSUME NEW t \in Trades, NEW a \in Attempts, InitCheckout(t, a)
      PROVE  OneTradeSteps
    BY <1>0, <1>4, CheckoutSteps DEF OneTradeSteps
<1>5. ASSUME NEW a \in Attempts, Checkout(a) PROVE OneTradeSteps
    BY <1>0, <1>5, SameFrame
    DEF Checkout, CheckoutReady, CheckoutRefused, CheckoutTimeout,
        VerifyUnavailable, tableVars, OneTradeSteps
<1>6. ASSUME NEW x \in TxIds, Pay(x) PROVE OneTradeSteps
    BY <1>0, <1>6, SameFrame DEF Pay, PayStart, PaySettle, tableVars, OneTradeSteps
<1>7. ASSUME NEW w \in Workers, Handle(w) PROVE OneTradeSteps
  <2>1. CASE ApplyPayment(w)
    BY <1>0, <2>1, ApplySteps DEF OneTradeSteps
  <2>2. CASE ~ApplyPayment(w)
    BY <1>0, <1>7, <2>2, SameFrame
    DEF Handle, WebhookCheck, WebhookInsert, VerifyFetch, ReplayCheck,
        ApplyNothing, tableVars, OneTradeSteps
  <2> QED
    BY <2>1, <2>2
<1> QED
    BY <1>1, <1>2, <1>3, <1>4, <1>5, <1>6, <1>7 DEF Next

-----------------------------------------------------------------------------
(* The invariant holds: trade by trade, from RowStep.                       *)

(* Tails, charges and inventory follow the trade.                           *)
LEMMA ResolvedStep ==
    ASSUME FreshInv, NEW t \in Trades, RowStep(t) \/ Same(t)
    PROVE  ResolvedRow(t)'
<1>0. /\ ResolvedRow(t) /\ strikes[t] \in Nat /\ credits[t] \in Nat
      /\ trade[t] \in TradeRecord
      /\ tails[t] \in SUBSET {"expire", "refund", "complete"}
    BY DEF FreshInv, Resolved, Base, TypeOK
<1>1. CASE Same(t) \/ ClaimRow(t)
    BY <1>0, <1>1
    DEF Same, ClaimRow, SameBooks, Books, ResolvedRow, Ended
<1>2. CASE InsertRow(t)
    BY <1>0, <1>2
    DEF InsertRow, NewAwaitingPayment, SameBooks, Books, ResolvedRow, Ended
<1>3. CASE PayRow(t)
  <2>1. /\ trade'[t].escrow = trade[t].escrow
        /\ \/ trade'[t].life = trade[t].life
           \/ /\ trade[t].life \in {"AWAITING_PAYMENT", "CANCELLED"}
              /\ trade'[t].life \in {"PAYMENT_CONFIRMED", "LATE_PAYMENT_REVIEW"}
              /\ trade[t].life = "CANCELLED" => trade'[t].life = "LATE_PAYMENT_REVIEW"
    BY <1>0, <1>3 DEF PayRow, OnlyPay, Confirms, TradeRecord
  <2> QED
    BY <1>0, <1>3, <2>1 DEF PayRow, SameBooks, Books, ResolvedRow, Ended
<1>4. CASE SettleRow(t)
  <2>1. CASE Proceeds(trade[t], trade'[t]) /\ SameBooks(t)
    BY <1>0, <2>1
    DEF Proceeds, Paying, AfterPayment, SameBooks, Books, ResolvedRow, Ended
  <2>2. CASE AsksRefund(trade[t], trade'[t]) /\ SameBooks(t)
    BY <1>0, <2>2 DEF AsksRefund, SameBooks, Books, ResolvedRow, Ended
  <2>3. CASE EndsRefund(trade[t], trade'[t]) /\ Owes(t, "refund")
    BY <1>0, <2>3 DEF EndsRefund, Owes, Books, ResolvedRow, Ended
  <2>4. CASE Completes(trade[t], trade'[t]) /\ Owes(t, "complete")
    BY <1>0, <2>4 DEF Completes, Owes, Books, ResolvedRow, Ended
  <2>5. CASE Expires(trade[t], trade'[t]) /\ Owes(t, "expire")
    BY <1>0, <2>5 DEF Expires, Owes, Books, ResolvedRow, Ended
  <2> QED
    BY <1>4, <2>1, <2>2, <2>3, <2>4, <2>5 DEF SettleRow
<1>5. CASE TailRow(t)
    BY <1>0, <1>5 DEF TailRow, Books, ResolvedRow, Ended
<1> QED
    BY <1>1, <1>2, <1>3, <1>4, <1>5 DEF RowStep

(* A cancelled trade whose payment was verified has been refunded.          *)
LEMMA CancelledStep ==
    ASSUME FreshInv, NEW t \in Trades, RowStep(t) \/ Same(t)
    PROVE  (CancelledWhy(t) /\ Honoured(t))'
<1>0. /\ CancelledWhy(t) /\ Honoured(t) /\ trade[t] \in TradeRecord
      /\ trade[t].life \in AfterPayment => Paid(t)
    BY DEF FreshInv, CancelledOwed, Base, TypeOK, PaidBeforeSettlement
<1>a. Paid(t) => trade[t].life # "ABSENT"
  <2>1. SUFFICES ASSUME Paid(t) PROVE trade[t].life # "ABSENT"
    OBVIOUS
  <2>2. PICK x \in TxIds : PaysFor(x, t)
    BY <2>1 DEF Paid
  <2>3. /\ prov[x].ref \in Attempts /\ att[prov[x].ref].status # "NONE"
        /\ att[prov[x].ref].trade = t
    BY <2>2 DEF PaysFor, FreshInv, Base, Linked
  <2> QED
    BY <2>3 DEF FreshInv, AttemptsRegistered
<1>1. CASE Same(t) \/ (ClaimRow(t) /\ SamePaid(t) /\ clock'[t] = clock[t])
    BY <1>0, <1>1 DEF Same, ClaimRow, SamePaid, CancelledWhy, Honoured
<1>2. CASE InsertRow(t) /\ SamePaid(t)
    BY <1>0, <1>a, <1>2 DEF InsertRow, NewAwaitingPayment, SamePaid, CancelledWhy, Honoured
<1>3. CASE SettleRow(t) /\ SamePaid(t) /\ clock'[t] = clock[t]
    BY <1>0, <1>3
    DEF SettleRow, Proceeds, AsksRefund, EndsRefund, Completes, Expires, Paying,
        AfterPayment, SamePaid, CancelledWhy, Honoured
<1>4. CASE TailRow(t) /\ SamePaid(t) /\ clock'[t] = clock[t]
    BY <1>0, <1>4 DEF TailRow, SamePaid, CancelledWhy, Honoured
<1>5. CASE PayRow(t) /\ clock'[t] = clock[t]
  <2>1. OnlyPay(trade[t], trade'[t]) =>
            trade'[t].life = trade[t].life /\ trade'[t].refund = trade[t].refund
    BY <1>0 DEF OnlyPay, TradeRecord
  <2>2. CASE OnlyPay(trade[t], trade'[t]) /\ SamePaid(t)
    BY <1>0, <1>5, <2>1, <2>2 DEF SamePaid, CancelledWhy, Honoured
  <2>3. CASE Confirms(trade[t], trade'[t])
    BY <2>3 DEF Confirms, CancelledWhy, Honoured
  <2>4. CASE /\ OnlyPay(trade[t], trade'[t])
             /\ trade[t].life \notin {"ABSENT", "AWAITING_PAYMENT"}
             /\ trade[t].life = "CANCELLED" => trade[t].refund = "COMPLETED"
    BY <2>1, <2>4 DEF CancelledWhy, Honoured
  <2> QED
    BY <1>5, <2>2, <2>3, <2>4 DEF PayRow
<1> QED
    BY <1>1, <1>2, <1>3, <1>4, <1>5 DEF RowStep

(* A claimed id stays without a row until its registration inserts it, and  *)
(* a trade that exists goes on existing.                                    *)
LEMMA ExistsStep ==
    ASSUME FreshInv, NEW t \in Trades, RowStep(t) \/ Same(t)
    PROVE  /\ trade[t].life # "ABSENT" => trade'[t].life # "ABSENT"
           /\ \E how \in {"direct", "listed"} :
                 /\ registering'[t] \subseteq {how}
                 /\ registering'[t] # {} => trade'[t].life = "ABSENT"
<1>0. /\ trade[t] \in TradeRecord
      /\ \E how \in {"direct", "listed"} :
            /\ registering[t] \subseteq {how}
            /\ registering[t] # {} => trade[t].life = "ABSENT"
    BY DEF FreshInv, RegistersFresh, Base, TypeOK
<1>1. CASE Same(t)
    BY <1>0, <1>1 DEF Same, SameClaim
<1>2. CASE ClaimRow(t)
    BY <1>0, <1>2 DEF ClaimRow
<1>3. CASE InsertRow(t)
  <2>1. registering'[t] = {}
    BY <1>0, <1>3 DEF InsertRow
  <2> QED
    BY <1>3, <2>1 DEF InsertRow, NewAwaitingPayment
<1>4. CASE SameClaim(t) /\ (PayRow(t) \/ SettleRow(t) \/ TailRow(t))
  <2>1. trade[t].life = "ABSENT" <=> trade'[t].life = "ABSENT"
    <3>1. CASE PayRow(t)
      BY <1>0, <3>1 DEF PayRow, OnlyPay, Confirms, TradeRecord
    <3>2. CASE SettleRow(t)
      BY <3>2
      DEF SettleRow, Proceeds, AsksRefund, EndsRefund, Completes, Expires, Paying,
          AfterPayment
    <3>3. CASE TailRow(t)
      BY <3>3 DEF TailRow
    <3> QED
      BY <1>4, <3>1, <3>2, <3>3
  <2> QED
    BY <1>0, <1>4, <2>1 DEF SameClaim
<1> QED
    BY <1>1, <1>2, <1>3, <1>4 DEF RowStep

(* Only init_flutterwave_checkout creates an attempt.                       *)
LEMMA NewAttempt ==
    ASSUME TypeOK, Linked, Next, NEW a \in Attempts,
           att[a].status = "NONE", att'[a] # att[a]
    PROVE  \E t \in Trades : InitCheckout(t, a)
<1>1. ~AttemptRowsKept
    BY DEF AttemptRowsKept
<1>2. ASSUME NEW t \in Trades, NEW b \in Attempts, InitCheckout(t, b)
      PROVE  \E u \in Trades : InitCheckout(u, a)
  <2>1. a = b
    BY <1>2 DEF InitCheckout, TypeOK
  <2> QED
    BY <1>2, <2>1
<1>3. ASSUME NEW b \in Attempts, Checkout(b) PROVE FALSE
  <2>1. ~CheckoutReady(b)
    BY <1>1, ReadyKeepsRows
  <2> QED
    BY <1>3, <2>1 DEF Checkout, CheckoutRefused, CheckoutTimeout, VerifyUnavailable, tableVars
<1>4. ASSUME NEW w \in Workers, Handle(w) PROVE FALSE
  <2>1. ~ApplyPayment(w)
    BY <1>1, ApplyKeepsRows
  <2> QED
    BY <1>4, <2>1
    DEF Handle, WebhookCheck, WebhookInsert, VerifyFetch, ReplayCheck,
        ApplyNothing, tableVars
<1>5. ASSUME NEW t \in Trades, Reconcile(t) PROVE FALSE
  <2>1. ~ExpireTrade(t)
    BY <1>1, ExpireKeepsRows
  <2> QED
    BY <1>5, <2>1 DEF Reconcile, ExpireTail, RefundTail, CompleteTail, tableVars
<1>6. ASSUME NEW t \in Trades, Settle(t) PROVE FALSE
    BY <1>6
    DEF Settle, InitiatePayout, ConfirmPayout, HoldPayout, RequestRefund,
        CompleteRefund, RequestRelease, ConfirmRelease, HoldRelease, othersOfTrade
<1>7. ASSUME NEW t \in Trades, Register(t) \/ Tick(t) PROVE FALSE
    BY <1>7 DEF Register, RegisterCheck, OrderAllocate, RegisterInsert, Tick, tableVars
<1>8. ASSUME NEW x \in TxIds, Pay(x) PROVE FALSE
    BY <1>8 DEF Pay, PayStart, PaySettle, tableVars
<1> QED
    BY <1>2, <1>3, <1>4, <1>5, <1>6, <1>7, <1>8 DEF Next

(* FreshInv is inductive.                                                   *)
LEMMA FreshStep ==
    ASSUME FreshInv, ReuseIds = FALSE, [Next]_vars
    PROVE  FreshInv'
<1>0. OneTradeSteps /\ HistoryKept
    BY StepsOneTrade, StepHistory DEF FreshInv, Base
<1>1. \A t \in Trades : RowStep(t) \/ Same(t)
    BY <1>0 DEF OneTradeSteps, StepOf
<1>2. Base'
    BY TypeStep, LinkedStep, SettledStep, PaidStep, ConsumedStep DEF FreshInv, Base
<1>3. Resolved'
    BY <1>1, ResolvedStep DEF Resolved
<1>4. CancelledOwed'
    BY <1>1, CancelledStep DEF CancelledOwed
<1>5. RegistersFresh'
    BY <1>1, ExistsStep DEF RegistersFresh
<1>6. AttemptsRegistered'
  <2> SUFFICES ASSUME NEW a \in Attempts, att'[a].status # "NONE"
               PROVE  trade'[att'[a].trade].life # "ABSENT"
    BY DEF AttemptsRegistered
  <2>1. CASE att[a].status # "NONE"
    <3>1. PICK t \in Trades : t = att[a].trade
      BY <2>1 DEF FreshInv, Base, Linked
    <3>2. trade[t].life # "ABSENT"
      BY <2>1, <3>1 DEF FreshInv, AttemptsRegistered
    <3>3. att'[a].trade = t
      BY <1>0, <2>1, <3>1 DEF HistoryKept
    <3> QED
      BY <1>1, <3>2, <3>3, ExistsStep
  <2>2. CASE att[a].status = "NONE"
    <3>1. Next
      BY <2>2 DEF vars
    <3>2. PICK t \in Trades : InitCheckout(t, a)
      BY <2>2, <3>1, NewAttempt DEF FreshInv, Base
    <3>3. att'[a].trade = t /\ trade[t].life = "AWAITING_PAYMENT"
      BY <3>2 DEF InitCheckout, FreshInv, Base, TypeOK
    <3> QED
      BY <1>1, <3>3, ExistsStep
  <2> QED
    BY <2>1, <2>2
<1> QED
    BY <1>2, <1>3, <1>4, <1>5, <1>6 DEF FreshInv

(* ... and holds at the start.                                              *)
LEMMA InitFresh == Init => FreshInv
<1> SUFFICES ASSUME Init PROVE FreshInv
    OBVIOUS
<1>1. /\ \A t \in Trades : /\ trade[t].life = "ABSENT"
                            /\ trade[t].escrow = "FUNDED"
                            /\ trade[t].refund = "NONE"
                            /\ trade[t].payout = "NOT_STARTED"
      /\ \A x \in TxIds : consumed[x] = NoTrade
      /\ \A a \in Attempts : att[a].status = "NONE"
    BY DEF Init, AbsentTrade, NewAwaitingPayment, AbsentAttempt
<1>2. Base
    BY <1>1, InitTypedLinked
    DEF Base, PayoutOrRefund, PaidBeforeSettlement, ConsumedForOwnTrade,
        AfterPayment, AfterPayout
<1>3. \A t \in Trades : ~Paid(t)
    BY <1>1, AbsentAssumption DEF Paid, PaysFor
<1>4. Resolved /\ CancelledOwed
    BY <1>1, <1>3 DEF Init, Resolved, ResolvedRow, CancelledOwed, CancelledWhy,
                      Honoured, Ended
<1>5. RegistersFresh /\ AttemptsRegistered
    BY <1>1 DEF Init, RegistersFresh, AttemptsRegistered
<1> QED
    BY <1>2, <1>4, <1>5 DEF FreshInv

(* The invariant of all theorems of this module.                            *)
THEOREM FreshIds == ASSUME ReuseIds = FALSE PROVE Spec => []FreshInv
<1>1. FreshInv /\ [Next]_vars => FreshInv'
    BY FreshStep
<1> QED
    BY <1>1, InitFresh, PTL DEF Spec

-----------------------------------------------------------------------------
(* What follows from it.                                                    *)

(* A verified payment of the full price is never dropped: expiry, refund    *)
(* and late webhooks in any order leave the trade paid, in review or        *)
(* refunded.                                                                *)
THEOREM PaymentKept == ASSUME ReuseIds = FALSE PROVE Spec => []NoPaymentDropped
<1>1. FreshInv => NoPaymentDropped
    BY DEF FreshInv, CancelledOwed, Honoured, NoPaymentDropped
<1> QED
    BY <1>1, FreshIds, PTL

(* The seller's listing counts a trade's amount where the trade ended up.   *)
THEOREM InventoryKept == ASSUME ReuseIds = FALSE PROVE Spec => []InventoryFollowsTrade
<1>1. FreshInv => InventoryFollowsTrade
    BY DEF FreshInv, Resolved, ResolvedRow, InventoryFollowsTrade, Ended
<1> QED
    BY <1>1, FreshIds, PTL

(* The buyer is charged or credited once for a trade, never both.           *)
THEOREM TrustChargedOnce == ASSUME ReuseIds = FALSE PROVE Spec => []ChargedOnce
<1>1. FreshInv => ChargedOnce
  <2> SUFFICES ASSUME FreshInv, NEW t \in Trades
               PROVE  strikes[t] <= 1 /\ credits[t] <= 1
                      /\ (strikes[t] > 0 => credits[t] = 0)
    BY DEF ChargedOnce
  <2>1. ResolvedRow(t) /\ strikes[t] \in Nat /\ credits[t] \in Nat
    BY DEF FreshInv, Resolved, Base, TypeOK
  <2> QED
    BY <2>1 DEF ResolvedRow, Ended
<1> QED
    BY <1>1, FreshIds, PTL

(* SettledStays of one trade.                                               *)
LEMMA StaysStep ==
    ASSUME FreshInv, NEW t \in Trades, RowStep(t) \/ Same(t)
    PROVE  /\ trade[t].life = "COMPLETED" =>
                  [trade'[t] EXCEPT !.pay = trade[t].pay] = trade[t]
           /\ trade[t].life = "CANCELLED" /\ trade'[t].life # "CANCELLED" =>
                  trade'[t].life = "LATE_PAYMENT_REVIEW" /\ Paid(t)'
<1>0. trade[t] \in TradeRecord
    BY DEF FreshInv, Base, TypeOK
<1>1. CASE trade'[t] = trade[t]
    BY <1>0, <1>1 DEF TradeRecord
<1>2. CASE InsertRow(t) \/ SettleRow(t)
    BY <1>2
    DEF InsertRow, SettleRow, Proceeds, AsksRefund, EndsRefund, Completes, Expires,
        Paying, AfterPayment
<1>3. CASE PayRow(t)
  <2>1. CASE OnlyPay(trade[t], trade'[t])
    <3>1. PICK p : trade'[t] = [trade[t] EXCEPT !.pay = p]
      BY <2>1 DEF OnlyPay
    <3> QED
      BY <1>0, <3>1 DEF TradeRecord
  <2>2. CASE Confirms(trade[t], trade'[t]) /\ Paid(t)'
    BY <2>2 DEF Confirms
  <2> QED
    BY <1>3, <2>1, <2>2 DEF PayRow
<1> QED
    BY <1>1, <1>2, <1>3 DEF RowStep, Same, ClaimRow, TailRow

(* A completed trade keeps its lifecycle, payout, refund and escrow states  *)
(* for good, and a cancelled one is only ever reopened by a late payment.   *)
THEOREM SettledForGood == ASSUME ReuseIds = FALSE PROVE Spec => SettledStays
<1>1. ASSUME FreshInv, [Next]_vars, NEW t \in Trades
      PROVE  /\ trade[t].life = "COMPLETED" =>
                    [trade'[t] EXCEPT !.pay = trade[t].pay] = trade[t]
             /\ trade[t].life = "CANCELLED" /\ trade'[t].life # "CANCELLED" =>
                    trade'[t].life = "LATE_PAYMENT_REVIEW" /\ Paid(t)'
  <2>1. RowStep(t) \/ Same(t)
    BY <1>1, StepsOneTrade DEF OneTradeSteps, StepOf
  <2> QED
    BY <1>1, <2>1, StaysStep
<1>2. FreshInv /\ [Next]_vars =>
          [\A t \in Trades :
              /\ trade[t].life = "COMPLETED" =>
                     [trade'[t] EXCEPT !.pay = trade[t].pay] = trade[t]
              /\ trade[t].life = "CANCELLED" /\ trade'[t].life # "CANCELLED" =>
                     /\ trade'[t].life = "LATE_PAYMENT_REVIEW"
                     /\ Paid(t)']_vars
    BY <1>1
<1> QED
    BY <1>2, FreshIds, PTL DEF Spec, SettledStays

-----------------------------------------------------------------------------
(* The records implement SettlementPromise.                                 *)

SellerPaid(t) == trade[t].payout = "CONFIRMED"

Refunded(t) == trade[t].refund = "COMPLETED" /\ trade[t].life = "CANCELLED"

(* The promise does not see the step.                                       *)
Unseen(t) ==
    /\ CustodyOf(t)' = CustodyOf(t)
    /\ Paid(t)' = Paid(t)
    /\ SellerPaid(t)' = SellerPaid(t)
    /\ Refunded(t)' = Refunded(t)

(* What leaves a trade alone leaves its abstract values alone.              *)
LEMMA SameUnseen ==
    ASSUME NEW t \in Trades, Same(t)
    PROVE  Unseen(t)
    BY DEF Same, SamePaid, Unseen, CustodyOf, SellerPaid, Refunded

(* A step on one trade is the abstract action with the same effect.         *)
Becomes(t, custody, buyer, seller, refunded) ==
    /\ CustodyOf(t)' = custody
    /\ Paid(t)' = buyer
    /\ SellerPaid(t)' = seller
    /\ Refunded(t)' = refunded

LEMMA AbstractStep ==
    ASSUME NEW t \in Trades, \A u \in Trades \ {t} : Unseen(u)
    PROVE  /\ [u \in Trades |-> CustodyOf(u)]'
                 = [[u \in Trades |-> CustodyOf(u)] EXCEPT ![t] = CustodyOf(t)']
           /\ [u \in Trades |-> Paid(u)]'
                 = [[u \in Trades |-> Paid(u)] EXCEPT ![t] = Paid(t)']
           /\ [u \in Trades |-> SellerPaid(u)]'
                 = [[u \in Trades |-> SellerPaid(u)] EXCEPT ![t] = SellerPaid(t)']
           /\ [u \in Trades |-> Refunded(u)]'
                 = [[u \in Trades |-> Refunded(u)] EXCEPT ![t] = Refunded(t)']
           /\ CustodyOf(t)' = CustodyOf(t) => UNCHANGED [u \in Trades |-> CustodyOf(u)]
           /\ Paid(t)' = Paid(t) => UNCHANGED [u \in Trades |-> Paid(u)]
           /\ SellerPaid(t)' = SellerPaid(t) => UNCHANGED [u \in Trades |-> SellerPaid(u)]
           /\ Refunded(t)' = Refunded(t) => UNCHANGED [u \in Trades |-> Refunded(u)]
<1>1. /\ \A u \in Trades \ {t} : CustodyOf(u)' = CustodyOf(u)
      /\ \A u \in Trades \ {t} : Paid(u)' = Paid(u)
      /\ \A u \in Trades \ {t} : SellerPaid(u)' = SellerPaid(u)
      /\ \A u \in Trades \ {t} : Refunded(u)' = Refunded(u)
    BY DEF Unseen
<1>2. /\ [u \in Trades |-> CustodyOf(u)]'
            = [[u \in Trades |-> CustodyOf(u)] EXCEPT ![t] = CustodyOf(t)']
      /\ CustodyOf(t)' = CustodyOf(t) => UNCHANGED [u \in Trades |-> CustodyOf(u)]
    BY <1>1
<1>3. /\ [u \in Trades |-> Paid(u)]'
            = [[u \in Trades |-> Paid(u)] EXCEPT ![t] = Paid(t)']
      /\ Paid(t)' = Paid(t) => UNCHANGED [u \in Trades |-> Paid(u)]
    BY <1>1
<1>4. /\ [u \in Trades |-> SellerPaid(u)]'
            = [[u \in Trades |-> SellerPaid(u)] EXCEPT ![t] = SellerPaid(t)']
      /\ SellerPaid(t)' = SellerPaid(t) => UNCHANGED [u \in Trades |-> SellerPaid(u)]
    BY <1>1
<1>5. /\ [u \in Trades |-> Refunded(u)]'
            = [[u \in Trades |-> Refunded(u)] EXCEPT ![t] = Refunded(t)']
      /\ Refunded(t)' = Refunded(t) => UNCHANGED [u \in Trades |-> Refunded(u)]
    BY <1>1
<1> QED
    BY <1>2, <1>3, <1>4, <1>5

(* The five actions of the promise, as effects on one trade.                *)
Funds(t) ==
    /\ CustodyOf(t) = "nobody"
    /\ Becomes(t, "escrow", Paid(t), SellerPaid(t), Refunded(t))

Receives(t) ==
    /\ CustodyOf(t) # "nobody"
    /\ \E reopen \in BOOLEAN :
          Becomes(t, CustodyOf(t), TRUE, SellerPaid(t), Refunded(t) /\ ~reopen)

PaysSeller(t) ==
    /\ CustodyOf(t) = "escrow" /\ Paid(t) /\ ~Refunded(t)
    /\ Becomes(t, CustodyOf(t), Paid(t), TRUE, Refunded(t))

Releases(t) ==
    /\ CustodyOf(t) = "escrow" /\ SellerPaid(t)
    /\ Becomes(t, "buyer", Paid(t), SellerPaid(t), Refunded(t))

Returns(t) ==
    /\ CustodyOf(t) \in {"escrow", "seller"} /\ ~SellerPaid(t)
    /\ \E refund \in BOOLEAN :
          /\ refund \/ ~Paid(t)
          /\ Becomes(t, "seller", Paid(t), SellerPaid(t), Refunded(t) \/ refund)

Promised(t) ==
    Funds(t) \/ Receives(t) \/ PaysSeller(t) \/ Releases(t) \/ Returns(t) \/ Unseen(t)

(* Who holds the USDC, read from the lifecycle.                             *)
LEMMA CustodyByLife ==
    ASSUME FreshInv, NEW t \in Trades
    PROVE  /\ CustodyOf(t) = "nobody" <=> trade[t].life = "ABSENT"
           /\ trade[t].life \in Paying \cup {"AWAITING_PAYMENT"} =>
                  CustodyOf(t) = "escrow"
           /\ trade[t].life \in Ended => CustodyOf(t) \in {"escrow", "seller"}
           /\ SellerPaid(t) <=> trade[t].life \in AfterPayout
           /\ trade[t].life \notin Ended => trade[t].refund = "NONE"
           /\ trade[t].life \in Paying => Paid(t)
           /\ trade[t].life = "AWAITING_PAYMENT" => ~Paid(t)
<1>1. /\ trade[t] \in TradeRecord
      /\ trade[t].payout = "CONFIRMED" <=> trade[t].life \in AfterPayout
      /\ trade[t].refund # "NONE" =>
            trade[t].life \in {"REFUND_PENDING", "CANCELLED", "LATE_PAYMENT_REVIEW"}
      /\ trade[t].escrow = "RELEASED" <=> trade[t].life = "COMPLETED"
      /\ trade[t].escrow = "CANCELLED" => trade[t].life \in Ended
    BY DEF FreshInv, Base, TypeOK, PayoutOrRefund, Resolved, ResolvedRow
<1>2. /\ trade[t].life \in Paying => Paid(t)
      /\ trade[t].life = "AWAITING_PAYMENT" => ~Paid(t)
    BY DEF FreshInv, Base, PaidBeforeSettlement, Paying, CancelledOwed, Honoured
<1>3. SellerPaid(t) <=> trade[t].life \in AfterPayout
    BY <1>1 DEF SellerPaid
<1> QED
    BY <1>1, <1>2, <1>3 DEF CustodyOf, Paying, AfterPayment, Ended

(* Every step on a trade is an action of the promise or unseen by it.       *)
LEMMA StepPromised ==
    ASSUME FreshInv, FreshInv', NEW t \in Trades, RowStep(t)
    PROVE  Promised(t)
<1> USE DEF Promised, Funds, Receives, PaysSeller, Releases, Returns, Unseen, Becomes
<1>0. /\ trade[t] \in TradeRecord
      /\ SellerPaid(t)' <=> trade'[t].life \in AfterPayout
      /\ SellerPaid(t) <=> trade[t].life \in AfterPayout
    BY DEF FreshInv, Base, TypeOK, PayoutOrRefund, SellerPaid
<1>1. CASE trade'[t] = trade[t] /\ SamePaid(t)
    BY <1>1 DEF SamePaid, CustodyOf, SellerPaid, Refunded
<1>2. CASE InsertRow(t) /\ SamePaid(t)
  <2>0. /\ trade[t].life = "ABSENT"
        /\ trade'[t].life = "AWAITING_PAYMENT" /\ trade'[t].escrow = "FUNDED"
    BY <1>2 DEF InsertRow, NewAwaitingPayment
  <2>1. CustodyOf(t) = "nobody" /\ CustodyOf(t)' = "escrow"
    BY <2>0, CustodyByLife DEF CustodyOf
  <2>2. SellerPaid(t)' = SellerPaid(t) /\ Refunded(t)' = Refunded(t)
    BY <1>0, <1>2
    DEF InsertRow, SellerPaid, Refunded, NewAwaitingPayment, AfterPayout
  <2> QED
    BY <1>2, <2>1, <2>2 DEF SamePaid
<1>3. CASE PayRow(t)
  <2>1. /\ trade'[t].escrow = trade[t].escrow /\ trade'[t].payout = trade[t].payout
        /\ trade'[t].refund = trade[t].refund
        /\ \/ trade'[t].life = trade[t].life
           \/ trade[t].life # "ABSENT" /\ trade'[t].life \notin {"ABSENT", "CANCELLED"}
    BY <1>0, <1>3 DEF PayRow, OnlyPay, Confirms, TradeRecord
  <2>2. CustodyOf(t)' = CustodyOf(t) /\ SellerPaid(t)' = SellerPaid(t)
    BY <2>1 DEF CustodyOf, SellerPaid
  <2>3. CASE OnlyPay(trade[t], trade'[t]) /\ SamePaid(t)
    <3>1. trade'[t].life = trade[t].life
      BY <1>0, <2>3 DEF OnlyPay, TradeRecord
    <3> QED
      BY <2>1, <2>2, <2>3, <3>1 DEF SamePaid, Refunded
  <2>4. CASE Paid(t)' /\ trade[t].life # "ABSENT"
    <3>1. CustodyOf(t) # "nobody"
      BY <2>4, CustodyByLife
    <3>2. Refunded(t)' = Refunded(t) \/ Refunded(t)' = FALSE
      BY <2>1 DEF Refunded
    <3>3. \E reopen \in BOOLEAN : Refunded(t)' = (Refunded(t) /\ ~reopen)
      <4>1. CASE Refunded(t)' = Refunded(t)
        BY <4>1 DEF Refunded
      <4>2. CASE Refunded(t)' = FALSE
        BY <4>2
      <4> QED
        BY <3>2, <4>1, <4>2
    <3>4. Receives(t)
      BY <2>2, <2>4, <3>1, <3>3 DEF Paid
    <3> QED
      BY <3>4
  <2> QED
    BY <1>3, <2>3, <2>4 DEF PayRow, Confirms
<1>4. CASE SettleRow(t) /\ SamePaid(t)
  <2>1. CASE Proceeds(trade[t], trade'[t])
    <3>1. /\ CustodyOf(t) = "escrow" /\ CustodyOf(t)' = "escrow"
          /\ Paid(t) /\ ~Refunded(t) /\ ~Refunded(t)'
      BY <2>1, CustodyByLife DEF Proceeds, Refunded, CustodyOf, Paying, AfterPayment
    <3>2. SellerPaid(t) => SellerPaid(t)'
      BY <2>1 DEF Proceeds, SellerPaid
    <3> QED
      BY <1>4, <3>1, <3>2 DEF SamePaid, SellerPaid, Refunded
  <2>2. CASE AsksRefund(trade[t], trade'[t])
    <3>1. CustodyOf(t)' = CustodyOf(t) /\ SellerPaid(t)' = SellerPaid(t)
          /\ Refunded(t)' = Refunded(t)
      BY <2>2 DEF AsksRefund, CustodyOf, SellerPaid, Refunded
    <3> QED
      BY <1>4, <3>1 DEF SamePaid
  <2>3. CASE EndsRefund(trade[t], trade'[t])
    <3>1. /\ CustodyOf(t) \in {"escrow", "seller"} /\ CustodyOf(t)' = "seller"
          /\ ~SellerPaid(t) /\ ~SellerPaid(t)' /\ Refunded(t)'
      BY <1>0, <2>3, CustodyByLife
      DEF EndsRefund, CustodyOf, Refunded, Ended, AfterPayout
    <3> QED
      BY <1>4, <3>1 DEF SamePaid, SellerPaid, Refunded
  <2>4. CASE Completes(trade[t], trade'[t])
    <3>1. /\ CustodyOf(t) = "escrow" /\ CustodyOf(t)' = "buyer"
          /\ SellerPaid(t) /\ SellerPaid(t)' /\ ~Refunded(t) /\ ~Refunded(t)'
      BY <1>0, <2>4, CustodyByLife
      DEF Completes, CustodyOf, Refunded, Paying, AfterPayment, AfterPayout
    <3> QED
      BY <1>4, <3>1 DEF SamePaid, SellerPaid, Refunded
  <2>5. CASE Expires(trade[t], trade'[t])
    <3>1. /\ CustodyOf(t) = "escrow" /\ CustodyOf(t)' = "seller" /\ ~Paid(t)
          /\ ~SellerPaid(t) /\ ~SellerPaid(t)' /\ ~Refunded(t) /\ ~Refunded(t)'
      BY <1>0, <2>5, CustodyByLife
      DEF Expires, CustodyOf, Refunded, Ended, AfterPayout
    <3> QED
      BY <1>4, <3>1 DEF SamePaid, SellerPaid, Refunded
  <2> QED
    BY <1>4, <2>1, <2>2, <2>3, <2>4, <2>5 DEF SettleRow
<1> QED
    BY <1>1, <1>2, <1>3, <1>4 DEF RowStep, ClaimRow, TailRow

(* Every step of the service is a step of the promise.                      *)
LEMMA PromiseStep ==
    ASSUME FreshInv, FreshInv', ReuseIds = FALSE, [Next]_vars
    PROVE  [P!PromiseNext]_(P!promiseVars)
<1>1. CASE \A u \in Trades : Same(u)
  <2>1. \A u \in Trades : Unseen(u)
    BY <1>1, SameUnseen
  <2> QED
    BY <2>1 DEF Unseen, P!promiseVars, SellerPaid, Refunded
<1>2. ASSUME NEW t \in Trades, StepOf(t)
      PROVE  [P!PromiseNext]_(P!promiseVars)
  <2>1. \A u \in Trades \ {t} : Unseen(u)
    BY <1>2, SameUnseen DEF StepOf
  <2>2. Promised(t)
    BY <1>2, StepPromised DEF StepOf
  <2>3. CASE Unseen(t)
    <3>1. \A u \in Trades : Unseen(u)
      BY <2>1, <2>3
    <3> QED
      BY <3>1 DEF Unseen, P!promiseVars, SellerPaid, Refunded
  <2>4. CASE Funds(t)
    <3>1. P!Fund(t)
      BY <2>1, <2>4, AbstractStep DEF Funds, Becomes, P!Fund, SellerPaid, Refunded
    <3> QED
      BY <3>1 DEF P!PromiseNext
  <2>5. CASE Receives(t)
    <3>1. PICK reopen \in BOOLEAN :
              Becomes(t, CustodyOf(t), TRUE, SellerPaid(t), Refunded(t) /\ ~reopen)
      BY <2>5 DEF Receives
    <3>2. P!BuyerPays(t, reopen)
      BY <2>1, <2>5, <3>1, AbstractStep
      DEF Receives, Becomes, P!BuyerPays, SellerPaid, Refunded
    <3> QED
      BY <3>2 DEF P!PromiseNext
  <2>6. CASE PaysSeller(t)
    <3>1. P!SellerIsPaid(t)
      BY <2>1, <2>6, AbstractStep
      DEF PaysSeller, Becomes, P!SellerIsPaid, SellerPaid, Refunded
    <3> QED
      BY <3>1 DEF P!PromiseNext
  <2>7. CASE Releases(t)
    <3>1. P!Release(t)
      BY <2>1, <2>7, AbstractStep DEF Releases, Becomes, P!Release, SellerPaid, Refunded
    <3> QED
      BY <3>1 DEF P!PromiseNext
  <2>8. CASE Returns(t)
    <3>1. PICK refund \in BOOLEAN :
              /\ refund \/ ~Paid(t)
              /\ Becomes(t, "seller", Paid(t), SellerPaid(t), Refunded(t) \/ refund)
      BY <2>8 DEF Returns
    <3>2. P!Return(t, refund)
      BY <2>1, <2>8, <3>1, AbstractStep
      DEF Returns, Becomes, P!Return, SellerPaid, Refunded
    <3> QED
      BY <3>2 DEF P!PromiseNext
  <2> QED
    BY <2>2, <2>3, <2>4, <2>5, <2>6, <2>7, <2>8 DEF Promised
<1> QED
    BY <1>1, <1>2, StepsOneTrade DEF OneTradeSteps

(* The refinement: the service's records of attempts, webhooks, refunds and *)
(* releases implement the settlement promise, step by step.                 *)
THEOREM SettlementPromiseKept == ASSUME ReuseIds = FALSE PROVE Spec => KeepsPromise
<1>1. Init => P!PromiseInit
  <2> SUFFICES ASSUME Init PROVE P!PromiseInit
    OBVIOUS
  <2>1. \A t \in Trades : ~Paid(t)
    BY AbsentAssumption DEF Init, Paid, PaysFor
  <2>2. \A t \in Trades : /\ trade[t].life = "ABSENT" /\ trade[t].refund = "NONE"
                          /\ trade[t].payout = "NOT_STARTED"
    BY DEF Init, AbsentTrade, NewAwaitingPayment
  <2>3. \A t \in Trades : CustodyOf(t) = "nobody"
    BY <2>2, InitFresh, CustodyByLife
  <2> QED
    BY <2>1, <2>2, <2>3 DEF P!PromiseInit, Paid
<1>2. FreshInv /\ FreshInv' /\ [Next]_vars => [P!PromiseNext]_(P!promiseVars)
    BY PromiseStep
<1> QED
    BY <1>1, <1>2, FreshIds, PTL DEF Spec, KeepsPromise, P!Promise
=============================================================================
