---------------------------- MODULE EscrowProofs ----------------------------
(***************************************************************************)
(* Proofs of what settlement promises, for any buyers, listing, handlers,  *)
(* numbers of the contract and amounts.                                    *)
(***************************************************************************)
EXTENDS EscrowFacts

-----------------------------------------------------------------------------
(* The handlers.  What a handler at work may count on: a buyer orders and  *)
(* checks out, a payment is verified by the reference of an attempt, the   *)
(* trade of every handler exists, and a webhook is about the listing.      *)
StepNames == PageSteps \cup OracleSteps \cup {"none"}
Handler ==
    [kind : {"none", "done", "order", "settlement", "release", "proof", "webhook"},
     step : StepNames, who : Address \cup {Null}, trade : TradeIds,
     arg : Nat \cup TxRefs \cup {Null}, to : Address \cup {Null}, hash : BOOLEAN]
Bought(m, t) ==
    m.trades[t] # Null /\ m.trades[t].buyer # Null /\ m.trades[t].life # "OPEN"
Fits(m, f) ==
    /\ f \in Handler
    /\ m.trades[f.trade] # Null
    /\ f.step \in {"lock", "locking", "take"} => f.who \in Buyers /\ f.arg \in Nat
    /\ f.step \in {"checkout", "verify"} => f.who \in Buyers /\ Bought(m, f.trade)
    /\ f.step = "checkout" => f.arg \in TxRefs \cup {Null}
    /\ f.step = "verify" => f.arg \in TxRefs
    /\ f.kind = "webhook" =>
         f.arg \in Flows /\ f.trade = Listing /\ f.step \in {"submit", "mine", "answer"}
    /\ f.step \in {"session", "execute"} => f.trade = Listing
    /\ f.kind \notin {"none", "done"} => f.who # NoOne

(* A call of the store loses no trade and no buyer, and every trade that   *)
(* waits for its payment has a buyer.                                      *)
Holds(m, n) ==
    \A t \in TradeIds : /\ m.trades[t] # Null => n.trades[t] # Null
                        /\ Bought(m, t) => Bought(n, t)
Awaited(m) ==
    \A t \in TradeIds : m.trades[t] # Null /\ m.trades[t].life = "AWAITING_PAYMENT"
                            => m.trades[t].buyer # Null
Store(m) == Sound(m, 0) /\ Awaited(m) /\ m.trades[Listing] # Null

(* The contract keeps its shape, its books until a listing is reopened,    *)
(* and disputes nothing until somebody calls it directly.                  *)
Contract(c, p) ==
    /\ c \in Chain /\ ChainId < c.next
    /\ "reopened" \notin p => Ledger(c)
    /\ "direct" \notin p => \A i \in EscrowIds : c.trades[i].status # "Disputed"

ProofStatus == {"pending", "verified", "failed", "completed", "oracle_pending"}
Tallies ==
    /\ proofs \in [Flows -> ProofStatus \cup {Null}]
    /\ fiat \in SUBSET TradeIds
    /\ paid \in [TradeIds \X Buyers -> 0..2]
Flowing(m, g) == g \in [Flows -> Handler] /\ \A i \in Flows : Fits(m, g[i])
Shape ==
    /\ Store(mem)
    /\ Contract(chain, past)
    /\ Flowing(mem, flow)
    /\ Tallies

-----------------------------------------------------------------------------
(* A price is seen to be paid before anything is released.                 *)
Paying == {"initiate", "confirm", "chain", "request", "settle"} \cup OracleSteps
Paid(f) == f.step \in Paying => f.trade \in fiat
RowsPriced == \A t \in TradeIds : Confirmed(mem.trades[t]) => t \in fiat
UsdcPriced == \A t \in TradeIds, b \in Buyers : paid[t, b] > 0 => t \in fiat
Priced == RowsPriced /\ (\A i \in Flows : Paid(flow[i])) /\ UsdcPriced
FiatInv == past \cap {"direct", "mistaken"} = {} => Priced

(* Nothing is paid twice: one handler settles at a time, the contract has  *)
(* the deposit until it releases it, and nothing is transferred instead.   *)
Offer == Initiate(NewContract, 0, Seller, Deposit)
InEscrow(status) == status \in {"Funded", "FiatSent"}
Payable ==
    /\ OnChain.status \in {"Created", "Funded", "FiatSent", "Completed"}
    /\ OnChain.status = "Created" => chain = Offer
    /\ InEscrow(OnChain.status) =>
         /\ OnChain.buyer # NoOne /\ OnChain.amount = Deposit
         /\ chain.balance = Deposit /\ chain.used = {}
Unpaid ==
    /\ OnChain.status # "Completed" => \A x \in TradeIds \X Buyers : paid[x] = 0
    /\ \A x \in TradeIds \X Buyers : paid[x] <= 1
Settles(i) == flow[i].step \in OracleSteps
Alone(i) == \A j \in Flows \ {i} : ~Settles(j)
Clear(f) ==
    /\ f.step # "transfer"
    /\ f.step = "selflock" => OnChain.status = "Created"
    /\ f.step \in {"submit", "mine"} /\ f.kind # "webhook" => InEscrow(OnChain.status)
Once ==
    /\ Payable /\ Unpaid
    /\ \A i \in Flows : Clear(flow[i]) /\ (Settles(i) => Alone(i))
OnceInv == past \cap {"lost", "unread", "overlap", "direct", "reclaimed"} = {} => Once

(* What the store completes is paid: one trade of the listing is sold, and *)
(* whatever settles it pays its buyer or finds the contract paid him.      *)
Over == OnChain.status = "Completed"
Due(t) == t \in Sold(mem) \/ Over
Got(t) == t \in Sold(mem) /\ paid[t, mem.trades[t].buyer] > 0
Backs(f) ==
    /\ f.step \in Paying \cup {"session", "execute"} => Due(f.trade)
    /\ f.hash => Over
    /\ f.step = "answer" => Over \/ Got(f.trade)
    /\ f.step \in OracleSteps \ {"answer"} /\ f.kind # "webhook" =>
         Over \/ f.to = mem.trades[f.trade].buyer
OneSold ==
    /\ \A t, u \in Sold(mem) : t = u
    /\ \A t \in Sold(mem) : OnChain.buyer \in {NoOne, mem.trades[t].buyer}
    /\ Over => \E t \in Sold(mem) : Got(t)
    /\ InEscrow(OnChain.status) => OnChain.buyer # NoOne
RowsDue ==
    /\ \A t \in TradeIds : Confirmed(mem.trades[t]) => Due(t)
    /\ \A t \in Sold(mem) : Complete(mem.trades[t]) => Got(t)
Delivered ==
    /\ OneSold /\ RowsDue
    /\ \A i \in Flows : Backs(flow[i]) /\ (proofs[i] # Null => Due(Listing))
DoneInv ==
    past \cap {"selflock", "forged", "proof", "contended", "direct", "again"} = {}
        => Delivered
-----------------------------------------------------------------------------
(* What the calls do to the records of the contract.                       *)
Undisputed(c, n) ==
    \A j \in EscrowIds :
        n.trades[j].status = "Disputed" => c.trades[j].status = "Disputed"
Finishes(c, n, i) ==
    /\ n.trades[i].status = "Completed"
    /\ \A j \in EscrowIds :
        /\ n.trades[j].buyer = c.trades[j].buyer
        /\ n.trades[j].status \in {c.trades[j].status, "Completed"}
Reclaims(c, n) ==
    \A j \in EscrowIds :
        \/ /\ n.trades[j].status = c.trades[j].status
           /\ n.trades[j].buyer = c.trades[j].buyer
        \/ /\ n.trades[j].status \in {"Resolved", "Created"}
           /\ n.trades[j].buyer \in {c.trades[j].buyer, NoOne}
           /\ c.trades[j].status \in {"Created", "Funded"}

LEMMA CompleteFinishes ==
    ASSUME NEW c \in Chain, NEW i \in EscrowIds, CanComplete(c, i),
           NEW n, n = CompleteTrade(c, i)
    PROVE  Finishes(c, n, i)
<1>1. c.trades[i].amount \in Nat /\ c.trades[i].collateral = 0 /\ c.balance \in Nat
    BY ChainParts
<1>2. c.balance >= c.trades[i].amount
    BY <1>1 DEF CanComplete, CanTransfer
<1>3. c.parent[i] \in EscrowIds \cup {0} /\ 0 \notin EscrowIds
    BY ContractAssumption DEF Chain
<1>4. PICK p : p = BackedBy(c, i)
    OBVIOUS
<1>5. p \in EscrowIds \cup {0}
    BY <1>3, <1>4 DEF BackedBy
<1>6. CASE p = 0
  <2>1. n = Ended(c, i, "Completed", c.used)
    BY <1>4, <1>6, CompleteEnds
  <2>2. "Completed" \in EscrowStatus /\ c.used \in SUBSET Evidence
    BY DEF EscrowStatus, Chain
  <2>3. /\ n.trades[i].status = "Completed" /\ n.trades[i].buyer = c.trades[i].buyer
        /\ \A j \in EscrowIds \ {i} : n.trades[j] = c.trades[j]
    BY <1>2, <2>1, <2>2, EndFields
  <2> QED
    BY <2>3 DEF Finishes
<1>7. CASE p \in EscrowIds
  <2>1. n = PaidOut(c, i, p)
    BY <1>4, <1>7, CompleteEnds
  <2>2. /\ n.trades[i].status = "Completed" /\ n.trades[i].buyer = c.trades[i].buyer
        /\ n.trades[p].buyer = c.trades[p].buyer
        /\ SoldOut(c.inv[p], c.trades[i].amount) => n.trades[p].status = "Completed"
        /\ p # i /\ ~SoldOut(c.inv[p], c.trades[i].amount) =>
             n.trades[p].status = c.trades[p].status
        /\ \A j \in EscrowIds \ {i, p} : n.trades[j] = c.trades[j]
    BY <1>2, <1>7, <2>1, PaidOutFields
  <2> QED
    BY <2>2 DEF Finishes
<1> QED
    BY <1>5, <1>6, <1>7

LEMMA ReclaimReclaims ==
    ASSUME NEW c \in Chain, NEW i \in EscrowIds, CanReclaim(c, 0, i),
           NEW n, n = Reclaim(c, 0, i)
    PROVE  Reclaims(c, n)
<1>1. c.trades[i].amount \in Nat /\ c.trades[i].collateral = 0 /\ c.balance \in Nat
      /\ c.inv[i].avail \in Nat
    BY ChainParts
<1>2. "Resolved" \in EscrowStatus /\ c.used \in SUBSET Evidence
    BY DEF EscrowStatus, Chain
<1>3. CASE InState(c, i, "Created")
  <2>1. c.balance >= OpenRefund(c, i)
    BY <1>1, <1>3 DEF CanReclaim, CanTransfer, OpenRefund, ReclaimsUnpaid, InState
  <2>2. /\ n.trades[i].status = "Resolved" /\ n.trades[i].buyer = c.trades[i].buyer
        /\ \A j \in EscrowIds \ {i} : n.trades[j] = c.trades[j]
    BY <1>3, <2>1, OpenFields
  <2> QED
    BY <1>3, <2>2 DEF Reclaims, InState
<1>4. CASE ~InState(c, i, "Created")
  <2>1. c.trades[i].status = "Funded"
    BY <1>4 DEF CanReclaim, ReclaimsOpen, ReclaimsUnpaid, InState
  <2>2. CASE ActiveParent(c, i)
    <3>1. PICK p : p = c.parent[i]
        OBVIOUS
    <3>2. p \in EscrowIds
        BY <2>2, <3>1, ContractAssumption DEF ActiveParent, Chain
    <3>3. n = Returned(c, i, p, "Resolved", c.used)
        BY <1>4, <2>2, <3>1, ReclaimEnds
    <3>4. /\ n.trades[i].status = "Resolved" /\ n.trades[i].buyer = c.trades[i].buyer
          /\ \A j \in EscrowIds \ {i} : n.trades[j] = c.trades[j]
        BY <1>2, <3>2, <3>3, ReturnFields
    <3> QED
        BY <2>1, <3>4 DEF Reclaims
  <2>3. CASE ~ActiveParent(c, i) /\ c.inv[i].active
    <3>1. n = Reoffered(c, i)
        BY <1>4, <2>3, ReclaimEnds
    <3>2. /\ n.trades[i].status = "Created" /\ n.trades[i].buyer = NoOne
          /\ \A j \in EscrowIds \ {i} : n.trades[j] = c.trades[j]
        BY <3>1, ReofferFields
    <3> QED
        BY <2>1, <3>2 DEF Reclaims
  <2>4. CASE ~ActiveParent(c, i) /\ ~c.inv[i].active
    <3>1. n = Ended(c, i, "Resolved", c.used)
        BY <1>4, <2>4, ReclaimEnds
    <3>2. c.balance >= c.trades[i].amount
        BY <1>1, <1>4, <2>4 DEF CanReclaim, CanTransfer, ReclaimsOpen
    <3>3. /\ n.trades[i].status = "Resolved" /\ n.trades[i].buyer = c.trades[i].buyer
          /\ \A j \in EscrowIds \ {i} : n.trades[j] = c.trades[j]
        BY <1>2, <3>1, <3>2, EndFields
    <3> QED
        BY <2>1, <3>3 DEF Reclaims
  <2> QED
    BY <2>2, <2>3, <2>4
<1> QED
    BY <1>3, <1>4

LEMMA ReleaseFinishes ==
    ASSUME NEW c \in Chain, NEW i \in EscrowIds, NEW proof \in Evidence,
           CanOracleRelease(c, i, proof), NEW n, n = OracleRelease(c, i, proof)
    PROVE  Finishes(c, n, i)
<1>1. PICK k : k = Known(c, proof)
    OBVIOUS
<1>2. k \in Chain /\ k.trades = c.trades /\ k.balance = c.balance
    BY <1>1, KnownFields
<1>3. CanComplete(k, i)
    BY <1>2 DEF CanOracleRelease, CanComplete, CanTransfer
<1>4. n = CompleteTrade(k, i)
    BY <1>1, KnownCompletes
<1>5. Finishes(k, n, i)
    BY <1>2, <1>3, <1>4, CompleteFinishes
<1> QED
    BY <1>2, <1>5 DEF Finishes
-----------------------------------------------------------------------------
(* The contract from one call to the next.                                 *)
LEMMA ContractSame ==
    ASSUME NEW c, NEW p, Contract(c, p), NEW q, p \subseteq q
    PROVE  Contract(c, q)
    BY DEF Contract

LEMMA ContractCalls ==
    ASSUME NEW c, NEW p, Contract(c, p), NEW n, Keeps(c, n), NEW q, p \subseteq q,
           Undisputed(c, n) \/ "direct" \in q
    PROVE  Contract(n, q)
<1>1. c \in Chain /\ ChainId < c.next /\ n \in Chain /\ n.next >= c.next
    BY DEF Contract, Keeps
<1>2. c.next \in Nat /\ n.next \in Nat /\ ChainId \in Nat
    BY <1>1 DEF Chain, ChainId
<1>3. ChainId < n.next
    BY <1>1, <1>2
<1>4. "reopened" \notin q => Ledger(n)
    BY DEF Contract, Keeps
<1>5. "direct" \notin q => \A i \in EscrowIds : n.trades[i].status # "Disputed"
    BY DEF Contract, Undisputed
<1> QED
    BY <1>1, <1>3, <1>4, <1>5 DEF Contract

(* A call that may have broken the books says so.                          *)
LEMMA ContractReopens ==
    ASSUME NEW c, NEW p, Contract(c, p), NEW n \in Chain, n.next = c.next,
           NEW q, p \subseteq q, "reopened" \in q, Undisputed(c, n)
    PROVE  Contract(n, q)
    BY DEF Contract, Undisputed

-----------------------------------------------------------------------------
(* The store from one call to the next.                                    *)
Serves(m, n) == Store(n) /\ Holds(m, n)

LEMMA HoldsSame ==
    ASSUME NEW m, NEW n, n = m
    PROVE  Holds(m, n)
    BY DEF Holds

LEMMA ServesSame ==
    ASSUME NEW m, Store(m)
    PROVE  Serves(m, m)
    BY HoldsSame DEF Serves

LEMMA ListingIs == Listing \in Listings /\ Listing \in TradeIds
<1>1. Listings \subseteq TradeIds /\ IsFiniteSet(TradeIds)
    BY FiniteAssumption DEF TradeIds
<1>2. IsFiniteSet(Listings)
    BY <1>1, FS_Subset
<1>3. Listings # {}
    BY <1>2, FS_EmptySet, FlowAssumption
<1>4. Listing \in Listings
    BY <1>3 DEF Listing
<1> QED
    BY <1>1, <1>4

LEMMA FollowsServe ==
    ASSUME NEW m, Store(m), NEW n, Sound(n, 0),
           \A t \in TradeIds : Follows(m.trades[t], n.trades[t])
    PROVE  Serves(m, n)
<1>1. \A t \in TradeIds : Bought(m, t) => Bought(n, t)
    BY DEF Follows, Bought
<1>2. \A t \in TradeIds : m.trades[t] # Null => n.trades[t] # Null
    BY DEF Follows
<1>3. Awaited(n)
    BY DEF Store, Awaited, Follows
<1>4. n.trades[Listing] # Null
    BY <1>2, ListingIs DEF Store
<1> QED
    BY <1>1, <1>2, <1>3, <1>4 DEF Serves, Store, Holds

LEMMA EasesServe ==
    ASSUME NEW m, Store(m), NEW n, Sound(n, 0), Eases(m, n)
    PROVE  Serves(m, n)
    BY FollowsServe DEF Eases

LEMMA GoesServe ==
    ASSUME NEW m, Store(m), NEW n, Sound(n, 0), NEW t, Goes(m, n, t)
    PROVE  Serves(m, n)
    BY FollowsServe DEF Goes

LEMMA TakenServe ==
    ASSUME NEW m, Store(m), NEW b \in Buyers, NEW res, Sound(res.mem, 0), TakenBy(m, res, b)
    PROVE  Serves(m, res.mem)
<1>1. CASE res.mem.trades = m.trades
    BY <1>1, FollowsServe DEF Follows
<1>2. ASSUME NEW t \in TradeIds, NEW y \in SharedTrade,
             y.buyer = b, y.life = "AWAITING_PAYMENT",
             res.mem.trades = [m.trades EXCEPT ![t] = y]
      PROVE  Serves(m, res.mem)
  <2>1. m.trades \in [TradeIds -> SharedTrade \cup {Null}]
    BY DEF Store, Sound, Typed, Memory
  <2>2. PICK rows : rows = res.mem.trades
    OBVIOUS
  <2>3. rows[t] = y /\ \A u \in TradeIds \ {t} : rows[u] = m.trades[u]
    BY <1>2, <2>1, <2>2
  <2>4. y # Null /\ b # Null
    BY NullApart
  <2>5. \A u \in TradeIds : Bought(m, u) => Bought(res.mem, u)
    BY <1>2, <2>2, <2>3, <2>4 DEF Bought
  <2>6. \A u \in TradeIds : m.trades[u] # Null => rows[u] # Null
    BY <2>3, <2>4
  <2>7. Awaited(res.mem)
    BY <1>2, <2>2, <2>3, <2>4 DEF Store, Awaited
  <2>8. rows[Listing] # Null
    BY <2>6, ListingIs DEF Store
  <2> QED
    BY <2>2, <2>5, <2>6, <2>7, <2>8 DEF Serves, Store, Holds
<1> QED
    BY <1>1, <1>2 DEF TakenBy

LEMMA PayoutServes ==
    ASSUME NEW m, Store(m), NEW t \in TradeIds, NEW op \in {"initiate", "confirm", "hold"}
    PROVE  Serves(m, PayoutStep(m, t, op).mem)
<1>1. Sound(m, 0) /\ Typed(m)
    BY DEF Store, Sound
<1>2. Sound(PayoutStep(m, t, op).mem, 0)
    BY <1>1, PayoutSteps, StepsGood DEF Good
<1> QED
    BY <1>1, <1>2, PayoutEases, EasesServe

LEMMA RequestServes ==
    ASSUME NEW m, Store(m), NEW t \in TradeIds
    PROVE  /\ Serves(m, RequestRelease(m, t).mem) /\ Serves(m, RefundRequest(m, t).mem)
           /\ Serves(m, HoldRelease(m, t).mem)
<1>1. Sound(m, 0) /\ Typed(m)
    BY DEF Store, Sound
<1>2. Sound(RequestRelease(m, t).mem, 0) /\ Sound(RefundRequest(m, t).mem, 0)
    BY <1>1, RequestSteps, StepsGood DEF Good
<1>3. Sound(HoldRelease(m, t).mem, 0)
    BY <1>1, HoldSteps, StepsGood DEF Good
<1>4. Eases(m, RequestRelease(m, t).mem)
    BY <1>1, RequestEases
<1>5. Eases(m, RefundRequest(m, t).mem) /\ Eases(m, HoldRelease(m, t).mem)
    BY <1>1, RefundEases
<1> QED
    BY <1>2, <1>3, <1>4, <1>5, EasesServe

LEMMA EndServes ==
    ASSUME NEW m, Store(m), NEW t \in TradeIds, NEW u
    PROVE  /\ Serves(m, CancelTrade(m, u, t).mem) /\ Serves(m, RefundComplete(m, t).mem)
           /\ Serves(m, CompletePeerTrade(m, t).mem) /\ Serves(m, ConfirmRelease(m, t).mem)
<1>1. Sound(m, 0)
    BY DEF Store
<1>2. Serves(m, CancelTrade(m, u, t).mem)
    BY <1>1, CancelGood, CancelEases, EasesServe DEF Good
<1>3. Serves(m, RefundComplete(m, t).mem)
    BY <1>1, RefundGood, RefundedEases, EasesServe DEF Good
<1>4. Serves(m, CompletePeerTrade(m, t).mem)
    BY <1>1, CompleteGood, CompleteGoes, GoesServe DEF Good
<1>5. Serves(m, ConfirmRelease(m, t).mem)
    BY <1>1, ConfirmGood, ConfirmGoes, GoesServe DEF Good
<1> QED
    BY <1>2, <1>3, <1>4, <1>5

LEMMA CheckoutServes ==
    ASSUME NEW m, Store(m), NEW b \in Buyers, NEW t \in TradeIds, Bought(m, t),
           NEW r \in TxRefs, m.attempts[r] = Null, NEW draw,
           NEW n, n = Checkout(m, 0, b, t, r, draw).mem
    PROVE  Serves(m, n)
<1>1. Sound(m, 0) /\ 0 \in Nat
    BY DEF Store
<1>2. m.trades[t] # Null /\ m.trades[t].buyer # Null /\ m.trades[t].life # "OPEN"
    BY DEF Bought
<1>3. Sound(n, 0)
    BY <1>1, <1>2, CheckoutGood DEF Good
<1>4. Eases(m, n)
    BY <1>1, <1>2, CheckoutEases
<1> QED
    BY <1>3, <1>4, EasesServe

LEMMA RecordServes ==
    ASSUME NEW m, Store(m), NEW t \in TradeIds, NEW r \in TxRefs, NEW f \in FlwIds,
           NEW amount \in Amounts, NEW n, n = RecordPayment(m, 0, t, r, f, amount, Null).mem
    PROVE  Serves(m, n)
<1>1. Sound(m, 0) /\ 0 \in Nat /\ Null \in FlwIds \cup {Null}
    BY DEF Store
<1>2. Sound(n, 0)
    BY <1>1, RecordGood DEF Good
<1>3. Goes(m, n, t)
    BY <1>1, RecordReports DEF Reports
<1> QED
    BY <1>2, <1>3, GoesServe

LEMMA TakeServes ==
    ASSUME NEW m, Store(m), NEW b \in Buyers, NEW want \in Nat, NEW draw \in Draws(m, Listing),
           NEW res, res = TakePeerOffer(m, 0, b, Listing, want, draw)
    PROVE  Serves(m, res.mem) /\ TakenBy(m, res, b)
<1>1. Sound(m, 0) /\ 0 \in Nat /\ want \in Nat \cup {Null}
    BY DEF Store
<1>2. Drawn(m, Listing, draw)
    BY DrawsDrawn
<1>3. TakenBy(m, res, b)
    BY <1>1, <1>2, ListingIs, TakeTaken
<1>4. Sound(res.mem, 0)
    BY <1>1, <1>2, ListingIs, TakeGood DEF Good
<1> QED
    BY <1>3, <1>4, TakenServe
-----------------------------------------------------------------------------
(* The handlers from one step to the next.                                 *)
Stepped(f, x, step) ==
    /\ x \in Handler /\ x.step = step
    /\ x.kind = f.kind /\ x.who = f.who /\ x.trade = f.trade /\ x.arg = f.arg
    /\ x.to = f.to /\ x.hash = f.hash
Started(x, kind, step, who, t, arg) ==
    /\ x \in Handler /\ x.step = step
    /\ x.kind = kind /\ x.who = who /\ x.trade = t /\ x.arg = arg
    /\ x.to = Null /\ x.hash = FALSE
Turns(i, x) == flow' = [flow EXCEPT ![i] = x]

LEMMA NoFlowIs ==
    /\ NoFlow \in Handler /\ NoFlow.step = "none" /\ NoFlow.trade = Listing
    /\ NoFlow.to = Null /\ NoFlow.hash = FALSE
<1>1. NoOne \in Address \cup {Null} /\ Null \in Address \cup {Null}
      /\ Null \in Nat \cup TxRefs \cup {Null} /\ FALSE \in BOOLEAN
    BY DEF Address
<1>2. "none" \in StepNames
    BY DEF StepNames
<1> QED
    BY <1>1, <1>2, ListingIs DEF NoFlow, Handler

LEMMA DoneIs ==
    /\ Done \in Handler /\ Done.step = "none" /\ Done.kind = "done"
    /\ Done.trade = Listing /\ Done.hash = FALSE
<1>1. PICK f \in Handler : f = NoFlow
    BY NoFlowIs
<1>2. Done = [f EXCEPT !.kind = "done"]
    BY <1>1 DEF Done
<1>3. "done" \in {"none", "done", "order", "settlement", "release", "proof", "webhook"}
    OBVIOUS
<1>4. /\ Done \in Handler /\ Done.step = f.step /\ Done.kind = "done"
      /\ Done.trade = f.trade /\ Done.hash = f.hash
    BY <1>2, <1>3 DEF Handler
<1> QED
    BY <1>1, <1>4, NoFlowIs

LEMMA GoTurns ==
    ASSUME flow \in [Flows -> Handler], NEW i \in Flows, NEW step \in StepNames, Go(i, step)
    PROVE  \E x : Stepped(flow[i], x, step) /\ Turns(i, x)
<1>1. PICK f \in Handler : f = flow[i]
    OBVIOUS
<1>2. PICK x : x = [f EXCEPT !.step = step]
    OBVIOUS
<1>3. Stepped(f, x, step)
    BY <1>2 DEF Stepped, Handler
<1>4. Turns(i, x)
    BY <1>1, <1>2 DEF Go, Turns
<1> QED
    BY <1>1, <1>3, <1>4

LEMMA StartTurns ==
    ASSUME NEW i \in Flows,
           NEW kind \in {"none", "done", "order", "settlement", "release", "proof", "webhook"},
           NEW step \in StepNames, NEW who, who \in Address \cup {Null}, NEW t \in TradeIds,
           NEW arg, arg \in Nat \cup TxRefs \cup {Null},
           Start(i, kind, step, who, t, arg)
    PROVE  \E x : Started(x, kind, step, who, t, arg) /\ Turns(i, x)
<1>1. PICK f \in Handler : f = NoFlow
    BY NoFlowIs
<1>2. PICK x : x = [f EXCEPT !.kind = kind, !.step = step, !.who = who, !.trade = t,
                             !.arg = arg]
    OBVIOUS
<1>3. x \in Handler
    BY <1>2 DEF Handler
<1>4. /\ x.step = step /\ x.kind = kind /\ x.who = who /\ x.trade = t /\ x.arg = arg
      /\ x.to = f.to /\ x.hash = f.hash
    BY <1>2 DEF Handler
<1>5. Started(x, kind, step, who, t, arg)
    BY <1>1, <1>3, <1>4, NoFlowIs DEF Started
<1>6. Turns(i, x)
    BY <1>1, <1>2 DEF Start, Turns
<1> QED
    BY <1>5, <1>6

(* Steps a handler takes without the facts its step before counted on.     *)
Plain == StepNames \ {"lock", "locking", "take", "checkout", "verify", "session", "execute"}

LEMMA DoneFits ==
    ASSUME NEW m, Store(m)
    PROVE  Fits(m, Done)
<1>1. m.trades[Listing] # Null
    BY DEF Store
<1> QED
    BY <1>1, DoneIs DEF Fits

LEMMA GoFits ==
    ASSUME NEW m, NEW f, Fits(m, f), NEW step \in Plain, NEW x, Stepped(f, x, step),
           f.kind = "webhook" => step \in {"submit", "mine", "answer"}
    PROVE  Fits(m, x)
<1>1. step \notin {"lock", "locking", "take", "checkout", "verify", "session", "execute"}
    BY DEF Plain
<1> QED
    BY <1>1 DEF Fits, Stepped

LEMMA FitsHolds ==
    ASSUME NEW m, NEW f, Fits(m, f), NEW n, Holds(m, n)
    PROVE  Fits(n, f)
<1>1. f.trade \in TradeIds
    BY DEF Fits, Handler
<1> QED
    BY <1>1 DEF Fits, Holds

LEMMA FlowingHolds ==
    ASSUME NEW m, NEW g, Flowing(m, g), NEW n, Holds(m, n)
    PROVE  Flowing(n, g)
    BY FitsHolds DEF Flowing

LEMMA ShapeMoves ==
    ASSUME Shape, Serves(mem, mem'), NEW i \in Flows, NEW x, Fits(mem', x), Turns(i, x),
           Contract(chain', past'), Tallies'
    PROVE  Shape'
<1>1. Store(mem') /\ Holds(mem, mem')
    BY DEF Serves
<1>2. Flowing(mem', flow)
    BY <1>1, FlowingHolds DEF Shape
<1>3. x \in Handler
    BY DEF Fits
<1>4. flow' \in [Flows -> Handler] /\ flow'[i] = x
      /\ \A j \in Flows \ {i} : flow'[j] = flow[j]
    BY <1>2, <1>3 DEF Flowing, Turns
<1>5. Flowing(mem', flow')
    BY <1>2, <1>4 DEF Flowing
<1> QED
    BY <1>1, <1>5 DEF Shape

LEMMA ShapeRests ==
    ASSUME Shape, Serves(mem, mem'), flow' = flow, Contract(chain', past'), Tallies'
    PROVE  Shape'
<1>1. Store(mem') /\ Holds(mem, mem')
    BY DEF Serves
<1>2. Flowing(mem', flow')
    BY <1>1, FlowingHolds DEF Shape
<1> QED
    BY <1>1, <1>2 DEF Shape

LEMMA TalliesSame ==
    ASSUME Shape, proofs' = proofs, fiat' = fiat, paid' = paid
    PROVE  Tallies'
    BY DEF Shape, Tallies

LEMMA ReceivedTyped ==
    ASSUME paid \in [TradeIds \X Buyers -> 0..2], NEW t, NEW to, Received(t, to)
    PROVE  /\ paid' \in [TradeIds \X Buyers -> 0..2]
           /\ \A x \in TradeIds \X Buyers :
                /\ x # <<t, to>> => paid'[x] = paid[x]
                /\ x = <<t, to>> => paid'[x] = Upto(paid[x] + 1, 2)
<1>1. \A k \in 0..2 : Upto(k + 1, 2) \in 0..2
    BY DEF Upto
<1>2. CASE <<t, to>> \in DOMAIN paid
  <2>1. paid' = [paid EXCEPT ![<<t, to>>] = Upto(paid[<<t, to>>] + 1, 2)]
    BY <1>2 DEF Received
  <2>2. PICK z \in TradeIds \X Buyers : z = <<t, to>>
    BY <1>2
  <2>3. PICK k \in 0..2 : k = Upto(paid[z] + 1, 2)
    BY <1>1, <2>2
  <2>4. paid' = [paid EXCEPT ![z] = k]
    BY <2>1, <2>2, <2>3
  <2>5. paid' \in [TradeIds \X Buyers -> 0..2]
    BY <2>4
  <2>6. \A x \in TradeIds \X Buyers : /\ x # z => paid'[x] = paid[x]
                                      /\ x = z => paid'[x] = k
    BY <2>4
  <2> QED
    BY <2>2, <2>3, <2>5, <2>6
<1>3. CASE <<t, to>> \notin DOMAIN paid
  <2>1. paid' = paid
    BY <1>3 DEF Received
  <2> QED
    BY <1>3, <2>1
<1> QED
    BY <1>2, <1>3

LEMMA ReceivedTallies ==
    ASSUME Shape, NEW t, NEW to, Received(t, to), proofs' \in [Flows -> ProofStatus \cup {Null}],
           fiat' = fiat
    PROVE  Tallies'
    BY ReceivedTyped DEF Shape, Tallies
-----------------------------------------------------------------------------
(* Every action keeps the shape: what the handlers of buyers do.           *)
Unhooked(i) == flow[i].kind # "webhook"

LEMMA Names ==
    /\ Paying \subseteq Plain /\ Plain \subseteq StepNames
    /\ {"lock", "locking", "take", "checkout", "verify", "session", "execute"} \subseteq StepNames
    BY DEF Paying, Plain, StepNames, PageSteps, OracleSteps

LEMMA HandlerIs ==
    ASSUME Shape, NEW i \in Flows
    PROVE  /\ flow[i] \in Handler /\ Fits(mem, flow[i])
           /\ flow[i].trade \in TradeIds /\ mem.trades[flow[i].trade] # Null
           /\ flow[i].step \notin {"submit", "mine", "answer"} => Unhooked(i)
    BY DEF Shape, Flowing, Fits, Handler, Unhooked

LEMMA ShapeTurns ==
    ASSUME Shape, NEW i \in Flows, NEW x, Fits(mem, x), Turns(i, x),
           mem' = mem, chain' = chain, past \subseteq past',
           proofs' = proofs, fiat' = fiat, paid' = paid
    PROVE  Shape'
<1>1. Serves(mem, mem')
    BY ServesSame DEF Shape
<1>2. Contract(chain', past')
    BY ContractSame DEF Shape
<1>3. Fits(mem', x)
    OBVIOUS
<1> QED
    BY <1>1, <1>2, <1>3, TalliesSame, ShapeMoves

LEMMA GoShape ==
    ASSUME Shape, NEW i \in Flows, NEW step \in Plain, Go(i, step),
           Unhooked(i) \/ step \in {"submit", "mine", "answer"},
           Serves(mem, mem'), Contract(chain', past'), Tallies'
    PROVE  Shape'
<1>1. flow \in [Flows -> Handler] /\ step \in StepNames
    BY Names DEF Shape, Flowing
<1>2. PICK x : Stepped(flow[i], x, step) /\ Turns(i, x)
    BY <1>1, GoTurns
<1>3. Fits(mem, x)
    BY <1>2, HandlerIs, GoFits DEF Unhooked
<1>4. Fits(mem', x)
    BY <1>3, FitsHolds DEF Serves
<1> QED
    BY <1>2, <1>4, ShapeMoves

LEMMA EndShape ==
    ASSUME Shape, NEW i \in Flows, End(i),
           Serves(mem, mem'), Contract(chain', past'), Tallies'
    PROVE  Shape'
<1>1. Fits(mem', Done)
    BY DoneFits DEF Serves
<1>2. Turns(i, Done)
    BY DEF End, Turns
<1> QED
    BY <1>1, <1>2, ShapeMoves

LEMMA Idle ==
    ASSUME Shape, mem' = mem, chain' = chain, proofs' = proofs, fiat' = fiat, paid' = paid,
           past \subseteq past'
    PROVE  Serves(mem, mem') /\ Contract(chain', past') /\ Tallies'
    BY ServesSame, ContractSame, TalliesSame DEF Shape

LEMMA PlaceOrderShape ==
    ASSUME Shape, NEW i \in Flows, NEW b \in Buyers, NEW want \in Requests,
           PlaceOrder(i, b, want)
    PROVE  Shape'
<1>1. PICK step \in {"lock", "take"} : Start(i, "order", step, b, Listing, want)
    BY DEF PlaceOrder
<1>2. step \in StepNames /\ b \in Address \cup {Null} /\ want \in Nat
      /\ want \in Nat \cup TxRefs \cup {Null}
    BY Names, OrdersAssumption DEF Address
<1>3. PICK x : Started(x, "order", step, b, Listing, want) /\ Turns(i, x)
    BY <1>1, <1>2, ListingIs, StartTurns
<1>4. mem.trades[Listing] # Null
    BY DEF Shape, Store
<1>5. Fits(mem, x)
    BY <1>2, <1>3, <1>4, AddressAssumption DEF Fits, Started
<1> QED
    BY <1>3, <1>5, ShapeTurns DEF PlaceOrder

LEMMA SimulateLockShape ==
    ASSUME Shape, NEW i \in Flows, SimulateLock(i)
    PROVE  Shape'
<1>1. PICK step \in {"locking", "take"} : Go(i, step)
    BY DEF SimulateLock
<1>2. step \in StepNames /\ flow \in [Flows -> Handler]
    BY Names DEF Shape, Flowing
<1>3. PICK x : Stepped(flow[i], x, step) /\ Turns(i, x)
    BY <1>1, <1>2, GoTurns
<1>4. Fits(mem, x)
    BY <1>3, HandlerIs DEF Fits, Stepped, SimulateLock, At
<1> QED
    BY <1>3, <1>4, ShapeTurns DEF SimulateLock

LEMMA FundsContract ==
    ASSUME Shape, NEW who \in Address \ {NoOne}, CanFund(chain, who, ChainId),
           chain' = Fund(chain, Now, who, ChainId, 0), past \subseteq past'
    PROVE  /\ Contract(chain', past')
           /\ chain'.trades[ChainId].status = "Funded"
           /\ chain'.trades[ChainId].buyer = who
           /\ OnChain.status = "Created"
<1>1. chain \in Chain /\ ChainId \in EscrowIds /\ ChainId < chain.next
    BY ListedAssumption DEF Shape, Contract, ChainId
<1>2. chain' = Fund(chain, 0, who, ChainId, 0)
    BY DEF Now
<1>3. Keeps(chain, chain')
    BY <1>1, <1>2, FundCalls
<1>4. /\ chain'.trades[ChainId].status = "Funded" /\ chain'.trades[ChainId].buyer = who
      /\ \A j \in EscrowIds \ {ChainId} : chain'.trades[j] = chain.trades[j]
    BY <1>1, <1>2, FundFields
<1>5. Undisputed(chain, chain')
    BY <1>4 DEF Undisputed
<1>6. Contract(chain', past')
    BY <1>3, <1>5, ContractCalls DEF Shape
<1> QED
    BY <1>4, <1>6 DEF CanFund, InState, OnChain

LEMMA LockMinedShape ==
    ASSUME Shape, NEW i \in Flows, LockMined(i)
    PROVE  Shape'
<1>1. PICK f : f = flow[i]
    OBVIOUS
<1>2. f.step = "locking" /\ Fits(mem, f) /\ f.who \in Buyers /\ Unhooked(i)
    BY <1>1, HandlerIs DEF LockMined, At, Fits
<1>3. CASE CanFund(chain, f.who, ChainId)
  <2>1. /\ chain' = Fund(chain, Now, f.who, ChainId, 0) /\ past \subseteq past'
        /\ Go(i, "take") \/ End(i)
        /\ fiat' = fiat /\ mem' = mem /\ proofs' = proofs /\ paid' = paid
    BY <1>1, <1>3 DEF LockMined
  <2>2. f.who \in Address \ {NoOne}
    BY <1>2, AddressAssumption DEF Address
  <2>3. Contract(chain', past')
    BY <1>3, <2>1, <2>2, FundsContract
  <2>4. Serves(mem, mem') /\ Tallies'
    BY <2>1, ServesSame, TalliesSame DEF Shape
  <2>5. CASE Go(i, "take")
    <3>1. flow \in [Flows -> Handler] /\ "take" \in StepNames
        BY Names DEF Shape, Flowing
    <3>2. PICK x : Stepped(flow[i], x, "take") /\ Turns(i, x)
        BY <2>5, <3>1, GoTurns
    <3>3. Fits(mem', x)
        BY <1>1, <1>2, <2>1, <3>2 DEF Fits, Stepped
    <3> QED
        BY <2>3, <2>4, <3>2, <3>3, ShapeMoves
  <2>6. CASE End(i)
    BY <2>3, <2>4, <2>6, EndShape
  <2> QED
    BY <2>1, <2>5, <2>6
<1>4. CASE ~CanFund(chain, f.who, ChainId)
  <2>1. End(i) /\ chain' = chain /\ past \subseteq past'
        /\ fiat' = fiat /\ mem' = mem /\ proofs' = proofs /\ paid' = paid
    BY <1>1, <1>4 DEF LockMined
  <2> QED
    BY <2>1, Idle, EndShape
<1> QED
    BY <1>3, <1>4

LEMMA TakeOrderShape ==
    ASSUME Shape, NEW i \in Flows, TakeOrder(i)
    PROVE  Shape'
<1>1. PICK f : f = flow[i]
    OBVIOUS
<1>2. f.step = "take" /\ Fits(mem, f) /\ f.who \in Buyers /\ f.arg \in Nat
    BY <1>1, HandlerIs DEF TakeOrder, At, Fits
<1>3. PICK draw \in Draws(mem, Listing) :
         /\ mem' = TakePeerOffer(mem, 0, f.who, Listing, f.arg, draw).mem
         /\ past \subseteq past'
    BY <1>1 DEF TakeOrder, Now
<1>4. Serves(mem, mem')
    BY <1>2, <1>3, TakeServes DEF Shape
<1>5. End(i) /\ chain' = chain /\ fiat' = fiat /\ proofs' = proofs /\ paid' = paid
    BY DEF TakeOrder
<1>6. Contract(chain', past') /\ Tallies'
    BY <1>3, <1>5, ContractSame, TalliesSame DEF Shape
<1> QED
    BY <1>4, <1>5, <1>6, EndShape

LEMMA ClickPaidShape ==
    ASSUME Shape, NEW i \in Flows, NEW t \in TradeIds, ClickPaid(i, t)
    PROVE  Shape'
<1>1. PICK row \in SharedTrade : row = mem.trades[t]
    BY DEF ClickPaid, Trade, Shape, Store, Sound, Typed, Memory
<1>2. row.life = "AWAITING_PAYMENT" /\ Start(i, "settlement", "checkout", row.buyer, t, row.ref)
    BY <1>1 DEF ClickPaid, Trade
<1>3. row # Null /\ row.buyer # Null
    BY <1>1, <1>2, NullApart DEF Shape, Store, Awaited
<1>4. row.buyer \in Buyers /\ row.buyer \in Address \cup {Null}
    BY <1>1, <1>3 DEF SharedTrade, Address
<1>5. row.ref \in TxRefs \cup {Null} /\ row.ref \in Nat \cup TxRefs \cup {Null}
    BY <1>1 DEF SharedTrade
<1>6. PICK x : Started(x, "settlement", "checkout", row.buyer, t, row.ref) /\ Turns(i, x)
    BY <1>2, <1>4, <1>5, Names, StartTurns
<1>7. Bought(mem, t)
    BY <1>1, <1>2, <1>3 DEF Bought
<1>8. Fits(mem, x)
    BY <1>4, <1>5, <1>6, <1>7, AddressAssumption DEF Fits, Started, Bought
<1> QED
    BY <1>6, <1>8, ShapeTurns DEF ClickPaid

LEMMA OpenCheckoutShape ==
    ASSUME Shape, NEW i \in Flows, OpenCheckout(i)
    PROVE  Shape'
<1>1. PICK f : f = flow[i]
    OBVIOUS
<1>2. f.step = "checkout" /\ Fits(mem, f) /\ f \in Handler
    BY <1>1, HandlerIs DEF OpenCheckout, At
<1>3. f.who \in Buyers /\ Bought(mem, f.trade) /\ f.arg \in TxRefs \cup {Null}
      /\ f.trade \in TradeIds /\ f.kind # "webhook" /\ mem.trades[f.trade] # Null
    BY <1>2 DEF Fits, Handler
<1>4. chain' = chain /\ past' = past /\ Tallies'
    BY TalliesSame DEF OpenCheckout
<1>5. Contract(chain', past')
    BY <1>4 DEF Shape
<1>6. flow \in [Flows -> Handler] /\ "verify" \in StepNames
    BY Names DEF Shape, Flowing
<1>7. CASE f.arg # Null /\ Go(i, "verify") /\ mem' = mem
  <2>1. PICK x : Stepped(f, x, "verify") /\ Turns(i, x)
    BY <1>1, <1>6, <1>7, GoTurns
  <2>2. Fits(mem', x)
    BY <1>3, <1>7, <2>1, AddressAssumption DEF Fits, Stepped
  <2>3. Serves(mem, mem')
    BY <1>7, ServesSame DEF Shape
  <2> QED
    BY <1>4, <1>5, <2>1, <2>2, <2>3, ShapeMoves
<1>8. ASSUME NEW r \in Pick({x \in TxRefs : mem.attempts[x] = Null}),
             NEW res, res = Checkout(mem, Now, f.who, f.trade, r, <<Null, Null>>),
             mem' = res.mem,
             flow' = [flow EXCEPT ![i] = IF ~res.ok THEN Done ELSE
                              [f EXCEPT !.step = "verify",
                                        !.arg = res.mem.trades[f.trade].ref]]
      PROVE  Shape'
  <2>1. r \in TxRefs /\ mem.attempts[r] = Null
    BY <1>8 DEF Pick
  <2>2. res = Checkout(mem, 0, f.who, f.trade, r, <<Null, Null>>)
    BY <1>8 DEF Now
  <2>3. Serves(mem, mem')
    BY <1>3, <1>8, <2>1, <2>2, CheckoutServes DEF Shape
  <2>4. CASE ~res.ok
    <3>1. Turns(i, Done)
        BY <1>8, <2>4 DEF Turns
    <3>2. Fits(mem', Done)
        BY <2>3, DoneFits DEF Serves
    <3> QED
        BY <1>4, <1>5, <2>3, <3>1, <3>2, ShapeMoves
  <2>5. CASE res.ok
    <3>1. PICK ref : ref = res.mem.trades[f.trade].ref
        OBVIOUS
    <3>2. ref \in TxRefs
        BY <1>3, <2>1, <2>2, <2>5, <3>1, CheckoutEases DEF Shape, Store, Bought
    <3>3. PICK x : x = [f EXCEPT !.step = "verify", !.arg = ref]
        OBVIOUS
    <3>4. /\ x \in Handler /\ x.step = "verify" /\ x.arg = ref
          /\ x.who = f.who /\ x.trade = f.trade /\ x.kind = f.kind
        BY <1>2, <1>6, <3>2, <3>3 DEF Handler
    <3>5. Turns(i, x)
        BY <1>8, <2>5, <3>1, <3>3 DEF Turns
    <3>6. Fits(mem, x)
        BY <1>3, <3>2, <3>4, AddressAssumption DEF Fits
    <3>7. Fits(mem', x)
        BY <2>3, <3>6, FitsHolds DEF Serves
    <3> QED
        BY <1>4, <1>5, <2>3, <3>5, <3>7, ShapeMoves
  <2> QED
    BY <2>4, <2>5
<1> QED
    BY <1>1, <1>7, <1>8 DEF OpenCheckout

LEMMA VerifyPaidShape ==
    ASSUME Shape, NEW i \in Flows, VerifyPaid(i)
    PROVE  Shape'
<1>1. PICK f : f = flow[i]
    OBVIOUS
<1>2. f.step = "verify" /\ Fits(mem, f) /\ Unhooked(i)
    BY <1>1, HandlerIs DEF VerifyPaid, At
<1>3. f.arg \in TxRefs /\ f.trade \in TradeIds
    BY <1>2 DEF Fits, Handler
<1>4. PICK g \in Pick({x \in FlwIds : mem.consumed[x] = Null}), amount \in Reported :
        LET res == RecordPayment(mem, Now, f.trade, f.arg, g, amount, Null) IN
        /\ mem' = res.mem
        /\ GoIf(i, Proceeds(res, f.trade), "initiate")
        /\ fiat' = IF res.ok /\ amount \in {"exact", "over"} THEN fiat \cup {f.trade} ELSE fiat
    BY <1>1 DEF VerifyPaid
<1>5. g \in FlwIds /\ amount \in Amounts
    BY FlowAssumption DEF Pick
<1>6. Serves(mem, mem')
    BY <1>3, <1>4, <1>5, RecordServes DEF Shape, Now
<1>7. chain' = chain /\ proofs' = proofs /\ paid' = paid /\ past' = past
    BY DEF VerifyPaid
<1>8. fiat' \in SUBSET TradeIds
    BY <1>3, <1>4 DEF Shape, Tallies
<1>9. Contract(chain', past') /\ Tallies'
    BY <1>7, <1>8 DEF Shape, Tallies
<1>10. Go(i, "initiate") \/ End(i)
    BY <1>4 DEF GoIf
<1>11. "initiate" \in Plain
    BY Names DEF Paying
<1> QED
    BY <1>2, <1>6, <1>9, <1>10, <1>11, GoShape, EndShape
-----------------------------------------------------------------------------
(* What the handlers of a settlement do.                                   *)
LEMMA ClickFinalizeShape ==
    ASSUME Shape, NEW i \in Flows, NEW t \in TradeIds, ClickFinalize(i, t)
    PROVE  Shape'
<1>1. PICK row \in SharedTrade : row = mem.trades[t]
    BY DEF ClickFinalize, Trade, Shape, Store, Sound, Typed, Memory
<1>2. PICK u \in {row.buyer, Seller} : Start(i, "settlement", "initiate", u, t, Null)
    BY <1>1 DEF ClickFinalize, Trade
<1>3. u \in Address \cup {Null} /\ row # Null /\ Null \in Nat \cup TxRefs \cup {Null}
    BY <1>1, NullApart DEF SharedTrade, Address
<1>4. PICK x : Started(x, "settlement", "initiate", u, t, Null) /\ Turns(i, x)
    BY <1>2, <1>3, Names, StartTurns DEF Paying
<1>5. u # NoOne
    BY <1>1, AddressAssumption DEF SharedTrade
<1>6. Fits(mem, x)
    BY <1>1, <1>3, <1>4, <1>5 DEF Fits, Started
<1> QED
    BY <1>4, <1>6, ShapeTurns DEF ClickFinalize

LEMMA ClickReleaseShape ==
    ASSUME Shape, NEW i \in Flows, NEW u \in Buyers \cup {Seller}, NEW t \in TradeIds,
           ClickRelease(i, u, t)
    PROVE  Shape'
<1>1. PICK step \in {"chain", "settle"} : Start(i, "release", step, u, t, Null)
    BY DEF ClickRelease
<1>2. u \in Address \cup {Null} /\ Null \in Nat \cup TxRefs \cup {Null}
    BY DEF Address
<1>3. step \in StepNames
    BY Names DEF Paying
<1>4. PICK x : Started(x, "release", step, u, t, Null) /\ Turns(i, x)
    BY <1>1, <1>2, <1>3, StartTurns
<1>5. Fits(mem, x)
    BY <1>4, AddressAssumption DEF Fits, Started, ClickRelease, Trade
<1> QED
    BY <1>4, <1>5, ShapeTurns DEF ClickRelease

LEMMA AskStoreShape ==
    ASSUME Shape, NEW i \in Flows, AskStore(i)
    PROVE  Shape'
<1>1. PICK f : f = flow[i]
    OBVIOUS
<1>2. f.trade \in TradeIds /\ f.step \in {"initiate", "confirm", "request"} /\ Unhooked(i)
    BY <1>1, HandlerIs DEF AskStore
<1>3. \/ f.step = "initiate" /\ mem' = PayoutStep(mem, f.trade, "initiate").mem
      \/ f.step = "confirm" /\ mem' = PayoutStep(mem, f.trade, "confirm").mem
      \/ f.step = "request" /\ mem' = RequestRelease(mem, f.trade).mem
    BY <1>1, <1>2 DEF AskStore, At
<1>4. Serves(mem, mem')
    BY <1>2, <1>3, PayoutServes, RequestServes DEF Shape
<1>5. StepAfter(f.step, f.trade) \in Plain
    BY <1>2, Names DEF StepAfter, Paying
<1>6. Go(i, StepAfter(f.step, f.trade)) /\ chain' = chain /\ past' = past
      /\ fiat' = fiat /\ proofs' = proofs /\ paid' = paid
    BY <1>1 DEF AskStore
<1>7. Contract(chain', past') /\ Tallies'
    BY <1>6, TalliesSame DEF Shape
<1> QED
    BY <1>2, <1>4, <1>5, <1>6, <1>7, GoShape

(* A release by the seller, or by the oracle, in the contract.             *)
LEMMA FinishesContract ==
    ASSUME NEW c, NEW p, Contract(c, p), NEW n, Keeps(c, n), Finishes(c, n, ChainId),
           NEW q, p \subseteq q
    PROVE  Contract(n, q)
<1>1. Undisputed(c, n)
    BY DEF Finishes, Undisputed
<1> QED
    BY <1>1, ContractCalls

LEMMA CompletesContract ==
    ASSUME NEW c, NEW p, Contract(c, p), NEW who, CanRelease(c, who, ChainId),
           NEW n, n = CompleteTrade(c, ChainId), NEW q, p \subseteq q
    PROVE  Contract(n, q) /\ Finishes(c, n, ChainId)
<1>1. c \in Chain /\ ChainId \in EscrowIds
    BY ListedAssumption DEF Contract, ChainId
<1>2. CanComplete(c, ChainId) /\ c.trades[ChainId].status \in {"Funded", "FiatSent", "Disputed"}
    BY DEF CanRelease, InState
<1>3. Keeps(c, n)
    BY <1>1, <1>2, CompleteCalls
<1>4. Finishes(c, n, ChainId)
    BY <1>1, <1>2, CompleteFinishes
<1> QED
    BY <1>3, <1>4, FinishesContract

LEMMA ReleasesContract ==
    ASSUME NEW c, NEW p, Contract(c, p), NEW proof \in Evidence,
           CanOracleRelease(c, ChainId, proof),
           NEW n, n = OracleRelease(c, ChainId, proof), NEW q, p \subseteq q
    PROVE  Contract(n, q) /\ Finishes(c, n, ChainId)
<1>1. c \in Chain /\ ChainId \in EscrowIds
    BY ListedAssumption DEF Contract, ChainId
<1>2. Keeps(c, n)
    BY <1>1, OracleCalls
<1>3. Finishes(c, n, ChainId)
    BY <1>1, ReleaseFinishes
<1> QED
    BY <1>2, <1>3, FinishesContract

LEMMA MarksContract ==
    ASSUME NEW c, NEW p, Contract(c, p), NEW who, who # NoOne, CanMarkSent(c, who, ChainId),
           NEW n, n = MarkSent(c, Now, ChainId), NEW q, p \subseteq q
    PROVE  /\ Contract(n, q)
           /\ c.trades[ChainId].status = "Funded" /\ n.trades[ChainId].status = "FiatSent"
           /\ n.trades[ChainId].buyer = c.trades[ChainId].buyer
           /\ n.trades[ChainId].amount = c.trades[ChainId].amount
           /\ n.balance = c.balance /\ n.used = c.used
<1>1. c \in Chain /\ ChainId \in EscrowIds /\ n = MarkSent(c, 0, ChainId)
    BY ListedAssumption DEF Contract, ChainId, Now
<1>2. Keeps(c, n)
    BY <1>1, SentCalls
<1>3. /\ n.trades[ChainId].status = "FiatSent"
      /\ n.trades[ChainId].buyer = c.trades[ChainId].buyer
      /\ n.trades[ChainId].amount = c.trades[ChainId].amount
      /\ n.balance = c.balance /\ n.used = c.used
      /\ \A j \in EscrowIds \ {ChainId} : n.trades[j] = c.trades[j]
    BY <1>1, SentFields
<1>4. Undisputed(c, n)
    BY <1>3 DEF Undisputed
<1>5. Contract(n, q)
    BY <1>2, <1>4, ContractCalls
<1> QED
    BY <1>3, <1>5 DEF CanMarkSent, InState

(* A handler's call of the contract: none, a mark or a release.            *)
NextStep(f) == IF f.kind = "settlement" THEN "request" ELSE "settle"
Marks(i) ==
    /\ flow[i].kind = "settlement" /\ CanMarkSent(chain, flow[i].who, ChainId)
    /\ chain' = MarkSent(chain, Now, ChainId)
    /\ Go(i, NextStep(flow[i])) /\ paid' = paid /\ past' = past
Releases(i) ==
    /\ CanRelease(chain, flow[i].who, ChainId)
    /\ chain' = CompleteTrade(chain, ChainId)
    /\ Received(flow[i].trade, OnChain.buyer)
    /\ \/ /\ flow' = [flow EXCEPT ![i].step = NextStep(flow[i]), ![i].hash = TRUE]
          /\ past' = past \cup Overlap(i)
       \/ Go(i, NextStep(flow[i])) /\ past' = past \cup {"lost"}

LEMMA CallContractIs ==
    ASSUME NEW i \in Flows, CallContract(i)
    PROVE  /\ flow[i].step = "chain" /\ fiat' = fiat /\ mem' = mem /\ proofs' = proofs
           /\ \/ Go(i, NextStep(flow[i])) /\ chain' = chain /\ paid' = paid /\ past' = past
              \/ Marks(i)
              \/ Releases(i)
    BY DEF CallContract, At, Marks, Releases, NextStep, Fault, Happened

LEMMA HashTurns ==
    ASSUME Shape, NEW i \in Flows, Unhooked(i), NEW step \in Plain,
           flow' = [flow EXCEPT ![i].step = step, ![i].hash = TRUE]
    PROVE  \E x : /\ Turns(i, x) /\ Fits(mem, x) /\ x.hash /\ x.step = step
                  /\ x.trade = flow[i].trade /\ x.kind = flow[i].kind /\ x.to = flow[i].to
<1>1. PICK f \in Handler : f = flow[i]
    BY HandlerIs
<1>2. PICK x : x = [f EXCEPT !.step = step, !.hash = TRUE]
    OBVIOUS
<1>3. step \in StepNames
        /\ step \notin {"lock", "locking", "take", "checkout", "verify", "session", "execute"}
    BY DEF Plain
<1>4. /\ x \in Handler /\ x.step = step /\ x.hash = TRUE /\ x.trade = f.trade
      /\ x.kind = f.kind /\ x.to = f.to /\ x.who = f.who
    BY <1>2, <1>3 DEF Handler
<1>5. Turns(i, x)
    BY <1>1, <1>2 DEF Turns, Shape, Flowing
<1>6. Fits(mem, f) /\ f.kind # "webhook"
    BY <1>1, HandlerIs DEF Unhooked
<1>7. Fits(mem, x)
    BY <1>3, <1>4, <1>6 DEF Fits
<1> QED
    BY <1>1, <1>4, <1>5, <1>7

LEMMA CallContractShape ==
    ASSUME Shape, NEW i \in Flows, CallContract(i)
    PROVE  Shape'
<1>1. PICK f : f = flow[i]
    OBVIOUS
<1>2. f.step = "chain" /\ fiat' = fiat /\ mem' = mem /\ proofs' = proofs
    BY <1>1, CallContractIs
<1>3. Unhooked(i) /\ NextStep(f) \in Plain
    BY <1>1, <1>2, HandlerIs, Names DEF NextStep, Paying
<1>4. Serves(mem, mem') /\ proofs \in [Flows -> ProofStatus \cup {Null}]
      /\ Contract(chain, past)
    BY <1>2, ServesSame DEF Shape, Tallies
<1>5. CASE Go(i, NextStep(f)) /\ chain' = chain /\ paid' = paid /\ past' = past
    BY <1>2, <1>3, <1>4, <1>5, TalliesSame, GoShape
<1>6. CASE Marks(i)
  <2>1. /\ CanMarkSent(chain, f.who, ChainId) /\ chain' = MarkSent(chain, Now, ChainId)
        /\ Go(i, NextStep(f)) /\ paid' = paid /\ past' = past
    BY <1>1, <1>6 DEF Marks
  <2>2. f.who # NoOne
    BY <1>1, <1>6, HandlerIs DEF Marks, Fits
  <2>3. Contract(chain', past')
    BY <1>4, <2>1, <2>2, MarksContract
  <2> QED
    BY <1>2, <1>3, <1>4, <2>1, <2>3, TalliesSame, GoShape
<1>7. CASE Releases(i)
  <2>1. /\ CanRelease(chain, f.who, ChainId) /\ chain' = CompleteTrade(chain, ChainId)
        /\ Received(f.trade, OnChain.buyer) /\ past \subseteq past'
        /\ \/ flow' = [flow EXCEPT ![i].step = NextStep(f), ![i].hash = TRUE]
           \/ Go(i, NextStep(f))
    BY <1>1, <1>7 DEF Releases
  <2>2. Contract(chain', past')
    BY <1>4, <2>1, CompletesContract
  <2>3. Tallies'
    BY <1>2, <1>4, <2>1, ReceivedTallies
  <2>4. CASE Go(i, NextStep(f))
    BY <1>3, <1>4, <2>2, <2>3, <2>4, GoShape
  <2>5. CASE flow' = [flow EXCEPT ![i].step = NextStep(f), ![i].hash = TRUE]
    <3>1. PICK x : Turns(i, x) /\ Fits(mem, x)
        BY <1>3, <2>5, HashTurns
    <3>2. Fits(mem', x)
        BY <1>2, <3>1
    <3> QED
        BY <1>4, <2>2, <2>3, <3>1, <3>2, ShapeMoves
  <2> QED
    BY <2>1, <2>4, <2>5
<1> QED
    BY <1>1, <1>2, <1>5, <1>6, <1>7, CallContractIs

LEMMA SettleShape ==
    ASSUME Shape, NEW i \in Flows, Settle(i)
    PROVE  Shape'
<1>1. PICK f \in Handler : f = flow[i]
    BY HandlerIs
<1>2. f.step = "settle" /\ Fits(mem, f) /\ Unhooked(i) /\ f.trade \in TradeIds
    BY <1>1, HandlerIs DEF Settle, At
<1>3. PICK row \in SharedTrade : row = Trade(f.trade)
    BY <1>2, NullApart DEF Fits, Trade, Shape, Store, Sound, Typed, Memory
<1>4. PICK to \in Address \cup {Null} : to = IF row.buyer # Null THEN row.buyer ELSE f.who
    BY DEF SharedTrade, Handler, Address
<1>5. PICK status \in EscrowStatus : status = OnChain.status
    BY ListedAssumption DEF Shape, Contract, Chain, ChainTrade, OnChain, ChainId
<1>6. SettleStep(status) \in Plain
    BY Names DEF SettleStep, Paying, OracleSteps
<1>7. chain' = chain /\ fiat' = fiat /\ proofs' = proofs /\ paid' = paid /\ past \subseteq past'
    BY DEF Settle, Fault, Happened
<1>8. Contract(chain', past') /\ Tallies'
    BY <1>7, ContractSame, TalliesSame DEF Shape
<1>9. CASE mem' = ConfirmRelease(mem, f.trade).mem /\ End(i)
  <2>1. Serves(mem, mem')
    BY <1>2, <1>9, EndServes DEF Shape
  <2> QED
    BY <1>8, <1>9, <2>1, EndShape
<1>10. ASSUME mem' = mem, NEW step \in Plain,
              flow' = [flow EXCEPT ![i].to = to, ![i].step = step]
       PROVE  Shape'
  <2>1. PICK x : x = [f EXCEPT !.to = to, !.step = step]
    OBVIOUS
  <2>2. step \in StepNames
        /\ step \notin {"lock", "locking", "take", "checkout", "verify", "session", "execute"}
    BY DEF Plain
  <2>3. /\ x \in Handler /\ x.step = step /\ x.kind = f.kind /\ x.trade = f.trade
        /\ x.who = f.who
    BY <2>1, <2>2 DEF Handler
  <2>4. Turns(i, x)
    BY <1>1, <1>10, <2>1 DEF Turns, Shape, Flowing
  <2>5. Fits(mem, x)
    BY <1>1, <1>2, <2>2, <2>3 DEF Fits, Unhooked
  <2> QED
    BY <1>7, <1>10, <2>4, <2>5, ShapeTurns
<1>11. "transfer" \in Plain
    BY Names DEF Paying, OracleSteps
<1>12. \/ mem' = ConfirmRelease(mem, f.trade).mem /\ End(i)
       \/ /\ mem' = mem
          /\ \/ flow' = [flow EXCEPT ![i].to = to, ![i].step = SettleStep(status)]
             \/ flow' = [flow EXCEPT ![i].to = to, ![i].step = "transfer"]
    BY <1>1, <1>3, <1>4, <1>5 DEF Settle
<1> QED
    BY <1>6, <1>9, <1>10, <1>11, <1>12

LEMMA OracleLocksShape ==
    ASSUME Shape, NEW i \in Flows, OracleLocks(i)
    PROVE  Shape'
<1>1. Unhooked(i)
    BY HandlerIs DEF OracleLocks, At
<1>2. /\ fiat' = fiat /\ mem' = mem /\ proofs' = proofs /\ paid' = paid /\ past \subseteq past'
      /\ \/ CanFund(chain, Oracle, ChainId) /\ chain' = Fund(chain, Now, Oracle, ChainId, 0)
         \/ chain' = chain
      /\ Go(i, "submit") \/ Go(i, "transfer")
    BY DEF OracleLocks, Happened
<1>3. Oracle \in Address \ {NoOne}
    BY AddressAssumption DEF Address
<1>4. Contract(chain', past')
    BY <1>2, <1>3, FundsContract, ContractSame DEF Shape
<1>5. Serves(mem, mem') /\ Tallies'
    BY <1>2, ServesSame, TalliesSame DEF Shape
<1>6. {"submit", "transfer"} \subseteq Plain
    BY Names DEF Paying, OracleSteps
<1> QED
    BY <1>1, <1>2, <1>4, <1>5, <1>6, GoShape

(* A release by the oracle that failed.                                    *)
LEMMA FailsShape ==
    ASSUME Shape, NEW i \in Flows, flow[i].step \in {"submit", "mine"}, ReleaseFails(i),
           mem' = mem, Contract(chain', past'), fiat' = fiat,
           paid' \in [TradeIds \X Buyers -> 0..2]
    PROVE  Shape' /\ proofs' \in [Flows -> ProofStatus \cup {Null}]
<1>1. Serves(mem, mem')
    BY ServesSame DEF Shape
<1>2. proofs \in [Flows -> ProofStatus \cup {Null}] /\ fiat' \in SUBSET TradeIds
    BY DEF Shape, Tallies
<1>3. CASE IsHook(i)
  <2>1. PICK s : s = flow[i].arg
    OBVIOUS
  <2>2. s \in Flows
    BY <1>3, <2>1, HandlerIs DEF Fits, IsHook
  <2>3. proofs' = [proofs EXCEPT ![s] = "verified"] /\ End(i)
    BY <1>3, <2>1 DEF ReleaseFails
  <2>4. "verified" \in ProofStatus \cup {Null}
    BY DEF ProofStatus
  <2>5. proofs' \in [Flows -> ProofStatus \cup {Null}]
    BY <1>2, <2>3, <2>4
  <2>6. Tallies'
    BY <1>2, <2>5 DEF Tallies
  <2> QED
    BY <1>1, <2>3, <2>5, <2>6, EndShape
<1>4. CASE ~IsHook(i)
  <2>1. Go(i, "transfer") /\ proofs' = proofs
    BY <1>4 DEF ReleaseFails
  <2>2. "transfer" \in Plain
    BY Names DEF Paying, OracleSteps
  <2>3. Tallies'
    BY <1>2, <2>1 DEF Tallies
  <2> QED
    BY <1>1, <1>2, <1>4, <2>1, <2>2, <2>3, GoShape DEF IsHook, Unhooked
<1> QED
    BY <1>3, <1>4

LEMMA OracleSubmitsShape ==
    ASSUME Shape, NEW i \in Flows, OracleSubmits(i)
    PROVE  Shape'
<1>1. /\ flow[i].step = "submit" /\ fiat' = fiat /\ chain' = chain /\ mem' = mem
      /\ paid' = paid /\ past' = past
      /\ (Go(i, "mine") /\ proofs' = proofs) \/ ReleaseFails(i)
    BY DEF OracleSubmits, At
<1>2. Contract(chain', past') /\ paid' \in [TradeIds \X Buyers -> 0..2]
    BY <1>1 DEF Shape, Tallies
<1>3. CASE Go(i, "mine") /\ proofs' = proofs
  <2>1. Serves(mem, mem') /\ Tallies'
    BY <1>1, <1>3, ServesSame, TalliesSame DEF Shape
  <2>2. "mine" \in Plain
    BY Names DEF Paying, OracleSteps
  <2> QED
    BY <1>2, <1>3, <2>1, <2>2, GoShape
<1>4. CASE ReleaseFails(i)
    BY <1>1, <1>2, <1>4, FailsShape
<1> QED
    BY <1>1, <1>3, <1>4

LEMMA ProofTyped ==
    ASSUME Shape, NEW i \in Flows
    PROVE  ProofOf(i) \in Evidence
<1>1. Flows \subseteq Nat
    BY FlowAssumption DEF Flows
<1>2. IsHook(i) => flow[i].arg \in Flows
    BY HandlerIs DEF IsHook, Fits
<1>3. {"session", "release"} \subseteq {"session", "release", "dispute"}
    OBVIOUS
<1>4. ASSUME IsHook(i)
      PROVE  ProofOf(i) \in Evidence
  <2>1. PICK s \in Nat : s = flow[i].arg
    BY <1>1, <1>2, <1>4
  <2>2. ProofOf(i) = <<"session", s>>
    BY <1>4, <2>1 DEF ProofOf
  <2> QED
    BY <1>3, <2>2 DEF Evidence
<1>5. ASSUME ~IsHook(i)
      PROVE  ProofOf(i) \in Evidence
  <2>1. ProofOf(i) = <<"release", i>>
    BY <1>5 DEF ProofOf
  <2> QED
    BY <1>1, <1>3, <2>1 DEF Evidence
<1> QED
    BY <1>4, <1>5

LEMMA OracleMinedShape ==
    ASSUME Shape, NEW i \in Flows, OracleMined(i)
    PROVE  Shape'
<1>1. /\ flow[i].step = "mine" /\ fiat' = fiat /\ mem' = mem /\ past \subseteq past'
      /\ (Go(i, "answer") /\ proofs' = proofs) \/ ReleaseFails(i)
    BY DEF OracleMined, At, Fault, Happened
<1>2. CASE CanOracleRelease(chain, ChainId, ProofOf(i))
  <2>1. chain' = OracleRelease(chain, ChainId, ProofOf(i))
        /\ Received(flow[i].trade, OnChain.buyer)
    BY <1>2 DEF OracleMined
  <2>2. PICK proof \in Evidence : proof = ProofOf(i)
    BY ProofTyped
  <2>3. Contract(chain', past')
    BY <1>1, <1>2, <2>1, <2>2, ReleasesContract DEF Shape
  <2>4. paid' \in [TradeIds \X Buyers -> 0..2]
    BY <2>1, ReceivedTyped DEF Shape, Tallies
  <2>5. CASE Go(i, "answer") /\ proofs' = proofs
    <3>1. proofs' \in [Flows -> ProofStatus \cup {Null}]
        BY <2>5 DEF Shape, Tallies
    <3>2. Serves(mem, mem') /\ Tallies'
        BY <1>1, <2>1, <3>1, ServesSame, ReceivedTallies DEF Shape
    <3>3. "answer" \in Plain
        BY Names DEF Paying, OracleSteps
    <3> QED
        BY <2>3, <2>5, <3>2, <3>3, GoShape
  <2>6. CASE ReleaseFails(i)
    BY <1>1, <2>3, <2>4, <2>6, FailsShape
  <2> QED
    BY <1>1, <2>5, <2>6
<1>3. CASE ~CanOracleRelease(chain, ChainId, ProofOf(i))
  <2>1. ReleaseFails(i) /\ chain' = chain /\ paid' = paid /\ past' = past
    BY <1>3 DEF OracleMined
  <2>2. Contract(chain', past') /\ paid' \in [TradeIds \X Buyers -> 0..2]
    BY <2>1 DEF Shape, Tallies
  <2> QED
    BY <1>1, <2>1, <2>2, FailsShape
<1> QED
    BY <1>2, <1>3

LEMMA TransferShape ==
    ASSUME Shape, NEW i \in Flows, Transfer(i)
    PROVE  Shape'
<1>1. /\ flow[i].step = "transfer" /\ Go(i, "answer") /\ past \subseteq past'
      /\ fiat' = fiat /\ chain' = chain /\ mem' = mem /\ proofs' = proofs
      /\ Received(flow[i].trade, flow[i].to) \/ paid' = paid
    BY DEF Transfer, At, Happened
<1>2. proofs' \in [Flows -> ProofStatus \cup {Null}]
    BY <1>1 DEF Shape, Tallies
<1>3. Tallies'
    BY <1>1, <1>2, TalliesSame, ReceivedTallies
<1>4. Serves(mem, mem') /\ Contract(chain', past')
    BY <1>1, ServesSame, ContractSame DEF Shape
<1>5. "answer" \in Plain
    BY Names DEF Paying, OracleSteps
<1> QED
    BY <1>1, <1>3, <1>4, <1>5, GoShape

LEMMA AnswerShape ==
    ASSUME Shape, NEW i \in Flows, Answer(i)
    PROVE  Shape'
<1>1. PICK t \in TradeIds : t = flow[i].trade
    BY HandlerIs
<1>2. /\ End(i) /\ fiat' = fiat /\ chain' = chain /\ paid' = paid /\ past' = past
      /\ \/ /\ IsHook(i) /\ proofs' = [proofs EXCEPT ![flow[i].arg] = "completed"]
            /\ mem' = CompletePeerTrade(mem, t).mem
         \/ mem' = ConfirmRelease(mem, t).mem /\ proofs' = proofs
    BY <1>1 DEF Answer
<1>3. Serves(mem, mem')
    BY <1>2, EndServes DEF Shape
<1>4. proofs' \in [Flows -> ProofStatus \cup {Null}]
  <2>1. proofs \in [Flows -> ProofStatus \cup {Null}] /\ "completed" \in ProofStatus \cup {Null}
    BY DEF Shape, Tallies, ProofStatus
  <2> QED
    BY <1>2, <2>1
<1>5. Tallies' /\ Contract(chain', past')
    BY <1>2, <1>4 DEF Shape, Tallies
<1> QED
    BY <1>2, <1>3, <1>5, EndShape
-----------------------------------------------------------------------------
(* Proofs, webhooks, pages that are closed and what happens meanwhile.     *)
LEMMA ClickProveShape ==
    ASSUME Shape, NEW i \in Flows, NEW u \in Buyers \cup {Seller}, ClickProve(i, u)
    PROVE  Shape'
<1>1. u \in Address \cup {Null} /\ Null \in Nat \cup TxRefs \cup {Null} /\ u # NoOne
    BY AddressAssumption DEF Address
<1>2. PICK x : Started(x, "proof", "session", u, Listing, Null) /\ Turns(i, x)
    BY <1>1, Names, ListingIs, StartTurns DEF ClickProve
<1>3. Fits(mem, x)
    BY <1>1, <1>2 DEF Fits, Started, ClickProve, Trade
<1> QED
    BY <1>2, <1>3, ShapeTurns DEF ClickProve

LEMMA CreateSessionShape ==
    ASSUME Shape, NEW i \in Flows, CreateSession(i)
    PROVE  Shape'
<1>1. PICK f : f = flow[i]
    OBVIOUS
<1>2. f.step = "session" /\ Fits(mem, f)
    BY <1>1, HandlerIs DEF CreateSession, At
<1>3. /\ fiat' = fiat /\ chain' = chain /\ mem' = mem /\ paid' = paid /\ past \subseteq past'
      /\ \/ proofs' = [proofs EXCEPT ![i] = "pending"] /\ Go(i, "execute")
         \/ proofs' = proofs /\ End(i)
    BY DEF CreateSession, Fault, Happened
<1>4. proofs' \in [Flows -> ProofStatus \cup {Null}]
    BY <1>3 DEF Shape, Tallies, ProofStatus
<1>5. Serves(mem, mem') /\ Contract(chain', past') /\ Tallies'
    BY <1>3, <1>4, ServesSame, ContractSame DEF Shape, Tallies
<1>6. CASE Go(i, "execute")
  <2>1. flow \in [Flows -> Handler] /\ "execute" \in StepNames
    BY Names DEF Shape, Flowing
  <2>2. PICK x : Stepped(f, x, "execute") /\ Turns(i, x)
    BY <1>1, <1>6, <2>1, GoTurns
  <2>3. Fits(mem', x)
    BY <1>2, <1>3, <2>2 DEF Fits, Stepped
  <2> QED
    BY <1>5, <2>2, <2>3, ShapeMoves
<1> QED
    BY <1>3, <1>5, <1>6, EndShape

LEMMA ExecuteProofShape ==
    ASSUME Shape, NEW i \in Flows, ExecuteProof(i)
    PROVE  Shape'
<1>1. Unhooked(i) /\ flow[i].trade = Listing
    BY HandlerIs DEF ExecuteProof, At, Fits
<1>2. chain' = chain /\ paid' = paid /\ past \subseteq past'
    BY DEF ExecuteProof, Happened
<1>3. Contract(chain', past')
    BY <1>2, ContractSame DEF Shape
<1>4. CASE End(i) /\ fiat' = fiat /\ mem' = mem /\ proofs' = proofs
    BY <1>2, <1>4, Idle, EndShape
<1>5. ASSUME NEW status \in {"completed", "verified"},
             proofs' = [proofs EXCEPT ![i] = status],
             mem' = CompletePeerTrade(mem, Listing).mem, fiat' = fiat \cup {Listing},
             Go(i, "chain") \/ End(i)
      PROVE  Shape'
  <2>1. Serves(mem, mem')
    BY <1>5, ListingIs, EndServes DEF Shape
  <2>2. proofs' \in [Flows -> ProofStatus \cup {Null}]
    BY <1>5 DEF Shape, Tallies, ProofStatus
  <2>3. Tallies'
    BY <1>2, <1>5, <2>2, ListingIs DEF Shape, Tallies
  <2>4. "chain" \in Plain
    BY Names DEF Paying
  <2> QED
    BY <1>1, <1>3, <1>5, <2>1, <2>3, <2>4, GoShape, EndShape
<1>6. \/ End(i) /\ fiat' = fiat /\ mem' = mem /\ proofs' = proofs
      \/ \E status \in {"completed", "verified"} :
            /\ proofs' = [proofs EXCEPT ![i] = status]
            /\ mem' = CompletePeerTrade(mem, Listing).mem /\ fiat' = fiat \cup {Listing}
            /\ Go(i, "chain") \/ End(i)
    BY DEF ExecuteProof
<1> QED
    BY <1>4, <1>5, <1>6

LEMMA HookRejectsShape ==
    ASSUME Shape, NEW s \in Flows, HookRejects(s)
    PROVE  Shape'
<1>1. /\ proofs' = [proofs EXCEPT ![s] = "failed"] /\ flow' = flow
      /\ fiat' = fiat /\ chain' = chain /\ mem' = mem /\ paid' = paid /\ past' = past
    BY DEF HookRejects
<1>2. proofs' \in [Flows -> ProofStatus \cup {Null}]
    BY <1>1 DEF Shape, Tallies, ProofStatus
<1>3. Serves(mem, mem') /\ Contract(chain', past') /\ Tallies'
    BY <1>1, <1>2, ServesSame DEF Shape, Tallies
<1> QED
    BY <1>1, <1>3, ShapeRests

LEMMA HookAcceptsShape ==
    ASSUME Shape, NEW i \in Flows, NEW s \in Flows, HookAccepts(i, s)
    PROVE  Shape'
<1>1. /\ proofs' = [proofs EXCEPT ![s] = "oracle_pending"]
      /\ Start(i, "webhook", "submit", Oracle, Listing, s)
      /\ past \subseteq past' /\ fiat' = fiat \cup {Listing}
      /\ chain' = chain /\ mem' = mem /\ paid' = paid
    BY DEF HookAccepts
<1>2. Flows \subseteq Nat
    BY FlowAssumption DEF Flows
<1>3. Oracle \in Address \cup {Null} /\ Oracle # NoOne /\ s \in Nat \cup TxRefs \cup {Null}
    BY <1>2, AddressAssumption DEF Address
<1>4. "submit" \in StepNames
    BY Names DEF Paying, OracleSteps
<1>5. PICK x : Started(x, "webhook", "submit", Oracle, Listing, s) /\ Turns(i, x)
    BY <1>1, <1>3, <1>4, ListingIs, StartTurns
<1>6. mem.trades[Listing] # Null
    BY DEF Shape, Store
<1>7. Fits(mem', x)
    BY <1>1, <1>3, <1>5, <1>6 DEF Fits, Started
<1>8. proofs' \in [Flows -> ProofStatus \cup {Null}]
    BY <1>1 DEF Shape, Tallies, ProofStatus
<1>9. Tallies'
    BY <1>1, <1>8, ListingIs DEF Shape, Tallies
<1>10. Serves(mem, mem') /\ Contract(chain', past')
    BY <1>1, ServesSame, ContractSame DEF Shape
<1> QED
    BY <1>5, <1>7, <1>9, <1>10, ShapeMoves

LEMMA ClosePageShape ==
    ASSUME Shape, NEW i \in Flows, ClosePage(i)
    PROVE  Shape'
<1>1. End(i) /\ fiat' = fiat /\ chain' = chain /\ mem' = mem /\ proofs' = proofs
      /\ paid' = paid /\ past' = past
    BY DEF ClosePage
<1> QED
    BY <1>1, Idle, EndShape

LEMMA InterfereIs ==
    ASSUME NEW t, Interfere(t)
    PROVE  /\ \/ mem' = PayoutStep(mem, t, "hold").mem \/ mem' = RefundRequest(mem, t).mem
              \/ mem' = RefundComplete(mem, t).mem \/ mem' = HoldRelease(mem, t).mem
              \/ \E u : mem' = CancelTrade(mem, u, t).mem
           /\ fiat' = fiat /\ chain' = chain /\ proofs' = proofs /\ flow' = flow
           /\ paid' = paid /\ past' = past
<1>1. PICK res \in {PayoutStep(mem, t, "hold"), RefundRequest(mem, t), RefundComplete(mem, t),
                    HoldRelease(mem, t)}
                  \cup {CancelTrade(mem, u, t) : u \in Buyers \cup {Seller}} :
            mem' = res.mem
    BY DEF Interfere
<1>2. \/ res = PayoutStep(mem, t, "hold") \/ res = RefundRequest(mem, t)
      \/ res = RefundComplete(mem, t) \/ res = HoldRelease(mem, t)
      \/ \E u : res = CancelTrade(mem, u, t)
    OBVIOUS
<1>3. fiat' = fiat /\ chain' = chain /\ proofs' = proofs /\ flow' = flow
      /\ paid' = paid /\ past' = past
    BY DEF Interfere
<1> QED
    BY <1>1, <1>2, <1>3

LEMMA InterfereEases ==
    ASSUME Shape, NEW t \in TradeIds, Interfere(t)
    PROVE  Serves(mem, mem') /\ Eases(mem, mem')
<1>1. Store(mem) /\ Sound(mem, 0) /\ Typed(mem)
    BY DEF Shape, Store, Sound
<1> QED
    BY <1>1, InterfereIs, PayoutServes, RequestServes, EndServes,
       PayoutEases, RefundEases, CancelEases, RefundedEases

LEMMA InterfereShape ==
    ASSUME Shape, NEW t \in TradeIds, Interfere(t)
    PROVE  Shape'
<1>1. fiat' = fiat /\ chain' = chain /\ proofs' = proofs /\ flow' = flow
      /\ paid' = paid /\ past' = past
    BY InterfereIs
<1>2. Contract(chain', past') /\ Tallies'
    BY <1>1, TalliesSame DEF Shape
<1> QED
    BY <1>1, <1>2, InterfereEases, ShapeRests

LEMMA CheckChainShape ==
    ASSUME Shape, CheckChain
    PROVE  Shape'
<1>1. /\ mem' = CompletePeerTrade(mem, Listing).mem /\ past \subseteq past'
      /\ fiat' = fiat /\ chain' = chain /\ proofs' = proofs /\ flow' = flow /\ paid' = paid
    BY DEF CheckChain, Fault, Happened
<1>2. Serves(mem, mem')
    BY <1>1, ListingIs, EndServes DEF Shape
<1>3. Contract(chain', past') /\ Tallies'
    BY <1>1, ContractSame, TalliesSame DEF Shape
<1> QED
    BY <1>1, <1>2, <1>3, ShapeRests

(* Calls of the contract that come from no page.                           *)
LEMMA DirectShape ==
    ASSUME Shape, NEW n, Direct(n), Contract(n, past')
    PROVE  Shape'
<1>1. /\ chain' = n /\ fiat' = fiat /\ mem' = mem /\ proofs' = proofs /\ flow' = flow
      /\ paid' = paid \/ \E i : Received(Listing, chain.trades[i].buyer)
    BY DEF Direct
<1>2. Tallies'
  <2>1. proofs' \in [Flows -> ProofStatus \cup {Null}]
    BY <1>1 DEF Shape, Tallies
  <2>2. CASE paid' = paid
    BY <1>1, <2>2, TalliesSame
  <2>3. ASSUME NEW i, Received(Listing, chain.trades[i].buyer)
        PROVE  Tallies'
    BY <1>1, <2>1, <2>3, ReceivedTallies
  <2> QED
    BY <1>1, <2>2, <2>3
<1>3. Serves(mem, mem')
    BY <1>1, ServesSame DEF Shape
<1> QED
    BY <1>1, <1>2, <1>3, ShapeRests

LEMMA CallDirectlyShape ==
    ASSUME Shape, NEW u \in Buyers \cup {Seller}, NEW i \in EscrowIds, CallDirectly(u, i)
    PROVE  Shape'
<1>1. chain \in Chain /\ Contract(chain, past)
    BY DEF Shape, Contract
<1>2. past \subseteq past' /\ "direct" \in past'
    BY DEF CallDirectly
<1>3. u \in Address /\ u # NoOne
    BY AddressAssumption DEF Address
<1>4. ASSUME NEW n, Keeps(chain, n), Direct(n)
      PROVE  Shape'
  <2>1. Contract(n, past')
    BY <1>1, <1>2, <1>4, ContractCalls
  <2> QED
    BY <1>4, <2>1, DirectShape
<1>5. CASE CanDispute(chain, Now, u, i) /\ Direct(Dispute(chain, i))
    BY <1>1, <1>4, <1>5, DisputeCalls DEF Now
<1>6. CASE CanMarkSent(chain, u, i) /\ Direct(MarkSent(chain, Now, i))
    BY <1>1, <1>3, <1>4, <1>6, SentCalls DEF Now
<1>7. CASE CanRelease(chain, u, i) /\ Direct(CompleteTrade(chain, i))
  <2>1. CanComplete(chain, i) /\ chain.trades[i].status \in {"Funded", "FiatSent", "Disputed"}
    BY <1>7 DEF CanRelease, InState
  <2> QED
    BY <1>1, <1>4, <1>7, <2>1, CompleteCalls
<1>8. ASSUME NEW units \in Requests, CanWithdraw(chain, u, i, units),
             Direct(Withdraw(chain, i, units))
      PROVE  Shape'
    BY <1>1, <1>4, <1>8, OrdersAssumption, WithdrawCalls
<1>9. ASSUME NEW units \in Requests, CanAllocate(chain, u, i, units),
             Direct(AllocateOrder(chain, Now, u, i, units))
      PROVE  Shape'
    BY <1>1, <1>3, <1>4, <1>9, OrdersAssumption, AllocateCalls DEF Now
<1> QED
    BY <1>5, <1>6, <1>7, <1>8, <1>9 DEF CallDirectly

LEMMA ResolveDisputeShape ==
    ASSUME Shape, NEW i \in EscrowIds, ResolveDispute(i)
    PROVE  Shape' /\ "direct" \in past
<1>1. chain \in Chain /\ Contract(chain, past)
    BY DEF Shape, Contract
<1>2. PICK favour \in BOOLEAN : /\ CanResolve(chain, i, favour, <<"dispute", i>>)
                                /\ Direct(Resolve(chain, i, favour, <<"dispute", i>>))
    BY DEF ResolveDispute
<1>3. PICK proof \in Evidence : proof = <<"dispute", i>>
    BY ContractAssumption DEF Evidence
<1>4. past' = past
    BY DEF ResolveDispute
<1>5. chain.trades[i].status = "Disputed"
    BY <1>2 DEF CanResolve, InState
<1>6. "direct" \in past
    BY <1>1, <1>5 DEF Contract
<1>7. Keeps(chain, Resolve(chain, i, favour, proof))
    BY <1>1, <1>2, <1>3, ResolveCalls
<1>8. Contract(Resolve(chain, i, favour, proof), past')
    BY <1>1, <1>4, <1>6, <1>7, ContractCalls
<1> QED
    BY <1>2, <1>3, <1>6, <1>8, DirectShape

LEMMA ReclaimExpiredIs ==
    ASSUME Shape, NEW i \in EscrowIds, ReclaimExpired(i)
    PROVE  /\ Shape' /\ Reclaims(chain, chain') /\ past \subseteq past' /\ "reclaimed" \in past'
           /\ fiat' = fiat /\ mem' = mem /\ proofs' = proofs /\ flow' = flow /\ paid' = paid
<1>1. chain \in Chain /\ Contract(chain, past)
    BY DEF Shape, Contract
<1>2. CanReclaim(chain, 0, i) /\ Direct(Reclaim(chain, 0, i))
    BY DEF ReclaimExpired, Now
<1>3. PICK n : n = Reclaim(chain, 0, i)
    OBVIOUS
<1>4. Reclaims(chain, n)
    BY <1>1, <1>2, <1>3, ReclaimReclaims
<1>5. Undisputed(chain, n)
    BY <1>4 DEF Reclaims, Undisputed
<1>6. past \subseteq past' /\ "reclaimed" \in past'
    BY DEF ReclaimExpired
<1>7. ASSUME chain.trades[i].status = "Funded" /\ chain.trades[i].buyer = NoOne
      PROVE  Shape'
  <2>1. "reopened" \in past'
    BY <1>7 DEF ReclaimExpired
  <2>2. n \in Chain /\ n.next = chain.next
    BY <1>1, <1>2, <1>3, ReclaimTyped
  <2>3. Contract(n, past')
    BY <1>1, <1>5, <1>6, <2>1, <2>2, ContractReopens
  <2> QED
    BY <1>2, <1>3, <2>3, DirectShape
<1>8. ASSUME ~(chain.trades[i].status = "Funded" /\ chain.trades[i].buyer = NoOne)
      PROVE  Shape'
  <2>1. Keeps(chain, n)
    BY <1>1, <1>2, <1>3, <1>8, ReclaimCalls
  <2>2. Contract(n, past')
    BY <1>1, <1>5, <1>6, <2>1, ContractCalls
  <2> QED
    BY <1>2, <1>3, <2>2, DirectShape
<1>9. Shape'
    BY <1>7, <1>8
<1>10. chain' = n /\ fiat' = fiat /\ mem' = mem /\ proofs' = proofs /\ flow' = flow
    BY <1>2, <1>3 DEF Direct
<1>11. Completes(n) = {}
    BY <1>4 DEF Completes, Reclaims
<1>12. paid' = paid
    BY <1>2, <1>3, <1>11 DEF Direct
<1> QED
    BY <1>4, <1>6, <1>9, <1>10, <1>12
-----------------------------------------------------------------------------
(* The initial state: a listing with its deposit, in the store and on the  *)
(* chain.                                                                  *)
LEMMA SumZero ==
    ASSUME NEW I, NEW f \in [I -> Nat], NEW D \in SUBSET I, IsFiniteSet(D),
           \A x \in D : f[x] = 0
    PROVE  SumFunctionOnSet(f, D) = 0
<1> DEFINE B == {s \in SUBSET D : SumFunctionOnSet(f, s) # 0}
<1> SUFFICES ASSUME B # {} PROVE FALSE
    OBVIOUS
<1>0. B \in SUBSET (SUBSET D)
    OBVIOUS
<1>1. PICK s \in B : \A r \in SUBSET s : r # s => r \notin B
  <2> HIDE DEF B
  <2> QED
    BY <1>0, LeastSubset
<1>2. SumFunctionOnSet(f, s) # 0 /\ s \in SUBSET D
    OBVIOUS
<1>3. s # {}
    BY <1>2, SumEmpty
<1>4. PICK z \in s : TRUE
    BY <1>3
<1>5. SumFunctionOnSet(f, s \ {z}) = 0
    BY <1>1, <1>4
<1>6. IsFiniteSet(s) /\ s \in SUBSET I
    BY <1>2, FS_Subset
<1>7. SumFunctionOnSet(f, s) = f[z] + SumFunctionOnSet(f, s \ {z})
    BY <1>4, <1>6, SumRemove
<1> QED
    BY <1>2, <1>4, <1>5, <1>7

LEMMA NewIs ==
    ASSUME NEW c, c = NewContract
    PROVE  /\ c \in Chain /\ c.next = 1 /\ c.balance = 0 /\ c.used = {}
           /\ \A i \in EscrowIds :
                c.trades[i] = NoTrade /\ c.inv[i] = NoInventory /\ c.parent[i] = 0
<1>1. NoTrade \in ChainTrade
    BY DEF NoTrade, ChainTrade, Address, EscrowStatus
<1>2. NoInventory \in Bucket
    BY DEF NoInventory, Bucket
<1> QED
    BY <1>1, <1>2 DEF NewContract, Chain

LEMMA OfferIs ==
    ASSUME NEW n, n = Offer
    PROVE  /\ n \in Chain /\ n.next = 2 /\ n.balance = Deposit /\ n.used = {}
           /\ n.trades[1].status = "Created" /\ n.trades[1].seller = Seller
           /\ n.trades[1].buyer = NoOne
           /\ n.trades[1].amount = Deposit /\ n.inv[1].active /\ n.inv[1].avail = Deposit
           /\ n.inv[1].alloc = 0 /\ n.inv[1].slot = 0 /\ n.parent[1] = 0
           /\ \A i \in EscrowIds \ {1} :
                n.trades[i] = NoTrade /\ n.inv[i] = NoInventory /\ n.parent[i] = 0
<1>1. PICK c : c = NewContract
    OBVIOUS
<1>2. /\ c \in Chain /\ c.next = 1 /\ c.balance = 0 /\ c.used = {}
      /\ \A i \in EscrowIds :
           c.trades[i] = NoTrade /\ c.inv[i] = NoInventory /\ c.parent[i] = 0
    BY <1>1, NewIs
<1>3. PICK x : x = [NoTrade EXCEPT !.seller = Seller, !.amount = Deposit, !.createdAt = 0]
    OBVIOUS
<1>4. PICK v : v = [avail |-> Deposit, alloc |-> 0, slot |-> 0, active |-> TRUE]
    OBVIOUS
<1>5. Deposit \in Nat /\ Deposit > 0 /\ 1 \in EscrowIds
    BY DepositAssumption, ListedAssumption
<1>6. /\ x \in ChainTrade /\ x.status = "Created" /\ x.seller = Seller /\ x.buyer = NoOne
      /\ x.amount = Deposit
  <2>1. Seller \in Address /\ NoOne \in Address /\ "Created" \in EscrowStatus
    BY DEF Address, EscrowStatus
  <2>2. PICK k : k = NoTrade
    OBVIOUS
  <2>4. k.status = "Created" /\ k.buyer = NoOne
    BY <2>2 DEF NoTrade
  <2>5. k \in ChainTrade
    BY <2>1, <2>2 DEF NoTrade, ChainTrade
  <2>3. x = [k EXCEPT !.seller = Seller, !.amount = Deposit, !.createdAt = 0]
    BY <1>3, <2>2
  <2> QED
    BY <1>5, <2>1, <2>3, <2>4, <2>5 DEF ChainTrade
<1>7. /\ v \in Bucket /\ v.avail = Deposit /\ v.alloc = 0 /\ v.slot = 0 /\ v.active
    BY <1>4, <1>5 DEF Bucket
<1>8. PICK balance \in Nat : balance = c.balance + Deposit /\ balance = Deposit
    BY <1>2, <1>5
<1>9. PICK next \in Nat : next = c.next + 1 /\ next = 2
    BY <1>2
<1>10. n = [c EXCEPT !.trades[1] = x, !.inv[1] = v, !.balance = balance, !.next = next]
    BY <1>1, <1>2, <1>3, <1>4, <1>8, <1>9 DEF Offer, Initiate
<1>11. n \in Chain
  <2>1. c \in Chain /\ 1 \in EscrowIds /\ x \in ChainTrade /\ v \in Bucket
    BY <1>2, <1>5, <1>6, <1>7
  <2>2. [c EXCEPT !.trades[1] = x, !.inv[1] = v, !.balance = balance, !.next = next] \in Chain
    BY <2>1 DEF Chain
  <2> QED
    BY <1>10, <2>2
<1>12. n.trades = [c.trades EXCEPT ![1] = x] /\ n.inv = [c.inv EXCEPT ![1] = v]
       /\ n.parent = c.parent /\ n.balance = balance /\ n.next = next /\ n.used = c.used
    BY <1>2, <1>10 DEF Chain
<1>13. c.trades \in [EscrowIds -> ChainTrade] /\ c.inv \in [EscrowIds -> Bucket]
    BY <1>2 DEF Chain
<1>14. n.trades[1] = x /\ n.inv[1] = v
       /\ \A i \in EscrowIds \ {1} : n.trades[i] = c.trades[i] /\ n.inv[i] = c.inv[i]
    BY <1>5, <1>12, <1>13
<1> QED
    BY <1>2, <1>5, <1>6, <1>7, <1>8, <1>9, <1>11, <1>12, <1>14

LEMMA OfferKept == Contract(Offer, {})
<1>1. PICK n : n = Offer
    OBVIOUS
<1>2. /\ n \in Chain /\ n.next = 2 /\ n.balance = Deposit
      /\ n.trades[1].status = "Created" /\ n.trades[1].buyer = NoOne
      /\ n.trades[1].amount = Deposit /\ n.inv[1].active /\ n.inv[1].avail = Deposit
      /\ n.inv[1].alloc = 0 /\ n.inv[1].slot = 0 /\ n.parent[1] = 0
      /\ \A i \in EscrowIds \ {1} :
           n.trades[i] = NoTrade /\ n.inv[i] = NoInventory /\ n.parent[i] = 0
    BY <1>1, OfferIs
<1>3. Deposit \in Nat /\ EscrowIds \subseteq Nat \ {0} /\ 1 \in EscrowIds
    BY DepositAssumption, ContractAssumption, ListedAssumption
<1>4. Entry(n, 1)
    BY <1>2, <1>3 DEF Entry, Vacant, Offered, Stock, Child, Backed
<1>5. ASSUME NEW i \in EscrowIds \ {1}
      PROVE  Entry(n, i)
  <2>1. /\ n.trades[i].buyer = NoOne /\ n.trades[i].amount = 0 /\ ~n.inv[i].active
        /\ n.parent[i] = 0 /\ n.trades[i].status = "Created"
    BY <1>2, <1>5 DEF NoTrade, NoInventory
  <2>2. i >= n.next
    BY <1>2, <1>3, <1>5
  <2>3. Vacant(n, i)
    BY <2>1, <2>2 DEF Vacant
  <2>4. ~(i < n.next)
    BY <1>2, <1>3, <1>5
  <2> QED
    BY <2>1, <2>3, <2>4 DEF Entry, Offered, Stock, Child, Backed
<1>6. Books(n)
    BY <1>4, <1>5 DEF Books
<1>7. Solvent(n)
  <2>1. PICK f \in [EscrowIds -> Nat] : f = [i \in EscrowIds |-> Owed(n, i)]
    BY <1>2, OwedTyped
  <2>2. f[1] = Deposit
    BY <1>2, <1>3, <2>1 DEF Owed, Live
  <2>3. ASSUME NEW i \in EscrowIds \ {1}
        PROVE  f[i] = 0
    <3>1. n.trades[i].status = "Created" /\ ~n.inv[i].active
        BY <1>2, <2>3 DEF NoTrade, NoInventory
    <3> QED
        BY <2>1, <2>3, <3>1 DEF Owed, Live
  <2>4. IsFiniteSet(EscrowIds) /\ EscrowIds \in SUBSET EscrowIds
    BY ContractAssumption
  <2>9. PICK D \in SUBSET EscrowIds : D = EscrowIds
    OBVIOUS
  <2>10. IsFiniteSet(D) /\ 1 \in D
    BY <1>3, <2>4, <2>9
  <2>11. SumFunctionOnSet(f, D) = f[1] + SumFunctionOnSet(f, D \ {1})
    BY <2>10, SumRemove
  <2>5. SumFunctionOnSet(f, EscrowIds) = f[1] + SumFunctionOnSet(f, EscrowIds \ {1})
    BY <2>9, <2>11
  <2>6. EscrowIds \ {1} \in SUBSET EscrowIds /\ IsFiniteSet(EscrowIds \ {1})
    BY <2>4, FS_Subset
  <2>7. SumFunctionOnSet(f, EscrowIds \ {1}) = 0
    BY <2>3, <2>6, SumZero
  <2>8. SumFunctionOnSet(f, EscrowIds) = Deposit
    BY <1>3, <2>2, <2>5, <2>7
  <2> QED
    BY <1>2, <1>3, <2>1, <2>8 DEF Solvent
<1>8. \A i \in EscrowIds : n.trades[i].status # "Disputed"
    BY <1>2 DEF NoTrade
<1> QED
    BY <1>1, <1>2, <1>6, <1>7, <1>8 DEF Contract, Ledger, ChainId

LEMMA InitStore ==
    ASSUME NEW n, n = CreatePeerOffer(EmptyMemory, Listing).mem
    PROVE  /\ Store(n)
           /\ \A t \in TradeIds : n.trades[t] # Null =>
                n.trades[t].buyer = Null /\ n.trades[t].life = "OPEN" /\ n.trades[t].pay = "UNPAID"
<1>1. Sound(EmptyMemory, 0)
    BY EmptySound
<1>2. PICK m \in Memory : m = EmptyMemory
    BY <1>1 DEF Sound, Typed
<1>3. Sound(n, 0)
    BY <1>1, ListingIs, CreateGood DEF Good
<1>4. PICK y : y = OpenTrade(Deposit)
    OBVIOUS
<1>5. n.trades = [m.trades EXCEPT ![Listing] = y]
    BY <1>2, <1>4 DEF CreatePeerOffer, Result, Memory
<1>6. m.trades \in [TradeIds -> SharedTrade \cup {Null}]
    BY DEF Memory
<1>7. \A t \in TradeIds : m.trades[t] = Null
    BY <1>2 DEF EmptyMemory
<1>8. y \in SharedTrade /\ y.buyer = Null /\ y.life = "OPEN" /\ y.pay = "UNPAID"
    BY <1>4, DepositAssumption, OpenTyped DEF OpenTrade
<1>9. n.trades[Listing] = y /\ \A t \in TradeIds \ {Listing} : n.trades[t] = Null
    BY <1>5, <1>6, <1>7, ListingIs
<1>10. y # Null
    BY <1>8, NullApart
<1>11. Awaited(n)
    BY <1>8, <1>9 DEF Awaited
<1> QED
    BY <1>3, <1>8, <1>9, <1>10, <1>11 DEF Store

LEMMA InitShape == Init => Shape
<1> SUFFICES ASSUME Init PROVE Shape
    OBVIOUS
<1>1. Store(mem)
    BY InitStore DEF Init
<1>2. Contract(chain, past)
    BY OfferKept DEF Init, Offer
<1>3. Flowing(mem, flow)
  <2>1. PICK f \in Handler : f = NoFlow
    BY NoFlowIs
  <2>2. flow = [i \in Flows |-> f]
    BY <2>1 DEF Init
  <2>3. f.step = "none" /\ f.kind = "none" /\ f.trade = Listing
    BY <2>1, NoFlowIs DEF NoFlow
  <2>4. Fits(mem, f)
    BY <1>1, <2>1, <2>3 DEF Fits, Store
  <2> QED
    BY <2>1, <2>2, <2>4 DEF Flowing
<1>4. Tallies
    BY DEF Init, Tallies
<1> QED
    BY <1>1, <1>2, <1>3, <1>4 DEF Shape

LEMMA NextShape == Shape /\ [Next]_vars => Shape'
<1> SUFFICES ASSUME Shape, [Next]_vars PROVE Shape'
    OBVIOUS
<1>1. ASSUME NEW i \in Flows, Begin(i)
      PROVE  Shape'
    BY <1>1, PlaceOrderShape, ClickPaidShape, ClickFinalizeShape, ClickReleaseShape,
       ClickProveShape, HookAcceptsShape DEF Begin
<1>2. ASSUME NEW i \in Flows, Continue(i)
      PROVE  Shape'
    BY <1>2, SimulateLockShape, LockMinedShape, TakeOrderShape, OpenCheckoutShape,
       VerifyPaidShape, AskStoreShape, CallContractShape, SettleShape, OracleLocksShape,
       OracleSubmitsShape, OracleMinedShape, TransferShape, AnswerShape,
       CreateSessionShape, ExecuteProofShape DEF Continue
<1>3. ASSUME NEW i \in EscrowIds, ResolveDispute(i) \/ ReclaimExpired(i)
      PROVE  Shape'
    BY <1>3, ResolveDisputeShape, ReclaimExpiredIs
<1>4. CASE UNCHANGED vars
    BY <1>4 DEF vars, Shape, Tallies
<1> QED
    BY <1>1, <1>2, <1>3, <1>4, ClosePageShape, HookRejectsShape, InterfereShape,
       CheckChainShape, CallDirectlyShape DEF Next

LEMMA ShapeKept == Spec => []Shape
<1> QED
    BY InitShape, NextShape, PTL DEF Spec

(* The store's rows, the contract's records and the handlers keep their    *)
(* shape, whatever pages, servers and callers of the contract do: no       *)
(* bucket of a listing goes below zero.                                    *)
THEOREM EscrowTypeCorrect == Spec => []TypeOK
<1>1. Shape => TypeOK
  <2> SUFFICES ASSUME Shape PROVE TypeOK
    OBVIOUS
  <2>1. mem \in Memory
    BY DEF Shape, Store, Sound, Typed
  <2>2. chain \in Chain
    BY DEF Shape, Contract
  <2>3. chain.next \in Nat /\ chain.balance \in Nat
    BY <2>2 DEF Chain
  <2>4. ASSUME NEW i \in EscrowIds
        PROVE  /\ chain.trades[i].status \in EscrowStatus
               /\ chain.inv[i].avail \in Nat /\ chain.inv[i].alloc \in Nat
    BY <2>2, <2>4, ChainParts
  <2>5. fiat \subseteq TradeIds /\ DOMAIN paid = TradeIds \X Buyers
    BY DEF Shape, Tallies
  <2>6. ASSUME NEW i \in Flows
        PROVE  flow[i].step \in PageSteps \cup OracleSteps \cup {"none"}
    <3>1. flow[i].step \in StepNames
        BY DEF Shape, Flowing, Handler
    <3> QED
        BY <3>1 DEF StepNames
  <2> QED
    BY <2>1, <2>3, <2>4, <2>5, <2>6 DEF TypeOK
<1> QED
    BY <1>1, ShapeKept, PTL

(* The contract always holds the units it owes its sellers and the buyers  *)
(* it locked them for, whatever calls come in whatever order, as long as   *)
(* no listing sold out without a buyer of its own is reclaimed.            *)
THEOREM EscrowStaysSolvent == Spec => []EscrowSolvent
<1>1. Shape => EscrowSolvent
    BY DEF Shape, Contract, Ledger, EscrowSolvent
<1> QED
    BY <1>1, ShapeKept, PTL
-----------------------------------------------------------------------------
(* The price before the USDC.                                              *)
LEMMA PricedMoves ==
    ASSUME Shape, Priced, NEW i \in Flows, NEW x, Turns(i, x),
           x.step \in Paying => x.trade \in fiat',
           fiat \subseteq fiat', RowsPriced', UsdcPriced'
    PROVE  Priced'
<1>1. \A j \in Flows : flow'[j] = IF j = i THEN x ELSE flow[j]
    BY DEF Shape, Flowing, Turns
<1>2. ASSUME NEW j \in Flows
      PROVE  Paid(flow[j])'
    BY <1>1 DEF Priced, Paid
<1> QED
    BY <1>2 DEF Priced

LEMMA PricedRests ==
    ASSUME Priced, flow' = flow, fiat \subseteq fiat', RowsPriced', UsdcPriced'
    PROVE  Priced'
<1>1. ASSUME NEW j \in Flows
      PROVE  Paid(flow[j])'
    BY DEF Priced, Paid
<1> QED
    BY <1>1 DEF Priced

LEMMA RowsEased ==
    ASSUME Priced, Eases(mem, mem'), fiat \subseteq fiat'
    PROVE  RowsPriced'
    BY DEF Priced, RowsPriced, Eases

LEMMA RowsGone ==
    ASSUME Priced, NEW t, Goes(mem, mem', t), fiat \subseteq fiat',
           Confirmed(mem'.trades[t]) => t \in fiat'
    PROVE  RowsPriced'
    BY DEF Priced, RowsPriced, Goes

LEMMA UsdcSame ==
    ASSUME Priced, paid' = paid, fiat \subseteq fiat'
    PROVE  UsdcPriced'
    BY DEF Priced, UsdcPriced

LEMMA UsdcReceived ==
    ASSUME Shape, Priced, NEW t \in TradeIds, NEW to, Received(t, to), t \in fiat,
           fiat \subseteq fiat'
    PROVE  UsdcPriced'
<1>1. ASSUME NEW u \in TradeIds, NEW b \in Buyers, paid'[u, b] > 0
      PROVE  u \in fiat'
  <2>1. PICK x \in TradeIds \X Buyers : x = <<u, b>>
    OBVIOUS
  <2>2. x # <<t, to>> => paid'[x] = paid[x]
    BY ReceivedTyped DEF Shape, Tallies
  <2>3. CASE x = <<t, to>>
    BY <2>1, <2>3
  <2>4. CASE x # <<t, to>>
    BY <1>1, <2>1, <2>2, <2>4 DEF Priced, UsdcPriced
  <2> QED
    BY <2>3, <2>4
<1> QED
    BY <1>1 DEF UsdcPriced

(* A handler that does nothing but go on, and a call that confirms nothing. *)
LEMMA GoesOn ==
    ASSUME Shape, Priced, NEW i \in Flows, NEW x, Turns(i, x),
           x.step \in Paying => x.trade \in fiat,
           Eases(mem, mem'), fiat' = fiat, paid' = paid
    PROVE  Priced'
    BY PricedMoves, RowsEased, UsdcSame

LEMMA EndTurns ==
    ASSUME NEW i, End(i)
    PROVE  Turns(i, Done) /\ Done.step \notin Paying
<1>1. "none" \notin Paying
    BY DEF Paying, OracleSteps
<1> QED
    BY <1>1, DoneIs DEF End, Turns

LEMMA StepTurns ==
    ASSUME Shape, NEW i \in Flows, NEW step \in StepNames, Go(i, step)
    PROVE  \E x : /\ Turns(i, x) /\ x \in Handler /\ x.step = step
                  /\ x.trade = flow[i].trade /\ x.kind = flow[i].kind
                  /\ x.to = flow[i].to /\ x.hash = flow[i].hash
    BY GoTurns DEF Shape, Flowing, Stepped

LEMMA StartsAt ==
    ASSUME NEW i, NEW kind, NEW step, NEW who, NEW t, NEW arg,
           Start(i, kind, step, who, t, arg)
    PROVE  \E x : /\ Turns(i, x) /\ x.step = step /\ x.trade = t /\ x.kind = kind
                  /\ x.to = Null /\ ~x.hash
<1>1. PICK f \in Handler : f = NoFlow /\ f.to = Null /\ f.hash = FALSE
    BY NoFlowIs
<1>2. PICK x : x = [f EXCEPT !.kind = kind, !.step = step, !.who = who, !.trade = t, !.arg = arg]
    OBVIOUS
<1>3. Turns(i, x)
    BY <1>1, <1>2 DEF Start, Turns
<1>4. x.step = step /\ x.trade = t /\ x.kind = kind /\ x.to = f.to /\ x.hash = f.hash
    BY <1>2 DEF Handler
<1> QED
    BY <1>1, <1>3, <1>4

LEMMA QuietNames ==
    /\ {"none", "lock", "locking", "take", "checkout", "verify", "session", "execute"}
         \cap Paying = {}
    /\ {"none", "lock", "locking", "take", "checkout", "verify", "session", "execute"}
         \subseteq StepNames
    /\ Paying \subseteq StepNames
    BY DEF Paying, OracleSteps, StepNames, PageSteps

LEMMA BeginPrices ==
    ASSUME Shape, Priced, NEW i \in Flows, Begin(i)
    PROVE  Priced'
<1>1. CASE \E b \in Buyers, want \in Requests : PlaceOrder(i, b, want)
  <2>1. PICK b \in Buyers, step \in {"lock", "take"}, want \in Requests :
        Start(i, "order", step, b, Listing, want)
    BY <1>1 DEF PlaceOrder
  <2>2. PICK x : Turns(i, x) /\ x.step = step
    BY <2>1, StartsAt
  <2>3. mem' = mem /\ fiat' = fiat /\ paid' = paid
    BY <1>1 DEF PlaceOrder
  <2> QED
    BY <2>2, <2>3, QuietNames, EasesSame, GoesOn
<1>2. ASSUME NEW t \in TradeIds, ClickPaid(i, t)
      PROVE  Priced'
  <2>1. PICK x : Turns(i, x) /\ x.step = "checkout"
    BY <1>2, StartsAt DEF ClickPaid
  <2>2. mem' = mem /\ fiat' = fiat /\ paid' = paid
    BY <1>2 DEF ClickPaid
  <2> QED
    BY <2>1, <2>2, QuietNames, EasesSame, GoesOn
<1>3. ASSUME NEW t \in TradeIds, ClickFinalize(i, t)
      PROVE  Priced'
  <2>1. PICK u : Start(i, "settlement", "initiate", u, t, Null)
    BY <1>3 DEF ClickFinalize
  <2>2. PICK x : Turns(i, x) /\ x.trade = t
    BY <2>1, StartsAt
  <2>3. t \in fiat
    BY <1>3 DEF ClickFinalize, Trade, Priced, RowsPriced, Confirmed
  <2>4. mem' = mem /\ fiat' = fiat /\ paid' = paid
    BY <1>3 DEF ClickFinalize
  <2> QED
    BY <2>2, <2>3, <2>4, EasesSame, GoesOn
<1>4. ASSUME NEW t \in TradeIds, NEW u \in Buyers \cup {Seller}, ClickRelease(i, u, t)
      PROVE  Priced'
  <2>1. PICK step : Start(i, "release", step, u, t, Null)
    BY <1>4 DEF ClickRelease
  <2>2. PICK x : Turns(i, x) /\ x.trade = t
    BY <2>1, StartsAt
  <2>3. t \in fiat
    BY <1>4 DEF ClickRelease, Trade, Priced, RowsPriced, Confirmed
  <2>4. mem' = mem /\ fiat' = fiat /\ paid' = paid
    BY <1>4 DEF ClickRelease
  <2> QED
    BY <2>2, <2>3, <2>4, EasesSame, GoesOn
<1>5. ASSUME NEW u \in Buyers \cup {Seller}, ClickProve(i, u)
      PROVE  Priced'
  <2>1. PICK x : Turns(i, x) /\ x.step = "session"
    BY <1>5, StartsAt DEF ClickProve
  <2>2. mem' = mem /\ fiat' = fiat /\ paid' = paid
    BY <1>5 DEF ClickProve
  <2> QED
    BY <2>1, <2>2, QuietNames, EasesSame, GoesOn
<1>6. ASSUME NEW s \in Flows, HookAccepts(i, s)
      PROVE  Priced'
  <2>1. PICK x : Turns(i, x) /\ x.trade = Listing
    BY <1>6, StartsAt DEF HookAccepts
  <2>2. mem' = mem /\ fiat' = fiat \cup {Listing} /\ paid' = paid
    BY <1>6 DEF HookAccepts
  <2>3. RowsPriced' /\ UsdcPriced'
    BY <2>2, EasesSame, RowsEased, UsdcSame
  <2> QED
    BY <2>1, <2>2, <2>3, PricedMoves
<1> QED
    BY <1>1, <1>2, <1>3, <1>4, <1>5, <1>6 DEF Begin

LEMMA OrderPrices ==
    ASSUME Shape, Priced, NEW i \in Flows, SimulateLock(i) \/ LockMined(i) \/ ClosePage(i)
    PROVE  Priced'
<1>1. mem' = mem /\ fiat' = fiat /\ paid' = paid
    BY DEF SimulateLock, LockMined, ClosePage
<1>2. Go(i, "locking") \/ Go(i, "take") \/ End(i)
    BY DEF SimulateLock, LockMined, ClosePage
<1>3. \E x : Turns(i, x) /\ x.step \notin Paying
    BY <1>2, QuietNames, StepTurns, EndTurns
<1> QED
    BY <1>1, <1>3, EasesSame, GoesOn

LEMMA TakePrices ==
    ASSUME Shape, Priced, NEW i \in Flows, TakeOrder(i)
    PROVE  Priced'
<1>1. PICK f : f = flow[i]
    OBVIOUS
<1>2. f.who \in Buyers /\ f.arg \in Nat
    BY <1>1, HandlerIs DEF TakeOrder, At, Fits
<1>3. PICK draw \in Draws(mem, Listing) :
         mem' = TakePeerOffer(mem, 0, f.who, Listing, f.arg, draw).mem
    BY <1>1 DEF TakeOrder, Now
<1>4. PICK res : res = TakePeerOffer(mem, 0, f.who, Listing, f.arg, draw)
    OBVIOUS
<1>5. TakenBy(mem, res, f.who) /\ mem' = res.mem
    BY <1>2, <1>3, <1>4, TakeServes DEF Shape
<1>6. mem \in Memory
    BY DEF Shape, Store, Sound, Typed
<1>7. End(i) /\ fiat' = fiat /\ paid' = paid
    BY DEF TakeOrder
<1>8. ASSUME NEW t \in TradeIds, Confirmed(mem'.trades[t])
      PROVE  t \in fiat'
  <2>1. CASE res.mem.trades = mem.trades
    BY <1>5, <1>7, <1>8, <2>1 DEF Priced, RowsPriced
  <2>2. ASSUME NEW u \in TradeIds, NEW y \in SharedTrade,
               y.life = "AWAITING_PAYMENT", y.pay = "UNPAID",
               res.mem.trades = [mem.trades EXCEPT ![u] = y]
        PROVE  t \in fiat'
    <3>1. ~Confirmed(y)
        BY <2>2 DEF Confirmed, Finalizable
    <3>2. mem'.trades[t] = IF t = u THEN y ELSE mem.trades[t]
        BY <1>5, <1>6, <2>2 DEF Memory
    <3> QED
        BY <1>7, <1>8, <3>1, <3>2 DEF Priced, RowsPriced
  <2> QED
    BY <1>5, <2>1, <2>2 DEF TakenBy
<1>9. RowsPriced' /\ UsdcPriced'
    BY <1>7, <1>8, UsdcSame DEF RowsPriced
<1> QED
    BY <1>7, <1>9, EndTurns, PricedMoves

(* The steps that two or more of the invariants look at.                   *)
LEMMA OpenCheckoutIs ==
    ASSUME Shape, NEW i \in Flows, OpenCheckout(i)
    PROVE  /\ Eases(mem, mem')
           /\ \E x : /\ Turns(i, x) /\ x.step \in {"none", "verify"}
                     /\ x.trade \in TradeIds /\ (x.hash => flow[i].hash)
           /\ fiat' = fiat /\ paid' = paid /\ chain' = chain /\ proofs' = proofs
           /\ past' = past
<1>1. PICK f : f = flow[i]
    OBVIOUS
<1>2. f.step = "checkout" /\ Fits(mem, f) /\ f \in Handler
    BY <1>1, HandlerIs DEF OpenCheckout, At
<1>3. f.who \in Buyers /\ Bought(mem, f.trade) /\ f.trade \in TradeIds
    BY <1>2 DEF Fits, Handler
<1>4. fiat' = fiat /\ paid' = paid /\ chain' = chain /\ proofs' = proofs /\ past' = past
    BY DEF OpenCheckout
<1>5. CASE f.arg # Null /\ Go(i, "verify") /\ mem' = mem
    BY <1>1, <1>3, <1>4, <1>5, QuietNames, StepTurns, EasesSame
<1>6. ASSUME NEW r \in Pick({x \in TxRefs : mem.attempts[x] = Null}),
             NEW res, res = Checkout(mem, Now, f.who, f.trade, r, <<Null, Null>>),
             mem' = res.mem,
             flow' = [flow EXCEPT ![i] = IF ~res.ok THEN Done ELSE
                              [f EXCEPT !.step = "verify",
                                        !.arg = res.mem.trades[f.trade].ref]]
      PROVE  Eases(mem, mem') /\ \E x : /\ Turns(i, x) /\ x.step \in {"none", "verify"}
                                        /\ x.trade \in TradeIds /\ (x.hash => f.hash)
  <2>1. r \in TxRefs
    BY <1>6 DEF Pick
  <2>2. res = Checkout(mem, 0, f.who, f.trade, r, <<Null, Null>>)
    BY <1>6 DEF Now
  <2>3. Eases(mem, mem')
    BY <1>3, <1>6, <2>1, <2>2, CheckoutEases DEF Shape, Store, Bought
  <2>4. CASE ~res.ok
    <3>1. Turns(i, Done)
        BY <1>6, <2>4 DEF Turns
    <3> QED
        BY <2>3, <3>1, DoneIs, ListingIs
  <2>5. CASE res.ok
    <3>1. PICK ref : ref = res.mem.trades[f.trade].ref
        OBVIOUS
    <3>2. PICK x : x = [f EXCEPT !.step = "verify", !.arg = ref]
        OBVIOUS
    <3>3. x.step = "verify" /\ x.hash = f.hash /\ x.trade = f.trade
        BY <1>2, <3>2 DEF Handler
    <3>4. Turns(i, x)
        BY <1>6, <2>5, <3>1, <3>2 DEF Turns
    <3> QED
        BY <1>3, <2>3, <3>3, <3>4
  <2> QED
    BY <2>4, <2>5
<1>7. ASSUME NEW r \in Pick({x \in TxRefs : mem.attempts[x] = Null}),
             NEW res, res = Checkout(mem, Now, flow[i].who, flow[i].trade, r, <<Null, Null>>),
             mem' = res.mem,
             flow' = [flow EXCEPT ![i] = IF ~res.ok THEN Done ELSE
                              [flow[i] EXCEPT !.step = "verify",
                                              !.arg = res.mem.trades[flow[i].trade].ref]]
      PROVE  Eases(mem, mem') /\ \E x : /\ Turns(i, x) /\ x.step \in {"none", "verify"}
                                        /\ x.trade \in TradeIds /\ (x.hash => f.hash)
    BY <1>1, <1>6, <1>7
<1>8. \/ flow[i].arg # Null /\ Go(i, "verify") /\ mem' = mem
      \/ \E r \in Pick({x \in TxRefs : mem.attempts[x] = Null}) :
            \E res : /\ res = Checkout(mem, Now, flow[i].who, flow[i].trade, r, <<Null, Null>>)
                     /\ mem' = res.mem
                     /\ flow' = [flow EXCEPT ![i] = IF ~res.ok THEN Done ELSE
                                   [flow[i] EXCEPT !.step = "verify",
                                                   !.arg = res.mem.trades[flow[i].trade].ref]]
    BY DEF OpenCheckout
<1>9. Eases(mem, mem') /\ \E x : /\ Turns(i, x) /\ x.step \in {"none", "verify"}
                                 /\ x.trade \in TradeIds /\ (x.hash => f.hash)
    BY <1>1, <1>5, <1>7, <1>8
<1> QED
    BY <1>1, <1>4, <1>9

LEMMA VerifyPaidIs ==
    ASSUME Shape, NEW i \in Flows, VerifyPaid(i)
    PROVE  /\ \E res, amount :
                /\ Reports(mem, res, flow[i].trade, amount) /\ mem' = res.mem
                /\ Proceeds(res, flow[i].trade) => res.ok
                /\ \/ Go(i, "initiate") /\ Proceeds(res, flow[i].trade)
                   \/ End(i)
                /\ fiat' = IF res.ok /\ amount \in {"exact", "over"}
                           THEN fiat \cup {flow[i].trade} ELSE fiat
           /\ Bought(mem, flow[i].trade) /\ flow[i].trade \in TradeIds /\ Unhooked(i)
           /\ paid' = paid /\ chain' = chain /\ proofs' = proofs /\ past' = past
<1>1. PICK f : f = flow[i]
    OBVIOUS
<1>2. f.step = "verify" /\ Fits(mem, f) /\ f \in Handler /\ Unhooked(i)
    BY <1>1, HandlerIs DEF VerifyPaid, At
<1>3. f.arg \in TxRefs /\ Bought(mem, f.trade) /\ f.trade \in TradeIds
    BY <1>2 DEF Fits, Handler
<1>4. PICK g \in Pick({x \in FlwIds : mem.consumed[x] = Null}), amount \in Reported :
        LET res == RecordPayment(mem, Now, f.trade, f.arg, g, amount, Null) IN
        /\ mem' = res.mem
        /\ GoIf(i, Proceeds(res, f.trade), "initiate")
        /\ fiat' = IF res.ok /\ amount \in {"exact", "over"} THEN fiat \cup {f.trade} ELSE fiat
    BY <1>1 DEF VerifyPaid
<1>5. g \in FlwIds /\ amount \in Amounts
    BY FlowAssumption DEF Pick
<1>6. PICK res : res = RecordPayment(mem, Now, f.trade, f.arg, g, amount, Null)
    OBVIOUS
<1>7. Reports(mem, res, f.trade, amount)
    BY <1>3, <1>5, <1>6, RecordReports DEF Shape, Store, Now
<1>8. mem' = res.mem /\ GoIf(i, Proceeds(res, f.trade), "initiate")
      /\ fiat' = IF res.ok /\ amount \in {"exact", "over"} THEN fiat \cup {f.trade} ELSE fiat
    BY <1>4, <1>6
<1>9. \/ Go(i, "initiate") /\ Proceeds(res, f.trade)
      \/ End(i)
    BY <1>8 DEF GoIf
<1>10. Proceeds(res, f.trade) => res.ok
    BY DEF Proceeds
<1>11. paid' = paid /\ chain' = chain /\ proofs' = proofs /\ past' = past
    BY DEF VerifyPaid
<1> QED
    BY <1>1, <1>2, <1>3, <1>7, <1>8, <1>9, <1>10, <1>11

(* The oracle is asked: it finds the release done, or goes on by what the  *)
(* contract says.                                                          *)
Asked(i, x) ==
    /\ Turns(i, x) /\ x.trade = flow[i].trade /\ x.kind = flow[i].kind
    /\ ~x.hash
    /\ mem.trades[flow[i].trade].buyer # Null => x.to = mem.trades[flow[i].trade].buyer
LEMMA SettleIs ==
    ASSUME Shape, NEW i \in Flows, Settle(i)
    PROVE  /\ flow[i].step = "settle" /\ Unhooked(i) /\ flow[i].trade \in TradeIds
           /\ chain' = chain /\ fiat' = fiat /\ proofs' = proofs /\ paid' = paid
           /\ \/ /\ flow[i].hash /\ End(i)
                 /\ mem' = ConfirmRelease(mem, flow[i].trade).mem /\ past' = past
              \/ /\ mem' = mem
                 /\ \E x : /\ Asked(i, x)
                           /\ \/ /\ x.step = SettleStep(OnChain.status)
                                 /\ past' = past \cup Overlap(i)
                              \/ x.step = "transfer" /\ past' = past \cup {"unread"}
<1>1. PICK f \in Handler : f = flow[i]
    BY HandlerIs
<1>2. f.step = "settle" /\ Fits(mem, f) /\ Unhooked(i) /\ f.trade \in TradeIds
    BY <1>1, HandlerIs DEF Settle, At
<1>3. PICK to : to = IF mem.trades[f.trade].buyer # Null THEN mem.trades[f.trade].buyer ELSE f.who
    OBVIOUS
<1>4. PICK status : status = OnChain.status
    OBVIOUS
<1>5. \/ f.hash /\ mem' = ConfirmRelease(mem, f.trade).mem /\ End(i) /\ past' = past
      \/ /\ ~f.hash /\ mem' = mem
         /\ \/ /\ flow' = [flow EXCEPT ![i].to = to, ![i].step = SettleStep(status)]
               /\ past' = past \cup Overlap(i)
            \/ /\ flow' = [flow EXCEPT ![i].to = to, ![i].step = "transfer"]
               /\ past' = past \cup {"unread"}
    BY <1>1, <1>3, <1>4 DEF Settle, Trade, Fault, Happened
<1>6. ASSUME NEW step, ~f.hash, flow' = [flow EXCEPT ![i].to = to, ![i].step = step]
      PROVE  \E x : Asked(i, x) /\ x.step = step
  <2>1. PICK x : x = [f EXCEPT !.to = to, !.step = step]
    OBVIOUS
  <2>2. /\ x.step = step /\ x.kind = f.kind /\ x.trade = f.trade
        /\ x.to = to /\ x.hash = f.hash
    BY <2>1 DEF Handler
  <2>3. Turns(i, x)
    BY <1>1, <1>6, <2>1 DEF Turns, Shape, Flowing
  <2>4. mem.trades[f.trade].buyer # Null => x.to = mem.trades[f.trade].buyer
    BY <1>3, <2>2
  <2> QED
    BY <1>1, <1>6, <2>2, <2>3, <2>4 DEF Asked
<1>7. chain' = chain /\ fiat' = fiat /\ proofs' = proofs /\ paid' = paid
    BY DEF Settle
<1>8. ASSUME ~f.hash, flow' = [flow EXCEPT ![i].to = to, ![i].step = SettleStep(status)]
      PROVE  \E x : Asked(i, x) /\ x.step = SettleStep(status)
    BY <1>6, <1>8
<1>9. ASSUME ~f.hash, flow' = [flow EXCEPT ![i].to = to, ![i].step = "transfer"]
      PROVE  \E x : Asked(i, x) /\ x.step = "transfer"
    BY <1>6, <1>9
<1> QED
    BY <1>1, <1>2, <1>4, <1>5, <1>7, <1>8, <1>9

LEMMA FailsIs ==
    ASSUME Shape, NEW i \in Flows, flow[i].step \in {"submit", "mine"}, ReleaseFails(i)
    PROVE  \/ /\ flow[i].kind = "webhook" /\ End(i) /\ flow[i].trade = Listing
              /\ \E s \in Flows : proofs' = [proofs EXCEPT ![s] = "verified"]
           \/ flow[i].kind # "webhook" /\ Go(i, "transfer") /\ proofs' = proofs
    BY HandlerIs DEF ReleaseFails, IsHook, Fits

LEMMA OracleMinedIs ==
    ASSUME Shape, NEW i \in Flows, OracleMined(i)
    PROVE  /\ flow[i].step = "mine" /\ fiat' = fiat /\ mem' = mem
           /\ past \subseteq past' /\ flow[i].trade \in TradeIds
           /\ \/ /\ CanOracleRelease(chain, ChainId, ProofOf(i))
                 /\ Finishes(chain, chain', ChainId)
                 /\ Received(flow[i].trade, OnChain.buyer)
                 /\ \/ Go(i, "answer") /\ proofs' = proofs
                    \/ ReleaseFails(i) /\ "lost" \in past'
              \/ /\ ~CanOracleRelease(chain, ChainId, ProofOf(i))
                 /\ ReleaseFails(i) /\ chain' = chain /\ paid' = paid
<1>1. /\ flow[i].step = "mine" /\ fiat' = fiat /\ mem' = mem /\ past \subseteq past'
    BY DEF OracleMined, At, Fault, Happened
<1>2. flow[i].trade \in TradeIds
    BY HandlerIs
<1>3. CASE CanOracleRelease(chain, ChainId, ProofOf(i))
  <2>1. chain' = OracleRelease(chain, ChainId, ProofOf(i))
        /\ Received(flow[i].trade, OnChain.buyer)
    BY <1>3 DEF OracleMined
  <2>2. PICK proof \in Evidence : proof = ProofOf(i)
    BY ProofTyped
  <2>3. Finishes(chain, chain', ChainId)
    BY <1>3, <2>1, <2>2, ReleasesContract DEF Shape
  <2>4. \/ Go(i, "answer") /\ proofs' = proofs
        \/ ReleaseFails(i) /\ "lost" \in past'
    BY <1>3 DEF OracleMined, Fault, Happened
  <2> QED
    BY <1>1, <1>2, <1>3, <2>1, <2>3, <2>4
<1>4. CASE ~CanOracleRelease(chain, ChainId, ProofOf(i))
    BY <1>1, <1>2, <1>4 DEF OracleMined
<1> QED
    BY <1>3, <1>4

LEMMA CheckoutPrices ==
    ASSUME Shape, Priced, NEW i \in Flows, OpenCheckout(i)
    PROVE  Priced'
<1>1. PICK x : Turns(i, x) /\ x.step \in {"none", "verify"}
    BY OpenCheckoutIs
<1>2. Eases(mem, mem') /\ fiat' = fiat /\ paid' = paid
    BY OpenCheckoutIs
<1> QED
    BY <1>1, <1>2, QuietNames, GoesOn

LEMMA VerifyPrices ==
    ASSUME Shape, Priced, NEW i \in Flows, VerifyPaid(i)
    PROVE  Priced'
<1>1. PICK t : t = flow[i].trade
    OBVIOUS
<1>2. PICK res, amount :
        /\ Reports(mem, res, t, amount) /\ mem' = res.mem
        /\ Proceeds(res, t) => res.ok
        /\ \/ Go(i, "initiate") /\ Proceeds(res, t)
           \/ End(i)
        /\ fiat' = IF res.ok /\ amount \in {"exact", "over"} THEN fiat \cup {t} ELSE fiat
    BY <1>1, VerifyPaidIs
<1>3. t \in TradeIds /\ paid' = paid
    BY <1>1, VerifyPaidIs
<1>4. fiat \subseteq fiat'
    BY <1>2
<1>5. Confirmed(mem.trades[t]) => t \in fiat
    BY <1>3 DEF Priced, RowsPriced
<1>6. Goes(mem, mem', t)
    BY <1>2 DEF Reports
<1>7. Confirmed(mem'.trades[t]) => t \in fiat'
    BY <1>2, <1>4, <1>5 DEF Reports
<1>8. Proceeds(res, t) => t \in fiat'
    BY <1>2, <1>4, <1>5 DEF Reports
<1>9. RowsPriced' /\ UsdcPriced'
    BY <1>3, <1>4, <1>6, <1>7, RowsGone, UsdcSame
<1>10. CASE Go(i, "initiate") /\ Proceeds(res, t)
  <2>1. "initiate" \in StepNames
    BY QuietNames DEF Paying
  <2>2. PICK x : Turns(i, x) /\ x.trade = t
    BY <1>1, <1>10, <2>1, StepTurns
  <2> QED
    BY <1>4, <1>8, <1>9, <1>10, <2>2, PricedMoves
<1>11. CASE End(i)
    BY <1>4, <1>9, <1>11, EndTurns, PricedMoves
<1> QED
    BY <1>2, <1>10, <1>11

LEMMA AskPrices ==
    ASSUME Shape, Priced, NEW i \in Flows, AskStore(i)
    PROVE  Priced'
<1>1. PICK f : f = flow[i]
    OBVIOUS
<1>2. f.trade \in TradeIds /\ f.step \in {"initiate", "confirm", "request"}
    BY <1>1, HandlerIs DEF AskStore
<1>3. \/ mem' = PayoutStep(mem, f.trade, "initiate").mem
      \/ mem' = PayoutStep(mem, f.trade, "confirm").mem
      \/ mem' = RequestRelease(mem, f.trade).mem
    BY <1>1, <1>2 DEF AskStore, At
<1>4. Typed(mem)
    BY DEF Shape, Store, Sound
<1>5. Eases(mem, mem')
    BY <1>2, <1>3, <1>4, PayoutEases, RequestEases
<1>6. PICK step : step = StepAfter(f.step, f.trade)
    OBVIOUS
<1>7. step \in Paying
    BY <1>2, <1>6 DEF StepAfter, Paying
<1>8. Go(i, step) /\ fiat' = fiat /\ paid' = paid
    BY <1>1, <1>6 DEF AskStore
<1>9. f.trade \in fiat
    BY <1>1, <1>2 DEF Priced, Paid, Paying
<1>10. PICK x : Turns(i, x) /\ x.trade = f.trade
    BY <1>1, <1>7, <1>8, QuietNames, StepTurns
<1> QED
    BY <1>5, <1>8, <1>9, <1>10, GoesOn

LEMMA CallPrices ==
    ASSUME Shape, Priced, NEW i \in Flows, CallContract(i)
    PROVE  Priced'
<1>1. PICK t \in TradeIds : t = flow[i].trade
    BY HandlerIs
<1>2. PICK step : step = NextStep(flow[i])
    OBVIOUS
<1>3. step \in StepNames
    BY <1>2, QuietNames DEF NextStep, Paying
<1>4. /\ flow[i].step = "chain" /\ fiat' = fiat /\ mem' = mem
      /\ \/ Go(i, step) /\ paid' = paid
         \/ Marks(i)
         \/ Releases(i)
    BY <1>2, CallContractIs
<1>5. t \in fiat
    BY <1>1, <1>4 DEF Priced, Paid, Paying
<1>6. RowsPriced'
    BY <1>4, EasesSame, RowsEased
<1>7. \/ Go(i, step)
      \/ flow' = [flow EXCEPT ![i].step = step, ![i].hash = TRUE]
    BY <1>2, <1>4 DEF Marks, Releases
<1>8. PICK x : Turns(i, x) /\ x.trade = t
  <2>1. CASE Go(i, step)
    BY <1>1, <1>3, <2>1, StepTurns
  <2>2. CASE flow' = [flow EXCEPT ![i].step = step, ![i].hash = TRUE]
    <3>1. Unhooked(i) /\ step \in Plain
        BY <1>2, <1>4, HandlerIs, Names DEF NextStep, Paying
    <3> QED
        BY <1>1, <2>2, <3>1, HashTurns
  <2> QED
    BY <1>7, <2>1, <2>2
<1>9. UsdcPriced'
  <2>1. CASE paid' = paid
    BY <1>4, <2>1, UsdcSame
  <2>2. CASE Releases(i)
    BY <1>1, <1>4, <1>5, <2>2, UsdcReceived DEF Releases
  <2> QED
    BY <1>4, <2>1, <2>2 DEF Marks
<1> QED
    BY <1>4, <1>5, <1>6, <1>8, <1>9, PricedMoves

LEMMA SettlePrices ==
    ASSUME Shape, Priced, NEW i \in Flows, Settle(i)
    PROVE  Priced'
<1>1. PICK t \in TradeIds : t = flow[i].trade
    BY HandlerIs
<1>2. t \in fiat /\ fiat' = fiat /\ paid' = paid
    BY <1>1, SettleIs DEF Priced, Paid, Paying
<1>3. CASE End(i) /\ mem' = ConfirmRelease(mem, t).mem
  <2>1. Goes(mem, mem', t)
    BY <1>3, ConfirmGoes DEF Shape, Store
  <2>2. RowsPriced' /\ UsdcPriced'
    BY <1>2, <2>1, RowsGone, UsdcSame
  <2> QED
    BY <1>2, <1>3, <2>2, EndTurns, PricedMoves
<1>4. CASE mem' = mem /\ \E x : Asked(i, x)
  <2>1. PICK x : Turns(i, x) /\ x.trade = t
    BY <1>1, <1>4 DEF Asked
  <2> QED
    BY <1>2, <1>4, <2>1, EasesSame, GoesOn
<1> QED
    BY <1>1, <1>3, <1>4, SettleIs

LEMMA LocksPrices ==
    ASSUME Shape, Priced, NEW i \in Flows, OracleLocks(i)
    PROVE  Priced'
<1>1. PICK t : t = flow[i].trade
    OBVIOUS
<1>2. /\ flow[i].step = "selflock" /\ fiat' = fiat /\ mem' = mem /\ paid' = paid
      /\ Go(i, "submit") \/ Go(i, "transfer")
    BY DEF OracleLocks, At
<1>3. t \in fiat
    BY <1>1, <1>2 DEF Priced, Paid, Paying, OracleSteps
<1>4. {"submit", "transfer"} \subseteq StepNames
    BY QuietNames DEF Paying, OracleSteps
<1>5. PICK x : Turns(i, x) /\ x.trade = t
    BY <1>1, <1>2, <1>4, StepTurns
<1> QED
    BY <1>2, <1>3, <1>5, EasesSame, GoesOn

LEMMA FailsTurn ==
    ASSUME Shape, NEW i \in Flows, flow[i].step \in {"submit", "mine"}, ReleaseFails(i)
    PROVE  \E x : Turns(i, x) /\ (x.step \in Paying => x.trade = flow[i].trade)
<1>1. "transfer" \in StepNames
    BY QuietNames DEF Paying, OracleSteps
<1> QED
    BY <1>1, FailsIs, StepTurns, EndTurns

LEMMA SubmitPrices ==
    ASSUME Shape, Priced, NEW i \in Flows, OracleSubmits(i)
    PROVE  Priced'
<1>1. PICK t : t = flow[i].trade
    OBVIOUS
<1>2. /\ flow[i].step = "submit" /\ fiat' = fiat /\ mem' = mem /\ paid' = paid
      /\ Go(i, "mine") \/ ReleaseFails(i)
    BY DEF OracleSubmits, At
<1>3. t \in fiat
    BY <1>1, <1>2 DEF Priced, Paid, Paying, OracleSteps
<1>4. "mine" \in StepNames
    BY QuietNames DEF Paying, OracleSteps
<1>5. PICK x : Turns(i, x) /\ (x.step \in Paying => x.trade = t)
    BY <1>1, <1>2, <1>4, StepTurns, FailsTurn
<1> QED
    BY <1>2, <1>3, <1>5, EasesSame, GoesOn

LEMMA MinedPrices ==
    ASSUME Shape, Priced, NEW i \in Flows, OracleMined(i)
    PROVE  Priced'
<1>1. PICK t \in TradeIds : t = flow[i].trade
    BY OracleMinedIs
<1>2. /\ flow[i].step = "mine" /\ fiat' = fiat /\ mem' = mem
      /\ Received(t, OnChain.buyer) \/ paid' = paid
      /\ Go(i, "answer") \/ ReleaseFails(i)
    BY <1>1, OracleMinedIs
<1>3. t \in fiat
    BY <1>1, <1>2 DEF Priced, Paid, Paying, OracleSteps
<1>4. "answer" \in StepNames
    BY QuietNames DEF Paying, OracleSteps
<1>5. PICK x : Turns(i, x) /\ (x.step \in Paying => x.trade = t)
    BY <1>1, <1>2, <1>4, StepTurns, FailsTurn
<1>6. RowsPriced' /\ UsdcPriced'
    BY <1>2, <1>3, EasesSame, RowsEased, UsdcSame, UsdcReceived
<1> QED
    BY <1>2, <1>3, <1>5, <1>6, PricedMoves

LEMMA TransferPrices ==
    ASSUME Shape, Priced, NEW i \in Flows, Transfer(i)
    PROVE  Priced'
<1>1. PICK t \in TradeIds : t = flow[i].trade
    BY HandlerIs
<1>2. /\ flow[i].step = "transfer" /\ fiat' = fiat /\ mem' = mem
      /\ Received(t, flow[i].to) \/ paid' = paid
      /\ Go(i, "answer")
    BY <1>1 DEF Transfer, At
<1>3. t \in fiat
    BY <1>1, <1>2 DEF Priced, Paid, Paying, OracleSteps
<1>4. "answer" \in StepNames
    BY QuietNames DEF Paying, OracleSteps
<1>5. PICK x : Turns(i, x) /\ x.trade = t
    BY <1>1, <1>2, <1>4, StepTurns
<1>6. RowsPriced' /\ UsdcPriced'
    BY <1>2, <1>3, EasesSame, RowsEased, UsdcSame, UsdcReceived
<1> QED
    BY <1>2, <1>3, <1>5, <1>6, PricedMoves

LEMMA AnswerPrices ==
    ASSUME Shape, Priced, NEW i \in Flows, Answer(i)
    PROVE  Priced'
<1>1. PICK t \in TradeIds : t = flow[i].trade
    BY HandlerIs
<1>2. /\ flow[i].step = "answer" /\ fiat' = fiat /\ paid' = paid /\ End(i)
      /\ mem' = CompletePeerTrade(mem, t).mem \/ mem' = ConfirmRelease(mem, t).mem
    BY <1>1 DEF Answer, At
<1>3. t \in fiat
    BY <1>1, <1>2 DEF Priced, Paid, Paying, OracleSteps
<1>4. Goes(mem, mem', t)
    BY <1>2, CompleteGoes, ConfirmGoes DEF Shape, Store
<1>5. RowsPriced' /\ UsdcPriced'
    BY <1>2, <1>3, <1>4, RowsGone, UsdcSame
<1> QED
    BY <1>2, <1>5, EndTurns, PricedMoves

LEMMA SessionPrices ==
    ASSUME Shape, Priced, NEW i \in Flows, CreateSession(i)
    PROVE  Priced'
<1>1. mem' = mem /\ fiat' = fiat /\ paid' = paid /\ (Go(i, "execute") \/ End(i))
    BY DEF CreateSession
<1>2. \E x : Turns(i, x) /\ x.step \notin Paying
    BY <1>1, QuietNames, StepTurns, EndTurns
<1> QED
    BY <1>1, <1>2, EasesSame, GoesOn

LEMMA ExecutePrices ==
    ASSUME Shape, Priced, NEW i \in Flows, ExecuteProof(i)
    PROVE  Priced'
<1>1. flow[i].trade = Listing /\ Listing \in TradeIds
    BY HandlerIs, ListingIs DEF ExecuteProof, At, Fits
<1>2. /\ paid' = paid
      /\ \/ End(i) /\ mem' = mem /\ fiat' = fiat
         \/ /\ mem' = CompletePeerTrade(mem, Listing).mem /\ fiat' = fiat \cup {Listing}
            /\ Go(i, "chain") \/ End(i)
    BY DEF ExecuteProof
<1>3. CASE End(i) /\ mem' = mem /\ fiat' = fiat
    BY <1>2, <1>3, EndTurns, EasesSame, GoesOn
<1>4. CASE /\ mem' = CompletePeerTrade(mem, Listing).mem /\ fiat' = fiat \cup {Listing}
           /\ Go(i, "chain") \/ End(i)
  <2>1. Goes(mem, mem', Listing)
    BY <1>1, <1>4, CompleteGoes DEF Shape, Store
  <2>2. RowsPriced' /\ UsdcPriced'
    BY <1>2, <1>4, <2>1, RowsGone, UsdcSame
  <2>3. "chain" \in StepNames
    BY QuietNames DEF Paying
  <2>4. \E x : Turns(i, x) /\ (x.step \in Paying => x.trade = Listing)
    BY <1>1, <1>4, <2>3, StepTurns, EndTurns
  <2> QED
    BY <1>4, <2>2, <2>4, PricedMoves
<1> QED
    BY <1>2, <1>3, <1>4

(* What is not done by a handler.                                          *)
LEMMA OutsidePrices ==
    ASSUME Shape, Priced
    PROVE  /\ \A s \in Flows : HookRejects(s) => Priced'
           /\ \A t \in TradeIds : Interfere(t) => Priced'
           /\ \A i \in EscrowIds : ReclaimExpired(i) => Priced'
           /\ CheckChain /\ "mistaken" \notin past' => Priced'
           /\ UNCHANGED vars => Priced'
<1>1. ASSUME flow' = flow, fiat' = fiat, paid' = paid, Eases(mem, mem')
      PROVE  Priced'
    BY <1>1, PricedRests, RowsEased, UsdcSame
<1>2. ASSUME NEW s \in Flows, HookRejects(s)
      PROVE  Priced'
    BY <1>1, <1>2, EasesSame DEF HookRejects
<1>3. ASSUME NEW t \in TradeIds, Interfere(t)
      PROVE  Priced'
    BY <1>1, <1>3, InterfereIs, InterfereEases
<1>4. ASSUME NEW i \in EscrowIds, ReclaimExpired(i)
      PROVE  Priced'
    BY <1>1, <1>4, ReclaimExpiredIs, EasesSame
<1>5. ASSUME CheckChain, "mistaken" \notin past'
      PROVE  Priced'
  <2>1. /\ mem' = CompletePeerTrade(mem, Listing).mem /\ fiat' = fiat /\ paid' = paid
        /\ flow' = flow /\ Listing \in fiat
    BY <1>5 DEF CheckChain, Fault, Happened
  <2>2. Goes(mem, mem', Listing)
    BY <2>1, ListingIs, CompleteGoes DEF Shape, Store
  <2> QED
    BY <2>1, <2>2, PricedRests, RowsGone, UsdcSame
<1>6. ASSUME UNCHANGED vars
      PROVE  Priced'
  <2>1. flow' = flow /\ fiat' = fiat /\ paid' = paid /\ mem' = mem
    BY <1>6 DEF vars
  <2> QED
    BY <1>1, <2>1, EasesSame
<1> QED
    BY <1>2, <1>3, <1>4, <1>5, <1>6

(* Nothing that happened is forgotten.                                     *)
LEMMA PastGrows ==
    ASSUME [Next]_vars
    PROVE  past \subseteq past'
<1>1. ASSUME NEW i \in Flows, Begin(i)
      PROVE  past \subseteq past'
    BY <1>1 DEF Begin, PlaceOrder, ClickPaid, ClickFinalize, ClickRelease, ClickProve,
       HookAccepts
<1>2. ASSUME NEW i \in Flows, Continue(i)
      PROVE  past \subseteq past'
  <2>1. CASE SimulateLock(i) \/ LockMined(i) \/ TakeOrder(i) \/ OpenCheckout(i)
    BY <2>1 DEF SimulateLock, LockMined, TakeOrder, OpenCheckout
  <2>2. CASE VerifyPaid(i) \/ AskStore(i) \/ CallContract(i) \/ Settle(i)
    BY <2>2 DEF VerifyPaid, AskStore, CallContract, Settle, Fault, Happened
  <2>3. CASE OracleLocks(i) \/ OracleSubmits(i) \/ OracleMined(i) \/ Transfer(i) \/ Answer(i)
    BY <2>3 DEF OracleLocks, OracleSubmits, OracleMined, Transfer, Answer, Fault, Happened
  <2>4. CASE CreateSession(i) \/ ExecuteProof(i)
    BY <2>4 DEF CreateSession, ExecuteProof, Fault, Happened
  <2> QED
    BY <1>2, <2>1, <2>2, <2>3, <2>4 DEF Continue
<1>3. ASSUME NEW i \in Flows, ClosePage(i) \/ HookRejects(i)
      PROVE  past \subseteq past'
    BY <1>3 DEF ClosePage, HookRejects
<1>4. ASSUME NEW t \in TradeIds, Interfere(t)
      PROVE  past \subseteq past'
    BY <1>4 DEF Interfere
<1>5. ASSUME NEW i \in EscrowIds, ResolveDispute(i) \/ ReclaimExpired(i)
      PROVE  past \subseteq past'
    BY <1>5 DEF ResolveDispute, ReclaimExpired
<1>6. ASSUME NEW i \in EscrowIds, NEW u \in Buyers \cup {Seller}, CallDirectly(u, i)
      PROVE  past \subseteq past' /\ "direct" \in past'
    BY <1>6 DEF CallDirectly
<1>7. CASE CheckChain
    BY <1>7 DEF CheckChain, Fault, Happened
<1>8. CASE UNCHANGED vars
    BY <1>8 DEF vars
<1> QED
    BY <1>1, <1>2, <1>3, <1>4, <1>5, <1>6, <1>7, <1>8 DEF Next

LEMMA FiatKept ==
    ASSUME Shape, Priced, [Next]_vars, past' \cap {"direct", "mistaken"} = {}
    PROVE  Priced'
<1>0. past \subseteq past' /\ "direct" \notin past' /\ "direct" \notin past
      /\ "mistaken" \notin past'
    BY PastGrows
<1>1. ASSUME NEW i \in Flows, Begin(i)
      PROVE  Priced'
    BY <1>1, BeginPrices
<1>2. ASSUME NEW i \in Flows, Continue(i)
      PROVE  Priced'
    BY <1>2, OrderPrices, TakePrices, CheckoutPrices, VerifyPrices, AskPrices, CallPrices,
       SettlePrices, LocksPrices, SubmitPrices, MinedPrices, TransferPrices, AnswerPrices,
       SessionPrices, ExecutePrices DEF Continue
<1>3. ASSUME NEW i \in Flows, ClosePage(i)
      PROVE  Priced'
    BY <1>3, OrderPrices
<1>4. ASSUME NEW i \in EscrowIds, NEW u \in Buyers \cup {Seller}, CallDirectly(u, i)
      PROVE  Priced'
    BY <1>0, <1>4 DEF CallDirectly
<1>5. ASSUME NEW i \in EscrowIds, ResolveDispute(i)
      PROVE  Priced'
    BY <1>0, <1>5, ResolveDisputeShape
<1> QED
    BY <1>0, <1>1, <1>2, <1>3, <1>4, <1>5, OutsidePrices DEF Next

LEMMA FirstRows ==
    ASSUME Init
    PROVE  /\ \A t \in TradeIds : ~Confirmed(mem.trades[t]) /\ ~Complete(mem.trades[t])
           /\ Sold(mem) = {}
<1>1. \A t \in TradeIds : mem.trades[t] # Null =>
        mem.trades[t].buyer = Null /\ mem.trades[t].life = "OPEN"
        /\ mem.trades[t].pay = "UNPAID"
    BY InitStore DEF Init
<1> QED
    BY <1>1 DEF Confirmed, Complete, Finalizable, Sold

LEMMA FirstFlows ==
    ASSUME Init, NEW i \in Flows
    PROVE  /\ flow[i].step = "none" /\ ~flow[i].hash
<1>1. PICK f \in Handler : f = NoFlow /\ f.step = "none" /\ f.hash = FALSE
    BY NoFlowIs
<1>2. flow[i] = f
    BY <1>1 DEF Init
<1> QED
    BY <1>1, <1>2

LEMMA FirstPaid ==
    ASSUME Init
    PROVE  (\A x \in TradeIds \X Buyers : paid[x] = 0) /\ UsdcPriced
<1>1. \A x \in TradeIds \X Buyers : paid[x] = 0
    BY DEF Init
<1>2. ASSUME NEW t \in TradeIds, NEW b \in Buyers, paid[t, b] > 0
      PROVE  t \in fiat
  <2>1. PICK x \in TradeIds \X Buyers : x = <<t, b>>
    OBVIOUS
  <2>2. paid[x] > 0
    BY <1>2, <2>1
  <2>3. paid[x] = 0
    BY <1>1
  <2> QED
    BY <2>2, <2>3
<1> QED
    BY <1>1, <1>2 DEF UsdcPriced

(* USDC reaches a buyer only of a trade whose price was paid, whatever     *)
(* refused or failed on the way, unless the contract is called from        *)
(* outside or the dashboard completes a listing it takes for sold.         *)
THEOREM PriceBeforeRelease == Spec => []FiatBeforeUsdc
<1>1. Init => FiatInv
  <2> SUFFICES ASSUME Init PROVE Priced
    BY DEF FiatInv
  <2>1. RowsPriced
    BY FirstRows DEF RowsPriced
  <2>2. \A i \in Flows : Paid(flow[i])
    BY FirstFlows, QuietNames DEF Paid
  <2>3. UsdcPriced
    BY FirstPaid
  <2> QED
    BY <2>1, <2>2, <2>3 DEF Priced
<1>2. Shape /\ FiatInv /\ [Next]_vars => FiatInv'
  <2> SUFFICES ASSUME Shape, FiatInv, [Next]_vars, past' \cap {"direct", "mistaken"} = {}
               PROVE  Priced'
    BY DEF FiatInv
  <2>1. past \cap {"direct", "mistaken"} = {}
    BY PastGrows
  <2> QED
    BY <2>1, FiatKept DEF FiatInv
<1>3. FiatInv => FiatBeforeUsdc
    BY DEF FiatInv, FiatBeforeUsdc, Priced, UsdcPriced
<1> QED
    BY <1>1, <1>2, <1>3, ShapeKept, PTL DEF Spec
-----------------------------------------------------------------------------
(* One payment.                                                            *)
LEMMA OracleNames ==
    /\ OracleSteps \subseteq StepNames
    /\ {"none", "lock", "locking", "take", "checkout", "verify", "session", "execute",
        "initiate", "confirm", "chain", "request", "settle"} \cap OracleSteps = {}
    /\ {"initiate", "confirm", "chain", "request", "settle"} \subseteq StepNames
    BY DEF OracleSteps, StepNames, PageSteps

LEMMA OverlapIs ==
    ASSUME NEW i, "overlap" \notin Overlap(i)
    PROVE  Alone(i)
    BY DEF Overlap, Alone, Settles

Steady ==
    /\ OnChain.status = "Created" => OnChain'.status = "Created"
    /\ InEscrow(OnChain.status) => InEscrow(OnChain'.status)

LEMMA OnceMoves ==
    ASSUME Shape, Once, NEW i \in Flows, NEW x, Turns(i, x), Payable', Unpaid', Clear(x)',
           x.step \in OracleSteps => Alone(i), Alone(i) \/ Steady
    PROVE  Once'
<1>1. \A j \in Flows : flow'[j] = IF j = i THEN x ELSE flow[j]
    BY DEF Shape, Flowing, Turns
<1>2. ASSUME NEW j \in Flows
      PROVE  Clear(flow[j])'
  <2>1. CASE j = i
    BY <1>1, <2>1 DEF Clear
  <2>2. CASE j # i /\ Alone(i)
    BY <1>1, <2>2 DEF Alone, Settles, Clear, OracleSteps
  <2>3. CASE j # i /\ Steady
    BY <1>1, <2>3 DEF Once, Clear, Steady
  <2> QED
    BY <2>1, <2>2, <2>3
<1>3. ASSUME NEW j \in Flows, Settles(j)'
      PROVE  Alone(j)'
  <2>1. CASE j = i
    BY <1>1, <1>3, <2>1 DEF Alone, Settles
  <2>2. CASE j # i
    <3>1. Settles(j) /\ Alone(j)
        BY <1>1, <1>3, <2>2 DEF Once, Settles
    <3>2. x.step \notin OracleSteps
        BY <2>2, <3>1 DEF Alone
    <3> QED
        BY <1>1, <3>1, <3>2 DEF Alone, Settles
  <2> QED
    BY <2>1, <2>2
<1> QED
    BY <1>2, <1>3 DEF Once

LEMMA OnceGoes ==
    ASSUME Shape, Once, NEW i \in Flows, NEW x, Turns(i, x), x.step \notin OracleSteps,
           chain' = chain, paid' = paid
    PROVE  Once'
<1>1. Payable' /\ Unpaid' /\ Steady
    BY DEF Once, Payable, Unpaid, Steady, OnChain
<1>2. Clear(x)'
    BY DEF Clear, OracleSteps
<1> QED
    BY <1>1, <1>2, OnceMoves

LEMMA OnceRests ==
    ASSUME Once, flow' = flow, chain' = chain, paid' = paid
    PROVE  Once'
    BY DEF Once, Payable, Unpaid, Clear, Settles, Alone, OnChain

(* The listing's record is funded, and released, once.                     *)
LEMMA FundsOnce ==
    ASSUME Shape, Payable, NEW who \in Address \ {NoOne}, CanFund(chain, who, ChainId),
           chain' = Fund(chain, Now, who, ChainId, 0), past \subseteq past'
    PROVE  Payable' /\ InEscrow(OnChain'.status) /\ OnChain.status = "Created"
<1>1. /\ OnChain'.status = "Funded" /\ OnChain'.buyer = who
      /\ OnChain.status = "Created"
    BY FundsContract DEF OnChain
<1>2. PICK c : c = chain
    OBVIOUS
<1>3. c = Offer /\ c \in Chain /\ c.balance = Deposit /\ c.used = {}
      /\ c.trades[1].amount = Deposit
    BY <1>1, <1>2, OfferIs DEF Payable
<1>4. PICK n : n = chain'
    OBVIOUS
<1>5. n = Fund(c, 0, who, 1, 0)
    BY <1>2, <1>4 DEF Now, ChainId
<1>6. 1 \in EscrowIds /\ 1 < c.next
    BY <1>2, ListedAssumption DEF Shape, Contract, ChainId
<1>7. n.trades[1].amount = Deposit /\ n.balance = Deposit /\ n.used = {}
    BY <1>2, <1>3, <1>5, <1>6, FundFields DEF ChainId
<1> QED
    BY <1>1, <1>4, <1>7 DEF Payable, InEscrow, OnChain, ChainId

LEMMA CanFundOnce ==
    ASSUME Payable, OnChain.status = "Created"
    PROVE  CanFund(chain, Oracle, ChainId)
<1>1. PICK n : n = chain /\ n = Offer
    BY DEF Payable
<1>2. /\ n.trades[1].status = "Created" /\ n.trades[1].seller = Seller
      /\ n.trades[1].amount = Deposit /\ n.inv[1].avail = Deposit /\ n.inv[1].slot = 0
    BY <1>1, OfferIs
<1>3. Seller # Oracle /\ Deposit \in Nat
    BY AddressAssumption, DepositAssumption
<1> QED
    BY <1>1, <1>2, <1>3 DEF CanFund, InState, ChainId

LEMMA CanReleaseOnce ==
    ASSUME Shape, Payable, InEscrow(OnChain.status), NEW proof
    PROVE  CanOracleRelease(chain, ChainId, proof)
<1>1. PICK c \in Chain : c = chain
    BY DEF Shape, Contract
<1>2. /\ c.trades[1].status \in {"Funded", "FiatSent"}
      /\ c.trades[1].buyer # NoOne /\ c.trades[1].amount = Deposit
      /\ c.balance = Deposit /\ c.used = {}
    BY <1>1 DEF Payable, InEscrow, OnChain, ChainId
<1>3. c.trades[1].collateral = 0 /\ Deposit \in Nat
    BY <1>1, ListedAssumption, ChainParts, DepositAssumption
<1> QED
    BY <1>1, <1>2, <1>3 DEF CanOracleRelease, CanComplete, CanTransfer, ChainId

LEMMA MarksOnce ==
    ASSUME Shape, Payable, NEW i \in Flows, Marks(i)
    PROVE  Payable' /\ Steady /\ OnChain.status = "Funded"
<1>1. flow[i].who # NoOne
    BY HandlerIs DEF Fits, Marks
<1>2. PICK c : c = chain
    OBVIOUS
<1>3. PICK n : n = chain'
    OBVIOUS
<1>4. PICK who : who = flow[i].who
    OBVIOUS
<1>5. Contract(c, past) /\ who # NoOne /\ CanMarkSent(c, who, ChainId)
      /\ n = MarkSent(c, Now, ChainId)
    BY <1>1, <1>2, <1>3, <1>4 DEF Marks, Shape
<1>6. /\ c.trades[ChainId].status = "Funded" /\ n.trades[ChainId].status = "FiatSent"
      /\ n.trades[ChainId].buyer = c.trades[ChainId].buyer
      /\ n.trades[ChainId].amount = c.trades[ChainId].amount
      /\ n.balance = c.balance /\ n.used = c.used
    BY <1>5, MarksContract
<1> QED
    BY <1>2, <1>3, <1>6 DEF Payable, Steady, InEscrow, OnChain

LEMMA PaysOnce ==
    ASSUME Shape, Once, Finishes(chain, chain', ChainId), OnChain.status # "Completed",
           NEW t, NEW to, Received(t, to)
    PROVE  Payable' /\ Unpaid' /\ OnChain'.status = "Completed"
<1>1. OnChain'.status = "Completed"
    BY DEF Finishes, OnChain
<1>2. Payable'
    BY <1>1 DEF Payable, InEscrow, OnChain
<1>3. ASSUME NEW x \in TradeIds \X Buyers
      PROVE  paid'[x] <= 1
  <2>1. paid[x] = 0
    BY DEF Once, Unpaid
  <2>2. paid'[x] = paid[x] \/ paid'[x] = Upto(paid[x] + 1, 2)
    BY ReceivedTyped DEF Shape, Tallies
  <2>3. paid'[x] = 0 \/ paid'[x] = 1
    BY <2>1, <2>2 DEF Upto
  <2> QED
    BY <2>3
<1> QED
    BY <1>1, <1>2, <1>3 DEF Unpaid, OnChain

LEMMA TurnsQuietly ==
    ASSUME Shape, NEW i \in Flows, NEW step \in StepNames \ OracleSteps,
           Go(i, step) \/ End(i)
    PROVE  \E x : Turns(i, x) /\ x.step \notin OracleSteps
<1>1. CASE Go(i, step)
  <2>1. PICK x : Turns(i, x) /\ x.step = step
    BY <1>1, StepTurns
  <2> QED
    BY <2>1
<1>2. CASE End(i)
  <2>1. Turns(i, Done) /\ Done.step = "none"
    BY <1>2, EndTurns, DoneIs
  <2> QED
    BY <2>1, OracleNames
<1> QED
    BY <1>1, <1>2

(* Most handlers neither settle nor call the contract.                     *)
LEMMA QuietOnce ==
    ASSUME Shape, Once, NEW i \in Flows,
           \/ \E b \in Buyers, want \in Requests : PlaceOrder(i, b, want)
           \/ \E t \in TradeIds : ClickPaid(i, t) \/ ClickFinalize(i, t)
           \/ \E t \in TradeIds, u \in Buyers \cup {Seller} : ClickRelease(i, u, t)
           \/ \E u \in Buyers \cup {Seller} : ClickProve(i, u)
           \/ SimulateLock(i) \/ TakeOrder(i) \/ ClosePage(i) \/ OpenCheckout(i)
           \/ VerifyPaid(i) \/ AskStore(i) \/ CreateSession(i) \/ ExecuteProof(i)
           \/ Answer(i)
    PROVE  Once'
<1>1. chain' = chain /\ paid' = paid
    BY DEF PlaceOrder, ClickPaid, ClickFinalize, ClickRelease, ClickProve, SimulateLock,
       TakeOrder, ClosePage, OpenCheckout, VerifyPaid, AskStore, CreateSession,
       ExecuteProof, Answer
<1>2. ASSUME NEW kind, NEW step \in StepNames \ OracleSteps, NEW who, NEW t, NEW arg,
             Start(i, kind, step, who, t, arg)
      PROVE  Once'
  <2>1. PICK x : Turns(i, x) /\ x.step = step
    BY <1>2, StartsAt
  <2> QED
    BY <1>1, <1>2, <2>1, OnceGoes
<1>3. CASE \E b \in Buyers, want \in Requests : PlaceOrder(i, b, want)
  <2>1. PICK b \in Buyers, step \in {"lock", "take"}, want \in Requests :
        Start(i, "order", step, b, Listing, want)
    BY <1>3 DEF PlaceOrder
  <2>2. step \in StepNames \ OracleSteps
    BY OracleNames, QuietNames
  <2> QED
    BY <1>2, <2>1, <2>2
<1>4. CASE \E t \in TradeIds : ClickPaid(i, t)
  <2>1. PICK who, t, arg : Start(i, "settlement", "checkout", who, t, arg)
    BY <1>4 DEF ClickPaid
  <2>2. "checkout" \in StepNames \ OracleSteps
    BY OracleNames, QuietNames
  <2> QED
    BY <1>2, <2>1, <2>2
<1>5. CASE \E t \in TradeIds : ClickFinalize(i, t)
  <2>1. PICK who, t : Start(i, "settlement", "initiate", who, t, Null)
    BY <1>5 DEF ClickFinalize
  <2>2. "initiate" \in StepNames \ OracleSteps
    BY OracleNames
  <2> QED
    BY <1>2, <2>1, <2>2
<1>6. CASE \E t \in TradeIds, u \in Buyers \cup {Seller} : ClickRelease(i, u, t)
  <2>1. PICK t \in TradeIds, u \in Buyers \cup {Seller} : ClickRelease(i, u, t)
    BY <1>6
  <2>2. PICK step \in {"chain", "settle"} : Start(i, "release", step, u, t, Null)
    BY <2>1 DEF ClickRelease
  <2>3. step \in StepNames \ OracleSteps
    BY OracleNames
  <2> QED
    BY <1>2, <2>2, <2>3
<1>7. CASE \E u \in Buyers \cup {Seller} : ClickProve(i, u)
  <2>1. PICK u : Start(i, "proof", "session", u, Listing, Null)
    BY <1>7 DEF ClickProve
  <2>2. "session" \in StepNames \ OracleSteps
    BY OracleNames, QuietNames
  <2> QED
    BY <1>2, <2>1, <2>2
<1>8. CASE SimulateLock(i) \/ TakeOrder(i) \/ ClosePage(i) \/ VerifyPaid(i)
           \/ CreateSession(i) \/ ExecuteProof(i) \/ Answer(i)
  <2>1. \/ Go(i, "locking") \/ Go(i, "take") \/ Go(i, "initiate") \/ Go(i, "execute")
        \/ Go(i, "chain") \/ End(i)
    BY <1>8 DEF SimulateLock, TakeOrder, ClosePage, VerifyPaid, GoIf, CreateSession,
       ExecuteProof, Answer
  <2>2. {"locking", "take", "initiate", "execute", "chain"} \subseteq StepNames \ OracleSteps
    BY OracleNames, QuietNames
  <2> QED
    BY <1>1, <2>1, <2>2, TurnsQuietly, OnceGoes
<1>9. CASE OpenCheckout(i)
  <2>1. PICK x : Turns(i, x) /\ x.step \in {"none", "verify"}
    BY <1>9, OpenCheckoutIs
  <2> QED
    BY <1>1, <2>1, OracleNames, OnceGoes
<1>10. CASE AskStore(i)
  <2>1. PICK f : f = flow[i]
    OBVIOUS
  <2>2. PICK step : step = StepAfter(f.step, f.trade)
    OBVIOUS
  <2>3. Go(i, step) /\ f.step \in {"initiate", "confirm", "request"}
    BY <1>10, <2>1, <2>2 DEF AskStore
  <2>4. step \in {"confirm", "chain", "request", "settle"}
    BY <2>2, <2>3 DEF StepAfter
  <2>5. step \in StepNames \ OracleSteps
    BY <2>4, OracleNames
  <2> QED
    BY <1>1, <2>3, <2>5, TurnsQuietly, OnceGoes
<1> QED
    BY <1>3, <1>4, <1>5, <1>6, <1>7, <1>8, <1>9, <1>10

LEMMA HookOnce ==
    ASSUME Shape, Once, NEW i \in Flows, NEW s \in Flows, HookAccepts(i, s),
           "overlap" \notin past'
    PROVE  Once'
<1>1. PICK x : Turns(i, x) /\ x.step = "submit" /\ x.kind = "webhook"
    BY StartsAt DEF HookAccepts
<1>2. Alone(i) /\ chain' = chain /\ paid' = paid
    BY OverlapIs DEF HookAccepts
<1>3. Payable' /\ Unpaid'
    BY <1>2 DEF Once, Payable, Unpaid, OnChain
<1>4. Clear(x)'
    BY <1>1 DEF Clear
<1> QED
    BY <1>1, <1>2, <1>3, <1>4, OnceMoves

LEMMA LockOnce ==
    ASSUME Shape, Once, NEW i \in Flows, LockMined(i), "overlap" \notin past'
    PROVE  Once'
<1>1. PICK who : who = flow[i].who
    OBVIOUS
<1>2. flow[i].step = "locking" /\ who \in Buyers
    BY <1>1, HandlerIs DEF LockMined, At, Fits
<1>3. PICK x : Turns(i, x) /\ x.step \notin OracleSteps
  <2>1. "take" \in StepNames \ OracleSteps
    BY OracleNames, QuietNames
  <2>2. Go(i, "take") \/ End(i)
    BY DEF LockMined
  <2> QED
    BY <2>1, <2>2, TurnsQuietly
<1>4. CASE ~CanFund(chain, who, ChainId)
    BY <1>1, <1>3, <1>4, OnceGoes DEF LockMined
<1>5. CASE CanFund(chain, who, ChainId)
  <2>1. /\ chain' = Fund(chain, Now, who, ChainId, 0) /\ paid' = paid
        /\ past' = past \cup Overlap(i)
                     \cup IF Contended(who) THEN {"contended"} ELSE {}
    BY <1>1, <1>5 DEF LockMined
  <2>2. Alone(i) /\ past \subseteq past'
    BY <2>1, OverlapIs
  <2>3. who \in Address \ {NoOne}
    BY <1>2, AddressAssumption DEF Address
  <2>4. Payable' /\ OnChain.status = "Created"
    BY <1>5, <2>1, <2>2, <2>3, FundsOnce DEF Once
  <2>5. Unpaid'
    BY <2>1, <2>4 DEF Once, Unpaid
  <2>6. Clear(x)'
    BY <1>3 DEF Clear, OracleSteps
  <2> QED
    BY <1>3, <2>2, <2>4, <2>5, <2>6, OnceMoves
<1> QED
    BY <1>4, <1>5

LEMMA CallOnce ==
    ASSUME Shape, Once, NEW i \in Flows, CallContract(i), "overlap" \notin past',
           "lost" \notin past'
    PROVE  Once'
<1>1. PICK t \in TradeIds : t = flow[i].trade
    BY HandlerIs
<1>2. PICK step : step = NextStep(flow[i])
    OBVIOUS
<1>3. step \in {"request", "settle"}
    BY <1>2 DEF NextStep
<1>4. step \in StepNames \ OracleSteps
    BY <1>3, OracleNames
<1>5. /\ flow[i].step = "chain"
      /\ \/ Go(i, step) /\ chain' = chain /\ paid' = paid
         \/ Marks(i)
         \/ Releases(i)
    BY <1>2, CallContractIs
<1>6. CASE Go(i, step) /\ chain' = chain /\ paid' = paid
    BY <1>4, <1>6, TurnsQuietly, OnceGoes
<1>7. CASE Marks(i)
  <2>1. Go(i, step) /\ paid' = paid
    BY <1>2, <1>7 DEF Marks
  <2>2. PICK x : Turns(i, x) /\ x.step \notin OracleSteps
    BY <1>4, <2>1, TurnsQuietly
  <2>3. Payable' /\ Steady /\ OnChain.status = "Funded"
    BY <1>7, MarksOnce DEF Once
  <2>4. Unpaid'
    BY <2>1, <2>3 DEF Once, Unpaid
  <2>5. Clear(x)'
    BY <2>2 DEF Clear, OracleSteps
  <2> QED
    BY <2>2, <2>3, <2>4, <2>5, OnceMoves
<1>8. CASE Releases(i)
  <2>1. /\ CanRelease(chain, flow[i].who, ChainId)
        /\ chain' = CompleteTrade(chain, ChainId)
        /\ Received(t, OnChain.buyer)
        /\ flow' = [flow EXCEPT ![i].step = step, ![i].hash = TRUE]
        /\ past' = past \cup Overlap(i)
    BY <1>1, <1>2, <1>8 DEF Releases
  <2>2. Finishes(chain, chain', ChainId)
    BY <2>1, CompletesContract DEF Shape
  <2>3. OnChain.status # "Completed"
    BY <2>1 DEF CanRelease, InState, OnChain
  <2>4. Payable' /\ Unpaid'
    BY <2>1, <2>2, <2>3, PaysOnce
  <2>5. Unhooked(i) /\ step \in Plain
    BY <1>3, <1>5, HandlerIs, Names DEF Paying
  <2>6. PICK x : Turns(i, x) /\ x.step = step
    BY <2>1, <2>5, HashTurns
  <2>7. Alone(i)
    BY <2>1, OverlapIs
  <2>8. Clear(x)'
    BY <1>4, <2>6 DEF Clear, OracleSteps
  <2> QED
    BY <1>4, <2>4, <2>6, <2>7, <2>8, OnceMoves
<1> QED
    BY <1>5, <1>6, <1>7, <1>8

LEMMA SettleOnce ==
    ASSUME Shape, Once, NEW i \in Flows, Settle(i), "overlap" \notin past',
           "unread" \notin past'
    PROVE  Once'
<1>1. chain' = chain /\ paid' = paid
    BY SettleIs
<1>2. CASE End(i)
    BY <1>1, <1>2, OracleNames, EndTurns, DoneIs, OnceGoes
<1>3. ASSUME NEW x, Asked(i, x), x.step = SettleStep(OnChain.status),
             past' = past \cup Overlap(i)
      PROVE  Once'
  <2>1. PICK status : status = OnChain.status
    OBVIOUS
  <2>2. status \in {"Created", "Funded", "FiatSent", "Completed"}
    BY <2>1 DEF Once, Payable
  <2>3. /\ x.step = "selflock" => status = "Created"
        /\ x.step = "submit" => status \in {"Funded", "FiatSent"}
        /\ x.step \in {"answer", "submit", "selflock"}
    BY <1>3, <2>1, <2>2 DEF SettleStep
  <2>4. Alone(i)
    BY <1>3, OverlapIs
  <2>5. OnChain' = OnChain
    BY <1>1 DEF OnChain
  <2>6. Clear(x)'
    BY <2>1, <2>3, <2>5 DEF Clear, InEscrow
  <2>7. Payable' /\ Unpaid'
    BY <1>1 DEF Once, Payable, Unpaid, OnChain
  <2> QED
    BY <1>3, <2>4, <2>6, <2>7, OnceMoves DEF Asked
<1> QED
    BY <1>2, <1>3, SettleIs

LEMMA LocksOnce ==
    ASSUME Shape, Once, NEW i \in Flows, OracleLocks(i)
    PROVE  Once'
<1>1. flow[i].step = "selflock" /\ paid' = paid
    BY DEF OracleLocks, At
<1>2. OnChain.status = "Created" /\ Alone(i)
    BY <1>1 DEF Once, Clear, Settles, OracleSteps
<1>3. CanFund(chain, Oracle, ChainId)
    BY <1>2, CanFundOnce DEF Once
<1>4. chain' = Fund(chain, Now, Oracle, ChainId, 0) /\ Go(i, "submit") /\ past \subseteq past'
    BY <1>3 DEF OracleLocks, Happened
<1>5. Oracle \in Address \ {NoOne}
    BY AddressAssumption DEF Address
<1>6. Payable' /\ InEscrow(OnChain'.status)
    BY <1>3, <1>4, <1>5, FundsOnce DEF Once
<1>7. Unpaid'
    BY <1>1, <1>2 DEF Once, Unpaid
<1>8. "submit" \in StepNames
    BY OracleNames DEF OracleSteps
<1>9. PICK x : Turns(i, x) /\ x.step = "submit"
    BY <1>4, <1>8, StepTurns
<1>10. Clear(x)'
    BY <1>6, <1>9 DEF Clear
<1> QED
    BY <1>2, <1>6, <1>7, <1>9, <1>10, OnceMoves

LEMMA SubmitOnce ==
    ASSUME Shape, Once, NEW i \in Flows, OracleSubmits(i)
    PROVE  Once'
<1>1. flow[i].step = "submit" /\ paid' = paid /\ chain' = chain
    BY DEF OracleSubmits, At
<1>2. Alone(i) /\ (flow[i].kind # "webhook" => InEscrow(OnChain.status))
    BY <1>1 DEF Once, Clear, Settles, OracleSteps
<1>3. Payable' /\ Unpaid' /\ OnChain' = OnChain
    BY <1>1 DEF Once, Payable, Unpaid, OnChain
<1>4. CASE CanOracleRelease(chain, ChainId, ProofOf(i))
  <2>1. "mine" \in StepNames
    BY OracleNames DEF OracleSteps
  <2>2. Go(i, "mine")
    BY <1>4 DEF OracleSubmits
  <2>3. PICK x : Turns(i, x) /\ x.step = "mine" /\ x.kind = flow[i].kind
    BY <2>1, <2>2, StepTurns
  <2>4. Clear(x)'
    BY <1>2, <1>3, <2>3 DEF Clear
  <2> QED
    BY <1>2, <1>3, <2>3, <2>4, OnceMoves
<1>5. CASE ~CanOracleRelease(chain, ChainId, ProofOf(i))
  <2>1. ReleaseFails(i)
    BY <1>5 DEF OracleSubmits
  <2>2. flow[i].kind = "webhook"
    BY <1>2, <1>5, CanReleaseOnce DEF Once
  <2>3. End(i)
    BY <1>1, <2>1, <2>2, FailsIs
  <2> QED
    BY <1>1, <2>3, OracleNames, EndTurns, DoneIs, OnceGoes
<1> QED
    BY <1>4, <1>5

LEMMA MinedOnce ==
    ASSUME Shape, Once, NEW i \in Flows, OracleMined(i), "lost" \notin past'
    PROVE  Once'
<1>1. flow[i].step = "mine" /\ flow[i].trade \in TradeIds
    BY OracleMinedIs
<1>2. Alone(i) /\ (flow[i].kind # "webhook" => InEscrow(OnChain.status))
    BY <1>1 DEF Once, Clear, Settles, OracleSteps
<1>3. CASE CanOracleRelease(chain, ChainId, ProofOf(i))
  <2>1. /\ Finishes(chain, chain', ChainId) /\ Go(i, "answer")
        /\ Received(flow[i].trade, OnChain.buyer)
    BY <1>3, OracleMinedIs
  <2>2. OnChain.status # "Completed"
    BY <1>3 DEF CanOracleRelease, OnChain
  <2>3. PICK t, to : Received(t, to)
    BY <2>1
  <2>4. Payable' /\ Unpaid'
    BY <2>1, <2>2, <2>3, PaysOnce
  <2>5. "answer" \in StepNames
    BY OracleNames DEF OracleSteps
  <2>6. PICK x : Turns(i, x) /\ x.step = "answer"
    BY <2>1, <2>5, StepTurns
  <2>7. Clear(x)'
    BY <2>6 DEF Clear
  <2> QED
    BY <1>2, <2>4, <2>6, <2>7, OnceMoves
<1>4. CASE ~CanOracleRelease(chain, ChainId, ProofOf(i))
  <2>1. ReleaseFails(i) /\ chain' = chain /\ paid' = paid
    BY <1>4, OracleMinedIs
  <2>2. flow[i].kind = "webhook"
    BY <1>2, <1>4, CanReleaseOnce DEF Once
  <2>3. End(i)
    BY <1>1, <2>1, <2>2, FailsIs
  <2> QED
    BY <2>1, <2>3, OracleNames, EndTurns, DoneIs, OnceGoes
<1> QED
    BY <1>3, <1>4

LEMMA OnceKept ==
    ASSUME Shape, Once, [Next]_vars,
           past' \cap {"lost", "unread", "overlap", "direct", "reclaimed"} = {}
    PROVE  Once'
<1>0. /\ past \subseteq past' /\ "direct" \notin past' /\ "direct" \notin past
      /\ "lost" \notin past' /\ "unread" \notin past' /\ "overlap" \notin past'
      /\ "reclaimed" \notin past'
    BY PastGrows
<1>1. ASSUME NEW i \in Flows, Begin(i)
      PROVE  Once'
    BY <1>0, <1>1, QuietOnce, HookOnce DEF Begin
<1>2. ASSUME NEW i \in Flows, Transfer(i)
      PROVE  Once'
    BY <1>2 DEF Once, Clear, Transfer, At
<1>3. ASSUME NEW i \in Flows, Continue(i)
      PROVE  Once'
    BY <1>0, <1>2, <1>3, QuietOnce, LockOnce, CallOnce, SettleOnce, LocksOnce, SubmitOnce,
       MinedOnce DEF Continue
<1>4. ASSUME NEW i \in Flows, ClosePage(i)
      PROVE  Once'
    BY <1>4, QuietOnce
<1>5. ASSUME NEW i \in Flows, HookRejects(i)
      PROVE  Once'
    BY <1>5, OnceRests DEF HookRejects
<1>6. ASSUME NEW t \in TradeIds, Interfere(t)
      PROVE  Once'
    BY <1>6, InterfereIs, OnceRests
<1>7. ASSUME NEW i \in EscrowIds, NEW u \in Buyers \cup {Seller}, CallDirectly(u, i)
      PROVE  Once'
    BY <1>0, <1>7 DEF CallDirectly
<1>8. ASSUME NEW i \in EscrowIds, ResolveDispute(i) \/ ReclaimExpired(i)
      PROVE  Once'
    BY <1>0, <1>8, ResolveDisputeShape, ReclaimExpiredIs
<1>9. CASE CheckChain
    BY <1>9, OnceRests DEF CheckChain
<1>10. CASE UNCHANGED vars
    BY <1>10, OnceRests DEF vars
<1> QED
    BY <1>1, <1>3, <1>4, <1>5, <1>6, <1>7, <1>8, <1>9, <1>10 DEF Next

(* A buyer receives the USDC of a trade once, though page, dashboard,      *)
(* oracle and webhook may all release it, unless an answer is lost, the    *)
(* chain is not read, two of them settle at once, or the contract is       *)
(* called from outside.                                                    *)
THEOREM BuyerPaidOnce == Spec => []PaidOnce
<1>1. Init => OnceInv
  <2> SUFFICES ASSUME Init PROVE Once
    BY DEF OnceInv
  <2>1. chain = Offer
    BY DEF Init, Offer
  <2>2. OnChain.status = "Created"
    BY <2>1, OfferIs DEF OnChain, ChainId
  <2>3. Payable
    BY <2>1, <2>2 DEF Payable, InEscrow
  <2>4. Unpaid
    BY FirstPaid DEF Unpaid
  <2>5. ASSUME NEW i \in Flows
        PROVE  Clear(flow[i]) /\ ~Settles(i)
    BY FirstFlows DEF Clear, Settles, OracleSteps
  <2> QED
    BY <2>3, <2>4, <2>5 DEF Once
<1>2. Shape /\ OnceInv /\ [Next]_vars => OnceInv'
  <2> SUFFICES ASSUME Shape, OnceInv, [Next]_vars,
                      past' \cap {"lost", "unread", "overlap", "direct", "reclaimed"} = {}
               PROVE  Once'
    BY DEF OnceInv
  <2>1. past \cap {"lost", "unread", "overlap", "direct", "reclaimed"} = {}
    BY PastGrows
  <2> QED
    BY <2>1, OnceKept DEF OnceInv
<1>3. OnceInv => PaidOnce
    BY DEF OnceInv, PaidOnce, Once, Unpaid
<1> QED
    BY <1>1, <1>2, <1>3, ShapeKept, PTL DEF Spec
-----------------------------------------------------------------------------
(* What is completed is paid.                                              *)
Remains ==
    /\ \A t \in Sold(mem) :
         t \in Sold(mem') /\ mem'.trades[t].buyer = mem.trades[t].buyer
    /\ Over => Over'
    /\ \A t \in TradeIds : Got(t) => Got(t)'
Grows == \A x \in TradeIds \X Buyers : paid[x] > 0 => paid'[x] > 0
Proved == \A s \in Flows : proofs[s] # Null => Due(Listing)

LEMMA SoldIs ==
    ASSUME Shape, NEW t \in Sold(mem)
    PROVE  t \in TradeIds /\ mem.trades[t] # Null /\ mem.trades[t].buyer \in Buyers
<1>1. mem.trades \in [TradeIds -> SharedTrade \cup {Null}]
    BY DEF Shape, Store, Sound, Typed, Memory
<1> QED
    BY <1>1 DEF Sold, SharedTrade

LEMMA SoldSame ==
    ASSUME NEW m, NEW n, \A t \in TradeIds : Follows(m.trades[t], n.trades[t])
    PROVE  Sold(n) = Sold(m) /\ \A t \in Sold(m) : n.trades[t].buyer = m.trades[t].buyer
    BY DEF Sold, Follows

LEMMA RemainsSo ==
    ASSUME Shape, \A t \in TradeIds : Follows(mem.trades[t], mem'.trades[t]),
           Over => Over', Grows
    PROVE  Remains /\ Sold(mem') = Sold(mem)
<1>1. Sold(mem') = Sold(mem)
      /\ \A t \in Sold(mem) : mem'.trades[t].buyer = mem.trades[t].buyer
    BY SoldSame
<1>2. ASSUME NEW t \in TradeIds, Got(t)
      PROVE  Got(t)'
  <2>1. t \in Sold(mem) /\ mem.trades[t].buyer \in Buyers
    BY <1>2, SoldIs DEF Got
  <2>2. PICK b \in Buyers : b = mem.trades[t].buyer /\ b = mem'.trades[t].buyer
    BY <1>1, <2>1
  <2>3. PICK x \in TradeIds \X Buyers : x = <<t, b>>
    OBVIOUS
  <2>4. paid[x] > 0
    BY <1>2, <2>2, <2>3 DEF Got
  <2>5. paid'[x] > 0
    BY <2>4 DEF Grows
  <2>6. paid'[t, b] > 0
    BY <2>3, <2>5
  <2> QED
    BY <1>1, <2>1, <2>2, <2>6 DEF Got
<1> QED
    BY <1>1, <1>2 DEF Remains

LEMMA GrowsSame ==
    ASSUME paid' = paid
    PROVE  Grows
    BY DEF Grows

LEMMA GrowsReceived ==
    ASSUME Shape, NEW t \in TradeIds, NEW to, Received(t, to)
    PROVE  /\ Grows
           /\ to \in Buyers => paid'[t, to] > 0
<1>1. \A x \in TradeIds \X Buyers : paid[x] \in 0..2
    BY DEF Shape, Tallies
<1>2. \A x \in TradeIds \X Buyers :
        /\ x # <<t, to>> => paid'[x] = paid[x]
        /\ x = <<t, to>> => paid'[x] = Upto(paid[x] + 1, 2)
    BY ReceivedTyped DEF Shape, Tallies
<1>3. \A k \in 0..2 : Upto(k + 1, 2) > 0
    BY DEF Upto
<1>4. ASSUME NEW x \in TradeIds \X Buyers, paid[x] > 0
      PROVE  paid'[x] > 0
  <2>1. CASE x = <<t, to>>
    BY <1>1, <1>2, <1>3, <2>1
  <2>2. CASE x # <<t, to>>
    BY <1>2, <1>4, <2>2
  <2> QED
    BY <2>1, <2>2
<1>5. ASSUME to \in Buyers
      PROVE  paid'[t, to] > 0
  <2>1. PICK x \in TradeIds \X Buyers : x = <<t, to>>
    BY <1>5
  <2>2. paid'[x] > 0
    BY <1>1, <1>2, <1>3, <2>1
  <2> QED
    BY <2>1, <2>2
<1> QED
    BY <1>4, <1>5 DEF Grows

LEMMA DueRemains ==
    ASSUME Remains, NEW t, Due(t)
    PROVE  Due(t)'
    BY DEF Remains, Due

LEMMA BacksRemains ==
    ASSUME Remains, NEW f, Backs(f), f.trade \in TradeIds
    PROVE  Backs(f)'
<1>1. f.step \in Paying \cup {"session", "execute"} => Due(f.trade)'
    BY DueRemains DEF Backs
<1>2. /\ f.hash => Over'
      /\ f.step = "answer" => Over' \/ Got(f.trade)'
    BY DEF Backs, Remains
<1>3. ASSUME f.step \in OracleSteps \ {"answer"}, f.kind # "webhook"
      PROVE  Over' \/ f.to = mem'.trades[f.trade].buyer
  <2>1. Due(f.trade)
    BY <1>3 DEF Backs, Paying
  <2>2. CASE Over
    BY <2>2 DEF Remains
  <2>3. CASE ~Over
    BY <1>3, <2>1, <2>3 DEF Backs, Due, Remains
  <2> QED
    BY <2>2, <2>3
<1> QED
    BY <1>1, <1>2, <1>3 DEF Backs

LEMMA BacksMove ==
    ASSUME Shape, Delivered, Remains, NEW i \in Flows, NEW x, Turns(i, x), Backs(x)'
    PROVE  \A j \in Flows : Backs(flow[j])'
<1> SUFFICES ASSUME NEW j \in Flows PROVE Backs(flow[j])'
    OBVIOUS
<1>1. flow'[j] = IF j = i THEN x ELSE flow[j]
    BY DEF Shape, Flowing, Turns
<1>2. CASE j = i
    BY <1>1, <1>2 DEF Backs
<1>3. CASE j # i
  <2>1. PICK f : f = flow[j]
    OBVIOUS
  <2>2. Backs(f) /\ f.trade \in TradeIds
    BY <2>1, HandlerIs DEF Delivered, Backs
  <2>3. Backs(f)'
    BY <2>2, BacksRemains
  <2>4. flow'[j] = f
    BY <1>1, <1>3, <2>1
  <2> QED
    BY <2>3, <2>4 DEF Backs
<1> QED
    BY <1>2, <1>3

LEMMA BacksRest ==
    ASSUME Shape, Delivered, Remains, flow' = flow
    PROVE  \A j \in Flows : Backs(flow[j])'
<1> SUFFICES ASSUME NEW j \in Flows PROVE Backs(flow[j])'
    OBVIOUS
<1>1. PICK f : f = flow[j]
    OBVIOUS
<1>2. Backs(f) /\ f.trade \in TradeIds
    BY <1>1, HandlerIs DEF Delivered, Backs
<1>3. Backs(f)'
    BY <1>2, BacksRemains
<1> QED
    BY <1>1, <1>3 DEF Backs

LEMMA DeliveredBy ==
    ASSUME OneSold', RowsDue', \A j \in Flows : Backs(flow[j])', Proved'
    PROVE  Delivered'
    BY DEF Delivered, Proved

LEMMA OverGot ==
    ASSUME OneSold, Over, NEW t \in Sold(mem)
    PROVE  Got(t)
    BY DEF OneSold

LEMMA OneSoldKept ==
    ASSUME OneSold, Remains, Sold(mem') = Sold(mem), Sold(mem) \subseteq TradeIds,
           OnChain'.buyer \in {OnChain.buyer, NoOne},
           Over' => Over,
           InEscrow(OnChain'.status) => OnChain'.buyer # NoOne
    PROVE  OneSold'
<1>1. \A t, u \in Sold(mem') : t = u
    BY DEF OneSold
<1>2. \A t \in Sold(mem') : OnChain'.buyer \in {NoOne, mem'.trades[t].buyer}
    BY DEF OneSold, Remains
<1>3. Over' => \E t \in Sold(mem') : Got(t)'
    BY DEF OneSold, Remains
<1> QED
    BY <1>1, <1>2, <1>3 DEF OneSold

LEMMA OneSoldSame ==
    ASSUME OneSold, Remains, Sold(mem') = Sold(mem), Sold(mem) \subseteq TradeIds,
           chain' = chain
    PROVE  OneSold'
<1>1. OnChain' = OnChain /\ (Over' => Over)
    BY DEF OnChain, Over
<1> QED
    BY <1>1, OneSoldKept DEF OneSold

LEMMA RowsDueEased ==
    ASSUME RowsDue, Remains, Eases(mem, mem'), Sold(mem') = Sold(mem),
           Sold(mem) \subseteq TradeIds
    PROVE  RowsDue'
<1>1. ASSUME NEW t \in TradeIds, Confirmed(mem'.trades[t])
      PROVE  Due(t)'
    BY <1>1, DueRemains DEF RowsDue, Eases
<1>2. ASSUME NEW t \in Sold(mem'), Complete(mem'.trades[t])
      PROVE  Got(t)'
    BY <1>2 DEF RowsDue, Eases, Remains
<1> QED
    BY <1>1, <1>2 DEF RowsDue

LEMMA RowsDueGone ==
    ASSUME RowsDue, Remains, NEW t, Goes(mem, mem', t), Sold(mem') = Sold(mem),
           Sold(mem) \subseteq TradeIds,
           Confirmed(mem'.trades[t]) => Due(t)',
           t \in Sold(mem) /\ Complete(mem'.trades[t]) => Got(t)'
    PROVE  RowsDue'
<1>1. ASSUME NEW u \in TradeIds, Confirmed(mem'.trades[u])
      PROVE  Due(u)'
    BY <1>1, DueRemains DEF RowsDue, Goes
<1>2. ASSUME NEW u \in Sold(mem'), Complete(mem'.trades[u])
      PROVE  Got(u)'
    BY <1>2 DEF RowsDue, Goes, Remains
<1> QED
    BY <1>1, <1>2 DEF RowsDue

LEMMA ProvedStill ==
    ASSUME Proved, Remains,
           \A s \in Flows : proofs'[s] # Null => proofs[s] # Null \/ Due(Listing)
    PROVE  Proved'
    BY DueRemains DEF Proved

(* A step of a handler that pays nothing.                                  *)
LEMMA Unchanging ==
    ASSUME Shape, Delivered, \A t \in TradeIds : Follows(mem.trades[t], mem'.trades[t]),
           chain' = chain, paid' = paid
    PROVE  /\ Remains /\ OneSold' /\ Sold(mem') = Sold(mem) /\ Sold(mem) \subseteq TradeIds
           /\ Over' = Over
<1>1. Over' = Over
    BY DEF Over, OnChain
<1>2. Remains /\ Sold(mem') = Sold(mem)
    BY <1>1, GrowsSame, RemainsSo
<1>3. Sold(mem) \subseteq TradeIds
    BY DEF Sold
<1> QED
    BY <1>1, <1>2, <1>3, OneSoldSame DEF Delivered

LEMMA DeliveredGoes ==
    ASSUME Shape, Delivered, NEW i \in Flows, NEW x, Turns(i, x), Eases(mem, mem'),
           chain' = chain, paid' = paid, x.trade \in TradeIds, Backs(x),
           \A s \in Flows : proofs'[s] # Null => proofs[s] # Null \/ Due(Listing)
    PROVE  Delivered'
<1>1. \A t \in TradeIds : Follows(mem.trades[t], mem'.trades[t])
    BY DEF Eases
<1>2. /\ Remains /\ OneSold' /\ Sold(mem') = Sold(mem) /\ Sold(mem) \subseteq TradeIds
    BY <1>1, Unchanging
<1>3. RowsDue'
    BY <1>2, RowsDueEased DEF Delivered
<1>4. Backs(x)'
    BY <1>2, BacksRemains
<1>5. Proved'
    BY <1>2, ProvedStill DEF Delivered, Proved
<1> QED
    BY <1>2, <1>3, <1>4, <1>5, BacksMove, DeliveredBy

LEMMA DeliveredRests ==
    ASSUME Shape, Delivered, flow' = flow, Eases(mem, mem'), chain' = chain, paid' = paid,
           \A s \in Flows : proofs'[s] # Null => proofs[s] # Null \/ Due(Listing)
    PROVE  Delivered'
<1>1. \A t \in TradeIds : Follows(mem.trades[t], mem'.trades[t])
    BY DEF Eases
<1>2. /\ Remains /\ OneSold' /\ Sold(mem') = Sold(mem) /\ Sold(mem) \subseteq TradeIds
    BY <1>1, Unchanging
<1>3. RowsDue' /\ Proved'
    BY <1>2, RowsDueEased, ProvedStill DEF Delivered, Proved
<1> QED
    BY <1>2, <1>3, BacksRest, DeliveredBy

LEMMA QuietBacks ==
    ASSUME NEW f, f.step \in {"none", "lock", "locking", "take", "checkout", "verify"},
           f.hash => Over
    PROVE  Backs(f)
<1>1. {"none", "lock", "locking", "take", "checkout", "verify"}
        \cap (Paying \cup {"session", "execute"}) = {}
    BY DEF Paying, OracleSteps
<1>2. {"none", "lock", "locking", "take", "checkout", "verify"} \cap OracleSteps = {}
    BY DEF OracleSteps
<1> QED
    BY <1>1, <1>2 DEF Backs

LEMMA AskingBacks ==
    ASSUME NEW f,
           f.step \in {"initiate", "confirm", "chain", "request", "settle", "session", "execute"},
           f.hash => Over, Due(f.trade)
    PROVE  Backs(f)
<1>1. {"initiate", "confirm", "chain", "request", "settle", "session", "execute"}
        \cap OracleSteps = {}
    BY DEF OracleSteps
<1>2. "answer" \in OracleSteps
    BY DEF OracleSteps
<1> QED
    BY <1>1, <1>2 DEF Backs

LEMMA DoneBacks == Backs(Done) /\ Done.trade \in TradeIds
    BY QuietBacks, DoneIs, ListingIs

LEMMA OrderDelivers ==
    ASSUME Shape, Delivered, NEW i \in Flows,
           \/ \E b \in Buyers, want \in Requests : PlaceOrder(i, b, want)
           \/ \E t \in TradeIds : ClickPaid(i, t)
           \/ SimulateLock(i) \/ ClosePage(i) \/ OpenCheckout(i)
    PROVE  Delivered'
<1>1. chain' = chain /\ paid' = paid /\ proofs' = proofs
    BY DEF PlaceOrder, ClickPaid, SimulateLock, ClosePage, OpenCheckout
<1>2. Eases(mem, mem')
    BY OpenCheckoutIs, EasesSame DEF PlaceOrder, ClickPaid, SimulateLock, ClosePage
<1>3. flow[i].hash => Over
    BY DEF Delivered, Backs
<1>4. CASE \E b \in Buyers, want \in Requests : PlaceOrder(i, b, want)
  <2>1. PICK b \in Buyers, step \in {"lock", "take"}, want \in Requests :
        Start(i, "order", step, b, Listing, want)
    BY <1>4 DEF PlaceOrder
  <2>2. PICK x : Turns(i, x) /\ x.step = step /\ x.trade = Listing /\ ~x.hash
    BY <2>1, StartsAt
  <2> QED
    BY <1>1, <1>2, <2>2, ListingIs, QuietBacks, DeliveredGoes
<1>5. CASE \E t \in TradeIds : ClickPaid(i, t)
  <2>1. PICK t \in TradeIds : ClickPaid(i, t)
    BY <1>5
  <2>2. PICK x : Turns(i, x) /\ x.step = "checkout" /\ x.trade = t /\ ~x.hash
    BY <2>1, StartsAt DEF ClickPaid
  <2> QED
    BY <1>1, <1>2, <2>2, QuietBacks, DeliveredGoes
<1>6. CASE SimulateLock(i) \/ ClosePage(i)
  <2>1. Go(i, "locking") \/ Go(i, "take") \/ End(i)
    BY <1>6 DEF SimulateLock, ClosePage
  <2>2. CASE Go(i, "locking") \/ Go(i, "take")
    <3>1. PICK x : /\ Turns(i, x) /\ x.step \in {"locking", "take"}
                   /\ x.trade = flow[i].trade /\ x.hash = flow[i].hash
        BY <2>2, QuietNames, StepTurns
    <3> QED
        BY <1>1, <1>2, <1>3, <3>1, HandlerIs, QuietBacks, DeliveredGoes
  <2>3. CASE End(i)
    BY <1>1, <1>2, <2>3, EndTurns, DoneBacks, DeliveredGoes
  <2> QED
    BY <2>1, <2>2, <2>3
<1>7. CASE OpenCheckout(i)
  <2>1. PICK x : /\ Turns(i, x) /\ x.step \in {"none", "verify"}
                 /\ x.trade \in TradeIds /\ (x.hash => flow[i].hash)
    BY <1>7, OpenCheckoutIs
  <2>2. Backs(x)
    BY <1>3, <2>1, QuietBacks
  <2> QED
    BY <1>1, <1>2, <2>1, <2>2, DeliveredGoes
<1> QED
    BY <1>4, <1>5, <1>6, <1>7

LEMMA ClickDelivers ==
    ASSUME Shape, Delivered, NEW i \in Flows,
           \/ \E t \in TradeIds : ClickFinalize(i, t)
           \/ \E t \in TradeIds, u \in Buyers \cup {Seller} : ClickRelease(i, u, t)
           \/ \E u \in Buyers \cup {Seller} : ClickProve(i, u)
    PROVE  Delivered'
<1>1. chain' = chain /\ paid' = paid /\ proofs' = proofs
    BY DEF ClickFinalize, ClickRelease, ClickProve
<1>2. Eases(mem, mem')
    BY EasesSame DEF ClickFinalize, ClickRelease, ClickProve
<1>3. ASSUME NEW t \in TradeIds, Confirmed(mem.trades[t])
      PROVE  Due(t)
    BY <1>3 DEF Delivered, RowsDue
<1>4. ASSUME NEW kind, NEW who, NEW arg, NEW t \in TradeIds, Due(t),
             NEW step \in {"initiate", "chain", "settle", "session"},
             Start(i, kind, step, who, t, arg)
      PROVE  Delivered'
  <2>1. PICK x : Turns(i, x) /\ x.step = step /\ x.trade = t /\ ~x.hash
    BY <1>4, StartsAt
  <2> QED
    BY <1>1, <1>2, <1>4, <2>1, AskingBacks, DeliveredGoes
<1>5. CASE \E t \in TradeIds : ClickFinalize(i, t)
  <2>1. PICK t \in TradeIds : ClickFinalize(i, t)
    BY <1>5
  <2>2. PICK who : Start(i, "settlement", "initiate", who, t, Null)
    BY <2>1 DEF ClickFinalize
  <2>3. Due(t)
    BY <1>3, <2>1 DEF ClickFinalize, Confirmed, Trade
  <2> QED
    BY <1>4, <2>2, <2>3
<1>6. CASE \E t \in TradeIds, u \in Buyers \cup {Seller} : ClickRelease(i, u, t)
  <2>1. PICK t \in TradeIds, u \in Buyers \cup {Seller} : ClickRelease(i, u, t)
    BY <1>6
  <2>2. PICK step \in {"chain", "settle"} : Start(i, "release", step, u, t, Null)
    BY <2>1 DEF ClickRelease
  <2>3. Due(t)
    BY <1>3, <2>1 DEF ClickRelease, Confirmed, Trade
  <2> QED
    BY <1>4, <2>2, <2>3
<1>7. CASE \E u \in Buyers \cup {Seller} : ClickProve(i, u)
  <2>1. PICK u \in Buyers \cup {Seller} : ClickProve(i, u)
    BY <1>7
  <2>2. Start(i, "proof", "session", u, Listing, Null) /\ Listing \in TradeIds
    BY <2>1, ListingIs DEF ClickProve
  <2>3. Due(Listing)
    <3>1. CASE mem.trades[Listing].life \in Finalizable
        BY <1>3, <2>1, <2>2, <3>1 DEF ClickProve, Confirmed, Trade
    <3>2. CASE mem.trades[Listing].life = "AWAITING_PAYMENT"
        BY <2>1, <2>2, <3>2 DEF ClickProve, Trade, Shape, Store, Awaited, Due, Sold
    <3> QED
        BY <2>1, <3>1, <3>2 DEF ClickProve, Trade
  <2> QED
    BY <1>4, <2>2, <2>3
<1> QED
    BY <1>5, <1>6, <1>7

LEMMA HookDelivers ==
    ASSUME Shape, Delivered, NEW i \in Flows, NEW s \in Flows, HookAccepts(i, s)
    PROVE  Delivered'
<1>1. PICK x : /\ Turns(i, x) /\ x.step = "submit" /\ x.kind = "webhook"
               /\ x.trade = Listing /\ ~x.hash
    BY StartsAt DEF HookAccepts
<1>2. /\ mem' = mem /\ chain' = chain /\ paid' = paid /\ proofs[s] # Null
    BY DEF HookAccepts
<1>3. Due(Listing) /\ Listing \in TradeIds
    BY <1>2, ListingIs DEF Delivered
<1>4. Backs(x)
    BY <1>1, <1>3 DEF Backs
<1> QED
    BY <1>1, <1>2, <1>3, <1>4, EasesSame, DeliveredGoes

(* The buyer locks the listing on the chain: if it is sold, to him.        *)
LEMMA LockDelivers ==
    ASSUME Shape, Delivered, NEW i \in Flows, LockMined(i), "contended" \notin past'
    PROVE  Delivered'
<1>1. PICK who : who = flow[i].who
    OBVIOUS
<1>2. flow[i].step = "locking" /\ who \in Buyers /\ (flow[i].hash => Over)
    BY <1>1, HandlerIs DEF LockMined, At, Fits, Delivered, Backs
<1>3. mem' = mem /\ paid' = paid /\ proofs' = proofs
    BY DEF LockMined
<1>4. PICK x : Turns(i, x) /\ x.trade \in TradeIds /\ Backs(x)
  <2>1. CASE Go(i, "take")
    <3>1. PICK x : /\ Turns(i, x) /\ x.step = "take"
                   /\ x.trade = flow[i].trade /\ x.hash = flow[i].hash
        BY <2>1, QuietNames, StepTurns
    <3> QED
        BY <1>2, <3>1, HandlerIs, QuietBacks
  <2>2. CASE End(i)
    BY <2>2, EndTurns, DoneBacks
  <2> QED
    BY <2>1, <2>2 DEF LockMined
<1>5. CASE ~CanFund(chain, who, ChainId)
  <2>1. chain' = chain
    BY <1>1, <1>5 DEF LockMined
  <2> QED
    BY <1>3, <1>4, <2>1, EasesSame, DeliveredGoes
<1>6. CASE CanFund(chain, who, ChainId)
  <2>1. /\ chain' = Fund(chain, Now, who, ChainId, 0) /\ past \subseteq past'
        /\ ~Contended(who)
    BY <1>1, <1>6 DEF LockMined
  <2>2. who \in Address \ {NoOne}
    BY <1>2, AddressAssumption DEF Address
  <2>3. OnChain'.status = "Funded" /\ OnChain'.buyer = who /\ OnChain.status = "Created"
    BY <1>6, <2>1, <2>2, FundsContract DEF OnChain
  <2>4. ~Over /\ ~Over'
    BY <2>3 DEF Over
  <2>5. Eases(mem, mem') /\ \A t \in TradeIds : Follows(mem.trades[t], mem'.trades[t])
    BY <1>3, EasesSame DEF Eases
  <2>6. Remains /\ Sold(mem') = Sold(mem) /\ Sold(mem) \subseteq TradeIds
    BY <1>3, <2>4, <2>5, GrowsSame, RemainsSo DEF Sold
  <2>7. \A t \in Sold(mem') : mem'.trades[t].buyer = who
    BY <1>3, <2>1 DEF Contended, Trade, Sold
  <2>8. OneSold'
    BY <2>2, <2>3, <2>4, <2>6, <2>7 DEF Delivered, OneSold
  <2>9. RowsDue' /\ Proved'
    BY <1>3, <2>5, <2>6, RowsDueEased, ProvedStill DEF Delivered, Proved
  <2>10. Backs(x)'
    BY <1>4, <2>6, BacksRemains
  <2> QED
    BY <1>4, <2>6, <2>8, <2>9, <2>10, BacksMove, DeliveredBy
<1> QED
    BY <1>5, <1>6

(* The first take sells the listing, or a part of it; there is no second.  *)
LEMMA TakeDelivers ==
    ASSUME Shape, Delivered, NEW i \in Flows, TakeOrder(i),
           "contended" \notin past', "again" \notin past'
    PROVE  Delivered'
<1>1. PICK f : f = flow[i]
    OBVIOUS
<1>2. f.who \in Buyers /\ f.arg \in Nat
    BY <1>1, HandlerIs DEF TakeOrder, At, Fits
<1>3. PICK draw \in Draws(mem, Listing) :
        LET res == TakePeerOffer(mem, 0, f.who, Listing, f.arg, draw) IN
        /\ mem' = res.mem
        /\ past' = past \cup (IF res.ok THEN Overlap(i) ELSE {})
                        \cup IF res.ok /\ OnChain.buyer \notin {f.who, NoOne}
                             THEN {"contended"} ELSE {}
                        \cup IF Sold(mem) # {} /\ res.mem.trades # mem.trades
                             THEN {"again"} ELSE {}
    BY <1>1 DEF TakeOrder, Now
<1>4. PICK res : res = TakePeerOffer(mem, 0, f.who, Listing, f.arg, draw)
    OBVIOUS
<1>5. /\ mem' = res.mem
      /\ res.ok => OnChain.buyer \in {f.who, NoOne}
      /\ res.mem.trades # mem.trades => Sold(mem) = {}
    BY <1>3, <1>4
<1>6. TakenBy(mem, res, f.who)
    BY <1>2, <1>4, TakeServes DEF Shape
<1>7. End(i) /\ chain' = chain /\ paid' = paid /\ proofs' = proofs
    BY DEF TakeOrder
<1>8. Turns(i, Done) /\ Backs(Done) /\ Done.trade \in TradeIds
    BY <1>7, EndTurns, DoneBacks
<1>9. CASE res.mem.trades = mem.trades
  <2>1. Eases(mem, mem')
    BY <1>5, <1>9, EasesSame
  <2> QED
    BY <1>7, <1>8, <2>1, DeliveredGoes
<1>10. CASE res.mem.trades # mem.trades
  <2>1. PICK u \in TradeIds, y \in SharedTrade :
            /\ y.buyer = f.who /\ y.life = "AWAITING_PAYMENT" /\ y.pay = "UNPAID"
            /\ res.mem.trades = [mem.trades EXCEPT ![u] = y]
    BY <1>6, <1>10 DEF TakenBy
  <2>2. res.ok
    BY <1>6, <1>10 DEF TakenBy
  <2>3. Sold(mem) = {} /\ OnChain.buyer \in {f.who, NoOne}
    BY <1>5, <1>10, <2>2
  <2>4. ~Over
    BY <2>3 DEF Delivered, OneSold
  <2>5. mem \in Memory
    BY DEF Shape, Store, Sound, Typed
  <2>6. \A t \in TradeIds : mem'.trades[t] = IF t = u THEN y ELSE mem.trades[t]
    BY <1>5, <2>1, <2>5 DEF Memory
  <2>7. y # Null /\ f.who # Null
    BY <1>2, NullApart
  <2>8. Sold(mem') = {u} /\ mem'.trades[u].buyer = f.who
    BY <2>1, <2>3, <2>6, <2>7 DEF Sold
  <2>9. OnChain' = OnChain /\ ~Over'
    BY <1>7, <2>4 DEF OnChain, Over
  <2>10. Remains
    BY <2>3, <2>4 DEF Remains, Got
  <2>11. OneSold'
    BY <2>3, <2>8, <2>9 DEF Delivered, OneSold
  <2>12. ~Confirmed(y) /\ ~Complete(y)
    BY <2>1 DEF Confirmed, Complete, Finalizable
  <2>13. \A t \in TradeIds : ~Confirmed(mem.trades[t])
    BY <2>3, <2>4 DEF Delivered, RowsDue, Due
  <2>14. RowsDue'
    BY <2>6, <2>8, <2>12, <2>13 DEF RowsDue
  <2>15. Proved'
    BY <1>7, <2>10, ProvedStill DEF Delivered, Proved
  <2>16. Backs(Done)'
    BY <1>8, <2>10, BacksRemains
  <2> QED
    BY <1>8, <2>10, <2>11, <2>14, <2>15, <2>16, BacksMove, DeliveredBy
<1> QED
    BY <1>9, <1>10

LEMMA VerifyDelivers ==
    ASSUME Shape, Delivered, NEW i \in Flows, VerifyPaid(i)
    PROVE  Delivered'
<1>1. PICK t : t = flow[i].trade
    OBVIOUS
<1>2. PICK res, amount :
        /\ Reports(mem, res, t, amount) /\ mem' = res.mem
        /\ Go(i, "initiate") \/ End(i)
    BY <1>1, VerifyPaidIs
<1>3. Bought(mem, t) /\ t \in TradeIds /\ paid' = paid /\ chain' = chain /\ proofs' = proofs
    BY <1>1, VerifyPaidIs
<1>4. Goes(mem, mem', t) /\ (Complete(mem'.trades[t]) => Complete(mem.trades[t]))
    BY <1>2 DEF Reports
<1>5. \A u \in TradeIds : Follows(mem.trades[u], mem'.trades[u])
    BY <1>4 DEF Goes
<1>6. Remains /\ OneSold' /\ Sold(mem') = Sold(mem) /\ Sold(mem) \subseteq TradeIds
    BY <1>3, <1>5, Unchanging
<1>7. t \in Sold(mem) /\ Due(t)
    BY <1>3 DEF Bought, Sold, Due
<1>8. Due(t)' /\ (Complete(mem'.trades[t]) => Got(t)')
    BY <1>3, <1>4, <1>6, <1>7, DueRemains DEF Remains, Delivered, RowsDue
<1>9. RowsDue' /\ Proved'
    BY <1>3, <1>4, <1>6, <1>8, RowsDueGone, ProvedStill DEF Delivered, Proved
<1>10. flow[i].hash => Over
    BY DEF Delivered, Backs
<1>11. PICK x : Turns(i, x) /\ Backs(x) /\ x.trade \in TradeIds
  <2>1. CASE Go(i, "initiate")
    <3>1. PICK x : /\ Turns(i, x) /\ x.step = "initiate"
                   /\ x.trade = t /\ x.hash = flow[i].hash
        BY <1>1, <2>1, OracleNames, StepTurns
    <3> QED
        BY <1>3, <1>7, <1>10, <3>1, AskingBacks
  <2>2. CASE End(i)
    BY <2>2, EndTurns, DoneBacks
  <2> QED
    BY <1>2, <2>1, <2>2
<1>12. Backs(x)'
    BY <1>6, <1>11, BacksRemains
<1> QED
    BY <1>6, <1>9, <1>11, <1>12, BacksMove, DeliveredBy

LEMMA AskDelivers ==
    ASSUME Shape, Delivered, NEW i \in Flows, AskStore(i)
    PROVE  Delivered'
<1>1. PICK f : f = flow[i]
    OBVIOUS
<1>2. f.trade \in TradeIds /\ f.step \in {"initiate", "confirm", "request"}
    BY <1>1, HandlerIs DEF AskStore
<1>3. \/ mem' = PayoutStep(mem, f.trade, "initiate").mem
      \/ mem' = PayoutStep(mem, f.trade, "confirm").mem
      \/ mem' = RequestRelease(mem, f.trade).mem
    BY <1>1, <1>2 DEF AskStore, At
<1>4. Typed(mem)
    BY DEF Shape, Store, Sound
<1>5. Eases(mem, mem')
    BY <1>2, <1>3, <1>4, PayoutEases, RequestEases
<1>6. PICK step : step = StepAfter(f.step, f.trade)
    OBVIOUS
<1>7. step \in {"confirm", "chain", "request", "settle"}
    BY <1>2, <1>6 DEF StepAfter
<1>8. Go(i, step) /\ chain' = chain /\ paid' = paid /\ proofs' = proofs
    BY <1>1, <1>6 DEF AskStore
<1>9. Due(f.trade) /\ (f.hash => Over)
    BY <1>1, <1>2 DEF Delivered, Backs, Paying
<1>10. step \in StepNames
    BY <1>7, OracleNames
<1>11. PICK x : Turns(i, x) /\ x.trade = f.trade /\ x.step = step /\ x.hash = f.hash
    BY <1>1, <1>8, <1>10, StepTurns
<1>12. Backs(x)
    BY <1>7, <1>9, <1>11, AskingBacks
<1> QED
    BY <1>2, <1>5, <1>8, <1>11, <1>12, DeliveredGoes

(* A release in the contract pays the buyer the store knows.               *)
LEMMA PaysBuyer ==
    ASSUME Shape, Delivered, Finishes(chain, chain', ChainId), InEscrow(OnChain.status),
           NEW t \in TradeIds, Due(t), Received(t, OnChain.buyer), mem' = mem
    PROVE  /\ Over' /\ Remains /\ OneSold' /\ RowsDue'
           /\ Sold(mem') = Sold(mem) /\ Sold(mem) \subseteq TradeIds
<1>1. ~Over /\ OnChain.buyer # NoOne
    BY DEF Over, InEscrow, Delivered, OneSold
<1>2. t \in Sold(mem) /\ OnChain.buyer = mem.trades[t].buyer
    BY <1>1 DEF Due, Delivered, OneSold
<1>3. PICK b \in Buyers : b = OnChain.buyer /\ b = mem.trades[t].buyer
    BY <1>2, SoldIs
<1>4. OnChain'.status = "Completed" /\ OnChain'.buyer = OnChain.buyer
    BY ListedAssumption DEF Finishes, OnChain, ChainId
<1>5. Over'
    BY <1>4 DEF Over
<1>6. Received(t, b)
    BY <1>3
<1>7. Grows /\ paid'[t, b] > 0
    BY <1>6, GrowsReceived
<1>8. Eases(mem, mem') /\ \A u \in TradeIds : Follows(mem.trades[u], mem'.trades[u])
    BY EasesSame DEF Eases
<1>9. Remains /\ Sold(mem') = Sold(mem) /\ Sold(mem) \subseteq TradeIds
    BY <1>5, <1>7, <1>8, RemainsSo DEF Sold
<1>10. Got(t)'
    BY <1>2, <1>3, <1>7 DEF Got
<1>11. OneSold'
  <2>1. \A u, v \in Sold(mem') : u = v
    BY <1>9 DEF Delivered, OneSold
  <2>2. \A u \in Sold(mem') : OnChain'.buyer \in {NoOne, mem'.trades[u].buyer}
    BY <1>4 DEF Delivered, OneSold
  <2>3. \E u \in Sold(mem') : Got(u)'
    BY <1>2, <1>9, <1>10
  <2>4. ~InEscrow(OnChain'.status)
    BY <1>4 DEF InEscrow
  <2> QED
    BY <2>1, <2>2, <2>3, <2>4 DEF OneSold
<1>12. RowsDue'
    BY <1>8, <1>9, RowsDueEased DEF Delivered
<1> QED
    BY <1>5, <1>9, <1>11, <1>12

LEMMA CallDelivers ==
    ASSUME Shape, Delivered, NEW i \in Flows, CallContract(i)
    PROVE  Delivered'
<1>1. PICK t \in TradeIds : t = flow[i].trade
    BY HandlerIs
<1>2. PICK step : step = NextStep(flow[i])
    OBVIOUS
<1>3. step \in {"request", "settle"}
    BY <1>2 DEF NextStep
<1>4. step \in StepNames
    BY <1>3, OracleNames
<1>5. /\ flow[i].step = "chain" /\ mem' = mem /\ proofs' = proofs
      /\ \/ Go(i, step) /\ chain' = chain /\ paid' = paid
         \/ Marks(i)
         \/ Releases(i)
    BY <1>2, CallContractIs
<1>6. Due(t) /\ (flow[i].hash => Over)
    BY <1>1, <1>5 DEF Delivered, Backs, Paying
<1>7. ASSUME Go(i, step)
      PROVE  \E x : Turns(i, x) /\ Backs(x) /\ x.trade \in TradeIds
  <2>1. PICK x : Turns(i, x) /\ x.trade = t /\ x.step = step /\ x.hash = flow[i].hash
    BY <1>1, <1>4, <1>7, StepTurns
  <2> QED
    BY <1>3, <1>6, <2>1, AskingBacks
<1>8. CASE Go(i, step) /\ chain' = chain /\ paid' = paid
  <2>1. PICK x : Turns(i, x) /\ Backs(x) /\ x.trade \in TradeIds
    BY <1>7, <1>8
  <2> QED
    BY <1>5, <1>8, <2>1, EasesSame, DeliveredGoes
<1>9. CASE Marks(i)
  <2>1. Go(i, step) /\ paid' = paid
    BY <1>2, <1>9 DEF Marks
  <2>2. PICK x : Turns(i, x) /\ Backs(x) /\ x.trade \in TradeIds
    BY <1>7, <2>1
  <2>3. flow[i].who # NoOne
    BY <1>9, HandlerIs DEF Fits, Marks
  <2>4. /\ OnChain.status = "Funded" /\ OnChain'.status = "FiatSent"
        /\ OnChain'.buyer = OnChain.buyer
    BY <1>9, <2>3, MarksContract DEF Marks, Shape, OnChain
  <2>5. ~Over /\ ~Over' /\ OnChain.buyer # NoOne
    BY <2>4 DEF Over, Delivered, OneSold, InEscrow
  <2>6. Eases(mem, mem') /\ \A u \in TradeIds : Follows(mem.trades[u], mem'.trades[u])
    BY <1>5, EasesSame DEF Eases
  <2>7. Remains /\ Sold(mem') = Sold(mem) /\ Sold(mem) \subseteq TradeIds
    BY <2>1, <2>5, <2>6, GrowsSame, RemainsSo DEF Sold
  <2>8. OneSold'
    BY <2>4, <2>5, <2>7, OneSoldKept DEF Delivered
  <2>9. RowsDue' /\ Proved'
    BY <1>5, <2>6, <2>7, RowsDueEased, ProvedStill DEF Delivered, Proved
  <2>10. Backs(x)'
    BY <2>2, <2>7, BacksRemains
  <2> QED
    BY <2>2, <2>7, <2>8, <2>9, <2>10, BacksMove, DeliveredBy
<1>10. CASE Releases(i)
  <2>1. /\ CanRelease(chain, flow[i].who, ChainId)
        /\ chain' = CompleteTrade(chain, ChainId)
        /\ Received(t, OnChain.buyer)
        /\ \/ flow' = [flow EXCEPT ![i].step = step, ![i].hash = TRUE]
           \/ Go(i, step)
    BY <1>1, <1>2, <1>10 DEF Releases
  <2>2. Finishes(chain, chain', ChainId)
    BY <2>1, CompletesContract, PastGrows DEF Shape
  <2>3. InEscrow(OnChain.status)
    BY <2>1 DEF CanRelease, InState, OnChain, InEscrow
  <2>4. /\ Over' /\ Remains /\ OneSold' /\ RowsDue'
    BY <1>1, <1>5, <1>6, <2>1, <2>2, <2>3, PaysBuyer
  <2>5. Proved'
    BY <1>5, <2>4, ProvedStill DEF Delivered, Proved
  <2>6. PICK x : Turns(i, x) /\ x.step = step /\ x.trade = t
    <3>1. Unhooked(i) /\ step \in Plain
        BY <1>3, <1>5, HandlerIs, Names DEF Paying
    <3> QED
        BY <1>1, <1>4, <2>1, <3>1, HashTurns, StepTurns
  <2>7. step \notin OracleSteps /\ Due(t)'
    BY <1>3, <1>6, <2>4, OracleNames, DueRemains
  <2>8. Backs(x)'
    BY <1>3, <2>4, <2>6, <2>7 DEF Backs, OracleSteps
  <2> QED
    BY <2>4, <2>5, <2>6, <2>8, BacksMove, DeliveredBy
<1> QED
    BY <1>5, <1>8, <1>9, <1>10

(* The store is told that a trade is released, and it was.                 *)
LEMMA TellsDelivered ==
    ASSUME Shape, Delivered, NEW i \in Flows, NEW t \in TradeIds, Goes(mem, mem', t),
           End(i), Due(t), Over \/ Got(t), chain' = chain, paid' = paid,
           \A s \in Flows : proofs'[s] # Null => proofs[s] # Null \/ Due(Listing)
    PROVE  Delivered'
<1>1. \A u \in TradeIds : Follows(mem.trades[u], mem'.trades[u])
    BY DEF Goes
<1>2. Remains /\ OneSold' /\ Sold(mem') = Sold(mem) /\ Sold(mem) \subseteq TradeIds
    BY <1>1, Unchanging
<1>3. t \in Sold(mem) => Got(t)'
    BY <1>2, OverGot DEF Remains, Delivered
<1>4. RowsDue' /\ Proved'
    BY <1>2, <1>3, DueRemains, RowsDueGone, ProvedStill DEF Delivered, Proved
<1>5. Turns(i, Done) /\ Backs(Done)'
    BY <1>2, EndTurns, DoneBacks, BacksRemains
<1> QED
    BY <1>2, <1>4, <1>5, BacksMove, DeliveredBy

LEMMA SettleDelivers ==
    ASSUME Shape, Delivered, NEW i \in Flows, Settle(i)
    PROVE  Delivered'
<1>1. PICK t \in TradeIds : t = flow[i].trade
    BY HandlerIs
<1>2. /\ flow[i].step = "settle" /\ chain' = chain /\ paid' = paid /\ proofs' = proofs
    BY SettleIs
<1>3. Due(t) /\ (flow[i].hash => Over)
    BY <1>1, <1>2 DEF Delivered, Backs, Paying
<1>4. CASE flow[i].hash /\ End(i) /\ mem' = ConfirmRelease(mem, t).mem
  <2>1. Goes(mem, mem', t)
    BY <1>4, ConfirmGoes DEF Shape, Store
  <2> QED
    BY <1>2, <1>3, <1>4, <2>1, TellsDelivered
<1>5. ASSUME mem' = mem, NEW x, Asked(i, x),
             x.step = SettleStep(OnChain.status) \/ x.step = "transfer"
      PROVE  Delivered'
  <2>1. /\ Turns(i, x) /\ x.trade = t /\ ~x.hash
        /\ mem.trades[t].buyer # Null => x.to = mem.trades[t].buyer
    BY <1>1, <1>5 DEF Asked
  <2>2. x.step = "answer" => Over
    BY <1>5 DEF SettleStep, Over
  <2>3. Over \/ x.to = mem.trades[t].buyer
    BY <1>3, <2>1 DEF Due, Sold
  <2>4. Backs(x)
    BY <1>3, <2>1, <2>2, <2>3 DEF Backs
  <2> QED
    BY <1>2, <1>5, <2>1, <2>4, EasesSame, DeliveredGoes
<1> QED
    BY <1>1, <1>4, <1>5, SettleIs

LEMMA LocksDelivers ==
    ASSUME Shape, Delivered, NEW i \in Flows, OracleLocks(i), "selflock" \notin past'
    PROVE  Delivered'
<1>1. /\ flow[i].step = "selflock" /\ chain' = chain /\ Go(i, "transfer")
      /\ mem' = mem /\ proofs' = proofs /\ paid' = paid
    BY DEF OracleLocks, Happened, At
<1>2. Unhooked(i)
    BY <1>1, HandlerIs
<1>3. /\ Due(flow[i].trade) /\ (flow[i].hash => Over)
      /\ Over \/ flow[i].to = mem.trades[flow[i].trade].buyer
    BY <1>1, <1>2 DEF Delivered, Backs, Paying, OracleSteps, Unhooked
<1>4. "transfer" \in StepNames
    BY OracleNames DEF OracleSteps
<1>5. PICK x : /\ Turns(i, x) /\ x.step = "transfer" /\ x.trade = flow[i].trade
               /\ x.to = flow[i].to /\ x.hash = flow[i].hash
    BY <1>1, <1>4, StepTurns
<1>6. Backs(x)
    BY <1>3, <1>5 DEF Backs
<1> QED
    BY <1>1, <1>5, <1>6, HandlerIs, EasesSame, DeliveredGoes

(* Where a release that failed leaves its caller.                          *)
LEMMA FailsBacks ==
    ASSUME Shape, Delivered, NEW i \in Flows, flow[i].step \in {"submit", "mine"},
           ReleaseFails(i)
    PROVE  /\ \E x : Turns(i, x) /\ Backs(x) /\ x.trade \in TradeIds
           /\ \A s \in Flows : proofs'[s] # Null => proofs[s] # Null \/ Due(Listing)
<1>1. Due(flow[i].trade) /\ (flow[i].hash => Over)
    BY DEF Delivered, Backs, Paying, OracleSteps
<1>2. CASE /\ flow[i].kind = "webhook" /\ End(i) /\ flow[i].trade = Listing
           /\ \E s \in Flows : proofs' = [proofs EXCEPT ![s] = "verified"]
  <2>1. Due(Listing)
    BY <1>1, <1>2
  <2> QED
    BY <1>2, <2>1, EndTurns, DoneBacks
<1>3. CASE flow[i].kind # "webhook" /\ Go(i, "transfer") /\ proofs' = proofs
  <2>1. Over \/ flow[i].to = mem.trades[flow[i].trade].buyer
    BY <1>3 DEF Delivered, Backs, OracleSteps
  <2>2. "transfer" \in StepNames
    BY OracleNames DEF OracleSteps
  <2>3. PICK x : /\ Turns(i, x) /\ x.step = "transfer" /\ x.trade = flow[i].trade
                 /\ x.to = flow[i].to /\ x.hash = flow[i].hash
    BY <1>3, <2>2, StepTurns
  <2>4. Backs(x)
    BY <1>1, <2>1, <2>3 DEF Backs
  <2> QED
    BY <1>3, <2>3, <2>4, HandlerIs
<1> QED
    BY <1>2, <1>3, FailsIs

LEMMA SubmitDelivers ==
    ASSUME Shape, Delivered, NEW i \in Flows, OracleSubmits(i)
    PROVE  Delivered'
<1>1. /\ flow[i].step = "submit" /\ chain' = chain /\ mem' = mem /\ paid' = paid
      /\ (Go(i, "mine") /\ proofs' = proofs) \/ ReleaseFails(i)
    BY DEF OracleSubmits, At
<1>2. CASE Go(i, "mine") /\ proofs' = proofs
  <2>1. Due(flow[i].trade) /\ (flow[i].hash => Over)
        /\ (flow[i].kind # "webhook" => Over \/ flow[i].to = mem.trades[flow[i].trade].buyer)
    BY <1>1 DEF Delivered, Backs, Paying, OracleSteps
  <2>2. "mine" \in StepNames
    BY OracleNames DEF OracleSteps
  <2>3. PICK x : /\ Turns(i, x) /\ x.step = "mine" /\ x.trade = flow[i].trade
                 /\ x.to = flow[i].to /\ x.hash = flow[i].hash /\ x.kind = flow[i].kind
    BY <1>2, <2>2, StepTurns
  <2>4. Backs(x)
    BY <2>1, <2>3 DEF Backs
  <2> QED
    BY <1>1, <1>2, <2>3, <2>4, HandlerIs, EasesSame, DeliveredGoes
<1>3. CASE ReleaseFails(i)
  <2>1. PICK x : Turns(i, x) /\ Backs(x) /\ x.trade \in TradeIds
    BY <1>1, <1>3, FailsBacks
  <2>2. \A s \in Flows : proofs'[s] # Null => proofs[s] # Null \/ Due(Listing)
    BY <1>1, <1>3, FailsBacks
  <2> QED
    BY <1>1, <2>1, <2>2, EasesSame, DeliveredGoes
<1> QED
    BY <1>1, <1>2, <1>3

LEMMA MinedDelivers ==
    ASSUME Shape, Delivered, NEW i \in Flows, OracleMined(i)
    PROVE  Delivered'
<1>1. PICK t \in TradeIds : t = flow[i].trade
    BY HandlerIs
<1>2. flow[i].step = "mine" /\ mem' = mem
    BY OracleMinedIs
<1>3. Due(t) /\ (flow[i].hash => Over)
    BY <1>1, <1>2 DEF Delivered, Backs, Paying, OracleSteps
<1>4. CASE CanOracleRelease(chain, ChainId, ProofOf(i))
  <2>1. /\ Finishes(chain, chain', ChainId) /\ Received(t, OnChain.buyer)
        /\ (Go(i, "answer") /\ proofs' = proofs) \/ ReleaseFails(i)
    BY <1>1, <1>4, OracleMinedIs
  <2>2. InEscrow(OnChain.status)
    BY <1>4 DEF CanOracleRelease, InEscrow, OnChain
  <2>3. Over' /\ Remains /\ OneSold' /\ RowsDue'
    BY <1>2, <1>3, <2>1, <2>2, PaysBuyer
  <2>4. CASE Go(i, "answer") /\ proofs' = proofs
    <3>1. "answer" \in StepNames
        BY OracleNames DEF OracleSteps
    <3>2. PICK x : Turns(i, x) /\ x.step = "answer" /\ x.trade = t
        BY <1>1, <2>4, <3>1, StepTurns
    <3>3. Backs(x)'
        BY <1>3, <2>3, <3>2, DueRemains DEF Backs
    <3>4. Proved'
        BY <2>3, <2>4, ProvedStill DEF Delivered, Proved
    <3> QED
        BY <2>3, <3>2, <3>3, <3>4, BacksMove, DeliveredBy
  <2>5. CASE ReleaseFails(i)
    <3>1. PICK x : Turns(i, x) /\ Backs(x) /\ x.trade \in TradeIds
        BY <1>2, <2>5, FailsBacks
    <3>2. \A s \in Flows : proofs'[s] # Null => proofs[s] # Null \/ Due(Listing)
        BY <1>2, <2>5, FailsBacks
    <3>3. Backs(x)' /\ Proved'
        BY <2>3, <3>1, <3>2, BacksRemains, ProvedStill DEF Delivered, Proved
    <3> QED
        BY <2>3, <3>1, <3>3, BacksMove, DeliveredBy
  <2> QED
    BY <2>1, <2>4, <2>5
<1>5. CASE ~CanOracleRelease(chain, ChainId, ProofOf(i))
  <2>1. ReleaseFails(i) /\ chain' = chain /\ paid' = paid
    BY <1>5, OracleMinedIs
  <2>2. PICK x : Turns(i, x) /\ Backs(x) /\ x.trade \in TradeIds
    BY <1>2, <2>1, FailsBacks
  <2>3. \A s \in Flows : proofs'[s] # Null => proofs[s] # Null \/ Due(Listing)
    BY <1>2, <2>1, FailsBacks
  <2> QED
    BY <1>2, <2>1, <2>2, <2>3, EasesSame, DeliveredGoes
<1> QED
    BY <1>4, <1>5

(* A transfer from the oracle's own funds pays the buyer the store knows.  *)
LEMMA TransferDelivers ==
    ASSUME Shape, Delivered, NEW i \in Flows, Transfer(i), "forged" \notin past'
    PROVE  Delivered'
<1>1. PICK t \in TradeIds : t = flow[i].trade
    BY HandlerIs
<1>2. PICK to : to = flow[i].to
    OBVIOUS
<1>3. /\ flow[i].step = "transfer" /\ chain' = chain /\ mem' = mem /\ proofs' = proofs
      /\ Received(t, to) /\ Go(i, "answer")
    BY <1>1, <1>2 DEF Transfer, At, Happened
<1>4. flow[i].kind # "webhook"
    BY <1>3, HandlerIs DEF Unhooked, Fits
<1>5. /\ Due(t) /\ (flow[i].hash => Over)
      /\ Over \/ to = mem.trades[t].buyer
    BY <1>1, <1>2, <1>3, <1>4 DEF Delivered, Backs, Paying, OracleSteps
<1>6. Grows /\ (to \in Buyers => paid'[t, to] > 0)
    BY <1>3, GrowsReceived
<1>7. Eases(mem, mem') /\ \A u \in TradeIds : Follows(mem.trades[u], mem'.trades[u])
    BY <1>3, EasesSame DEF Eases
<1>8. Over' = Over
    BY <1>3 DEF Over, OnChain
<1>9. Remains /\ Sold(mem') = Sold(mem) /\ Sold(mem) \subseteq TradeIds
    BY <1>6, <1>7, <1>8, RemainsSo DEF Sold
<1>10. OneSold'
    BY <1>3, <1>9, OneSoldSame DEF Delivered
<1>11. RowsDue' /\ Proved'
    BY <1>3, <1>7, <1>9, RowsDueEased, ProvedStill DEF Delivered, Proved
<1>12. Over' \/ Got(t)'
  <2>1. CASE Over
    BY <1>8, <2>1
  <2>2. CASE ~Over
    <3>1. t \in Sold(mem) /\ to = mem.trades[t].buyer
        BY <1>5, <2>2 DEF Due
    <3>2. PICK b \in Buyers : b = to /\ b = mem.trades[t].buyer
        BY <3>1, SoldIs
    <3>3. paid'[t, b] > 0
        BY <1>6, <3>2
    <3> QED
        BY <1>3, <3>1, <3>2, <3>3 DEF Got
  <2> QED
    BY <2>1, <2>2
<1>13. "answer" \in StepNames
    BY OracleNames DEF OracleSteps
<1>14. PICK x : Turns(i, x) /\ x.step = "answer" /\ x.trade = t /\ x.hash = flow[i].hash
    BY <1>1, <1>3, <1>13, StepTurns
<1>15. Backs(x)'
    BY <1>5, <1>8, <1>9, <1>12, <1>14, DueRemains DEF Backs
<1> QED
    BY <1>9, <1>10, <1>11, <1>14, <1>15, BacksMove, DeliveredBy

LEMMA AnswerDelivers ==
    ASSUME Shape, Delivered, NEW i \in Flows, Answer(i)
    PROVE  Delivered'
<1>1. PICK t \in TradeIds : t = flow[i].trade
    BY HandlerIs
<1>2. /\ flow[i].step = "answer" /\ chain' = chain /\ paid' = paid /\ End(i)
      /\ mem' = CompletePeerTrade(mem, t).mem \/ mem' = ConfirmRelease(mem, t).mem
    BY <1>1 DEF Answer, At
<1>3. Due(t) /\ (Over \/ Got(t))
    BY <1>1, <1>2 DEF Delivered, Backs, Paying, OracleSteps
<1>4. Goes(mem, mem', t)
    BY <1>2, CompleteGoes, ConfirmGoes DEF Shape, Store
<1>5. ASSUME NEW s \in Flows, proofs'[s] # Null
      PROVE  proofs[s] # Null \/ Due(Listing)
  <2>1. CASE ~IsHook(i)
    BY <1>5, <2>1 DEF Answer
  <2>2. CASE IsHook(i)
    BY <1>1, <1>3, <2>2, HandlerIs DEF IsHook, Fits
  <2> QED
    BY <2>1, <2>2
<1> QED
    BY <1>2, <1>3, <1>4, <1>5, TellsDelivered

LEMMA SessionDelivers ==
    ASSUME Shape, Delivered, NEW i \in Flows, CreateSession(i)
    PROVE  Delivered'
<1>1. /\ flow[i].step = "session" /\ chain' = chain /\ mem' = mem /\ paid' = paid
      /\ Go(i, "execute") \/ End(i)
    BY DEF CreateSession, At
<1>2. /\ Due(flow[i].trade) /\ (flow[i].hash => Over)
      /\ flow[i].trade = Listing
    BY <1>1, HandlerIs DEF Delivered, Backs, Fits
<1>3. PICK x : Turns(i, x) /\ Backs(x) /\ x.trade \in TradeIds
  <2>1. CASE Go(i, "execute")
    <3>1. PICK x : /\ Turns(i, x) /\ x.step = "execute"
                   /\ x.trade = flow[i].trade /\ x.hash = flow[i].hash
        BY <2>1, QuietNames, StepTurns
    <3> QED
        BY <1>2, <3>1, HandlerIs, AskingBacks
  <2>2. CASE End(i)
    BY <2>2, EndTurns, DoneBacks
  <2> QED
    BY <1>1, <2>1, <2>2
<1> QED
    BY <1>1, <1>2, <1>3, EasesSame, DeliveredGoes

LEMMA ExecuteDelivers ==
    ASSUME Shape, Delivered, NEW i \in Flows, ExecuteProof(i), "proof" \notin past'
    PROVE  Delivered'
<1>1. /\ chain' = chain /\ mem' = mem /\ paid' = paid /\ proofs' = proofs /\ End(i)
    BY DEF ExecuteProof, Happened
<1> QED
    BY <1>1, EndTurns, DoneBacks, EasesSame, DeliveredGoes

(* A trade that is reclaimed pays nobody and is offered again to no other. *)
LEMMA ReclaimDelivers ==
    ASSUME Shape, Delivered, NEW i \in EscrowIds, ReclaimExpired(i)
    PROVE  Delivered'
<1>1. /\ Reclaims(chain, chain') /\ mem' = mem /\ proofs' = proofs /\ flow' = flow
      /\ paid' = paid
    BY ReclaimExpiredIs
<1>2. \/ OnChain'.status = OnChain.status /\ OnChain'.buyer = OnChain.buyer
      \/ /\ OnChain'.status \in {"Resolved", "Created"}
         /\ OnChain'.buyer \in {OnChain.buyer, NoOne}
         /\ OnChain.status \in {"Created", "Funded"}
    BY <1>1, ListedAssumption DEF Reclaims, OnChain, ChainId
<1>3. /\ Over' = Over /\ OnChain'.buyer \in {OnChain.buyer, NoOne}
      /\ InEscrow(OnChain'.status) => OnChain'.buyer # NoOne
    BY <1>2 DEF Over, InEscrow, Delivered, OneSold
<1>4. Eases(mem, mem') /\ \A u \in TradeIds : Follows(mem.trades[u], mem'.trades[u])
    BY <1>1, EasesSame DEF Eases
<1>5. Remains /\ Sold(mem') = Sold(mem) /\ Sold(mem) \subseteq TradeIds
    BY <1>1, <1>3, <1>4, GrowsSame, RemainsSo DEF Sold
<1>6. OneSold'
    BY <1>3, <1>5, OneSoldKept DEF Delivered
<1>7. RowsDue' /\ Proved'
    BY <1>1, <1>4, <1>5, RowsDueEased, ProvedStill DEF Delivered, Proved
<1> QED
    BY <1>1, <1>5, <1>6, <1>7, BacksRest, DeliveredBy

(* What the chain has completed the dashboard may complete.                *)
LEMMA CheckDelivers ==
    ASSUME Shape, Delivered, CheckChain
    PROVE  Delivered'
<1>1. /\ mem' = CompletePeerTrade(mem, Listing).mem /\ chain' = chain /\ paid' = paid
      /\ flow' = flow /\ proofs' = proofs /\ Over
    BY DEF CheckChain, Over
<1>2. Goes(mem, mem', Listing) /\ Listing \in TradeIds
    BY <1>1, ListingIs, CompleteGoes DEF Shape, Store
<1>3. \A u \in TradeIds : Follows(mem.trades[u], mem'.trades[u])
    BY <1>2 DEF Goes
<1>4. Remains /\ OneSold' /\ Sold(mem') = Sold(mem) /\ Sold(mem) \subseteq TradeIds
    BY <1>1, <1>3, Unchanging
<1>5. Due(Listing)' /\ (Listing \in Sold(mem) => Got(Listing)')
    BY <1>1, <1>2, <1>4, OverGot, DueRemains DEF Remains, Due, Delivered
<1>6. RowsDue' /\ Proved'
    BY <1>1, <1>2, <1>4, <1>5, RowsDueGone, ProvedStill DEF Delivered, Proved
<1> QED
    BY <1>1, <1>4, <1>6, BacksRest, DeliveredBy

LEMMA OutsideDelivers ==
    ASSUME Shape, Delivered
    PROVE  /\ \A s \in Flows : HookRejects(s) => Delivered'
           /\ \A t \in TradeIds : Interfere(t) => Delivered'
           /\ UNCHANGED vars => Delivered'
<1>1. ASSUME NEW s \in Flows, HookRejects(s)
      PROVE  Delivered'
  <2>1. mem' = mem /\ chain' = chain /\ paid' = paid /\ flow' = flow
    BY <1>1 DEF HookRejects
  <2>2. \A r \in Flows : proofs'[r] # Null => proofs[r] # Null \/ Due(Listing)
    BY <1>1 DEF HookRejects
  <2> QED
    BY <2>1, <2>2, EasesSame, DeliveredRests
<1>2. ASSUME NEW t \in TradeIds, Interfere(t)
      PROVE  Delivered'
    BY <1>2, InterfereIs, InterfereEases, DeliveredRests
<1>3. ASSUME UNCHANGED vars
      PROVE  Delivered'
  <2>1. mem' = mem /\ chain' = chain /\ paid' = paid /\ flow' = flow /\ proofs' = proofs
    BY <1>3 DEF vars
  <2> QED
    BY <2>1, EasesSame, DeliveredRests
<1> QED
    BY <1>1, <1>2, <1>3

LEMMA DoneKept ==
    ASSUME Shape, Delivered, [Next]_vars,
           past' \cap {"selflock", "forged", "proof", "contended", "direct", "again"} = {}
    PROVE  Delivered'
<1>0. /\ past \subseteq past' /\ "direct" \notin past' /\ "direct" \notin past
      /\ "selflock" \notin past' /\ "forged" \notin past' /\ "proof" \notin past'
      /\ "contended" \notin past' /\ "again" \notin past'
    BY PastGrows
<1>1. ASSUME NEW i \in Flows, Begin(i)
      PROVE  Delivered'
    BY <1>1, OrderDelivers, ClickDelivers, HookDelivers DEF Begin
<1>2. ASSUME NEW i \in Flows, Continue(i)
      PROVE  Delivered'
    BY <1>0, <1>2, OrderDelivers, LockDelivers, TakeDelivers, VerifyDelivers, AskDelivers,
       CallDelivers, SettleDelivers, LocksDelivers, SubmitDelivers, MinedDelivers,
       TransferDelivers, AnswerDelivers, SessionDelivers, ExecuteDelivers DEF Continue
<1>3. ASSUME NEW i \in Flows, ClosePage(i)
      PROVE  Delivered'
    BY <1>3, OrderDelivers
<1>4. ASSUME NEW i \in EscrowIds, NEW u \in Buyers \cup {Seller}, CallDirectly(u, i)
      PROVE  Delivered'
    BY <1>0, <1>4 DEF CallDirectly
<1>5. ASSUME NEW i \in EscrowIds, ResolveDispute(i)
      PROVE  Delivered'
    BY <1>0, <1>5, ResolveDisputeShape
<1>6. ASSUME NEW i \in EscrowIds, ReclaimExpired(i)
      PROVE  Delivered'
    BY <1>6, ReclaimDelivers
<1>7. CASE CheckChain
    BY <1>7, CheckDelivers
<1> QED
    BY <1>1, <1>2, <1>3, <1>4, <1>5, <1>6, <1>7, OutsideDelivers DEF Next

(* A trade the store calls completed was paid out to its buyer, unless     *)
(* the oracle locked the listing itself or made up a transfer, a proof     *)
(* completed the trade, chain and store know different buyers, the         *)
(* listing was sold again, or the contract is called from outside.         *)
THEOREM CompletedArePaid == Spec => []CompletedPaid
<1>1. Init => DoneInv
  <2> SUFFICES ASSUME Init PROVE Delivered
    BY DEF DoneInv
  <2>1. /\ \A t \in TradeIds : ~Confirmed(mem.trades[t]) /\ ~Complete(mem.trades[t])
        /\ Sold(mem) = {}
    BY FirstRows
  <2>2. OnChain.status = "Created"
    BY OfferIs DEF Init, Offer, OnChain, ChainId
  <2>3. OneSold /\ RowsDue
    BY <2>1, <2>2 DEF OneSold, RowsDue, Over, InEscrow
  <2>4. \A i \in Flows : Backs(flow[i])
    BY FirstFlows, QuietBacks
  <2>5. \A i \in Flows : proofs[i] = Null
    BY DEF Init
  <2> QED
    BY <2>3, <2>4, <2>5 DEF Delivered
<1>2. Shape /\ DoneInv /\ [Next]_vars => DoneInv'
  <2> SUFFICES ASSUME Shape, DoneInv, [Next]_vars,
                      past' \cap {"selflock", "forged", "proof", "contended", "direct",
                                  "again"} = {}
               PROVE  Delivered'
    BY DEF DoneInv
  <2>1. past \cap {"selflock", "forged", "proof", "contended", "direct", "again"} = {}
    BY PastGrows
  <2> QED
    BY <2>1, DoneKept DEF DoneInv
<1>3. DoneInv => CompletedPaid
    BY DEF DoneInv, CompletedPaid, Delivered, RowsDue, Complete, Got, Sold, Trade
<1> QED
    BY <1>1, <1>2, <1>3, ShapeKept, PTL DEF Spec
=============================================================================
