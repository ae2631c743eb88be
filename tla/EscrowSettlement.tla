-------------------------- MODULE EscrowSettlement --------------------------
(***************************************************************************)
(* One listing from the order to the USDC: the pages that drive it in the  *)
(* browsers of its buyers and its seller, the trade store, the oracle, the *)
(* TLSNotary routes and the escrow contract.                               *)
(*                                                                         *)
(* A flow is a handler at work, in a page or in the server: it goes from   *)
(* one await to the next, and the step it is at is the call it makes next. *)
(* A page reads the trade again after every call, so the flow reads what   *)
(* the store holds.  Nobody sees the listing before it is published, on    *)
(* the chain and in the store: that is the initial state.                  *)
(***************************************************************************)
EXTENDS StoreSettlement, EscrowContract

CONSTANTS
    Oracle,        \* the server's wallet
    Requests,      \* amounts buyers ask for
    Reported,      \* amounts the payment provider may report
    MaxFlows,      \* handlers that ever start
    MaxEvents      \* lost answers, closed pages, other operations on the trade
                   \* and calls of the contract from outside the program

ASSUME FlowAssumption ==
    /\ {MaxFlows, MaxEvents} \subseteq Nat
    /\ Cardinality(Listings) = 1
    /\ Reported \subseteq Amounts
ASSUME AddressAssumption ==
    /\ NoOne \notin Buyers \cup {Seller, Oracle, Null}
    /\ Oracle \notin Buyers \cup {Seller}
ASSUME OrdersAssumption == Requests \subseteq Nat
ASSUME ListedAssumption == 1 \in EscrowIds   \* the listing has a number

VARIABLES
    chain,   \* the escrow contract
    mem,     \* the trade store
    proofs,  \* verificationStore: the TLSN session a flow opened
    flow,    \* the handlers
    fiat,    \* trades whose price, or more, was seen to be paid
    paid,    \* how often a buyer received the USDC of a trade
    past,    \* what happened on the way; nothing reads it but the properties
    events   \* how much of MaxEvents is used

vars == <<chain, mem, proofs, flow, fiat, paid, past, events>>

Flows == 1..MaxFlows
Now == 0  \* deadlines are TradeStore's subject; here no payment is late
Listing == CHOOSE l \in Listings : TRUE
ChainId == 1   \* the listing's number; its children are settled under it
Trade(t) == mem.trades[t]
OnChain == chain.trades[ChainId]

NoFlow == [kind |-> "none", step |-> "none", who |-> NoOne, trade |-> Listing,
           arg |-> Null, to |-> Null, hash |-> FALSE]
Done == [NoFlow EXCEPT !.kind = "done"]

Start(i, kind, step, who, t, arg) ==
    /\ flow[i] = NoFlow /\ \A j \in Flows : j < i => flow[j] # NoFlow
    /\ flow' = [flow EXCEPT ![i] = [NoFlow EXCEPT !.kind = kind, !.step = step,
                                    !.who = who, !.trade = t, !.arg = arg]]
At(i, step) == flow[i].step = step
Go(i, step) == flow' = [flow EXCEPT ![i].step = step]
End(i) == flow' = [flow EXCEPT ![i] = Done]
GoIf(i, ok, step) == IF ok THEN Go(i, step) ELSE End(i)

Event == events < MaxEvents /\ events' = events + 1
Happened(what) == past' = past \cup {what}
Fault(what) == Event /\ Happened(what)

(* Another handler is paying out at this moment.                           *)
OracleSteps == {"selflock", "submit", "mine", "transfer", "answer"}
Overlap(i) ==
    IF \E j \in Flows \ {i} : flow[j].step \in OracleSteps THEN {"overlap"} ELSE {}

Received(t, to) ==
    paid' = IF <<t, to>> \in DOMAIN paid THEN [paid EXCEPT ![<<t, to>>] = Upto(@ + 1, 2)]
            ELSE paid

Init ==
    /\ chain = Initiate(NewContract, 0, Seller, Deposit)
    /\ mem = CreatePeerOffer(EmptyMemory, Listing).mem
    /\ proofs = [i \in Flows |-> Null]
    /\ flow = [i \in Flows |-> NoFlow]
    /\ paid = [x \in TradeIds \X Buyers |-> 0]
    /\ fiat = {}
    /\ past = {}
    /\ events = 0
-----------------------------------------------------------------------------
(* An order: the contract is asked to lock the listing for the buyer, then *)
(* the store to take the offer.  The contract is not asked without a       *)
(* wallet on its chain, or by the dashboard when the seller is busy or the *)
(* order partial.                                                          *)
PlaceOrder(i, b, want) ==
    /\ mem.inv[Listing] # Null
    /\ \E step \in {"lock", "take"} : Start(i, "order", step, b, Listing, want)
    /\ UNCHANGED <<fiat, chain, mem, proofs, paid, past, events>>

(* A call that would revert in simulation is taken for one not needed.     *)
SimulateLock(i) ==
    /\ At(i, "lock")
    /\ Go(i, IF CanFund(chain, flow[i].who, ChainId) THEN "locking" ELSE "take")
    /\ UNCHANGED <<fiat, chain, mem, proofs, paid, past, events>>

Contended(b) ==
    \E t \in TradeIds : Trade(t) # Null /\ Trade(t).buyer \notin {b, Null}
LockMined(i) ==
    /\ At(i, "locking")
    /\ IF CanFund(chain, flow[i].who, ChainId)
       THEN /\ chain' = Fund(chain, Now, flow[i].who, ChainId, 0)
            /\ past' = past \cup Overlap(i)
                         \cup IF Contended(flow[i].who) THEN {"contended"} ELSE {}
            /\ \/ Go(i, "take") /\ UNCHANGED events
               \/ End(i) /\ Event
       ELSE End(i) /\ UNCHANGED <<chain, past, events>>
    /\ UNCHANGED <<fiat, mem, proofs, paid>>

(* The trades of the listing that somebody bought: all are settled under   *)
(* its one number.                                                         *)
Sold(m) == {t \in TradeIds : m.trades[t] # Null /\ m.trades[t].buyer # Null}
TakeOrder(i) ==
    /\ At(i, "take")
    /\ \E draw \in {d \in Draws(mem, Listing) : ~Redrawn(mem, Listing, d)} :
        LET res == TakePeerOffer(mem, Now, flow[i].who, Listing, flow[i].arg, draw) IN
        /\ mem' = res.mem
        /\ past' = past \cup (IF res.ok THEN Overlap(i) ELSE {})
                        \cup IF res.ok /\ OnChain.buyer \notin {flow[i].who, NoOne}
                             THEN {"contended"} ELSE {}
                        \cup IF Sold(mem) # {} /\ res.mem.trades # mem.trades
                             THEN {"again"} ELSE {}
    /\ End(i)
    /\ UNCHANGED <<fiat, chain, proofs, paid, events>>
-----------------------------------------------------------------------------
(* "I Have Paid": the checkout is opened if there is none, the payment     *)
(* verified, and when it is neither short nor late the settlement follows. *)
ClickPaid(i, t) ==
    /\ Trade(t) # Null
    /\ Trade(t).life = "AWAITING_PAYMENT" /\ Now < Trade(t).due
    /\ Start(i, "settlement", "checkout", Trade(t).buyer, t, Trade(t).ref)
    /\ UNCHANGED <<fiat, chain, mem, proofs, paid, past, events>>

OpenCheckout(i) ==
    /\ At(i, "checkout")
    /\ \/ flow[i].arg # Null /\ Go(i, "verify") /\ UNCHANGED mem
       \/ /\ flow[i].arg = Null
          /\ \E r \in Pick({x \in TxRefs : mem.attempts[x] = Null}) :
                LET res == Checkout(mem, Now, flow[i].who, flow[i].trade, r, <<Null, Null>>) IN
                /\ mem' = res.mem
                /\ flow' = [flow EXCEPT ![i] = IF ~res.ok THEN Done ELSE
                              [@ EXCEPT !.step = "verify",
                                        !.arg = res.mem.trades[flow[i].trade].ref]]
    /\ UNCHANGED <<fiat, chain, proofs, paid, past, events>>

\* Mutant: a short payment goes on as well.
ProceedsShort(res, t) == res.ok /\ res.mem.trades[t].life # "LATE_PAYMENT_REVIEW"
Proceeds(res, t) ==
    /\ res.ok /\ res.mem.trades[t].pay # "UNDERPAID"
    /\ res.mem.trades[t].life # "LATE_PAYMENT_REVIEW"

VerifyPaid(i) ==
    /\ At(i, "verify")
    /\ \E f \in Pick({x \in FlwIds : mem.consumed[x] = Null}), amount \in Reported :
        LET t == flow[i].trade
            res == RecordPayment(mem, Now, t, flow[i].arg, f, amount, Null) IN
        /\ mem' = res.mem
        /\ GoIf(i, Proceeds(res, t), "initiate")
        /\ fiat' = IF res.ok /\ amount \in {"exact", "over"} THEN fiat \cup {t} ELSE fiat
    /\ UNCHANGED <<chain, proofs, paid, past, events>>

(* handleCompleteFullSettlementPipeline, also "Finalize Escrow Release".   *)
Finalizable == {"PAYMENT_CONFIRMED", "SELLER_PAYOUT_PENDING",
                "SELLER_PAYOUT_CONFIRMED", "RELEASE_PENDING"}
ClickFinalize(i, t) ==
    /\ Trade(t) # Null /\ Trade(t).life \in Finalizable
    /\ \E u \in {Trade(t).buyer, Seller} : Start(i, "settlement", "initiate", u, t, Null)
    /\ UNCHANGED <<fiat, chain, mem, proofs, paid, past, events>>

(* A call the store refuses is shown to the user, and the next one made.   *)
StepAfter(step, t) ==
    CASE step = "initiate" -> "confirm"
      [] step = "confirm"  -> IF t \in Listings THEN "chain" ELSE "request"
      [] step = "request"  -> "settle"

AskStore(i) ==
    LET t == flow[i].trade
        res == CASE At(i, "initiate") -> PayoutStep(mem, t, "initiate")
                 [] At(i, "confirm")  -> PayoutStep(mem, t, "confirm")
                 [] At(i, "request")  -> RequestRelease(mem, t)
    IN  /\ flow[i].step \in {"initiate", "confirm", "request"}
        /\ mem' = res.mem
        /\ Go(i, StepAfter(flow[i].step, t))
        /\ UNCHANGED <<fiat, chain, proofs, paid, past, events>>

(* The seller's wallet releases the funds, a buyer's marks the fiat sent.  *)
(* Whatever goes wrong there is ignored; a wallet that is not connected is *)
(* not asked.                                                              *)
CallContract(i) ==
    LET next == IF flow[i].kind = "settlement" THEN "request" ELSE "settle"
        who == flow[i].who
    IN
    /\ At(i, "chain")
    /\ \/ Go(i, next) /\ UNCHANGED <<chain, paid, past, events>>
       \/ /\ flow[i].kind = "settlement" /\ who # Seller
          /\ CanMarkSent(chain, who, ChainId)
          /\ chain' = MarkSent(chain, Now, ChainId)
          /\ Go(i, next) /\ UNCHANGED <<paid, past, events>>
       \/ /\ CanRelease(chain, who, ChainId)
          /\ chain' = CompleteTrade(chain, ChainId)
          /\ Received(flow[i].trade, OnChain.buyer)
          /\ \/ /\ flow' = [flow EXCEPT ![i].step = next, ![i].hash = TRUE]
                /\ past' = past \cup Overlap(i) /\ UNCHANGED events
             \/ Go(i, next) /\ Fault("lost")
    /\ UNCHANGED <<fiat, mem, proofs>>

(* "Release Escrow", of the trading page and of the dashboard: offered once *)
(* the payment is confirmed.                                               *)
ClickRelease(i, u, t) ==
    /\ Trade(t) # Null /\ Trade(t).pay = "CONFIRMED"
    /\ u \in {Trade(t).buyer, Seller} \ {Null}
    /\ Start(i, "release", IF t \in Listings THEN "chain" ELSE "settle", u, t, Null)
    /\ UNCHANGED <<fiat, chain, mem, proofs, paid, past, events>>
-----------------------------------------------------------------------------
(* escrow_confirm_on_chain and oracleSettleToBuyer.  Without a transaction *)
(* of the caller's the oracle settles, and whatever fails there leads to a *)
(* transfer from the oracle's own funds; last, the store is told.          *)
\* Mutants: a completed trade is paid again, one that is not live never.
PaysAgain(status) ==
    CASE status \in {"Funded", "FiatSent"} -> "submit"
      [] status = "Created"              -> "selflock"
      [] OTHER                           -> "transfer"
PaysIfLive(status) ==
    CASE status \in {"Funded", "FiatSent"} -> "submit"
      [] status = "Created"              -> "selflock"
      [] OTHER                           -> "answer"
SettleStep(status) ==
    CASE status = "Completed"            -> "answer"
      [] status \in {"Funded", "FiatSent"} -> "submit"
      [] status = "Created"              -> "selflock"
      [] OTHER                           -> "transfer"

Settle(i) ==
    LET row == Trade(flow[i].trade)
        to == IF row.buyer # Null THEN row.buyer ELSE flow[i].who
    IN
    /\ At(i, "settle")
    /\ \/ /\ flow[i].hash
          /\ mem' = ConfirmRelease(mem, flow[i].trade).mem
          /\ End(i) /\ UNCHANGED <<past, events>>
       \/ /\ ~flow[i].hash
          /\ UNCHANGED mem
          /\ \/ /\ flow' = [flow EXCEPT ![i].to = to, ![i].step = SettleStep(OnChain.status)]
                /\ past' = past \cup Overlap(i) /\ UNCHANGED events
             \/ /\ flow' = [flow EXCEPT ![i].to = to, ![i].step = "transfer"]
                /\ Fault("unread")
    /\ UNCHANGED <<fiat, chain, proofs, paid>>

(* A listing nobody locked is locked by the oracle, for itself.            *)
OracleLocks(i) ==
    /\ At(i, "selflock")
    /\ IF CanFund(chain, Oracle, ChainId)
       THEN /\ chain' = Fund(chain, Now, Oracle, ChainId, 0)
            /\ Go(i, "submit") /\ Happened("selflock")
       ELSE Go(i, "transfer") /\ UNCHANGED <<chain, past>>
    /\ UNCHANGED <<fiat, mem, proofs, paid, events>>

IsHook(i) == flow[i].kind = "webhook"
ProofOf(i) == IF IsHook(i) THEN <<"session", flow[i].arg>> ELSE <<"release", i>>
(* Where a release that failed leaves its caller.                          *)
ReleaseFails(i) ==
    IF IsHook(i)
    THEN proofs' = [proofs EXCEPT ![flow[i].arg] = "verified"] /\ End(i)
    ELSE Go(i, "transfer") /\ UNCHANGED proofs

(* oracleRelease: checked and simulated, then sent, then mined.            *)
OracleSubmits(i) ==
    /\ At(i, "submit")
    /\ IF CanOracleRelease(chain, ChainId, ProofOf(i))
       THEN Go(i, "mine") /\ UNCHANGED proofs
       ELSE ReleaseFails(i)
    /\ UNCHANGED <<fiat, chain, mem, paid, past, events>>
OracleMined(i) ==
    /\ At(i, "mine")
    /\ IF CanOracleRelease(chain, ChainId, ProofOf(i))
       THEN /\ chain' = OracleRelease(chain, ChainId, ProofOf(i))
            /\ Received(flow[i].trade, OnChain.buyer)
            /\ \/ Go(i, "answer") /\ UNCHANGED <<proofs, past, events>>
               \/ ReleaseFails(i) /\ Fault("lost")
       ELSE ReleaseFails(i) /\ UNCHANGED <<chain, paid, past, events>>
    /\ UNCHANGED <<fiat, mem>>

(* A transfer that fails is given the hash of a transaction nobody made.   *)
Transfer(i) ==
    /\ At(i, "transfer")
    /\ \/ Received(flow[i].trade, flow[i].to) /\ UNCHANGED past
       \/ Happened("forged") /\ UNCHANGED paid
    /\ Go(i, "answer")
    /\ UNCHANGED <<fiat, chain, mem, proofs, events>>

Answer(i) ==
    /\ At(i, "answer")
    /\ IF IsHook(i)
       THEN /\ proofs' = [proofs EXCEPT ![flow[i].arg] = "completed"]
            /\ mem' = CompletePeerTrade(mem, flow[i].trade).mem
       ELSE mem' = ConfirmRelease(mem, flow[i].trade).mem /\ UNCHANGED proofs
    /\ End(i)
    /\ UNCHANGED <<fiat, chain, paid, past, events>>
-----------------------------------------------------------------------------
(* A payment proved by TLSNotary: a session is created, unless the chain   *)
(* is read and knows another buyer, and its proof executed; the dashboard  *)
(* then releases the escrow, the trading page does not.                    *)
ClickProve(i, u) ==
    /\ Trade(Listing) # Null /\ u \in {Trade(Listing).buyer, Seller}
    /\ Trade(Listing).life \in Finalizable \cup {"AWAITING_PAYMENT"}
    /\ Start(i, "proof", "session", u, Listing, Null)
    /\ UNCHANGED <<fiat, chain, mem, proofs, paid, past, events>>
CreateSession(i) ==
    LET own == OnChain.buyer \in {NoOne, flow[i].who} IN
    /\ At(i, "session")
    /\ \/ /\ proofs' = [proofs EXCEPT ![i] = "pending"]
          /\ Go(i, "execute")
          /\ IF own THEN UNCHANGED <<past, events>> ELSE Fault("unread")
       \/ ~own /\ End(i) /\ UNCHANGED <<proofs, past, events>>
    /\ UNCHANGED <<fiat, chain, mem, paid>>

(* A proof that verifies completes the trade: the contract is not asked.   *)
ExecuteProof(i) ==
    /\ At(i, "execute")
    /\ \/ End(i) /\ UNCHANGED <<fiat, mem, proofs, past>>
       \/ \E status \in {"completed", "verified"} :
            /\ proofs' = [proofs EXCEPT ![i] = status]
            /\ mem' = CompletePeerTrade(mem, Listing).mem
            /\ Happened("proof") /\ fiat' = fiat \cup {Listing}
            /\ Go(i, "chain") \/ End(i)
    /\ UNCHANGED <<chain, paid, events>>

(* POST /api/tlsn/webhook, for the session of flow s.                      *)
Ready(status) == status \notin {"completed", "oracle_pending"}
HookRejects(s) ==
    /\ proofs[s] # Null /\ Ready(proofs[s])
    /\ proofs' = [proofs EXCEPT ![s] = "failed"]
    /\ Event
    /\ UNCHANGED <<fiat, chain, mem, flow, paid, past>>
HookAccepts(i, s) ==
    /\ proofs[s] # Null /\ Ready(proofs[s])
    /\ proofs' = [proofs EXCEPT ![s] = "oracle_pending"]
    /\ Start(i, "webhook", "submit", Oracle, Listing, s)
    /\ past' = past \cup Overlap(i)
    /\ fiat' = fiat \cup {Listing}
    /\ UNCHANGED <<chain, mem, paid, events>>
-----------------------------------------------------------------------------
(* A page is closed: what it asked the server for goes on without it.      *)
PageSteps == {"lock", "locking", "take", "checkout", "verify", "initiate", "confirm",
              "chain", "request", "settle", "session", "execute"}
ClosePage(i) ==
    /\ flow[i].step \in PageSteps
    /\ End(i) /\ Event
    /\ UNCHANGED <<fiat, chain, mem, proofs, paid, past>>

(* The other operations a trade can meet meanwhile, and the dashboard that *)
(* completes what the chain completed, though the number may have been     *)
(* completed for a part of the listing.                                    *)
Interfere(t) ==
    /\ \E res \in {PayoutStep(mem, t, "hold"), RefundRequest(mem, t), RefundComplete(mem, t),
                   HoldRelease(mem, t)}
                  \cup {CancelTrade(mem, u, t) : u \in Buyers \cup {Seller}} :
            mem' = res.mem /\ res.mem # mem
    /\ Event
    /\ UNCHANGED <<fiat, chain, proofs, flow, paid, past>>
CheckChain ==
    /\ OnChain.status = "Completed"
    /\ mem' = CompletePeerTrade(mem, Listing).mem
    /\ IF Listing \in fiat THEN Event /\ UNCHANGED past ELSE Fault("mistaken")
    /\ UNCHANGED <<fiat, chain, proofs, flow, paid>>

(* The contract is open to everyone: calls that do not come from a page.   *)
Completes(next) ==
    {i \in EscrowIds : chain.trades[i].status # "Completed" /\ chain.trades[i].buyer # NoOne
                       /\ next.trades[i].status = "Completed"}
Direct(next) ==
    /\ chain' = next
    /\ IF Completes(next) = {} THEN UNCHANGED paid
       ELSE \E i \in Completes(next) : Received(Listing, chain.trades[i].buyer)
    /\ UNCHANGED <<fiat, mem, proofs, flow>>

CallDirectly(u, i) ==
    /\ \/ CanDispute(chain, Now, u, i) /\ Direct(Dispute(chain, i))
       \/ CanMarkSent(chain, u, i) /\ Direct(MarkSent(chain, Now, i))
       \/ CanRelease(chain, u, i) /\ Direct(CompleteTrade(chain, i))
       \/ \E units \in Requests :
            \/ CanWithdraw(chain, u, i, units) /\ Direct(Withdraw(chain, i, units))
            \/ CanAllocate(chain, u, i, units) /\ Direct(AllocateOrder(chain, Now, u, i, units))
    /\ Event
    /\ past' = past \cup {"direct"} \cup Overlap(0)

(* The oracle resolves what was disputed; the oracle or the seller reclaims *)
(* what expired, which counts as an event, but once for free when the      *)
(* contract was called from outside before.  A listing allocated to its    *)
(* last unit is Funded by no one, and reclaimed like a trade its buyer did *)
(* not pay.                                                                *)
ResolveDispute(i) ==
    \E favour \in BOOLEAN :
        /\ CanResolve(chain, i, favour, <<"dispute", i>>)
        /\ Direct(Resolve(chain, i, favour, <<"dispute", i>>))
        /\ UNCHANGED <<past, events>>
ReclaimExpired(i) ==
    /\ CanReclaim(chain, Now, i)
    /\ Event \/ ("direct" \in past /\ "reclaimed" \notin past /\ UNCHANGED events)
    /\ Direct(Reclaim(chain, Now, i))
    /\ past' = past \cup {"reclaimed"} \cup Overlap(0) \cup
        IF chain.trades[i].status = "Funded" /\ chain.trades[i].buyer = NoOne
        THEN {"reopened"} ELSE {}

Begin(i) ==
    \/ \E b \in Buyers, want \in Requests : PlaceOrder(i, b, want)
    \/ \E t \in TradeIds :
        \/ ClickPaid(i, t) \/ ClickFinalize(i, t)
        \/ \E u \in Buyers \cup {Seller} : ClickRelease(i, u, t)
    \/ \E u \in Buyers \cup {Seller} : ClickProve(i, u)
    \/ \E s \in Flows : HookAccepts(i, s)
Continue(i) ==
    \/ SimulateLock(i) \/ LockMined(i) \/ TakeOrder(i)
    \/ OpenCheckout(i) \/ VerifyPaid(i) \/ AskStore(i) \/ CallContract(i)
    \/ Settle(i) \/ OracleLocks(i) \/ OracleSubmits(i) \/ OracleMined(i)
    \/ Transfer(i) \/ Answer(i)
    \/ CreateSession(i) \/ ExecuteProof(i)

Next ==
    \/ \E i \in Flows : Begin(i) \/ Continue(i) \/ ClosePage(i) \/ HookRejects(i)
    \/ \E t \in TradeIds : Interfere(t)
    \/ \E i \in EscrowIds :
        \/ \E u \in Buyers \cup {Seller} : CallDirectly(u, i)
        \/ ResolveDispute(i) \/ ReclaimExpired(i)
    \/ CheckChain

Spec == Init /\ [][Next]_vars
=============================================================================
