--------------------------- MODULE EscrowContract ---------------------------
(***************************************************************************)
(* ArcP2PEscrowService: trades and listing inventories by number, and the  *)
(* USDC the contract holds.  A call is a predicate, whether it does not    *)
(* revert in state c, and an operator, the state it leaves.  Fees go out   *)
(* with the amount they are taken from, so only the sum counts here.  The  *)
(* owner's setters, events and the hash of the bank details are left out.  *)
(***************************************************************************)
EXTENDS Integers, FiniteSets

CONSTANTS
    EscrowIds,       \* numbers of trades, from 1 on
    DisputeWindow, ReleaseTimeout,  \* in ticks
    NoOne            \* the zero address

ASSUME ContractAssumption ==
    /\ EscrowIds \subseteq Nat \ {0} /\ IsFiniteSet(EscrowIds)
    /\ {DisputeWindow, ReleaseTimeout} \subseteq Nat

EscrowStatus == {"Created", "Funded", "FiatSent", "Completed", "Disputed", "Resolved"}

(* A number nobody used reads as a trade in state Created of no one.       *)
NoTrade ==
    [seller |-> NoOne, buyer |-> NoOne, amount |-> 0, collateral |-> 0,
     status |-> "Created", createdAt |-> 0, fundedAt |-> 0, sentAt |-> 0]
NoInventory == [avail |-> 0, alloc |-> 0, slot |-> 0, active |-> FALSE]

NewContract ==
    [trades |-> [i \in EscrowIds |-> NoTrade],
     inv |-> [i \in EscrowIds |-> NoInventory],
     parent |-> [i \in EscrowIds |-> 0],
     used |-> {}, balance |-> 0, next |-> 1]

InState(c, i, status) == c.trades[i].status = status

(* A transfer to the zero address reverts, and so does one of USDC that    *)
(* the contract does not have; a transfer of nothing is not made.          *)
CanTransfer(c, to, units) == units = 0 \/ (to # NoOne /\ c.balance >= units)

(* An amount leaves the allocated bucket only if it is there.              *)
Unallocated(inv, units) == IF inv.alloc >= units THEN inv.alloc - units ELSE inv.alloc
(* The collateral of a trade that ends goes back to its buyer.             *)
Settled(trade, status) == [trade EXCEPT !.status = status, !.collateral = 0]
-----------------------------------------------------------------------------
(* initiateTrade.                                                          *)
CanInitiate(c, units) == units > 0 /\ c.next \in EscrowIds
Initiate(c, now, who, units) ==
    [c EXCEPT
        !.trades[c.next] = [NoTrade EXCEPT !.seller = who, !.amount = units,
                                           !.createdAt = now],
        !.inv[c.next] = [avail |-> units, alloc |-> 0, slot |-> 0, active |-> TRUE],
        !.balance = @ + units,
        !.next = @ + 1]

\* Mutant: the allocated units stay available.
StillAvailable(inv, units, i) == [inv EXCEPT !.alloc = @ + units, !.slot = i]
Allocated(inv, units, i) ==
    [inv EXCEPT !.avail = @ - units, !.alloc = @ + units, !.slot = i]

(* fundBuyerCollateral: a buyer takes all of a listing.                    *)
CanFund(c, who, i) ==
    /\ InState(c, i, "Created")
    /\ c.trades[i].seller # who
    /\ c.inv[i].active => c.inv[i].slot = 0 /\ c.inv[i].avail >= c.trades[i].amount
Locked(trade, now, who, collateral) ==
    [trade EXCEPT !.buyer = who, !.collateral = collateral,
                  !.status = "Funded", !.fundedAt = now]
Fund(c, now, who, i, collateral) ==
    [c EXCEPT
        !.inv[i] = IF @.active THEN Allocated(@, c.trades[i].amount, i) ELSE @,
        !.trades[i] = Locked(@, now, who, collateral),
        !.balance = @ + collateral]

(* allocatePartialOrder.  A parent with nothing left becomes Funded, though *)
(* nobody funded it.                                                       *)
CanAllocate(c, buyer, l, units) ==
    /\ units > 0 /\ buyer # NoOne
    /\ c.inv[l].active /\ c.trades[l].seller # buyer
    /\ c.inv[l].slot = 0
    /\ units <= c.inv[l].avail
    /\ c.next \in EscrowIds
ChildOrder(seller, buyer, units, now) ==
    [NoTrade EXCEPT !.seller = seller, !.buyer = buyer, !.amount = units,
                    !.status = "Funded", !.createdAt = now, !.fundedAt = now]
AllocateOrder(c, now, buyer, l, units) ==
    [c EXCEPT
        !.inv[l] = Allocated(@, units, c.next),
        !.parent[c.next] = l,
        !.trades = [c.trades EXCEPT
            ![c.next] = ChildOrder(c.trades[l].seller, buyer, units, now),
            ![l].status = IF c.inv[l].avail = units THEN "Funded"
                          ELSE c.trades[l].status],
        !.next = @ + 1]

(* withdrawAvailableInventory.                                             *)
\* Mutant: what backs an order can be withdrawn.
CanWithdrawAll(c, who, l, units) ==
    c.inv[l].active /\ c.trades[l].seller = who /\ CanTransfer(c, who, units)
CanWithdraw(c, who, l, units) ==
    /\ c.inv[l].active /\ c.trades[l].seller = who
    /\ units > 0 /\ units <= c.inv[l].avail
    /\ CanTransfer(c, who, units)
TakesLast(inv, units) == inv.avail = units /\ inv.alloc = 0
Withdrawn(inv, units) ==
    [inv EXCEPT !.avail = @ - units, !.active = ~TakesLast(inv, units)]
Reduced(trade, units, last) ==
    [trade EXCEPT !.amount = IF @ >= units THEN @ - units ELSE @,
                  !.status = IF last THEN "Resolved" ELSE @]
Withdraw(c, l, units) ==
    [c EXCEPT
        !.inv[l] = Withdrawn(@, units),
        !.trades[l] = Reduced(@, units, TakesLast(c.inv[l], units)),
        !.balance = @ - units]

(* markFiatSent.                                                           *)
CanMarkSent(c, who, i) == InState(c, i, "Funded") /\ c.trades[i].buyer = who
MarkSent(c, now, i) ==
    [c EXCEPT !.trades[i].status = "FiatSent", !.trades[i].sentAt = now]
-----------------------------------------------------------------------------
(* _completeTrade.                                                         *)
CanComplete(c, i) ==
    CanTransfer(c, c.trades[i].buyer, c.trades[i].amount + c.trades[i].collateral)
(* The listing whose bucket backs a trade, 0 when none does.               *)
BackedBy(c, i) ==
    IF c.parent[i] # 0 THEN c.parent[i] ELSE IF c.inv[i].active THEN i ELSE 0
SoldOut(inv, units) == inv.avail = 0 /\ Unallocated(inv, units) = 0
PaidFrom(inv, i, units) ==
    [inv EXCEPT !.alloc = Unallocated(inv, units), !.slot = IF @ = i THEN 0 ELSE @,
                !.active = @ /\ ~SoldOut(inv, units)]
CompleteTrade(c, i) ==
    LET t == c.trades[i]
        p == BackedBy(c, i)
        c1 == [c EXCEPT !.trades[i] = Settled(@, "Completed"),
                        !.balance = @ - t.amount - t.collateral]
    IN  IF p = 0 THEN c1
        ELSE [c1 EXCEPT
            !.inv[p] = PaidFrom(@, i, t.amount),
            !.trades[p].status = IF SoldOut(c.inv[p], t.amount) THEN "Completed" ELSE @]

(* releaseFunds, by the seller of a trade whose buyer has paid.            *)
CanRelease(c, who, i) ==
    InState(c, i, "FiatSent") /\ c.trades[i].seller = who /\ CanComplete(c, i)

(* oracleRelease.                                                          *)
CanOracleRelease(c, i, proof) ==
    /\ c.trades[i].status \in {"Funded", "FiatSent"}
    /\ proof \notin c.used
    /\ CanComplete(c, i)
OracleRelease(c, i, proof) == CompleteTrade([c EXCEPT !.used = @ \cup {proof}], i)

(* raiseDispute.                                                           *)
CanDispute(c, now, who, i) ==
    /\ InState(c, i, "FiatSent")
    /\ who \in {c.trades[i].seller, c.trades[i].buyer}
    /\ now <= c.trades[i].sentAt + DisputeWindow
Dispute(c, i) == [c EXCEPT !.trades[i].status = "Disputed"]

(* oracleResolveDispute.  In the seller's favour the units of a child go   *)
(* back to its listing; those of a listing taken whole go to the seller,   *)
(* and its allocated bucket keeps them.                                    *)
BackTo(inv, i, units) ==
    [inv EXCEPT !.alloc = Unallocated(inv, units), !.avail = @ + units,
                !.slot = IF @ = i THEN 0 ELSE @]
ActiveParent(c, i) == IF c.parent[i] = 0 THEN FALSE ELSE c.inv[c.parent[i]].active

CanResolve(c, i, favourBuyer, proof) ==
    /\ InState(c, i, "Disputed") /\ proof \notin c.used
    /\ IF favourBuyer THEN CanComplete(c, i)
       ELSE /\ ActiveParent(c, i) \/ CanTransfer(c, c.trades[i].seller, c.trades[i].amount)
            /\ CanTransfer(c, c.trades[i].buyer, c.trades[i].collateral)
Resolve(c, i, favourBuyer, proof) ==
    LET t == c.trades[i]
        known == [c EXCEPT !.used = @ \cup {proof}]
        closed == [known EXCEPT !.trades[i] = Settled(@, "Resolved"),
                                !.balance = @ - t.collateral]
    IN  IF favourBuyer THEN CompleteTrade(known, i)  \* Completed, no longer Resolved
        ELSE IF ActiveParent(c, i)
        THEN [closed EXCEPT !.inv[c.parent[i]] = BackTo(@, i, t.amount)]
        ELSE [closed EXCEPT !.balance = @ - t.amount]

(* reclaimExpiredTrade.  A listing taken whole is offered again, its buyer *)
(* forgotten before the buyer's collateral is sent back: with collateral   *)
(* that call reverts.                                                      *)
ReclaimsOpen(c, now, i) ==
    /\ InState(c, i, "Created") /\ now >= c.trades[i].createdAt + ReleaseTimeout
    /\ ~(c.inv[i].active /\ c.inv[i].alloc > 0)
OpenRefund(c, i) == IF c.inv[i].active THEN c.inv[i].avail ELSE c.trades[i].amount
ReclaimsUnpaid(c, now, i) ==
    InState(c, i, "Funded") /\ now >= c.trades[i].fundedAt + ReleaseTimeout

CanReclaim(c, now, i) ==
    \/ ReclaimsOpen(c, now, i) /\ CanTransfer(c, c.trades[i].seller, OpenRefund(c, i))
    \/ /\ ReclaimsUnpaid(c, now, i)
       /\ IF ActiveParent(c, i) THEN CanTransfer(c, c.trades[i].buyer, c.trades[i].collateral)
          ELSE IF c.inv[i].active THEN c.trades[i].collateral = 0
          ELSE /\ CanTransfer(c, c.trades[i].seller, c.trades[i].amount)
               /\ CanTransfer(c, c.trades[i].buyer, c.trades[i].collateral)
NotOffered(inv) == IF inv.active THEN [inv EXCEPT !.avail = 0, !.active = FALSE] ELSE inv
OfferedAgain(trade) == [Settled(trade, "Created") EXCEPT !.buyer = NoOne]
Reclaim(c, now, i) ==
    LET t == c.trades[i]
        closed == [c EXCEPT !.trades[i] = Settled(@, "Resolved"),
                            !.balance = @ - t.collateral]
    IN  IF InState(c, i, "Created")
        THEN [c EXCEPT !.trades[i].status = "Resolved", !.inv[i] = NotOffered(@),
                       !.balance = @ - OpenRefund(c, i)]
        ELSE IF ActiveParent(c, i)
        THEN [closed EXCEPT !.inv[c.parent[i]] = BackTo(@, i, t.amount)]
        ELSE IF c.inv[i].active
        THEN [c EXCEPT !.trades[i] = OfferedAgain(@), !.balance = @ - t.collateral,
                       !.inv[i] = [BackTo(@, i, t.amount) EXCEPT !.slot = 0]]
        ELSE [closed EXCEPT !.balance = @ - t.amount]
=============================================================================
