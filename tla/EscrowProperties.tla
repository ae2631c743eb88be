-------------------------- MODULE EscrowProperties --------------------------
(***************************************************************************)
(* What settlement promises.  The code keeps none of these promises always: *)
(* each is stated of the behaviours in which nothing happened, in past,    *)
(* that is known to break it, and those are the hazards of this part.      *)
(*   direct     somebody called the contract from outside the program      *)
(*   reclaimed  an expired trade was reclaimed on the chain                *)
(*   reopened   what was reclaimed is a listing no buyer had locked        *)
(*   contended  the chain and the store know different buyers              *)
(*   selflock   the oracle locked the listing for itself                   *)
(*   overlap    two handlers settled, or changed the chain, at once        *)
(*   unread     the oracle could not read the trade from the chain         *)
(*   lost       the answer to a release that was mined did not arrive      *)
(*   forged     a failed transfer was answered with a made-up hash         *)
(*   proof      a TLSNotary proof completed the trade                      *)
(*   again      the listing, or a second part of it, was sold again: the   *)
(*              chain has one record of it, which may be completed already *)
(*   mistaken   the dashboard completed the listing's own trade, unpaid,   *)
(*              when the chain had completed a part of it                  *)
(***************************************************************************)
EXTENDS EscrowSettlement, Functions

(* The store's rows, the contract's records and buckets and the handlers   *)
(* keep their shape: no bucket of a listing goes below zero.               *)
TypeOK ==
    /\ mem \in Memory
    /\ chain.next \in Nat /\ chain.balance \in Nat
    /\ \A i \in EscrowIds :
        /\ chain.trades[i].status \in EscrowStatus
        /\ chain.inv[i].avail \in Nat /\ chain.inv[i].alloc \in Nat
    /\ fiat \subseteq TradeIds
    /\ DOMAIN paid = TradeIds \X Buyers
    /\ \A i \in Flows : flow[i].step \in PageSteps \cup OracleSteps \cup {"none"}

(* The trade of state c has a buyer whose order is still backed.           *)
Live(c, i) ==
    c.trades[i].status \in {"Funded", "FiatSent", "Disputed"} /\ c.trades[i].buyer # NoOne
Owed(c, i) ==
    (IF c.inv[i].active THEN c.inv[i].avail ELSE 0)
    + (IF Live(c, i) THEN c.trades[i].amount + c.trades[i].collateral ELSE 0)
Solvent(c) ==
    c.balance >= SumFunctionOnSet([i \in EscrowIds |-> Owed(c, i)], EscrowIds)

(* The contract holds what it owes: the units sellers may still withdraw   *)
(* and the units locked for buyers, whatever calls come in whatever order  *)
(* ("Allocated USDC backing an active buyer order cannot be withdrawn").   *)
EscrowSolvent == "reopened" \notin past => Solvent(chain)

(* USDC reaches a buyer only of a trade whose price was paid: neither a    *)
(* short payment, a refused step nor a page that goes on after it leads to *)
(* a release.                                                              *)
FiatBeforeUsdc == past \cap {"direct", "mistaken"} = {} =>
    \A t \in TradeIds, b \in Buyers : paid[t, b] > 0 => t \in fiat

(* A buyer receives the USDC of a trade once, although the page, the       *)
(* dashboard, the oracle and the webhook may all release it and the oracle *)
(* answers every failure with a transfer of its own.                       *)
PaidOnce == past \cap {"lost", "unread", "overlap", "direct", "reclaimed"} = {} =>
    \A x \in TradeIds \X Buyers : paid[x] <= 1

(* A trade the store calls completed has been paid out to its buyer.       *)
CompletedPaid ==
    past \cap {"selflock", "forged", "proof", "contended", "direct", "again"} = {} =>
        \A t \in TradeIds :
            (Trade(t) # Null /\ Trade(t).life = "COMPLETED" /\ Trade(t).buyer # Null)
                => paid[t, Trade(t).buyer] > 0
=============================================================================
