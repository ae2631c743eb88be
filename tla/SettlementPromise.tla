------------------------- MODULE SettlementPromise -------------------------
(***************************************************************************)
(* What settling a trade promises, without attempts, webhooks, timers or   *)
(* record states: the seller's USDC stays in custody until it goes to the  *)
(* buyer, after the seller was paid, or back to the seller; the seller is  *)
(* paid only from money the buyer paid; a refunded trade pays nobody else. *)
(***************************************************************************)
CONSTANT Trades

VARIABLES
    custody,     \* who holds the USDC of a trade
    buyerPaid,   \* the buyer's fiat payment was received
    sellerPaid,  \* the seller's fiat payout was confirmed
    refunded     \* the buyer's fiat payment was given back

promiseVars == <<custody, buyerPaid, sellerPaid, refunded>>

PromiseInit ==
    /\ custody = [t \in Trades |-> "nobody"]
    /\ buyerPaid = [t \in Trades |-> FALSE]
    /\ sellerPaid = [t \in Trades |-> FALSE]
    /\ refunded = [t \in Trades |-> FALSE]

Fund(t) ==
    /\ custody[t] = "nobody"
    /\ custody' = [custody EXCEPT ![t] = "escrow"]
    /\ UNCHANGED <<buyerPaid, sellerPaid, refunded>>

(* A payment may arrive after a refund settled; the refund of a reopened    *)
(* trade is due again.                                                      *)
BuyerPays(t, reopen) ==
    /\ custody[t] # "nobody"
    /\ buyerPaid' = [buyerPaid EXCEPT ![t] = TRUE]
    /\ refunded' = [refunded EXCEPT ![t] = @ /\ ~reopen]
    /\ UNCHANGED <<custody, sellerPaid>>

SellerIsPaid(t) ==
    /\ custody[t] = "escrow"
    /\ buyerPaid[t]
    /\ ~refunded[t]
    /\ sellerPaid' = [sellerPaid EXCEPT ![t] = TRUE]
    /\ UNCHANGED <<custody, buyerPaid, refunded>>

Release(t) ==
    /\ custody[t] = "escrow"
    /\ sellerPaid[t]
    /\ custody' = [custody EXCEPT ![t] = "buyer"]
    /\ UNCHANGED <<buyerPaid, sellerPaid, refunded>>

(* The USDC goes back, with the buyer's money when there is any to give     *)
(* back (refund TRUE) or at the deadline (FALSE).                           *)
Return(t, refund) ==
    /\ custody[t] \in {"escrow", "seller"}
    /\ ~sellerPaid[t]
    /\ refund \/ ~buyerPaid[t]
    /\ custody' = [custody EXCEPT ![t] = "seller"]
    /\ refunded' = [refunded EXCEPT ![t] = @ \/ refund]
    /\ UNCHANGED <<buyerPaid, sellerPaid>>

PromiseNext ==
    \E t \in Trades :
        \/ Fund(t) \/ SellerIsPaid(t) \/ Release(t)
        \/ \E reopen \in BOOLEAN : BuyerPays(t, reopen)
        \/ \E refund \in BOOLEAN : Return(t, refund)

Promise == PromiseInit /\ [][PromiseNext]_promiseVars
=============================================================================
