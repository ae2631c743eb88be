------------------------------ MODULE MCTrade ------------------------------
(***************************************************************************)
(* Model checking of TradeLifecycle.  Trades, attempts, transactions and   *)
(* handlers are interchangeable model values; the symmetry is used by the  *)
(* runs that check no liveness.                                            *)
(***************************************************************************)
EXTENDS TradeProperties, TLC

Symmetry ==
    Permutations(Trades) \cup Permutations(Attempts) \cup Permutations(TxIds)
        \cup Permutations(Workers)
=============================================================================
