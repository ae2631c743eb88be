--------------------------- MODULE StoreProperties ---------------------------
(***************************************************************************)
(* What the trade store promises.  created, own and read tell the listings *)
(* and trades whose rows are still the ones this process made: a row that  *)
(* a dashboard request read back, or that was made again under its old id, *)
(* is the subject of the hazards instead.                                  *)
(***************************************************************************)
EXTENDS TradeStore, Functions

(* Rows keep their shape whatever is read back from the database, and no   *)
(* bucket of a listing goes below zero, checked subtraction or not.        *)
TypeOK ==
    /\ mem \in Memory
    /\ now \in 0..MaxTime
    /\ charges \subseteq [ref : TxRefs, flw : FlwIds, amount : Amounts]
    /\ paidOut \in [TradeIds -> 0..2]
    /\ events \in 0..MaxEvents

Terminal == {"COMPLETED", "CANCELLED"}
TradesOf(l) == {t \in TradeIds : mem.trades[t] # Null /\ (t = l \/ mem.parent[t] = l)}

(* Every operation moves units between the buckets of a listing and none   *)
(* makes or loses any.                                                     *)
UnitsConserved ==
    \A l \in mem.ghost.created :
        LET i == mem.inv[l] IN
        /\ i.avail >= 0 /\ i.alloc >= 0 /\ i.reserved >= 0 /\ i.filled >= 0
        /\ i.avail + i.alloc + i.reserved + i.filled = i.total

EntryUnits(m) ==
    [q \in QueueRefs |-> IF m.queue[q] = Null THEN 0 ELSE m.queue[q].units]
(* The units reserved for the queue are those of the entries that wait:    *)
(* joining, leaving, being served and being refused keep the two together. *)
ReservedBacksQueue ==
    \A l \in mem.ghost.created :
        mem.inv[l].reserved = SumFunctionOnSet(EntryUnits(mem), Waiting(mem, l))

(* As long as no trade of a listing was read back and none of its parts    *)
(* gave its units back twice, the allocated units are those of the trade   *)
(* in the slot, and that trade is alive.                                   *)
Intact(l, t) == t \notin mem.ghost.read /\ (t = l \/ mem.ghost.released[t] <= 1)
AllocatedBacksSlot ==
    \A l \in mem.ghost.created :
        (\A t \in TradesOf(l) : Intact(l, t)) =>
            LET slot == mem.inv[l].slot IN
            IF slot = Null THEN mem.inv[l].alloc = 0
            ELSE /\ mem.inv[l].alloc = mem.trades[slot].units
                 /\ mem.trades[slot].life \notin Terminal

(* A trade has one checkout at which its buyer can pay.                    *)
OneOpenCheckout ==
    \A t \in mem.ghost.own :
        Cardinality({r \in TxRefs : OpenAttempt(mem, now, r)
                                    /\ mem.attempts[r].trade = t}) <= 1

(* A transaction of the provider pays for one trade.                       *)
TransactionPaysOnce ==
    \A t, u \in TradeIds :
        (mem.trades[t] # Null /\ mem.trades[u] # Null /\ t # u)
            => (mem.trades[t].flw = Null \/ mem.trades[t].flw # mem.trades[u].flw)

(* A trade's expiry is held against its buyer once.                        *)
ChargedOnce == \A t \in mem.ghost.own : mem.ghost.charged[t] <= 1

(* ESCROW_RELEASE_GATED: no USDC leaves escrow before the buyer's payment  *)
(* and the seller's payout are confirmed.                                  *)
ReleaseGated ==
    [][\A t \in TradeIds : paidOut'[t] # paidOut[t] =>
        mem.trades[t].pay = "CONFIRMED" /\ mem.trades[t].payout = "CONFIRMED"]_vars
=============================================================================
