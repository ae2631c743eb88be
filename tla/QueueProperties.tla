-------------------------- MODULE QueueProperties --------------------------
(***************************************************************************)
(* What ListingQueue is checked for.                                       *)
(***************************************************************************)
EXTENDS ListingQueue, Functions

EntryUnits(S) == SumFunctionOnSet([e \in Entries |-> entry[e].units], S)
TradeUnits(S) == SumFunctionOnSet([t \in Trades |-> trade[t].units], S)

(* The buyers whose units are in the reserved bucket: those who wait, those *)
(* whose entry is about to be inserted and those whose cancellation has yet *)
(* to give the units back.                                                  *)
Holders ==
    Waiting \cup {e \in Entries : \/ request[e] \in {"count", "insertQueued"}
                                  \/ cancel[e] = "restore"}

(* The seller has at most one buyer paying at a time: a trade that exists   *)
(* or is about to, and has not been resolved, is the listing's active slot, *)
(* and the slot is never given to a second trade before the first one's     *)
(* units have left the allocated bucket.                                    *)
OneActiveSlot ==
    /\ \A t \in Trades : trade[t].st \in {"named", "open"} => listing.slot = t
    /\ listing.alloc = IF HasActiveSlot THEN trade[listing.slot].units ELSE 0

(* The inventory is conserved and never oversold: the buckets add up to the *)
(* deposit, and what counts as filled is what was sold by the completed     *)
(* trades, each counted once, when its slot was freed.                      *)
BucketsAddUp ==
    listing.avail + listing.alloc + listing.reserved + listing.filled = Total

FilledIsSold ==
    listing.filled = TradeUnits({t \in Trades : trade[t].st = "completed"
                                                /\ listing.slot # t})

InventoryExact == listing.status # "ABSENT" => BucketsAddUp /\ FilledIsSold

(* As long as no promotion has overwritten an entry that had left the queue *)
(* between the scan and the write, the reserved bucket is exactly what the  *)
(* buyers in the queue hold, whatever requests, cancellations, activations  *)
(* and resolutions overlap: the units of every one of them can be activated *)
(* or given back.                                                           *)
ReservationBacked ==
    overwrote = {} => listing.reserved = EntryUnits(Holders)

(* An entry a buyer cancelled or that was used up comes back only through   *)
(* such a promotion, and an entry in the slot is closed only by the         *)
(* reconciliation of its own trade.                                         *)
EntriesStayClosed ==
    [][\A e \in Entries :
          entry'[e].status # entry[e].status =>
              /\ entry[e].status \in {"CANCELLED", "COMPLETED", "EXPIRED"}
                     => e \in overwrote'
              /\ entry'[e].status \in {"COMPLETED", "EXPIRED"}
                     => /\ trade[entry[e].trade].st \in Outcomes
                        /\ listing.slot # entry[e].trade]_vars
=============================================================================
