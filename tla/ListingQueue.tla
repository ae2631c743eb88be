---------------------------- MODULE ListingQueue ----------------------------
(***************************************************************************)
(* One seller listing of the Rust service: its inventory buckets, its      *)
(* single active slot and the queue of buyers who wait for it.  The        *)
(* listing, the queue entries and the trades are rows of three DashMaps;   *)
(* every handler takes the guards of one or two rows, releases them and    *)
(* goes on, so each stretch under a guard is an action and other handlers  *)
(* run between two of them.  A pass over a whole table is one action: the  *)
(* rows it collects are those of one moment.                               *)
(*                                                                         *)
(* A trade is open from the insert of its row until it is completed,       *)
(* expires or is refunded; how it gets there is TradeLifecycle's subject.  *)
(***************************************************************************)
EXTENDS Naturals, FiniteSets

CONSTANTS
    Entries,      \* requests of buyers, named by their queue_ref
    Trades,       \* child trade ids callers pass, none passed twice
    Creators,     \* calls that create the listing
    Units,        \* amounts a buyer may request
    Total,        \* total_deposited_usdc_units
    LateRefunds,  \* TRUE: an expired trade may be reopened and refunded
    NoEntry, NoTrade   \* absent values

ASSUME UnitsAssumption == Units \subseteq Nat \ {0} /\ Total \in Nat \ {0}
ASSUME LateRefundsAssumption == LateRefunds \in BOOLEAN
ASSUME FiniteAssumption == IsFiniteSet(Entries) /\ IsFiniteSet(Trades)
ASSUME NoRowAssumption == NoEntry \notin Entries /\ NoTrade \notin Trades

ListingRecord ==
    [status : {"ABSENT", "ACTIVE", "DEPLETED"}, avail : Nat, alloc : Nat,
     reserved : Nat, filled : Nat, slot : Trades \cup {NoTrade}]

(* "NONE" is a row that does not exist.                                     *)
EntryStatus ==
    {"NONE", "QUEUED", "ELIGIBLE", "ACTIVE_SLOT", "COMPLETED", "CANCELLED",
     "EXPIRED"}

(* created is the moment of created_at, taken under the listing's guard.    *)
EntryRecord ==
    [status : EntryStatus, pos : Nat, units : Nat, created : Nat,
     trade : Trades \cup {NoTrade}]
AbsentEntry ==
    [status |-> "NONE", pos |-> 0, units |-> 0, created |-> 0, trade |-> NoTrade]

(* "named" is an id a handler chose for a row it has not inserted yet.      *)
TradeRow ==
    [st : {"none", "named", "open", "completed", "expired", "refunded"},
     units : Nat]

(* The handlers between two of their steps.                                 *)
RequestStep == {"idle", "insertTrade", "insertActive", "count", "insertQueued"}
CancelStep == {"idle", "restore", "collect", "renumber"}
ResolveStep == {"idle", "find", "update", "mark", "scan", "promote"}
Outcomes == {"completed", "expired", "refunded"}

VARIABLES
    listing,   \* the row of state.seller_listings
    creating,  \* create calls that found no row
    entry,     \* state.queue_entries
    trade,     \* the child trades in state.trades
    request,   \* step of request_listing_order, per entry
    cancel,    \* step of cancel_queued_order, per entry
    renum,     \* positions the cancellation of an entry has yet to write
    resolve,   \* step of the reconciliation of a resolved trade, per outcome
    chosen,    \* the entry that reconciliation is about to promote
    overwrote  \* history: entries promoted when they were no longer QUEUED

requestVars == <<listing, entry, trade, request>>
cancelVars == <<cancel, renum>>
resolveVars == <<resolve, chosen>>
vars == <<requestVars, creating, cancelVars, resolveVars, overwrote>>

TypeOK ==
    /\ listing \in ListingRecord
    /\ creating \in SUBSET Creators
    /\ entry \in [Entries -> EntryRecord]
    /\ trade \in [Trades -> TradeRow]
    /\ request \in [Entries -> RequestStep]
    /\ cancel \in [Entries -> CancelStep]
    /\ renum \in [Entries -> [Entries -> Nat]]
    /\ resolve \in [Trades \X Outcomes -> ResolveStep]
    /\ chosen \in [Trades \X Outcomes -> Entries \cup {NoEntry}]
    /\ overwrote \in SUBSET Entries

Init ==
    /\ listing = [status |-> "ABSENT", avail |-> 0, alloc |-> 0,
                  reserved |-> 0, filled |-> 0, slot |-> NoTrade]
    /\ creating = {}
    /\ entry = [e \in Entries |-> AbsentEntry]
    /\ trade = [t \in Trades |-> [st |-> "none", units |-> 0]]
    /\ request = [e \in Entries |-> "idle"]
    /\ cancel = [e \in Entries |-> "idle"]
    /\ renum = [e \in Entries |-> [f \in Entries |-> 0]]
    /\ resolve = [r \in Trades \X Outcomes |-> "idle"]
    /\ chosen = [r \in Trades \X Outcomes |-> NoEntry]
    /\ overwrote = {}

-----------------------------------------------------------------------------
Waiting == {e \in Entries : entry[e].status \in {"QUEUED", "ELIGIBLE"}}

(* SellerListingRecord::has_active_slot: the lease is set and cleared with  *)
(* active_trade_id, which alone decides.                                    *)
HasActiveSlot == listing.slot # NoTrade

(* The order of sort_by_key on (queue_position, created_at).                *)
SortsBefore(e, f) ==
    \/ entry[e].pos < entry[f].pos
    \/ entry[e].pos = entry[f].pos /\ entry[e].created < entry[f].created

(* The place of the members of S in that order; 0 for the others.           *)
Rank(S) ==
    [e \in Entries |-> IF e \in S
                       THEN 1 + Cardinality({f \in S : SortsBefore(f, e)})
                       ELSE 0]

NextMoment == 1 + Cardinality({e \in Entries : entry[e].created > 0})

-----------------------------------------------------------------------------
(* create_seller_listing: the lookup, then the insert.                      *)
CreateCheck(c) ==
    /\ listing.status = "ABSENT"
    /\ creating' = creating \cup {c}
    /\ UNCHANGED <<requestVars, cancelVars, resolveVars, overwrote>>

CreateInsert(c) ==
    /\ c \in creating
    /\ creating' = creating \ {c}
    /\ listing' = [status |-> "ACTIVE", avail |-> Total, alloc |-> 0,
                   reserved |-> 0, filled |-> 0, slot |-> NoTrade]
    /\ UNCHANGED <<entry, trade, request, cancelVars, resolveVars, overwrote>>

-----------------------------------------------------------------------------
(* request_listing_order.  The entry record is built while the listing's    *)
(* guard is held and inserted later: until then its status is NONE.         *)
CanRequest(e, u) ==
    /\ entry[e] = AbsentEntry
    /\ request[e] = "idle"
    /\ listing.status = "ACTIVE"
    /\ u <= listing.avail

(* The slot is free: the request takes it.                                  *)
RequestSlot(e, u, t) ==
    /\ CanRequest(e, u)
    /\ ~HasActiveSlot
    /\ trade[t].st = "none"
    /\ listing' = [listing EXCEPT !.avail = @ - u, !.alloc = @ + u, !.slot = t]
    /\ trade' = [trade EXCEPT ![t] = [st |-> "named", units |-> u]]
    /\ entry' = [entry EXCEPT ![e] = [AbsentEntry EXCEPT
                     !.units = u, !.created = NextMoment, !.trade = t]]
    /\ request' = [request EXCEPT ![e] = "insertTrade"]
    /\ UNCHANGED <<creating, cancelVars, resolveVars, overwrote>>

InsertTrade(e) ==
    /\ request[e] = "insertTrade"
    /\ trade' = [trade EXCEPT ![entry[e].trade].st = "open"]
    /\ request' = [request EXCEPT ![e] = "insertActive"]
    /\ UNCHANGED <<listing, entry, creating, cancelVars, resolveVars, overwrote>>

InsertActive(e) ==
    /\ request[e] = "insertActive"
    /\ entry' = [entry EXCEPT ![e].status = "ACTIVE_SLOT"]
    /\ request' = [request EXCEPT ![e] = "idle"]
    /\ UNCHANGED <<listing, trade, creating, cancelVars, resolveVars, overwrote>>

(* Mutant: units are taken from the pool and not reserved.                  *)
RequestPlaceUnreserved(e, u) ==
    /\ CanRequest(e, u)
    /\ HasActiveSlot
    /\ entry' = [entry EXCEPT ![e] = [AbsentEntry EXCEPT
                     !.units = u, !.created = NextMoment]]
    /\ request' = [request EXCEPT ![e] = "count"]
    /\ UNCHANGED <<listing, trade, creating, cancelVars, resolveVars, overwrote>>

(* The slot is busy: the units are reserved, the position is counted after  *)
(* the listing is released and the entry is inserted after that.            *)
RequestPlace(e, u) ==
    /\ CanRequest(e, u)
    /\ HasActiveSlot
    /\ listing' = [listing EXCEPT !.avail = @ - u, !.reserved = @ + u]
    /\ entry' = [entry EXCEPT ![e] = [AbsentEntry EXCEPT
                     !.units = u, !.created = NextMoment]]
    /\ request' = [request EXCEPT ![e] = "count"]
    /\ UNCHANGED <<trade, creating, cancelVars, resolveVars, overwrote>>

CountWaiting(e) ==
    /\ request[e] = "count"
    /\ entry' = [entry EXCEPT ![e].pos = Cardinality(Waiting) + 1]
    /\ request' = [request EXCEPT ![e] = "insertQueued"]
    /\ UNCHANGED <<listing, trade, creating, cancelVars, resolveVars, overwrote>>

InsertQueued(e) ==
    /\ request[e] = "insertQueued"
    /\ entry' = [entry EXCEPT ![e].status = "QUEUED"]
    /\ request' = [request EXCEPT ![e] = "idle"]
    /\ UNCHANGED <<listing, trade, creating, cancelVars, resolveVars, overwrote>>

-----------------------------------------------------------------------------
(* cancel_queued_order.                                                     *)
CancelEntry(e) ==
    /\ e \in Waiting
    /\ cancel[e] = "idle"
    /\ entry' = [entry EXCEPT ![e].status = "CANCELLED"]
    /\ cancel' = [cancel EXCEPT ![e] = "restore"]
    /\ UNCHANGED <<listing, trade, request, creating, renum, resolveVars, overwrote>>

(* Mutant: the reserved bucket is not compared first.                       *)
RestoreUnitsUnchecked(e) ==
    LET u == entry[e].units
    IN  /\ cancel[e] = "restore"
        /\ listing' = [listing EXCEPT !.reserved = @ - u, !.avail = @ + u,
                                      !.status = "ACTIVE"]
        /\ cancel' = [cancel EXCEPT ![e] = "collect"]
        /\ UNCHANGED <<entry, trade, request, creating, renum, resolveVars, overwrote>>

RestoreUnits(e) ==
    LET u == entry[e].units
    IN  /\ cancel[e] = "restore"
        /\ listing' =
              IF listing.reserved < u THEN listing
              ELSE [listing EXCEPT !.reserved = @ - u, !.avail = @ + u,
                                   !.status = "ACTIVE"]
        /\ cancel' = [cancel EXCEPT ![e] = "collect"]
        /\ UNCHANGED <<entry, trade, request, creating, renum, resolveVars, overwrote>>

CollectWaiting(e) ==
    /\ cancel[e] = "collect"
    /\ renum' = [renum EXCEPT ![e] = Rank(Waiting)]
    /\ cancel' = [cancel EXCEPT ![e] = "renumber"]
    /\ UNCHANGED <<requestVars, creating, resolveVars, overwrote>>

(* Mutant: the first of the list becomes eligible whatever its status is.   *)
RenumberBlind(e, f) ==
    LET rank == renum[e][f]
    IN  /\ cancel[e] = "renumber"
        /\ rank > 0
        /\ \A g \in Entries : renum[e][g] > 0 => renum[e][g] >= rank
        /\ entry' = [entry EXCEPT
               ![f].pos = rank,
               ![f].status = IF rank = 1 /\ ~HasActiveSlot THEN "ELIGIBLE" ELSE @]
        /\ renum' = [renum EXCEPT ![e][f] = 0]
        /\ UNCHANGED <<listing, trade, request, creating, cancel, resolveVars,
                       overwrote>>

(* One entry of the collected list, whatever its status is by now; the      *)
(* first becomes eligible if it still waits and the slot is free.           *)
Renumber(e, f) ==
    LET rank == renum[e][f]
    IN  /\ cancel[e] = "renumber"
        /\ rank > 0
        /\ \A g \in Entries : renum[e][g] > 0 => renum[e][g] >= rank
        /\ entry' = [entry EXCEPT
               ![f].pos = rank,
               ![f].status = IF rank = 1 /\ @ = "QUEUED" /\ ~HasActiveSlot
                             THEN "ELIGIBLE" ELSE @]
        /\ renum' = [renum EXCEPT ![e][f] = 0]
        /\ UNCHANGED <<listing, trade, request, creating, cancel, resolveVars,
                       overwrote>>

CancelDone(e) ==
    /\ cancel[e] = "renumber"
    /\ \A f \in Entries : renum[e][f] = 0
    /\ cancel' = [cancel EXCEPT ![e] = "idle"]
    /\ UNCHANGED <<requestVars, creating, renum, resolveVars, overwrote>>

-----------------------------------------------------------------------------
(* activate_eligible_queue_entry, under the guards of the entry and of the  *)
(* listing; the trade row follows.                                          *)

(* Mutant: the slot is not looked at.                                       *)
ActivateBusy(e, t) ==
    /\ \/ entry[e].status = "ELIGIBLE"
       \/ entry[e].status = "QUEUED" /\ entry[e].pos = 1
    /\ listing.reserved >= entry[e].units
    /\ trade[t].st = "none"
    /\ listing' = [listing EXCEPT !.reserved = @ - entry[e].units,
                                  !.alloc = @ + entry[e].units, !.slot = t]
    /\ trade' = [trade EXCEPT ![t] = [st |-> "named", units |-> entry[e].units]]
    /\ entry' = [entry EXCEPT ![e].status = "ACTIVE_SLOT", ![e].pos = 0,
                              ![e].trade = t]
    /\ UNCHANGED <<request, creating, cancelVars, resolveVars, overwrote>>

Activate(e, t) ==
    /\ \/ entry[e].status = "ELIGIBLE"
       \/ entry[e].status = "QUEUED" /\ entry[e].pos = 1
    /\ ~HasActiveSlot
    /\ listing.reserved >= entry[e].units
    /\ trade[t].st = "none"
    /\ listing' = [listing EXCEPT !.reserved = @ - entry[e].units,
                                  !.alloc = @ + entry[e].units, !.slot = t]
    /\ trade' = [trade EXCEPT ![t] = [st |-> "named", units |-> entry[e].units]]
    /\ entry' = [entry EXCEPT ![e].status = "ACTIVE_SLOT", ![e].pos = 0,
                              ![e].trade = t]
    /\ UNCHANGED <<request, creating, cancelVars, resolveVars, overwrote>>

(* The insert of the activation's trade row, the handler's last step.       *)
InsertActivated(t) ==
    /\ trade[t].st = "named"
    /\ \A e \in Entries : entry[e].trade = t => request[e] = "idle"
    /\ trade' = [trade EXCEPT ![t].st = "open"]
    /\ UNCHANGED <<listing, entry, request, creating, cancelVars, resolveVars,
                   overwrote>>

-----------------------------------------------------------------------------
(* A trade is resolved; a late payment may reopen an expired trade, which   *)
(* is then refunded.                                                        *)
Resolve(t, out) ==
    /\ \/ trade[t].st = "open"
       \/ LateRefunds /\ trade[t].st = "expired" /\ out = "refunded"
    /\ trade' = [trade EXCEPT ![t].st = out]
    /\ resolve' = [resolve EXCEPT ![<<t, out>>] = "find"]
    /\ UNCHANGED <<listing, entry, request, creating, cancelVars, chosen, overwrote>>

(* reconcile_seller_listing_on_trade_resolution: looks for the listing      *)
(* whose slot the trade has ...                                             *)
FindListing(t, out) ==
    /\ resolve[<<t, out>>] = "find"
    /\ resolve' = [resolve EXCEPT ![<<t, out>>] =
                       IF listing.slot = t THEN "update" ELSE "idle"]
    /\ UNCHANGED <<requestVars, creating, cancelVars, chosen, overwrote>>

(* Mutant: the units of an unsettled trade are counted as sold.             *)
BucketFilled(out) == "filled"

Bucket(out) == IF out = "completed" THEN "filled" ELSE "avail"

(* ... takes the row again and clears the slot without a second look ...    *)
UpdateListing(t, out) ==
    LET u == trade[t].units
        moved == IF listing.alloc < u THEN listing
                 ELSE [listing EXCEPT !.alloc = @ - u, ![Bucket(out)] = @ + u]
        empty == moved.avail + moved.alloc + moved.reserved = 0
    IN  /\ resolve[<<t, out>>] = "update"
        /\ listing' = [moved EXCEPT !.slot = NoTrade,
                                    !.status = IF empty THEN "DEPLETED" ELSE @]
        /\ resolve' = [resolve EXCEPT ![<<t, out>>] = "mark"]
        /\ UNCHANGED <<entry, trade, request, creating, cancelVars, chosen,
                       overwrote>>

(* ... closes the entry of the trade ...                                    *)
MarkEntry(t, out) ==
    /\ resolve[<<t, out>>] = "mark"
    /\ entry' = [e \in Entries |->
           IF entry[e].trade = t /\ entry[e].status = "ACTIVE_SLOT"
           THEN [entry[e] EXCEPT !.status =
                     IF out = "completed" THEN "COMPLETED" ELSE "EXPIRED"]
           ELSE entry[e]]
    /\ resolve' = [resolve EXCEPT ![<<t, out>>] = "scan"]
    /\ UNCHANGED <<listing, trade, request, creating, cancelVars, chosen, overwrote>>

(* ... picks the first entry that is QUEUED ...                             *)
ScanQueue(t, out) ==
    LET queued == {e \in Entries : entry[e].status = "QUEUED"}
        first == {e \in queued : Rank(queued)[e] = 1}
    IN  /\ resolve[<<t, out>>] = "scan"
        /\ \/ /\ queued = {}
              /\ resolve' = [resolve EXCEPT ![<<t, out>>] = "idle"]
              /\ UNCHANGED chosen
           \/ \E e \in first :
                 /\ chosen' = [chosen EXCEPT ![<<t, out>>] = e]
                 /\ resolve' = [resolve EXCEPT ![<<t, out>>] = "promote"]
        /\ UNCHANGED <<requestVars, creating, cancelVars, overwrote>>

(* ... and overwrites its status, whatever it is by then.                   *)
Promote(t, out) ==
    LET e == chosen[<<t, out>>]
    IN  /\ resolve[<<t, out>>] = "promote"
        /\ entry' = [entry EXCEPT ![e].status = "ELIGIBLE", ![e].pos = 1]
        /\ overwrote' = IF entry[e].status = "QUEUED" THEN overwrote
                        ELSE overwrote \cup {e}
        /\ resolve' = [resolve EXCEPT ![<<t, out>>] = "idle"]
        /\ chosen' = [chosen EXCEPT ![<<t, out>>] = NoEntry]
        /\ UNCHANGED <<listing, trade, request, creating, cancelVars>>

-----------------------------------------------------------------------------
Request(e) ==
    \/ \E u \in Units, t \in Trades : RequestSlot(e, u, t)
    \/ \E u \in Units : RequestPlace(e, u)
    \/ InsertTrade(e)
    \/ InsertActive(e)
    \/ CountWaiting(e)
    \/ InsertQueued(e)

Cancel(e) ==
    \/ CancelEntry(e)
    \/ RestoreUnits(e)
    \/ CollectWaiting(e)
    \/ \E f \in Entries : Renumber(e, f)
    \/ CancelDone(e)

Reconcile(t, out) ==
    \/ Resolve(t, out)
    \/ FindListing(t, out)
    \/ UpdateListing(t, out)
    \/ MarkEntry(t, out)
    \/ ScanQueue(t, out)
    \/ Promote(t, out)

Next ==
    \/ \E c \in Creators : CreateCheck(c) \/ CreateInsert(c)
    \/ \E e \in Entries : Request(e) \/ Cancel(e)
    \/ \E e \in Entries, t \in Trades : Activate(e, t)
    \/ \E t \in Trades : InsertActivated(t)
    \/ \E t \in Trades, out \in Outcomes : Reconcile(t, out)

Spec == Init /\ [][Next]_vars
=============================================================================
