----------------------------- MODULE QueueProofs -----------------------------
(***************************************************************************)
(* Proofs about ListingQueue, for any number of requests, trades and       *)
(* units: type correctness and the conservation of the inventory; when the *)
(* listing is created once, that the reservations are what the buyers in   *)
(* the queue hold; and when moreover a resolved trade stays resolved, that *)
(* the seller has one active buyer at a time, that what is filled is what  *)
(* was sold and that closed entries stay closed.                           *)
(***************************************************************************)
EXTENDS QueueProperties, SumProofs

LEMMA Counts ==
    ASSUME NEW S \in SUBSET Entries
    PROVE  Cardinality(S) \in Nat
    BY FiniteAssumption, FS_Subset, FS_CardinalityType

LEMMA WaitingTyped == Waiting \in SUBSET Entries
    BY DEF Waiting

LEMMA MomentTyped == NextMoment \in Nat
<1>1. {e \in Entries : entry[e].created > 0} \in SUBSET Entries
    OBVIOUS
<1> QED
    BY <1>1, Counts DEF NextMoment

LEMMA RankTyped ==
    ASSUME NEW S \in SUBSET Entries
    PROVE  Rank(S) \in [Entries -> Nat]
<1> SUFFICES ASSUME NEW e \in Entries
             PROVE  1 + Cardinality({f \in S : SortsBefore(f, e)}) \in Nat
    BY DEF Rank
<1>1. {f \in S : SortsBefore(f, e)} \in SUBSET Entries
    OBVIOUS
<1> QED
    BY <1>1, Counts

LEMMA InitTyped == Init => TypeOK
<1> SUFFICES ASSUME Init PROVE TypeOK
    OBVIOUS
<1> USE DEF Init
<1>1. listing \in ListingRecord
    BY DEF ListingRecord
<1>2. entry \in [Entries -> EntryRecord]
    BY DEF AbsentEntry, EntryRecord, EntryStatus
<1>3. trade \in [Trades -> TradeRow]
    BY DEF TradeRow
<1>4. request \in [Entries -> RequestStep] /\ cancel \in [Entries -> CancelStep]
    BY DEF RequestStep, CancelStep
<1>5. resolve \in [Trades \X Outcomes -> ResolveStep]
    BY DEF ResolveStep
<1>6. renum \in [Entries -> [Entries -> Nat]]
    OBVIOUS
<1>7. /\ creating \in SUBSET Creators
      /\ chosen \in [Trades \X Outcomes -> Entries \cup {NoEntry}]
      /\ overwrote \in SUBSET Entries
    OBVIOUS
<1> QED
    BY <1>1, <1>2, <1>3, <1>4, <1>5, <1>6, <1>7 DEF TypeOK

LEMMA CreateTyped ==
    ASSUME TypeOK, NEW c \in Creators, CreateCheck(c) \/ CreateInsert(c)
    PROVE  TypeOK'
<1> USE DEF TypeOK, requestVars, cancelVars, resolveVars
<1>1. CASE CreateCheck(c)
    BY <1>1 DEF CreateCheck
<1>2. CASE CreateInsert(c)
  <2>1. listing' \in ListingRecord
    BY <1>2, UnitsAssumption DEF CreateInsert, ListingRecord
  <2> QED
    BY <1>2, <2>1 DEF CreateInsert
<1> QED
    BY <1>1, <1>2

LEMMA RequestTyped ==
    ASSUME TypeOK, NEW e \in Entries, Request(e)
    PROVE  TypeOK'
<1> USE DEF TypeOK, requestVars, cancelVars, resolveVars
<1>0. entry[e] \in EntryRecord /\ AbsentEntry \in EntryRecord
    BY DEF EntryRecord, AbsentEntry, EntryStatus
<1>1. ASSUME NEW u \in Units, NEW t \in Trades, RequestSlot(e, u, t)
      PROVE  TypeOK'
  <2>0. u \in Nat /\ listing.avail \in Nat /\ listing.alloc \in Nat
    BY UnitsAssumption DEF ListingRecord
  <2>1. listing.avail - u \in Nat /\ listing.alloc + u \in Nat /\ u \in Nat
    BY <1>1, <2>0 DEF RequestSlot, CanRequest
  <2>2. listing' \in ListingRecord
    BY <1>1, <2>1 DEF RequestSlot, ListingRecord
  <2>3. trade' \in [Trades -> TradeRow]
    BY <1>1, <2>1 DEF RequestSlot, TradeRow
  <2>4. [AbsentEntry EXCEPT !.units = u, !.created = NextMoment, !.trade = t]
            \in EntryRecord
    BY <1>0, <2>1, MomentTyped DEF EntryRecord
  <2>5. entry' \in [Entries -> EntryRecord]
    BY <1>1, <2>4 DEF RequestSlot
  <2>6. request' \in [Entries -> RequestStep]
    BY <1>1 DEF RequestSlot, RequestStep
  <2> QED
    BY <1>1, <2>2, <2>3, <2>5, <2>6 DEF RequestSlot
<1>2. ASSUME NEW u \in Units, RequestPlace(e, u)
      PROVE  TypeOK'
  <2>0. u \in Nat /\ listing.avail \in Nat /\ listing.reserved \in Nat
    BY UnitsAssumption DEF ListingRecord
  <2>1. listing.avail - u \in Nat /\ listing.reserved + u \in Nat /\ u \in Nat
    BY <1>2, <2>0 DEF RequestPlace, CanRequest
  <2>2. listing' \in ListingRecord
    BY <1>2, <2>1 DEF RequestPlace, ListingRecord
  <2>3. [AbsentEntry EXCEPT !.units = u, !.created = NextMoment] \in EntryRecord
    BY <1>0, <2>1, MomentTyped DEF EntryRecord
  <2>4. entry' \in [Entries -> EntryRecord]
    BY <1>2, <2>3 DEF RequestPlace
  <2>5. request' \in [Entries -> RequestStep]
    BY <1>2 DEF RequestPlace, RequestStep
  <2> QED
    BY <1>2, <2>2, <2>4, <2>5 DEF RequestPlace
<1>3. CASE InsertTrade(e)
  <2>1. trade' \in [Trades -> TradeRow]
    BY <1>3 DEF InsertTrade, TradeRow
  <2>2. request' \in [Entries -> RequestStep]
    BY <1>3 DEF InsertTrade, RequestStep
  <2> QED
    BY <1>3, <2>1, <2>2 DEF InsertTrade
<1>4. CASE InsertActive(e)
  <2>1. [entry[e] EXCEPT !.status = "ACTIVE_SLOT"] \in EntryRecord
    BY <1>0 DEF EntryRecord, EntryStatus
  <2>2. request' \in [Entries -> RequestStep]
    BY <1>4 DEF InsertActive, RequestStep
  <2> QED
    BY <1>4, <2>1, <2>2 DEF InsertActive
<1>5. CASE CountWaiting(e)
  <2>0. Cardinality(Waiting) + 1 \in Nat
    BY WaitingTyped, Counts
  <2>1. [entry[e] EXCEPT !.pos = Cardinality(Waiting) + 1] \in EntryRecord
    BY <1>0, <2>0 DEF EntryRecord
  <2>2. request' \in [Entries -> RequestStep]
    BY <1>5 DEF CountWaiting, RequestStep
  <2> QED
    BY <1>5, <2>1, <2>2 DEF CountWaiting
<1>6. CASE InsertQueued(e)
  <2>1. [entry[e] EXCEPT !.status = "QUEUED"] \in EntryRecord
    BY <1>0 DEF EntryRecord, EntryStatus
  <2>2. request' \in [Entries -> RequestStep]
    BY <1>6 DEF InsertQueued, RequestStep
  <2> QED
    BY <1>6, <2>1, <2>2 DEF InsertQueued
<1> QED
    BY <1>1, <1>2, <1>3, <1>4, <1>5, <1>6 DEF Request

LEMMA CancelTyped ==
    ASSUME TypeOK, NEW e \in Entries, Cancel(e)
    PROVE  TypeOK'
<1> USE DEF TypeOK, requestVars, cancelVars, resolveVars
<1>1. CASE CancelEntry(e)
  <2>0. entry[e] \in EntryRecord
    OBVIOUS
  <2>1. [entry[e] EXCEPT !.status = "CANCELLED"] \in EntryRecord
    BY <2>0 DEF EntryRecord, EntryStatus
  <2>2. cancel' \in [Entries -> CancelStep]
    BY <1>1 DEF CancelEntry, CancelStep
  <2> QED
    BY <1>1, <2>1, <2>2 DEF CancelEntry
<1>2. CASE RestoreUnits(e)
  <2> DEFINE u == entry[e].units
  <2>1. /\ u \in Nat /\ listing.avail \in Nat /\ listing.reserved \in Nat
        /\ listing \in ListingRecord
    BY DEF EntryRecord, ListingRecord
  <2>2. CASE listing.reserved < u
    BY <1>2, <2>2 DEF RestoreUnits, CancelStep
  <2>3. CASE ~(listing.reserved < u)
    <3>1. listing.reserved - u \in Nat /\ listing.avail + u \in Nat
      BY <2>1, <2>3
    <3>2. listing' = [listing EXCEPT !.reserved = @ - u, !.avail = @ + u,
                                     !.status = "ACTIVE"]
      BY <1>2, <2>3 DEF RestoreUnits
    <3> HIDE DEF u
    <3>3. listing' \in ListingRecord
      BY <2>1, <3>1, <3>2 DEF ListingRecord
    <3>4. cancel' \in [Entries -> CancelStep]
      BY <1>2 DEF RestoreUnits, CancelStep
    <3> QED
      BY <1>2, <3>3, <3>4 DEF RestoreUnits
  <2> QED
    BY <2>2, <2>3
<1>3. CASE CollectWaiting(e)
  <2>1. Rank(Waiting) \in [Entries -> Nat]
    BY WaitingTyped, RankTyped
  <2>2. cancel' \in [Entries -> CancelStep]
    BY <1>3 DEF CollectWaiting, CancelStep
  <2> QED
    BY <1>3, <2>1, <2>2 DEF CollectWaiting
<1>4. ASSUME NEW f \in Entries, Renumber(e, f)
      PROVE  TypeOK'
  <2> DEFINE rank == renum[e][f]
             st == IF rank = 1 /\ entry[f].status = "QUEUED" /\ ~HasActiveSlot
                   THEN "ELIGIBLE" ELSE entry[f].status
  <2>1. rank \in Nat /\ entry[f] \in EntryRecord
    OBVIOUS
  <2>2. st \in EntryStatus
    BY <2>1 DEF EntryRecord, EntryStatus
  <2>3. entry' = [entry EXCEPT ![f] = [entry[f] EXCEPT !.pos = rank, !.status = st]]
    BY <1>4 DEF Renumber, EntryRecord
  <2> HIDE DEF rank, st
  <2>4. entry' \in [Entries -> EntryRecord]
    BY <2>1, <2>2, <2>3 DEF EntryRecord
  <2>5. renum' \in [Entries -> [Entries -> Nat]]
    BY <1>4 DEF Renumber
  <2> QED
    BY <1>4, <2>4, <2>5 DEF Renumber
<1>5. CASE CancelDone(e)
    BY <1>5 DEF CancelDone, CancelStep
<1> QED
    BY <1>1, <1>2, <1>3, <1>4, <1>5 DEF Cancel

LEMMA ActivateTyped ==
    ASSUME TypeOK, NEW e \in Entries, NEW t \in Trades, Activate(e, t)
    PROVE  TypeOK'
<1> USE DEF TypeOK, requestVars, cancelVars, resolveVars
<1> DEFINE u == entry[e].units
<1>1. /\ u \in Nat /\ listing.alloc \in Nat /\ listing.reserved \in Nat
      /\ entry[e] \in EntryRecord /\ listing \in ListingRecord
    BY DEF EntryRecord, ListingRecord
<1>2. listing.reserved - u \in Nat /\ listing.alloc + u \in Nat
    BY <1>1 DEF Activate
<1>3. listing' = [listing EXCEPT !.reserved = @ - u, !.alloc = @ + u, !.slot = t]
    BY DEF Activate
<1>4. trade' = [trade EXCEPT ![t] = [st |-> "named", units |-> u]]
    BY DEF Activate
<1> HIDE DEF u
<1>5. listing' \in ListingRecord
    BY <1>1, <1>2, <1>3 DEF ListingRecord
<1>6. trade' \in [Trades -> TradeRow]
    BY <1>1, <1>4 DEF TradeRow
<1>7. [entry[e] EXCEPT !.status = "ACTIVE_SLOT", !.pos = 0, !.trade = t]
          \in EntryRecord
    BY <1>1 DEF EntryRecord, EntryStatus
<1>8. entry' = [entry EXCEPT ![e] = [entry[e] EXCEPT !.status = "ACTIVE_SLOT",
                                                     !.pos = 0, !.trade = t]]
    BY DEF Activate, EntryRecord
<1>9. entry' \in [Entries -> EntryRecord]
    BY <1>7, <1>8
<1> QED
    BY <1>5, <1>6, <1>9 DEF Activate

LEMMA InsertActivatedTyped ==
    ASSUME TypeOK, NEW t \in Trades, InsertActivated(t)
    PROVE  TypeOK'
<1>1. trade' \in [Trades -> TradeRow]
    BY DEF InsertActivated, TypeOK, TradeRow
<1> QED
    BY <1>1 DEF InsertActivated, TypeOK, cancelVars, resolveVars

LEMMA MovedUnits ==
    ASSUME NEW a \in Nat, NEW b \in Nat, NEW c \in Nat, NEW d \in Nat, NEW u \in Nat
    PROVE  /\ (a + u) + (b - u) + c + d = a + b + c + d
           /\ a + (b - u) + c + (d + u) = a + b + c + d
    OBVIOUS

(* What the reconciliation leaves of the listing: the units of the trade go *)
(* from the allocated bucket to another one if it holds that many, and the  *)
(* slot is free.                                                            *)
LEMMA ListingUpdated ==
    ASSUME TypeOK, NEW t \in Trades, NEW out \in Outcomes, UpdateListing(t, out)
    PROVE  LET u == trade[t].units IN
           /\ listing' \in ListingRecord
           /\ listing'.slot = NoTrade
           /\ listing'.status \in {listing.status, "DEPLETED"}
           /\ listing'.alloc = IF listing.alloc < u THEN listing.alloc
                               ELSE listing.alloc - u
           /\ listing'.filled = IF listing.alloc < u \/ out # "completed"
                                THEN listing.filled ELSE listing.filled + u
           /\ listing'.reserved = listing.reserved
           /\ listing'.avail + listing'.alloc + listing'.reserved + listing'.filled
                  = listing.avail + listing.alloc + listing.reserved + listing.filled
<1> DEFINE u == trade[t].units
           moved == IF listing.alloc < u THEN listing
                    ELSE [listing EXCEPT !.alloc = @ - u, ![Bucket(out)] = @ + u]
           st == IF moved.avail + moved.alloc + moved.reserved = 0
                 THEN "DEPLETED" ELSE moved.status
<1>1. listing' = [moved EXCEPT !.slot = NoTrade, !.status = st]
    BY DEF UpdateListing
<1>2. /\ listing \in ListingRecord /\ u \in Nat /\ listing.alloc \in Nat
      /\ listing.avail \in Nat /\ listing.filled \in Nat /\ listing.reserved \in Nat
    BY DEF TypeOK, ListingRecord, TradeRow
<1>3. /\ moved \in ListingRecord
      /\ moved.status = listing.status
      /\ moved.alloc = IF listing.alloc < u THEN listing.alloc ELSE listing.alloc - u
      /\ moved.filled = IF listing.alloc < u \/ out # "completed"
                        THEN listing.filled ELSE listing.filled + u
      /\ moved.reserved = listing.reserved
      /\ moved.avail + moved.alloc + moved.reserved + moved.filled
             = listing.avail + listing.alloc + listing.reserved + listing.filled
  <2> HIDE DEF u
  <2>1. CASE listing.alloc < u
    BY <1>2, <2>1
  <2>2. CASE ~(listing.alloc < u) /\ out = "completed"
    <3>1. moved = [listing EXCEPT !.alloc = @ - u, !.filled = @ + u]
      BY <2>2 DEF Bucket
    <3>2. listing.alloc - u \in Nat /\ listing.filled + u \in Nat
      BY <1>2, <2>2
    <3> HIDE DEF moved
    <3>3. moved \in ListingRecord
      BY <1>2, <3>1, <3>2 DEF ListingRecord
    <3>4. /\ moved.alloc = listing.alloc - u /\ moved.filled = listing.filled + u
          /\ moved.avail = listing.avail /\ moved.reserved = listing.reserved
          /\ moved.status = listing.status
      BY <1>2, <3>1 DEF ListingRecord
    <3> HIDE DEF st
    <3>5. moved.avail + moved.alloc + moved.reserved + moved.filled
              = listing.avail + listing.alloc + listing.reserved + listing.filled
      BY <1>2, <3>4, MovedUnits
    <3> QED
      BY <2>2, <3>3, <3>4, <3>5
  <2>3. CASE ~(listing.alloc < u) /\ out # "completed"
    <3>1. moved = [listing EXCEPT !.alloc = @ - u, !.avail = @ + u]
      BY <2>3 DEF Bucket
    <3>2. listing.alloc - u \in Nat /\ listing.avail + u \in Nat
      BY <1>2, <2>3
    <3> HIDE DEF moved
    <3>3. moved \in ListingRecord
      BY <1>2, <3>1, <3>2 DEF ListingRecord
    <3>4. /\ moved.alloc = listing.alloc - u /\ moved.avail = listing.avail + u
          /\ moved.filled = listing.filled /\ moved.reserved = listing.reserved
          /\ moved.status = listing.status
      BY <1>2, <3>1 DEF ListingRecord
    <3> HIDE DEF st
    <3>5. moved.avail + moved.alloc + moved.reserved + moved.filled
              = listing.avail + listing.alloc + listing.reserved + listing.filled
      BY <1>2, <3>4, MovedUnits
    <3> QED
      BY <2>3, <3>3, <3>4, <3>5
  <2> QED
    BY <2>1, <2>2, <2>3
<1> HIDE DEF moved
<1>4. st \in {listing.status, "DEPLETED"}
    BY <1>3
<1> HIDE DEF st
<1> QED
    BY <1>1, <1>2, <1>3, <1>4 DEF ListingRecord

(* What a reconciliation is about to promote is an entry that exists.  It   *)
(* completes the induction for TypeOK.                                      *)
PromotesExisting ==
    \A r \in Trades \X Outcomes :
        resolve[r] = "promote" =>
            chosen[r] \in Entries /\ entry[chosen[r]].status # "NONE"

LEMMA ReconcileTyped ==
    ASSUME TypeOK, PromotesExisting, NEW t \in Trades, NEW out \in Outcomes, Reconcile(t, out)
    PROVE  TypeOK'
<1> USE DEF TypeOK, requestVars, cancelVars, resolveVars
<1>0. <<t, out>> \in Trades \X Outcomes
    OBVIOUS
<1>1. CASE Resolve(t, out)
  <2>1. trade' \in [Trades -> TradeRow]
    BY <1>1 DEF Resolve, TradeRow, Outcomes
  <2>2. resolve' \in [Trades \X Outcomes -> ResolveStep]
    BY <1>0, <1>1 DEF Resolve, ResolveStep
  <2> QED
    BY <1>1, <2>1, <2>2 DEF Resolve
<1>2. CASE FindListing(t, out)
  <2>1. resolve' \in [Trades \X Outcomes -> ResolveStep]
    BY <1>0, <1>2 DEF FindListing, ResolveStep
  <2> QED
    BY <1>2, <2>1 DEF FindListing
<1>3. CASE UpdateListing(t, out)
  <2>1. listing' \in ListingRecord
    BY <1>3, ListingUpdated
  <2>2. resolve' \in [Trades \X Outcomes -> ResolveStep]
    BY <1>0, <1>3 DEF UpdateListing, ResolveStep
  <2> QED
    BY <1>3, <2>1, <2>2 DEF UpdateListing
<1>4. CASE MarkEntry(t, out)
  <2>1. ASSUME NEW e \in Entries, NEW st \in EntryStatus
        PROVE  [entry[e] EXCEPT !.status = st] \in EntryRecord
    <3>1. entry[e] \in EntryRecord
      OBVIOUS
    <3> QED
      BY <3>1 DEF EntryRecord
  <2>2. (IF out = "completed" THEN "COMPLETED" ELSE "EXPIRED") \in EntryStatus
    BY DEF EntryStatus
  <2>3. entry' \in [Entries -> EntryRecord]
    BY <1>4, <2>1, <2>2 DEF MarkEntry
  <2>4. resolve' \in [Trades \X Outcomes -> ResolveStep]
    BY <1>0, <1>4 DEF MarkEntry, ResolveStep
  <2> QED
    BY <1>4, <2>3, <2>4 DEF MarkEntry
<1>5. CASE ScanQueue(t, out)
  <2>1. resolve' \in [Trades \X Outcomes -> ResolveStep]
    BY <1>0, <1>5 DEF ScanQueue, ResolveStep
  <2>2. chosen' \in [Trades \X Outcomes -> Entries \cup {NoEntry}]
    BY <1>0, <1>5 DEF ScanQueue
  <2> QED
    BY <1>5, <2>1, <2>2 DEF ScanQueue
<1>6. CASE Promote(t, out)
  <2> DEFINE e == chosen[<<t, out>>]
  <2>0. e \in Entries
    BY <1>0, <1>6 DEF Promote, PromotesExisting
  <2>1. entry' = [entry EXCEPT ![e] = [entry[e] EXCEPT !.status = "ELIGIBLE",
                                                       !.pos = 1]]
    BY <1>6 DEF Promote
  <2>2. [entry[e] EXCEPT !.status = "ELIGIBLE", !.pos = 1] \in EntryRecord
    <3>1. entry[e] \in EntryRecord
      BY <2>0
    <3> QED
      BY <3>1 DEF EntryRecord, EntryStatus
  <2>6. overwrote' \in SUBSET Entries
    BY <1>6, <2>0 DEF Promote
  <2> HIDE DEF e
  <2>3. entry' \in [Entries -> EntryRecord]
    BY <2>1, <2>2
  <2>4. resolve' \in [Trades \X Outcomes -> ResolveStep]
    BY <1>0, <1>6 DEF Promote, ResolveStep
  <2>5. chosen' \in [Trades \X Outcomes -> Entries \cup {NoEntry}]
    BY <1>0, <1>6 DEF Promote
  <2> QED
    BY <1>6, <2>3, <2>4, <2>5, <2>6 DEF Promote
<1> QED
    BY <1>1, <1>2, <1>3, <1>4, <1>5, <1>6 DEF Reconcile

LEMMA TypeStep ==
    ASSUME TypeOK, PromotesExisting, Next
    PROVE  TypeOK'
    BY CreateTyped, RequestTyped, CancelTyped, ActivateTyped,
       InsertActivatedTyped, ReconcileTyped DEF Next

-----------------------------------------------------------------------------
(* An entry that exists never disappears.                                   *)
LEMMA EntriesExist ==
    ASSUME TypeOK, PromotesExisting, Next, NEW e \in Entries,
           entry[e].status # "NONE"
    PROVE  entry'[e].status # "NONE"
<1> USE DEF TypeOK, EntryRecord, requestVars, cancelVars, resolveVars
<1>1. ASSUME NEW c \in Creators, CreateCheck(c) \/ CreateInsert(c)
      PROVE  UNCHANGED entry
    BY <1>1 DEF CreateCheck, CreateInsert
<1>2. ASSUME NEW f \in Entries, Request(f)
      PROVE  entry'[e].status # "NONE"
  <2>1. ASSUME NEW u \in Units, NEW t \in Trades, RequestSlot(f, u, t)
        PROVE  entry'[e].status # "NONE"
    BY <2>1 DEF RequestSlot, CanRequest, AbsentEntry
  <2>2. ASSUME NEW u \in Units, RequestPlace(f, u)
        PROVE  entry'[e].status # "NONE"
    BY <2>2 DEF RequestPlace, CanRequest, AbsentEntry
  <2>3. CASE InsertTrade(f)
    BY <2>3 DEF InsertTrade
  <2>4. CASE InsertActive(f)
    BY <2>4 DEF InsertActive
  <2>5. CASE CountWaiting(f)
    BY <2>5 DEF CountWaiting
  <2>6. CASE InsertQueued(f)
    BY <2>6 DEF InsertQueued
  <2> QED
    BY <1>2, <2>1, <2>2, <2>3, <2>4, <2>5, <2>6 DEF Request
<1>3. ASSUME NEW f \in Entries, Cancel(f)
      PROVE  entry'[e].status # "NONE"
  <2>1. CASE CancelEntry(f)
    BY <2>1 DEF CancelEntry
  <2>2. CASE RestoreUnits(f) \/ CollectWaiting(f) \/ CancelDone(f)
    BY <2>2 DEF RestoreUnits, CollectWaiting, CancelDone
  <2>3. ASSUME NEW g \in Entries, Renumber(f, g)
        PROVE  entry'[e].status # "NONE"
    BY <2>3 DEF Renumber
  <2> QED
    BY <1>3, <2>1, <2>2, <2>3 DEF Cancel
<1>4. ASSUME NEW f \in Entries, NEW t \in Trades, Activate(f, t)
      PROVE  entry'[e].status # "NONE"
    BY <1>4 DEF Activate
<1>5. ASSUME NEW t \in Trades, InsertActivated(t)
      PROVE  UNCHANGED entry
    BY <1>5 DEF InsertActivated
<1>6. ASSUME NEW t \in Trades, NEW out \in Outcomes, Reconcile(t, out)
      PROVE  entry'[e].status # "NONE"
  <2>1. CASE \/ Resolve(t, out) \/ FindListing(t, out) \/ UpdateListing(t, out)
             \/ ScanQueue(t, out)
    BY <2>1 DEF Resolve, FindListing, UpdateListing, ScanQueue
  <2>2. CASE MarkEntry(t, out)
    BY <2>2 DEF MarkEntry
  <2>3. CASE Promote(t, out)
    <3> PICK g : g = chosen[<<t, out>>]
      OBVIOUS
    <3>1. /\ entry' = [entry EXCEPT ![g].status = "ELIGIBLE", ![g].pos = 1]
      BY <2>3 DEF Promote
    <3>2. e # g => entry'[e] = entry[e]
      BY <3>1
    <3>3. e = g => entry'[e].status = "ELIGIBLE"
      BY <3>1
    <3> QED
      BY <3>2, <3>3
  <2> QED
    BY <1>6, <2>1, <2>2, <2>3 DEF Reconcile
<1> QED
    BY <1>1, <1>2, <1>3, <1>4, <1>5, <1>6 DEF Next

LEMMA PromotesStep ==
    ASSUME TypeOK, PromotesExisting, Next
    PROVE  PromotesExisting'
<1> USE DEF TypeOK, requestVars, cancelVars, resolveVars
<1>0. \A e \in Entries : entry[e].status # "NONE" => entry'[e].status # "NONE"
    BY EntriesExist
<1>1. CASE UNCHANGED <<resolve, chosen>>
    BY <1>0, <1>1 DEF PromotesExisting
<1>2. ASSUME NEW t \in Trades, NEW out \in Outcomes, Reconcile(t, out)
      PROVE  PromotesExisting'
  <2>0. <<t, out>> \in Trades \X Outcomes
    OBVIOUS
  <2>1. CASE Resolve(t, out)
    BY <1>0, <2>0, <2>1 DEF Resolve, PromotesExisting
  <2>2. CASE FindListing(t, out)
    BY <1>0, <2>0, <2>2 DEF FindListing, PromotesExisting
  <2>3. CASE UpdateListing(t, out)
    BY <1>0, <2>0, <2>3 DEF UpdateListing, PromotesExisting
  <2>4. CASE MarkEntry(t, out)
    BY <1>0, <2>0, <2>4 DEF MarkEntry, PromotesExisting
  <2>5. CASE ScanQueue(t, out)
    <3>1. CASE resolve' = [resolve EXCEPT ![<<t, out>>] = "idle"] /\ UNCHANGED chosen
      BY <1>0, <2>0, <3>1 DEF PromotesExisting
    <3>2. ASSUME NEW e \in Entries, entry[e].status = "QUEUED",
                 chosen' = [chosen EXCEPT ![<<t, out>>] = e],
                 resolve' = [resolve EXCEPT ![<<t, out>>] = "promote"]
          PROVE  PromotesExisting'
      BY <1>0, <2>0, <3>2 DEF PromotesExisting
    <3> QED
      BY <2>5, <3>1, <3>2 DEF ScanQueue
  <2>6. CASE Promote(t, out)
    BY <1>0, <2>0, <2>6 DEF Promote, PromotesExisting
  <2> QED
    BY <1>2, <2>1, <2>2, <2>3, <2>4, <2>5, <2>6 DEF Reconcile
<1>3. ASSUME NEW c \in Creators, CreateCheck(c) \/ CreateInsert(c)
      PROVE  UNCHANGED <<resolve, chosen>>
    BY <1>3 DEF CreateCheck, CreateInsert
<1>4. ASSUME NEW e \in Entries, Request(e)
      PROVE  UNCHANGED <<resolve, chosen>>
    BY <1>4 DEF Request, RequestSlot, InsertTrade, InsertActive, RequestPlace,
                CountWaiting, InsertQueued
<1>5. ASSUME NEW e \in Entries, Cancel(e)
      PROVE  UNCHANGED <<resolve, chosen>>
    BY <1>5 DEF Cancel, CancelEntry, RestoreUnits, CollectWaiting, Renumber,
                CancelDone
<1>6. ASSUME NEW t \in Trades,
             InsertActivated(t) \/ \E e \in Entries : Activate(e, t)
      PROVE  UNCHANGED <<resolve, chosen>>
    BY <1>6 DEF Activate, InsertActivated
<1> QED
    BY <1>1, <1>2, <1>3, <1>4, <1>5, <1>6 DEF Next

(* Every row and every step keeps its type: buckets never go below zero.    *)
THEOREM QueueTypeCorrect == Spec => [](TypeOK /\ PromotesExisting)
<1>1. Init => TypeOK /\ PromotesExisting
    BY InitTyped DEF Init, PromotesExisting
<1>2. TypeOK /\ PromotesExisting /\ [Next]_vars => (TypeOK /\ PromotesExisting)'
  <2>1. CASE UNCHANGED vars
    BY <2>1 DEF vars, requestVars, cancelVars, resolveVars, TypeOK,
                PromotesExisting
  <2> QED
    BY <2>1, TypeStep, PromotesStep
<1> QED
    BY <1>1, <1>2, PTL DEF Spec

-----------------------------------------------------------------------------
(* The inventory.                                                           *)

(* Before the listing exists there is nothing to take part in its sums.     *)
NothingYet ==
    listing.status = "ABSENT" =>
        /\ listing.slot = NoTrade
        /\ \A t \in Trades : trade[t].st = "none"
        /\ \A e \in Entries :
               entry[e].status = "NONE" /\ request[e] = "idle" /\ cancel[e] = "idle"
        /\ \A r \in Trades \X Outcomes : resolve[r] = "idle"

LEMMA EmptyNext ==
    ASSUME NothingYet, listing.status = "ABSENT", Next
    PROVE  \E c \in Creators : CreateCheck(c) \/ CreateInsert(c)
<1> USE DEF NothingYet
<1>1. ASSUME NEW e \in Entries PROVE ~Request(e)
    BY DEF Request, RequestSlot, CanRequest, InsertTrade, InsertActive,
           RequestPlace, CountWaiting, InsertQueued
<1>2. ASSUME NEW e \in Entries PROVE ~Cancel(e)
    BY DEF Cancel, CancelEntry, Waiting, RestoreUnits, CollectWaiting,
           Renumber, CancelDone
<1>3. ASSUME NEW e \in Entries, NEW t \in Trades PROVE ~Activate(e, t)
    BY DEF Activate
<1>4. ASSUME NEW t \in Trades PROVE ~InsertActivated(t)
    BY DEF InsertActivated
<1>5. ASSUME NEW t \in Trades, NEW out \in Outcomes PROVE ~Reconcile(t, out)
  <2>1. <<t, out>> \in Trades \X Outcomes
    OBVIOUS
  <2> QED
    BY <2>1 DEF Reconcile, Resolve, FindListing, UpdateListing, MarkEntry,
                ScanQueue, Promote
<1> QED
    BY <1>1, <1>2, <1>3, <1>4, <1>5 DEF Next

(* The listing changes in six places.                                       *)
ListingMoves ==
    \/ UNCHANGED listing
    \/ \E c \in Creators : CreateInsert(c)
    \/ \E e \in Entries, u \in Units, t \in Trades : RequestSlot(e, u, t)
    \/ \E e \in Entries, u \in Units : RequestPlace(e, u)
    \/ \E e \in Entries : RestoreUnits(e)
    \/ \E e \in Entries, t \in Trades : Activate(e, t)
    \/ \E t \in Trades, out \in Outcomes : UpdateListing(t, out)

LEMMA NextMoves == Next => ListingMoves
<1> SUFFICES ASSUME Next PROVE ListingMoves
    OBVIOUS
<1> USE DEF requestVars
<1>1. ASSUME NEW c \in Creators, CreateCheck(c) PROVE ListingMoves
    BY <1>1 DEF ListingMoves, CreateCheck
<1>2. ASSUME NEW e \in Entries, Request(e) PROVE ListingMoves
    BY <1>2 DEF ListingMoves, Request, InsertTrade, InsertActive, CountWaiting,
                InsertQueued
<1>3. ASSUME NEW e \in Entries, Cancel(e) PROVE ListingMoves
    BY <1>3 DEF ListingMoves, Cancel, CancelEntry, CollectWaiting, Renumber,
                CancelDone
<1>4. ASSUME NEW t \in Trades, InsertActivated(t) PROVE ListingMoves
    BY <1>4 DEF ListingMoves, InsertActivated
<1>5. ASSUME NEW t \in Trades, NEW out \in Outcomes, Reconcile(t, out)
      PROVE  ListingMoves
    BY <1>5 DEF ListingMoves, Reconcile, Resolve, FindListing, MarkEntry,
                ScanQueue, Promote
<1> QED
    BY <1>1, <1>2, <1>3, <1>4, <1>5 DEF Next, ListingMoves

LEMMA NeverAbsentAgain ==
    ASSUME TypeOK, Next, listing.status # "ABSENT"
    PROVE  listing'.status # "ABSENT"
<1> USE DEF TypeOK, ListingRecord
<1>1. ASSUME NEW c \in Creators, CreateInsert(c)
      PROVE  listing'.status # "ABSENT"
    BY <1>1 DEF CreateInsert
<1>2. ASSUME NEW e \in Entries, NEW u \in Units, NEW t \in Trades,
             RequestSlot(e, u, t)
      PROVE  listing'.status # "ABSENT"
    BY <1>2 DEF RequestSlot
<1>3. ASSUME NEW e \in Entries, NEW u \in Units, RequestPlace(e, u)
      PROVE  listing'.status # "ABSENT"
    BY <1>3 DEF RequestPlace
<1>4. ASSUME NEW e \in Entries, RestoreUnits(e)
      PROVE  listing'.status # "ABSENT"
    BY <1>4 DEF RestoreUnits
<1>5. ASSUME NEW e \in Entries, NEW t \in Trades, Activate(e, t)
      PROVE  listing'.status # "ABSENT"
    BY <1>5 DEF Activate
<1>6. ASSUME NEW t \in Trades, NEW out \in Outcomes, UpdateListing(t, out)
      PROVE  listing'.status # "ABSENT"
    BY <1>6, ListingUpdated
<1> QED
    BY NextMoves, <1>1, <1>2, <1>3, <1>4, <1>5, <1>6 DEF ListingMoves

LEMMA NothingYetStep ==
    ASSUME TypeOK, NothingYet, Next
    PROVE  NothingYet'
<1> SUFFICES ASSUME listing'.status = "ABSENT" PROVE NothingYet'
    BY DEF NothingYet
<1>1. listing.status = "ABSENT"
    BY NeverAbsentAgain
<1>2. PICK c \in Creators : CreateCheck(c) \/ CreateInsert(c)
    BY <1>1, EmptyNext
<1>3. CreateCheck(c)
    BY <1>2 DEF CreateInsert
<1> QED
    BY <1>1, <1>3 DEF CreateCheck, NothingYet, requestVars, cancelVars, resolveVars

LEMMA BucketsStep ==
    ASSUME TypeOK, NothingYet, Next, listing.status # "ABSENT" => BucketsAddUp
    PROVE  listing'.status # "ABSENT" => BucketsAddUp'
<1>0. /\ listing \in ListingRecord
      /\ listing.avail \in Nat /\ listing.alloc \in Nat
      /\ listing.reserved \in Nat /\ listing.filled \in Nat
      /\ \A e \in Entries : entry[e].units \in Nat
      /\ \A u \in Units : u \in Nat
      /\ Total \in Nat
    BY UnitsAssumption DEF TypeOK, ListingRecord, EntryRecord
<1>1. ASSUME NEW c \in Creators, CreateInsert(c)
      PROVE  BucketsAddUp'
    BY <1>0, <1>1 DEF CreateInsert, BucketsAddUp
<1>2. CASE listing.status = "ABSENT"
  <2>1. PICK c \in Creators : CreateCheck(c) \/ CreateInsert(c)
    BY <1>2, EmptyNext
  <2> QED
    BY <1>1, <1>2, <2>1 DEF CreateCheck, requestVars
<1>3. CASE listing.status # "ABSENT"
  <2>0. BucketsAddUp
    BY <1>3
  <2>1. ASSUME NEW e \in Entries, NEW u \in Units, NEW t \in Trades,
               RequestSlot(e, u, t)
        PROVE  BucketsAddUp'
    <3>1. /\ listing'.avail = listing.avail - u /\ listing'.alloc = listing.alloc + u
          /\ listing'.reserved = listing.reserved /\ listing'.filled = listing.filled
      BY <1>0, <2>1 DEF RequestSlot, ListingRecord
    <3> QED
      BY <1>0, <2>0, <3>1 DEF BucketsAddUp
  <2>2. ASSUME NEW e \in Entries, NEW u \in Units, RequestPlace(e, u)
        PROVE  BucketsAddUp'
    <3>1. /\ listing'.avail = listing.avail - u
          /\ listing'.reserved = listing.reserved + u
          /\ listing'.alloc = listing.alloc /\ listing'.filled = listing.filled
      BY <1>0, <2>2 DEF RequestPlace, ListingRecord
    <3> QED
      BY <1>0, <2>0, <3>1 DEF BucketsAddUp
  <2>3. ASSUME NEW e \in Entries, RestoreUnits(e)
        PROVE  BucketsAddUp'
    <3> DEFINE u == entry[e].units
    <3>1. \/ UNCHANGED listing
          \/ /\ listing'.avail = listing.avail + u
             /\ listing'.reserved = listing.reserved - u
             /\ listing'.alloc = listing.alloc /\ listing'.filled = listing.filled
      BY <1>0, <2>3 DEF RestoreUnits, ListingRecord
    <3>2. u \in Nat
      BY <1>0
    <3> HIDE DEF u
    <3> QED
      BY <1>0, <2>0, <3>1, <3>2 DEF BucketsAddUp
  <2>4. ASSUME NEW e \in Entries, NEW t \in Trades, Activate(e, t)
        PROVE  BucketsAddUp'
    <3> DEFINE u == entry[e].units
    <3>1. /\ listing'.reserved = listing.reserved - u
          /\ listing'.alloc = listing.alloc + u
          /\ listing'.avail = listing.avail /\ listing'.filled = listing.filled
      BY <1>0, <2>4 DEF Activate, ListingRecord
    <3>2. u \in Nat
      BY <1>0
    <3> HIDE DEF u
    <3> QED
      BY <1>0, <2>0, <3>1, <3>2 DEF BucketsAddUp
  <2>5. ASSUME NEW t \in Trades, NEW out \in Outcomes, UpdateListing(t, out)
        PROVE  BucketsAddUp'
    BY <2>0, <2>5, ListingUpdated DEF BucketsAddUp
  <2> QED
    BY <1>1, <2>0, <2>1, <2>2, <2>3, <2>4, <2>5, NextMoves
       DEF ListingMoves, BucketsAddUp
<1> QED
    BY <1>2, <1>3

(* The first half of InventoryExact: from the creation of the listing on,   *)
(* the four buckets add up to the deposit, whatever handlers overlap.       *)
THEOREM InventoryConserved == Spec => [](listing.status # "ABSENT" => BucketsAddUp)
<1> DEFINE Inv == /\ TypeOK /\ PromotesExisting
                  /\ NothingYet
                  /\ listing.status # "ABSENT" => BucketsAddUp
<1>1. Init => Inv
    BY InitTyped DEF Init, PromotesExisting, NothingYet, AbsentEntry
<1>2. Inv /\ [Next]_vars => Inv'
  <2>1. CASE UNCHANGED vars
    BY <2>1 DEF vars, requestVars, cancelVars, resolveVars, TypeOK,
                PromotesExisting, NothingYet, BucketsAddUp
  <2> QED
    BY <2>1, TypeStep, PromotesStep, NothingYetStep, BucketsStep
<1>3. Inv => (listing.status # "ABSENT" => BucketsAddUp)
    OBVIOUS
<1> QED
    BY <1>1, <1>2, <1>3, PTL DEF Spec

-----------------------------------------------------------------------------
(* The active slot.                                                         *)

OneCreator == \A c, d \in Creators : c = d

CreatedOnce == creating # {} => listing.status = "ABSENT"

(* A request that is to insert its trade has named one of its own, and its  *)
(* entry is not in the table.                                               *)
RequestsPending ==
    /\ \A e \in Entries : request[e] # "idle" => entry[e].status = "NONE"
    /\ \A e \in Entries :
          request[e] = "insertTrade" =>
              entry[e].trade \in Trades /\ trade[entry[e].trade].st = "named"
    /\ \A e, f \in Entries :
          /\ request[e] = "insertTrade" /\ request[f] = "insertTrade"
          /\ entry[e].trade = entry[f].trade
          => e = f

(* A reconciliation is of a trade that stays resolved, and the listing it   *)
(* found still has that trade in its slot when it is taken again.           *)
ResolvedStays ==
    \A t \in Trades, out \in Outcomes :
        /\ resolve[<<t, out>>] # "idle" => trade[t].st = out
        /\ resolve[<<t, out>>] = "update" => listing.slot = t

SlotInv ==
    /\ TypeOK /\ PromotesExisting /\ NothingYet /\ CreatedOnce
    /\ RequestsPending /\ ResolvedStays /\ OneActiveSlot

LEMMA CreatedOnceStep ==
    ASSUME TypeOK, OneCreator, NothingYet, CreatedOnce, Next
    PROVE  CreatedOnce'
<1>1. CASE listing.status = "ABSENT"
  <2>1. PICK c \in Creators : CreateCheck(c) \/ CreateInsert(c)
    BY <1>1, EmptyNext
  <2>2. CASE CreateCheck(c)
    BY <1>1, <2>2 DEF CreateCheck, CreatedOnce, requestVars
  <2>3. CASE CreateInsert(c)
    BY <2>3 DEF CreateInsert, CreatedOnce, OneCreator, TypeOK
  <2> QED
    BY <2>1, <2>2, <2>3
<1>2. CASE listing.status # "ABSENT"
  <2>1. creating = {}
    BY <1>2 DEF CreatedOnce
  <2>2. ASSUME NEW c \in Creators PROVE ~CreateCheck(c) /\ ~CreateInsert(c)
    BY <1>2, <2>1 DEF CreateCheck, CreateInsert
  <2>3. ASSUME NEW e \in Entries, Request(e) \/ Cancel(e)
        PROVE  UNCHANGED creating
    BY <2>3 DEF Request, RequestSlot, InsertTrade, InsertActive, RequestPlace,
                CountWaiting, InsertQueued, Cancel, CancelEntry, RestoreUnits,
                CollectWaiting, Renumber, CancelDone
  <2>4. ASSUME NEW t \in Trades,
               InsertActivated(t) \/ \E e \in Entries : Activate(e, t)
        PROVE  UNCHANGED creating
    BY <2>4 DEF Activate, InsertActivated
  <2>5. ASSUME NEW t \in Trades, NEW out \in Outcomes, Reconcile(t, out)
        PROVE  UNCHANGED creating
    BY <2>5 DEF Reconcile, Resolve, FindListing, UpdateListing, MarkEntry,
                ScanQueue, Promote
  <2> QED
    BY <2>1, <2>2, <2>3, <2>4, <2>5 DEF Next, CreatedOnce
<1> QED
    BY <1>1, <1>2

LEMMA RequestPending ==
    ASSUME TypeOK, RequestsPending, NEW e \in Entries, Request(e)
    PROVE  RequestsPending'
<1> USE DEF TypeOK, EntryRecord, TradeRow, requestVars, cancelVars, resolveVars
<1>1. ASSUME NEW u \in Units, NEW t \in Trades, RequestSlot(e, u, t)
      PROVE  RequestsPending'
    BY <1>1 DEF RequestSlot, CanRequest, AbsentEntry, RequestsPending
<1>2. ASSUME NEW u \in Units, RequestPlace(e, u)
      PROVE  RequestsPending'
    BY <1>2 DEF RequestPlace, CanRequest, AbsentEntry, RequestsPending
<1>3. CASE InsertTrade(e)
    BY <1>3 DEF InsertTrade, RequestsPending
<1>4. CASE InsertActive(e)
    BY <1>4 DEF InsertActive, RequestsPending
<1>5. CASE CountWaiting(e)
    BY <1>5 DEF CountWaiting, RequestsPending
<1>6. CASE InsertQueued(e)
    BY <1>6 DEF InsertQueued, RequestsPending
<1> QED
    BY <1>1, <1>2, <1>3, <1>4, <1>5, <1>6 DEF Request

LEMMA PendingStep ==
    ASSUME TypeOK, PromotesExisting, RequestsPending, Next
    PROVE  RequestsPending'
<1> USE DEF TypeOK, EntryRecord, TradeRow, requestVars, cancelVars, resolveVars
<1>1. CASE UNCHANGED <<entry, trade, request>>
    BY <1>1 DEF RequestsPending
<1>2. ASSUME NEW e \in Entries, Cancel(e)
      PROVE  RequestsPending'
  <2>1. CASE CancelEntry(e)
    BY <2>1 DEF CancelEntry, Waiting, RequestsPending
  <2>2. CASE RestoreUnits(e) \/ CollectWaiting(e) \/ CancelDone(e)
    BY <1>1, <2>2 DEF RestoreUnits, CollectWaiting, CancelDone
  <2>3. ASSUME NEW f \in Entries, Renumber(e, f)
        PROVE  RequestsPending'
    BY <2>3 DEF Renumber, RequestsPending
  <2> QED
    BY <1>2, <2>1, <2>2, <2>3 DEF Cancel
<1>3. ASSUME NEW e \in Entries, NEW t \in Trades, Activate(e, t)
      PROVE  RequestsPending'
    BY <1>3 DEF Activate, RequestsPending
<1>4. ASSUME NEW t \in Trades, InsertActivated(t)
      PROVE  RequestsPending'
    BY <1>4 DEF InsertActivated, RequestsPending
<1>5. ASSUME NEW t \in Trades, NEW out \in Outcomes, Reconcile(t, out)
      PROVE  RequestsPending'
  <2>1. CASE Resolve(t, out)
    BY <2>1 DEF Resolve, RequestsPending
  <2>2. CASE FindListing(t, out) \/ UpdateListing(t, out) \/ ScanQueue(t, out)
    BY <1>1, <2>2 DEF FindListing, UpdateListing, ScanQueue
  <2>3. CASE MarkEntry(t, out)
    <3>1. /\ UNCHANGED <<trade, request>>
          /\ \A e \in Entries :
                /\ entry'[e].trade = entry[e].trade
                /\ entry[e].status = "NONE" => entry'[e].status = "NONE"
      BY <2>3 DEF MarkEntry
    <3> QED
      BY <3>1 DEF RequestsPending
  <2>4. CASE Promote(t, out)
    <3>0. <<t, out>> \in Trades \X Outcomes
      OBVIOUS
    <3>1. PICK f \in Entries :
             /\ entry[f].status # "NONE"
             /\ entry' = [entry EXCEPT ![f].status = "ELIGIBLE", ![f].pos = 1]
      BY <2>4, <3>0 DEF Promote, PromotesExisting
    <3>2. UNCHANGED <<trade, request>>
      BY <2>4 DEF Promote
    <3>3. \A e \in Entries :
              /\ entry'[e].trade = entry[e].trade
              /\ entry[e].status = "NONE" => entry'[e].status = "NONE"
      BY <3>1
    <3> QED
      BY <3>2, <3>3 DEF RequestsPending
  <2> QED
    BY <1>5, <2>1, <2>2, <2>3, <2>4 DEF Reconcile
<1>6. ASSUME NEW c \in Creators, CreateCheck(c) \/ CreateInsert(c)
      PROVE  RequestsPending'
    BY <1>1, <1>6 DEF CreateCheck, CreateInsert
<1> QED
    BY RequestPending, <1>2, <1>3, <1>4, <1>5, <1>6 DEF Next

LEMMA ResolvedFrame ==
    ASSUME ResolvedStays, UNCHANGED resolve, listing'.slot = listing.slot,
           \A t \in Trades : trade[t].st \in Outcomes => trade'[t].st = trade[t].st
    PROVE  ResolvedStays'
    BY DEF ResolvedStays

(* The slot is given away only when it is free, so no reconciliation is     *)
(* between its two looks at the listing.                                    *)
LEMMA ResolvedTaken ==
    ASSUME TypeOK, ResolvedStays, UNCHANGED resolve, ~HasActiveSlot,
           NEW t \in Trades, trade[t].st = "none",
           \A s \in Trades \ {t} : trade'[s] = trade[s]
    PROVE  ResolvedStays'
<1>1. ASSUME NEW s \in Trades, NEW out \in Outcomes
      PROVE  /\ resolve[<<s, out>>] # "update"
             /\ resolve[<<s, out>>] # "idle" => s # t
    BY <1>1, NoRowAssumption DEF ResolvedStays, HasActiveSlot, Outcomes
<1> QED
    BY <1>1 DEF ResolvedStays

LEMMA OneReconciliation ==
    ASSUME TypeOK, NEW t \in Trades, NEW out \in Outcomes, NEW v,
           resolve' = [resolve EXCEPT ![<<t, out>>] = v]
    PROVE  /\ resolve'[<<t, out>>] = v
           /\ \A s \in Trades, o \in Outcomes :
                 (s = t /\ o = out) \/ resolve'[<<s, o>>] = resolve[<<s, o>>]
<1>1. <<t, out>> \in Trades \X Outcomes
    OBVIOUS
<1>2. ASSUME NEW s \in Trades, NEW o \in Outcomes
      PROVE  (s = t /\ o = out) \/ resolve'[<<s, o>>] = resolve[<<s, o>>]
  <2>1. <<s, o>> \in Trades \X Outcomes /\ (<<s, o>> = <<t, out>> => s = t /\ o = out)
    OBVIOUS
  <2> QED
    BY <2>1 DEF TypeOK
<1> QED
    BY <1>1, <1>2 DEF TypeOK

(* It is enough to look at the reconciliation that made the step.           *)
LEMMA ResolvedByOne ==
    ASSUME ResolvedStays, NEW t \in Trades, NEW out \in Outcomes,
           \A s \in Trades, o \in Outcomes :
               (s = t /\ o = out) \/ resolve'[<<s, o>>] = resolve[<<s, o>>],
           \A s \in Trades, o \in Outcomes :
               (s # t \/ o # out) /\ resolve[<<s, o>>] # "idle" =>
                   /\ trade'[s].st = trade[s].st
                   /\ resolve[<<s, o>>] = "update" => listing'.slot = listing.slot,
           resolve'[<<t, out>>] # "idle" => trade'[t].st = out,
           resolve'[<<t, out>>] = "update" => listing'.slot = t
    PROVE  ResolvedStays'
<1> SUFFICES ASSUME NEW s \in Trades, NEW o \in Outcomes
             PROVE  /\ resolve'[<<s, o>>] # "idle" => trade'[s].st = o
                    /\ resolve'[<<s, o>>] = "update" => listing'.slot = s
    BY DEF ResolvedStays
<1>1. CASE s = t /\ o = out
    BY <1>1
<1>2. CASE s # t \/ o # out
  <2>1. resolve'[<<s, o>>] = resolve[<<s, o>>]
    BY <1>2
  <2>2. /\ resolve[<<s, o>>] # "idle" => trade[s].st = o
        /\ resolve[<<s, o>>] = "update" => listing.slot = s
    BY DEF ResolvedStays
  <2>3. CASE resolve[<<s, o>>] = "idle"
    BY <2>1, <2>3
  <2>4. CASE resolve[<<s, o>>] # "idle"
    BY <1>2, <2>1, <2>2, <2>4
  <2> QED
    BY <2>3, <2>4
<1> QED
    BY <1>1, <1>2

LEMMA ReconcileResolved ==
    ASSUME TypeOK, ResolvedStays, ~LateRefunds, NEW t \in Trades,
           NEW out \in Outcomes, Reconcile(t, out)
    PROVE  ResolvedStays'
<1> USE DEF requestVars
<1>0. ASSUME NEW s \in Trades, NEW o \in Outcomes
      PROVE  /\ resolve[<<s, o>>] # "idle" => trade[s].st = o
             /\ resolve[<<s, o>>] = "update" => listing.slot = s
    BY DEF ResolvedStays
<1>5. <<t, out>> \in Trades \X Outcomes
    OBVIOUS
<1>1. CASE Resolve(t, out)
  <2>1. resolve' = [resolve EXCEPT ![<<t, out>>] = "find"]
    BY <1>1 DEF Resolve
  <2>2. /\ trade[t].st = "open" /\ trade'[t].st = out
        /\ \A s \in Trades \ {t} : trade'[s] = trade[s]
        /\ UNCHANGED listing
    BY <1>1 DEF Resolve, TypeOK, TradeRow
  <2>3. \A s \in Trades, o \in Outcomes : resolve[<<s, o>>] # "idle" => s # t
    BY <1>0, <2>2 DEF Outcomes
  <2> QED
    BY <2>1, <2>2, <2>3, OneReconciliation, ResolvedByOne
<1>2. CASE FindListing(t, out)
  <2> DEFINE v == IF listing.slot = t THEN "update" ELSE "idle"
  <2>1. resolve' = [resolve EXCEPT ![<<t, out>>] = v]
    BY <1>2 DEF FindListing
  <2>2. resolve[<<t, out>>] # "idle" /\ UNCHANGED <<trade, listing>>
    BY <1>2 DEF FindListing
  <2> HIDE DEF v
  <2>3. resolve'[<<t, out>>] = v
    BY <1>5, <2>1 DEF TypeOK
  <2>4. v = "update" => listing.slot = t
    BY DEF v
  <2> QED
    BY <1>0, <2>1, <2>2, <2>3, <2>4, OneReconciliation, ResolvedByOne
<1>3. CASE UpdateListing(t, out)
  <2>1. resolve' = [resolve EXCEPT ![<<t, out>>] = "mark"]
    BY <1>3 DEF UpdateListing
  <2>2. resolve[<<t, out>>] = "update" /\ UNCHANGED trade
    BY <1>3 DEF UpdateListing
  <2>3. \A s \in Trades, o \in Outcomes :
            resolve[<<s, o>>] = "update" => s = t /\ o = out
    BY <1>0, <2>2
  <2>4. /\ resolve'[<<t, out>>] = "mark"
        /\ \A s \in Trades, o \in Outcomes :
              (s = t /\ o = out) \/ resolve'[<<s, o>>] = resolve[<<s, o>>]
    BY <2>1, OneReconciliation
  <2>5. trade'[t].st = out
    BY <1>0, <2>2
  <2> QED
    BY <2>2, <2>3, <2>4, <2>5, ResolvedByOne
<1>4. CASE MarkEntry(t, out) \/ ScanQueue(t, out) \/ Promote(t, out)
  <2>1. PICK v \in {"idle", "scan", "promote"} :
            resolve' = [resolve EXCEPT ![<<t, out>>] = v]
    BY <1>4 DEF MarkEntry, ScanQueue, Promote
  <2>2. resolve[<<t, out>>] # "idle" /\ UNCHANGED <<trade, listing>>
    BY <1>4 DEF MarkEntry, ScanQueue, Promote
  <2>3. resolve'[<<t, out>>] = v
    BY <1>5, <2>1 DEF TypeOK
  <2> QED
    BY <1>0, <2>1, <2>2, <2>3, OneReconciliation, ResolvedByOne
<1> QED
    BY <1>1, <1>2, <1>3, <1>4 DEF Reconcile

LEMMA ResolvedStep ==
    ASSUME SlotInv, ~LateRefunds, Next
    PROVE  ResolvedStays'
<1> USE DEF SlotInv, requestVars, cancelVars, resolveVars
<1>1. ASSUME NEW c \in Creators, CreateCheck(c) \/ CreateInsert(c)
      PROVE  ResolvedStays'
  <2>1. CASE CreateCheck(c)
    BY <2>1, ResolvedFrame DEF CreateCheck
  <2>2. CASE CreateInsert(c)
    <3>1. listing.status = "ABSENT" /\ UNCHANGED resolve
      BY <2>2 DEF CreateInsert, CreatedOnce
    <3>2. ASSUME NEW s \in Trades, NEW o \in Outcomes
          PROVE  resolve[<<s, o>>] = "idle"
      <4>1. <<s, o>> \in Trades \X Outcomes
        OBVIOUS
      <4> QED
        BY <3>1, <4>1 DEF NothingYet
    <3> QED
      BY <3>1, <3>2 DEF ResolvedStays
  <2> QED
    BY <1>1, <2>1, <2>2
<1>2. ASSUME NEW e \in Entries, Request(e)
      PROVE  ResolvedStays'
  <2>1. ASSUME NEW u \in Units, NEW t \in Trades, RequestSlot(e, u, t)
        PROVE  ResolvedStays'
    BY <2>1, ResolvedTaken DEF RequestSlot, TypeOK
  <2>2. ASSUME NEW u \in Units, RequestPlace(e, u)
        PROVE  ResolvedStays'
    BY <2>2, ResolvedFrame DEF RequestPlace, TypeOK, ListingRecord
  <2>3. CASE InsertTrade(e)
    BY <2>3, ResolvedFrame
       DEF InsertTrade, TypeOK, TradeRow, RequestsPending, Outcomes
  <2>4. CASE InsertActive(e) \/ CountWaiting(e) \/ InsertQueued(e)
    BY <2>4, ResolvedFrame DEF InsertActive, CountWaiting, InsertQueued
  <2> QED
    BY <1>2, <2>1, <2>2, <2>3, <2>4 DEF Request
<1>3. ASSUME NEW e \in Entries, Cancel(e)
      PROVE  ResolvedStays'
  <2>1. listing'.slot = listing.slot /\ UNCHANGED <<trade, resolve>>
    BY <1>3 DEF Cancel, CancelEntry, RestoreUnits, CollectWaiting, Renumber,
                CancelDone, TypeOK, ListingRecord
  <2> QED
    BY <2>1, ResolvedFrame
<1>4. ASSUME NEW e \in Entries, NEW t \in Trades, Activate(e, t)
      PROVE  ResolvedStays'
    BY <1>4, ResolvedTaken DEF Activate, TypeOK
<1>5. ASSUME NEW t \in Trades, InsertActivated(t)
      PROVE  ResolvedStays'
    BY <1>5, ResolvedFrame DEF InsertActivated, TypeOK, TradeRow, Outcomes
<1> QED
    BY ReconcileResolved, <1>1, <1>2, <1>3, <1>4, <1>5 DEF Next

(* The slot changes hands: it was free, so no trade is unresolved and the   *)
(* allocated bucket is empty.                                               *)
LEMMA SlotTaken ==
    ASSUME TypeOK, OneActiveSlot, ~HasActiveSlot, NEW t \in Trades, NEW u \in Nat,
           listing'.slot = t, listing'.alloc = listing.alloc + u,
           trade' = [trade EXCEPT ![t] = [st |-> "named", units |-> u]]
    PROVE  OneActiveSlot'
<1>1. \A s \in Trades : trade[s].st \notin {"named", "open"}
    BY NoRowAssumption DEF OneActiveSlot, HasActiveSlot
<1>2. listing.alloc = 0
    BY DEF OneActiveSlot
<1>3. trade'[t].units = u /\ \A s \in Trades \ {t} : trade'[s] = trade[s]
    BY DEF TypeOK
<1>4. t # NoTrade
    BY NoRowAssumption
<1> QED
    BY <1>1, <1>2, <1>3, <1>4 DEF OneActiveSlot, HasActiveSlot

LEMMA SlotFrame ==
    ASSUME OneActiveSlot, TypeOK,
           listing'.slot = listing.slot, listing'.alloc = listing.alloc,
           \A t \in Trades :
               /\ trade'[t].units = trade[t].units
               /\ trade'[t].st \in {"named", "open"} =>
                      trade[t].st \in {"named", "open"}
    PROVE  OneActiveSlot'
<1>1. listing.slot # NoTrade => listing.slot \in Trades
    BY DEF TypeOK, ListingRecord
<1> QED
    BY <1>1 DEF OneActiveSlot, HasActiveSlot

LEMMA SlotStep ==
    ASSUME SlotInv, ~LateRefunds, Next
    PROVE  OneActiveSlot'
<1> USE DEF SlotInv, requestVars, cancelVars, resolveVars
<1>1. ASSUME NEW c \in Creators, CreateCheck(c) \/ CreateInsert(c)
      PROVE  OneActiveSlot'
  <2>1. CASE CreateCheck(c)
    BY <2>1, SlotFrame DEF CreateCheck
  <2>2. CASE CreateInsert(c)
    <3>1. listing.status = "ABSENT" /\ UNCHANGED trade
      BY <2>2 DEF CreateInsert, CreatedOnce
    <3> QED
      BY <2>2, <3>1 DEF CreateInsert, NothingYet, OneActiveSlot, HasActiveSlot
  <2> QED
    BY <1>1, <2>1, <2>2
<1>2. ASSUME NEW e \in Entries, Request(e)
      PROVE  OneActiveSlot'
  <2>1. ASSUME NEW u \in Units, NEW t \in Trades, RequestSlot(e, u, t)
        PROVE  OneActiveSlot'
    <3>1. u \in Nat
      BY UnitsAssumption
    <3>2. listing'.slot = t /\ listing'.alloc = listing.alloc + u
      BY <2>1 DEF RequestSlot, TypeOK, ListingRecord
    <3> QED
      BY <2>1, <3>1, <3>2, SlotTaken DEF RequestSlot
  <2>2. ASSUME NEW u \in Units, RequestPlace(e, u)
        PROVE  OneActiveSlot'
    BY <2>2, SlotFrame DEF RequestPlace, TypeOK, ListingRecord
  <2>3. CASE InsertTrade(e)
    BY <2>3, SlotFrame DEF InsertTrade, TypeOK, TradeRow, RequestsPending
  <2>4. CASE InsertActive(e) \/ CountWaiting(e) \/ InsertQueued(e)
    BY <2>4, SlotFrame DEF InsertActive, CountWaiting, InsertQueued
  <2> QED
    BY <1>2, <2>1, <2>2, <2>3, <2>4 DEF Request
<1>3. ASSUME NEW e \in Entries, Cancel(e)
      PROVE  OneActiveSlot'
  <2>1. /\ listing'.slot = listing.slot /\ listing'.alloc = listing.alloc
        /\ UNCHANGED trade
    BY <1>3 DEF Cancel, CancelEntry, RestoreUnits, CollectWaiting, Renumber,
                CancelDone, TypeOK, ListingRecord
  <2> QED
    BY <2>1, SlotFrame
<1>4. ASSUME NEW e \in Entries, NEW t \in Trades, Activate(e, t)
      PROVE  OneActiveSlot'
  <2>1. entry[e].units \in Nat
    BY DEF TypeOK, EntryRecord
  <2>2. listing'.slot = t /\ listing'.alloc = listing.alloc + entry[e].units
    BY <1>4 DEF Activate, TypeOK, ListingRecord
  <2> QED
    BY <1>4, <2>1, <2>2, SlotTaken DEF Activate
<1>5. ASSUME NEW t \in Trades, InsertActivated(t)
      PROVE  OneActiveSlot'
    BY <1>5, SlotFrame DEF InsertActivated, TypeOK, TradeRow
<1>6. ASSUME NEW t \in Trades, NEW out \in Outcomes, Reconcile(t, out)
      PROVE  OneActiveSlot'
  <2>1. CASE Resolve(t, out)
    BY <2>1, SlotFrame DEF Resolve, TypeOK, TradeRow, Outcomes
  <2>2. CASE UpdateListing(t, out)
    <3>1. listing.slot = t /\ trade[t].st = out /\ UNCHANGED trade
      BY <2>2 DEF UpdateListing, ResolvedStays
    <3>2. listing.alloc = trade[t].units /\ trade[t].units \in Nat
      BY <3>1, NoRowAssumption DEF OneActiveSlot, HasActiveSlot, TypeOK, TradeRow
    <3>3. listing'.slot = NoTrade /\ listing'.alloc = 0
      BY <2>2, <3>2, ListingUpdated
    <3>4. \A s \in Trades : trade[s].st \notin {"named", "open"}
      BY <3>1 DEF OneActiveSlot, Outcomes
    <3> QED
      BY <3>1, <3>3, <3>4 DEF OneActiveSlot, HasActiveSlot
  <2>3. CASE \/ FindListing(t, out) \/ MarkEntry(t, out)
             \/ ScanQueue(t, out) \/ Promote(t, out)
    BY <2>3, SlotFrame DEF FindListing, MarkEntry, ScanQueue, Promote
  <2> QED
    BY <1>6, <2>1, <2>2, <2>3 DEF Reconcile
<1> QED
    BY <1>1, <1>2, <1>3, <1>4, <1>5, <1>6 DEF Next

(* The inductive invariant, when the listing is created by one call and a   *)
(* resolved trade stays resolved.                                           *)
LEMMA SlotInvariant ==
    ASSUME OneCreator, ~LateRefunds
    PROVE  Spec => []SlotInv
<1>1. Init => SlotInv
    BY InitTyped DEF Init, SlotInv, PromotesExisting, NothingYet, AbsentEntry,
       CreatedOnce, RequestsPending, ResolvedStays, OneActiveSlot, HasActiveSlot
<1>2. SlotInv /\ [Next]_vars => SlotInv'
  <2>1. CASE UNCHANGED vars
    BY <2>1 DEF vars, requestVars, cancelVars, resolveVars, SlotInv,
       TypeOK, PromotesExisting, NothingYet, CreatedOnce, RequestsPending,
       ResolvedStays, OneActiveSlot, HasActiveSlot
  <2>2. ASSUME SlotInv, Next PROVE SlotInv'
    <3>1. TypeOK' /\ PromotesExisting' /\ NothingYet'
      BY <2>2, TypeStep, PromotesStep, NothingYetStep DEF SlotInv
    <3>2. CreatedOnce'
      BY <2>2, CreatedOnceStep DEF SlotInv
    <3>3. RequestsPending'
      BY <2>2, PendingStep DEF SlotInv
    <3>4. ResolvedStays' /\ OneActiveSlot'
      BY <2>2, ResolvedStep, SlotStep
    <3> QED
      BY <3>1, <3>2, <3>3, <3>4 DEF SlotInv
  <2> QED
    BY <2>1, <2>2
<1> QED
    BY <1>1, <1>2, PTL DEF Spec

(* When the listing is created by one call and a resolved trade stays       *)
(* resolved, the seller never has two buyers paying at a time, whatever     *)
(* requests, activations, cancellations and resolutions overlap.            *)
THEOREM OneBuyerAtATime ==
    ASSUME OneCreator, ~LateRefunds
    PROVE  Spec => []OneActiveSlot
<1>1. SlotInv => OneActiveSlot
    BY DEF SlotInv
<1> QED
    BY <1>1, SlotInvariant, PTL

-----------------------------------------------------------------------------
(* What has been sold.                                                      *)

Amounts == [t \in Trades |-> trade[t].units]
Sold == {t \in Trades : trade[t].st = "completed" /\ listing.slot # t}

LEMMA AmountsTyped ==
    ASSUME TypeOK
    PROVE  /\ Amounts \in [Trades -> Nat]
           /\ Sold \in SUBSET Trades /\ IsFiniteSet(Sold)
<1>1. \A t \in Trades : trade[t].units \in Nat
    BY DEF TypeOK, TradeRow
<1> QED
    BY <1>1, FiniteAssumption, FS_Subset DEF Amounts, Sold

(* No trade becomes sold and none stops being sold.                         *)
LEMMA SoldFrame ==
    ASSUME TypeOK, FilledIsSold, listing'.filled = listing.filled,
           \A t \in Trades :
               /\ t \in Sold' <=> t \in Sold
               /\ t \in Sold => trade'[t].units = trade[t].units
    PROVE  FilledIsSold'
<1>1. Sold' = Sold
    BY DEF Sold
<1>2. \A t \in Sold : Amounts'[t] = Amounts[t]
    BY DEF Amounts, Sold
<1>3. SumFunctionOnSet(Amounts', Sold) = SumFunctionOnSet(Amounts, Sold)
    BY <1>2, AmountsTyped, SumSame
<1> QED
    BY <1>1, <1>3 DEF FilledIsSold, TradeUnits, Amounts, Sold

(* The slot is free and a trade that is only named takes it.                *)
LEMMA SoldTaken ==
    ASSUME TypeOK, FilledIsSold, NEW t \in Trades, trade[t].st = "none",
           NEW u \in Nat, trade' = [trade EXCEPT ![t] = [st |-> "named", units |-> u]],
           listing'.slot = t, ~HasActiveSlot, listing'.filled = listing.filled
    PROVE  FilledIsSold'
<1>1. \A s \in Trades : s # listing.slot
    BY NoRowAssumption DEF HasActiveSlot
<1>2. /\ trade'[t].st = "named"
      /\ \A s \in Trades \ {t} : trade'[s] = trade[s]
    BY DEF TypeOK
<1>3. ASSUME NEW s \in Trades
      PROVE  /\ s \in Sold' <=> s \in Sold
             /\ s \in Sold => trade'[s].units = trade[s].units
    BY <1>1, <1>2 DEF Sold
<1> QED
    BY <1>3, SoldFrame

(* A step that leaves the slot and the bucket alone and completes no trade  *)
(* but the one in the slot.                                                 *)
LEMMA SoldKept ==
    ASSUME TypeOK, FilledIsSold,
           listing'.slot = listing.slot, listing'.filled = listing.filled,
           \A t \in Trades :
               /\ trade'[t].units = trade[t].units
               /\ listing.slot = t \/ (trade'[t].st = "completed" <=>
                                       trade[t].st = "completed")
    PROVE  FilledIsSold'
<1>1. ASSUME NEW t \in Trades
      PROVE  t \in Sold' <=> t \in Sold
    BY DEF Sold
<1> QED
    BY <1>1, SoldFrame

LEMMA SoldStep ==
    ASSUME SlotInv, ~LateRefunds, listing.status # "ABSENT" => FilledIsSold, Next,
           listing'.status # "ABSENT"
    PROVE  FilledIsSold'
<1> USE DEF SlotInv, requestVars, cancelVars, resolveVars
<1>1. ASSUME NEW c \in Creators, CreateCheck(c) \/ CreateInsert(c)
      PROVE  FilledIsSold'
  <2>1. CASE CreateCheck(c)
    BY <2>1 DEF CreateCheck
  <2>2. CASE CreateInsert(c)
    <3>1. listing.status = "ABSENT" /\ UNCHANGED trade
      BY <2>2 DEF CreateInsert, CreatedOnce
    <3>2. Sold' = {}
      BY <3>1 DEF NothingYet, Sold
    <3>3. listing'.filled = 0
      BY <2>2 DEF CreateInsert
    <3> QED
      BY <3>2, <3>3, SumEmpty DEF FilledIsSold, TradeUnits, Sold
  <2> QED
    BY <1>1, <2>1, <2>2
<1>2. CASE listing.status = "ABSENT"
    BY <1>1, <1>2, EmptyNext
<1>3. ASSUME FilledIsSold, NEW e \in Entries, Request(e)
      PROVE  FilledIsSold'
  <2>1. ASSUME NEW u \in Units, NEW t \in Trades, RequestSlot(e, u, t)
        PROVE  FilledIsSold'
    <3>1. u \in Nat
      BY UnitsAssumption
    <3>2. listing'.slot = t /\ listing'.filled = listing.filled
      BY <2>1 DEF RequestSlot, TypeOK, ListingRecord
    <3> QED
      BY <1>3, <2>1, <3>1, <3>2, SoldTaken DEF RequestSlot
  <2>2. ASSUME NEW u \in Units, RequestPlace(e, u)
        PROVE  FilledIsSold'
    BY <1>3, <2>2, SoldKept DEF RequestPlace, TypeOK, ListingRecord
  <2>3. CASE InsertTrade(e)
    BY <1>3, <2>3, SoldKept DEF InsertTrade, TypeOK, TradeRow, RequestsPending
  <2>4. CASE InsertActive(e) \/ CountWaiting(e) \/ InsertQueued(e)
    BY <1>3, <2>4, SoldKept DEF InsertActive, CountWaiting, InsertQueued
  <2> QED
    BY <1>3, <2>1, <2>2, <2>3, <2>4 DEF Request
<1>4. ASSUME FilledIsSold, NEW e \in Entries, Cancel(e)
      PROVE  FilledIsSold'
  <2>1. /\ listing'.slot = listing.slot /\ listing'.filled = listing.filled
        /\ UNCHANGED trade
    BY <1>4 DEF Cancel, CancelEntry, RestoreUnits, CollectWaiting, Renumber,
                CancelDone, TypeOK, ListingRecord
  <2> QED
    BY <1>4, <2>1, SoldKept
<1>5. ASSUME FilledIsSold, NEW e \in Entries, NEW t \in Trades, Activate(e, t)
      PROVE  FilledIsSold'
  <2>1. entry[e].units \in Nat
    BY DEF TypeOK, EntryRecord
  <2>2. listing'.slot = t /\ listing'.filled = listing.filled
    BY <1>5 DEF Activate, TypeOK, ListingRecord
  <2> QED
    BY <1>5, <2>1, <2>2, SoldTaken DEF Activate
<1>6. ASSUME FilledIsSold, NEW t \in Trades, InsertActivated(t)
      PROVE  FilledIsSold'
    BY <1>6, SoldKept DEF InsertActivated, TypeOK, TradeRow
<1>7. ASSUME FilledIsSold, NEW t \in Trades, NEW out \in Outcomes, Reconcile(t, out)
      PROVE  FilledIsSold'
  <2>1. CASE Resolve(t, out)
    <3>1. trade[t].st = "open" /\ listing.slot = t /\ UNCHANGED listing
      BY <2>1 DEF Resolve, OneActiveSlot
    <3>2. /\ trade'[t].units = trade[t].units
          /\ \A s \in Trades \ {t} : trade'[s] = trade[s]
      BY <2>1 DEF Resolve, TypeOK, TradeRow
    <3> QED
      BY <1>7, <3>1, <3>2, SoldKept
  <2>2. CASE UpdateListing(t, out)
    <3> DEFINE u == trade[t].units
    <3>1. listing.slot = t /\ trade[t].st = out /\ UNCHANGED trade
      BY <2>2 DEF UpdateListing, ResolvedStays
    <3>2. listing.alloc = u /\ u \in Nat
      BY <3>1, NoRowAssumption DEF OneActiveSlot, HasActiveSlot, TypeOK, TradeRow
    <3>3. /\ listing'.slot = NoTrade
          /\ listing'.filled = IF out # "completed" THEN listing.filled
                               ELSE listing.filled + u
      BY <2>2, <3>2, ListingUpdated
    <3>4. \A s \in Trades : s # NoTrade
      BY NoRowAssumption
    <3>5. CASE out # "completed"
      <4>1. ASSUME NEW s \in Trades PROVE s \in Sold' <=> s \in Sold
        BY <3>1, <3>3, <3>4, <3>5 DEF Sold
      <4> QED
        BY <1>7, <3>1, <3>3, <3>5, <4>1, SoldFrame
    <3>6. CASE out = "completed"
      <4>1. Sold' = Sold \cup {t} /\ t \notin Sold
        BY <3>1, <3>3, <3>4, <3>6 DEF Sold
      <4>2. Amounts' = Amounts /\ Amounts[t] = u
        BY <3>1 DEF Amounts
      <4>3. SumFunctionOnSet(Amounts, Sold \cup {t})
                = u + SumFunctionOnSet(Amounts, Sold)
        BY <4>1, <4>2, AmountsTyped, SumAdd
      <4>4. listing.filled = SumFunctionOnSet(Amounts, Sold)
        BY <1>7 DEF FilledIsSold, TradeUnits, Amounts, Sold
      <4>5. listing.filled \in Nat /\ listing'.filled = u + listing.filled
        BY <3>2, <3>3, <3>6 DEF TypeOK, ListingRecord
      <4>6. listing'.filled = SumFunctionOnSet(Amounts', Sold')
        BY <4>1, <4>2, <4>3, <4>4, <4>5
      <4> QED
        BY <4>6 DEF FilledIsSold, TradeUnits, Amounts, Sold
    <3> QED
      BY <3>5, <3>6
  <2>3. CASE \/ FindListing(t, out) \/ MarkEntry(t, out)
             \/ ScanQueue(t, out) \/ Promote(t, out)
    BY <1>7, <2>3, SoldKept DEF FindListing, MarkEntry, ScanQueue, Promote
  <2> QED
    BY <1>7, <2>1, <2>2, <2>3 DEF Reconcile
<1>8. CASE listing.status # "ABSENT"
    BY <1>1, <1>3, <1>4, <1>5, <1>6, <1>7, <1>8 DEF Next
<1> QED
    BY <1>2, <1>8

(* InventoryExact: from the creation of the listing on, the buckets add up  *)
(* to the deposit and the filled one holds what completed trades have sold, *)
(* each counted once.                                                       *)
THEOREM InventoryNeverOversold ==
    ASSUME OneCreator, ~LateRefunds
    PROVE  Spec => []InventoryExact
<1> DEFINE Half == listing.status # "ABSENT" => FilledIsSold
<1>1. Init => Half
    BY DEF Init
<1>2. SlotInv /\ Half /\ [Next]_vars => Half'
  <2>1. CASE UNCHANGED vars
    BY <2>1 DEF vars, requestVars, FilledIsSold, TradeUnits
  <2> QED
    BY <2>1, SoldStep
<1>3. Half /\ (listing.status # "ABSENT" => BucketsAddUp) => InventoryExact
    BY DEF InventoryExact
<1> QED
    BY <1>1, <1>2, <1>3, SlotInvariant, InventoryConserved, PTL DEF Spec

-----------------------------------------------------------------------------
(* Entries that are closed.                                                 *)

(* The trade whose entry a reconciliation is about to close has left the    *)
(* slot, and never comes back to it: the slot is given to trades that have  *)
(* no row.                                                                  *)
MarkedFree ==
    \A t \in Trades, out \in Outcomes :
        resolve[<<t, out>>] = "mark" => listing.slot # t

LEMMA MarksMade ==
    ASSUME TypeOK, Next, NEW t \in Trades, NEW out \in Outcomes,
           resolve'[<<t, out>>] = "mark"
    PROVE  resolve[<<t, out>>] = "mark" \/ UpdateListing(t, out)
<1> USE DEF requestVars, cancelVars, resolveVars
<1>1. CASE UNCHANGED resolve
    BY <1>1
<1>2. ASSUME NEW s \in Trades, NEW o \in Outcomes, Reconcile(s, o)
      PROVE  resolve[<<t, out>>] = "mark" \/ UpdateListing(t, out)
  <2>1. CASE s = t /\ o = out
    <3>1. <<t, out>> \in Trades \X Outcomes
      OBVIOUS
    <3>2. CASE UpdateListing(s, o)
      BY <2>1, <3>2
    <3>3. ASSUME NEW v \in ResolveStep \ {"mark"},
                 resolve' = [resolve EXCEPT ![<<t, out>>] = v]
          PROVE  FALSE
      BY <3>1, <3>3 DEF TypeOK
    <3>4. CASE \/ Resolve(s, o) \/ FindListing(s, o) \/ MarkEntry(s, o)
               \/ ScanQueue(s, o) \/ Promote(s, o)
      BY <2>1, <3>3, <3>4 DEF Resolve, FindListing, MarkEntry, ScanQueue, Promote,
                              ResolveStep
    <3> QED
      BY <1>2, <3>2, <3>4 DEF Reconcile
  <2>2. CASE ~(s = t /\ o = out)
    <3>1. PICK v : resolve' = [resolve EXCEPT ![<<s, o>>] = v]
      BY <1>2 DEF Reconcile, Resolve, FindListing, UpdateListing, MarkEntry,
                  ScanQueue, Promote
    <3> QED
      BY <2>2, <3>1, OneReconciliation
  <2> QED
    BY <2>1, <2>2
<1>3. ASSUME NEW c \in Creators, CreateCheck(c) \/ CreateInsert(c)
      PROVE  UNCHANGED resolve
    BY <1>3 DEF CreateCheck, CreateInsert
<1>4. ASSUME NEW e \in Entries, Request(e) \/ Cancel(e)
      PROVE  UNCHANGED resolve
    BY <1>4 DEF Request, RequestSlot, InsertTrade, InsertActive, RequestPlace,
                CountWaiting, InsertQueued, Cancel, CancelEntry, RestoreUnits,
                CollectWaiting, Renumber, CancelDone
<1>5. ASSUME NEW s \in Trades,
             InsertActivated(s) \/ \E e \in Entries : Activate(e, s)
      PROVE  UNCHANGED resolve
    BY <1>5 DEF Activate, InsertActivated
<1> QED
    BY <1>1, <1>2, <1>3, <1>4, <1>5 DEF Next

(* The slot is given only to a trade that has no row.                       *)
LEMMA SlotMoves ==
    ASSUME TypeOK, Next
    PROVE  \/ listing'.slot \in {listing.slot, NoTrade}
           \/ \E t \in Trades : listing'.slot = t /\ trade[t].st = "none"
<1> USE DEF TypeOK, ListingRecord
<1>1. ASSUME NEW c \in Creators, CreateInsert(c)
      PROVE  listing'.slot = NoTrade
    BY <1>1 DEF CreateInsert
<1>2. ASSUME NEW e \in Entries, NEW u \in Units, NEW t \in Trades,
             RequestSlot(e, u, t)
      PROVE  listing'.slot = t /\ trade[t].st = "none"
    BY <1>2 DEF RequestSlot
<1>3. ASSUME NEW e \in Entries, NEW u \in Units, RequestPlace(e, u)
      PROVE  listing'.slot = listing.slot
    BY <1>3 DEF RequestPlace
<1>4. ASSUME NEW e \in Entries, RestoreUnits(e)
      PROVE  listing'.slot = listing.slot
    BY <1>4 DEF RestoreUnits
<1>5. ASSUME NEW e \in Entries, NEW t \in Trades, Activate(e, t)
      PROVE  listing'.slot = t /\ trade[t].st = "none"
    BY <1>5 DEF Activate
<1>6. ASSUME NEW t \in Trades, NEW out \in Outcomes, UpdateListing(t, out)
      PROVE  listing'.slot = NoTrade
    BY <1>6, ListingUpdated
<1> QED
    BY NextMoves, <1>1, <1>2, <1>3, <1>4, <1>5, <1>6 DEF ListingMoves

LEMMA MarkedStep ==
    ASSUME SlotInv, MarkedFree, Next
    PROVE  MarkedFree'
<1> SUFFICES ASSUME NEW t \in Trades, NEW out \in Outcomes,
                    resolve'[<<t, out>>] = "mark"
             PROVE  listing'.slot # t
    BY DEF MarkedFree
<1>1. TypeOK /\ t # NoTrade
    BY NoRowAssumption DEF SlotInv
<1>2. CASE UpdateListing(t, out)
    BY <1>1, <1>2, ListingUpdated
<1>3. CASE resolve[<<t, out>>] = "mark"
  <2>1. listing.slot # t /\ trade[t].st = out
    BY <1>3 DEF MarkedFree, SlotInv, ResolvedStays
  <2>2. trade[t].st # "none"
    BY <2>1 DEF Outcomes
  <2> QED
    BY <1>1, <2>1, <2>2, SlotMoves
<1> QED
    BY <1>1, <1>2, <1>3, MarksMade

Closed == {"CANCELLED", "COMPLETED", "EXPIRED"}

(* Which statuses a step may give an entry, by the step.                    *)
LEMMA StatusMoves ==
    ASSUME SlotInv, Next, NEW e \in Entries, entry'[e].status # entry[e].status
    PROVE  \/ /\ entry[e].status \notin Closed
              /\ entry'[e].status \notin {"COMPLETED", "EXPIRED"}
           \/ /\ entry'[e].status = "ELIGIBLE"
              /\ entry[e].status = "QUEUED" \/ e \in overwrote'
           \/ /\ entry[e].status = "ACTIVE_SLOT"
              /\ \E t \in Trades, out \in Outcomes :
                    entry[e].trade = t /\ resolve[<<t, out>>] = "mark"
<1> USE DEF SlotInv, TypeOK, EntryRecord, Closed, requestVars, cancelVars, resolveVars
<1> DEFINE Goal ==
           \/ /\ entry[e].status \notin Closed
              /\ entry'[e].status \notin {"COMPLETED", "EXPIRED"}
           \/ /\ entry'[e].status = "ELIGIBLE"
              /\ entry[e].status = "QUEUED" \/ e \in overwrote'
           \/ /\ entry[e].status = "ACTIVE_SLOT"
              /\ \E t \in Trades, out \in Outcomes :
                    entry[e].trade = t /\ resolve[<<t, out>>] = "mark"
<1>1. ASSUME NEW c \in Creators, CreateCheck(c) \/ CreateInsert(c)
      PROVE  FALSE
    BY <1>1 DEF CreateCheck, CreateInsert
<1>2. ASSUME NEW f \in Entries, Request(f)
      PROVE  Goal
  <2>1. ASSUME NEW u \in Units, NEW t \in Trades, RequestSlot(f, u, t)
        PROVE  FALSE
    BY <2>1 DEF RequestSlot, CanRequest, AbsentEntry
  <2>2. ASSUME NEW u \in Units, RequestPlace(f, u)
        PROVE  FALSE
    BY <2>2 DEF RequestPlace, CanRequest, AbsentEntry
  <2>3. CASE InsertTrade(f)
    BY <2>3 DEF InsertTrade
  <2>4. CASE InsertActive(f)
    BY <2>4 DEF InsertActive, RequestsPending
  <2>5. CASE CountWaiting(f)
    BY <2>5 DEF CountWaiting
  <2>6. CASE InsertQueued(f)
    BY <2>6 DEF InsertQueued, RequestsPending
  <2> QED
    BY <1>2, <2>1, <2>2, <2>3, <2>4, <2>5, <2>6 DEF Request
<1>3. ASSUME NEW f \in Entries, Cancel(f)
      PROVE  Goal
  <2>1. CASE CancelEntry(f)
    BY <2>1 DEF CancelEntry, Waiting
  <2>2. CASE RestoreUnits(f) \/ CollectWaiting(f) \/ CancelDone(f)
    BY <2>2 DEF RestoreUnits, CollectWaiting, CancelDone
  <2>3. ASSUME NEW g \in Entries, Renumber(f, g)
        PROVE  Goal
    BY <2>3 DEF Renumber
  <2> QED
    BY <1>3, <2>1, <2>2, <2>3 DEF Cancel
<1>4. ASSUME NEW f \in Entries, NEW t \in Trades, Activate(f, t)
      PROVE  Goal
    BY <1>4 DEF Activate
<1>5. ASSUME NEW t \in Trades, InsertActivated(t)
      PROVE  FALSE
    BY <1>5 DEF InsertActivated
<1>6. ASSUME NEW t \in Trades, NEW out \in Outcomes, Reconcile(t, out)
      PROVE  Goal
  <2>1. CASE \/ Resolve(t, out) \/ FindListing(t, out) \/ UpdateListing(t, out)
             \/ ScanQueue(t, out)
    BY <2>1 DEF Resolve, FindListing, UpdateListing, ScanQueue
  <2>2. CASE MarkEntry(t, out)
    BY <2>2 DEF MarkEntry
  <2>3. CASE Promote(t, out)
    <3>1. chosen[<<t, out>>] = e
      BY <2>3 DEF Promote
    <3> QED
      BY <2>3, <3>1 DEF Promote
  <2> QED
    BY <1>6, <2>1, <2>2, <2>3 DEF Reconcile
<1> QED
    BY <1>1, <1>2, <1>3, <1>4, <1>5, <1>6 DEF Next

LEMMA MarkedAlways ==
    ASSUME OneCreator, ~LateRefunds
    PROVE  Spec => []MarkedFree
<1>1. Init => MarkedFree
    BY DEF Init, MarkedFree
<1>2. SlotInv /\ MarkedFree /\ [Next]_vars => MarkedFree'
    BY MarkedStep DEF vars, requestVars, resolveVars, MarkedFree
<1> QED
    BY <1>1, <1>2, SlotInvariant, PTL DEF Spec

(* EntriesStayClosed: an entry a buyer cancelled or that was used up comes  *)
(* back only through a promotion that did not look at it again, and an      *)
(* entry in the slot is closed only for a trade that is resolved and out of *)
(* the slot.                                                                *)
THEOREM EntriesClosedForGood ==
    ASSUME OneCreator, ~LateRefunds
    PROVE  Spec => EntriesStayClosed
<1>1. ASSUME SlotInv, MarkedFree, [Next]_vars, NEW e \in Entries,
             entry'[e].status # entry[e].status
      PROVE  /\ entry[e].status \in Closed => e \in overwrote'
             /\ entry'[e].status \in {"COMPLETED", "EXPIRED"} =>
                    /\ trade[entry[e].trade].st \in Outcomes
                    /\ listing.slot # entry[e].trade
  <2>1. Next
    BY <1>1 DEF vars, requestVars
  <2>2. CASE \E t \in Trades, out \in Outcomes :
                 entry[e].trade = t /\ resolve[<<t, out>>] = "mark"
    BY <1>1, <2>1, <2>2, StatusMoves
       DEF SlotInv, ResolvedStays, MarkedFree, Closed
  <2> QED
    BY <1>1, <2>1, <2>2, StatusMoves DEF Closed
<1>2. SlotInv /\ MarkedFree /\ [Next]_vars =>
        [\A e \in Entries :
            entry'[e].status # entry[e].status =>
                /\ entry[e].status \in {"CANCELLED", "COMPLETED", "EXPIRED"}
                       => e \in overwrote'
                /\ entry'[e].status \in {"COMPLETED", "EXPIRED"}
                       => /\ trade[entry[e].trade].st \in Outcomes
                          /\ listing.slot # entry[e].trade]_vars
    BY <1>1 DEF Closed
<1> QED
    BY <1>2, SlotInvariant, MarkedAlways, PTL DEF Spec, EntriesStayClosed

-----------------------------------------------------------------------------
(* What the buyers in the queue hold.                                       *)

(* A cancellation starts from an entry in the table, not from one that its  *)
(* request has yet to insert, and until its units are given back the entry  *)
(* is CANCELLED, unless a promotion has overwritten it.                     *)
GivesBack ==
    \A e \in Entries :
        /\ entry[e].status = "NONE" => cancel[e] = "idle"
        /\ cancel[e] = "restore" /\ e \notin overwrote =>
               entry[e].status = "CANCELLED"

LEMMA GivesBackFrame ==
    ASSUME TypeOK, GivesBack, UNCHANGED cancel, overwrote \subseteq overwrote',
           \A e \in Entries :
               \/ entry'[e].status = entry[e].status
               \/ /\ entry[e].status # "CANCELLED" \/ e \in overwrote'
                  /\ entry'[e].status # "NONE"
    PROVE  GivesBack'
    BY DEF GivesBack

LEMMA GivesBackStep ==
    ASSUME TypeOK, PromotesExisting, RequestsPending, GivesBack, Next
    PROVE  GivesBack'
<1> USE DEF TypeOK, EntryRecord, requestVars, cancelVars, resolveVars
<1>0. CASE UNCHANGED <<entry, cancel, overwrote>>
    BY <1>0, GivesBackFrame
<1>1. ASSUME NEW c \in Creators, CreateCheck(c) \/ CreateInsert(c)
      PROVE  UNCHANGED <<entry, cancel, overwrote>>
    BY <1>1 DEF CreateCheck, CreateInsert
<1>2. ASSUME NEW f \in Entries, Request(f)
      PROVE  GivesBack'
  <2>1. ASSUME NEW u \in Units, NEW t \in Trades, RequestSlot(f, u, t)
        PROVE  GivesBack'
    BY <2>1, GivesBackFrame DEF RequestSlot, CanRequest, AbsentEntry
  <2>2. ASSUME NEW u \in Units, RequestPlace(f, u)
        PROVE  GivesBack'
    BY <2>2, GivesBackFrame DEF RequestPlace, CanRequest, AbsentEntry
  <2>3. CASE InsertTrade(f)
    BY <1>0, <2>3 DEF InsertTrade
  <2>4. CASE InsertActive(f)
    BY <2>4, GivesBackFrame DEF InsertActive, RequestsPending
  <2>5. CASE CountWaiting(f)
    BY <2>5, GivesBackFrame DEF CountWaiting
  <2>6. CASE InsertQueued(f)
    BY <2>6, GivesBackFrame DEF InsertQueued, RequestsPending
  <2> QED
    BY <1>2, <2>1, <2>2, <2>3, <2>4, <2>5, <2>6 DEF Request
<1>3. ASSUME NEW f \in Entries, Cancel(f)
      PROVE  GivesBack'
  <2>1. CASE CancelEntry(f)
    BY <2>1 DEF CancelEntry, Waiting, GivesBack
  <2>2. CASE RestoreUnits(f)
    <3>1. cancel' = [cancel EXCEPT ![f] = "collect"] /\ cancel[f] = "restore"
      BY <2>2 DEF RestoreUnits
    <3>2. UNCHANGED <<entry, overwrote>>
      BY <2>2 DEF RestoreUnits
    <3> QED
      BY <3>1, <3>2 DEF GivesBack
  <2>3. CASE CollectWaiting(f) \/ CancelDone(f)
    BY <2>3 DEF CollectWaiting, CancelDone, GivesBack
  <2>4. ASSUME NEW g \in Entries, Renumber(f, g)
        PROVE  GivesBack'
    BY <2>4, GivesBackFrame DEF Renumber
  <2> QED
    BY <1>3, <2>1, <2>2, <2>3, <2>4 DEF Cancel
<1>4. ASSUME NEW f \in Entries, NEW t \in Trades, Activate(f, t)
      PROVE  GivesBack'
    BY <1>4, GivesBackFrame DEF Activate
<1>5. ASSUME NEW t \in Trades, InsertActivated(t)
      PROVE  UNCHANGED <<entry, cancel, overwrote>>
    BY <1>5 DEF InsertActivated
<1>6. ASSUME NEW t \in Trades, NEW out \in Outcomes, Reconcile(t, out)
      PROVE  GivesBack'
  <2>1. CASE \/ Resolve(t, out) \/ FindListing(t, out) \/ UpdateListing(t, out)
             \/ ScanQueue(t, out)
    BY <1>0, <2>1 DEF Resolve, FindListing, UpdateListing, ScanQueue
  <2>2. CASE MarkEntry(t, out)
    BY <2>2, GivesBackFrame DEF MarkEntry
  <2>3. CASE Promote(t, out)
    <3> PICK g : g = chosen[<<t, out>>]
      OBVIOUS
    <3>1. /\ entry' = [entry EXCEPT ![g].status = "ELIGIBLE", ![g].pos = 1]
          /\ overwrote' = IF entry[g].status = "QUEUED" THEN overwrote
                          ELSE overwrote \cup {g}
          /\ UNCHANGED cancel
      BY <2>3 DEF Promote
    <3>2. \A e \in Entries : e # g => entry'[e] = entry[e]
      BY <3>1
    <3>3. g \in Entries => entry'[g].status = "ELIGIBLE"
      BY <3>1
    <3>4. entry[g].status # "CANCELLED" \/ g \in overwrote'
      BY <3>1
    <3>5. overwrote \subseteq overwrote'
      BY <3>1
    <3> QED
      BY <3>1, <3>2, <3>3, <3>4, <3>5, GivesBackFrame
  <2> QED
    BY <1>6, <2>1, <2>2, <2>3 DEF Reconcile
<1> QED
    BY <1>0, <1>1, <1>2, <1>3, <1>4, <1>5, <1>6 DEF Next

UnitsOf == [e \in Entries |-> entry[e].units]

LEMMA UnitsTyped ==
    ASSUME TypeOK
    PROVE  /\ UnitsOf \in [Entries -> Nat]
           /\ Holders \in SUBSET Entries /\ IsFiniteSet(Holders)
           /\ \A e \in Entries : e \in Holders <=>
                 \/ entry[e].status \in {"QUEUED", "ELIGIBLE"}
                 \/ request[e] \in {"count", "insertQueued"}
                 \/ cancel[e] = "restore"
<1>1. \A e \in Entries : entry[e].units \in Nat
    BY DEF TypeOK, EntryRecord
<1>2. Holders \in SUBSET Entries
    BY DEF Holders, Waiting
<1> QED
    BY <1>1, <1>2, FiniteAssumption, FS_Subset DEF UnitsOf, Holders, Waiting

(* The same buyers hold the same units.                                     *)
LEMMA HoldersFrame ==
    ASSUME TypeOK, TypeOK', listing.reserved = EntryUnits(Holders),
           listing'.reserved = listing.reserved,
           \A e \in Entries :
               /\ e \in Holders' <=> e \in Holders
               /\ e \in Holders => entry'[e].units = entry[e].units
    PROVE  listing'.reserved = EntryUnits(Holders)'
<1>1. Holders' = Holders
    BY UnitsTyped DEF Holders, Waiting
<1>2. \A e \in Holders : UnitsOf'[e] = UnitsOf[e]
    BY UnitsTyped DEF UnitsOf
<1>3. SumFunctionOnSet(UnitsOf', Holders) = SumFunctionOnSet(UnitsOf, Holders)
    BY <1>2, UnitsTyped, SumSame
<1> QED
    BY <1>1, <1>3 DEF EntryUnits, UnitsOf

(* A buyer joins the queue with the units that are reserved.                *)
LEMMA HolderJoins ==
    ASSUME TypeOK, TypeOK', listing.reserved = EntryUnits(Holders),
           NEW f \in Entries, f \notin Holders, f \in Holders',
           listing'.reserved = listing.reserved + entry'[f].units,
           \A e \in Entries \ {f} :
               /\ e \in Holders' <=> e \in Holders
               /\ entry'[e].units = entry[e].units
    PROVE  listing'.reserved = EntryUnits(Holders)'
<1>1. Holders' = Holders \cup {f}
    BY UnitsTyped DEF Holders, Waiting
<1>2. UnitsOf' \in [Entries -> Nat] /\ UnitsOf'[f] = entry'[f].units
  <2>1. \A e \in Entries : entry'[e].units \in Nat
    BY DEF TypeOK, EntryRecord
  <2> QED
    BY <2>1 DEF UnitsOf
<1>3. SumFunctionOnSet(UnitsOf', Holders')
          = entry'[f].units + SumFunctionOnSet(UnitsOf', Holders)
    BY <1>1, <1>2, UnitsTyped, SumAdd
<1>4. \A e \in Holders : UnitsOf'[e] = UnitsOf[e]
    BY UnitsTyped DEF UnitsOf
<1>5. SumFunctionOnSet(UnitsOf', Holders) = SumFunctionOnSet(UnitsOf, Holders)
    BY <1>4, UnitsTyped, SumSame
<1>6. entry'[f].units \in Nat /\ listing.reserved \in Nat
    BY DEF TypeOK, EntryRecord, ListingRecord
<1>7. listing.reserved = SumFunctionOnSet(UnitsOf, Holders)
    BY DEF EntryUnits, UnitsOf
<1>8. listing'.reserved = SumFunctionOnSet(UnitsOf', Holders')
    BY <1>3, <1>5, <1>6, <1>7
<1> QED
    BY <1>8 DEF EntryUnits, UnitsOf

(* A buyer leaves the queue with the units that were reserved.              *)
LEMMA HolderLeaves ==
    ASSUME TypeOK, TypeOK', listing.reserved = EntryUnits(Holders),
           NEW f \in Entries, f \in Holders, f \notin Holders',
           listing'.reserved = listing.reserved - entry[f].units,
           \A e \in Entries \ {f} :
               /\ e \in Holders' <=> e \in Holders
               /\ entry'[e].units = entry[e].units
    PROVE  listing'.reserved = EntryUnits(Holders)'
<1>1. Holders' = Holders \ {f}
    BY UnitsTyped DEF Holders, Waiting
<1>2. UnitsOf[f] = entry[f].units /\ entry[f].units \in Nat
    BY DEF TypeOK, EntryRecord, UnitsOf
<1>3. IsFiniteSet(Holders \ {f})
    BY UnitsTyped, FS_RemoveElement
<1>4. SumFunctionOnSet(UnitsOf, Holders)
          = entry[f].units + SumFunctionOnSet(UnitsOf, Holders \ {f})
    BY <1>2, UnitsTyped, SumRemove
<1>5. SumFunctionOnSet(UnitsOf, Holders \ {f}) \in Nat
    BY <1>3, UnitsTyped, SumTyped
<1>6. \A e \in Holders \ {f} : UnitsOf'[e] = UnitsOf[e]
    BY UnitsTyped DEF UnitsOf
<1>7. SumFunctionOnSet(UnitsOf', Holders \ {f})
          = SumFunctionOnSet(UnitsOf, Holders \ {f})
    BY <1>3, <1>6, SumSame
<1>8. listing.reserved = SumFunctionOnSet(UnitsOf, Holders)
    BY DEF EntryUnits, UnitsOf
<1>9. listing'.reserved = SumFunctionOnSet(UnitsOf', Holders')
    BY <1>1, <1>2, <1>4, <1>5, <1>7, <1>8
<1> QED
    BY <1>9 DEF EntryUnits, UnitsOf

(* A buyer in the queue has at most what is reserved.                       *)
LEMMA HolderCovered ==
    ASSUME TypeOK, listing.reserved = EntryUnits(Holders), NEW e \in Holders
    PROVE  entry[e].units <= listing.reserved
<1>1. UnitsOf[e] = entry[e].units
    BY UnitsTyped DEF UnitsOf
<1>2. UnitsOf[e] <= SumFunctionOnSet(UnitsOf, Holders)
    BY UnitsTyped, SumMember
<1> QED
    BY <1>1, <1>2 DEF EntryUnits, UnitsOf

ReservationInv ==
    /\ TypeOK /\ PromotesExisting /\ NothingYet /\ CreatedOnce
    /\ RequestsPending /\ GivesBack /\ ReservationBacked

LEMMA OverwroteGrows ==
    ASSUME Next
    PROVE  overwrote \subseteq overwrote'
<1>1. ASSUME NEW c \in Creators, CreateCheck(c) \/ CreateInsert(c)
      PROVE  UNCHANGED overwrote
    BY <1>1 DEF CreateCheck, CreateInsert
<1>2. ASSUME NEW e \in Entries, Request(e) \/ Cancel(e)
      PROVE  UNCHANGED overwrote
    BY <1>2 DEF Request, RequestSlot, InsertTrade, InsertActive, RequestPlace,
                CountWaiting, InsertQueued, Cancel, CancelEntry, RestoreUnits,
                CollectWaiting, Renumber, CancelDone
<1>3. ASSUME NEW t \in Trades,
             InsertActivated(t) \/ \E e \in Entries : Activate(e, t)
      PROVE  UNCHANGED overwrote
    BY <1>3 DEF Activate, InsertActivated
<1>4. ASSUME NEW t \in Trades, NEW out \in Outcomes, Reconcile(t, out)
      PROVE  overwrote \subseteq overwrote'
    BY <1>4 DEF Reconcile, Resolve, FindListing, UpdateListing, MarkEntry,
                ScanQueue, Promote
<1> QED
    BY <1>1, <1>2, <1>3, <1>4 DEF Next

LEMMA ReservationStep ==
    ASSUME ReservationInv, TypeOK', Next
    PROVE  ReservationBacked'
<1> SUFFICES ASSUME overwrote' = {}
             PROVE  listing'.reserved = EntryUnits(Holders)'
    BY DEF ReservationBacked
<1> DEFINE Goal == listing'.reserved = EntryUnits(Holders)'
<1>0. overwrote = {}
    BY OverwroteGrows
<1>a. listing.reserved = EntryUnits(Holders)
    BY <1>0 DEF ReservationInv, ReservationBacked
<1>b. /\ TypeOK /\ RequestsPending /\ GivesBack
      /\ listing \in ListingRecord
      /\ entry \in [Entries -> EntryRecord]
      /\ request \in [Entries -> RequestStep] /\ cancel \in [Entries -> CancelStep]
    BY DEF ReservationInv, TypeOK
<1>c. \A e \in Entries :
         /\ e \in Holders <=>
                 \/ entry[e].status \in {"QUEUED", "ELIGIBLE"}
                 \/ request[e] \in {"count", "insertQueued"}
                 \/ cancel[e] = "restore"
         /\ e \in Holders' <=>
                 \/ entry'[e].status \in {"QUEUED", "ELIGIBLE"}
                 \/ request'[e] \in {"count", "insertQueued"}
                 \/ cancel'[e] = "restore"
    BY DEF Holders, Waiting
<1> HIDE DEF Goal
<1> USE DEF requestVars, cancelVars, resolveVars, ListingRecord
<1>frame. ASSUME listing'.reserved = listing.reserved,
                 \A e \in Entries :
                     /\ e \in Holders' <=> e \in Holders
                     /\ entry'[e].units = entry[e].units
          PROVE  Goal
    BY <1>a, <1>b, <1>frame, HoldersFrame DEF Goal
<1>idle. ASSUME listing'.reserved = listing.reserved,
                UNCHANGED <<entry, request, cancel>>
         PROVE  Goal
    BY <1>c, <1>frame, <1>idle
<1>1. ASSUME NEW c \in Creators, CreateCheck(c) \/ CreateInsert(c)
      PROVE  Goal
  <2>1. CASE CreateCheck(c)
    BY <1>idle, <2>1 DEF CreateCheck
  <2>2. CASE CreateInsert(c)
    <3>1. listing.status = "ABSENT"
      BY <2>2 DEF CreateInsert, ReservationInv, CreatedOnce
    <3>2. UNCHANGED <<entry, request, cancel>> /\ listing'.reserved = 0
      BY <2>2 DEF CreateInsert
    <3>3. Holders' = {}
      BY <3>1, <3>2 DEF Holders, Waiting, ReservationInv, NothingYet
    <3> QED
      BY <3>2, <3>3, SumEmpty DEF Goal, EntryUnits
  <2> QED
    BY <1>1, <2>1, <2>2
<1>2. ASSUME NEW f \in Entries, Request(f)
      PROVE  Goal
  <2>1. ASSUME NEW u \in Units, NEW t \in Trades, RequestSlot(f, u, t)
        PROVE  Goal
    <3>1. /\ entry[f].status = "NONE" /\ cancel[f] = "idle" /\ request[f] = "idle"
          /\ listing'.reserved = listing.reserved
          /\ request' = [request EXCEPT ![f] = "insertTrade"] /\ UNCHANGED cancel
          /\ entry'[f].status = "NONE"
          /\ \A e \in Entries \ {f} : entry'[e] = entry[e]
      BY <1>b, <2>1 DEF RequestSlot, CanRequest, AbsentEntry, GivesBack
    <3>2. f \notin Holders /\ f \notin Holders'
      BY <1>b, <1>c, <3>1
    <3>3. \A e \in Entries \ {f} : e \in Holders' <=> e \in Holders
      BY <1>b, <1>c, <3>1
    <3> QED
      BY <1>a, <1>b, <3>1, <3>2, <3>3, HoldersFrame DEF Goal
  <2>2. ASSUME NEW u \in Units, RequestPlace(f, u)
        PROVE  Goal
    <3>1. /\ entry[f].status = "NONE" /\ cancel[f] = "idle" /\ request[f] = "idle"
          /\ listing'.reserved = listing.reserved + u
          /\ request' = [request EXCEPT ![f] = "count"] /\ UNCHANGED cancel
          /\ entry'[f].units = u
          /\ \A e \in Entries \ {f} : entry'[e] = entry[e]
      BY <1>b, <2>2 DEF RequestPlace, CanRequest, AbsentEntry, GivesBack
    <3>2. f \notin Holders /\ f \in Holders'
      BY <1>b, <1>c, <3>1
    <3>3. \A e \in Entries \ {f} : e \in Holders' <=> e \in Holders
      BY <1>b, <1>c, <3>1
    <3> QED
      BY <1>a, <1>b, <3>1, <3>2, <3>3, HolderJoins DEF Goal
  <2>3. CASE InsertTrade(f) \/ InsertActive(f)
    <3>1. /\ request[f] \in {"insertTrade", "insertActive"}
          /\ request'[f] \in {"insertActive", "idle"}
          /\ \A e \in Entries \ {f} : request'[e] = request[e] /\ entry'[e] = entry[e]
          /\ entry'[f].units = entry[f].units
          /\ entry'[f].status \in {entry[f].status, "ACTIVE_SLOT"}
          /\ UNCHANGED <<listing, cancel>>
      BY <1>b, <2>3 DEF InsertTrade, InsertActive, EntryRecord
    <3>2. entry[f].status = "NONE" /\ cancel[f] = "idle"
      BY <1>b, <3>1 DEF RequestsPending, GivesBack
    <3> QED
      BY <1>c, <1>frame, <3>1, <3>2
  <2>4. CASE CountWaiting(f) \/ InsertQueued(f)
    <3>1. /\ request[f] \in {"count", "insertQueued"}
          /\ request'[f] = "insertQueued" \/ entry'[f].status = "QUEUED"
          /\ \A e \in Entries \ {f} : request'[e] = request[e] /\ entry'[e] = entry[e]
          /\ entry'[f].units = entry[f].units
          /\ UNCHANGED <<listing, cancel>>
      BY <1>b, <2>4 DEF CountWaiting, InsertQueued, EntryRecord
    <3> QED
      BY <1>c, <1>frame, <3>1
  <2> QED
    BY <1>2, <2>1, <2>2, <2>3, <2>4 DEF Request
<1>3. ASSUME NEW f \in Entries, Cancel(f)
      PROVE  Goal
  <2>1. CASE CancelEntry(f)
    <3>1. /\ entry[f].status \in {"QUEUED", "ELIGIBLE"}
          /\ cancel'[f] = "restore"
          /\ \A e \in Entries \ {f} : cancel'[e] = cancel[e] /\ entry'[e] = entry[e]
          /\ entry'[f].units = entry[f].units
          /\ UNCHANGED <<listing, request>>
      BY <1>b, <2>1 DEF CancelEntry, Waiting, EntryRecord
    <3> QED
      BY <1>c, <1>frame, <3>1
  <2>2. CASE RestoreUnits(f)
    <3>1. /\ cancel[f] = "restore" /\ cancel'[f] = "collect"
          /\ \A e \in Entries \ {f} : cancel'[e] = cancel[e]
          /\ UNCHANGED <<entry, request>>
      BY <1>b, <2>2 DEF RestoreUnits
    <3>2. entry[f].status = "CANCELLED"
      BY <1>0, <1>b, <3>1 DEF GivesBack
    <3>3. request[f] = "idle"
      BY <1>b, <3>2 DEF RequestsPending
    <3>4. f \in Holders /\ f \notin Holders'
      BY <1>c, <3>1, <3>2, <3>3
    <3>5. entry[f].units <= listing.reserved
      BY <1>a, <1>b, <3>4, HolderCovered
    <3>6. entry[f].units \in Nat /\ listing.reserved \in Nat
      BY <1>b DEF EntryRecord
    <3>7. ~(listing.reserved < entry[f].units)
      BY <3>5, <3>6
    <3>8. listing'.reserved = listing.reserved - entry[f].units
      BY <1>b, <2>2, <3>7 DEF RestoreUnits
    <3>9. \A e \in Entries \ {f} : e \in Holders' <=> e \in Holders
      BY <1>c, <3>1
    <3> QED
      BY <1>a, <1>b, <3>1, <3>4, <3>8, <3>9, HolderLeaves DEF Goal
  <2>3. CASE CollectWaiting(f) \/ CancelDone(f)
    <3>1. /\ cancel[f] \in {"collect", "renumber"} /\ cancel'[f] \in {"renumber", "idle"}
          /\ \A e \in Entries \ {f} : cancel'[e] = cancel[e]
          /\ UNCHANGED <<listing, entry, request>>
      BY <1>b, <2>3 DEF CollectWaiting, CancelDone
    <3> QED
      BY <1>c, <1>frame, <3>1
  <2>4. ASSUME NEW g \in Entries, Renumber(f, g)
        PROVE  Goal
    <3>1. /\ entry'[g].units = entry[g].units
          /\ \/ entry'[g].status = entry[g].status
             \/ entry[g].status = "QUEUED" /\ entry'[g].status = "ELIGIBLE"
          /\ \A e \in Entries \ {g} : entry'[e] = entry[e]
          /\ UNCHANGED <<listing, request, cancel>>
      BY <1>b, <2>4 DEF Renumber, EntryRecord
    <3> QED
      BY <1>c, <1>frame, <3>1
  <2> QED
    BY <1>3, <2>1, <2>2, <2>3, <2>4 DEF Cancel
<1>4. ASSUME NEW f \in Entries, NEW t \in Trades, Activate(f, t)
      PROVE  Goal
  <2>1. /\ entry[f].status \in {"QUEUED", "ELIGIBLE"}
        /\ entry'[f].status = "ACTIVE_SLOT"
        /\ listing'.reserved = listing.reserved - entry[f].units
        /\ \A e \in Entries \ {f} : entry'[e] = entry[e]
        /\ UNCHANGED <<request, cancel>>
    BY <1>b, <1>4 DEF Activate, EntryRecord
  <2>2. request[f] = "idle" /\ cancel[f] # "restore"
    BY <1>0, <1>b, <2>1 DEF RequestsPending, GivesBack
  <2>3. f \in Holders /\ f \notin Holders'
    BY <1>c, <2>1, <2>2
  <2>4. \A e \in Entries \ {f} : e \in Holders' <=> e \in Holders
    BY <1>c, <2>1
  <2> QED
    BY <1>a, <1>b, <2>1, <2>3, <2>4, HolderLeaves DEF Goal
<1>5. ASSUME NEW t \in Trades, InsertActivated(t)
      PROVE  Goal
    BY <1>5, <1>idle DEF InsertActivated
<1>6. ASSUME NEW t \in Trades, NEW out \in Outcomes, Reconcile(t, out)
      PROVE  Goal
  <2>1. CASE Resolve(t, out) \/ FindListing(t, out) \/ ScanQueue(t, out)
    BY <1>idle, <2>1 DEF Resolve, FindListing, ScanQueue
  <2>2. CASE UpdateListing(t, out)
    BY <1>b, <1>idle, <2>2, ListingUpdated DEF UpdateListing
  <2>3. CASE MarkEntry(t, out)
    <3>1. /\ UNCHANGED <<listing, request, cancel>>
          /\ \A e \in Entries :
                /\ entry'[e].units = entry[e].units
                /\ \/ entry'[e].status = entry[e].status
                   \/ /\ entry[e].status = "ACTIVE_SLOT"
                      /\ entry'[e].status \in {"COMPLETED", "EXPIRED"}
      BY <1>b, <2>3 DEF MarkEntry, EntryRecord
    <3> QED
      BY <1>c, <1>frame, <3>1
  <2>4. CASE Promote(t, out)
    <3>0. <<t, out>> \in Trades \X Outcomes
      OBVIOUS
    <3>1. PICK e \in Entries : e = chosen[<<t, out>>]
      BY <2>4, <3>0 DEF Promote, ReservationInv, PromotesExisting
    <3>2. entry[e].status = "QUEUED"
      BY <2>4, <3>1 DEF Promote
    <3>3. /\ entry'[e].units = entry[e].units
          /\ entry'[e].status = "ELIGIBLE"
          /\ \A f \in Entries \ {e} : entry'[f] = entry[f]
          /\ UNCHANGED <<listing, request, cancel>>
      BY <1>b, <2>4, <3>1 DEF Promote, EntryRecord
    <3> QED
      BY <1>c, <1>frame, <3>2, <3>3
  <2> QED
    BY <1>6, <2>1, <2>2, <2>3, <2>4 DEF Reconcile
<1> QED
    BY <1>1, <1>2, <1>3, <1>4, <1>5, <1>6 DEF Next, Goal

(* ReservationBacked: while no promotion has overwritten an entry that had  *)
(* left the queue, the reserved bucket is exactly what the buyers in the    *)
(* queue hold, so the units of every one of them can be activated or given  *)
(* back.  Unlike the slot's, this does not need resolved trades to stay so. *)
THEOREM ReservationsHeld ==
    ASSUME OneCreator
    PROVE  Spec => []ReservationBacked
<1>1. Init => ReservationInv
  <2> SUFFICES ASSUME Init PROVE ReservationInv
    OBVIOUS
  <2>1. Holders = {} /\ listing.reserved = 0
    BY DEF Init, Holders, Waiting, AbsentEntry
  <2>2. ReservationBacked
    BY <2>1, SumEmpty DEF ReservationBacked, EntryUnits
  <2> QED
    BY <2>2, InitTyped DEF Init, ReservationInv, PromotesExisting, NothingYet,
       AbsentEntry, CreatedOnce, RequestsPending, GivesBack
<1>2. ReservationInv /\ [Next]_vars => ReservationInv'
  <2>1. CASE UNCHANGED vars
    BY <2>1 DEF vars, requestVars, cancelVars, resolveVars, ReservationInv,
       TypeOK, PromotesExisting, NothingYet, CreatedOnce, RequestsPending,
       GivesBack, ReservationBacked, EntryUnits, Holders, Waiting
  <2>2. ASSUME ReservationInv, Next PROVE ReservationInv'
    <3>1. TypeOK' /\ PromotesExisting' /\ NothingYet'
      BY <2>2, TypeStep, PromotesStep, NothingYetStep DEF ReservationInv
    <3>2. CreatedOnce' /\ RequestsPending'
      BY <2>2, CreatedOnceStep, PendingStep DEF ReservationInv
    <3>3. GivesBack'
      BY <2>2, GivesBackStep DEF ReservationInv
    <3>4. ReservationBacked'
      BY <2>2, <3>1, ReservationStep
    <3> QED
      BY <3>1, <3>2, <3>3, <3>4 DEF ReservationInv
  <2> QED
    BY <2>1, <2>2
<1>3. ReservationInv => ReservationBacked
    BY DEF ReservationInv
<1> QED
    BY <1>1, <1>2, <1>3, PTL DEF Spec
=============================================================================
