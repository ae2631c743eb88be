---------------------------- MODULE EscrowFacts ----------------------------
(***************************************************************************)
(* What the calls of the escrow contract and of the trade store do to the  *)
(* records of a sale, whoever makes them.  The contract keeps its books    *)
(* for any calls in any order; EscrowProofs follows the handlers that make *)
(* them.                                                                   *)
(***************************************************************************)
EXTENDS EscrowProperties, StoreFacts

-----------------------------------------------------------------------------
(* The contract: the shape of its records and what each call leaves.       *)

Address == Buyers \cup {Seller, Oracle, NoOne}
ChainTrade ==
    [seller : Address, buyer : Address, amount : Nat, collateral : {0},
     status : EscrowStatus, createdAt : Nat, fundedAt : Nat, sentAt : Nat]
Bucket ==
    [avail : Nat, alloc : Nat, slot : EscrowIds \cup {0}, active : BOOLEAN]
Evidence == {"session", "release", "dispute"} \X Nat
Chain ==
    [trades : [EscrowIds -> ChainTrade], inv : [EscrowIds -> Bucket],
     parent : [EscrowIds -> EscrowIds \cup {0}], used : SUBSET Evidence,
     balance : Nat, next : Nat]

LEMMA ChainParts ==
    ASSUME NEW c \in Chain, NEW i \in EscrowIds
    PROVE  /\ c.trades[i] \in ChainTrade /\ c.inv[i] \in Bucket
           /\ c.parent[i] \in EscrowIds \cup {0}
           /\ c.trades[i].amount \in Nat /\ c.trades[i].collateral = 0
           /\ c.inv[i].avail \in Nat /\ c.inv[i].alloc \in Nat
           /\ c.inv[i].slot \in EscrowIds \cup {0}
           /\ c.inv[i].active \in BOOLEAN
           /\ c.trades[i].buyer \in Address /\ c.trades[i].seller \in Address
           /\ c.trades[i].status \in EscrowStatus
           /\ i \in Nat /\ i # 0 /\ c.next \in Nat /\ c.balance \in Nat
    BY ContractAssumption DEF Chain, ChainTrade, Bucket

(* Two states of the contract agree on the number j.                       *)
SameAt(c, n, j) ==
    n.trades[j] = c.trades[j] /\ n.inv[j] = c.inv[j] /\ n.parent[j] = c.parent[j]

Touched(c, trades, inv, used, balance) ==
    [c EXCEPT !.trades = trades, !.inv = inv, !.used = used, !.balance = balance]
LEMMA TouchedFields ==
    ASSUME NEW c \in Chain,
           NEW trades \in [EscrowIds -> ChainTrade], NEW inv \in [EscrowIds -> Bucket],
           NEW used, used \in SUBSET Evidence, NEW balance, balance \in Nat,
           NEW n, n = Touched(c, trades, inv, used, balance)
    PROVE  /\ n \in Chain
           /\ n.trades = trades /\ n.inv = inv /\ n.parent = c.parent
           /\ n.used = used /\ n.balance = balance /\ n.next = c.next
<1>1. n \in Chain
    BY DEF Chain, Touched
<1> QED
    BY <1>1 DEF Chain, Touched

LEMMA FundTouches ==
    ASSUME NEW c \in Chain, NEW who, NEW i \in EscrowIds
    PROVE  Fund(c, 0, who, i, 0) =
             Touched(c, [c.trades EXCEPT ![i] = Locked(@, 0, who, 0)],
                        [c.inv EXCEPT ![i] = IF @.active
                                             THEN Allocated(@, c.trades[i].amount, i) ELSE @],
                        c.used, c.balance)
<1>1. c.balance + 0 = c.balance
    BY DEF Chain
<1> QED
    BY <1>1 DEF Fund, Touched, Chain

LEMMA WithdrawTouches ==
    ASSUME NEW c \in Chain, NEW i \in EscrowIds, NEW units
    PROVE  Withdraw(c, i, units) =
             Touched(c, [c.trades EXCEPT ![i] = Reduced(@, units, TakesLast(c.inv[i], units))],
                        [c.inv EXCEPT ![i] = Withdrawn(@, units)],
                        c.used, c.balance - units)
    BY DEF Withdraw, Touched, Chain

LEMMA SentTouches ==
    ASSUME NEW c \in Chain, NEW i \in EscrowIds
    PROVE  MarkSent(c, 0, i) =
             Touched(c, [c.trades EXCEPT ![i].status = "FiatSent", ![i].sentAt = 0],
                     c.inv, c.used, c.balance)
    BY DEF MarkSent, Touched, Chain

LEMMA DisputeTouches ==
    ASSUME NEW c \in Chain, NEW i \in EscrowIds
    PROVE  Dispute(c, i) =
             Touched(c, [c.trades EXCEPT ![i].status = "Disputed"], c.inv, c.used, c.balance)
    BY DEF Dispute, Touched, Chain

(* A trade ends, and no bucket knows of it; one whose units go back to the *)
(* listing p; a listing taken whole that is offered again.                 *)
Ended(c, i, status, used) ==
    Touched(c, [c.trades EXCEPT ![i] = Settled(@, status)], c.inv, used,
            c.balance - c.trades[i].amount)
Returned(c, i, p, status, used) ==
    Touched(c, [c.trades EXCEPT ![i] = Settled(@, status)],
            [c.inv EXCEPT ![p] = BackTo(@, i, c.trades[i].amount)], used, c.balance)
Reoffered(c, i) ==
    Touched(c, [c.trades EXCEPT ![i] = OfferedAgain(@)],
            [c.inv EXCEPT ![i] = [BackTo(@, i, c.trades[i].amount) EXCEPT !.slot = 0]],
            c.used, c.balance)

LEMMA ReclaimEnds ==
    ASSUME NEW c \in Chain, NEW i \in EscrowIds, ~InState(c, i, "Created")
    PROVE  /\ ActiveParent(c, i) =>
                Reclaim(c, 0, i) = Returned(c, i, c.parent[i], "Resolved", c.used)
           /\ ~ActiveParent(c, i) /\ c.inv[i].active => Reclaim(c, 0, i) = Reoffered(c, i)
           /\ ~ActiveParent(c, i) /\ ~c.inv[i].active =>
                Reclaim(c, 0, i) = Ended(c, i, "Resolved", c.used)
<1>1. c.balance - c.trades[i].collateral = c.balance
    BY ChainParts
<1>2. CASE ActiveParent(c, i)
    BY <1>1, <1>2 DEF Reclaim, Returned, Touched, Chain
<1>3. CASE ~ActiveParent(c, i) /\ c.inv[i].active
    BY <1>1, <1>3 DEF Reclaim, Reoffered, Touched, Chain
<1>4. CASE ~ActiveParent(c, i) /\ ~c.inv[i].active
    BY <1>1, <1>4 DEF Reclaim, Ended, Touched, Chain
<1> QED
    BY <1>2, <1>3, <1>4

LEMMA ResolveEnds ==
    ASSUME NEW c \in Chain, NEW i \in EscrowIds, NEW proof
    PROVE  /\ ActiveParent(c, i) =>
                Resolve(c, i, FALSE, proof) =
                  Returned(c, i, c.parent[i], "Resolved", c.used \cup {proof})
           /\ ~ActiveParent(c, i) =>
                Resolve(c, i, FALSE, proof) = Ended(c, i, "Resolved", c.used \cup {proof})
<1>1. c.balance - c.trades[i].collateral = c.balance
    BY ChainParts
<1>2. CASE ActiveParent(c, i)
    BY <1>1, <1>2 DEF Resolve, Returned, Touched, Chain
<1>3. CASE ~ActiveParent(c, i)
    BY <1>1, <1>3 DEF Resolve, Ended, Touched, Chain
<1> QED
    BY <1>2, <1>3
(* The proof of a call is used up, and nothing else changes.               *)
Known(c, proof) == [c EXCEPT !.used = @ \cup {proof}]
LEMMA KnownFields ==
    ASSUME NEW c \in Chain, NEW proof \in Evidence, NEW n, n = Known(c, proof)
    PROVE  /\ n \in Chain /\ n.used = c.used \cup {proof}
           /\ n.trades = c.trades /\ n.inv = c.inv /\ n.parent = c.parent
           /\ n.balance = c.balance /\ n.next = c.next
    BY DEF Known, Chain

(* A dispute resolved for the buyer completes the trade.                   *)
LEMMA KnownCompletes ==
    ASSUME NEW c \in Chain, NEW i \in EscrowIds, NEW proof
    PROVE  /\ Resolve(c, i, TRUE, proof) = CompleteTrade(Known(c, proof), i)
           /\ OracleRelease(c, i, proof) = CompleteTrade(Known(c, proof), i)
    BY DEF Resolve, OracleRelease, Known

(* What the calls do to a trade and to a listing's buckets.                *)
LEMMA SettledFields ==
    ASSUME NEW t \in ChainTrade, NEW s \in EscrowStatus, NEW x, x = Settled(t, s)
    PROVE  x \in ChainTrade /\ x.status = s /\ x.buyer = t.buyer /\ x.amount = t.amount
    BY DEF ChainTrade, Settled

LEMMA LockedFields ==
    ASSUME NEW t \in ChainTrade, NEW who \in Address, NEW x, x = Locked(t, 0, who, 0)
    PROVE  x \in ChainTrade /\ x.status = "Funded" /\ x.buyer = who /\ x.amount = t.amount
<1>1. "Funded" \in EscrowStatus
    BY DEF EscrowStatus
<1> QED
    BY <1>1 DEF ChainTrade, Locked

LEMMA OfferedAgainFields ==
    ASSUME NEW t \in ChainTrade, NEW x, x = OfferedAgain(t)
    PROVE  x \in ChainTrade /\ x.status = "Created" /\ x.buyer = NoOne /\ x.amount = t.amount
<1>1. "Created" \in EscrowStatus /\ NoOne \in Address
    BY DEF EscrowStatus, Address
<1> QED
    BY <1>1 DEF ChainTrade, OfferedAgain, Settled

LEMMA ChildFields ==
    ASSUME NEW seller \in Address, NEW buyer \in Address, NEW units, units \in Nat,
           NEW x, x = ChildOrder(seller, buyer, units, 0)
    PROVE  x \in ChainTrade /\ x.status = "Funded" /\ x.buyer = buyer /\ x.amount = units
<1>1. "Funded" \in EscrowStatus /\ NoOne \in Address
    BY DEF EscrowStatus, Address
<1> QED
    BY <1>1 DEF ChainTrade, ChildOrder, NoTrade

LEMMA ReducedFields ==
    ASSUME NEW t \in ChainTrade, NEW units, units \in Nat, units <= t.amount, NEW last \in BOOLEAN,
           NEW x, x = Reduced(t, units, last)
    PROVE  /\ x \in ChainTrade /\ x.buyer = t.buyer /\ x.amount = t.amount - units
           /\ x.status = IF last THEN "Resolved" ELSE t.status
<1>1. "Resolved" \in EscrowStatus /\ t.amount - units \in Nat
    BY DEF EscrowStatus, ChainTrade
<1>2. t.amount >= units
    BY DEF ChainTrade
<1> QED
    BY <1>1, <1>2 DEF ChainTrade, Reduced

LEMMA AllocatedFields ==
    ASSUME NEW v \in Bucket, NEW units, units \in Nat, units <= v.avail, NEW i \in EscrowIds,
           NEW x, x = Allocated(v, units, i)
    PROVE  /\ x \in Bucket /\ x.avail = v.avail - units /\ x.alloc = v.alloc + units
           /\ x.slot = i /\ x.active = v.active
<1>1. v.avail - units \in Nat /\ v.alloc + units \in Nat
    BY DEF Bucket
<1>2. PICK a, b : a = v.avail - units /\ b = v.alloc + units
    OBVIOUS
<1>3. x = [v EXCEPT !.avail = a, !.alloc = b, !.slot = i]
    BY <1>2 DEF Allocated, Bucket
<1>4. x \in Bucket
    BY <1>1, <1>2, <1>3 DEF Bucket
<1>5. x.avail = a /\ x.alloc = b /\ x.slot = i /\ x.active = v.active
    BY <1>3 DEF Bucket
<1> QED
    BY <1>2, <1>4, <1>5

LEMMA WithdrawnFields ==
    ASSUME NEW v \in Bucket, NEW units, units \in Nat, units <= v.avail,
           NEW x, x = Withdrawn(v, units)
    PROVE  /\ x \in Bucket /\ x.avail = v.avail - units /\ x.alloc = v.alloc
           /\ x.slot = v.slot /\ x.active = ~TakesLast(v, units)
<1>1. v.avail - units \in Nat /\ (~TakesLast(v, units)) \in BOOLEAN
    BY DEF Bucket, TakesLast
<1>2. PICK a, b : a = v.avail - units /\ b = (~TakesLast(v, units))
    OBVIOUS
<1>3. x = [v EXCEPT !.avail = a, !.active = b]
    BY <1>2 DEF Withdrawn, Bucket
<1>4. x \in Bucket
    BY <1>1, <1>2, <1>3 DEF Bucket
<1>5. x.avail = a /\ x.alloc = v.alloc /\ x.slot = v.slot /\ x.active = b
    BY <1>3 DEF Bucket
<1> QED
    BY <1>2, <1>4, <1>5

LEMMA UnallocatedTyped ==
    ASSUME NEW v \in Bucket, NEW units, units \in Nat
    PROVE  Unallocated(v, units) \in Nat
    BY DEF Bucket, Unallocated

(* The bucket u is v once the units of the trade i are paid out of it.      *)
Gave(v, u, i, units) ==
    /\ u \in Bucket /\ u.avail = v.avail /\ u.alloc = Unallocated(v, units)
    /\ v.slot = i => u.slot = 0
    /\ v.slot # i => u.slot = v.slot
    /\ u.active = (v.active /\ ~SoldOut(v, units))
LEMMA PaidFromFields ==
    ASSUME NEW v \in Bucket, NEW units \in Nat, NEW i \in EscrowIds,
           NEW u, u = PaidFrom(v, i, units)
    PROVE  Gave(v, u, i, units)
<1>1. Unallocated(v, units) \in Nat
    BY UnallocatedTyped
<1>2. (v.active /\ ~SoldOut(v, units)) \in BOOLEAN
    BY DEF Bucket
<1> QED
    BY <1>1, <1>2 DEF Bucket, PaidFrom, Gave

(* The bucket u is v once the units of the trade i came back.              *)
GotBack(v, u, i, units) ==
    /\ u \in Bucket /\ u.avail = v.avail + units /\ u.alloc = Unallocated(v, units)
    /\ v.slot = i => u.slot = 0
    /\ v.slot # i => u.slot = v.slot
    /\ u.active = v.active
LEMMA BackToFields ==
    ASSUME NEW v \in Bucket, NEW units \in Nat, NEW i \in EscrowIds,
           NEW u, u = BackTo(v, i, units)
    PROVE  GotBack(v, u, i, units)
<1>1. Unallocated(v, units) \in Nat /\ v.avail + units \in Nat
    BY UnallocatedTyped DEF Bucket
<1> QED
    BY <1>1 DEF Bucket, BackTo, GotBack

LEMMA NotOfferedFields ==
    ASSUME NEW v \in Bucket, NEW x, x = NotOffered(v)
    PROVE  /\ x \in Bucket /\ x.alloc = v.alloc /\ x.slot = v.slot /\ x.active = FALSE
           /\ v.active => x.avail = 0
    BY DEF Bucket, NotOffered

-----------------------------------------------------------------------------
(* What each call leaves: typed records, the number it is about, and every *)
(* other number as it was.                                                 *)
Put(c, i, x, p, v, used, balance) ==
    Touched(c, [c.trades EXCEPT ![i] = x], [c.inv EXCEPT ![p] = v], used, balance)
PutTrade(c, i, x, used, balance) ==
    Touched(c, [c.trades EXCEPT ![i] = x], c.inv, used, balance)
Wrote(c, n, i, x, used, balance) ==
    /\ n \in Chain /\ n.parent = c.parent /\ n.next = c.next
    /\ n.used = used /\ n.balance = balance
    /\ n.trades[i] = x /\ \A j \in EscrowIds \ {i} : n.trades[j] = c.trades[j]
WroteBucket(c, n, p, v) ==
    n.inv[p] = v /\ \A j \in EscrowIds \ {p} : n.inv[j] = c.inv[j]
LEMMA PutFields ==
    ASSUME NEW c \in Chain, NEW i \in EscrowIds, NEW x \in ChainTrade,
           NEW p \in EscrowIds, NEW v \in Bucket,
           NEW used, used \in SUBSET Evidence, NEW balance, balance \in Nat,
           NEW n, n = Put(c, i, x, p, v, used, balance)
    PROVE  Wrote(c, n, i, x, used, balance) /\ WroteBucket(c, n, p, v)
<1>1. PICK trades, inv : /\ trades = [c.trades EXCEPT ![i] = x]
                         /\ inv = [c.inv EXCEPT ![p] = v]
    OBVIOUS
<1>2. /\ trades \in [EscrowIds -> ChainTrade] /\ trades[i] = x
      /\ \A j \in EscrowIds \ {i} : trades[j] = c.trades[j]
    BY <1>1 DEF Chain
<1>3. /\ inv \in [EscrowIds -> Bucket] /\ inv[p] = v
      /\ \A j \in EscrowIds \ {p} : inv[j] = c.inv[j]
    BY <1>1 DEF Chain
<1>4. n = Touched(c, trades, inv, used, balance)
    BY <1>1 DEF Put
<1>5. /\ n \in Chain /\ n.parent = c.parent /\ n.next = c.next
      /\ n.used = used /\ n.balance = balance /\ n.trades = trades /\ n.inv = inv
    BY <1>2, <1>3, <1>4, TouchedFields
<1> QED
    BY <1>2, <1>3, <1>5 DEF Wrote, WroteBucket

(* The same when no bucket changes.                                        *)
LEMMA PutTradeFields ==
    ASSUME NEW c \in Chain, NEW i \in EscrowIds, NEW x \in ChainTrade,
           NEW used, used \in SUBSET Evidence, NEW balance, balance \in Nat,
           NEW n, n = PutTrade(c, i, x, used, balance)
    PROVE  Wrote(c, n, i, x, used, balance) /\ n.inv = c.inv
<1>1. PICK trades : trades = [c.trades EXCEPT ![i] = x]
    OBVIOUS
<1>2. /\ trades \in [EscrowIds -> ChainTrade] /\ trades[i] = x
      /\ \A j \in EscrowIds \ {i} : trades[j] = c.trades[j]
    BY <1>1 DEF Chain
<1>3. c.inv \in [EscrowIds -> Bucket]
    BY DEF Chain
<1>4. n = Touched(c, trades, c.inv, used, balance)
    BY <1>1 DEF PutTrade
<1>5. /\ n \in Chain /\ n.parent = c.parent /\ n.next = c.next
      /\ n.used = used /\ n.balance = balance /\ n.trades = trades /\ n.inv = c.inv
    BY <1>2, <1>3, <1>4, TouchedFields
<1> QED
    BY <1>2, <1>5 DEF Wrote

LEMMA SentFields ==
    ASSUME NEW c \in Chain, NEW i \in EscrowIds, NEW n, n = MarkSent(c, 0, i)
    PROVE  /\ n \in Chain /\ n.parent = c.parent /\ n.next = c.next
           /\ n.used = c.used /\ n.balance = c.balance /\ n.inv = c.inv
           /\ n.trades[i].status = "FiatSent" /\ n.trades[i].buyer = c.trades[i].buyer
           /\ n.trades[i].amount = c.trades[i].amount
           /\ \A j \in EscrowIds \ {i} : n.trades[j] = c.trades[j]
<1>1. c.trades[i] \in ChainTrade /\ c.used \in SUBSET Evidence /\ c.balance \in Nat
    BY DEF Chain
<1>2. PICK x : x = [c.trades[i] EXCEPT !.status = "FiatSent", !.sentAt = 0]
    OBVIOUS
<1>3. /\ x \in ChainTrade /\ x.status = "FiatSent" /\ x.buyer = c.trades[i].buyer
      /\ x.amount = c.trades[i].amount
  <2>1. "FiatSent" \in EscrowStatus
    BY DEF EscrowStatus
  <2> QED
    BY <1>1, <1>2, <2>1 DEF ChainTrade
<1>4. [c.trades EXCEPT ![i].status = "FiatSent", ![i].sentAt = 0] = [c.trades EXCEPT ![i] = x]
    BY <1>2 DEF Chain
<1>5. n = PutTrade(c, i, x, c.used, c.balance)
    BY <1>4, SentTouches DEF PutTrade
<1>6. Wrote(c, n, i, x, c.used, c.balance) /\ n.inv = c.inv
    BY <1>1, <1>3, <1>5, PutTradeFields
<1> QED
    BY <1>3, <1>6 DEF Wrote

LEMMA DisputeFields ==
    ASSUME NEW c \in Chain, NEW i \in EscrowIds, NEW n, n = Dispute(c, i)
    PROVE  /\ n \in Chain /\ n.parent = c.parent /\ n.next = c.next
           /\ n.used = c.used /\ n.balance = c.balance /\ n.inv = c.inv
           /\ n.trades[i].status = "Disputed" /\ n.trades[i].buyer = c.trades[i].buyer
           /\ n.trades[i].amount = c.trades[i].amount
           /\ \A j \in EscrowIds \ {i} : n.trades[j] = c.trades[j]
<1>1. c.trades[i] \in ChainTrade /\ c.used \in SUBSET Evidence /\ c.balance \in Nat
    BY DEF Chain
<1>2. PICK x : x = [c.trades[i] EXCEPT !.status = "Disputed"]
    OBVIOUS
<1>3. /\ x \in ChainTrade /\ x.status = "Disputed" /\ x.buyer = c.trades[i].buyer
      /\ x.amount = c.trades[i].amount
  <2>1. "Disputed" \in EscrowStatus
    BY DEF EscrowStatus
  <2> QED
    BY <1>1, <1>2, <2>1 DEF ChainTrade
<1>4. [c.trades EXCEPT ![i].status = "Disputed"] = [c.trades EXCEPT ![i] = x]
    BY <1>2 DEF Chain
<1>5. n = PutTrade(c, i, x, c.used, c.balance)
    BY <1>4, DisputeTouches DEF PutTrade
<1>6. Wrote(c, n, i, x, c.used, c.balance) /\ n.inv = c.inv
    BY <1>1, <1>3, <1>5, PutTradeFields
<1> QED
    BY <1>3, <1>6 DEF Wrote

LEMMA FundFields ==
    ASSUME NEW c \in Chain, NEW i \in EscrowIds, NEW who \in Address, CanFund(c, who, i),
           NEW n, n = Fund(c, 0, who, i, 0)
    PROVE  /\ n \in Chain /\ n.parent = c.parent /\ n.next = c.next
           /\ n.used = c.used /\ n.balance = c.balance
           /\ n.trades[i].status = "Funded" /\ n.trades[i].buyer = who
           /\ n.trades[i].amount = c.trades[i].amount
           /\ n.inv[i].active = c.inv[i].active
           /\ c.inv[i].active => /\ n.inv[i].slot = i
                                 /\ n.inv[i].avail = c.inv[i].avail - c.trades[i].amount
                                 /\ n.inv[i].alloc = c.inv[i].alloc + c.trades[i].amount
           /\ \A j \in EscrowIds \ {i} : n.trades[j] = c.trades[j] /\ n.inv[j] = c.inv[j]
<1>1. /\ c.trades[i] \in ChainTrade /\ c.inv[i] \in Bucket /\ c.trades[i].amount \in Nat
      /\ c.used \in SUBSET Evidence /\ c.balance \in Nat
    BY DEF Chain, ChainTrade
<1>2. PICK x, v : /\ x = Locked(c.trades[i], 0, who, 0)
                  /\ v = IF c.inv[i].active THEN Allocated(c.inv[i], c.trades[i].amount, i)
                         ELSE c.inv[i]
    OBVIOUS
<1>3. /\ x \in ChainTrade /\ x.status = "Funded" /\ x.buyer = who
      /\ x.amount = c.trades[i].amount
    BY <1>1, <1>2, LockedFields
<1>4. /\ v \in Bucket /\ v.active = c.inv[i].active
      /\ c.inv[i].active => /\ v.slot = i
                            /\ v.avail = c.inv[i].avail - c.trades[i].amount
                            /\ v.alloc = c.inv[i].alloc + c.trades[i].amount
  <2>1. CASE c.inv[i].active
    <3>1. c.trades[i].amount <= c.inv[i].avail
        BY <2>1, <1>1 DEF CanFund, Bucket
    <3>2. PICK units \in Nat : units = c.trades[i].amount
        BY <1>1
    <3>3. v = Allocated(c.inv[i], units, i) /\ units <= c.inv[i].avail
        BY <2>1, <3>1, <3>2, <1>2
    <3>4. /\ v \in Bucket /\ v.avail = c.inv[i].avail - units
          /\ v.alloc = c.inv[i].alloc + units /\ v.slot = i /\ v.active = c.inv[i].active
        BY <3>3, <1>1, AllocatedFields
    <3> QED
        BY <2>1, <3>2, <3>4
  <2> QED
    BY <2>1, <1>1, <1>2
<1>5. /\ [c.trades EXCEPT ![i] = Locked(@, 0, who, 0)] = [c.trades EXCEPT ![i] = x]
      /\ [c.inv EXCEPT ![i] = IF @.active THEN Allocated(@, c.trades[i].amount, i) ELSE @]
           = [c.inv EXCEPT ![i] = v]
    BY <1>2 DEF Chain
<1>6. n = Put(c, i, x, i, v, c.used, c.balance)
    BY <1>5, FundTouches DEF Put
<1>7. Wrote(c, n, i, x, c.used, c.balance) /\ WroteBucket(c, n, i, v)
    BY <1>1, <1>3, <1>4, <1>6, PutFields
<1> QED
    BY <1>3, <1>4, <1>7 DEF Wrote, WroteBucket

LEMMA WithdrawFields ==
    ASSUME NEW c \in Chain, NEW i \in EscrowIds, NEW who, NEW units, units \in Nat,
           CanWithdraw(c, who, i, units), units <= c.trades[i].amount,
           NEW n, n = Withdraw(c, i, units)
    PROVE  /\ n \in Chain /\ n.parent = c.parent /\ n.next = c.next
           /\ n.used = c.used /\ n.balance = c.balance - units
           /\ n.trades[i].buyer = c.trades[i].buyer
           /\ n.trades[i].status = IF TakesLast(c.inv[i], units) THEN "Resolved"
                                   ELSE c.trades[i].status
           /\ n.trades[i].amount = c.trades[i].amount - units
           /\ n.inv[i].active = ~TakesLast(c.inv[i], units)
           /\ n.inv[i].slot = c.inv[i].slot /\ n.inv[i].alloc = c.inv[i].alloc
           /\ n.inv[i].avail = c.inv[i].avail - units
           /\ \A j \in EscrowIds \ {i} : n.trades[j] = c.trades[j] /\ n.inv[j] = c.inv[j]
<1>1. /\ c.trades[i] \in ChainTrade /\ c.inv[i] \in Bucket
      /\ c.used \in SUBSET Evidence /\ c.balance \in Nat
    BY DEF Chain
<1>2. c.balance - units \in Nat /\ units <= c.inv[i].avail
    BY <1>1 DEF CanWithdraw, CanTransfer
<1>3. PICK x, v, last : /\ last = TakesLast(c.inv[i], units)
                        /\ x = Reduced(c.trades[i], units, last)
                        /\ v = Withdrawn(c.inv[i], units)
    OBVIOUS
<1>4. last \in BOOLEAN
    BY <1>3 DEF TakesLast
<1>5. /\ x \in ChainTrade /\ x.buyer = c.trades[i].buyer
      /\ x.amount = c.trades[i].amount - units
      /\ x.status = IF last THEN "Resolved" ELSE c.trades[i].status
    BY <1>1, <1>3, <1>4, ReducedFields
<1>6. /\ v \in Bucket /\ v.avail = c.inv[i].avail - units /\ v.alloc = c.inv[i].alloc
      /\ v.slot = c.inv[i].slot /\ v.active = ~TakesLast(c.inv[i], units)
    BY <1>1, <1>2, <1>3, WithdrawnFields
<1>7. /\ [c.trades EXCEPT ![i] = Reduced(@, units, TakesLast(c.inv[i], units))]
           = [c.trades EXCEPT ![i] = x]
      /\ [c.inv EXCEPT ![i] = Withdrawn(@, units)] = [c.inv EXCEPT ![i] = v]
    BY <1>3 DEF Chain
<1>8. n = Put(c, i, x, i, v, c.used, c.balance - units)
    BY <1>7, WithdrawTouches DEF Put
<1>9. Wrote(c, n, i, x, c.used, c.balance - units) /\ WroteBucket(c, n, i, v)
    BY <1>1, <1>2, <1>5, <1>6, <1>8, PutFields
<1> QED
    BY <1>3, <1>5, <1>6, <1>9 DEF Wrote, WroteBucket

LEMMA EndFields ==
    ASSUME NEW c \in Chain, NEW i \in EscrowIds, NEW status \in EscrowStatus,
           NEW used, used \in SUBSET Evidence, c.balance >= c.trades[i].amount,
           NEW n, n = Ended(c, i, status, used)
    PROVE  /\ n \in Chain /\ n.parent = c.parent /\ n.next = c.next
           /\ n.used = used /\ n.balance = c.balance - c.trades[i].amount
           /\ n.inv = c.inv
           /\ n.trades[i].status = status /\ n.trades[i].buyer = c.trades[i].buyer
           /\ n.trades[i].amount = c.trades[i].amount
           /\ \A j \in EscrowIds \ {i} : n.trades[j] = c.trades[j]
<1>1. /\ c.trades[i] \in ChainTrade /\ c.balance - c.trades[i].amount \in Nat
    BY DEF Chain, ChainTrade
<1>2. PICK x, balance : x = Settled(c.trades[i], status)
                        /\ balance = c.balance - c.trades[i].amount
    OBVIOUS
<1>3. /\ x \in ChainTrade /\ x.status = status /\ x.buyer = c.trades[i].buyer
      /\ x.amount = c.trades[i].amount
    BY <1>1, <1>2, SettledFields
<1>4. [c.trades EXCEPT ![i] = Settled(@, status)] = [c.trades EXCEPT ![i] = x]
    BY <1>2 DEF Chain
<1>5. n = PutTrade(c, i, x, used, balance)
    BY <1>2, <1>4 DEF Ended, PutTrade
<1>6. Wrote(c, n, i, x, used, balance) /\ n.inv = c.inv
    BY <1>1, <1>2, <1>3, <1>5, PutTradeFields
<1> QED
    BY <1>2, <1>3, <1>6 DEF Wrote

LEMMA ReturnFields ==
    ASSUME NEW c \in Chain, NEW i \in EscrowIds, NEW status \in EscrowStatus,
           NEW p \in EscrowIds, NEW used, used \in SUBSET Evidence,
           NEW n, n = Returned(c, i, p, status, used)
    PROVE  /\ n \in Chain /\ n.parent = c.parent /\ n.next = c.next
           /\ n.used = used /\ n.balance = c.balance
           /\ n.inv[p].avail = c.inv[p].avail + c.trades[i].amount
           /\ n.inv[p].alloc = Unallocated(c.inv[p], c.trades[i].amount)
           /\ c.inv[p].slot = i => n.inv[p].slot = 0
           /\ c.inv[p].slot # i => n.inv[p].slot = c.inv[p].slot
           /\ n.inv[p].active = c.inv[p].active
           /\ n.trades[i].status = status /\ n.trades[i].buyer = c.trades[i].buyer
           /\ n.trades[i].amount = c.trades[i].amount
           /\ \A j \in EscrowIds \ {i} : n.trades[j] = c.trades[j]
           /\ \A j \in EscrowIds \ {p} : n.inv[j] = c.inv[j]
<1>1. /\ c.trades[i] \in ChainTrade /\ c.inv[p] \in Bucket /\ c.balance \in Nat
      /\ c.trades[i].amount \in Nat
    BY DEF Chain, ChainTrade
<1>2. PICK units \in Nat : units = c.trades[i].amount
    BY <1>1
<1>3. PICK x, v : x = Settled(c.trades[i], status) /\ v = BackTo(c.inv[p], i, units)
    OBVIOUS
<1>4. /\ x \in ChainTrade /\ x.status = status /\ x.buyer = c.trades[i].buyer
      /\ x.amount = c.trades[i].amount
    BY <1>1, <1>3, SettledFields
<1>5. GotBack(c.inv[p], v, i, units)
    BY <1>1, <1>3, BackToFields
<1>6. /\ [c.trades EXCEPT ![i] = Settled(@, status)] = [c.trades EXCEPT ![i] = x]
      /\ [c.inv EXCEPT ![p] = BackTo(@, i, c.trades[i].amount)] = [c.inv EXCEPT ![p] = v]
    BY <1>2, <1>3 DEF Chain
<1>7. n = Put(c, i, x, p, v, used, c.balance)
    BY <1>6 DEF Returned, Put
<1>8. Wrote(c, n, i, x, used, c.balance) /\ WroteBucket(c, n, p, v)
    BY <1>1, <1>4, <1>5, <1>7, PutFields DEF GotBack
<1> QED
    BY <1>2, <1>4, <1>5, <1>8 DEF Wrote, WroteBucket, GotBack

LEMMA ReofferFields ==
    ASSUME NEW c \in Chain, NEW i \in EscrowIds,
           NEW n, n = Reoffered(c, i)
    PROVE  /\ n \in Chain /\ n.parent = c.parent /\ n.next = c.next
           /\ n.used = c.used /\ n.balance = c.balance
           /\ n.inv[i].avail = c.inv[i].avail + c.trades[i].amount
           /\ n.inv[i].alloc = Unallocated(c.inv[i], c.trades[i].amount)
           /\ n.inv[i].slot = 0
           /\ c.inv[i].active => n.inv[i].active
           /\ n.trades[i].status = "Created" /\ n.trades[i].buyer = NoOne
           /\ n.trades[i].amount = c.trades[i].amount
           /\ \A j \in EscrowIds \ {i} : n.trades[j] = c.trades[j] /\ n.inv[j] = c.inv[j]
<1>1. /\ c.trades[i] \in ChainTrade /\ c.inv[i] \in Bucket /\ c.balance \in Nat
      /\ c.used \in SUBSET Evidence /\ c.trades[i].amount \in Nat
    BY DEF Chain, ChainTrade
<1>2. PICK units \in Nat : units = c.trades[i].amount
    BY <1>1
<1>3. PICK x, u : x = OfferedAgain(c.trades[i]) /\ u = BackTo(c.inv[i], i, units)
    OBVIOUS
<1>4. PICK v : v = [u EXCEPT !.slot = 0]
    OBVIOUS
<1>5. /\ x \in ChainTrade /\ x.status = "Created" /\ x.buyer = NoOne
      /\ x.amount = c.trades[i].amount
    BY <1>1, <1>3, OfferedAgainFields
<1>6. /\ u \in Bucket /\ u.avail = c.inv[i].avail + units
      /\ u.alloc = Unallocated(c.inv[i], units) /\ u.active = c.inv[i].active
  <2>1. GotBack(c.inv[i], u, i, units)
    BY <1>1, <1>3, BackToFields
  <2> QED
    BY <2>1 DEF GotBack
<1>7. /\ v \in Bucket /\ v.avail = u.avail /\ v.alloc = u.alloc /\ v.slot = 0
      /\ v.active = u.active
    BY <1>4, <1>6 DEF Bucket
<1>8. /\ [c.trades EXCEPT ![i] = OfferedAgain(@)] = [c.trades EXCEPT ![i] = x]
      /\ [c.inv EXCEPT ![i] = [BackTo(@, i, c.trades[i].amount) EXCEPT !.slot = 0]]
           = [c.inv EXCEPT ![i] = v]
    BY <1>2, <1>3, <1>4 DEF Chain
<1>9. n = Put(c, i, x, i, v, c.used, c.balance)
    BY <1>8 DEF Reoffered, Put
<1>10. Wrote(c, n, i, x, c.used, c.balance) /\ WroteBucket(c, n, i, v)
    BY <1>1, <1>5, <1>7, <1>9, PutFields
<1>11. c.inv[i].active => n.inv[i].active
    BY <1>6, <1>7, <1>10 DEF WroteBucket
<1> QED
    BY <1>2, <1>5, <1>6, <1>7, <1>10, <1>11 DEF Wrote, WroteBucket

(* A listing nobody took is withdrawn: Reclaim, of an open trade.          *)
LEMMA OpenFields ==
    ASSUME NEW c \in Chain, NEW i \in EscrowIds, InState(c, i, "Created"),
           c.balance >= OpenRefund(c, i), NEW n, n = Reclaim(c, 0, i)
    PROVE  /\ n \in Chain /\ n.parent = c.parent /\ n.next = c.next
           /\ n.used = c.used /\ n.balance = c.balance - OpenRefund(c, i)
           /\ n.trades[i].status = "Resolved" /\ n.trades[i].buyer = c.trades[i].buyer
           /\ n.trades[i].amount = c.trades[i].amount
           /\ ~n.inv[i].active
           /\ \A j \in EscrowIds \ {i} : n.trades[j] = c.trades[j] /\ n.inv[j] = c.inv[j]
<1>1. /\ c.trades[i] \in ChainTrade /\ c.inv[i] \in Bucket /\ c.used \in SUBSET Evidence
      /\ c.balance - OpenRefund(c, i) \in Nat
    BY DEF Chain, ChainTrade, Bucket, OpenRefund
<1>2. PICK x, v, balance :
        /\ x = [c.trades[i] EXCEPT !.status = "Resolved"] /\ v = NotOffered(c.inv[i])
        /\ balance = c.balance - OpenRefund(c, i)
    OBVIOUS
<1>3. /\ x \in ChainTrade /\ x.status = "Resolved" /\ x.buyer = c.trades[i].buyer
      /\ x.amount = c.trades[i].amount
  <2>1. "Resolved" \in EscrowStatus
    BY DEF EscrowStatus
  <2> QED
    BY <1>1, <1>2, <2>1 DEF ChainTrade
<1>4. v \in Bucket /\ v.active = FALSE
    BY <1>1, <1>2, NotOfferedFields
<1>5. n = Put(c, i, x, i, v, c.used, balance)
    BY <1>2 DEF Put, Touched, Reclaim, Chain
<1>6. Wrote(c, n, i, x, c.used, balance) /\ WroteBucket(c, n, i, v)
    BY <1>1, <1>2, <1>3, <1>4, <1>5, PutFields
<1>7. ~n.inv[i].active
    BY <1>4, <1>6 DEF WroteBucket
<1> QED
    BY <1>2, <1>3, <1>6, <1>7 DEF Wrote, WroteBucket

(* A trade is paid out of the bucket of its listing p.                     *)
PaidOut(c, i, p) ==
    Touched(c, [[c.trades EXCEPT ![i] = Settled(@, "Completed")] EXCEPT
                  ![p].status = IF SoldOut(c.inv[p], c.trades[i].amount)
                                THEN "Completed" ELSE @],
            [c.inv EXCEPT ![p] = PaidFrom(@, i, c.trades[i].amount)], c.used,
            c.balance - c.trades[i].amount)
LEMMA CompleteEnds ==
    ASSUME NEW c \in Chain, NEW i \in EscrowIds
    PROVE  /\ BackedBy(c, i) = 0 => CompleteTrade(c, i) = Ended(c, i, "Completed", c.used)
           /\ BackedBy(c, i) \in EscrowIds =>
                CompleteTrade(c, i) = PaidOut(c, i, BackedBy(c, i))
<1>1. c.balance - c.trades[i].amount - c.trades[i].collateral = c.balance - c.trades[i].amount
    BY ChainParts
<1>2. CASE BackedBy(c, i) = 0
  <2>1. 0 \notin EscrowIds
    BY ContractAssumption
  <2> QED
    BY <1>1, <1>2, <2>1 DEF CompleteTrade, Ended, Touched, Chain
<1>3. CASE BackedBy(c, i) \in EscrowIds
  <2>1. BackedBy(c, i) # 0
    BY <1>3, ContractAssumption
  <2>2. PICK p : p = BackedBy(c, i)
    OBVIOUS
  <2> QED
    BY <1>1, <1>3, <2>1, <2>2 DEF CompleteTrade, PaidOut, Touched, Chain
<1> QED
    BY <1>2, <1>3, ContractAssumption

LEMMA PaidOutFields ==
    ASSUME NEW c \in Chain, NEW i \in EscrowIds, NEW p \in EscrowIds,
           c.balance >= c.trades[i].amount, NEW n, n = PaidOut(c, i, p)
    PROVE  /\ n \in Chain /\ n.parent = c.parent /\ n.next = c.next
           /\ n.used = c.used /\ n.balance = c.balance - c.trades[i].amount
           /\ n.trades[i].status = "Completed" /\ n.trades[i].buyer = c.trades[i].buyer
           /\ n.trades[i].amount = c.trades[i].amount
           /\ n.trades[p].buyer = c.trades[p].buyer
           /\ n.trades[p].amount = c.trades[p].amount
           /\ SoldOut(c.inv[p], c.trades[i].amount) => n.trades[p].status = "Completed"
           /\ p # i /\ ~SoldOut(c.inv[p], c.trades[i].amount) =>
                n.trades[p].status = c.trades[p].status
           /\ n.inv[p].avail = c.inv[p].avail
           /\ n.inv[p].alloc = Unallocated(c.inv[p], c.trades[i].amount)
           /\ c.inv[p].slot = i => n.inv[p].slot = 0
           /\ c.inv[p].slot # i => n.inv[p].slot = c.inv[p].slot
           /\ n.inv[p].active = (c.inv[p].active /\ ~SoldOut(c.inv[p], c.trades[i].amount))
           /\ \A j \in EscrowIds \ {i, p} : n.trades[j] = c.trades[j]
           /\ \A j \in EscrowIds \ {p} : n.inv[j] = c.inv[j]
<1>1. /\ c.trades[i] \in ChainTrade /\ c.inv[p] \in Bucket /\ c.used \in SUBSET Evidence
      /\ c.trades[i].amount \in Nat /\ c.balance - c.trades[i].amount \in Nat
    BY DEF Chain, ChainTrade
<1>2. PICK units \in Nat : units = c.trades[i].amount
    BY <1>1
<1>3. PICK a, v, sold : /\ a = Settled(c.trades[i], "Completed")
                        /\ v = PaidFrom(c.inv[p], i, units)
                        /\ sold = SoldOut(c.inv[p], units)
    OBVIOUS
<1>4. PICK first : first = [c.trades EXCEPT ![i] = a]
    OBVIOUS
<1>5. PICK b : b = [first[p] EXCEPT !.status = IF sold THEN "Completed" ELSE @]
    OBVIOUS
<1>6. PICK trades, inv : trades = [first EXCEPT ![p] = b] /\ inv = [c.inv EXCEPT ![p] = v]
    OBVIOUS
<1>7. /\ a \in ChainTrade /\ a.status = "Completed" /\ a.buyer = c.trades[i].buyer
      /\ a.amount = c.trades[i].amount
  <2>1. "Completed" \in EscrowStatus
    BY DEF EscrowStatus
  <2> QED
    BY <1>1, <1>3, <2>1, SettledFields
<1>8. /\ first \in [EscrowIds -> ChainTrade] /\ first[i] = a
      /\ \A j \in EscrowIds \ {i} : first[j] = c.trades[j]
    BY <1>4, <1>7 DEF Chain
<1>9. /\ b \in ChainTrade /\ b.buyer = first[p].buyer /\ b.amount = first[p].amount
      /\ sold => b.status = "Completed"
      /\ ~sold => b.status = first[p].status
  <2>1. "Completed" \in EscrowStatus
    BY DEF EscrowStatus
  <2>2. CASE sold
    BY <1>5, <1>8, <2>1, <2>2 DEF ChainTrade
  <2>3. CASE ~sold
    BY <1>5, <1>8, <2>3 DEF ChainTrade
  <2> QED
    BY <2>2, <2>3
<1>10. /\ trades \in [EscrowIds -> ChainTrade] /\ trades[p] = b
       /\ \A j \in EscrowIds \ {p} : trades[j] = first[j]
    BY <1>6, <1>8, <1>9
<1>11. Gave(c.inv[p], v, i, units)
    BY <1>1, <1>3, PaidFromFields
<1>12. /\ inv \in [EscrowIds -> Bucket] /\ inv[p] = v
       /\ \A j \in EscrowIds \ {p} : inv[j] = c.inv[j]
    BY <1>6, <1>11 DEF Chain, Gave
<1>13. n = Touched(c, trades, inv, c.used, c.balance - c.trades[i].amount)
  <2>1. trades = [[c.trades EXCEPT ![i] = Settled(@, "Completed")] EXCEPT
                    ![p].status = IF SoldOut(c.inv[p], c.trades[i].amount)
                                  THEN "Completed" ELSE @]
    <3>1. first = [c.trades EXCEPT ![i] = Settled(@, "Completed")]
        BY <1>3, <1>4 DEF Chain
    <3>2. trades = [first EXCEPT ![p].status = IF sold THEN "Completed" ELSE @]
        BY <1>5, <1>6, <1>8
    <3> QED
        BY <1>2, <1>3, <3>1, <3>2
  <2>2. inv = [c.inv EXCEPT ![p] = PaidFrom(@, i, c.trades[i].amount)]
    BY <1>2, <1>3, <1>6 DEF Chain
  <2> QED
    BY <2>1, <2>2 DEF PaidOut
<1>14. /\ n \in Chain /\ n.parent = c.parent /\ n.next = c.next /\ n.used = c.used
       /\ n.balance = c.balance - c.trades[i].amount /\ n.trades = trades /\ n.inv = inv
  <2>1. PICK balance : balance = c.balance - c.trades[i].amount
    OBVIOUS
  <2>2. n = Touched(c, trades, inv, c.used, balance)
    BY <1>13, <2>1
  <2> QED
    BY <1>1, <1>10, <1>12, <2>1, <2>2, TouchedFields
<1>15. /\ n.trades[i].status = "Completed" /\ n.trades[i].buyer = c.trades[i].buyer
       /\ n.trades[i].amount = c.trades[i].amount
  <2>1. CASE p = i
    BY <1>7, <1>8, <1>9, <1>10, <1>14, <2>1
  <2>2. CASE p # i
    BY <1>7, <1>8, <1>10, <1>14, <2>2
  <2> QED
    BY <2>1, <2>2
<1>16. /\ n.trades[p].buyer = c.trades[p].buyer /\ n.trades[p].amount = c.trades[p].amount
       /\ sold => n.trades[p].status = "Completed"
       /\ p # i /\ ~sold => n.trades[p].status = c.trades[p].status
  <2>1. CASE p = i
    BY <1>15, <2>1
  <2>2. CASE p # i
    BY <1>8, <1>9, <1>10, <1>14, <2>2
  <2> QED
    BY <2>1, <2>2
<1>17. /\ \A j \in EscrowIds \ {i, p} : n.trades[j] = c.trades[j]
       /\ \A j \in EscrowIds \ {p} : n.inv[j] = c.inv[j]
    BY <1>8, <1>10, <1>12, <1>14
<1>18. Gave(c.inv[p], n.inv[p], i, c.trades[i].amount)
    BY <1>2, <1>11, <1>12, <1>14
<1> QED
    BY <1>2, <1>3, <1>14, <1>15, <1>16, <1>17, <1>18 DEF Gave

Extended(c, trades, inv, parent, next) ==
    [c EXCEPT !.inv = inv, !.parent = parent, !.trades = trades, !.next = next]
LEMMA ExtendedFields ==
    ASSUME NEW c \in Chain, NEW trades \in [EscrowIds -> ChainTrade],
           NEW inv \in [EscrowIds -> Bucket],
           NEW parent \in [EscrowIds -> EscrowIds \cup {0}], NEW next, next \in Nat,
           NEW n, n = Extended(c, trades, inv, parent, next)
    PROVE  /\ n \in Chain
           /\ n.inv = inv /\ n.parent = parent /\ n.trades = trades /\ n.next = next
           /\ n.used = c.used /\ n.balance = c.balance
<1>1. n \in Chain
    BY DEF Chain, Extended
<1> QED
    BY DEF Chain, Extended

LEMMA AllocateExtends ==
    ASSUME NEW c \in Chain, NEW buyer, NEW l \in EscrowIds, NEW units
    PROVE  AllocateOrder(c, 0, buyer, l, units) =
             Extended(c, [c.trades EXCEPT
                            ![c.next] = ChildOrder(c.trades[l].seller, buyer, units, 0),
                            ![l].status = IF c.inv[l].avail = units THEN "Funded"
                                          ELSE c.trades[l].status],
                      [c.inv EXCEPT ![l] = Allocated(@, units, c.next)],
                      [c.parent EXCEPT ![c.next] = l], c.next + 1)
    BY DEF AllocateOrder, Extended, Chain

LEMMA PartFields ==
    ASSUME NEW c \in Chain, NEW l \in EscrowIds, NEW buyer \in Address,
           NEW units, units \in Nat, CanAllocate(c, buyer, l, units), c.next # l,
           NEW k, k = c.next, NEW n, n = AllocateOrder(c, 0, buyer, l, units)
    PROVE  /\ n \in Chain /\ n.next = k + 1 /\ k \in EscrowIds
           /\ n.used = c.used /\ n.balance = c.balance
           /\ n.trades[k].status = "Funded" /\ n.trades[k].buyer = buyer
           /\ n.trades[k].amount = units
           /\ n.trades[l].buyer = c.trades[l].buyer
           /\ n.trades[l].amount = c.trades[l].amount
           /\ c.inv[l].avail = units => n.trades[l].status = "Funded"
           /\ c.inv[l].avail # units => n.trades[l].status = c.trades[l].status
           /\ n.inv[l].avail = c.inv[l].avail - units
           /\ n.inv[l].alloc = c.inv[l].alloc + units
           /\ n.inv[l].slot = k /\ n.inv[l].active = c.inv[l].active
           /\ n.parent[k] = l
           /\ \A j \in EscrowIds \ {k, l} : n.trades[j] = c.trades[j]
           /\ \A j \in EscrowIds \ {l} : n.inv[j] = c.inv[j]
           /\ \A j \in EscrowIds \ {k} : n.parent[j] = c.parent[j]
<1>1. /\ k \in EscrowIds /\ units <= c.inv[l].avail
    BY DEF CanAllocate
<1>2. /\ c.trades[l] \in ChainTrade /\ c.inv[l] \in Bucket /\ c.trades[l].seller \in Address
      /\ k \in Nat
    BY DEF Chain, ChainTrade
<1>3. PICK x, v, y : /\ x = ChildOrder(c.trades[l].seller, buyer, units, 0)
                     /\ v = Allocated(c.inv[l], units, k)
                     /\ y = [c.trades[l] EXCEPT !.status = IF c.inv[l].avail = units
                                                          THEN "Funded" ELSE @]
    OBVIOUS
<1>4. x \in ChainTrade /\ x.status = "Funded" /\ x.buyer = buyer /\ x.amount = units
    BY <1>2, <1>3, ChildFields
<1>5. /\ v \in Bucket /\ v.avail = c.inv[l].avail - units
      /\ v.alloc = c.inv[l].alloc + units /\ v.slot = k /\ v.active = c.inv[l].active
    BY <1>1, <1>2, <1>3, AllocatedFields
<1>6. /\ y \in ChainTrade /\ y.buyer = c.trades[l].buyer /\ y.amount = c.trades[l].amount
      /\ c.inv[l].avail = units => y.status = "Funded"
      /\ c.inv[l].avail # units => y.status = c.trades[l].status
  <2>1. "Funded" \in EscrowStatus
    BY DEF EscrowStatus
  <2>2. CASE c.inv[l].avail = units
    BY <1>2, <1>3, <2>1, <2>2 DEF ChainTrade
  <2>3. CASE c.inv[l].avail # units
    BY <1>2, <1>3, <2>1, <2>3 DEF ChainTrade
  <2> QED
    BY <2>2, <2>3
<1>7. PICK trades, inv, parent : /\ trades = [c.trades EXCEPT ![k] = x, ![l] = y]
                                 /\ inv = [c.inv EXCEPT ![l] = v]
                                 /\ parent = [c.parent EXCEPT ![k] = l]
    OBVIOUS
<1>8. /\ trades \in [EscrowIds -> ChainTrade] /\ trades[k] = x /\ trades[l] = y
      /\ \A j \in EscrowIds \ {k, l} : trades[j] = c.trades[j]
    BY <1>1, <1>4, <1>6, <1>7 DEF Chain
<1>9. /\ inv \in [EscrowIds -> Bucket] /\ inv[l] = v
      /\ \A j \in EscrowIds \ {l} : inv[j] = c.inv[j]
    BY <1>5, <1>7 DEF Chain
<1>10. /\ parent \in [EscrowIds -> EscrowIds \cup {0}] /\ parent[k] = l
       /\ \A j \in EscrowIds \ {k} : parent[j] = c.parent[j]
    BY <1>1, <1>7 DEF Chain
<1>11. n = Extended(c, trades, inv, parent, k + 1)
  <2>1. inv = [c.inv EXCEPT ![l] = Allocated(@, units, c.next)]
    BY <1>3, <1>7 DEF Chain
  <2>2. trades = [c.trades EXCEPT
            ![c.next] = ChildOrder(c.trades[l].seller, buyer, units, 0),
            ![l].status = IF c.inv[l].avail = units THEN "Funded"
                                          ELSE c.trades[l].status]
    BY <1>1, <1>3, <1>7 DEF Chain
  <2> QED
    BY <1>7, <2>1, <2>2, AllocateExtends
<1>12. /\ n \in Chain
       /\ n.inv = inv /\ n.parent = parent /\ n.trades = trades /\ n.next = k + 1
       /\ n.used = c.used /\ n.balance = c.balance
  <2>1. PICK next \in Nat : next = k + 1
    BY <1>2
  <2> QED
    BY <1>8, <1>9, <1>10, <1>11, <2>1, ExtendedFields
<1> QED
    BY <1>1, <1>4, <1>5, <1>6, <1>8, <1>9, <1>10, <1>12
-----------------------------------------------------------------------------
(* The contract's books, number by number: what is not used yet, what is   *)
(* offered, which buckets are empty, which order a bucket backs, and which *)
(* bucket backs an order.                                                  *)
Vacant(c, i) ==
    i >= c.next => /\ c.trades[i].buyer = NoOne /\ c.trades[i].amount = 0
                   /\ ~c.inv[i].active /\ c.parent[i] = 0
                   /\ c.trades[i].status \in {"Created", "Resolved"}
Offered(c, i) == i < c.next /\ c.trades[i].status = "Created" => c.inv[i].active
Stock(c, i) ==
    c.inv[i].active =>
        /\ c.parent[i] = 0 /\ c.inv[i].avail + c.inv[i].alloc <= c.trades[i].amount
        /\ c.inv[i].slot # i => c.trades[i].buyer = NoOne
        /\ c.inv[i].slot = i => c.inv[i].avail = 0 /\ c.inv[i].alloc = c.trades[i].amount
        /\ c.inv[i].slot = 0 => c.inv[i].alloc = 0
        /\ c.inv[i].slot \notin {0, i} =>
             /\ c.parent[c.inv[i].slot] = i
             /\ c.inv[i].alloc = c.trades[c.inv[i].slot].amount
Child(c, i) ==
    c.parent[i] # 0 => /\ c.parent[i] # i /\ c.trades[i].buyer # NoOne
                       /\ ~c.inv[i].active /\ c.trades[i].amount > 0
Backed(c, i) ==
    /\ c.trades[i].status \in {"FiatSent", "Disputed"} => c.trades[i].buyer # NoOne
    /\ Live(c, i) /\ c.parent[i] # 0 =>
         c.inv[c.parent[i]].active /\ c.inv[c.parent[i]].slot = i
Entry(c, i) ==
    Vacant(c, i) /\ Offered(c, i) /\ Stock(c, i) /\ Child(c, i) /\ Backed(c, i)
Books(c) == \A i \in EscrowIds : Entry(c, i)
Ledger(c) == Books(c) /\ Solvent(c)

LEMMA OwedTyped ==
    ASSUME NEW c \in Chain
    PROVE  [i \in EscrowIds |-> Owed(c, i)] \in [EscrowIds -> Nat]
<1> SUFFICES ASSUME NEW i \in EscrowIds PROVE Owed(c, i) \in Nat
    OBVIOUS
<1>1. /\ c.inv[i].avail \in Nat /\ c.trades[i].amount \in Nat
      /\ c.trades[i].collateral = 0
    BY ChainParts
<1> QED
    BY <1>1 DEF Owed

LEMMA OneTerm ==
    ASSUME NEW f \in [EscrowIds -> Nat], NEW g \in [EscrowIds -> Nat], NEW x \in EscrowIds,
           \A j \in EscrowIds \ {x} : g[j] = f[j]
    PROVE  SumFunctionOnSet(g, EscrowIds) + f[x] = SumFunctionOnSet(f, EscrowIds) + g[x]
<1>1. EscrowIds \in SUBSET EscrowIds /\ IsFiniteSet(EscrowIds)
    BY ContractAssumption
<1> QED
    BY ONLY <1>1, SumUpdate, f \in [EscrowIds -> Nat], g \in [EscrowIds -> Nat],
            x \in EscrowIds, \A j \in EscrowIds \ {x} : g[j] = f[j]

(* A call that changes what one number is owed, or two.                    *)
LEMMA SolventOne ==
    ASSUME NEW c \in Chain, NEW n \in Chain, NEW x \in EscrowIds, Solvent(c),
           \A j \in EscrowIds \ {x} : Owed(n, j) = Owed(c, j),
           n.balance + Owed(c, x) >= c.balance + Owed(n, x)
    PROVE  Solvent(n)
<1>1. PICK f, g : f = [i \in EscrowIds |-> Owed(c, i)] /\ g = [i \in EscrowIds |-> Owed(n, i)]
    OBVIOUS
<1>2. f \in [EscrowIds -> Nat] /\ g \in [EscrowIds -> Nat]
    BY <1>1, OwedTyped
<1>3. f[x] = Owed(c, x) /\ g[x] = Owed(n, x) /\ \A j \in EscrowIds \ {x} : g[j] = f[j]
    BY <1>1
<1>4. PICK s, r : s = SumFunctionOnSet(f, EscrowIds) /\ r = SumFunctionOnSet(g, EscrowIds)
    OBVIOUS
<1>5. r + f[x] = s + g[x]
    BY <1>2, <1>3, <1>4, OneTerm
<1>6. s \in Nat /\ r \in Nat
    BY <1>2, <1>4, SumTyped, ContractAssumption
<1>7. c.balance \in Nat /\ n.balance \in Nat /\ f[x] \in Nat /\ g[x] \in Nat
    BY <1>2 DEF Chain
<1>8. c.balance >= s
    BY <1>1, <1>4 DEF Solvent
<1>9. n.balance >= r
    BY <1>3, <1>5, <1>6, <1>7, <1>8
<1> QED
    BY <1>1, <1>4, <1>9 DEF Solvent

LEMMA SolventTwo ==
    ASSUME NEW c \in Chain, NEW n \in Chain, NEW x \in EscrowIds, NEW y \in EscrowIds \ {x},
           Solvent(c),
           \A j \in EscrowIds \ {x, y} : Owed(n, j) = Owed(c, j),
           n.balance + Owed(c, x) + Owed(c, y) >= c.balance + Owed(n, x) + Owed(n, y)
    PROVE  Solvent(n)
<1>1. PICK f, g : f = [i \in EscrowIds |-> Owed(c, i)] /\ g = [i \in EscrowIds |-> Owed(n, i)]
    OBVIOUS
<1>2. f \in [EscrowIds -> Nat] /\ g \in [EscrowIds -> Nat]
    BY <1>1, OwedTyped
<1>3. PICK h : h = [f EXCEPT ![x] = g[x]]
    OBVIOUS
<1>4. /\ h \in [EscrowIds -> Nat] /\ h[x] = g[x] /\ h[y] = f[y]
      /\ \A j \in EscrowIds \ {x} : h[j] = f[j]
    BY <1>2, <1>3
<1>5. /\ f[x] = Owed(c, x) /\ g[x] = Owed(n, x) /\ f[y] = Owed(c, y) /\ g[y] = Owed(n, y)
      /\ \A j \in EscrowIds \ {x, y} : g[j] = f[j]
    BY <1>1
<1>6. \A j \in EscrowIds \ {y} : g[j] = h[j]
    BY <1>4, <1>5
<1>7. PICK s, q, r : /\ s = SumFunctionOnSet(f, EscrowIds)
                     /\ q = SumFunctionOnSet(h, EscrowIds)
                     /\ r = SumFunctionOnSet(g, EscrowIds)
    OBVIOUS
<1>8. q + f[x] = s + g[x]
    BY <1>2, <1>4, <1>7, OneTerm
<1>9. r + f[y] = q + g[y]
    BY <1>2, <1>4, <1>6, <1>7, OneTerm
<1>10. s \in Nat /\ r \in Nat /\ q \in Nat
    BY <1>2, <1>4, <1>7, SumTyped, ContractAssumption
<1>11. /\ c.balance \in Nat /\ n.balance \in Nat
       /\ f[x] \in Nat /\ g[x] \in Nat /\ f[y] \in Nat /\ g[y] \in Nat
    BY <1>2 DEF Chain
<1>12. c.balance >= s
    BY <1>1, <1>7 DEF Solvent
<1>13. n.balance >= r
    BY <1>5, <1>8, <1>9, <1>10, <1>11, <1>12
<1> QED
    BY <1>1, <1>7, <1>13 DEF Solvent

(* What is owed for a number whose records did not change.                 *)
LEMMA OwedSame ==
    ASSUME NEW c, NEW n, NEW j, n.trades[j] = c.trades[j], n.inv[j] = c.inv[j]
    PROVE  Owed(n, j) = Owed(c, j)
    BY DEF Owed, Live

(* A trade that is paid for or disputed.                                   *)
LEMMA MarkedKeeps ==
    ASSUME NEW c \in Chain, Ledger(c), NEW n \in Chain, NEW i \in EscrowIds,
           n.parent = c.parent, n.next = c.next, n.inv = c.inv, n.balance = c.balance,
           c.trades[i].status \in {"Funded", "FiatSent"}, c.trades[i].buyer # NoOne,
           n.trades[i].status \in {"FiatSent", "Disputed"},
           n.trades[i].buyer = c.trades[i].buyer, n.trades[i].amount = c.trades[i].amount,
           \A j \in EscrowIds \ {i} : n.trades[j] = c.trades[j]
    PROVE  Ledger(n)
<1>1. \A k \in EscrowIds : /\ n.trades[k].buyer = c.trades[k].buyer
                           /\ n.trades[k].amount = c.trades[k].amount
    OBVIOUS
<1>2. ASSUME NEW j \in EscrowIds PROVE Entry(n, j)
  <2>1. Entry(c, j) /\ c.inv[j].slot \in EscrowIds \cup {0}
    BY ChainParts DEF Ledger, Books
  <2>2. Stock(n, j)
    BY <1>1, <2>1 DEF Entry, Stock
  <2>3. Vacant(n, j) /\ Offered(n, j) /\ Child(n, j) /\ Backed(n, j)
    <3>1. CASE j = i
        BY <2>1, <3>1 DEF Entry, Vacant, Offered, Child, Backed, Live
    <3>2. CASE j # i
        BY <2>1, <3>2 DEF Entry, Vacant, Offered, Child, Backed, Live
    <3> QED
        BY <3>1, <3>2
  <2> QED
    BY <2>2, <2>3 DEF Entry
<1>3. Solvent(n)
  <2>1. \A j \in EscrowIds \ {i} : Owed(n, j) = Owed(c, j)
    BY OwedSame
  <2>2. Owed(n, i) = Owed(c, i)
    <3>1. c.trades[i].collateral = 0 /\ n.trades[i].collateral = 0
        BY ChainParts
    <3> QED
        BY <3>1 DEF Owed, Live
  <2>3. n.balance + Owed(c, i) >= c.balance + Owed(n, i)
    <3>1. Owed(c, i) \in Nat /\ c.balance \in Nat
        BY OwedTyped, ChainParts
    <3> QED
        BY <2>2, <3>1
  <2> QED
    BY <2>1, <2>3, SolventOne DEF Ledger
<1> QED
    BY <1>2, <1>3 DEF Ledger, Books

LEMMA SentKeeps ==
    ASSUME NEW c \in Chain, Ledger(c), NEW i \in EscrowIds, NEW who, who # NoOne,
           CanMarkSent(c, who, i), NEW n, n = MarkSent(c, 0, i)
    PROVE  Ledger(n)
<1>1. c.trades[i].status = "Funded" /\ c.trades[i].buyer # NoOne
    BY DEF CanMarkSent, InState
<1> QED
    BY <1>1, SentFields, MarkedKeeps

LEMMA DisputeKeeps ==
    ASSUME NEW c \in Chain, Ledger(c), NEW i \in EscrowIds, NEW who,
           CanDispute(c, 0, who, i), NEW n, n = Dispute(c, i)
    PROVE  Ledger(n)
<1>1. c.trades[i].status = "FiatSent"
    BY DEF CanDispute, InState
<1>2. c.trades[i].buyer # NoOne
    BY <1>1 DEF Ledger, Books, Entry, Backed
<1> QED
    BY <1>1, <1>2, DisputeFields, MarkedKeeps

LEMMA FundKeeps ==
    ASSUME NEW c \in Chain, Ledger(c), NEW i \in EscrowIds, i < c.next,
           NEW who \in Address, who # NoOne,
           CanFund(c, who, i), NEW n, n = Fund(c, 0, who, i, 0)
    PROVE  Ledger(n)
<1>1. /\ n \in Chain /\ n.parent = c.parent /\ n.next = c.next
      /\ n.balance = c.balance
      /\ n.trades[i].status = "Funded" /\ n.trades[i].buyer = who
      /\ n.trades[i].amount = c.trades[i].amount
      /\ n.inv[i].active = c.inv[i].active
      /\ c.inv[i].active => /\ n.inv[i].slot = i
                            /\ n.inv[i].avail = c.inv[i].avail - c.trades[i].amount
                            /\ n.inv[i].alloc = c.inv[i].alloc + c.trades[i].amount
      /\ \A j \in EscrowIds \ {i} : n.trades[j] = c.trades[j] /\ n.inv[j] = c.inv[j]
    BY FundFields
<1>2. /\ c.trades[i].amount \in Nat /\ c.inv[i].avail \in Nat /\ c.inv[i].alloc \in Nat
      /\ c.trades[i].collateral = 0 /\ n.trades[i].collateral = 0 /\ i # 0
      /\ c.balance \in Nat /\ c.next \in Nat /\ i \in Nat
    BY <1>1, ChainParts
<1>3. Entry(c, i) /\ InState(c, i, "Created")
    BY DEF Ledger, Books, CanFund
<1>4. /\ c.inv[i].active /\ c.inv[i].slot = 0 /\ c.inv[i].alloc = 0 /\ c.parent[i] = 0
      /\ c.inv[i].avail = c.trades[i].amount
    BY <1>2, <1>3 DEF Entry, Offered, Stock, InState, CanFund
<1>5. n.inv[i].active /\ n.inv[i].slot = i /\ n.inv[i].avail = 0
      /\ n.inv[i].alloc = c.trades[i].amount
  <2>1. /\ c.inv[i].avail - c.trades[i].amount = 0
        /\ c.inv[i].alloc + c.trades[i].amount = c.trades[i].amount
    BY <1>2, <1>4
  <2> QED
    BY <1>1, <1>4, <2>1
<1>6. \A k \in EscrowIds : n.trades[k].amount = c.trades[k].amount
    BY <1>1
<1>7. ASSUME NEW j \in EscrowIds PROVE Entry(n, j)
  <2>1. /\ Entry(c, j) /\ c.inv[j].slot \in EscrowIds \cup {0} /\ j # 0
        /\ c.parent[j] \in EscrowIds \cup {0}
    BY ChainParts DEF Ledger, Books
  <2>2. CASE j = i
    <3>1. Stock(n, i)
        BY <1>1, <1>2, <1>4, <1>5 DEF Stock
    <3>2. Vacant(n, i) /\ Offered(n, i) /\ Child(n, i) /\ Backed(n, i)
        BY <1>1, <1>2, <1>4, <1>5 DEF Vacant, Offered, Child, Backed
    <3> QED
        BY <2>2, <3>1, <3>2 DEF Entry
  <2>3. CASE j # i
    <3>1. Stock(n, j)
        BY <1>1, <1>6, <2>1, <2>3 DEF Entry, Stock
    <3>2. Vacant(n, j) /\ Offered(n, j) /\ Child(n, j)
        BY <1>1, <2>1, <2>3 DEF Entry, Vacant, Offered, Child
    <3>3. Backed(n, j)
        BY <1>1, <1>4, <2>1, <2>3 DEF Entry, Backed, Live
    <3> QED
        BY <3>1, <3>2, <3>3 DEF Entry
  <2> QED
    BY <2>2, <2>3
<1>8. Solvent(n)
  <2>1. \A j \in EscrowIds \ {i} : Owed(n, j) = Owed(c, j)
    BY <1>1, OwedSame
  <2>2. Owed(c, i) = c.trades[i].amount /\ Owed(n, i) = c.trades[i].amount
    BY <1>1, <1>2, <1>3, <1>4, <1>5 DEF Owed, Live, InState
  <2> QED
    BY <1>1, <1>2, <2>1, <2>2, SolventOne DEF Ledger
<1> QED
    BY <1>7, <1>8 DEF Ledger, Books

LEMMA WithdrawKeeps ==
    ASSUME NEW c \in Chain, Ledger(c), NEW i \in EscrowIds, NEW who, NEW units \in Nat,
           CanWithdraw(c, who, i, units), NEW n, n = Withdraw(c, i, units)
    PROVE  n \in Chain /\ Ledger(n)
<1>1. /\ Entry(c, i) /\ c.inv[i].active /\ units > 0 /\ units <= c.inv[i].avail
      /\ c.trades[i].amount \in Nat /\ c.inv[i].avail \in Nat /\ c.inv[i].alloc \in Nat
      /\ c.balance \in Nat /\ c.inv[i].slot \in EscrowIds \cup {0} /\ i # 0
      /\ c.trades[i].collateral = 0
    BY ChainParts DEF CanWithdraw, Ledger, Books
<1>2. /\ c.parent[i] = 0 /\ c.inv[i].slot # i /\ c.trades[i].buyer = NoOne
      /\ units + c.inv[i].alloc <= c.trades[i].amount /\ units <= c.trades[i].amount
    BY <1>1 DEF Entry, Stock
<1>3. PICK last \in BOOLEAN : last = TakesLast(c.inv[i], units)
    BY DEF TakesLast
<1>4. /\ n \in Chain /\ n.parent = c.parent /\ n.next = c.next
      /\ n.balance = c.balance - units
      /\ n.trades[i].buyer = c.trades[i].buyer
      /\ n.trades[i].status = IF last THEN "Resolved" ELSE c.trades[i].status
      /\ n.trades[i].amount = c.trades[i].amount - units
      /\ n.inv[i].active = ~last
      /\ n.inv[i].slot = c.inv[i].slot /\ n.inv[i].alloc = c.inv[i].alloc
      /\ n.inv[i].avail = c.inv[i].avail - units
      /\ \A j \in EscrowIds \ {i} : n.trades[j] = c.trades[j] /\ n.inv[j] = c.inv[j]
    BY <1>2, <1>3, WithdrawFields
<1>5. /\ last => c.inv[i].avail = units /\ c.inv[i].alloc = 0 /\ ~n.inv[i].active
      /\ ~last => n.inv[i].active
    BY <1>3, <1>4 DEF TakesLast
<1>6. ASSUME NEW j \in EscrowIds PROVE Entry(n, j)
  <2>1. /\ Entry(c, j) /\ c.inv[j].slot \in EscrowIds \cup {0} /\ j # 0
        /\ c.parent[j] \in EscrowIds \cup {0}
    BY ChainParts DEF Ledger, Books
  <2>2. CASE j = i
    <3>1. Vacant(n, i) /\ Offered(n, i) /\ Child(n, i) /\ Backed(n, i)
        BY <1>1, <1>2, <1>4 DEF Entry, Vacant, Offered, Child, Backed
    <3>2. Stock(n, i)
        BY <1>1, <1>2, <1>4 DEF Entry, Stock
    <3> QED
        BY <2>2, <3>1, <3>2 DEF Entry
  <2>3. CASE j # i
    <3>1. Vacant(n, j) /\ Offered(n, j) /\ Child(n, j)
        BY <1>4, <2>1, <2>3 DEF Entry, Vacant, Offered, Child
    <3>2. Stock(n, j)
        BY <1>2, <1>4, <2>1, <2>3 DEF Entry, Stock
    <3>3. Backed(n, j)
      <4>1. /\ n.trades[j] = c.trades[j] /\ n.parent[j] = c.parent[j]
            /\ (Live(n, j) <=> Live(c, j))
        BY <1>4, <2>3 DEF Live
      <4>2. CASE c.parent[j] = i /\ Live(c, j)
        <5>1. c.inv[i].slot = j
            BY <2>1, <4>2, <1>1 DEF Entry, Backed
        <5>2. c.trades[j].amount = c.inv[i].alloc /\ c.trades[j].amount > 0
            BY <1>1, <2>1, <2>3, <4>2, <5>1 DEF Entry, Stock, Child
        <5>3. ~last
            BY <1>5, <5>2
        <5> QED
            BY <1>4, <2>1, <4>1, <4>2, <5>1, <5>3 DEF Entry, Backed
      <4>3. CASE ~(c.parent[j] = i /\ Live(c, j))
        BY <1>4, <2>1, <4>1, <4>3 DEF Entry, Backed
      <4> QED
        BY <4>2, <4>3
    <3> QED
        BY <3>1, <3>2, <3>3 DEF Entry
  <2> QED
    BY <2>2, <2>3
<1>7. Solvent(n)
  <2>1. \A j \in EscrowIds \ {i} : Owed(n, j) = Owed(c, j)
    BY <1>4, OwedSame
  <2>2. Owed(c, i) = c.inv[i].avail
    BY <1>1, <1>2 DEF Owed, Live
  <2>3. n.balance + Owed(c, i) >= c.balance + Owed(n, i)
    <3>1. ~Live(n, i)
        BY <1>2, <1>4 DEF Live
    <3>2. CASE last
      <4>1. Owed(n, i) = 0
        BY <1>5, <3>1, <3>2 DEF Owed
      <4> QED
        BY <1>1, <1>4, <1>5, <2>2, <3>2, <4>1
    <3>3. CASE ~last
      <4>1. Owed(n, i) = c.inv[i].avail - units
        BY <1>1, <1>4, <1>5, <3>1, <3>3 DEF Owed
      <4> QED
        BY <1>1, <1>4, <2>2, <4>1
    <3> QED
        BY <3>2, <3>3
  <2> QED
    BY <1>4, <2>1, <2>3, SolventOne DEF Ledger
<1> QED
    BY <1>4, <1>6, <1>7 DEF Ledger, Books

(* A number whose own records did not change, whose slot kept its amount   *)
(* and its listing, and whose listing did not give it up.                  *)
LEMMA EntrySame ==
    ASSUME NEW c \in Chain, NEW n \in Chain, NEW j \in EscrowIds, Entry(c, j),
           SameAt(c, n, j), n.next >= c.next,
           c.inv[j].active /\ c.inv[j].slot \in EscrowIds =>
               /\ n.trades[c.inv[j].slot].amount = c.trades[c.inv[j].slot].amount
               /\ n.parent[c.inv[j].slot] = c.parent[c.inv[j].slot],
           Live(c, j) /\ c.parent[j] \in EscrowIds =>
               /\ n.inv[c.parent[j]].active = c.inv[c.parent[j]].active
               /\ n.inv[c.parent[j]].slot = c.inv[c.parent[j]].slot,
           j < n.next /\ c.trades[j].status = "Created" => j < c.next
    PROVE  Entry(n, j)
<1>1. /\ n.trades[j] = c.trades[j] /\ n.inv[j] = c.inv[j] /\ n.parent[j] = c.parent[j]
      /\ j \in Nat /\ c.next \in Nat /\ n.next \in Nat
      /\ c.inv[j].slot \in EscrowIds \cup {0} /\ c.parent[j] \in EscrowIds \cup {0}
    BY ChainParts DEF SameAt
<1>2. Stock(n, j)
    BY <1>1 DEF Entry, Stock
<1>3. Vacant(n, j) /\ Offered(n, j)
    BY <1>1 DEF Entry, Vacant, Offered
<1>4. Child(n, j)
    BY <1>1 DEF Entry, Child
<1>5. Backed(n, j)
  <2>1. Live(n, j) <=> Live(c, j)
    BY <1>1 DEF Live
  <2> QED
    BY <1>1, <2>1 DEF Entry, Backed
<1> QED
    BY <1>2, <1>3, <1>4, <1>5 DEF Entry

(* What the books say of an active listing and of a number in use.          *)
LEMMA ActiveFacts ==
    ASSUME NEW c \in Chain, Books(c), NEW l \in EscrowIds, c.inv[l].active
    PROVE  /\ l < c.next /\ c.parent[l] = 0
           /\ c.inv[l].avail + c.inv[l].alloc <= c.trades[l].amount
           /\ c.inv[l].slot # l => c.trades[l].buyer = NoOne
           /\ c.inv[l].slot = l => c.inv[l].avail = 0 /\ c.inv[l].alloc = c.trades[l].amount
           /\ c.inv[l].slot = 0 => c.inv[l].alloc = 0
           /\ \A j \in EscrowIds : c.parent[j] = l /\ Live(c, j) =>
                c.inv[l].slot = j /\ c.inv[l].alloc = c.trades[j].amount
                /\ c.trades[j].amount > 0
<1>1. Entry(c, l) /\ l \in Nat /\ c.next \in Nat /\ l # 0
    BY ChainParts DEF Books
<1>2. l < c.next
    BY <1>1 DEF Entry, Vacant
<1>3. ASSUME NEW j \in EscrowIds, c.parent[j] = l, Live(c, j)
      PROVE  c.inv[l].slot = j /\ c.inv[l].alloc = c.trades[j].amount
             /\ c.trades[j].amount > 0
  <2>1. Entry(c, j) /\ j # 0
    BY ChainParts DEF Books
  <2>2. c.inv[l].slot = j
    BY <1>1, <1>3, <2>1 DEF Entry, Backed
  <2>3. j # l /\ c.trades[j].amount > 0
    BY <1>1, <1>3, <2>1 DEF Entry, Child
  <2> QED
    BY <1>1, <2>1, <2>2, <2>3 DEF Entry, Stock
<1> QED
    BY <1>1, <1>2, <1>3 DEF Entry, Stock

LEMMA AllocateKeeps ==
    ASSUME NEW c \in Chain, Ledger(c), NEW l \in EscrowIds, NEW buyer \in Address,
           NEW units, units \in Nat, CanAllocate(c, buyer, l, units),
           NEW n, n = AllocateOrder(c, 0, buyer, l, units)
    PROVE  n \in Chain /\ Ledger(n) /\ n.next > c.next
<1>0. Books(c)
    BY DEF Ledger
<1>1. /\ c.inv[l].active /\ c.inv[l].slot = 0 /\ units > 0 /\ units <= c.inv[l].avail
      /\ buyer # NoOne /\ c.next \in EscrowIds
    BY DEF CanAllocate
<1>2. PICK k \in EscrowIds : k = c.next
    BY <1>1
<1>3. /\ l < c.next /\ c.parent[l] = 0 /\ c.inv[l].alloc = 0 /\ c.trades[l].buyer = NoOne
      /\ c.inv[l].avail <= c.trades[l].amount
      /\ l \in Nat /\ l # 0 /\ k \in Nat /\ k # 0 /\ k # l
      /\ c.inv[l].avail \in Nat /\ c.trades[l].amount \in Nat /\ c.balance \in Nat
      /\ c.trades[l].collateral = 0
  <2>1. l \in Nat /\ l # 0 /\ c.next \in Nat /\ c.inv[l].avail \in Nat /\ c.inv[l].alloc \in Nat
        /\ c.trades[l].amount \in Nat /\ c.balance \in Nat /\ c.trades[l].collateral = 0
    BY ChainParts
  <2>2. /\ l < c.next /\ c.parent[l] = 0
        /\ c.inv[l].avail + c.inv[l].alloc <= c.trades[l].amount
        /\ c.trades[l].buyer = NoOne /\ c.inv[l].alloc = 0
    BY <1>0, <1>1, <2>1, ActiveFacts
  <2> QED
    BY <1>2, <2>1, <2>2, ContractAssumption
<1>4. /\ Vacant(c, k) /\ Entry(c, l)
    BY <1>0 DEF Books, Entry
<1>5. /\ c.trades[k].buyer = NoOne /\ ~c.inv[k].active /\ c.parent[k] = 0
    BY <1>2, <1>3, <1>4 DEF Vacant
<1>6. /\ n \in Chain /\ n.next = k + 1 /\ n.balance = c.balance
      /\ n.trades[k].status = "Funded" /\ n.trades[k].buyer = buyer
      /\ n.trades[k].amount = units
      /\ n.trades[l].buyer = c.trades[l].buyer /\ n.trades[l].amount = c.trades[l].amount
      /\ c.inv[l].avail = units => n.trades[l].status = "Funded"
      /\ c.inv[l].avail # units => n.trades[l].status = c.trades[l].status
      /\ n.inv[l].avail = c.inv[l].avail - units
      /\ n.inv[l].alloc = c.inv[l].alloc + units
      /\ n.inv[l].slot = k /\ n.inv[l].active = c.inv[l].active
      /\ n.parent[k] = l
      /\ \A j \in EscrowIds \ {k, l} : n.trades[j] = c.trades[j]
      /\ \A j \in EscrowIds \ {l} : n.inv[j] = c.inv[j]
      /\ \A j \in EscrowIds \ {k} : n.parent[j] = c.parent[j]
  <2>1. c.next # l
    BY <1>2, <1>3
  <2> QED
    BY <1>2, <2>1, PartFields
<1>7. /\ n.inv[l].active /\ n.inv[l].alloc = units /\ n.parent[l] = 0 /\ ~n.inv[k].active
      /\ n.trades[l].buyer = NoOne /\ n.inv[l].avail + units <= n.trades[l].amount
      /\ n.inv[k] = c.inv[k]
  <2>1. c.inv[l].alloc + units = units /\ c.inv[l].avail - units + units = c.inv[l].avail
    BY <1>3
  <2>2. n.inv[l].alloc = units
    BY <1>6, <2>1
  <2>5. n.inv[l].avail + units = c.inv[l].avail
    <3>1. n.inv[l].avail = c.inv[l].avail - units
        BY <1>6
    <3> QED
        BY <2>1, <3>1
  <2>3. n.inv[l].active /\ n.parent[l] = 0 /\ n.trades[l].buyer = NoOne
    <3>1. n.inv[l].active = c.inv[l].active /\ n.trades[l].buyer = c.trades[l].buyer
        BY <1>6
    <3>2. l \in EscrowIds \ {k}
        BY <1>3
    <3>3. n.parent[l] = c.parent[l]
        BY <1>6, <3>2
    <3> QED
        BY <1>1, <1>3, <3>1, <3>3
  <2>4. n.inv[k] = c.inv[k] /\ ~n.inv[k].active
    <3>1. k \in EscrowIds \ {l}
        BY <1>3
    <3>2. n.inv[k] = c.inv[k]
        BY <1>6, <3>1
    <3> QED
        BY <1>5, <3>2
  <2> QED
    BY <1>3, <1>6, <2>2, <2>3, <2>4, <2>5
<1>8. Entry(n, k)
  <2>1. Vacant(n, k) /\ Offered(n, k)
    BY <1>3, <1>6 DEF Vacant, Offered
  <2>2. Stock(n, k) /\ Child(n, k)
    BY <1>1, <1>3, <1>6, <1>7 DEF Stock, Child
  <2>3. Backed(n, k)
    BY <1>6, <1>7 DEF Backed
  <2> QED
    BY <2>1, <2>2, <2>3 DEF Entry
<1>9. Entry(n, l)
  <2>1. Vacant(n, l) /\ Offered(n, l)
    BY <1>2, <1>3, <1>6, <1>7 DEF Vacant, Offered
  <2>2. Stock(n, l) /\ Child(n, l)
    BY <1>1, <1>3, <1>6, <1>7 DEF Stock, Child
  <2>3. Backed(n, l)
    <3>1. c.trades[l].status \notin {"FiatSent", "Disputed"}
        BY <1>3, <1>4 DEF Entry, Backed
    <3> QED
        BY <1>6, <1>7, <3>1 DEF Backed
  <2> QED
    BY <2>1, <2>2, <2>3 DEF Entry
<1>10. ASSUME NEW j \in EscrowIds, j # k, j # l PROVE Entry(n, j)
  <2>1. Entry(c, j) /\ j \in Nat /\ j # 0
    BY <1>0, ChainParts DEF Books
  <2>2. SameAt(c, n, j)
    BY <1>6, <1>10 DEF SameAt
  <2>3. c.inv[j].active /\ c.inv[j].slot \in EscrowIds => c.inv[j].slot # k
    <3>1. SUFFICES ASSUME c.inv[j].active, c.inv[j].slot = k PROVE FALSE
        OBVIOUS
    <3>2. c.parent[k] = j
        BY <1>3, <1>10, <2>1, <3>1 DEF Entry, Stock
    <3> QED
        BY <1>5, <2>1, <3>2
  <2>4. c.inv[j].active /\ c.inv[j].slot \in EscrowIds =>
               /\ n.trades[c.inv[j].slot].amount = c.trades[c.inv[j].slot].amount
               /\ n.parent[c.inv[j].slot] = c.parent[c.inv[j].slot]
    BY <1>6, <2>3
  <2>5. Live(c, j) /\ c.parent[j] \in EscrowIds => c.parent[j] # l
    BY <1>0, <1>1, <2>1, ActiveFacts
  <2>6. Live(c, j) /\ c.parent[j] \in EscrowIds =>
               n.inv[c.parent[j]] = c.inv[c.parent[j]]
    BY <1>6, <2>5
  <2>7. n.next >= c.next /\ (j < n.next => j < c.next)
    <3>1. n.next = k + 1 /\ c.next = k /\ j # k
        BY <1>2, <1>6, <1>10
    <3>2. k \in Nat /\ j \in Nat
        BY <1>3, <2>1
    <3> QED
        BY <3>1, <3>2
  <2> QED
    BY <1>6, <2>1, <2>2, <2>4, <2>6, <2>7, EntrySame
<1>11. Solvent(n)
  <2>1. \A j \in EscrowIds \ {k, l} : Owed(n, j) = Owed(c, j)
    BY <1>6, OwedSame
  <2>2. n.trades[k].collateral = 0 /\ n.trades[l].collateral = 0
    BY <1>6, ChainParts
  <2>3. Owed(c, k) = 0 /\ Owed(n, k) = units
    BY <1>1, <1>5, <1>6, <1>7, <2>2 DEF Owed, Live
  <2>4. Owed(c, l) = c.inv[l].avail /\ Owed(n, l) = c.inv[l].avail - units
    BY <1>1, <1>3, <1>6, <1>7 DEF Owed, Live
  <2>5. n.balance + Owed(c, k) + Owed(c, l) >= c.balance + Owed(n, k) + Owed(n, l)
    BY <1>1, <1>3, <1>6, <2>3, <2>4
  <2>6. Solvent(c) /\ l \in EscrowIds \ {k}
    BY <1>3 DEF Ledger
  <2> QED
    BY <1>6, <2>1, <2>5, <2>6, SolventTwo
<1> QED
    BY <1>2, <1>3, <1>6, <1>8, <1>9, <1>10, <1>11 DEF Ledger, Books

(* A trade that was live, or of nothing, ends, and no bucket knows of it.  *)
LEMMA EndKeeps ==
    ASSUME NEW c \in Chain, Ledger(c), NEW i \in EscrowIds,
           NEW status \in {"Completed", "Resolved"}, NEW used, used \in SUBSET Evidence,
           c.trades[i].status \in {"Funded", "FiatSent", "Disputed"},
           Live(c, i) \/ c.trades[i].amount = 0, c.balance >= c.trades[i].amount,
           NEW n, n = Ended(c, i, status, used)
    PROVE  n \in Chain /\ Ledger(n) /\ n.next = c.next
<1>0. Books(c) /\ status \in EscrowStatus
    BY DEF Ledger, EscrowStatus
<1>1. /\ n \in Chain /\ n.parent = c.parent /\ n.next = c.next /\ n.inv = c.inv
      /\ n.balance = c.balance - c.trades[i].amount
      /\ n.trades[i].status = status /\ n.trades[i].buyer = c.trades[i].buyer
      /\ n.trades[i].amount = c.trades[i].amount
      /\ \A j \in EscrowIds \ {i} : n.trades[j] = c.trades[j]
    BY <1>0, EndFields
<1>2. \A j \in EscrowIds : /\ n.trades[j].amount = c.trades[j].amount
                           /\ n.trades[j].buyer = c.trades[j].buyer
    BY <1>1
<1>3. ASSUME NEW j \in EscrowIds PROVE Entry(n, j)
  <2>1. Entry(c, j) /\ c.inv[j].slot \in EscrowIds \cup {0}
    BY <1>0, ChainParts DEF Books
  <2>2. Stock(n, j)
    BY <1>1, <1>2, <2>1 DEF Entry, Stock
  <2>3. CASE j = i
    BY <1>1, <2>1, <2>2, <2>3 DEF Entry, Vacant, Offered, Child, Backed, Live
  <2>4. CASE j # i
    BY <1>1, <2>1, <2>2, <2>4 DEF Entry, Vacant, Offered, Child, Backed, Live
  <2> QED
    BY <2>3, <2>4
<1>4. Solvent(n)
  <2>1. \A j \in EscrowIds \ {i} : Owed(n, j) = Owed(c, j)
    BY <1>1, OwedSame
  <2>2. /\ c.trades[i].amount \in Nat /\ c.trades[i].collateral = 0 /\ c.balance \in Nat
        /\ c.inv[i].avail \in Nat
    BY ChainParts
  <2>3. PICK left \in Nat : left = IF c.inv[i].active THEN c.inv[i].avail ELSE 0
    BY <2>2
  <2>4. Owed(n, i) = left
    <3>1. ~Live(n, i) /\ n.inv[i] = c.inv[i]
        BY <1>1 DEF Live
    <3> QED
        BY <2>3, <3>1 DEF Owed
  <2>5. Owed(c, i) = left + c.trades[i].amount
    <3>1. CASE Live(c, i)
        BY <2>2, <2>3, <3>1 DEF Owed
    <3>2. CASE ~Live(c, i)
        BY <2>2, <2>3, <3>2 DEF Owed
    <3> QED
        BY <3>1, <3>2
  <2>6. n.balance + Owed(c, i) >= c.balance + Owed(n, i)
    BY <1>1, <2>2, <2>4, <2>5
  <2> QED
    BY <1>1, <2>1, <2>6, SolventOne DEF Ledger
<1> QED
    BY <1>1, <1>3, <1>4 DEF Ledger, Books

(* An order ends, and its listing p takes its units back.                  *)
LEMMA ReturnKeeps ==
    ASSUME NEW c \in Chain, Ledger(c), NEW i \in EscrowIds, Live(c, i),
           NEW p \in EscrowIds, c.parent[i] = p, NEW used, used \in SUBSET Evidence,
           NEW n, n = Returned(c, i, p, "Resolved", used)
    PROVE  n \in Chain /\ Ledger(n) /\ n.next = c.next
<1>0. Books(c) /\ "Resolved" \in EscrowStatus
    BY DEF Ledger, EscrowStatus
<1>1. /\ n \in Chain /\ n.parent = c.parent /\ n.next = c.next /\ n.balance = c.balance
      /\ n.inv[p].avail = c.inv[p].avail + c.trades[i].amount
      /\ n.inv[p].alloc = Unallocated(c.inv[p], c.trades[i].amount)
      /\ c.inv[p].slot = i => n.inv[p].slot = 0
      /\ n.inv[p].active = c.inv[p].active
      /\ n.trades[i].status = "Resolved" /\ n.trades[i].buyer = c.trades[i].buyer
      /\ n.trades[i].amount = c.trades[i].amount
      /\ \A j \in EscrowIds \ {i} : n.trades[j] = c.trades[j]
      /\ \A j \in EscrowIds \ {p} : n.inv[j] = c.inv[j]
    BY <1>0, ReturnFields
<1>2. Entry(c, i) /\ Entry(c, p) /\ p # 0 /\ i # 0
    BY <1>0, ChainParts DEF Books
<1>3. c.inv[p].active /\ p # i /\ ~c.inv[i].active
    BY <1>2 DEF Entry, Backed, Child
<1>4. /\ c.inv[p].slot = i /\ c.inv[p].alloc = c.trades[i].amount /\ p < c.next
      /\ c.parent[p] = 0 /\ c.inv[p].avail + c.inv[p].alloc <= c.trades[p].amount
    BY <1>0, <1>3, ActiveFacts
<1>5. c.trades[p].buyer = NoOne
    BY <1>0, <1>3, <1>4, ActiveFacts
<1>6. /\ c.trades[i].amount \in Nat /\ c.inv[p].avail \in Nat /\ c.inv[p].alloc \in Nat
      /\ c.balance \in Nat /\ c.trades[i].collateral = 0
    BY ChainParts
<1>7. /\ n.inv[p].slot = 0 /\ n.inv[p].active /\ n.inv[p].alloc = 0
      /\ n.inv[p].avail = c.inv[p].avail + c.trades[i].amount
  <2>1. Unallocated(c.inv[p], c.trades[i].amount) = 0
    BY <1>4, <1>6 DEF Unallocated
  <2> QED
    BY <1>1, <1>3, <1>4, <2>1
<1>8. \A j \in EscrowIds : /\ n.trades[j].amount = c.trades[j].amount
                           /\ n.trades[j].buyer = c.trades[j].buyer
    BY <1>1
<1>9. ASSUME NEW j \in EscrowIds PROVE Entry(n, j)
  <2>1. Entry(c, j) /\ c.inv[j].slot \in EscrowIds \cup {0} /\ j # 0
    BY <1>0, ChainParts DEF Books
  <2>2. CASE j = p
    <3>1. Stock(n, p)
        BY <1>1, <1>2, <1>4, <1>5, <1>6, <1>7, <1>8 DEF Stock
    <3>2. Vacant(n, p) /\ Offered(n, p) /\ Child(n, p) /\ Backed(n, p)
        BY <1>1, <1>2, <1>3, <1>4, <1>7 DEF Entry, Vacant, Offered, Child, Backed, Live
    <3> QED
        BY <2>2, <3>1, <3>2 DEF Entry
  <2>3. CASE j = i
    <3>1. n.inv[i] = c.inv[i]
        BY <1>1, <1>3
    <3>2. Stock(n, i)
        BY <1>3, <3>1 DEF Stock
    <3>3. Vacant(n, i) /\ Offered(n, i) /\ Child(n, i) /\ Backed(n, i)
        BY <1>1, <1>2, <3>1 DEF Entry, Vacant, Offered, Child, Backed, Live
    <3> QED
        BY <2>3, <3>2, <3>3 DEF Entry
  <2>4. CASE j # p /\ j # i
    <3>1. SameAt(c, n, j)
        BY <1>1, <2>4 DEF SameAt
    <3>2. Live(c, j) /\ c.parent[j] \in EscrowIds => c.parent[j] # p
        BY <1>0, <1>3, <1>4, <2>4, ActiveFacts
    <3>3. Live(c, j) /\ c.parent[j] \in EscrowIds =>
               n.inv[c.parent[j]] = c.inv[c.parent[j]]
        BY <1>1, <3>2
    <3>4. n.next >= c.next
        BY <1>1, ChainParts
    <3>5. c.inv[j].active /\ c.inv[j].slot \in EscrowIds =>
             /\ n.trades[c.inv[j].slot].amount = c.trades[c.inv[j].slot].amount
             /\ n.parent[c.inv[j].slot] = c.parent[c.inv[j].slot]
        BY <1>1, <1>8
    <3>6. Live(c, j) /\ c.parent[j] \in EscrowIds =>
             /\ n.inv[c.parent[j]].active = c.inv[c.parent[j]].active
             /\ n.inv[c.parent[j]].slot = c.inv[c.parent[j]].slot
        BY <3>3
    <3>7. n \in Chain /\ (j < n.next => j < c.next)
        BY <1>1
    <3>8. Entry(c, j)
        BY <2>1
    <3> QED
        BY <3>1, <3>4, <3>5, <3>6, <3>7, <3>8, EntrySame
  <2> QED
    BY <2>2, <2>3, <2>4
<1>10. Solvent(n)
  <2>1. \A j \in EscrowIds \ {i, p} : Owed(n, j) = Owed(c, j)
    BY <1>1, OwedSame
  <2>2. Owed(c, i) = c.trades[i].amount /\ Owed(n, i) = 0
    <3>1. n.inv[i] = c.inv[i] /\ ~Live(n, i)
        BY <1>1, <1>3 DEF Live
    <3> QED
        BY <1>3, <1>6, <3>1 DEF Owed
  <2>3. Owed(c, p) = c.inv[p].avail /\ Owed(n, p) = c.inv[p].avail + c.trades[i].amount
    <3>1. ~Live(c, p) /\ ~Live(n, p)
        BY <1>5, <1>8 DEF Live
    <3> QED
        BY <1>3, <1>6, <1>7, <3>1 DEF Owed
  <2>4. n.balance + Owed(c, i) + Owed(c, p) >= c.balance + Owed(n, i) + Owed(n, p)
    BY <1>1, <1>6, <2>2, <2>3
  <2>5. Solvent(c) /\ p \in EscrowIds \ {i}
    BY <1>3 DEF Ledger
  <2> QED
    BY <1>1, <2>1, <2>4, <2>5, SolventTwo
<1> QED
    BY <1>1, <1>9, <1>10 DEF Ledger, Books

(* An order is paid out of the bucket of its listing p.                    *)
LEMMA PartPaidKeeps ==
    ASSUME NEW c \in Chain, Ledger(c), NEW i \in EscrowIds, Live(c, i),
           NEW p \in EscrowIds, c.parent[i] = p, c.balance >= c.trades[i].amount,
           NEW n, n = PaidOut(c, i, p)
    PROVE  n \in Chain /\ Ledger(n) /\ n.next = c.next
<1>0. Books(c)
    BY DEF Ledger
<1>1. PICK sold \in BOOLEAN : sold = SoldOut(c.inv[p], c.trades[i].amount)
    BY DEF SoldOut
<1>2. /\ n \in Chain /\ n.parent = c.parent /\ n.next = c.next
      /\ n.balance = c.balance - c.trades[i].amount
      /\ n.trades[i].status = "Completed" /\ n.trades[i].buyer = c.trades[i].buyer
      /\ n.trades[i].amount = c.trades[i].amount
      /\ n.trades[p].buyer = c.trades[p].buyer
      /\ n.trades[p].amount = c.trades[p].amount
      /\ sold => n.trades[p].status = "Completed"
      /\ p # i /\ ~sold => n.trades[p].status = c.trades[p].status
      /\ n.inv[p].avail = c.inv[p].avail
      /\ n.inv[p].alloc = Unallocated(c.inv[p], c.trades[i].amount)
      /\ c.inv[p].slot = i => n.inv[p].slot = 0
      /\ n.inv[p].active = (c.inv[p].active /\ ~sold)
      /\ \A j \in EscrowIds \ {i, p} : n.trades[j] = c.trades[j]
      /\ \A j \in EscrowIds \ {p} : n.inv[j] = c.inv[j]
    BY <1>1, PaidOutFields
<1>3. Entry(c, i) /\ Entry(c, p) /\ p # 0 /\ i # 0
    BY <1>0, ChainParts DEF Books
<1>4. c.inv[p].active /\ p # i /\ ~c.inv[i].active
    BY <1>3 DEF Entry, Backed, Child
<1>5. /\ c.inv[p].slot = i /\ c.inv[p].alloc = c.trades[i].amount /\ p < c.next
      /\ c.parent[p] = 0 /\ c.inv[p].avail + c.inv[p].alloc <= c.trades[p].amount
    BY <1>0, <1>4, ActiveFacts
<1>6. c.trades[p].buyer = NoOne
    BY <1>0, <1>4, <1>5, ActiveFacts
<1>7. /\ c.trades[i].amount \in Nat /\ c.inv[p].avail \in Nat /\ c.inv[p].alloc \in Nat
      /\ c.balance \in Nat /\ c.trades[i].collateral = 0 /\ c.trades[p].amount \in Nat
    BY ChainParts
<1>8. /\ n.inv[p].slot = 0 /\ n.inv[p].alloc = 0 /\ n.inv[p].avail = c.inv[p].avail
      /\ sold => c.inv[p].avail = 0 /\ ~n.inv[p].active
      /\ ~sold => n.inv[p].active
  <2>1. Unallocated(c.inv[p], c.trades[i].amount) = 0
    BY <1>5, <1>7 DEF Unallocated
  <2>2. sold => c.inv[p].avail = 0
    BY <1>1 DEF SoldOut
  <2> QED
    BY <1>2, <1>4, <1>5, <2>1, <2>2
<1>9. \A j \in EscrowIds : /\ n.trades[j].amount = c.trades[j].amount
                           /\ n.trades[j].buyer = c.trades[j].buyer
    BY <1>2
<1>10. ASSUME NEW j \in EscrowIds PROVE Entry(n, j)
  <2>1. Entry(c, j) /\ c.inv[j].slot \in EscrowIds \cup {0} /\ j # 0
    BY <1>0, ChainParts DEF Books
  <2>2. CASE j = p
    <3>1. Stock(n, p)
      <4>1. /\ n.inv[p].avail + n.inv[p].alloc <= n.trades[p].amount
        BY <1>2, <1>5, <1>7, <1>8
      <4> QED
        BY <1>2, <1>3, <1>5, <1>6, <1>8, <1>9, <4>1 DEF Stock
    <3>2. Vacant(n, p) /\ Child(n, p)
      <4>1. p \in Nat /\ c.next \in Nat
        BY ChainParts
      <4>2. p < n.next /\ n.parent[p] = 0
        BY <1>2, <1>5
      <4> QED
        BY <1>2, <4>1, <4>2 DEF Vacant, Child
    <3>3. Offered(n, p) /\ Backed(n, p)
      <4>1. CASE sold
        BY <1>2, <1>5, <4>1 DEF Offered, Backed, Live
      <4>2. CASE ~sold
        BY <1>2, <1>3, <1>4, <1>5, <1>8, <4>2 DEF Entry, Offered, Backed, Live
      <4> QED
        BY <4>1, <4>2
    <3> QED
        BY <2>2, <3>1, <3>2, <3>3 DEF Entry
  <2>3. CASE j = i
    <3>1. n.inv[i] = c.inv[i]
        BY <1>2, <1>4
    <3>2. Stock(n, i)
        BY <1>4, <3>1 DEF Stock
    <3>3. Vacant(n, i) /\ Offered(n, i) /\ Child(n, i) /\ Backed(n, i)
      <4>1. i < c.next
        <5>1. i \in Nat /\ c.next \in Nat
            BY ChainParts
        <5> QED
            BY <1>3, <5>1 DEF Entry, Vacant, Live
      <4>2. i \in Nat /\ c.next \in Nat
        BY ChainParts
      <4> QED
        BY <1>2, <1>3, <3>1, <4>1, <4>2 DEF Entry, Vacant, Offered, Child, Backed, Live
    <3> QED
        BY <2>3, <3>2, <3>3 DEF Entry
  <2>4. CASE j # p /\ j # i
    <3>1. SameAt(c, n, j)
        BY <1>2, <2>4 DEF SameAt
    <3>2. Live(c, j) /\ c.parent[j] \in EscrowIds => c.parent[j] # p
        BY <1>0, <1>4, <1>5, <2>4, ActiveFacts
    <3>3. Live(c, j) /\ c.parent[j] \in EscrowIds =>
               n.inv[c.parent[j]] = c.inv[c.parent[j]]
        BY <1>2, <3>2
    <3>4. n.next >= c.next
        BY <1>2, ChainParts
    <3> QED
        BY <1>2, <1>9, <2>1, <3>1, <3>3, <3>4, EntrySame
  <2> QED
    BY <2>2, <2>3, <2>4
<1>11. Solvent(n)
  <2>1. \A j \in EscrowIds \ {i, p} : Owed(n, j) = Owed(c, j)
    BY <1>2, OwedSame
  <2>2. Owed(c, i) = c.trades[i].amount /\ Owed(n, i) = 0
    <3>1. n.inv[i] = c.inv[i] /\ ~Live(n, i)
        BY <1>2, <1>4 DEF Live
    <3> QED
        BY <1>4, <1>7, <3>1 DEF Owed
  <2>3. Owed(c, p) = c.inv[p].avail /\ Owed(n, p) = c.inv[p].avail
    <3>1. ~Live(c, p) /\ ~Live(n, p)
        BY <1>6, <1>9 DEF Live
    <3>2. CASE sold
        BY <1>4, <1>7, <1>8, <3>1, <3>2 DEF Owed
    <3>3. CASE ~sold
        BY <1>4, <1>7, <1>8, <3>1, <3>3 DEF Owed
    <3> QED
        BY <3>2, <3>3
  <2>4. n.balance + Owed(c, i) + Owed(c, p) >= c.balance + Owed(n, i) + Owed(n, p)
    BY <1>2, <1>7, <2>2, <2>3
  <2>5. Solvent(c) /\ p \in EscrowIds \ {i}
    BY <1>4 DEF Ledger
  <2> QED
    BY <1>2, <2>1, <2>4, <2>5, SolventTwo
<1> QED
    BY <1>2, <1>10, <1>11 DEF Ledger, Books

(* A trade of an own number gives up its bucket, which backs nothing else:  *)
(* what was owed of both is paid, or still owed.                            *)
LEMMA OwnKeeps ==
    ASSUME NEW c \in Chain, Ledger(c), NEW i \in EscrowIds,
           \A j \in EscrowIds : c.parent[j] = i => ~Live(c, j),
           NEW n \in Chain, n.parent = c.parent, n.next = c.next,
           n.trades[i].amount = c.trades[i].amount, Entry(n, i),
           \A j \in EscrowIds \ {i} : n.trades[j] = c.trades[j] /\ n.inv[j] = c.inv[j],
           n.balance + Owed(c, i) >= c.balance + Owed(n, i)
    PROVE  Ledger(n)
<1>1. \A j \in EscrowIds : n.trades[j].amount = c.trades[j].amount
    OBVIOUS
<1>2. ASSUME NEW j \in EscrowIds, j # i PROVE Entry(n, j)
  <2>1. Entry(c, j) /\ c.inv[j].slot \in EscrowIds \cup {0} /\ j # 0 /\ n.next >= c.next
    BY ChainParts DEF Books, Ledger
  <2>2. SameAt(c, n, j)
    BY <1>2 DEF SameAt
  <2>3. Live(c, j) /\ c.parent[j] \in EscrowIds => n.inv[c.parent[j]] = c.inv[c.parent[j]]
    OBVIOUS
  <2> QED
    BY <1>1, <2>1, <2>2, <2>3, EntrySame
<1>3. Solvent(n)
  <2>1. \A j \in EscrowIds \ {i} : Owed(n, j) = Owed(c, j)
    BY OwedSame
  <2> QED
    BY <2>1, SolventOne DEF Ledger
<1> QED
    BY <1>2, <1>3 DEF Ledger, Books

LEMMA OwnPaidKeeps ==
    ASSUME NEW c \in Chain, Ledger(c), NEW i \in EscrowIds, c.inv[i].active,
           Live(c, i) \/ (c.trades[i].buyer = NoOne /\ c.trades[i].amount = 0),
           c.balance >= c.trades[i].amount,
           NEW n, n = PaidOut(c, i, i)
    PROVE  n \in Chain /\ Ledger(n) /\ n.next = c.next
<1>0. Books(c)
    BY DEF Ledger
<1>1. /\ c.trades[i].amount \in Nat /\ c.inv[i].avail \in Nat /\ c.inv[i].alloc \in Nat
      /\ c.balance \in Nat /\ c.trades[i].collateral = 0 /\ i # 0
      /\ i \in Nat /\ c.next \in Nat
    BY ChainParts
<1>2. /\ i < c.next /\ c.parent[i] = 0 /\ c.inv[i].avail = 0
      /\ c.inv[i].alloc = c.trades[i].amount
  <2>1. /\ i < c.next /\ c.parent[i] = 0
        /\ c.inv[i].avail + c.inv[i].alloc <= c.trades[i].amount
        /\ c.inv[i].slot # i => c.trades[i].buyer = NoOne
        /\ c.inv[i].slot = i => c.inv[i].avail = 0 /\ c.inv[i].alloc = c.trades[i].amount
    BY <1>0, ActiveFacts
  <2>2. CASE Live(c, i)
    BY <2>1, <2>2 DEF Live
  <2>3. CASE c.trades[i].amount = 0
    BY <1>1, <2>1, <2>3
  <2> QED
    BY <2>1, <2>2, <2>3
<1>3. Unallocated(c.inv[i], c.trades[i].amount) = 0 /\ SoldOut(c.inv[i], c.trades[i].amount)
    BY <1>1, <1>2 DEF Unallocated, SoldOut
<1>4. /\ n \in Chain /\ n.parent = c.parent /\ n.next = c.next
      /\ n.balance = c.balance - c.trades[i].amount
      /\ n.trades[i].status = "Completed" /\ n.trades[i].buyer = c.trades[i].buyer
      /\ n.trades[i].amount = c.trades[i].amount /\ ~n.inv[i].active
      /\ \A j \in EscrowIds \ {i} : n.trades[j] = c.trades[j] /\ n.inv[j] = c.inv[j]
  <2>1. /\ n \in Chain /\ n.parent = c.parent /\ n.next = c.next
        /\ n.balance = c.balance - c.trades[i].amount
        /\ n.trades[i].status = "Completed" /\ n.trades[i].buyer = c.trades[i].buyer
        /\ n.trades[i].amount = c.trades[i].amount
        /\ n.inv[i].active = (c.inv[i].active /\ ~SoldOut(c.inv[i], c.trades[i].amount))
        /\ \A j \in EscrowIds \ {i, i} : n.trades[j] = c.trades[j]
        /\ \A j \in EscrowIds \ {i} : n.inv[j] = c.inv[j]
    BY PaidOutFields
  <2> QED
    BY <1>3, <2>1
<1>5. ASSUME NEW j \in EscrowIds, c.parent[j] = i, Live(c, j) PROVE FALSE
  <2>1. c.inv[i].slot = j /\ c.inv[i].alloc = c.trades[j].amount /\ c.trades[j].amount > 0
    BY <1>0, <1>5, ActiveFacts
  <2>2. j # i
    BY <1>1, <1>2, <1>5
  <2>3. c.trades[i].buyer = NoOne
    BY <1>0, <2>1, <2>2, ActiveFacts
  <2>4. c.trades[i].amount = 0
    BY <2>3 DEF Live
  <2>5. c.trades[j].amount = 0
    BY <1>2, <2>1, <2>4
  <2> QED
    BY <2>1, <2>5
<1>6. Entry(n, i)
  <2>1. Entry(c, i)
    BY <1>0 DEF Books
  <2> QED
    BY <1>1, <1>2, <1>4, <2>1 DEF Entry, Vacant, Offered, Stock, Child, Backed
<1>7. n.balance + Owed(c, i) >= c.balance + Owed(n, i)
  <2>1. Owed(n, i) = 0
    BY <1>4 DEF Owed, Live
  <2>2. Owed(c, i) = c.trades[i].amount
    BY <1>1, <1>2 DEF Owed, Live
  <2> QED
    BY <1>1, <1>4, <2>1, <2>2
<1> QED
    BY <1>4, <1>5, <1>6, <1>7, OwnKeeps

LEMMA ReofferKeeps ==
    ASSUME NEW c \in Chain, Ledger(c), NEW i \in EscrowIds, c.inv[i].active, Live(c, i),
           NEW n, n = Reoffered(c, i)
    PROVE  n \in Chain /\ Ledger(n) /\ n.next = c.next
<1>0. Books(c)
    BY DEF Ledger
<1>1. /\ c.trades[i].amount \in Nat /\ c.inv[i].avail \in Nat /\ c.inv[i].alloc \in Nat
      /\ c.balance \in Nat /\ c.trades[i].collateral = 0 /\ i # 0
      /\ i \in Nat /\ c.next \in Nat
    BY ChainParts
<1>2. /\ i < c.next /\ c.parent[i] = 0 /\ c.inv[i].slot = i /\ c.inv[i].avail = 0
      /\ c.inv[i].alloc = c.trades[i].amount
  <2>1. /\ i < c.next /\ c.parent[i] = 0
        /\ c.inv[i].slot # i => c.trades[i].buyer = NoOne
        /\ c.inv[i].slot = i => c.inv[i].avail = 0 /\ c.inv[i].alloc = c.trades[i].amount
    BY <1>0, ActiveFacts
  <2> QED
    BY <2>1 DEF Live
<1>3. /\ Unallocated(c.inv[i], c.trades[i].amount) = 0
      /\ c.inv[i].avail + c.trades[i].amount = c.trades[i].amount
    BY <1>1, <1>2 DEF Unallocated
<1>4. /\ n \in Chain /\ n.parent = c.parent /\ n.next = c.next
      /\ n.balance = c.balance
      /\ n.inv[i].avail = c.trades[i].amount /\ n.inv[i].alloc = 0
      /\ n.inv[i].slot = 0 /\ n.inv[i].active
      /\ n.trades[i].status = "Created" /\ n.trades[i].buyer = NoOne
      /\ n.trades[i].amount = c.trades[i].amount
      /\ \A j \in EscrowIds \ {i} : n.trades[j] = c.trades[j] /\ n.inv[j] = c.inv[j]
  <2>1. /\ n \in Chain /\ n.parent = c.parent /\ n.next = c.next
        /\ n.balance = c.balance
        /\ n.inv[i].avail = c.inv[i].avail + c.trades[i].amount
        /\ n.inv[i].alloc = Unallocated(c.inv[i], c.trades[i].amount)
        /\ n.inv[i].slot = 0
        /\ c.inv[i].active => n.inv[i].active
        /\ n.trades[i].status = "Created" /\ n.trades[i].buyer = NoOne
        /\ n.trades[i].amount = c.trades[i].amount
        /\ \A j \in EscrowIds \ {i} : n.trades[j] = c.trades[j] /\ n.inv[j] = c.inv[j]
    BY ReofferFields
  <2>2. n.inv[i].active
    BY <2>1, <1>2
  <2>3. n.inv[i].avail = c.trades[i].amount
    BY <1>3, <2>1
  <2>4. n.inv[i].alloc = 0
    BY <1>3, <2>1
  <2> QED
    BY <2>1, <2>2, <2>3, <2>4
<1>5. ASSUME NEW j \in EscrowIds, c.parent[j] = i, Live(c, j) PROVE FALSE
  <2>1. c.inv[i].slot = j
    BY <1>0, <1>5, ActiveFacts
  <2> QED
    BY <1>1, <1>2, <1>5, <2>1
<1>6. Entry(n, i)
  <2>1. Vacant(n, i) /\ Offered(n, i)
    BY <1>1, <1>2, <1>4 DEF Vacant, Offered
  <2>2. Child(n, i) /\ Backed(n, i)
    BY <1>2, <1>4 DEF Child, Backed
  <2>3. n.inv[i].avail + n.inv[i].alloc <= n.trades[i].amount
    BY <1>1, <1>4
  <2>4. Stock(n, i)
    BY <1>1, <1>2, <1>4, <2>3 DEF Stock
  <2> QED
    BY <2>1, <2>2, <2>4 DEF Entry
<1>7. n.balance + Owed(c, i) >= c.balance + Owed(n, i)
  <2>1. Owed(n, i) = c.trades[i].amount
    BY <1>1, <1>4 DEF Owed, Live
  <2>2. Owed(c, i) = c.trades[i].amount
    BY <1>1, <1>2 DEF Owed
  <2> QED
    BY <1>1, <1>4, <2>1, <2>2
<1> QED
    BY <1>4, <1>5, <1>6, <1>7, OwnKeeps

LEMMA OpenKeeps ==
    ASSUME NEW c \in Chain, Ledger(c), NEW i \in EscrowIds, InState(c, i, "Created"),
           c.inv[i].active => c.inv[i].alloc = 0,
           c.balance >= OpenRefund(c, i), NEW n, n = Reclaim(c, 0, i)
    PROVE  n \in Chain /\ Ledger(n) /\ n.next = c.next
<1>0. Books(c) /\ Entry(c, i)
    BY DEF Ledger, Books
<1>1. /\ c.trades[i].amount \in Nat /\ c.inv[i].avail \in Nat /\ c.inv[i].alloc \in Nat
      /\ c.balance \in Nat /\ c.trades[i].collateral = 0 /\ i # 0
      /\ i \in Nat /\ c.next \in Nat /\ c.parent[i] \in EscrowIds \cup {0}
    BY ChainParts
<1>2. /\ n \in Chain /\ n.parent = c.parent /\ n.next = c.next
      /\ n.balance = c.balance - OpenRefund(c, i)
      /\ n.trades[i].status = "Resolved" /\ n.trades[i].buyer = c.trades[i].buyer
      /\ n.trades[i].amount = c.trades[i].amount /\ ~n.inv[i].active
      /\ \A j \in EscrowIds \ {i} : n.trades[j] = c.trades[j] /\ n.inv[j] = c.inv[j]
  <2>1. /\ n \in Chain /\ n.parent = c.parent /\ n.next = c.next
        /\ n.balance = c.balance - OpenRefund(c, i)
        /\ n.trades[i].status = "Resolved" /\ n.trades[i].buyer = c.trades[i].buyer
        /\ n.trades[i].amount = c.trades[i].amount
        /\ ~n.inv[i].active
        /\ \A j \in EscrowIds \ {i} : n.trades[j] = c.trades[j] /\ n.inv[j] = c.inv[j]
    BY OpenFields
  <2> QED
    BY <2>1
<1>3. ASSUME NEW j \in EscrowIds, c.parent[j] = i, Live(c, j) PROVE FALSE
  <2>1. c.inv[i].active
    BY <1>0, <1>1, <1>3 DEF Books, Entry, Backed
  <2>2. c.inv[i].alloc = c.trades[j].amount /\ c.trades[j].amount > 0
    BY <1>0, <1>3, <2>1, ActiveFacts
  <2>3. c.trades[j].amount = 0
    BY <2>1, <2>2
  <2> QED
    BY <2>2, <2>3
<1>4. Entry(n, i)
  <2>1. Vacant(n, i) /\ Offered(n, i)
    BY <1>0, <1>1, <1>2 DEF Entry, Vacant, Offered
  <2>2. Child(n, i) /\ Backed(n, i)
    BY <1>0, <1>2 DEF Entry, Child, Backed, Live
  <2> QED
    BY <1>2, <2>1, <2>2 DEF Entry, Stock
<1>5. n.balance + Owed(c, i) >= c.balance + Owed(n, i)
  <2>1. Owed(n, i) = 0
    BY <1>2 DEF Owed, Live
  <2>2. ~Live(c, i)
    BY DEF InState, Live
  <2>3. Owed(c, i) = OpenRefund(c, i)
    <3>1. CASE c.inv[i].active
        BY <1>1, <2>2, <3>1 DEF Owed, OpenRefund
    <3>2. CASE ~c.inv[i].active
      <4>1. c.trades[i].amount = 0
        BY <1>0, <1>1, <3>2 DEF Entry, Vacant, Offered, InState
      <4> QED
        BY <2>2, <3>2, <4>1 DEF Owed, OpenRefund
    <3> QED
        BY <3>1, <3>2
  <2>4. OpenRefund(c, i) \in Nat
    BY <1>1 DEF OpenRefund
  <2> QED
    BY <1>1, <1>2, <2>1, <2>3, <2>4
<1> QED
    BY <1>2, <1>3, <1>4, <1>5, OwnKeeps

-----------------------------------------------------------------------------
(* The calls that end a trade.  Nobody is paid for a trade of no one: it   *)
(* cannot complete unless it is of nothing.                                *)
LEMMA LedgerTrade ==
    ASSUME NEW c \in Chain, Ledger(c), NEW i \in EscrowIds,
           c.trades[i].status \in {"Funded", "FiatSent", "Disputed"}
    PROVE  /\ Entry(c, i) /\ c.trades[i].amount \in Nat /\ c.trades[i].collateral = 0
           /\ c.parent[i] \in EscrowIds \cup {0} /\ c.balance \in Nat
           /\ 0 \notin EscrowIds
           /\ c.parent[i] # 0 => /\ c.parent[i] \in EscrowIds /\ Live(c, i)
                                 /\ ActiveParent(c, i) /\ ~c.inv[i].active
           /\ c.parent[i] = 0 => ~ActiveParent(c, i)
<1>1. /\ Entry(c, i) /\ c.trades[i].amount \in Nat /\ c.trades[i].collateral = 0
      /\ c.parent[i] \in EscrowIds \cup {0} /\ c.balance \in Nat
    BY ChainParts DEF Ledger, Books
<1>2. c.parent[i] # 0 => Live(c, i) /\ c.inv[c.parent[i]].active /\ ~c.inv[i].active
    BY <1>1 DEF Entry, Child, Backed, Live
<1> QED
    BY <1>1, <1>2, ContractAssumption DEF ActiveParent

LEMMA CompleteKeeps ==
    ASSUME NEW c \in Chain, Ledger(c), NEW i \in EscrowIds,
           c.trades[i].status \in {"Funded", "FiatSent", "Disputed"}, CanComplete(c, i),
           NEW n, n = CompleteTrade(c, i)
    PROVE  n \in Chain /\ Ledger(n) /\ n.next = c.next
<1>1. /\ Entry(c, i) /\ c.trades[i].amount \in Nat /\ c.trades[i].collateral = 0
      /\ c.parent[i] \in EscrowIds \cup {0} /\ c.balance \in Nat
      /\ 0 \notin EscrowIds
      /\ c.parent[i] # 0 => /\ c.parent[i] \in EscrowIds /\ Live(c, i)
                            /\ ~c.inv[i].active
    BY LedgerTrade
<1>2. /\ c.balance >= c.trades[i].amount
      /\ Live(c, i) \/ (c.trades[i].buyer = NoOne /\ c.trades[i].amount = 0)
  <2>1. c.trades[i].amount + c.trades[i].collateral = c.trades[i].amount
    BY <1>1
  <2>2. c.trades[i].amount = 0 \/ (c.trades[i].buyer # NoOne
                                   /\ c.balance >= c.trades[i].amount)
    BY <2>1 DEF CanComplete, CanTransfer
  <2> QED
    BY <1>1, <2>2 DEF Live
<1>3. CASE c.parent[i] # 0
  <2>1. BackedBy(c, i) = c.parent[i] /\ BackedBy(c, i) \in EscrowIds
    BY <1>1, <1>3 DEF BackedBy
  <2>2. n = PaidOut(c, i, c.parent[i])
    BY <2>1, CompleteEnds
  <2> QED
    BY <1>1, <1>2, <1>3, <2>2, PartPaidKeeps
<1>4. CASE c.parent[i] = 0 /\ c.inv[i].active
  <2>1. BackedBy(c, i) = i
    BY <1>4 DEF BackedBy
  <2>2. n = PaidOut(c, i, i)
    BY <2>1, CompleteEnds
  <2> QED
    BY <1>2, <1>4, <2>2, OwnPaidKeeps
<1>5. CASE c.parent[i] = 0 /\ ~c.inv[i].active
  <2>1. BackedBy(c, i) = 0
    BY <1>5 DEF BackedBy
  <2>2. n = Ended(c, i, "Completed", c.used)
    BY <2>1, CompleteEnds
  <2>3. c.used \in SUBSET Evidence
    BY DEF Chain
  <2> QED
    BY <1>2, <2>2, <2>3, EndKeeps
<1> QED
    BY <1>3, <1>4, <1>5

LEMMA KnownKeeps ==
    ASSUME NEW c \in Chain, Ledger(c), NEW proof \in Evidence
    PROVE  Known(c, proof) \in Chain /\ Ledger(Known(c, proof))
<1>1. PICK n : n = Known(c, proof)
    OBVIOUS
<1>2. /\ n \in Chain /\ n.trades = c.trades /\ n.inv = c.inv /\ n.parent = c.parent
      /\ n.balance = c.balance /\ n.next = c.next
    BY <1>1, KnownFields
<1>3. ASSUME NEW j \in EscrowIds PROVE Entry(n, j)
    BY <1>2 DEF Ledger, Books, Entry, Vacant, Offered, Stock, Child, Backed, Live
<1>4. Solvent(n)
  <2>1. \A j \in EscrowIds : Owed(n, j) = Owed(c, j)
    BY <1>2, OwedSame
  <2>2. [j \in EscrowIds |-> Owed(n, j)] = [j \in EscrowIds |-> Owed(c, j)]
    BY <2>1
  <2> QED
    BY <1>2, <2>2 DEF Ledger, Solvent
<1> QED
    BY <1>1, <1>2, <1>3, <1>4 DEF Ledger, Books

LEMMA ResolveKeeps ==
    ASSUME NEW c \in Chain, Ledger(c), NEW i \in EscrowIds, NEW favour \in BOOLEAN,
           NEW proof \in Evidence, CanResolve(c, i, favour, proof),
           NEW n, n = Resolve(c, i, favour, proof)
    PROVE  n \in Chain /\ Ledger(n) /\ n.next = c.next
<1>1. c.trades[i].status = "Disputed"
    BY DEF CanResolve, InState
<1>2. /\ Entry(c, i) /\ c.trades[i].amount \in Nat /\ c.trades[i].collateral = 0
      /\ c.parent[i] \in EscrowIds \cup {0} /\ c.balance \in Nat
      /\ c.parent[i] # 0 => c.parent[i] \in EscrowIds /\ Live(c, i) /\ ActiveParent(c, i)
      /\ c.parent[i] = 0 => ~ActiveParent(c, i)
    BY <1>1, LedgerTrade
<1>3. Live(c, i)
    BY <1>1, <1>2 DEF Entry, Backed, Live
<1>4. PICK used : used = c.used \cup {proof}
    OBVIOUS
<1>5. used \in SUBSET Evidence
    BY <1>4 DEF Chain
<1>6. CASE favour
  <2>1. n = CompleteTrade(Known(c, proof), i)
    BY <1>6, KnownCompletes
  <2>2. PICK m : m = Known(c, proof)
    OBVIOUS
  <2>3. /\ m \in Chain /\ Ledger(m) /\ m.trades = c.trades /\ m.balance = c.balance
        /\ m.next = c.next
    BY <2>2, KnownKeeps, KnownFields
  <2>4. CanComplete(m, i)
    BY <1>6, <2>3 DEF CanResolve, CanComplete, CanTransfer
  <2> QED
    BY <1>1, <2>1, <2>2, <2>3, <2>4, CompleteKeeps
<1>7. CASE ~favour /\ c.parent[i] # 0
  <2>1. n = Returned(c, i, c.parent[i], "Resolved", used)
    BY <1>2, <1>4, <1>7, ResolveEnds
  <2> QED
    BY <1>2, <1>3, <1>5, <1>7, <2>1, ReturnKeeps
<1>8. CASE ~favour /\ c.parent[i] = 0
  <2>1. n = Ended(c, i, "Resolved", used)
    BY <1>2, <1>4, <1>8, ResolveEnds
  <2>2. c.balance >= c.trades[i].amount
    BY <1>2, <1>8 DEF CanResolve, CanTransfer
  <2> QED
    BY <1>1, <1>3, <1>5, <2>1, <2>2, EndKeeps
<1> QED
    BY <1>6, <1>7, <1>8

LEMMA ReclaimKeeps ==
    ASSUME NEW c \in Chain, Ledger(c), NEW i \in EscrowIds, CanReclaim(c, 0, i),
           ~(c.trades[i].status = "Funded" /\ c.trades[i].buyer = NoOne),
           NEW n, n = Reclaim(c, 0, i)
    PROVE  n \in Chain /\ Ledger(n) /\ n.next = c.next
<1>1. CASE ReclaimsOpen(c, 0, i) /\ CanTransfer(c, c.trades[i].seller, OpenRefund(c, i))
  <2>1. /\ InState(c, i, "Created") /\ ~(c.inv[i].active /\ c.inv[i].alloc > 0)
        /\ OpenRefund(c, i) = 0 \/ c.balance >= OpenRefund(c, i)
    BY <1>1 DEF ReclaimsOpen, CanTransfer
  <2>2. c.balance \in Nat /\ c.inv[i].alloc \in Nat
    BY ChainParts
  <2> QED
    BY <2>1, <2>2, OpenKeeps
<1>2. CASE ~(ReclaimsOpen(c, 0, i) /\ CanTransfer(c, c.trades[i].seller, OpenRefund(c, i)))
  <2>1. c.trades[i].status = "Funded" /\ Live(c, i)
    BY <1>2 DEF CanReclaim, ReclaimsUnpaid, InState, Live
  <2>2. /\ Entry(c, i) /\ c.trades[i].amount \in Nat
        /\ c.parent[i] \in EscrowIds \cup {0} /\ c.balance \in Nat
        /\ c.parent[i] # 0 => c.parent[i] \in EscrowIds /\ ActiveParent(c, i)
        /\ c.parent[i] = 0 => ~ActiveParent(c, i)
    BY <2>1, LedgerTrade
  <2>3. ~InState(c, i, "Created") /\ c.used \in SUBSET Evidence
    BY <2>1 DEF InState, Chain
  <2>4. CASE c.parent[i] # 0
    <3>1. n = Returned(c, i, c.parent[i], "Resolved", c.used)
        BY <2>2, <2>3, <2>4, ReclaimEnds
    <3> QED
        BY <2>1, <2>2, <2>3, <2>4, <3>1, ReturnKeeps
  <2>5. CASE c.parent[i] = 0 /\ c.inv[i].active
    <3>1. n = Reoffered(c, i)
        BY <2>2, <2>3, <2>5, ReclaimEnds
    <3> QED
        BY <2>1, <2>5, <3>1, ReofferKeeps
  <2>6. CASE c.parent[i] = 0 /\ ~c.inv[i].active
    <3>1. n = Ended(c, i, "Resolved", c.used)
        BY <2>2, <2>3, <2>6, ReclaimEnds
    <3>2. c.balance >= c.trades[i].amount
        BY <1>2, <2>2, <2>6 DEF CanReclaim, CanTransfer
    <3> QED
        BY <2>1, <2>3, <3>1, <3>2, EndKeeps
  <2> QED
    BY <2>4, <2>5, <2>6
<1> QED
    BY <1>1, <1>2
-----------------------------------------------------------------------------
(* A call keeps the shape of the contract, after a reopened listing too,   *)
(* and its books as long as they are kept.                                 *)
Keeps(c, n) == n \in Chain /\ n.next >= c.next /\ (Ledger(c) => Ledger(n))

LEMMA KeepsIt ==
    ASSUME NEW c \in Chain, NEW n \in Chain, n.next = c.next, Ledger(c) => Ledger(n)
    PROVE  Keeps(c, n)
<1>1. c.next \in Nat
    BY DEF Chain
<1> QED
    BY <1>1 DEF Keeps

LEMMA FundCalls ==
    ASSUME NEW c \in Chain, NEW i \in EscrowIds, i < c.next,
           NEW who \in Address \ {NoOne}, CanFund(c, who, i)
    PROVE  Keeps(c, Fund(c, 0, who, i, 0))
<1>1. PICK n : n = Fund(c, 0, who, i, 0)
    OBVIOUS
<1>2. n \in Chain /\ n.next = c.next
    BY <1>1, FundFields
<1>3. Ledger(c) => Ledger(n)
    BY <1>1, FundKeeps
<1> QED
    BY <1>1, <1>2, <1>3, KeepsIt

LEMMA SentCalls ==
    ASSUME NEW c \in Chain, NEW i \in EscrowIds, NEW who, who # NoOne,
           CanMarkSent(c, who, i)
    PROVE  Keeps(c, MarkSent(c, 0, i))
<1>1. PICK n : n = MarkSent(c, 0, i)
    OBVIOUS
<1>2. n \in Chain /\ n.next = c.next
    BY <1>1, SentFields
<1>3. Ledger(c) => Ledger(n)
    BY <1>1, SentKeeps
<1> QED
    BY <1>1, <1>2, <1>3, KeepsIt

LEMMA DisputeCalls ==
    ASSUME NEW c \in Chain, NEW i \in EscrowIds, NEW who, CanDispute(c, 0, who, i)
    PROVE  Keeps(c, Dispute(c, i))
<1>1. PICK n : n = Dispute(c, i)
    OBVIOUS
<1>2. n \in Chain /\ n.next = c.next
    BY <1>1, DisputeFields
<1>3. Ledger(c) => Ledger(n)
    BY <1>1, DisputeKeeps
<1> QED
    BY <1>1, <1>2, <1>3, KeepsIt

LEMMA ReducedTyped ==
    ASSUME NEW x \in ChainTrade, NEW units \in Nat, NEW last \in BOOLEAN
    PROVE  Reduced(x, units, last) \in ChainTrade
<1>1. "Resolved" \in EscrowStatus
    BY DEF EscrowStatus
<1>2. x.amount >= units => x.amount - units \in Nat
    BY DEF ChainTrade
<1> QED
    BY <1>1, <1>2 DEF ChainTrade, Reduced

LEMMA WithdrawCalls ==
    ASSUME NEW c \in Chain, NEW i \in EscrowIds, NEW who, NEW units \in Nat,
           CanWithdraw(c, who, i, units)
    PROVE  Keeps(c, Withdraw(c, i, units))
<1>1. PICK n, x, v, balance :
            /\ n = Withdraw(c, i, units) /\ v = Withdrawn(c.inv[i], units)
            /\ x = Reduced(c.trades[i], units, TakesLast(c.inv[i], units))
            /\ balance = c.balance - units
    OBVIOUS
<1>2. /\ c.trades[i] \in ChainTrade /\ c.inv[i] \in Bucket /\ c.balance \in Nat
      /\ c.used \in SUBSET Evidence
    BY DEF Chain
<1>3. units <= c.inv[i].avail /\ balance \in Nat
    BY <1>1, <1>2 DEF CanWithdraw, CanTransfer
<1>4. TakesLast(c.inv[i], units) \in BOOLEAN
    BY DEF TakesLast
<1>5. x \in ChainTrade /\ v \in Bucket
    BY <1>1, <1>2, <1>3, <1>4, ReducedTyped, WithdrawnFields
<1>6. n = Put(c, i, x, i, v, c.used, balance)
    BY <1>1, WithdrawTouches DEF Put, Chain
<1>7. Wrote(c, n, i, x, c.used, balance)
    BY <1>2, <1>3, <1>5, <1>6, PutFields
<1>8. n \in Chain /\ n.next = c.next
    BY <1>7 DEF Wrote
<1>9. Ledger(c) => Ledger(n)
    BY <1>1, WithdrawKeeps
<1> QED
    BY <1>1, <1>8, <1>9, KeepsIt

LEMMA AllocateCalls ==
    ASSUME NEW c \in Chain, NEW l \in EscrowIds, NEW buyer \in Address,
           NEW units \in Nat, CanAllocate(c, buyer, l, units)
    PROVE  Keeps(c, AllocateOrder(c, 0, buyer, l, units))
<1>1. PICK n, k, x, v, s :
            /\ n = AllocateOrder(c, 0, buyer, l, units) /\ k = c.next
            /\ x = ChildOrder(c.trades[l].seller, buyer, units, 0)
            /\ v = Allocated(c.inv[l], units, k)
            /\ s = IF c.inv[l].avail = units THEN "Funded" ELSE c.trades[l].status
    OBVIOUS
<1>2. /\ c.trades[l] \in ChainTrade /\ c.inv[l] \in Bucket /\ c.trades[l].seller \in Address
      /\ k \in EscrowIds /\ c.next \in Nat /\ units <= c.inv[l].avail
      /\ c.trades[l].status \in EscrowStatus
    BY <1>1, ChainParts DEF CanAllocate
<1>3. x \in ChainTrade /\ v \in Bucket
    BY <1>1, <1>2, ChildFields, AllocatedFields
<1>4. s \in EscrowStatus
    BY <1>1, <1>2 DEF EscrowStatus
<1>5. PICK t1 : t1 = [c.trades EXCEPT ![k] = x]
    OBVIOUS
<1>6. t1 \in [EscrowIds -> ChainTrade]
    BY <1>3, <1>5 DEF Chain
<1>7. PICK t2 : t2 = [t1 EXCEPT ![l].status = s]
    OBVIOUS
<1>8. t2 \in [EscrowIds -> ChainTrade]
  <2>1. t1[l] \in ChainTrade
    BY <1>6
  <2>2. [t1[l] EXCEPT !.status = s] \in ChainTrade
    BY <1>4, <2>1 DEF ChainTrade
  <2>3. t2 = [t1 EXCEPT ![l] = [t1[l] EXCEPT !.status = s]]
    BY <1>7
  <2> QED
    BY <1>6, <2>2, <2>3
<1>9. PICK inv, parent : /\ inv = [c.inv EXCEPT ![l] = v] /\ parent = [c.parent EXCEPT ![k] = l]
    OBVIOUS
<1>10. inv \in [EscrowIds -> Bucket] /\ parent \in [EscrowIds -> EscrowIds \cup {0}]
    BY <1>3, <1>9 DEF Chain
<1>11. n = Extended(c, t2, inv, parent, k + 1)
  <2>1. c.inv[l] \in Bucket /\ c.inv \in [EscrowIds -> Bucket]
    BY DEF Chain
  <2>2. [c.inv EXCEPT ![l] = Allocated(@, units, c.next)] = inv
    BY <1>1, <1>9, <2>1
  <2>3. [c.trades EXCEPT
            ![c.next] = ChildOrder(c.trades[l].seller, buyer, units, 0),
            ![l].status = IF c.inv[l].avail = units THEN "Funded"
                          ELSE c.trades[l].status] = t2
    BY <1>1, <1>5, <1>7
  <2> QED
    BY <1>1, <1>9, <2>2, <2>3, AllocateExtends
<1>12. n \in Chain /\ n.next = k + 1
    BY <1>1, <1>2, <1>8, <1>10, <1>11, k + 1 \in Nat, ExtendedFields
<1>13. Ledger(c) => Ledger(n)
    BY <1>1, AllocateKeeps
<1> QED
    BY <1>1, <1>2, <1>12, <1>13 DEF Keeps

LEMMA CompleteTyped ==
    ASSUME NEW c \in Chain, NEW i \in EscrowIds, CanComplete(c, i),
           NEW n, n = CompleteTrade(c, i)
    PROVE  n \in Chain /\ n.next = c.next
<1>1. /\ c.trades[i].amount \in Nat /\ c.trades[i].collateral = 0 /\ c.balance \in Nat
      /\ c.used \in SUBSET Evidence /\ c.parent[i] \in EscrowIds \cup {0}
      /\ "Completed" \in EscrowStatus
    BY ChainParts DEF Chain, EscrowStatus
<1>2. c.balance >= c.trades[i].amount
  <2>1. c.trades[i].amount + c.trades[i].collateral = c.trades[i].amount
    BY <1>1
  <2>2. c.trades[i].amount = 0 \/ c.balance >= c.trades[i].amount
    BY <2>1 DEF CanComplete, CanTransfer
  <2> QED
    BY <1>1, <2>2
<1>3. BackedBy(c, i) = 0 \/ BackedBy(c, i) \in EscrowIds
    BY <1>1 DEF BackedBy
<1>4. CASE BackedBy(c, i) = 0
  <2>1. n = Ended(c, i, "Completed", c.used)
    BY <1>4, CompleteEnds
  <2> QED
    BY <1>1, <1>2, <2>1, EndFields
<1>5. CASE BackedBy(c, i) \in EscrowIds
  <2>1. n = PaidOut(c, i, BackedBy(c, i))
    BY <1>5, CompleteEnds
  <2> QED
    BY <1>2, <1>5, <2>1, PaidOutFields
<1> QED
    BY <1>3, <1>4, <1>5

LEMMA CompleteCalls ==
    ASSUME NEW c \in Chain, NEW i \in EscrowIds, CanComplete(c, i),
           c.trades[i].status \in {"Funded", "FiatSent", "Disputed"}
    PROVE  Keeps(c, CompleteTrade(c, i))
<1>1. PICK n : n = CompleteTrade(c, i)
    OBVIOUS
<1>2. n \in Chain /\ n.next = c.next
    BY <1>1, CompleteTyped
<1>3. Ledger(c) => Ledger(n)
    BY <1>1, CompleteKeeps
<1> QED
    BY <1>1, <1>2, <1>3, KeepsIt

LEMMA OracleCalls ==
    ASSUME NEW c \in Chain, NEW i \in EscrowIds, NEW proof \in Evidence,
           CanOracleRelease(c, i, proof)
    PROVE  Keeps(c, OracleRelease(c, i, proof))
<1>1. PICK m : m = Known(c, proof)
    OBVIOUS
<1>2. /\ m \in Chain /\ m.trades = c.trades /\ m.balance = c.balance
      /\ m.next = c.next
    BY <1>1, KnownFields
<1>3. CanComplete(m, i) /\ m.trades[i].status \in {"Funded", "FiatSent", "Disputed"}
    BY <1>2 DEF CanOracleRelease, CanComplete, CanTransfer
<1>4. Keeps(m, CompleteTrade(m, i))
    BY <1>2, <1>3, CompleteCalls
<1>5. Ledger(c) => Ledger(m)
    BY <1>1, KnownKeeps
<1>6. OracleRelease(c, i, proof) = CompleteTrade(m, i)
    BY <1>1, KnownCompletes
<1> QED
    BY <1>2, <1>4, <1>5, <1>6 DEF Keeps

LEMMA ResolveTyped ==
    ASSUME NEW c \in Chain, NEW i \in EscrowIds, NEW favour \in BOOLEAN,
           NEW proof \in Evidence, CanResolve(c, i, favour, proof),
           NEW n, n = Resolve(c, i, favour, proof)
    PROVE  n \in Chain /\ n.next = c.next
<1>1. PICK used : used = c.used \cup {proof}
    OBVIOUS
<1>2. used \in SUBSET Evidence /\ "Resolved" \in EscrowStatus
    BY <1>1 DEF Chain, EscrowStatus
<1>3. c.trades[i].amount \in Nat /\ c.balance \in Nat /\ c.parent[i] \in EscrowIds \cup {0}
    BY ChainParts
<1>4. CASE favour
  <2>1. PICK m : m = Known(c, proof)
    OBVIOUS
  <2>2. m \in Chain /\ m.trades = c.trades /\ m.balance = c.balance /\ m.next = c.next
    BY <2>1, KnownFields
  <2>3. CanComplete(m, i)
    BY <1>4, <2>2 DEF CanResolve, CanComplete, CanTransfer
  <2>4. n = CompleteTrade(m, i)
    BY <1>4, <2>1, KnownCompletes
  <2> QED
    BY <2>2, <2>3, <2>4, CompleteTyped
<1>5. CASE ~favour /\ ActiveParent(c, i)
  <2>1. c.parent[i] \in EscrowIds
    BY <1>3, <1>5 DEF ActiveParent
  <2>2. n = Returned(c, i, c.parent[i], "Resolved", used)
    BY <1>1, <1>5, ResolveEnds
  <2> QED
    BY <1>2, <2>1, <2>2, ReturnFields
<1>6. CASE ~favour /\ ~ActiveParent(c, i)
  <2>1. c.balance >= c.trades[i].amount
    BY <1>3, <1>6 DEF CanResolve, CanTransfer
  <2>2. n = Ended(c, i, "Resolved", used)
    BY <1>1, <1>6, ResolveEnds
  <2> QED
    BY <1>2, <2>1, <2>2, EndFields
<1> QED
    BY <1>4, <1>5, <1>6

LEMMA ResolveCalls ==
    ASSUME NEW c \in Chain, NEW i \in EscrowIds, NEW favour \in BOOLEAN,
           NEW proof \in Evidence, CanResolve(c, i, favour, proof)
    PROVE  Keeps(c, Resolve(c, i, favour, proof))
<1>1. PICK n : n = Resolve(c, i, favour, proof)
    OBVIOUS
<1>2. n \in Chain /\ n.next = c.next
    BY <1>1, ResolveTyped
<1>3. Ledger(c) => Ledger(n)
    BY <1>1, ResolveKeeps
<1> QED
    BY <1>1, <1>2, <1>3, KeepsIt

LEMMA ReclaimTyped ==
    ASSUME NEW c \in Chain, NEW i \in EscrowIds, CanReclaim(c, 0, i),
           NEW n, n = Reclaim(c, 0, i)
    PROVE  n \in Chain /\ n.next = c.next
<1>1. /\ c.trades[i].amount \in Nat /\ c.balance \in Nat /\ c.inv[i].avail \in Nat
      /\ c.parent[i] \in EscrowIds \cup {0} /\ c.used \in SUBSET Evidence
      /\ "Resolved" \in EscrowStatus
    BY ChainParts DEF Chain, EscrowStatus
<1>2. CASE InState(c, i, "Created")
  <2>1. OpenRefund(c, i) = 0 \/ c.balance >= OpenRefund(c, i)
    BY <1>2 DEF CanReclaim, ReclaimsUnpaid, InState, CanTransfer
  <2>2. c.balance >= OpenRefund(c, i)
    BY <1>1, <2>1 DEF OpenRefund
  <2> QED
    BY <1>2, <2>2, OpenFields
<1>3. CASE ~InState(c, i, "Created") /\ ActiveParent(c, i)
  <2>1. c.parent[i] \in EscrowIds
    BY <1>1, <1>3 DEF ActiveParent
  <2>2. n = Returned(c, i, c.parent[i], "Resolved", c.used)
    BY <1>3, ReclaimEnds
  <2> QED
    BY <1>1, <2>1, <2>2, ReturnFields
<1>4. CASE ~InState(c, i, "Created") /\ ~ActiveParent(c, i) /\ c.inv[i].active
  <2>1. n = Reoffered(c, i)
    BY <1>4, ReclaimEnds
  <2> QED
    BY <2>1, ReofferFields
<1>5. CASE ~InState(c, i, "Created") /\ ~ActiveParent(c, i) /\ ~c.inv[i].active
  <2>1. c.balance >= c.trades[i].amount
    BY <1>1, <1>5 DEF CanReclaim, ReclaimsOpen, CanTransfer
  <2>2. n = Ended(c, i, "Resolved", c.used)
    BY <1>5, ReclaimEnds
  <2> QED
    BY <1>1, <2>1, <2>2, EndFields
<1> QED
    BY <1>2, <1>3, <1>4, <1>5

LEMMA ReclaimCalls ==
    ASSUME NEW c \in Chain, NEW i \in EscrowIds, CanReclaim(c, 0, i),
           ~(c.trades[i].status = "Funded" /\ c.trades[i].buyer = NoOne)
    PROVE  Keeps(c, Reclaim(c, 0, i))
<1>1. PICK n : n = Reclaim(c, 0, i)
    OBVIOUS
<1>2. n \in Chain /\ n.next = c.next
    BY <1>1, ReclaimTyped
<1>3. Ledger(c) => Ledger(n)
    BY <1>1, ReclaimKeeps
<1> QED
    BY <1>1, <1>2, <1>3, KeepsIt
-----------------------------------------------------------------------------
(* The store: what its calls do to the rows of its trades.  No call but a  *)
(* take changes whose trade it is, opens it or asks for its payment again. *)
Follows(x, y) ==
    /\ x = Null => y = Null
    /\ x # Null => /\ y # Null /\ y.buyer = x.buyer
                   /\ y.life \in {"OPEN", "AWAITING_PAYMENT"} => y.life = x.life
Confirmed(x) == x # Null /\ (x.pay = "CONFIRMED" \/ x.life \in Finalizable)
Complete(x) == x # Null /\ x.life = "COMPLETED"
(* Most confirm and complete nothing.                                      *)
Eases(m, n) ==
    \A t \in TradeIds :
        /\ Follows(m.trades[t], n.trades[t])
        /\ Confirmed(n.trades[t]) => Confirmed(m.trades[t])
        /\ Complete(n.trades[t]) => Complete(m.trades[t])
Goes(m, n, t) ==
    \A u \in TradeIds :
        /\ Follows(m.trades[u], n.trades[u])
        /\ u # t => n.trades[u] = m.trades[u]

LEMMA EasesSame ==
    ASSUME NEW m, NEW n, n.trades = m.trades
    PROVE  Eases(m, n)
    BY DEF Eases, Follows

LEMMA EasesGoes ==
    ASSUME NEW m, NEW n, NEW t, n.trades = m.trades
    PROVE  Goes(m, n, t)
    BY DEF Goes, Follows

LEMMA RowEases ==
    ASSUME NEW m \in Memory, NEW n, NEW t \in TradeIds, NEW x, m.trades[t] = x, x # Null,
           NEW y, y # Null, y.buyer = x.buyer, n.trades = [m.trades EXCEPT ![t] = y],
           y.life \in {"OPEN", "AWAITING_PAYMENT", "COMPLETED"} => y.life = x.life,
           Confirmed(y) => Confirmed(x)
    PROVE  Eases(m, n)
<1>1. Follows(x, y) /\ (Complete(y) => Complete(x))
    BY DEF Follows, Complete
<1>2. m.trades \in [TradeIds -> SharedTrade \cup {Null}]
    BY DEF Memory
<1>3. n.trades[t] = y /\ \A u \in TradeIds \ {t} : n.trades[u] = m.trades[u]
    BY <1>2
<1> SUFFICES ASSUME NEW u \in TradeIds
             PROVE  /\ Follows(m.trades[u], n.trades[u])
                    /\ Confirmed(n.trades[u]) => Confirmed(m.trades[u])
                    /\ Complete(n.trades[u]) => Complete(m.trades[u])
    BY DEF Eases
<1>4. CASE u = t
    BY <1>1, <1>3, <1>4
<1>5. CASE u # t
  <2>1. n.trades[u] = m.trades[u]
    BY <1>3, <1>5
  <2> QED
    BY <2>1 DEF Follows
<1> QED
    BY <1>4, <1>5

LEMMA RowGoes ==
    ASSUME NEW m \in Memory, NEW n, NEW t \in TradeIds, NEW x, m.trades[t] = x, x # Null,
           NEW y, y # Null, y.buyer = x.buyer, n.trades = [m.trades EXCEPT ![t] = y],
           y.life \in {"OPEN", "AWAITING_PAYMENT"} => y.life = x.life
    PROVE  Goes(m, n, t) /\ n.trades[t] = y
<1>1. Follows(x, y)
    BY DEF Follows
<1>2. m.trades \in [TradeIds -> SharedTrade \cup {Null}]
    BY DEF Memory
<1>3. n.trades[t] = y /\ \A u \in TradeIds \ {t} : n.trades[u] = m.trades[u]
    BY <1>2
<1>4. ASSUME NEW u \in TradeIds PROVE Follows(m.trades[u], n.trades[u])
  <2>1. CASE u = t
    BY <1>1, <1>3, <2>1
  <2>2. CASE u # t
    <3>1. n.trades[u] = m.trades[u]
        BY <1>3, <2>2
    <3> QED
        BY <3>1 DEF Follows
  <2> QED
    BY <2>1, <2>2
<1> QED
    BY <1>3, <1>4 DEF Goes

(* The steps of a payout, of a refund and of a release.                    *)
LEMMA StepsEase ==
    ASSUME NEW m, Typed(m), NEW t \in TradeIds, NEW res, Steps(m, t, res),
           (m.trades[t] # Null /\ m.trades[t].pay = "CONFIRMED")
             \/ res = Throw(m) \/ res.mem.trades[t].life \notin Finalizable
    PROVE  Eases(m, res.mem)
<1>0. m \in Memory
    BY DEF Typed
<1>1. CASE res = Throw(m)
    BY <1>1, EasesSame DEF Throw, Result
<1>2. CASE res # Throw(m)
  <2>1. PICK y \in SharedTrade :
            /\ m.trades[t] # Null
            /\ SameDeal(y, m.trades[t]) /\ y.pay = m.trades[t].pay
            /\ y.life \in Underway
            /\ res = Synced([m EXCEPT !.trades[t] = y], t, {})
    BY <1>2 DEF Steps
  <2>2. res.mem.trades = [m.trades EXCEPT ![t] = y] /\ res.mem.trades[t] = y
    BY <1>0, <2>1 DEF Synced, Result, Memory
  <2>3. y # Null /\ y.buyer = m.trades[t].buyer
    BY <2>1, NullApart DEF SameDeal
  <2>4. y.life \notin {"OPEN", "AWAITING_PAYMENT", "COMPLETED"}
    BY <2>1 DEF Underway
  <2>5. Confirmed(y) => Confirmed(m.trades[t])
    BY <1>2, <2>1, <2>2 DEF Confirmed
  <2> QED
    BY <1>0, <2>1, <2>2, <2>3, <2>4, <2>5, RowEases
<1> QED
    BY <1>1, <1>2

LEMMA PayoutEases ==
    ASSUME NEW m, Typed(m), NEW t \in TradeIds, NEW op \in {"initiate", "confirm", "hold"}
    PROVE  Eases(m, PayoutStep(m, t, op).mem)
<1>1. Steps(m, t, PayoutStep(m, t, op))
    BY PayoutSteps
<1>2. PayoutStep(m, t, op) = Throw(m)
      \/ (m.trades[t] # Null /\ m.trades[t].pay = "CONFIRMED")
    BY DEF PayoutStep
<1> QED
    BY <1>1, <1>2, StepsEase

LEMMA RequestEases ==
    ASSUME NEW m, Typed(m), NEW t \in TradeIds
    PROVE  Eases(m, RequestRelease(m, t).mem)
<1>1. Steps(m, t, RequestRelease(m, t))
    BY RequestSteps
<1>2. RequestRelease(m, t) = Throw(m)
      \/ (m.trades[t] # Null /\ m.trades[t].pay = "CONFIRMED")
    BY DEF RequestRelease
<1> QED
    BY <1>1, <1>2, StepsEase

LEMMA LifeIs ==
    ASSUME NEW m, Typed(m), NEW t \in TradeIds, m.trades[t] # Null, NEW life,
           NEW res, res = Synced([m EXCEPT !.trades[t].life = life], t, {})
    PROVE  res.mem.trades[t].life = life
<1>1. m.trades[t] \in SharedTrade /\ m.trades \in [TradeIds -> SharedTrade \cup {Null}]
    BY DEF Typed, Memory
<1> QED
    BY <1>1 DEF Synced, Result, Typed, Memory, SharedTrade

LEMMA RefundEases ==
    ASSUME NEW m, Typed(m), NEW t \in TradeIds
    PROVE  Eases(m, RefundRequest(m, t).mem) /\ Eases(m, HoldRelease(m, t).mem)
<1>1. Steps(m, t, RefundRequest(m, t)) /\ Steps(m, t, HoldRelease(m, t))
    BY RequestSteps, HoldSteps
<1>2. RefundRequest(m, t) = Throw(m)
      \/ RefundRequest(m, t).mem.trades[t].life \notin Finalizable
  <2>1. PICK res : res = RefundRequest(m, t)
    OBVIOUS
  <2>2. \/ res = Throw(m)
        \/ /\ m.trades[t] # Null
           /\ res = Synced([m EXCEPT !.trades[t].life = "REFUND_PENDING"], t, {})
    BY <2>1 DEF RefundRequest
  <2>3. res = Throw(m) \/ res.mem.trades[t].life = "REFUND_PENDING"
    BY <2>2, LifeIs
  <2> QED
    BY <2>1, <2>3 DEF Finalizable
<1>3. HoldRelease(m, t) = Throw(m)
      \/ HoldRelease(m, t).mem.trades[t].life \notin Finalizable
  <2>1. PICK res : res = HoldRelease(m, t)
    OBVIOUS
  <2>2. \/ res = Throw(m)
        \/ /\ m.trades[t] # Null
           /\ res = Synced([m EXCEPT !.trades[t].life = "RELEASE_ON_HOLD"], t, {})
    BY <2>1 DEF HoldRelease
  <2>3. res = Throw(m) \/ res.mem.trades[t].life = "RELEASE_ON_HOLD"
    BY <2>2, LifeIs
  <2> QED
    BY <2>1, <2>3 DEF Finalizable
<1> QED
    BY <1>1, <1>2, <1>3, StepsEase

(* A trade that is cancelled.                                              *)
LEMMA CancelEases ==
    ASSUME NEW m, Sound(m, 0), NEW t \in TradeIds, NEW u
    PROVE  Eases(m, CancelTrade(m, u, t).mem)
<1>0. m \in Memory /\ Typed(m)
    BY DEF Sound, Typed
<1>1. CASE CancelTrade(m, u, t).mem = m
    BY <1>1, EasesSame
<1>2. CASE CancelTrade(m, u, t).mem # m
  <2>1. PICK n : n = Closed(m, t, "FAILED", "FAILED")
    OBVIOUS
  <2>2. /\ m.trades[t] # Null
        /\ CancelTrade(m, u, t).mem = ReleaseSlot(n, t, FALSE)
    BY <1>2, <2>1 DEF CancelTrade, Throw, Result, Synced
  <2>3. Sound(n, 0) /\ Closes(m, n, t, ClosedRow(m.trades[t], "FAILED"))
    BY <2>1, <2>2, ClosedSound
  <2>4. CancelTrade(m, u, t).mem.trades = n.trades
    <3>1. Typed(n) /\ FALSE \in BOOLEAN
        BY <2>3 DEF Sound
    <3>2. SameTrades(n, ReleaseSlot(n, t, FALSE))
        BY <3>1, ReleaseFields
    <3> QED
        BY <2>2, <3>2 DEF SameTrades
  <2>5. PICK x \in SharedTrade : x = m.trades[t]
    BY <1>0, <2>2 DEF Memory
  <2>6. PICK y : y = ClosedRow(x, "FAILED")
    OBVIOUS
  <2>7. y \in SharedTrade /\ y.buyer = x.buyer /\ y.life = "CANCELLED" /\ y.pay = "FAILED"
    <3>1. "CANCELLED" \in Lifecycle /\ "FAILED" \in PaymentStates
        BY DEF Lifecycle, PaymentStates
    <3> QED
        BY <2>6, <3>1 DEF ClosedRow, SharedTrade
  <2>8. y # Null /\ x # Null /\ ~Confirmed(y)
    BY <2>7, NullApart DEF Confirmed, Finalizable
  <2>9. CancelTrade(m, u, t).mem.trades = [m.trades EXCEPT ![t] = y]
    BY <2>3, <2>4, <2>5, <2>6 DEF Closes
  <2> QED
    BY <1>0, <2>5, <2>7, <2>8, <2>9, RowEases
<1> QED
    BY <1>1, <1>2

LEMMA RefundedEases ==
    ASSUME NEW m, Sound(m, 0), NEW t \in TradeIds
    PROVE  Eases(m, RefundComplete(m, t).mem)
<1>0. m \in Memory /\ Typed(m)
    BY DEF Sound, Typed
<1>1. CASE RefundComplete(m, t) = Throw(m)
    BY <1>1, EasesSame DEF Throw, Result
<1>2. CASE RefundComplete(m, t) # Throw(m)
  <2>1. m.trades[t] # Null
    BY <1>2 DEF RefundComplete
  <2>2. PICK x \in SharedTrade : x = m.trades[t]
    BY <1>0, <2>1 DEF Memory
  <2>3. PICK y : y = [x EXCEPT !.life = "CANCELLED"]
    OBVIOUS
  <2>4. y \in SharedTrade /\ y.buyer = x.buyer /\ y.life = "CANCELLED" /\ y.pay = x.pay
    <3>1. "CANCELLED" \in Lifecycle
        BY DEF Lifecycle
    <3> QED
        BY <2>3, <3>1 DEF SharedTrade
  <2>5. PICK n : n = [m EXCEPT !.trades[t] = y]
    OBVIOUS
  <2>6. RefundComplete(m, t).mem = ReleaseSlot(n, t, FALSE)
    BY <1>2, <2>1, <2>2, <2>3, <2>5 DEF RefundComplete, Synced, Result
  <2>7. Typed(n)
    BY <1>0, <2>4, <2>5, SetTrade
  <2>8. n.trades = [m.trades EXCEPT ![t] = y]
    BY <1>0, <2>5 DEF Memory
  <2>9. RefundComplete(m, t).mem.trades = [m.trades EXCEPT ![t] = y]
    <3>1. SameTrades(n, ReleaseSlot(n, t, FALSE))
        BY <2>7, FALSE \in BOOLEAN, ReleaseFields
    <3> QED
        BY <2>6, <2>8, <3>1 DEF SameTrades
  <2>10. y # Null /\ x # Null /\ (Confirmed(y) => Confirmed(x))
    BY <2>4, NullApart DEF Confirmed, Finalizable
  <2> QED
    BY <1>0, <2>2, <2>4, <2>9, <2>10, RowEases
<1> QED
    BY <1>1, <1>2

(* A trade that is completed.                                              *)
LEMMA CompleteGoes ==
    ASSUME NEW m, Sound(m, 0), NEW t \in TradeIds, NEW n, n = CompletePeerTrade(m, t).mem
    PROVE  /\ Goes(m, n, t)
           /\ m.trades[t] = Null => n.trades = m.trades
<1>0. m \in Memory /\ Typed(m)
    BY DEF Sound, Typed
<1>1. CASE m.trades[t] = Null
  <2>1. n = m
    BY <1>1 DEF CompletePeerTrade, Result
  <2> QED
    BY <2>1, EasesGoes
<1>2. CASE m.trades[t] # Null
  <2>1. PICK x \in SharedTrade : x = m.trades[t]
    BY <1>0, <1>2 DEF Memory
  <2>2. PICK y : y = Finished(x)
    OBVIOUS
  <2>3. y \in SharedTrade /\ y.buyer = x.buyer /\ y.life = "COMPLETED"
    <3>1. "COMPLETED" \in Lifecycle /\ "CONFIRMED" \in PaymentStates
        BY DEF Lifecycle, PaymentStates
    <3> QED
        BY <2>2, <3>1 DEF Finished, SharedTrade
  <2>4. PICK k, r : k = [m EXCEPT !.trades[t] = y] /\ r = ReleaseSlot(k, t, TRUE)
    OBVIOUS
  <2>5. Typed(k) /\ k.trades = [m.trades EXCEPT ![t] = y]
    BY <1>0, <2>3, <2>4, SetTrade DEF Memory
  <2>6. r.trades = k.trades /\ r \in Memory
    <3>1. SameTrades(k, r) /\ k.trades[t] # Null
        BY <1>0, <2>3, <2>4, <2>5, TRUE \in BOOLEAN, NullApart, ReleaseFields DEF Memory
    <3>2. r.trades = k.trades
        BY <3>1 DEF SameTrades
    <3>3. Typed(r)
        BY <2>4, <2>5, <3>1, TRUE \in BOOLEAN, ReleaseTyped
    <3>4. r \in Memory
        BY <3>3 DEF Typed
    <3> QED
        BY <3>2, <3>4
  <2>7. n = r \/ \E b : n = [r EXCEPT !.trust[b] = Rewarded(@)]
    BY <1>2, <2>1, <2>2, <2>4 DEF CompletePeerTrade, Synced, Result
  <2>8. n.trades = [m.trades EXCEPT ![t] = y]
    BY <2>5, <2>6, <2>7 DEF Memory
  <2>9. y # Null /\ x # Null
    BY <2>1, <2>3, NullApart
  <2> QED
    BY <1>0, <1>2, <2>1, <2>3, <2>8, <2>9, RowGoes
<1> QED
    BY <1>1, <1>2

LEMMA ConfirmGoes ==
    ASSUME NEW m, Sound(m, 0), NEW t \in TradeIds, NEW n, n = ConfirmRelease(m, t).mem
    PROVE  Goes(m, n, t)
<1>1. n = m \/ n = CompletePeerTrade(m, t).mem
    BY DEF ConfirmRelease, Throw, Result
<1> QED
    BY <1>1, CompleteGoes, EasesGoes

(* A checkout of a trade that has its buyer.                               *)
LEMMA CheckoutEases ==
    ASSUME NEW m, Sound(m, 0), NEW b \in Buyers, NEW t \in TradeIds, NEW r \in TxRefs, NEW draw,
           m.trades[t] # Null, m.trades[t].buyer # Null, m.trades[t].life # "OPEN",
           NEW res, res = Checkout(m, 0, b, t, r, draw)
    PROVE  /\ Eases(m, res.mem)
           /\ res.ok => res.mem.trades[t].ref \in TxRefs
<1>0. m \in Memory
    BY DEF Sound, Typed
<1>1. PICK x \in SharedTrade : x = m.trades[t]
    BY <1>0 DEF Memory
<1>2. CASE res = Throw(m)
    BY <1>2, EasesSame DEF Throw, Result
<1>3. CASE res # Throw(m)
  <2>1. x.buyer = b
    BY <1>1, <1>3 DEF Checkout
  <2>2. PICK due : due = IF x.due = Null THEN 0 + PaymentTimeout ELSE x.due
    OBVIOUS
  <2>3. PICK x1, x2, x3 : /\ x1 = [x EXCEPT !.buyer = b]
                          /\ x2 = [x1 EXCEPT !.due = due, !.locked = TRUE]
                          /\ x3 = [x2 EXCEPT !.ref = r, !.pay = "CHECKOUT_CREATED"]
    OBVIOUS
  <2>4. due \in Nat \cup {Null} /\ "CHECKOUT_CREATED" \in PaymentStates
    BY <2>2, TimeoutAssumption DEF SharedTrade, PaymentStates
  <2>5. x1 \in SharedTrade /\ x1.buyer = x.buyer /\ x1.life = x.life /\ x1.pay = x.pay
        /\ x1.ref = x.ref
    BY <2>1, <2>3 DEF SharedTrade
  <2>6. x2 \in SharedTrade /\ x2.buyer = x.buyer /\ x2.life = x.life /\ x2.pay = x.pay
        /\ x2.ref = x.ref
    BY <2>3, <2>4, <2>5 DEF SharedTrade
  <2>7. x3 \in SharedTrade /\ x3.buyer = x.buyer /\ x3.life = x.life
        /\ x3.pay = "CHECKOUT_CREATED" /\ x3.ref = r
    BY <2>3, <2>4, <2>6 DEF SharedTrade
  <2>8. x # Null /\ x1 # Null /\ x2 # Null /\ x3 # Null
    BY <2>5, <2>6, <2>7, NullApart
  <2>9. PICK m1, m2, m3 :
            /\ m1 = [m EXCEPT !.trades[t].buyer = b]
            /\ m2 = [m1 EXCEPT !.trades[t] = [@ EXCEPT !.due = due, !.locked = TRUE]]
            /\ m3 = [m2 EXCEPT
                        !.attempts[r] = [trade |-> t, buyer |-> b, expires |-> due,
                                         flw |-> Null, status |-> "REDIRECT_READY"],
                        !.trades[t] = [@ EXCEPT !.ref = r, !.pay = "CHECKOUT_CREATED"]]
    OBVIOUS
  <2>10. m1.trades = [m.trades EXCEPT ![t] = x1]
    BY <1>0, <1>1, <2>3, <2>9 DEF Memory
  <2>11. m1 = [m EXCEPT !.trades = m1.trades] /\ m1.trades[t] = x1
    BY <1>0, <1>1, <2>3, <2>9, <2>10 DEF Memory
  <2>12. m2.trades = [m1.trades EXCEPT ![t] = x2]
    BY <1>0, <2>3, <2>9, <2>10, <2>11 DEF Memory
  <2>13. m2.trades = [m.trades EXCEPT ![t] = x2] /\ m2.trades[t] = x2
    BY <1>0, <2>10, <2>12 DEF Memory
  <2>14. m2 = [m EXCEPT !.trades = m2.trades]
    BY <1>0, <2>9, <2>11, <2>12 DEF Memory
  <2>15. m3.trades = [m2.trades EXCEPT ![t] = x3]
    BY <1>0, <2>3, <2>9, <2>13, <2>14 DEF Memory
  <2>16. m3.trades = [m.trades EXCEPT ![t] = x3] /\ m3.trades[t] = x3
    BY <1>0, <2>13, <2>15 DEF Memory
  <2>17. \/ res = Throw(m1)
         \/ res = Result(m2, {}, {}, TRUE) /\ x.ref # Null
         \/ res = Synced(m3, t, {})
    BY <1>1, <1>3, <2>1, <2>2, <2>9 DEF Checkout, Reusable
  <2>18. CASE res = Throw(m1)
    <3>1. res.mem.trades = [m.trades EXCEPT ![t] = x1] /\ ~res.ok
        BY <2>10, <2>18 DEF Throw, Result
    <3>2. Confirmed(x1) => Confirmed(x)
        BY <2>5, <2>8 DEF Confirmed
    <3> QED
        BY <1>0, <1>1, <2>5, <2>8, <3>1, <3>2, RowEases
  <2>19. CASE res = Result(m2, {}, {}, TRUE) /\ x.ref # Null
    <3>1. res.mem.trades = [m.trades EXCEPT ![t] = x2]
        BY <2>13, <2>19 DEF Result
    <3>2. Confirmed(x2) => Confirmed(x)
        BY <2>6, <2>8 DEF Confirmed
    <3>3. Eases(m, res.mem)
        BY <1>0, <1>1, <2>6, <2>8, <3>1, <3>2, RowEases
    <3>4. res.mem.trades[t].ref \in TxRefs
        BY <2>6, <2>13, <2>19, <3>1 DEF SharedTrade
    <3> QED
        BY <3>3, <3>4
  <2>20. CASE res = Synced(m3, t, {})
    <3>1. res.mem.trades = [m.trades EXCEPT ![t] = x3]
        BY <2>16, <2>20 DEF Synced, Result
    <3>2. Confirmed(x3) => Confirmed(x)
        BY <2>7, <2>8 DEF Confirmed
    <3>3. Eases(m, res.mem)
        BY <1>0, <1>1, <2>7, <2>8, <3>1, <3>2, RowEases
    <3>4. res.mem.trades[t].ref \in TxRefs
        BY <2>7, <2>16, <3>1
    <3> QED
        BY <3>3, <3>4
  <2> QED
    BY <2>17, <2>18, <2>19, <2>20
<1> QED
    BY <1>2, <1>3

(* A reported payment confirms a trade only when it is the price, and the  *)
(* page goes on only when that, or more, was reported, or had been before. *)
Reports(m, res, t, amount) ==
    /\ Goes(m, res.mem, t)
    /\ Complete(res.mem.trades[t]) => Complete(m.trades[t])
    /\ Confirmed(res.mem.trades[t]) =>
            Confirmed(m.trades[t]) \/ (amount = "exact" /\ res.ok)
    /\ Proceeds(res, t) => Confirmed(m.trades[t]) \/ amount \in {"exact", "over"}

LEMMA RecordReports ==
    ASSUME NEW m, Sound(m, 0), NEW t \in TradeIds, NEW r \in TxRefs,
           NEW f \in FlwIds, NEW amount \in Amounts,
           NEW res, res = RecordPayment(m, 0, t, r, f, amount, Null)
    PROVE  Reports(m, res, t, amount)
<1>0. m \in Memory
    BY DEF Sound, Typed
<1>1. m = [m EXCEPT !.seen = IF Null = Null THEN @ ELSE @ \cup {Null}]
    BY <1>0 DEF Memory
<1>2. \/ res = Throw(m)
      \/ /\ res = Result(m, {}, {}, TRUE)
         /\ m.trades[t] # Null /\ m.trades[t].pay = "CONFIRMED"
      \/ /\ m.trades[t] # Null /\ amount = "currency"
         /\ res = [Synced([m EXCEPT !.attempts[r].status = "MISMATCH_HOLD",
                                    !.trades[t].pay = "FAILED"], t, {}) EXCEPT !.ok = FALSE]
      \/ /\ m.trades[t] # Null /\ amount # "currency"
         /\ res = Synced(Credited(m, 0, t, r, f, amount), t, {})
    BY <1>1 DEF RecordPayment
<1>3. CASE res = Throw(m)
  <2>1. res.mem = m /\ ~res.ok
    BY <1>3 DEF Throw, Result
  <2> QED
    BY <2>1, EasesGoes DEF Reports, Proceeds
<1>4. CASE /\ res = Result(m, {}, {}, TRUE)
           /\ m.trades[t] # Null /\ m.trades[t].pay = "CONFIRMED"
  <2>1. res.mem = m
    BY <1>4 DEF Result
  <2>2. Confirmed(m.trades[t])
    BY <1>4 DEF Confirmed
  <2> QED
    BY <2>1, <2>2, EasesGoes DEF Reports
<1>5. CASE /\ m.trades[t] # Null /\ amount = "currency"
           /\ res = [Synced([m EXCEPT !.attempts[r].status = "MISMATCH_HOLD",
                                      !.trades[t].pay = "FAILED"], t, {}) EXCEPT !.ok = FALSE]
  <2>1. PICK x \in SharedTrade : x = m.trades[t]
    BY <1>0, <1>5 DEF Memory
  <2>2. PICK y : y = [x EXCEPT !.pay = "FAILED"]
    OBVIOUS
  <2>3. y \in SharedTrade /\ y.buyer = x.buyer /\ y.life = x.life /\ y.pay = "FAILED"
    BY <2>2 DEF SharedTrade, PaymentStates
  <2>4. res.mem.trades = [m.trades EXCEPT ![t] = y] /\ ~res.ok
    <3>1. PICK n : n = [m EXCEPT !.attempts[r].status = "MISMATCH_HOLD",
                                 !.trades[t].pay = "FAILED"]
        OBVIOUS
    <3>2. n.trades = [m.trades EXCEPT ![t] = y]
        BY <1>0, <2>1, <2>2, <3>1 DEF Memory
    <3>3. res.mem = n /\ ~res.ok
        BY <1>5, <3>1 DEF Synced, Result
    <3> QED
        BY <3>2, <3>3
  <2>5. x # Null /\ y # Null
    BY <2>3, NullApart
  <2>6. Goes(m, res.mem, t) /\ res.mem.trades[t] = y
    BY <1>0, <2>1, <2>3, <2>4, <2>5, RowGoes
  <2> QED
    BY <2>1, <2>3, <2>4, <2>5, <2>6 DEF Reports, Confirmed, Complete, Proceeds
<1>6. CASE /\ m.trades[t] # Null /\ amount # "currency"
           /\ res = Synced(Credited(m, 0, t, r, f, amount), t, {})
  <2>1. PICK x \in SharedTrade : x = m.trades[t]
    BY <1>0, <1>6 DEF Memory
  <2>2. PICK status : status = Verified(m, 0, t, r, amount)
    OBVIOUS
  <2>3. PICK y : y = PaidRow(x, f, status, amount)
    OBVIOUS
  <2>4. y \in SharedTrade /\ y.life \in {x.life, "LATE_PAYMENT_REVIEW", "PAYMENT_CONFIRMED"}
    BY <2>3, PaidRowTyped
  <2>5. y.buyer = x.buyer
    BY <2>3 DEF PaidRow, SharedTrade
  <2>6. res.mem.trades = [m.trades EXCEPT ![t] = y] /\ res.ok
    <3>1. PICK n : n = Credited(m, 0, t, r, f, amount)
        OBVIOUS
    <3>2. n.trades = [m.trades EXCEPT ![t] = y]
        BY <1>0, <2>1, <2>2, <2>3, <3>1 DEF Credited, Memory
    <3>3. res.mem = n /\ res.ok
        BY <1>6, <3>1 DEF Synced, Result
    <3> QED
        BY <3>2, <3>3
  <2>7. x # Null /\ y # Null
    BY <2>4, NullApart
  <2>8. Goes(m, res.mem, t) /\ res.mem.trades[t] = y
    BY <1>0, <2>1, <2>4, <2>5, <2>6, <2>7, RowGoes
  <2>9. amount = "under" => y.pay = "UNDERPAID" /\ y.life = x.life
    BY <2>3 DEF PaidRow, SharedTrade
  <2>10. amount = "over" => y.pay = "OVERPAID" /\ y.life = x.life
    BY <2>3 DEF PaidRow, SharedTrade
  <2>11. amount \in {"under", "over", "exact"}
    BY <1>6 DEF Amounts
  <2>12. Confirmed(y) => Confirmed(x) \/ amount = "exact"
    BY <2>7, <2>9, <2>10, <2>11 DEF Confirmed
  <2>13. Proceeds(res, t) => amount \in {"exact", "over"}
    BY <2>8, <2>9, <2>11 DEF Proceeds
  <2>14. Complete(y) => Complete(x)
    BY <2>4, <2>7 DEF Complete
  <2> QED
    BY <2>1, <2>6, <2>8, <2>12, <2>13, <2>14 DEF Reports
<1> QED
    BY <1>2, <1>3, <1>4, <1>5, <1>6

(* A take that is accepted leaves one trade waiting for its payment.       *)
TakenBy(m, res, b) ==
    \/ res.mem.trades = m.trades
    \/ /\ res.ok
       /\ \E t \in TradeIds, y \in SharedTrade :
            /\ y.buyer = b /\ y.life = "AWAITING_PAYMENT" /\ y.pay = "UNPAID"
            /\ res.mem.trades = [m.trades EXCEPT ![t] = y]

LEMMA TakeTaken ==
    ASSUME NEW m, Sound(m, 0), NEW b \in Buyers, NEW l \in Listings, NEW want \in Nat,
           NEW draw, Drawn(m, l, draw),
           NEW res, res = TakePeerOffer(m, 0, b, l, want, draw)
    PROVE  TakenBy(m, res, b)
<1>0. m \in Memory
    BY DEF Sound, Typed
<1>1. Takes(m, res, 0, b, l, want, draw)
    BY <1>0, want \in Nat \cup {Null}, TakeTakes
<1>2. CASE res = Throw(m)
    BY <1>2 DEF Throw, Result, TakenBy
<1>3. CASE res # Throw(m)
  <2>1. PICK units \in Nat \ {0} :
            /\ m.inv[l] # Null /\ units <= m.inv[l].avail
            /\ \/ /\ draw[2] \in QueueRefs
                  /\ res = JoinQueue(m, b, l, units, draw[2])
               \/ /\ draw[1] \in Suffixes
                  /\ res = Allocate(m, 0, b, l, units, ActiveId(m, l, units, draw[1]))
    BY <1>1, <1>3 DEF Takes
  <2>2. CASE draw[2] \in QueueRefs /\ res = JoinQueue(m, b, l, units, draw[2])
    <3>1. PICK q \in QueueRefs : q = draw[2]
        BY <2>2
    <3>2. m.inv[l] # Null /\ units \in Nat /\ units <= m.inv[l].avail
        BY <2>1
    <3>3. SameTrades(m, JoinQueue(m, b, l, units, q).mem)
        BY <1>0, <3>2, JoinFields
    <3>4. SameTrades(m, res.mem)
        BY <2>2, <3>1, <3>3
    <3> QED
        BY <3>4 DEF SameTrades, TakenBy
  <2>3. CASE /\ draw[1] \in Suffixes
             /\ res = Allocate(m, 0, b, l, units, ActiveId(m, l, units, draw[1]))
    <3>1. PICK t \in TradeIds : t = ActiveId(m, l, units, draw[1])
        BY <2>3, ActiveIdTyped
    <3>2. PICK n : n = Allocate(m, 0, b, l, units, t).mem
        OBVIOUS
    <3>3. Allocates(m, n, 0, b, l, units, t)
        BY <1>0, <2>1, <3>2, AllocateFields
    <3>4. PICK y : y = Awaiting(b, units, 0 + PaymentTimeout)
        OBVIOUS
    <3>5. y \in SharedTrade /\ y.life = "AWAITING_PAYMENT"
        BY <3>4, TimeoutAssumption, AwaitingTyped
    <3>6. y.buyer = b /\ y.pay = "UNPAID"
        BY <3>4 DEF Awaiting, OpenTrade
    <3>7. n.trades = [m.trades EXCEPT ![t] = y]
        BY <3>3, <3>4 DEF Allocates
    <3>8. res.mem = n /\ res.ok
        BY <2>3, <3>1, <3>2 DEF Allocate, Result
    <3> QED
        BY <3>5, <3>6, <3>7, <3>8 DEF TakenBy
  <2> QED
    BY <2>1, <2>2, <2>3
<1> QED
    BY <1>2, <1>3
=============================================================================
