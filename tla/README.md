# PeerNotary: specification, model checking and proofs

PeerNotary settles peer-to-peer sales of USDC. A seller locks USDC in an escrow
contract; a buyer pays the seller's fiat price through a hosted checkout of a
payment provider; a Rust service verifies the payment, pays the seller out and
has the escrow released; a Next.js frontend holds a second copy of the trade
life cycle and the oracle that talks to the chain; TLSNotary proofs are a second
way to show that a payment was made.

This directory models the parts where money or an identity can be lost: the Rust
service's settlement of trades, its seller listings with their queue of buyers
and the row guards its handlers block on; the frontend's trade store with the
database behind it; the escrow contract, the oracle and the pages that drive a
trade to its end; and the wallet sessions of the frontend, in the server and in
the browser.

    tlc   -workers 2 -config MCTrade_safety.cfg MCTrade
    tlc   -workers 2 -config MCEscrow_settle.cfg MCEscrow
    for m in SettlementProofs SumProofs QueueProofs WalletProofs \
             StoreFacts StoreProofs EscrowFacts EscrowProofs; do tlapm $m.tla; done

## 1. Inventory

Paths are relative to the repository. `payments_api.rs`, `state.rs`,
`lifecycle.rs`, `flutterwave.rs`, `main.rs`, `api.rs` are in `rust/src/`.

| Component | State | Operations | What makes it correct | Modelled |
|---|---|---|---|---|
| Trade lifecycle and settlement (`payments_api.rs`, `lifecycle.rs`) | trades, payment attempts, active checkouts, consumed transaction ids, webhook inbox | register, init checkout, webhook, verify, payout (initiate, confirm, hold), refund (request, complete), release (request, confirm, hold), expire | payment precedes payout precedes release; payout and refund exclude each other; no verified payment is dropped; a transaction pays one trade; abandoned trades end | `TradeLifecycle` |
| Seller listings and queue (`payments_api.rs`, `state.rs`) | listing buckets, active slot, queue entries | create, request, cancel, activate, reconcile on resolution | one active slot; buckets add up to the deposit; reservations are backed; first come first served | `ListingQueue` |
| Row locking (`AppState` of DashMaps) | guards held by handlers | take and drop guards | no cycle of waiting handlers | `LockOrder` |
| Provider client (`flutterwave.rs`) | none | verify, evaluate, check signature | exact amount, own reference, in time | as decisions inside `TradeLifecycle` |
| Outbox and reconciliation worker (`main.rs`) | outbox jobs | enqueue with deduplication, expiry pass, job processing | every abandoned trade is reached; every job is executed | expiry half |
| Trust and risk policy (`lifecycle.rs`) | trust profiles, risk events | charge an expiration, credit a completion, eligibility, tiers | charged once and not when exempt; limits on concurrent unpaid trades | charging only |
| Frontend trade store (`frontend/lib/trades/tradeStore.ts`, its routes) | a dozen Maps: trades, listings, queue, attempts, consumed ids, trust | publish, take, queue, activate, check out, record a payment, pay out, refund, release, expire, cancel, hydrate | units are conserved; the queue's reservations and the slot's allocation match; one checkout per trade; a transaction pays once; an expiry is charged once | `StoreHandlers`, `StoreSettlement`, `TradeStore` |
| Database schema (`supabase/migrations`) | rows of trades, listings, profiles, sessions, nonces | transition trigger, CHECKs, unique and foreign keys | refused updates do not corrupt what reads them back | inside `TradeStore` and `WalletServer` |
| Escrow contract (`frontend/contracts/ArcP2PEscrowService.sol`) | trades, listing inventories, used proofs, balance | initiate, fund, allocate, withdraw, mark sent, release, oracle release, dispute, resolve, reclaim | it holds what it owes | `EscrowContract` |
| Oracle and TLSN routes (`frontend/lib/oracle/escrow.ts`, `frontend/app/api/tlsn`, the lifecycle route) | TLSN sessions; handlers between awaits | settle, release, transfer, create and execute a proof, webhook | one payment per trade; no USDC before fiat; completed means paid | `EscrowSettlement` |
| User interface (`TradingWidget.tsx`, `bank-checkout/page.tsx`, `UserDashboard.tsx`, `useEscrow.ts`, `GlobalNav.tsx`) | pages at work | order, pay, finalize, release, prove; connect, sign in, sign out, rename | goes on only after what succeeded; shows the session of the connected wallet | `EscrowSettlement`, `WalletBrowser`; presentation is not |
| Wallet sessions (`frontend/lib/auth/wallet.ts`, `frontend/lib/supabase/client.ts`) | users, sessions, names, nonces; the cookie and cached session | challenge, sign in, resolve a profile, restore a session, log out, claim a name | a nonce opens one session; a wallet keeps its profile; names differ | `WalletServer`, `WalletBrowser` |
| Proof sessions of the Rust service (`api.rs`) | sessions, presentation digests, payment references | create, submit, evaluate | a proof or reference releases one trade | no |
| Wallet authentication of the Rust service (`wallet_auth.rs`) | challenges, sessions, usernames | challenge, verify, revoke, claim a name | as for the frontend | no |
| Configuration, domain policy | none that is shared | | | no |

**How they interact.** HTTP handlers of the Rust service run concurrently on the
threads of tokio and share `AppState`, a record of DashMaps. There is no
transaction: a handler takes the guard of one row (or two), changes it, drops
it, and goes on to the next table, sometimes with an await in between. The
provider calls back with webhooks, in any order and any number of times; callers
can also ask for verification of a transaction at any moment. `main.rs` runs
`run_reconciliation_pass` in a ticker loop. Whatever resolves a trade then calls
`reconcile_seller_listing_on_trade_resolution`, which frees the listing's slot
and promotes the next buyer.

The frontend is a second, independent implementation. Its store is the memory of
one Node process; a store function runs to its end without an await, so handlers
interleave only at the awaits of the routes around it: before the chain, the
provider and the database answer. Rows are copied to the database without
waiting, and dashboard requests read them back over the memory. Pages in the
browsers of buyer and seller make one call after another, to the contract and to
the routes, and mostly go on when a call is refused. The oracle, called by the
lifecycle route and by the TLSN webhook, settles on the chain or transfers its
own USDC. Anyone can call the contract directly.

**What is hard.** (1) Handlers that interleave between a read of one table and a
write of another; (2) webhooks that are late, repeated, reordered or lost, and
provider calls that time out; (3) the deadline, which races the payment; (4) the
two-table updates of listing and queue; (5) guards that block threads; (6) USDC
that several handlers may send, in two ways each, with answers that get lost;
(7) memory, database and chain that disagree about a trade, and a restart that
forgets one of them; (8) requests that are answered after the user has moved on. The
hazards, each at its line, are listed in `PROJECT.json`.

## 2. Modules

| Module | Contents |
|---|---|
| `TradeLifecycle` | the settlement of trades: variables, actions, `Spec` |
| `SettlementPromise` | the abstract specification: custody, payment, payout, refund |
| `TradeProperties` | invariants, action properties, refinement mapping, fairness, liveness |
| `MCTrade` | symmetry for the runs of the above |
| `SettlementProofs` | theorems about `TradeLifecycle`, with the refinement of `SettlementPromise` |
| `ListingQueue` | one listing, its inventory, active slot and queue |
| `QueueProperties`, `MCQueue` | what it is checked for |
| `SumProofs` | lemmas on sums over finite sets, for the proofs that count units |
| `QueueProofs` | theorems about `ListingQueue` |
| `LockOrder`, `MCLocks` | the order in which handlers take row guards |
| `StoreHandlers` | the frontend store's data and its functions on listings and queue, as operators on its memory |
| `StoreSettlement` | its functions on one trade; EXTENDS `StoreHandlers` |
| `TradeStore` | the store at work: routes, database, provider, restart; EXTENDS `StoreSettlement` |
| `StoreProperties`, `MCStore` | what the store is checked for |
| `StoreFacts` | what each store function does to the rows, whoever calls it |
| `StoreProofs` | theorems about `TradeStore` |
| `EscrowContract` | the contract's calls, as operators on its state |
| `EscrowSettlement` | composition of `StoreSettlement` and `EscrowContract` with pages, oracle and TLSN routes |
| `EscrowProperties`, `MCEscrow` | what settlement is checked for |
| `EscrowFacts` | what each call of the contract and of the store does to a sale, whoever makes it |
| `EscrowProofs` | theorems about `EscrowSettlement` |
| `WalletServer` | wallet sessions on the server |
| `WalletBrowser` | composition with the browser: cookie, page, requests in flight |
| `WalletProperties`, `MCWallet` | what wallet sessions are checked for |
| `WalletProofs` | theorems about `WalletBrowser` |

### TradeLifecycle and the code

A handler that holds the guard of a row from its first read to its last write is
**one action**. It is split where the code lets others in: at an await, and where
one table is released before another is taken.

| Handler | Actions |
|---|---|
| `create_or_register_trade` | `RegisterCheck` (lookup), `RegisterInsert(t, "direct")` |
| `request_listing_order`, free slot | `OrderAllocate` (listing), `RegisterInsert(t, "listed")` (trade) |
| `init_flutterwave_checkout` | `InitCheckout` up to the provider call; `CheckoutReady`, `CheckoutRefused` or `CheckoutTimeout` after it |
| `handle_flutterwave_webhook` | `WebhookCheck` (inbox lookup), `WebhookInsert`, `ReplayCheck`, then `ApplyPayment` or `ApplyNothing` |
| `verify_flutterwave_payment` | `VerifyFetch` (the provider's answer, taken now) or `VerifyUnavailable`, `ReplayCheck`, `ApplyPayment` or `ApplyNothing` |
| `process_seller_payout` | `InitiatePayout`, `ConfirmPayout`, `HoldPayout` |
| `process_trade_refund` | `RequestRefund`, `CompleteRefund`, `RefundTail` |
| `process_escrow_release` | `RequestRelease`, `ConfirmRelease`, `HoldRelease`, `CompleteTail` |
| `run_reconciliation_pass` | `ExpireTrade` per trade, `ExpireTail` |

`LegalMoves` is `TradeLifecycleState::can_transition_to`; `Transition` is
`TradeRecord::transition`. Two handlers assign `lifecycle_state` without it, and
so does the model: the late arm of `apply_verified_payment_to_trade`, and the
confirmation of a payout from `PAYMENT_CONFIRMED`, which passes through
`SELLER_PAYOUT_PENDING` in one go.

Abstractions: the clock of a trade is its position against
`payment_deadline_at`, the only comparison the code makes; an amount is exact,
under or over; amounts, addresses, proof ids, names and messages are left out.
`seller_payouts`, `refunds`, `escrow_operations` and `audit_events` are written
and never read by a guard of these handlers, and are left out. The version of a
trade is compared with the version just read under the same guard and cannot
differ. An attempt's `expires_at` is its trade's deadline as long as ids are not
reused. `listing` holds only where the units of a trade are; the steps of the
listing's own update are those of `ListingQueue`, and `ExpireTail` and
`CompleteTail` take them together with the trust update that follows.

The environment is the provider (`PayStart`, `PaySettle`, and whichever event
`WebhookCheck` picks) and time (`Tick`). An event may be delivered again, late
or never: nothing forces `WebhookCheck`, and two handlers may be at it.

`ReuseIds` says whether a caller may register an id that is in use. On-chain
trade ids are fresh, so the runs take FALSE; nothing in the service enforces it
for listing orders, so the theorems that hold with reused ids too are proved for
both, and the others say that they need FALSE.

### ListingQueue and the code

One action per stretch under a guard, so that every handler can be overtaken
between two of its tables. A pass over a table (`iter().filter().collect()`) is
one action: the rows it collects are those of one moment.

| Handler | Actions |
|---|---|
| `create_seller_listing` | `CreateCheck`, `CreateInsert` |
| `request_listing_order` | `RequestSlot`, `InsertTrade`, `InsertActive`; or `RequestPlace`, `CountWaiting`, `InsertQueued` |
| `cancel_queued_order` | `CancelEntry`, `RestoreUnits`, `CollectWaiting`, `Renumber` per row, `CancelDone` |
| `activate_eligible_queue_entry` | `Activate` (both guards are held), `InsertActivated` |
| `reconcile_seller_listing_on_trade_resolution` | `FindListing`, `UpdateListing`, `MarkEntry`, `ScanQueue`, `Promote` |

`Resolve` stands for the handlers of `TradeLifecycle` that end a trade.
`has_active_slot` looks at a lease that is set and cleared together with
`active_trade_id`, which alone decides. Child trade ids are fresh. `overwrote` is a
history variable: no action reads it.

### LockOrder and the code

For each handler that holds a guard while it takes another, its guards in order,
as Rust lifetimes end them. A guard is granted when nobody holds one that
excludes it. Other tables' guards are dropped before the next is taken and
cannot be part of a cycle.

### The store modules and the code

A function of `tradeStore.ts` is synchronous, so it is an **operator** from the
memory before it to a result: the memory after it, the rows it handed to the
database, and whether it threw. One that throws half-way keeps what it changed,
as the code does. `TradeStore` and `EscrowSettlement` both use these operators;
their actions are the stretches of route handlers between two awaits.

| Code | Operators and actions |
|---|---|
| `createPeerOffer`, `takePeerOffer` | `CreatePeerOffer`, `TakePeerOffer` (`JoinQueue`, `Allocate`) in `CreateOffer`, `TakeOffer` |
| `cancelBuyerQueueEntry`, `activateBuyerQueueEntry` | `CancelQueueEntry`, `ActivateQueueEntry` |
| `releaseSellerSlotAndAdvanceQueue`, `recalculateTrustSummary` | `ReleaseSlot`; `TrustScore`, `Tier`, `MaxTradeUnits`, `MaxConcurrent` |
| `createOrReuseCheckoutAttempt` | `Checkout` in `StartCheckout` |
| `recordVerifiedFlutterwavePayment` | `RecordPayment` in `Webhook`, `VerifyReported`, `VerifyAssumed` |
| `transitionSellerPayoutState`, `transitionTradeRefundState`, `transitionEscrowReleaseState`, `completePeerTrade` | `PayoutStep`, `RefundRequest`, `RefundComplete`, `RequestRelease`, `ConfirmRelease`, `HoldRelease`, `CompletePeerTrade` |
| `reconcileExpiredTrades`, `cancelPeerTradeUser` | `ReconcileExpired`, `CancelTrade` |
| `hydrateListingsFromSupabase`, `hydrateUserTradesFromSupabase`, `getOrHydrateSharedTrade` | `HydrateListings`, `HydrateTrades`, `LoadTrade` |
| `escrow_confirm_on_chain` of the lifecycle route | `OracleSettles`, then `ConfirmSettled`; `ConfirmSettled` alone when the oracle failed or a hash came with the request |
| `enforce_trade_invariants`, `seller_listings_inventory_conservation_chk` | `TradeAccepted`, `ListingAccepted` |

Ledgers, display fields and audit lists are projections of what is kept. Amounts
paid are exact, under, over or in another currency; scores and limits are
computed as the code computes them. Counters of the trust summary stop at
`MaxCount`. `mem.ghost` is history for the properties: `created` are the listings
this process published and has not overwritten since, `own` the trades it opened
under an id that no attempt names, `read` the trades that were read back from the
database, `released` and `charged` how often a trade gave its units back and was
held against its buyer. A child's id ends in a number drawn from the clock, which
may be drawn again; such a draw counts as one of the `MaxEvents`.

### The settlement modules and the code

A call of the contract is a predicate, whether it does not revert, and an
operator, the state it leaves. A **flow** of `EscrowSettlement` is a handler at
work, in a page or in the server, and its `step` the call it makes next: every
`await` is a step of its own, and any number of other flows may run in between.

| Code | Actions |
|---|---|
| order from the trading page, `fundBuyerCollateral` of `useEscrow.ts` | `PlaceOrder`, `SimulateLock`, `LockMined`, `TakeOrder` |
| "I Have Paid", the settlement pipeline of `bank-checkout/page.tsx` | `ClickPaid`, `OpenCheckout`, `VerifyPaid`, `ClickFinalize`, `AskStore` (payout and release steps), `CallContract` |
| "Release Escrow" of page and dashboard | `ClickRelease`, `CallContract` |
| `oracleSettleToBuyer`, `oracleRelease` | `Settle`, `OracleLocks`, `OracleSubmits`, `OracleMined`, `Transfer`, `Answer` |
| TLSN verify route and webhook | `ClickProve`, `CreateSession`, `ExecuteProof`, `HookAccepts`, `HookRejects` |
| everything else that may touch the trade | `Interfere`, `CheckChain`, `ClosePage`, `CallDirectly`, `ResolveDispute`, `ReclaimExpired` |

All parts of a listing are settled under the listing's own number on the chain:
`ChainId` is the only one the pages, the oracle and the dashboard look at.
`past` records what happened on the way; no action reads it. Signatures, gas,
fees (they leave with the amount) and the evidence inside proofs are left out;
what a verifier answers is nondeterministic.

### The wallet modules and the code

A request is a record that moves from await to await through
`resolveOrCreateSupabaseUser` (`ReadAccount`, `ReadProfile`, `PutProfile`,
`PutAccount`), `getAuthenticatedSessionAndUser` (`ReadSession`, `LookUpSession`,
`RestoreSession`, `OpenSession`), `createWalletChallenge`, `signInWallet`,
`setWalletUsername` and `logoutWallet`. User objects are shared by reference in
the code: `held` says whether a request still holds the object of the directory.
`WalletBrowser` sends the cookie of the moment and applies each answer's cookie
first and its continuation after, whatever the user has done since.

## 3. What is checked

Passing runs, with the time of two workers:

| Run | Instance | Question |
|---|---|---|
| `trade_safety` (100 s) | 1 trade, 2 attempts, 2 transactions, 1 handler | Does any order of checkouts, webhooks, verifications, expiry and route calls break `Linked`, `PaidBeforeSettlement`, `PayoutOrRefund`, `NoPaymentDropped`, `InventoryFollowsTrade`, `ChargedOnce`, `SettledStays`, or the refinement `KeepsPromise`? |
| `trade_overlap` (2 min) | 1 trade, 1 attempt, 2 transactions, 2 handlers, under- and exact payments | The same for handlers that overlap: two deliveries of one event, a webhook and a verification, two transactions past the replay lookup. |
| `trade_replay` (35 s) | 2 trades, 2 attempts, 1 transaction, exact or over | Can a transaction pay a trade it was not made for, or pay twice? Does an overpayment pay? |
| `trade_liveness` (35 s) | 1 trade, 2 attempts, 1 transaction, provider outages | Does an abandoned trade end, and does a resolved trade free its slot? |
| `queue_safety` (54 s) | 3 entries, 3 trades, 3 units, 1 creator | `OneActiveSlot`, `InventoryExact`, `ReservationBacked`, `EntriesStayClosed` with every handler interleaved |
| `store_trade` (95 s) | 1 buyer, 1 listing, 1 child, 2 attempts, 1 charge, exact payment, 2 ticks, 1 event | Can a trade have two open checkouts, a transaction pay two trades, or an expiry be charged twice, with webhooks, verifications and the expiry pass in any order and one of: restart, dashboard read, assumed payment, hold, oracle request, id drawn again? |
| `store_queue` (40 s) | 3 buyers, 1 listing, 2 children, 2 queue entries, 1 event | `UnitsConserved`, `ReservedBacksQueue`, `AllocatedBacksSlot` under orders, queueing, activation, refunds, cancellation and completion in any order |
| `wallet` (71 s) | 2 wallets, 2 requests in flight of 3, 1 name, 1 nonce, 2 faults, 1 restart | Who is signed in as whom: `NonceOpensOneSession`, `AccountKeepsProfile`, `SessionNamesProfile`, `NamesDiffer`, `ShownIsConnected` |
| `settle` (75 s) | 1 listing, 2 buyers, 2 contract numbers, 3 handlers, exact or short payment, 1 event | `EscrowSolvent`, `FiatBeforeUsdc`, `PaidOnce`, `CompletedPaid` with pages, oracle, webhook and contract interleaved |

Runs that exhibit a disagreement of the code with its documentation:

| Run | Property | What TLC shows |
|---|---|---|
| `trade_stuck` | `ConfirmedTradeMoves` | The event of a failed first payment, applied after the successful one, overwrites `payment_state`; the confirmed trade can never start its payout, under the kindest provider and callers (`DiligentSpec`). |
| `lock_order` | `PassCompletes` | The pass holds a trade and waits for its attempt, a verification holds the attempt and waits for the trade. |
| `store_gate` | `ReleaseGated` | `escrow_confirm_on_chain` lets the oracle pay before the store is asked; the store's gate speaks when the USDC has left. |

**Promises with circumstances.** Several properties of the frontend hold only
while nothing happened that is known to break them. Each names its
circumstances, which the model records as they happen, so that the property
still covers every other behaviour, and each circumstance is a weakness of the
code that TLC exhibits as soon as the condition is dropped:

| Property | Holds unless | Because |
|---|---|---|
| `PaidOnce` | `lost`, `unread` | the oracle answers a lost receipt or a failed read with a transfer of its own |
| | `overlap` | two handlers are between reading the trade and paying |
| | `reclaimed`, `direct` | the chain says the trade is over, or somebody outside the program paid |
| `CompletedPaid` | `forged`, `proof` | a failed transfer gets a made-up hash; a TLSN proof completes the trade in the store only |
| | `selflock` | the oracle funds an unlocked listing as its own buyer and releases to itself |
| | `contended`, `direct` | the chain's buyer is not the store's: a failed simulation was taken for a call not needed |
| | `again` | the listing is sold a second time, or another part of it, and the chain's one record of it is completed already |
| `FiatBeforeUsdc` | `direct` | the seller may release at will |
| | `mistaken` | the dashboard completes the listing's own trade, unpaid, when a part of it was completed on the chain; the oracle then pays for a completed trade |
| `EscrowSolvent` | `reopened` | a parent allocated to its last unit reads as Funded by nobody since time 0, and can be reclaimed |
| `NonceOpensOneSession` | `restart` | the update that marks a nonce's row names a column the table does not have |
| `AccountKeepsProfile` | `restart` with `read` or `write` | a failed read is taken for an empty table |
| `SessionNamesProfile` | `write`, or `restart` with `read` | the same, and lost writes are not noticed |
| `NamesDiffer` | `overlap`, `restart`, `released` | the name is looked up before an await and taken after it; the directory is memory; a wallet that gave its name up gets it back from a row another request had read |
| `ShownIsConnected` | `switch` | the answer for a former wallet marks the new one as signed in |
| properties of the store | rows read back (not in `created`, `own`) | hydration replaces memory by older rows, without slot, attempt or transaction |
| `AllocatedBacksSlot` | `read`, `released` twice | a trade read back has lost its slot or gives units back the listing no longer has; a payment revives a cancelled trade, whose units are then given back again |

**Known disagreements without a run.** Met while modelling, recorded as hazards
and not kept as runs: a late payment that is not exact leaves a cancelled trade
(`README.md` of the repository, line 248); the pass charges a buyer whose payment was submitted in
time (line 299); queue positions are renumbered by cancellations only, so a
later buyer can be promoted first (lines 286 and 288); a promotion overwrites an
entry that was activated between its scan and its write; `consent_deadline_at` is
set and never enforced. In the frontend: the dashboard sends `cancel_trade` and
the trading page `hold_payout`, which the lifecycle route does not accept; a
cancelled parent with units left goes on selling; `hold_revert` is accepted in
every state, where line 233 speaks of a release that failed; a trade whose
payment was refused (`FAILED`) or held awaits payment and no longer counts
against the buyer's limit on obligations; the dashboard maps status 5
of a trade on chain to disputed where the contract numbers Disputed 4;
`verifyFlutterwaveTransactionServerSide` falls through to a simulated
confirmation also with a live key; a listing locked on the chain whose order the
store then refuses stays locked.

**Bounds.** For the Rust service, `Trades`, `Attempts`, `TxIds`, `Workers`,
`Entries`, `Creators`, `Units` and `Total` are the only bounds; no counter is cut
off, for each one is limited by the rows there are. Handlers of different trades share only
`consumed_flw_tx_ids`, so one trade is enough but for replay, which has two. Two
attempts and two transactions are what it takes for a second checkout, a retry
after a failure and a webhook of the first payment after the second. Two
handlers are what it takes for a lookup that is stale when it is used. Three
queue entries are a slot holder, a first and a second in line, each of which may
cancel, activate or be promoted while the others do. A
larger instance of the queue (units 1 and 2 of 4) passes too; it is not kept as
a run because it asks nothing new. Symmetry is used only where no liveness is
checked. No deadlock is expected to be absent: when all trades are settled and
ids are used up, the model stops, as the comment in each configuration says.

The frontend's models are bounded by what may happen to them: `MaxEvents` counts
restarts, dashboard reads, assumed payments, lost answers, closed pages, direct
calls, calls that no state refuses and ids drawn again, and `MaxFaults`, `MaxRestarts` and
`MaxOps` the disturbances and requests of a browser. One event at any moment of
an otherwise complete behaviour is what each circumstance in the table above
takes (a reclaim counts as one, but is free after another direct call);
`wallet` allows a restart besides two faults, as the worst cases are of both.
Three handlers are a page that orders, one that pays and one that settles again.
`store_queue` lets orders take part of the listing, so that a slot, a queue and
free units exist at once; the trust limits of every tier a bounded history can
reach are those of the code.

**Fairness** (`Fairness` in `TradeProperties`). Time passes. The ticker loop of
`main.rs` runs the pass again and again, so a trade that stays expirable is
expired, and a handler that started comes to its end: weak fairness of `Tick`,
`ExpireTrade`, the tails and the handler steps after the first. Buyers, sellers
and the provider owe nothing. That the pass itself ends is an assumption here,
and `lock_order` shows the code does not always earn it. The frontend's modules
state no fairness: nothing there runs by itself but the expiry pass, which
requests trigger, so the code justifies none. `LockOrder` has strong
fairness of `Advance`, since a DashMap lock wakes its waiters, so that what
blocks there is a cycle and not starvation. `DiligentSpec` adds fairness of
provider and callers only to make a violation stronger.

Every property of a passing run is broken by a mutant of the code's definitions
(marked "Mutant" in the modules).

## 4. What is proved

`tlapm` proves every invariant and every safety property of an action that a
passing run checks, for every value of the constants that meets the assumptions
below. Each
argument has the same form: an inductive invariant, one lemma per action that
shows it is kept, and `PTL` to put them together. What the attempts found wrong in
the model is listed at the end of this section.

### The Rust service: `SettlementProofs`

| Theorem | Statement | Argument |
|---|---|---|
| `TypeCorrect`, `ReferencesHold` | `[](TypeOK /\ Linked)` | inductive together: the row a handler writes back to is the row its attempt names |
| `SettlementExclusive` | `[]PayoutOrRefund` | inductive over each trade row by itself: every action leaves a row alone or replaces it by a settled one |
| `PaymentPrecedesSettlement` | `[]PaidBeforeSettlement` | with `TypeOK` and `Linked`: what is paid stays paid because attempts, transactions and consumed ids only grow, and only `ApplyPayment` enters a state after payment from one before it, consuming the payment it needs |
| `ReplayRejected` | `ConsumedOnce` | the two places that write `consumed` require the reference of the transaction and the trade of the attempt to agree |
| `PaymentKept` | `[]NoPaymentDropped` | |
| `InventoryKept` | `[]InventoryFollowsTrade` | |
| `TrustChargedOnce` | `[]ChargedOnce` | |
| `SettledForGood` | `SettledStays` | |
| `SettlementPromiseKept` | `KeepsPromise`, the refinement of `SettlementPromise` | every action is a step of the promise or a stutter, by what it does to one row |

The last five assume `ReuseIds = FALSE`, as the runs do: on-chain ids are fresh.
They follow from `FreshInv` (`FreshIds`), which adds to the above that a handler
about to register a trade has an id nobody used yet, that an attempt's trade was
registered, that the listing, the strikes and the credits of a trade agree with
how far its resolution has got (`Resolved`), and that a cancelled trade that was
paid is refunded (`CancelledOwed`). With reused ids a second registration overwrites
the row of a trade under settlement and none of the five is true.

### Listings and queue: `QueueProofs`

| Theorem | Statement | Hypotheses |
|---|---|---|
| `QueueTypeCorrect` | `[](TypeOK /\ PromotesExisting)` | none |
| `InventoryConserved` | from its creation on, the four buckets of a listing add up to the deposit | none |
| `OneBuyerAtATime` | `[]OneActiveSlot` | `OneCreator`, `~LateRefunds` |
| `InventoryNeverOversold` | `[]InventoryExact`: also, what is filled is the sum of the completed trades | `OneCreator`, `~LateRefunds` |
| `EntriesClosedForGood` | `EntriesStayClosed` | `OneCreator`, `~LateRefunds` |
| `ReservationsHeld` | `[]ReservationBacked` | `OneCreator` |

`SlotInv` carries the second half: a reconciliation is of a trade that stays
resolved, so the slot it found is still that trade's when it is cleared
(`ResolvedStays`), and a request that is to insert its trade has named one of its
own (`RequestsPending`). Sums over sets of rows are handled by `SumProofs`: that a
sum exists, is a natural number and changes by one term when one row changes is
shown for a recursive function without an induction rule, by taking a smallest
set it fails for. With two overlapping creations, or a second resolution of a
trade, the code does not keep what needs the hypotheses.

### Wallet sessions: `WalletProofs`

| Theorem | Statement | Inductive invariant |
|---|---|---|
| `WalletTypeCorrect` | `[]TypeOK` | `Typed`: where a request is says which of its parts are set, and which rows exist |
| `ChallengeOpensOneSession` | `[]NonceOpensOneSession` | `NoncesInv`: until a restart a nonce is asked of memory only, and one that opened a session is marked there |
| `ShownWalletConnected` | `[]ShownIsConnected` | `TokensInv`, `PageInv`: a token is of one wallet; a request under way is of the wallet that is connected |
| `SessionsNameProfile` | `[]SessionNamesProfile` | `CalmInv`: as long as writes arrive and no restart meets a failed read, memory, tables, sessions and requests agree on a wallet's profile |
| `AccountKept` | `AccountKeepsProfile` | `OneIdInv`, `CalmInv` |
| `NamesStayApart` | `[]NamesDiffer` | `NamesInv`: the directory sends every name somebody has, or is about to have, to him |

### The trade store: `StoreFacts`, `StoreProofs`

| Theorem | Statement | Argument |
|---|---|---|
| `StoreTypeCorrect` | `[]TypeOK` | `StoreInv`: memory and tables keep their shape, reading back included |
| `OneCheckoutOpen` | `[]OneOpenCheckout` | a trade's row names its open attempt, if it has one |
| `TransactionsPayOnce` | `[]TransactionPaysOnce` | `consumed` leads from a transaction to the one trade that has it |
| `ExpiryChargedOnce` | `[]ChargedOnce` | a trade is charged when it leaves its wait for a payment, to which it does not return |
| `UnitsNeverLost` | `[]UnitsConserved` | `Stocked`, below |
| `ReservationsBacked` | `[]ReservedBacksQueue` | the reserved bucket is a sum over the entries that wait; joining, leaving and being served change one term of it |
| `SlotsBacked` | `[]AllocatedBacksSlot` | below |

`StoreFacts` says of each function of the store what it does to the rows, whoever
calls it; `StoreProofs` and `EscrowFacts` cite it. `StoreInv` is
`Sound /\ DbTyped /\ Counters`, where `Sound` (typed rows, consumed transactions,
open attempts) is what every function keeps. `StockInv` adds `Stocked`: the
listings this process published are `Counted` (buckets, reservations), a child is
of a listing that exists and its id begins with the listing's (`Family`), and the
listing is `Berthed`. The last is what makes `AllocatedBacksSlot` inductive: a
child holds the slot until it gave its units back, and only the trade named like
the listing is as large as the deposit. So if the trade of the slot gives its
units back for a second time, either it is a child, and it is no longer intact,
or it is the listing's own and the units it would take are not in the bucket,
which holds the smaller ones of a child.

### The contract and its callers: `EscrowFacts`, `EscrowProofs`

| Theorem | Statement | Inductive invariant |
|---|---|---|
| `EscrowTypeCorrect` | `[]TypeOK` | `Shape`: the store is `Sound`, the contract keeps its `Ledger`, and the step a handler is at says what it knows |
| `EscrowStaysSolvent` | `[]EscrowSolvent` | `Shape` |
| `PriceBeforeRelease` | `[]FiatBeforeUsdc` | `Priced`: a confirmed row, and a handler past verification, is of a trade whose price was paid |
| `BuyerPaidOnce` | `[]PaidOnce` | `Once`: one handler settles at a time, and the contract has the whole deposit until it is completed and nobody is paid |
| `CompletedArePaid` | `[]CompletedPaid` | `Delivered`: one trade is sold, the chain's buyer is the store's or nobody, and whatever settles has been paid or will pay that buyer |

`Ledger` is `Books /\ Solvent`. Solvency alone is not inductive, as a release
pays out of a balance that other orders share: `Books` says, number by number,
that an active listing's available and allocated units are within its amount,
that the allocated ones are exactly those of the order in its slot, and that every live order that
is part of a listing is in that listing's slot. Each of the contract's calls keeps
`Ledger` in any state, after any other calls, but the one reclaim that reopens a
listing nobody locked. The others hold, like the properties they are for, in the
behaviours without the circumstances of section 3, and each invariant is stated
as such an implication: a step that adds a circumstance has nothing to show.
`EscrowProofs` covers the calls of the model: buyers and the seller mark, release,
dispute, allocate and withdraw directly, the oracle resolves and anyone reclaims;
one listing is published, and no program of the repository passes a collateral.
Time stands still in `EscrowSettlement`: with timeouts of 0 every dispute,
reclaim and release is in time, with larger ones no reclaim is.

### Assumptions

Those named in the modules, which TLC evaluates in the runs. Absent values and
the zero address are not rows, ids or users (`AbsentAssumption`,
`NoRowAssumption`, `NullAssumption`, `AddressAssumption`); amounts, events,
statuses and switches are of the known kinds (`AmountsAssumption`,
`EventsAssumption`, `SwitchesAssumption`, `LateRefundsAssumption`,
`ReportedAssumption`, `RequestsAssumption`, `OrdersAssumption`,
`BackingAssumption`); deposit, units and timeouts are natural numbers, positive
where the code checks it (`DepositAssumption`, `UnitsAssumption`,
`TimeoutAssumption`, `CountAssumption`, `ContractAssumption`); a child's id is
not a listing's (`IdsAssumption`); the ids a process draws are finitely many
(`FiniteAssumption`), since units are sums over them; the bounds of section 3 are
natural numbers (`BoundsAssumption`, `WalletBounds`, `FlowAssumption`); and
`EscrowSettlement` has one listing, which has a number on the chain
(`FlowAssumption`, `ListedAssumption`). The bounds are no part of any argument:
the theorems hold however large they are.

### What the proofs corrected

Attempts that failed for a good reason:

* A wallet that gave up its name gets it back from a row that another request had
  read before (`released` in `NamesDiffer`).
* A listing, or a second part of it, sold again is settled under the same number
  on the chain, which may be completed already (`again` in `CompletedPaid`); the
  dashboard completes the listing's own trade, unpaid, when the chain completed a
  part (`mistaken` in `FiatBeforeUsdc`).
* A child's number may be drawn again while an attempt names the old trade, so
  `own` excludes such trades; a trade that was read back may give back units its
  listing no longer has, so `AllocatedBacksSlot` excludes those listings.

### Only model-checked

Liveness (`AbandonedTradeEnds`, `SlotIsFreed`), because the prover does not
handle fairness and `ENABLED`; the three runs that expect a violation, and
`LockOrder`, which is there for one of them.


## 5. What is not modelled, and why

* Creation of the provider's request, signatures, parsing, currency conversion:
  sequential code without shared state; modelled by what it decides.
* Optional checks of the release route that a deployment may switch on, contract
  addresses and proof ids: taken as satisfied.
* `LateRefunds = TRUE` in `ListingQueue` (an expired trade reopened by a late
  payment and refunded resolves twice) is not in a run: TLC finds that the second
  resolution can clear the slot of the next buyer, between two lines of the
  first. It is recorded as a hazard.
* Two overlapping creations of one listing replace its row; the run has one
  creator.
* Of the frontend's rows, those that are late, lost or reordered on their way to
  the database: a row the tables accept is there at once. What a stale row does
  is seen by hydration after a refused one.
* Rate limits, expiry of sessions and onboarding of wallets; the owner's setters
  and the split of fees in the contract.
* Proof sessions, wallet authentication, trust limits and the processing of
  outbox jobs in the Rust service: nothing that settles a trade reads the first
  and the last, and the frontend's versions of the other two are modelled.
* More than one listing in `EscrowSettlement`: listings share nothing but the
  numbering and the balance. The theorems about the store are for any listings.
* In `EscrowSettlement`, ids of children that are drawn again, deadlines and
  late payments: those are `TradeStore`'s subject.
* Presentation in the user interface, and the configuration, which keeps no
  shared state.

## 6. Plan

Done, in the order of importance: `TradeLifecycle` with its abstraction;
`ListingQueue`; `LockOrder`; the frontend store; contract, oracle and pages
composed; wallet sessions; and the proofs of all their safety properties. What is
left open:

1. The contract alone, with several listings, `initiateTrade` by anyone and
   collateral: `Books` is stated number by number and should carry over; the
   reclaim of a listing with collateral reverts and needs a case of its own.
2. `ListingQueue` with `LateRefunds = TRUE`: what still holds when a trade is
   resolved twice.
3. Rows that are late or reordered on their way to the database, and proof
   sessions of the Rust service, as models of their own.
4. A refinement of `SettlementPromise` by the frontend's store, which would show
   how far the two implementations agree.
