----------------------------- MODULE LockOrder -----------------------------
(***************************************************************************)
(* The row guards that handlers of the Rust service hold while they wait   *)
(* for other guards.  A DashMap guard blocks its thread: a read guard      *)
(* waits for a writer, a write guard for anybody.  The model has one row   *)
(* of each table that is held across another acquisition: a trade, its     *)
(* attempt and its active checkout, a listing and a queue entry of it.     *)
(* Guards of other tables are released before the next is taken, so nobody *)
(* waits for their holder for long, and they are left out.                 *)
(*                                                                         *)
(* The Rust lifetimes decide where a guard ends: at drop(), at the end of  *)
(* its block, or at the end of the if-let whose condition produced it.     *)
(***************************************************************************)
EXTENDS Naturals, Sequences

CONSTANT Threads   \* tokio worker threads that run a handler

Rows == {"trade", "attempt", "checkout", "listing", "entry"}

Read(r) == <<"read", r>>
Write(r) == <<"write", r>>
Release(r) == <<"release", r>>

(* A row that is read or written and released at once.                      *)
Brief(step) == <<step, Release(step[2])>>

(* The lookup of the active attempt through active_trade_checkout.          *)
FindAttempt(step) ==
    <<Read("checkout"), step, Release("attempt"), Release("checkout")>>

(* reconcile_seller_listing_on_trade_resolution.                            *)
FreeSlot ==
    Brief(Read("listing")) \o Brief(Read("trade")) \o Brief(Write("listing"))
        \o Brief(Write("entry")) \o Brief(Read("entry")) \o Brief(Write("entry"))

(* apply_verified_payment_to_trade, after the caller looked the attempt up. *)
ApplyProgram ==
    Brief(Read("attempt"))
        \o <<Write("attempt"), Write("trade"), Release("trade"), Release("attempt")>>

(* init_flutterwave_checkout; the last write follows the provider's answer. *)
CheckoutProgram ==
    <<Write("trade")>> \o FindAttempt(Read("attempt"))
        \o Brief(Write("attempt")) \o Brief(Write("checkout"))
        \o <<Release("trade")>> \o Brief(Write("attempt"))

(* run_reconciliation_pass for a trade that expires.                        *)
PassProgram ==
    Brief(Read("trade"))
        \o <<Write("trade")>> \o FindAttempt(Read("attempt"))
        \o FindAttempt(Write("attempt")) \o <<Release("trade")>> \o FreeSlot

(* process_trade_refund: "request" and "approve_and_complete".              *)
RefundProgram ==
    <<Write("trade")>> \o FindAttempt(Read("attempt")) \o <<Release("trade")>>
SettleProgram == Brief(Write("trade")) \o FreeSlot

(* list_seller_listings keeps the shard of seller_listings it iterates.     *)
ListProgram == <<Read("listing")>> \o Brief(Read("entry")) \o <<Release("listing")>>

(* cancel_queued_order and activate_eligible_queue_entry.                   *)
CancelProgram ==
    Brief(Write("entry")) \o Brief(Write("listing")) \o Brief(Read("entry"))
        \o <<Write("entry")>> \o Brief(Read("listing")) \o <<Release("entry")>>
ActivateProgram ==
    <<Write("entry"), Write("listing"), Release("listing"), Release("entry")>>
        \o Brief(Write("trade"))

Program ==
    [apply |-> ApplyProgram, checkout |-> CheckoutProgram, pass |-> PassProgram,
     refund |-> RefundProgram, settle |-> SettleProgram, list |-> ListProgram,
     cancel |-> CancelProgram, activate |-> ActivateProgram]

Handlers == DOMAIN Program

-----------------------------------------------------------------------------
VARIABLES
    running,  \* the handler each thread runs, or "none"
    step      \* the number of its steps that are done

vars == <<running, step>>

TypeOK ==
    /\ running \in [Threads -> Handlers \cup {"none"}]
    /\ step \in [Threads -> Nat]

Init ==
    /\ running = [h \in Threads |-> "none"]
    /\ step = [h \in Threads |-> 0]

NextStep(h) == Program[running[h]][step[h] + 1]
Finished(h) == step[h] = Len(Program[running[h]])

(* h has taken a guard of this kind on row r and not released it since.     *)
Holds(h, kind, r) ==
    /\ running[h] # "none"
    /\ \E i \in 1..step[h] :
          /\ Program[running[h]][i] = <<kind, r>>
          /\ \A j \in i..step[h] : Program[running[h]][j] # Release(r)

Grantable(h, kind, r) ==
    \A g \in Threads \ {h} :
        ~Holds(g, "write", r) /\ (kind = "write" => ~Holds(g, "read", r))

Start(h, p) ==
    /\ running[h] = "none"
    /\ running' = [running EXCEPT ![h] = p]
    /\ step' = [step EXCEPT ![h] = 0]

Advance(h) ==
    /\ running[h] # "none"
    /\ ~Finished(h)
    /\ LET s == NextStep(h)
       IN  s[1] = "release" \/ Grantable(h, s[1], s[2])
    /\ step' = [step EXCEPT ![h] = @ + 1]
    /\ UNCHANGED running

Return(h) ==
    /\ running[h] # "none"
    /\ Finished(h)
    /\ running' = [running EXCEPT ![h] = "none"]
    /\ step' = [step EXCEPT ![h] = 0]

Next == \E h \in Threads :
    (\E p \in Handlers : Start(h, p)) \/ Advance(h) \/ Return(h)

Spec == Init /\ [][Next]_vars

(* A thread whose guard becomes available again and again is granted it:    *)
(* the lock wakes its waiters, so nobody waits for ever but in a cycle.     *)
FairSpec ==
    Spec /\ \A h \in Threads : SF_vars(Advance(h)) /\ WF_vars(Return(h))

-----------------------------------------------------------------------------
(* "The Rust backend runs an automatic reconciliation loop every            *)
(* RECONCILIATION_INTERVAL_SECONDS": a pass that started comes to its end,  *)
(* so that the ticker of main.rs starts the next one.                       *)
PassCompletes ==
    \A h \in Threads : running[h] = "pass" ~> running[h] # "pass"
=============================================================================
