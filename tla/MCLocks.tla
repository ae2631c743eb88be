------------------------------ MODULE MCLocks ------------------------------
(***************************************************************************)
(* Model checking of LockOrder with two threads, enough for a cycle.       *)
(***************************************************************************)
EXTENDS LockOrder
=============================================================================
