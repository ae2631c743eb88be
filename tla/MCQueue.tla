------------------------------ MODULE MCQueue ------------------------------
(***************************************************************************)
(* Model checking of ListingQueue.  Entries, trades and create calls are   *)
(* interchangeable.                                                        *)
(***************************************************************************)
EXTENDS QueueProperties, TLC

Symmetry ==
    Permutations(Entries) \cup Permutations(Trades) \cup Permutations(Creators)
=============================================================================
