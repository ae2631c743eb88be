------------------------------- MODULE MCStore -------------------------------
(* Small instances of the trade store: one listing of 100 USDC.            *)
EXTENDS StoreProperties, TLC

CONSTANTS b1, b2, b3, l1, s1, s2, q1, q2, r1, r2, f1, f2

\* Buyers, and names drawn in any order, are interchangeable.
Symmetry == Permutations(Buyers) \cup Permutations(FlwIds)
=============================================================================
