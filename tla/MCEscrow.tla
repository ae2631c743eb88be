------------------------------ MODULE MCEscrow ------------------------------
(* Small instances of the settlement: one listing of 100 USDC.             *)
EXTENDS EscrowProperties, TLC

CONSTANTS b1, b2, l1, s1, r1, f1, f2

\* Nothing distinguishes the buyers.
Symmetry == Permutations(Buyers)
=============================================================================
