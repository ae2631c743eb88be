------------------------------ MODULE MCWallet ------------------------------
(* Small instances of wallet sessions.                                     *)
EXTENDS WalletProperties, TLC

CONSTANTS w1, w2, i1, i2, i3, t1, t2, t3, n1, n2, a, b, c1, c2

\* Wallets, requests and names are interchangeable.
Symmetry == Permutations(Wallets) \cup Permutations(Calls) \cup Permutations(Names)
=============================================================================
