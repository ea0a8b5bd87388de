---------------------------- MODULE MCWalletLedger ----------------------------
(* Small instances of WalletLedger for TLC. *)
EXTENDS WalletLedger, TLC

CONSTANTS u1, u2, h1, h2, h3

Symmetry == Permutations(Handlers) \cup Permutations(Accounts \ {Admin})
=============================================================================
