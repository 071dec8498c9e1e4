-------------------------- MODULE MCPurchaseLocks --------------------------
(* Small instances of PurchaseLocks for TLC. *)
EXTENDS PurchaseLocks, TLC

Symmetric == Permutations(Txs)

AllRequests == Requests
=============================================================================
