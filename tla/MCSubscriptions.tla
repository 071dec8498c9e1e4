-------------------------- MODULE MCSubscriptions --------------------------
(* Small instances of Subscriptions for TLC. *)
EXTENDS Subscriptions, TLC

TwoPurchases == 1 .. 2
ThreePurchases == 1 .. 3
NoManual == {}
OneManual == {9}

CONSTANTS p1, p2

SymmetricPlans == Permutations({p1, p2})
=============================================================================
