---------------------------- MODULE PurchaseLife ----------------------------
(***************************************************************************)
(* What happens to one purchase and its bill, the order of the billing     *)
(* merchant by which it is paid, without rows, locks or jobs.  Each step   *)
(* moves both as one: a purchase is paid exactly when its bill is, money   *)
(* may still be recognised for a bill that lapsed but for no purchase that *)
(* ended, and a purchase that is cancelled takes its open bill with it.    *)
(***************************************************************************)
VARIABLES purchase, bill

vars == <<purchase, bill>>

Init == purchase = "absent" /\ bill = "none"

Open ==
    /\ purchase = "absent" /\ bill = "none"
    /\ purchase' = "pending" /\ bill' = "pending"

Cancel ==
    /\ purchase = "pending"
    /\ purchase' = "cancelled"
    /\ bill' = IF bill = "pending" THEN "expired" ELSE bill

(* The two expiries, in either order.                                      *)
Close ==
    /\ purchase = "pending"
    /\ purchase' = "expired"
    /\ UNCHANGED bill

Lapse ==
    /\ bill = "pending"
    /\ bill' = "expired"
    /\ UNCHANGED purchase

Pay ==
    /\ purchase = "pending" /\ bill \in {"pending", "expired"}
    /\ purchase' = "paid" /\ bill' = "paid"

Refund ==
    /\ purchase = "paid" /\ bill = "paid"
    /\ purchase' = "refunded" /\ bill' = "refunded"

Next == Open \/ Cancel \/ Close \/ Lapse \/ Pay \/ Refund

Spec == Init /\ [][Next]_vars
=============================================================================
