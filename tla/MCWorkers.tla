----------------------------- MODULE MCWorkers -----------------------------
(***************************************************************************)
(* Workers that compete: those that deliver callbacks and mail             *)
(* (MCDelivery), and the connections whose transactions lock rows of one   *)
(* purchase (PurchaseLocks).  They share no variable, so each behaviour    *)
(* runs one kind, which part says, and the instances add up.               *)
(***************************************************************************)
EXTENDS MCDelivery, PurchaseLocks

AllRequests == Requests

WorkersInit ==
    /\ RetriesInit /\ Post!Init /\ LocksInit
    /\ part \in Parts \cup {"locks"}

WorkersNext ==
    \/ DeliveryNext /\ UNCHANGED lockVars
    \/ part = "locks" /\ LocksNext /\ UNCHANGED <<part, retriesVars, mailVars>>

WorkersSpec ==
    /\ WorkersInit
    /\ [][WorkersNext]_<<part, retriesVars, mailVars, lockVars>>
    /\ DeliveryFairness
=============================================================================
