----------------------------- MODULE MCReceipts -----------------------------
(***************************************************************************)
(* Two instances of Orders in one run, which share the constants.  A       *)
(* behaviour belongs to one of them, as part says: "receipts", where one   *)
(* merchant's orders are paid and the reports of the payments come in, and *)
(* "book", where two merchants quote amounts and nobody transfers money.   *)
(***************************************************************************)
EXTENDS MCOrders

VARIABLE part

(* What each instance leaves out of the constants: of the receipts, m2 and *)
(* the price of 3; of the book, the transfers and the last tick.           *)
ReceiptsOnly ==
    /\ order[o3].status = "absent" /\ m2 \notin banned
    /\ \A o \in OrderIds : order[o].original # 3

BookOnly == payments = {} /\ clock < MaxClock

Within == IF part = "receipts" THEN ReceiptsOnly ELSE BookOnly

PartSpec ==
    /\ Init /\ part \in {"receipts", "book"}
    /\ [][Next /\ UNCHANGED part /\ Within']_<<vars, part>>
=============================================================================
