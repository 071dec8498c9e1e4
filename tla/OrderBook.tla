----------------------------- MODULE OrderBook -----------------------------
(***************************************************************************)
(* What the order component promises, without clocks, jobs or tables.      *)
(*                                                                         *)
(* A collection platform without a bank API recognises a payer only by the *)
(* amount that arrives on a channel.  The promise is therefore about       *)
(* quotes: a quote <<merchant, channel, amount>> belongs to at most one    *)
(* order at a time, an order takes it while pending, keeps it when it      *)
(* lapses, and gives it up when it is settled or, once lapsed, when its    *)
(* hold ends.  An order is settled once and refunded once.                 *)
(***************************************************************************)
CONSTANTS Orders,   \* order identities
          Quotes    \* <<merchant, channel, amount>>

VARIABLES status,   \* [Orders -> life-cycle state]
          held      \* [Orders -> the set, empty or a singleton, of quotes held]

vars == <<status, held>>

Statuses == {"absent", "pending", "expired", "paid", "refunded"}

Init == /\ status = [o \in Orders |-> "absent"]
        /\ held = [o \in Orders |-> {}]

(* The holds of the lapsed orders L end.                                   *)
Without(L) == [o \in Orders |-> IF o \in L THEN {} ELSE held[o]]

Lapsed == {o \in Orders : status[o] = "expired"}

(* Order o takes quote q after the holds of L ended; nobody else has it.   *)
Takes(o, q, L) ==
    /\ \A p \in Orders \ L : q \notin held[p]
    /\ held' = [Without(L) EXCEPT ![o] = {q}]

(* A new order, with or without a quote of its own.                        *)
Open(o) ==
    /\ status[o] = "absent"
    /\ status' = [status EXCEPT ![o] = "pending"]
    /\ \/ UNCHANGED held
       \/ \E q \in Quotes, L \in SUBSET Lapsed : Takes(o, q, L)

(* The payer of a pending order picks the channel.                         *)
Quote(o) ==
    /\ status[o] = "pending"
    /\ held[o] = {}
    /\ \E q \in Quotes, L \in SUBSET Lapsed : Takes(o, q, L)
    /\ UNCHANGED status

(* Pending orders lapse, by time, cancellation or a ban; holds stay.       *)
Lapse(S) ==
    /\ S # {}
    /\ \A o \in S : status[o] = "pending"
    /\ status' = [o \in Orders |-> IF o \in S THEN "expired" ELSE status[o]]
    /\ UNCHANGED held

(* Money is recognised for an order not yet settled; its quote is free.    *)
Settle(o) ==
    /\ status[o] \in {"pending", "expired"}
    /\ status' = [status EXCEPT ![o] = "paid"]
    /\ held' = Without({o})

Return(o) ==
    /\ status[o] = "paid"
    /\ status' = [status EXCEPT ![o] = "refunded"]
    /\ UNCHANGED held

Next == \/ \E o \in Orders : Open(o) \/ Quote(o) \/ Settle(o) \/ Return(o)
        \/ \E S \in SUBSET Orders : Lapse(S)

Spec == Init /\ [][Next]_vars
=============================================================================
