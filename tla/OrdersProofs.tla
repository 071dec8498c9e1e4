---------------------------- MODULE OrdersProofs ----------------------------
(***************************************************************************)
(* Proofs about Orders, for every set of merchants, orders, channels,      *)
(* prices and settings and without any bound on their number.              *)
(***************************************************************************)
EXTENDS Orders, FiniteSetTheorems, WellFoundedInduction, TLAPS

-----------------------------------------------------------------------------
(* Allocation.                                                             *)

(* Every non-empty set of natural numbers has a least element: the initial *)
(* segments 0..n are finite, and finite sets are well-founded under strict *)
(* inclusion.                                                              *)
LEMMA LeastNatural ==
    ASSUME NEW S \in SUBSET Nat, S # {}
    PROVE  \E n \in S : \A m \in S : n <= m
<1> DEFINE R == StrictSubsetOrdering(Nat)
           T == {0 .. n : n \in S}
<1>1. IsWellFoundedOn(R, FiniteSubsetsOf(Nat))
  BY FS_StrictSubsetOrderingWellFounded
<1>2. ASSUME NEW n \in S PROVE 0 .. n \in FiniteSubsetsOf(Nat)
  BY FS_Interval DEF FiniteSubsetsOf
<1>3. PICK X \in T : \A Y \in T : ~ (<<Y, X>> \in R)
  <2>1. T \subseteq FiniteSubsetsOf(Nat) /\ T # {}
    BY <1>2
  <2> HIDE DEF R, T
  <2> QED BY <1>1, <2>1, WFMin
<1>4. PICK n \in S : X = 0 .. n
  BY <1>3
<1>5. ASSUME NEW m \in S, m < n PROVE FALSE
  <2>1. <<0 .. m, 0 .. n>> \notin R
    BY <1>3, <1>4
  <2>2. 0 .. m \subseteq 0 .. n /\ n \in 0 .. n /\ n \notin 0 .. m
    BY <1>5
  <2> QED BY <2>1, <2>2 DEF StrictSubsetOrdering
<1> QED BY <1>5

(* AllocateAmount returns a free offer whenever there is one: an amount    *)
(* within the site's limits that no reservation of the channel occupies.   *)
LEMMA AllocateFree ==
    ASSUME NEW price \in Nat, NEW f \in FloatSettings, NEW occupied,
           Offers(price, f) \ occupied # {}
    PROVE  /\ Allocate(price, f, occupied) \in Offers(price, f)
           /\ Allocate(price, f, occupied) \notin occupied
           /\ Allocate(price, f, occupied) \in MinAmount .. MaxAmount
<1> DEFINE free == Offers(price, f) \ occupied
           D == {Distance(x, price) : x \in free}
<1>1. Offers(price, f) \subseteq MinAmount .. MaxAmount
  BY AmountAssumption DEF Offers
<1>2. free \subseteq Int
  BY <1>1, AmountAssumption
<1>3. D \in SUBSET Nat /\ D # {}
  BY <1>2 DEF Distance
<1>4. PICK n \in D : \A m \in D : n <= m
  <2> HIDE DEF D
  <2> QED BY <1>3, LeastNatural
<1>5. \E x \in free : \A y \in free : Distance(x, price) <= Distance(y, price)
  BY <1>4
<1>6. Allocate(price, f, occupied) \in free
  <2> HIDE DEF free
  <2>1. Allocate(price, f, occupied) =
          CHOOSE x \in free :
             \A y \in free : Distance(x, price) <= Distance(y, price)
    BY DEF Allocate, free
  <2> QED BY <1>5, <2>1
<1> QED BY <1>1, <1>6

-----------------------------------------------------------------------------
(* Types.  The amount booked by hand is the price, so that the type        *)
(* invariant is inductive only together with the range of the prices.      *)

PriceInRange ==
    \A o \in OrderIds :
        order[o].status # "absent" => order[o].original \in MinAmount .. MaxAmount

Typed == TypeOK /\ PriceInRange

LEMMA NewOrderRow ==
    ASSUME TypeOK, NEW price \in Originals, NEW allowed \in SUBSET Channels,
           NEW ttl \in TTLs
    PROVE  NewOrder(price, allowed, ttl) \in OrderRow
<1>1. clock + ttl \in Nat
  BY TimeAssumption DEF TypeOK
<1> QED BY <1>1 DEF TypeOK, NewOrder, Blank, OrderRow

LEMMA LockedRow ==
    ASSUME TypeOK, NEW row \in OrderRow, NEW c \in Channels,
           NEW x \in MinAmount .. MaxAmount
    PROVE  /\ Locked(row, c, x) \in OrderRow
           /\ Locked(row, c, x).original = row.original
           /\ Locked(row, c, x).status = row.status
           /\ Locked(row, c, x).channel = c
           /\ Locked(row, c, x).actual = x
<1>1. Locked(row, c, x) \in OrderRow
  BY DEF TypeOK, Locked, OrderRow
<1>2. /\ Locked(row, c, x).original = row.original
      /\ Locked(row, c, x).status = row.status
  BY DEF Locked, OrderRow
<1>3. Locked(row, c, x).channel = c /\ Locked(row, c, x).actual = x
  BY DEF Locked, OrderRow
<1> QED BY <1>1, <1>2, <1>3

LEMMA SettledRow ==
    ASSUME NEW row \in OrderRow, row.original \in MinAmount .. MaxAmount,
           NEW c \in Channels, NEW byHand \in BOOLEAN
    PROVE  /\ Settled(row, c, byHand) \in OrderRow
           /\ Settled(row, c, byHand).original = row.original
<1>1. Settled(row, c, byHand).original = row.original
  BY DEF Settled, OrderRow
<1>2. Settled(row, c, byHand) \in OrderRow
  BY DEF Settled, OrderRow
<1> QED BY <1>1, <1>2

LEMMA InitTyped == Init => Typed
<1> SUFFICES ASSUME Init PROVE Typed
  OBVIOUS
<1>1. Blank \in OrderRow
  BY DEF Blank, OrderRow
<1>2. PriceInRange
  BY DEF Init, PriceInRange, Blank
<1>3. TypeOK
  BY <1>1 DEF Init, TypeOK, RefundRow
<1> QED BY <1>2, <1>3 DEF Typed

(* A reservation row for a freshly allocated amount.                       *)
LEMMA ReserveTyped ==
    ASSUME TypeOK, NEW o \in OrderIds, NEW c \in Channels,
           NEW x \in MinAmount .. MaxAmount, Reserve(o, c, x)
    PROVE  reservations' \subseteq ReservationRow
<1>1. [order |-> o, channel |-> c, amount |-> x, release |-> 0] \in ReservationRow
  BY DEF ReservationRow
<1> QED BY <1>1 DEF TypeOK, Reserve, Purged

LEMMA RetainTyped ==
    ASSUME TypeOK, NEW S \in SUBSET OrderIds, Retain(S)
    PROVE  reservations' \subseteq ReservationRow
<1>1. ASSUME NEW r \in reservations
      PROVE  [r EXCEPT !.release = RetainedUntil(r.order)] \in ReservationRow
  <2>1. r \in ReservationRow
    BY DEF TypeOK
  <2>2. RetainedUntil(r.order) \in Nat
    BY <2>1, TimeAssumption DEF TypeOK, OrderRow, ReservationRow, RetainedUntil
  <2> QED BY <2>1, <2>2 DEF ReservationRow
<1> QED BY <1>1 DEF TypeOK, Retain

LEMMA ExpiredRow ==
    ASSUME NEW row \in OrderRow, NEW why \in {"timeout", "cancelled", "banned"}
    PROVE  LET new == [row EXCEPT !.status = "expired", !.reason = why]
           IN  new \in OrderRow /\ new.original = row.original
BY DEF OrderRow

LEMMA ExpiredTyped ==
    ASSUME Typed, NEW S \in SUBSET OrderIds,
           \A o \in S : order[o].status = "pending",
           NEW why \in [S -> {"timeout", "cancelled", "banned"}], Expired(S, why)
    PROVE  order' \in [OrderIds -> OrderRow] /\ PriceInRange'
<1>1. ASSUME NEW o \in OrderIds
      PROVE  /\ order'[o] \in OrderRow
             /\ order'[o].original = order[o].original
             /\ order'[o].status # "absent" => order[o].status # "absent"
  <2>1. order[o] \in OrderRow
    BY DEF Typed, TypeOK
  <2>2. order'[o] = IF o \in S
                    THEN [order[o] EXCEPT !.status = "expired", !.reason = why[o]]
                    ELSE order[o]
    BY DEF Expired
  <2>3. CASE o \in S
    <3>1. order[o].status # "absent" /\ why[o] \in {"timeout", "cancelled", "banned"}
      BY <2>3
    <3>2. order'[o] = [order[o] EXCEPT !.status = "expired", !.reason = why[o]]
      BY <2>2, <2>3
    <3>3. /\ order'[o] \in OrderRow
          /\ order'[o].original = order[o].original
      <4> DEFINE w == why[o]
      <4>1. w \in {"timeout", "cancelled", "banned"}
        BY <3>1
      <4>2. order'[o] = [order[o] EXCEPT !.status = "expired", !.reason = w]
        BY <3>2
      <4>3. /\ [order[o] EXCEPT !.status = "expired", !.reason = w] \in OrderRow
            /\ [order[o] EXCEPT !.status = "expired", !.reason = w].original
                  = order[o].original
        <5> HIDE DEF w
        <5> QED BY <2>1, <4>1, ExpiredRow, Zenon
      <4> QED BY <4>2, <4>3, Zenon
    <3> QED BY <3>1, <3>3
  <2>4. CASE o \notin S
    BY <2>1, <2>2, <2>4
  <2> QED BY <2>3, <2>4
<1>2. DOMAIN order' = OrderIds /\ order' = [o \in OrderIds |-> order'[o]]
  BY DEF Expired
<1> QED BY <1>1, <1>2 DEF Typed, PriceInRange

(* One row of orders changes to a well-typed row with a price in range.    *)
LEMMA RowTyped ==
    ASSUME Typed, NEW o \in OrderIds, NEW row \in OrderRow,
           row.original \in MinAmount .. MaxAmount,
           order' = [order EXCEPT ![o] = row]
    PROVE  order' \in [OrderIds -> OrderRow] /\ PriceInRange'
BY DEF Typed, TypeOK, PriceInRange

LEMMA SendTyped ==
    ASSUME TypeOK,
           NEW kind \in {"callback", "cancel_callback", "fulfil", "revoke"},
           NEW o \in OrderIds, Send(kind, o)
    PROVE  outbox' \subseteq Message
BY DEF TypeOK, Send, Message

LEMMA MarkPaidTyped ==
    ASSUME Typed, NEW o \in OrderIds, NEW c \in Channels,
           NEW byHand \in BOOLEAN, MarkPaidTx(o, c, byHand)
    PROVE  /\ order' \in [OrderIds -> OrderRow] /\ PriceInRange'
           /\ reservations' \subseteq ReservationRow
           /\ outbox' \subseteq Message
<1>1. CASE order[o].status = "paid"
  BY <1>1 DEF MarkPaidTx, Typed, TypeOK, PriceInRange
<1>2. CASE order[o].status # "paid"
  <2>1. /\ Payable(o, c, byHand) /\ Unreserve(o) /\ Send(HandOff(o), o)
        /\ order' = [order EXCEPT ![o] = Settled(order[o], c, byHand)]
    BY <1>2 DEF MarkPaidTx
  <2>2. order[o] \in OrderRow
    BY DEF Typed, TypeOK
  <2>3. order[o].original \in MinAmount .. MaxAmount
    BY <2>1 DEF Payable, Typed, PriceInRange
  <2>4. /\ Settled(order[o], c, byHand) \in OrderRow
        /\ Settled(order[o], c, byHand).original = order[o].original
    BY <2>2, <2>3, SettledRow
  <2>5. order' \in [OrderIds -> OrderRow] /\ PriceInRange'
    BY <2>1, <2>3, <2>4, RowTyped
  <2>6. reservations' \subseteq ReservationRow
    BY <2>1 DEF Unreserve, Typed, TypeOK
  <2>7. outbox' \subseteq Message
    <3>1. HandOff(o) \in {"callback", "cancel_callback", "fulfil", "revoke"}
      BY DEF HandOff
    <3> QED BY <2>1, <3>1, SendTyped DEF Typed
  <2> QED BY <2>5, <2>6, <2>7
<1> QED BY <1>1, <1>2

LEMMA MarkRefundedTyped ==
    ASSUME Typed, NEW o \in OrderIds, MarkRefundedTx(o)
    PROVE  /\ order' \in [OrderIds -> OrderRow] /\ PriceInRange'
           /\ refund' \in [RefundIds -> RefundRow]
           /\ outbox' \subseteq Message
<1>1. order' \in [OrderIds -> OrderRow] /\ PriceInRange'
  <2> DEFINE row == [order[o] EXCEPT !.status = "refunded"]
  <2>1. order[o] \in OrderRow /\ order[o].original \in MinAmount .. MaxAmount
    BY DEF MarkRefundedTx, Typed, TypeOK, PriceInRange
  <2>2. row \in OrderRow /\ row.original = order[o].original
    BY <2>1 DEF OrderRow
  <2>3. order' = [order EXCEPT ![o] = row]
    BY DEF MarkRefundedTx
  <2> HIDE DEF row
  <2> QED BY <2>1, <2>2, <2>3, RowTyped
<1>2. refund' \in [RefundIds -> RefundRow]
  <2>1. ASSUME NEW r \in RefundIds
        PROVE  /\ refund[r] \in RefundRow
               /\ [refund[r] EXCEPT !.status = "completed"] \in RefundRow
    BY DEF Typed, TypeOK, RefundRow
  <2> QED BY <2>1 DEF MarkRefundedTx
<1>3. outbox' \subseteq Message
  BY SendTyped DEF MarkRefundedTx, Typed
<1> QED BY <1>1, <1>2, <1>3

LEMMA RecordTyped ==
    ASSUME TypeOK, NEW i \in inflight, NEW o \in OrderIds \cup {NoOrder},
           Record(i, o)
    PROVE  receipts' \subseteq ReceiptRow
BY DEF TypeOK, Record, ReceiptRow

LEMMA CheckoutTyped == Typed /\ Checkout => Typed'
<1> SUFFICES ASSUME Typed,
             NEW o \in OrderIds, NEW eligible \in SUBSET Channels,
             NEW f \in FloatSettings,
             \/ \E price \in Originals, ttl \in TTLs :
                   \/ \E c \in Channels \cup {NoChannel} :
                         Create(o, price, eligible, ttl, c, f)
                   \/ CreateSubscriptionOrder(o, price, eligible, ttl)
             \/ \E c \in Channels : SelectChannel(o, c, eligible, f)
             PROVE Typed'
  BY DEF Checkout
<1> USE DEF Typed
<1>1. ASSUME NEW price \in Originals, NEW ttl \in TTLs,
             NEW c \in Channels \cup {NoChannel},
             Create(o, price, eligible, ttl, c, f)
      PROVE  Typed'
  <2> DEFINE new == NewOrder(price, eligible, ttl)
             x == Allocate(price, f, Occupied(MerchantOf[o], c))
  <2>1. new \in OrderRow /\ new.original = price
    BY NewOrderRow DEF NewOrder, Blank
  <2>2. price \in MinAmount .. MaxAmount
    BY <1>1, AmountAssumption DEF Create, InRange
  <2>3. CASE c = NoChannel /\ order' = [order EXCEPT ![o] = new]
                           /\ UNCHANGED reservations
    <3>1. order' \in [OrderIds -> OrderRow] /\ PriceInRange'
      BY <2>1, <2>2, <2>3, RowTyped
    <3> QED BY <1>1, <2>3, <3>1 DEF Create, TypeOK, money
  <2>4. CASE /\ c \in Channels
             /\ Offers(price, f) \ Occupied(MerchantOf[o], c) # {}
             /\ order' = [order EXCEPT ![o] = Locked(new, c, x)]
             /\ Reserve(o, c, x)
    <3>1. x \in MinAmount .. MaxAmount
      BY <2>4, AllocateFree, AmountAssumption
    <3>2. Locked(new, c, x) \in OrderRow /\ Locked(new, c, x).original = price
      BY <2>1, <2>4, <3>1, LockedRow
    <3>3. order' \in [OrderIds -> OrderRow] /\ PriceInRange'
      BY <2>2, <2>4, <3>2, RowTyped
    <3>4. reservations' \subseteq ReservationRow
      BY <2>4, <3>1, ReserveTyped
    <3> QED BY <1>1, <3>3, <3>4 DEF Create, TypeOK, money
  <2> QED BY <1>1, <2>3, <2>4 DEF Create
<1>2. ASSUME NEW price \in Originals, NEW ttl \in TTLs,
             CreateSubscriptionOrder(o, price, eligible, ttl)
      PROVE  Typed'
  <2> DEFINE new == NewOrder(price, eligible, ttl)
  <2>1. new \in OrderRow /\ new.original = price
    BY NewOrderRow DEF NewOrder, Blank
  <2>2. price \in MinAmount .. MaxAmount
    BY <1>2, AmountAssumption DEF CreateSubscriptionOrder, InRange
  <2>3. order' \in [OrderIds -> OrderRow] /\ PriceInRange'
    BY <1>2, <2>1, <2>2, RowTyped DEF CreateSubscriptionOrder
  <2> QED BY <1>2, <2>3 DEF CreateSubscriptionOrder, TypeOK, money
<1>3. ASSUME NEW c \in Channels, SelectChannel(o, c, eligible, f)
      PROVE  Typed'
  <2> DEFINE x == Allocate(order[o].original, f, Occupied(MerchantOf[o], c))
  <2>1. order[o] \in OrderRow /\ order[o].original \in MinAmount .. MaxAmount
    BY <1>3 DEF SelectChannel, TypeOK, PriceInRange
  <2>2. x \in MinAmount .. MaxAmount
    <3>1. order[o].original \in Nat
      BY <2>1, AmountAssumption
    <3> QED BY <1>3, <3>1, AllocateFree DEF SelectChannel
  <2>3. /\ Locked(order[o], c, x) \in OrderRow
        /\ Locked(order[o], c, x).original = order[o].original
    <3>1. c \in Channels
      BY <1>3 DEF SelectChannel
    <3> QED BY <2>1, <2>2, <3>1, LockedRow
  <2>4. order' \in [OrderIds -> OrderRow] /\ PriceInRange'
    BY <1>3, <2>1, <2>3, RowTyped DEF SelectChannel
  <2>5. reservations' \subseteq ReservationRow
    BY <1>3, <2>2, ReserveTyped DEF SelectChannel
  <2> QED BY <1>3, <2>4, <2>5 DEF SelectChannel, TypeOK, money
<1> QED BY <1>1, <1>2, <1>3

LEMMA LapsingTyped == Typed /\ Lapsing => Typed'
<1> SUFFICES ASSUME Typed, Lapsing PROVE Typed'
  OBVIOUS
<1> USE DEF Typed
<1>1. ASSUME NEW o \in OrderIds, ExpireBatch(o) PROVE Typed'
  <2>1. order' \in [OrderIds -> OrderRow] /\ PriceInRange'
    BY <1>1, ExpiredTyped DEF ExpireBatch, Due
  <2>2. reservations' \subseteq ReservationRow
    BY <1>1, RetainTyped DEF ExpireBatch
  <2> QED BY <1>1, <2>1, <2>2 DEF ExpireBatch, TypeOK, money
<1>2. ASSUME NEW bought \in SUBSET SubscriptionOrders,
             CancelSubscriptionOrders(bought)
      PROVE  Typed'
  <2> DEFINE open == PendingOf(bought)
  <2>1. /\ open \in SUBSET OrderIds
        /\ \A o \in open : order[o].status = "pending"
    BY SubscriptionAssumption DEF PendingOf
  <2>2. Expired(open, [o \in open |-> "cancelled"]) /\ Retain(open)
    BY <1>2 DEF CancelSubscriptionOrders
  <2> HIDE DEF open
  <2>3. order' \in [OrderIds -> OrderRow] /\ PriceInRange'
    BY <2>1, <2>2, ExpiredTyped
  <2>4. reservations' \subseteq ReservationRow
    BY <2>1, <2>2, RetainTyped
  <2> QED BY <1>2, <2>3, <2>4 DEF CancelSubscriptionOrders, TypeOK, money
<1>3. ASSUME NEW m \in Merchants, NEW bought \in SUBSET SubscriptionOrders,
             Ban(m, bought)
      PROVE  Typed'
  <2> DEFINE own == PendingOf(OrdersOf(m))
             open == own \cup PendingOf(bought)
             banExpired == {o \in OrdersOf(m) : /\ order[o].status = "expired"
                                                 /\ order[o].reason = "banned"}
             why == [o \in open |-> IF o \in own THEN "banned" ELSE "cancelled"]
  <2>1. Expired(open, why) /\ Retain(open \cup banExpired)
    BY <1>3 DEF Ban
  <2>2. /\ open \in SUBSET OrderIds /\ banExpired \in SUBSET OrderIds
        /\ \A o \in open : order[o].status = "pending"
    BY SubscriptionAssumption DEF OrdersOf, PendingOf
  <2>3. why \in [open -> {"timeout", "cancelled", "banned"}]
    OBVIOUS
  <2> HIDE DEF open, banExpired, why
  <2>4. order' \in [OrderIds -> OrderRow] /\ PriceInRange'
    BY <2>1, <2>2, <2>3, ExpiredTyped
  <2>5. reservations' \subseteq ReservationRow
    BY <2>1, <2>2, RetainTyped
  <2> QED BY <1>3, <2>4, <2>5 DEF Ban, TypeOK, money
<1>4. ASSUME NEW m \in Merchants, Unban(m) PROVE Typed'
  BY <1>4 DEF Unban, TypeOK, PriceInRange, money
<1> QED BY <1>1, <1>2, <1>3, <1>4 DEF Lapsing, Query

LEMMA PayingTyped == Typed /\ Paying => Typed'
<1> SUFFICES ASSUME Typed, Paying PROVE Typed'
  OBVIOUS
<1> USE DEF Typed
<1>1. ASSUME NEW o \in OrderIds, NEW lag \in Lags, Pay(o, lag) PROVE Typed'
  <2>1. order[o] \in OrderRow /\ order[o].channel \in Channels
    BY <1>1 DEF Pay, TypeOK, OrderRow
  <2>2. clock - lag \in Int /\ clock + 1 \in Nat /\ order[o].actual \in Nat
    BY <2>1, TimeAssumption, AmountAssumption DEF TypeOK, OrderRow
  <2>3. payments' \subseteq PaymentRow
    BY <1>1, <2>1, <2>2 DEF Pay, TypeOK, PaymentRow
  <2> QED BY <1>1, <2>2, <2>3 DEF Pay, TypeOK, PriceInRange
<1>2. ASSUME NEW p \in payments, NEW k \in Copies, IngestBegin(p, k)
      PROVE  Typed'
  BY <1>2 DEF IngestBegin, TypeOK, PriceInRange
<1>3. ASSUME NEW i \in inflight, NEW o \in OrderIds, IngestMatch(i, o)
      PROVE  Typed'
  <2>1. i.payment.channel \in Channels
    BY DEF TypeOK, PaymentRow
  <2>2. /\ order' \in [OrderIds -> OrderRow] /\ PriceInRange'
        /\ reservations' \subseteq ReservationRow
        /\ outbox' \subseteq Message
    BY <1>3, <2>1, MarkPaidTyped DEF IngestMatch
  <2>3. receipts' \subseteq ReceiptRow
    BY <1>3, RecordTyped DEF IngestMatch
  <2> QED BY <1>3, <2>2, <2>3 DEF IngestMatch, TypeOK
<1>4. ASSUME NEW i \in inflight, IngestUnmatched(i) PROVE Typed'
  <2>1. receipts' \subseteq ReceiptRow
    BY <1>4, RecordTyped DEF IngestUnmatched
  <2> QED BY <1>4, <2>1 DEF IngestUnmatched, TypeOK, PriceInRange
<1>5. ASSUME NEW i \in inflight, IngestRollback(i) PROVE Typed'
  BY <1>5 DEF IngestRollback, TypeOK, PriceInRange
<1>6. ASSUME NEW o \in OrderIds, NEW c \in Channels, Supplement(o, c)
      PROVE  Typed'
  <2>1. /\ order' \in [OrderIds -> OrderRow] /\ PriceInRange'
        /\ reservations' \subseteq ReservationRow
        /\ outbox' \subseteq Message
    BY <1>6, MarkPaidTyped DEF Supplement
  <2> QED BY <1>6, <2>1 DEF Supplement, TypeOK, money
<1> QED BY <1>1, <1>2, <1>3, <1>4, <1>5, <1>6 DEF Paying

LEMMA RefundingTyped == Typed /\ Refunding => Typed'
<1> SUFFICES ASSUME Typed, Refunding PROVE Typed'
  OBVIOUS
<1> USE DEF Typed
<1>1. ASSUME NEW r \in RefundIds, NEW o \in OrderIds, RequestRefund(r, o)
      PROVE  Typed'
  <2>1. refund' \in [RefundIds -> RefundRow]
    BY <1>1 DEF RequestRefund, TypeOK, RefundRow
  <2>2. outbox' \subseteq Message
    BY <1>1 DEF RequestRefund, Send, TypeOK, Message
  <2> QED BY <1>1, <2>1, <2>2 DEF RequestRefund, TypeOK, PriceInRange, money
<1>2. ASSUME NEW r \in RefundIds, RejectRefund(r) PROVE Typed'
  <2>1. refund[r] \in RefundRow
    BY DEF TypeOK
  <2>2. [refund[r] EXCEPT !.status = "rejected"] \in RefundRow
    BY <2>1 DEF RefundRow
  <2>3. refund' \in [RefundIds -> RefundRow]
    BY <1>2, <2>2 DEF RejectRefund, TypeOK
  <2> QED BY <1>2, <2>3 DEF RejectRefund, TypeOK, PriceInRange, money
<1>3. ASSUME NEW r \in RefundIds, ApproveRefund(r) PROVE Typed'
  <2>1. refund[r].order \in OrderIds
    BY <1>3 DEF ApproveRefund, TypeOK, RefundRow
  <2>2. /\ order' \in [OrderIds -> OrderRow] /\ PriceInRange'
        /\ refund' \in [RefundIds -> RefundRow]
        /\ outbox' \subseteq Message
    BY <1>3, <2>1, MarkRefundedTyped DEF ApproveRefund
  <2> QED BY <1>3, <2>2 DEF ApproveRefund, TypeOK, money
<1>4. ASSUME NEW o \in OrderIds, MarkRefunded(o) PROVE Typed'
  <2>1. /\ order' \in [OrderIds -> OrderRow] /\ PriceInRange'
        /\ refund' \in [RefundIds -> RefundRow]
        /\ outbox' \subseteq Message
    BY <1>4, MarkRefundedTyped DEF MarkRefunded
  <2> QED BY <1>4, <2>1 DEF MarkRefunded, TypeOK, money
<1> QED BY <1>1, <1>2, <1>3, <1>4 DEF Refunding

LEMMA StepTyped == Typed /\ [Next]_vars => Typed'
<1>1. Typed /\ Tick => Typed'
  BY DEF Typed, Tick, TypeOK, PriceInRange, money
<1>2. Typed /\ UNCHANGED vars => Typed'
  BY DEF Typed, vars, money, TypeOK, PriceInRange
<1> QED BY <1>1, <1>2, CheckoutTyped, LapsingTyped, PayingTyped, RefundingTyped
        DEF Next

(* Every reachable state of the order tables is well typed: no amount      *)
(* outside the site's limits is ever quoted, reserved or booked.           *)
THEOREM TypeCorrect == Spec => []TypeOK
<1>1. Typed => TypeOK
  BY DEF Typed
<1> QED BY <1>1, InitTyped, StepTyped, PTL DEF Spec

-----------------------------------------------------------------------------
(* Reservations.  A row always carries the channel and amount of its       *)
(* order, belongs to a pending order (no release time yet) or to a lapsed  *)
(* one (released 24 hours after its expiry), and an order that may still   *)
(* receive its quote has a row.                                            *)

RowsAgree ==
    \A r \in reservations :
        /\ r.channel = order[r.order].channel
        /\ r.amount = order[r.order].actual
        /\ \/ order[r.order].status = "pending" /\ r.release = 0
           \/ /\ order[r.order].status = "expired"
              /\ r.release = RetainedUntil(r.order)

ExposedHeld ==
    \A o \in OrderIds : Exposed(o) => \E r \in reservations : r.order = o

Reserved == RowsAgree /\ AmountHeldOnce /\ ExposedHeld

LEMMA ReservedHolds == Reserved => HoldCoversExposure
BY DEF Reserved, RowsAgree, ExposedHeld, HoldCoversExposure, Holds

LEMMA InitReserved == Init => Reserved
BY NullAssumption
   DEF Init, Reserved, RowsAgree, AmountHeldOnce, ExposedHeld, Exposed, Blank

(* An order without a row takes a row for an unoccupied amount.            *)
LEMMA ReserveReserved ==
    ASSUME Typed, Reserved,
           NEW o \in OrderIds, \A r \in reservations : r.order # o,
           NEW c \in Channels, NEW x \in MinAmount .. MaxAmount,
           x \notin Occupied(MerchantOf[o], c),
           NEW row \in OrderRow,
           row.status = "pending", row.channel = c, row.actual = x,
           order' = [order EXCEPT ![o] = row],
           Reserve(o, c, x), clock' = clock
    PROVE  Reserved'
<1> DEFINE new == [order |-> o, channel |-> c, amount |-> x, release |-> 0]
           kept == Purged(MerchantOf[o])
<1>1. reservations' = kept \cup {new}
  BY DEF Reserve
<1>2. kept \subseteq reservations /\ reservations \subseteq ReservationRow
  BY DEF Purged, Typed, TypeOK
<1>3. order'[o] = row /\ \A p \in OrderIds \ {o} : order'[p] = order[p]
  BY DEF Typed, TypeOK
<1>4. \A r \in kept : r.order \in OrderIds \ {o}
  BY <1>2 DEF ReservationRow
<1>5. RowsAgree'
  BY <1>1, <1>2, <1>3, <1>4 DEF Reserved, RowsAgree, RetainedUntil
<1>6. AmountHeldOnce'
  <2>1. \A r \in kept : ~ (/\ MerchantOf[r.order] = MerchantOf[o]
                          /\ r.channel = c /\ r.amount = x)
    BY DEF Occupied
  <2> HIDE DEF kept
  <2> QED BY <1>1, <1>2, <1>4, <2>1 DEF Reserved, AmountHeldOnce
<1>7. ASSUME NEW p \in OrderIds, Exposed(p)'
      PROVE  \E r \in reservations' : r.order = p
  <2>1. CASE p = o
    <3>1. new \in reservations' /\ new.order = o
      BY <1>1
    <3> QED BY <2>1, <3>1
  <2>2. CASE p # o
    <3>1. Exposed(p)
      BY <1>3, <1>7, <2>2 DEF Exposed
    <3>2. PICK r \in reservations : r.order = p
      BY <3>1 DEF Reserved, ExposedHeld
    <3>3. clock \in Nat /\ order[p].expires \in Nat /\ Retention \in Nat
      BY TimeAssumption DEF Typed, TypeOK, OrderRow
    <3>4. ~ (r.release # 0 /\ r.release <= clock)
      BY <3>1, <3>2, <3>3 DEF Reserved, RowsAgree, Exposed, RetainedUntil
    <3>5. r \in kept
      BY <3>2, <3>4 DEF Purged
    <3> QED BY <1>1, <3>2, <3>5
  <2> QED BY <2>1, <2>2
<1> QED BY <1>5, <1>6, <1>7 DEF Reserved, ExposedHeld

(* Pending orders E lapse and the rows of E and of lapsed orders R are     *)
(* kept until 24 hours after the expiry.                                   *)
LEMMA RetainReserved ==
    ASSUME Typed, Reserved,
           NEW E \in SUBSET OrderIds, \A o \in E : order[o].status = "pending",
           NEW R \in SUBSET OrderIds, \A o \in R : order[o].status = "expired",
           NEW why, Expired(E, why), Retain(E \cup R), clock' = clock
    PROVE  Reserved'
<1> DEFINE moved(r) == IF r.order \in E \cup R
                       THEN [r EXCEPT !.release = RetainedUntil(r.order)] ELSE r
<1>1. reservations' = {moved(r) : r \in reservations}
  BY DEF Retain
<1>2. reservations \subseteq ReservationRow
  BY DEF Typed, TypeOK
<1>3. ASSUME NEW r \in reservations
      PROVE  /\ moved(r).order = r.order /\ moved(r).channel = r.channel
             /\ moved(r).amount = r.amount
             /\ moved(r).release = IF r.order \in E \cup R
                                   THEN RetainedUntil(r.order) ELSE r.release
  BY <1>2 DEF ReservationRow
<1>4. ASSUME NEW o \in OrderIds
      PROVE  /\ order'[o].channel = order[o].channel
             /\ order'[o].actual = order[o].actual
             /\ order'[o].expires = order[o].expires
             /\ order'[o].status = IF o \in E THEN "expired" ELSE order[o].status
  <2>1. order[o] \in OrderRow
    BY DEF Typed, TypeOK
  <2>2. order'[o] = IF o \in E
                    THEN [order[o] EXCEPT !.status = "expired", !.reason = why[o]]
                    ELSE order[o]
    BY DEF Expired
  <2> QED BY <2>1, <2>2 DEF OrderRow
<1> HIDE DEF moved
<1>5. RowsAgree'
  <2> SUFFICES ASSUME NEW r \in reservations
               PROVE  LET s == moved(r) IN
                      /\ s.channel = order'[s.order].channel
                      /\ s.amount = order'[s.order].actual
                      /\ \/ order'[s.order].status = "pending" /\ s.release = 0
                         \/ /\ order'[s.order].status = "expired"
                            /\ s.release = order'[s.order].expires + Retention
    BY <1>1 DEF RowsAgree, RetainedUntil
  <2>1. r.order \in OrderIds
    BY <1>2 DEF ReservationRow
  <2> QED BY <1>3, <1>4, <2>1 DEF Reserved, RowsAgree, RetainedUntil
<1>6. AmountHeldOnce'
  BY <1>1, <1>3 DEF Reserved, AmountHeldOnce
<1>7. ExposedHeld'
  <2> SUFFICES ASSUME NEW o \in OrderIds, Exposed(o)'
               PROVE  \E r \in reservations' : r.order = o
    BY DEF ExposedHeld
  <2>1. Exposed(o)
    BY <1>4 DEF Exposed
  <2>2. PICK r \in reservations : r.order = o
    BY <2>1 DEF Reserved, ExposedHeld
  <2> QED BY <1>1, <1>3, <2>2
<1> QED BY <1>5, <1>6, <1>7 DEF Reserved

(* The row of a settled order is dropped.                                  *)
LEMMA MarkPaidReserved ==
    ASSUME Typed, Reserved, NEW o \in OrderIds, NEW c \in Channels,
           NEW byHand \in BOOLEAN, MarkPaidTx(o, c, byHand), clock' = clock
    PROVE  Reserved'
<1>1. CASE order[o].status = "paid"
  <2>1. UNCHANGED <<order, reservations, clock>>
    BY <1>1 DEF MarkPaidTx
  <2> QED BY <2>1 DEF Reserved, RowsAgree, AmountHeldOnce, ExposedHeld, Exposed,
                      RetainedUntil
<1>2. CASE order[o].status # "paid"
  <2>1. /\ reservations' = {r \in reservations : r.order # o}
        /\ order' = [order EXCEPT ![o] = Settled(order[o], c, byHand)]
    BY <1>2 DEF MarkPaidTx, Unreserve
  <2>2. order'[o] = Settled(order[o], c, byHand) /\ order[o] \in OrderRow
    BY <2>1 DEF Typed, TypeOK
  <2>3. order'[o].status = "paid" /\ \A p \in OrderIds \ {o} : order'[p] = order[p]
    BY <2>1, <2>2 DEF Settled, OrderRow, Typed, TypeOK
  <2>4. \A r \in reservations' : r \in reservations /\ r.order \in OrderIds \ {o}
    BY <2>1 DEF Typed, TypeOK, ReservationRow
  <2>5. RowsAgree'
    BY <2>3, <2>4 DEF Reserved, RowsAgree, RetainedUntil
  <2>6. AmountHeldOnce'
    BY <2>4 DEF Reserved, AmountHeldOnce
  <2>7. ExposedHeld'
    BY <2>1, <2>3 DEF Reserved, ExposedHeld, Exposed
  <2> QED BY <2>5, <2>6, <2>7 DEF Reserved
<1> QED BY <1>1, <1>2

(* A refund changes a paid order, which has no row.                        *)
LEMMA MarkRefundedReserved ==
    ASSUME Typed, Reserved, NEW o \in OrderIds, MarkRefundedTx(o),
           UNCHANGED <<reservations, clock>>
    PROVE  Reserved'
<1>1. order[o] \in OrderRow /\ order[o].status = "paid"
  BY DEF MarkRefundedTx, Typed, TypeOK
<1>2. order'[o].status = "refunded" /\ \A p \in OrderIds \ {o} : order'[p] = order[p]
  BY <1>1 DEF MarkRefundedTx, Typed, TypeOK, OrderRow
<1>3. \A r \in reservations : r.order \in OrderIds \ {o}
  BY <1>1 DEF Reserved, RowsAgree, Typed, TypeOK, ReservationRow
<1>4. RowsAgree'
  BY <1>2, <1>3 DEF Reserved, RowsAgree, RetainedUntil
<1>5. AmountHeldOnce'
  BY DEF Reserved, AmountHeldOnce
<1>6. ExposedHeld'
  BY <1>2 DEF Reserved, ExposedHeld, Exposed
<1> QED BY <1>4, <1>5, <1>6 DEF Reserved

(* Time only ends exposures.                                               *)
LEMMA LaterReserved ==
    ASSUME Typed, Reserved, UNCHANGED <<order, reservations>>,
           clock' \in {clock, clock + 1}
    PROVE  Reserved'
<1>1. clock <= clock'
  BY DEF Typed, TypeOK
<1>2. \A o \in OrderIds : Exposed(o)' => Exposed(o)
  BY <1>1, TimeAssumption DEF Exposed, Typed, TypeOK, OrderRow
<1>3. RowsAgree' /\ AmountHeldOnce'
  BY DEF Reserved, RowsAgree, AmountHeldOnce, RetainedUntil
<1>4. ExposedHeld'
  BY <1>2 DEF Reserved, ExposedHeld
<1> QED BY <1>3, <1>4 DEF Reserved

LEMMA CheckoutReserved == Typed /\ Reserved /\ Checkout => Reserved'
<1> SUFFICES ASSUME Typed, Reserved,
             NEW o \in OrderIds, NEW eligible \in SUBSET Channels,
             NEW f \in FloatSettings,
             \/ \E price \in Originals, ttl \in TTLs :
                   \/ \E c \in Channels \cup {NoChannel} :
                         Create(o, price, eligible, ttl, c, f)
                   \/ CreateSubscriptionOrder(o, price, eligible, ttl)
             \/ \E c \in Channels : SelectChannel(o, c, eligible, f)
             PROVE Reserved'
  BY DEF Checkout
<1>1. ASSUME NEW price \in Originals, NEW ttl \in TTLs, order[o].status = "absent",
             order' = [order EXCEPT ![o] = NewOrder(price, eligible, ttl)],
             UNCHANGED <<clock, reservations>>
      PROVE  Reserved'
  <2>1. /\ order'[o].channel = NoChannel
        /\ \A p \in OrderIds \ {o} : order'[p] = order[p]
    BY <1>1 DEF NewOrder, Blank, Typed, TypeOK
  <2>2. \A r \in reservations : r.order \in OrderIds \ {o}
    BY <1>1 DEF Reserved, RowsAgree, Typed, TypeOK, ReservationRow
  <2>3. RowsAgree'
    BY <1>1, <2>1, <2>2 DEF Reserved, RowsAgree, RetainedUntil
  <2>4. AmountHeldOnce' /\ ExposedHeld'
    BY <1>1, <2>1 DEF Reserved, AmountHeldOnce, ExposedHeld, Exposed
  <2> QED BY <2>3, <2>4 DEF Reserved
<1>2. ASSUME NEW price \in Originals, NEW ttl \in TTLs,
             NEW c \in Channels \cup {NoChannel},
             Create(o, price, eligible, ttl, c, f)
      PROVE  Reserved'
  <2> DEFINE x == Allocate(price, f, Occupied(MerchantOf[o], c))
             row == Locked(NewOrder(price, eligible, ttl), c, x)
  <2>1. CASE c = NoChannel /\ order' = [order EXCEPT ![o] = NewOrder(price, eligible, ttl)]
                           /\ UNCHANGED reservations
    BY <1>1, <1>2, <2>1 DEF Create
  <2>2. CASE /\ c \in Channels
             /\ Offers(price, f) \ Occupied(MerchantOf[o], c) # {}
             /\ order' = [order EXCEPT ![o] = row]
             /\ Reserve(o, c, x)
    <3>1. x \in MinAmount .. MaxAmount /\ x \notin Occupied(MerchantOf[o], c)
      BY <2>2, AllocateFree, AmountAssumption
    <3>2. /\ NewOrder(price, eligible, ttl) \in OrderRow
          /\ NewOrder(price, eligible, ttl).status = "pending"
      BY NewOrderRow DEF Typed, NewOrder, Blank
    <3>3. /\ row \in OrderRow /\ row.status = "pending"
          /\ row.channel = c /\ row.actual = x
      BY <2>2, <3>1, <3>2, LockedRow DEF Typed
    <3>4. \A r \in reservations : r.order # o
      BY <1>2 DEF Create, Reserved, RowsAgree
    <3> HIDE DEF row, x
    <3> QED BY <1>2, <2>2, <3>1, <3>3, <3>4, ReserveReserved DEF Create
  <2> QED BY <1>2, <2>1, <2>2 DEF Create
<1>3. ASSUME NEW c \in Channels, SelectChannel(o, c, eligible, f)
      PROVE  Reserved'
  <2> DEFINE x == Allocate(order[o].original, f, Occupied(MerchantOf[o], c))
             row == Locked(order[o], c, x)
  <2>1. order[o] \in OrderRow /\ order[o].original \in Nat
    BY <1>3, AmountAssumption DEF SelectChannel, Typed, TypeOK, PriceInRange
  <2>2. x \in MinAmount .. MaxAmount /\ x \notin Occupied(MerchantOf[o], c)
    BY <1>3, <2>1, AllocateFree DEF SelectChannel
  <2>3. /\ row \in OrderRow /\ row.status = "pending"
        /\ row.channel = c /\ row.actual = x
    <3>1. c \in Channels /\ order[o].status = "pending"
      BY <1>3 DEF SelectChannel
    <3> QED BY <2>1, <2>2, <3>1, LockedRow DEF Typed
  <2>4. \A r \in reservations : r.order # o
    BY <1>3, NullAssumption
       DEF SelectChannel, Reserved, RowsAgree, Typed, TypeOK, ReservationRow
  <2>5. order' = [order EXCEPT ![o] = row] /\ Reserve(o, c, x) /\ clock' = clock
    BY <1>3 DEF SelectChannel
  <2> HIDE DEF row, x
  <2> QED BY <2>2, <2>3, <2>4, <2>5, ReserveReserved
<1> QED BY <1>1, <1>2, <1>3 DEF CreateSubscriptionOrder

LEMMA LapsingReserved == Typed /\ Reserved /\ Lapsing => Reserved'
<1> SUFFICES ASSUME Typed, Reserved, Lapsing PROVE Reserved'
  OBVIOUS
<1>1. ASSUME NEW o \in OrderIds, ExpireBatch(o) PROVE Reserved'
  BY <1>1, RetainReserved, {o} \cup {} = {o} DEF ExpireBatch, Due
<1>2. ASSUME NEW bought \in SUBSET SubscriptionOrders,
             CancelSubscriptionOrders(bought)
      PROVE  Reserved'
  <2> DEFINE open == PendingOf(bought)
  <2>1. /\ open \in SUBSET OrderIds /\ open \cup {} = open
        /\ \A o \in open : order[o].status = "pending"
    BY SubscriptionAssumption DEF PendingOf
  <2>2. /\ Expired(open, [o \in open |-> "cancelled"]) /\ Retain(open)
        /\ clock' = clock
    BY <1>2 DEF CancelSubscriptionOrders
  <2> HIDE DEF open
  <2> QED BY <2>1, <2>2, RetainReserved
<1>3. ASSUME NEW m \in Merchants, NEW bought \in SUBSET SubscriptionOrders,
             Ban(m, bought)
      PROVE  Reserved'
  <2> DEFINE own == PendingOf(OrdersOf(m))
             open == own \cup PendingOf(bought)
             banExpired == {o \in OrdersOf(m) : /\ order[o].status = "expired"
                                                 /\ order[o].reason = "banned"}
             why == [o \in open |-> IF o \in own THEN "banned" ELSE "cancelled"]
  <2>1. /\ Expired(open, why) /\ Retain(open \cup banExpired)
        /\ clock' = clock
    BY <1>3 DEF Ban
  <2>2. open \in SUBSET OrderIds /\ banExpired \in SUBSET OrderIds
    BY SubscriptionAssumption DEF OrdersOf, PendingOf
  <2>3. /\ \A o \in open : order[o].status = "pending"
        /\ \A o \in banExpired : order[o].status = "expired"
    BY DEF PendingOf
  <2> HIDE DEF open, banExpired, why
  <2> QED BY <2>1, <2>2, <2>3, RetainReserved
<1>4. ASSUME NEW m \in Merchants, Unban(m) PROVE Reserved'
  BY <1>4, LaterReserved DEF Unban
<1> QED BY <1>1, <1>2, <1>3, <1>4 DEF Lapsing, Query

LEMMA PayingReserved == Typed /\ Reserved /\ Paying => Reserved'
<1> SUFFICES ASSUME Typed, Reserved, Paying PROVE Reserved'
  OBVIOUS
<1>1. ASSUME NEW o \in OrderIds, NEW lag \in Lags, Pay(o, lag) PROVE Reserved'
  BY <1>1, LaterReserved DEF Pay
<1>2. ASSUME NEW p \in payments, NEW k \in Copies, IngestBegin(p, k)
      PROVE  Reserved'
  BY <1>2, LaterReserved DEF IngestBegin
<1>3. ASSUME NEW i \in inflight, NEW o \in OrderIds, IngestMatch(i, o)
      PROVE  Reserved'
  <2>1. i.payment.channel \in Channels
    BY DEF Typed, TypeOK, PaymentRow
  <2> QED BY <1>3, <2>1, MarkPaidReserved DEF IngestMatch
<1>4. ASSUME NEW i \in inflight, IngestUnmatched(i) \/ IngestRollback(i)
      PROVE  Reserved'
  BY <1>4, LaterReserved DEF IngestUnmatched, IngestRollback
<1>5. ASSUME NEW o \in OrderIds, NEW c \in Channels, Supplement(o, c)
      PROVE  Reserved'
  BY <1>5, MarkPaidReserved DEF Supplement
<1> QED BY <1>1, <1>2, <1>3, <1>4, <1>5 DEF Paying

LEMMA RefundingReserved == Typed /\ Reserved /\ Refunding => Reserved'
<1> SUFFICES ASSUME Typed, Reserved, Refunding PROVE Reserved'
  OBVIOUS
<1>1. ASSUME NEW r \in RefundIds,
             RejectRefund(r) \/ \E o \in OrderIds : RequestRefund(r, o)
      PROVE  Reserved'
  BY <1>1, LaterReserved DEF RequestRefund, RejectRefund
<1>2. ASSUME NEW r \in RefundIds, ApproveRefund(r) PROVE Reserved'
  <2>1. refund[r].order \in OrderIds
    BY <1>2 DEF ApproveRefund, Typed, TypeOK, RefundRow
  <2> QED BY <1>2, <2>1, MarkRefundedReserved DEF ApproveRefund
<1>3. ASSUME NEW o \in OrderIds, MarkRefunded(o) PROVE Reserved'
  BY <1>3, MarkRefundedReserved DEF MarkRefunded
<1> QED BY <1>1, <1>2, <1>3 DEF Refunding

LEMMA StepReserved == Typed /\ Reserved /\ [Next]_vars => Reserved'
<1>1. Typed /\ Reserved /\ Tick => Reserved'
  BY LaterReserved DEF Tick
<1>2. Typed /\ Reserved /\ UNCHANGED vars => Reserved'
  BY LaterReserved DEF vars
<1> QED BY <1>1, <1>2, CheckoutReserved, LapsingReserved, PayingReserved,
           RefundingReserved DEF Next

(* The amount a payer is shown belongs to one order of the merchant on     *)
(* that channel, for any number of orders and any settings: the unique     *)
(* indexes of amount_reservations are never violated.                      *)
THEOREM AmountsHeldOnce == Spec => []AmountHeldOnce
<1>1. Reserved => AmountHeldOnce
  BY DEF Reserved
<1> QED BY <1>1, InitTyped, StepTyped, InitReserved, StepReserved, PTL DEF Spec

(* The quote of every pending order, and of a lapsed one for 24 hours      *)
(* after its expiry, is reserved, however the order lapsed.                *)
THEOREM HoldsCoverExposure == Spec => []HoldCoversExposure
BY ReservedHolds, InitTyped, StepTyped, InitReserved, StepReserved, PTL DEF Spec

-----------------------------------------------------------------------------
(* Attribution.  No pending order shares the channel and amount of a past  *)
(* transfer made for another order, unless it took that quote after the    *)
(* transfer was stamped.                                                   *)

PaymentsPast == \A p \in payments : p.occurred < clock

RequestsReal == \A i \in inflight : i.payment \in payments

Rival(p, o) ==
    /\ o # p.order
    /\ MerchantOf[o] = MerchantOf[p.order]
    /\ order[o].status = "pending"
    /\ order[o].channel = p.channel /\ order[o].actual = p.amount

RivalsLater ==
    \A p \in payments, o \in OrderIds :
        Rival(p, o) => p.occurred < order[o].lockedAt

Attributed == PaymentsPast /\ RequestsReal /\ RivalsLater /\ ReceiptAttribution

LEMMA InitAttributed == Init => Attributed
BY DEF Init, Attributed, PaymentsPast, RequestsReal, RivalsLater, ReceiptAttribution

(* A step that leaves the money alone keeps the attribution when every     *)
(* order that is pending with a channel afterwards either was so before,   *)
(* with the same quote, or took its quote now.                             *)
LEMMA QuotesAttributed ==
    ASSUME Typed, Attributed, UNCHANGED money, clock' \in {clock, clock + 1},
           \A o \in OrderIds :
              order'[o].status = "pending" /\ order'[o].channel \in Channels =>
                 \/ /\ order[o].status = "pending"
                    /\ order'[o].channel = order[o].channel
                    /\ order'[o].actual = order[o].actual
                    /\ order'[o].lockedAt = order[o].lockedAt
                 \/ order'[o].lockedAt = clock
    PROVE  Attributed'
<1>1. PaymentsPast' /\ RequestsReal' /\ ReceiptAttribution'
  BY DEF Attributed, PaymentsPast, RequestsReal, ReceiptAttribution, money,
         Typed, TypeOK, PaymentRow
<1>2. RivalsLater'
  <2> SUFFICES ASSUME NEW p \in payments, NEW o \in OrderIds, Rival(p, o)'
               PROVE  p.occurred < order'[o].lockedAt
    BY DEF RivalsLater, money
  <2>1. p.channel \in Channels /\ p.occurred < clock
    BY DEF Typed, TypeOK, PaymentRow, Attributed, PaymentsPast
  <2>2. order'[o].status = "pending" /\ order'[o].channel \in Channels
    BY <2>1 DEF Rival, money
  <2>3. CASE order'[o].lockedAt = clock
    BY <2>1, <2>3
  <2>4. CASE /\ order[o].status = "pending"
             /\ order'[o].channel = order[o].channel
             /\ order'[o].actual = order[o].actual
             /\ order'[o].lockedAt = order[o].lockedAt
    <3>1. Rival(p, o)
      BY <2>4 DEF Rival, money
    <3> QED BY <2>4, <3>1 DEF Attributed, RivalsLater
  <2> QED BY <2>2, <2>3, <2>4
<1> QED BY <1>1, <1>2 DEF Attributed

LEMMA CheckoutAttributed == Typed /\ Attributed /\ Checkout => Attributed'
<1> SUFFICES ASSUME Typed, Attributed,
             NEW o \in OrderIds, NEW eligible \in SUBSET Channels,
             NEW f \in FloatSettings,
             \/ \E price \in Originals, ttl \in TTLs :
                   \/ \E c \in Channels \cup {NoChannel} :
                         Create(o, price, eligible, ttl, c, f)
                   \/ CreateSubscriptionOrder(o, price, eligible, ttl)
             \/ \E c \in Channels : SelectChannel(o, c, eligible, f)
             PROVE Attributed'
  BY DEF Checkout
<1>1. ASSUME NEW row, order' = [order EXCEPT ![o] = row],
             row.channel = NoChannel \/ row.lockedAt = clock,
             UNCHANGED <<money, clock>>
      PROVE  Attributed'
  <2>1. order'[o] = row /\ \A p \in OrderIds \ {o} : order'[p] = order[p]
    BY <1>1 DEF Typed, TypeOK
  <2> QED BY <1>1, <2>1, NullAssumption, QuotesAttributed
<1>2. ASSUME NEW price \in Originals, NEW ttl \in TTLs,
             NEW c \in Channels \cup {NoChannel},
             Create(o, price, eligible, ttl, c, f)
      PROVE  Attributed'
  <2> DEFINE new == NewOrder(price, eligible, ttl)
             x == Allocate(price, f, Occupied(MerchantOf[o], c))
  <2>1. new.channel = NoChannel /\ Locked(new, c, x).lockedAt = clock
    <3>1. new \in OrderRow
      BY NewOrderRow DEF Typed
    <3> QED BY <3>1 DEF NewOrder, Blank, Locked, OrderRow
  <2>2. \/ order' = [order EXCEPT ![o] = new]
        \/ order' = [order EXCEPT ![o] = Locked(new, c, x)]
    BY <1>2 DEF Create
  <2>3. UNCHANGED <<money, clock>>
    BY <1>2 DEF Create
  <2> HIDE DEF new, x
  <2> QED BY <1>1, <2>1, <2>2, <2>3
<1>3. ASSUME NEW price \in Originals, NEW ttl \in TTLs,
             CreateSubscriptionOrder(o, price, eligible, ttl)
      PROVE  Attributed'
  <2> DEFINE new == NewOrder(price, eligible, ttl)
  <2>1. new.channel = NoChannel
    BY DEF NewOrder, Blank
  <2>2. order' = [order EXCEPT ![o] = new] /\ UNCHANGED <<money, clock>>
    BY <1>3 DEF CreateSubscriptionOrder
  <2> HIDE DEF new
  <2> QED BY <1>1, <2>1, <2>2
<1>4. ASSUME NEW c \in Channels, SelectChannel(o, c, eligible, f)
      PROVE  Attributed'
  <2> DEFINE x == Allocate(order[o].original, f, Occupied(MerchantOf[o], c))
             row == Locked(order[o], c, x)
  <2>1. row.lockedAt = clock
    BY DEF Locked, Typed, TypeOK, OrderRow
  <2>2. order' = [order EXCEPT ![o] = row] /\ UNCHANGED <<money, clock>>
    BY <1>4 DEF SelectChannel
  <2> HIDE DEF row
  <2> QED BY <1>1, <2>1, <2>2
<1> QED BY <1>2, <1>3, <1>4

LEMMA LapsingAttributed == Typed /\ Attributed /\ Lapsing => Attributed'
<1> SUFFICES ASSUME Typed, Attributed, Lapsing PROVE Attributed'
  OBVIOUS
<1>1. ASSUME NEW S, NEW why, Expired(S, why), UNCHANGED <<money, clock>>
      PROVE  Attributed'
  <2>1. ASSUME NEW o \in OrderIds, order'[o].status = "pending"
        PROVE  order'[o] = order[o]
    <3>1. order[o] \in OrderRow
      BY DEF Typed, TypeOK
    <3>2. order'[o] = IF o \in S
                      THEN [order[o] EXCEPT !.status = "expired", !.reason = why[o]]
                      ELSE order[o]
      BY <1>1 DEF Expired
    <3> QED BY <2>1, <3>1, <3>2 DEF OrderRow
  <2> QED BY <1>1, <2>1, QuotesAttributed
<1>2. ASSUME NEW o \in OrderIds, ExpireBatch(o) PROVE Attributed'
  BY <1>1, <1>2 DEF ExpireBatch
<1>3. ASSUME NEW bought \in SUBSET SubscriptionOrders,
             CancelSubscriptionOrders(bought)
      PROVE  Attributed'
  BY <1>1, <1>3 DEF CancelSubscriptionOrders
<1>4. ASSUME NEW m \in Merchants, NEW bought \in SUBSET SubscriptionOrders,
             Ban(m, bought)
      PROVE  Attributed'
  BY <1>1, <1>4 DEF Ban
<1>5. ASSUME NEW m \in Merchants, Unban(m) PROVE Attributed'
  BY <1>5, QuotesAttributed DEF Unban
<1> QED BY <1>2, <1>3, <1>4, <1>5 DEF Lapsing, Query

LEMMA RefundingAttributed == Typed /\ Attributed /\ Refunding => Attributed'
<1> SUFFICES ASSUME Typed, Attributed, Refunding PROVE Attributed'
  OBVIOUS
<1>1. ASSUME NEW o \in OrderIds, MarkRefundedTx(o), UNCHANGED <<money, clock>>
      PROVE  Attributed'
  <2>1. order'[o].status = "refunded" /\ \A p \in OrderIds \ {o} : order'[p] = order[p]
    BY <1>1 DEF MarkRefundedTx, Typed, TypeOK, OrderRow
  <2> QED BY <1>1, <2>1, QuotesAttributed
<1>2. ASSUME NEW r \in RefundIds,
             RejectRefund(r) \/ \E o \in OrderIds : RequestRefund(r, o)
      PROVE  Attributed'
  BY <1>2, QuotesAttributed DEF RequestRefund, RejectRefund
<1>3. ASSUME NEW r \in RefundIds, ApproveRefund(r) PROVE Attributed'
  <2>1. refund[r].order \in OrderIds
    BY <1>3 DEF ApproveRefund, Typed, TypeOK, RefundRow
  <2> QED BY <1>1, <1>3, <2>1 DEF ApproveRefund
<1>4. ASSUME NEW o \in OrderIds, MarkRefunded(o) PROVE Attributed'
  BY <1>1, <1>4 DEF MarkRefunded
<1> QED BY <1>2, <1>3, <1>4 DEF Refunding

(* After a settlement every pending order is as it was before.             *)
LEMMA MarkPaidPending ==
    ASSUME Typed, NEW o \in OrderIds, NEW c \in Channels,
           NEW byHand \in BOOLEAN, MarkPaidTx(o, c, byHand),
           NEW p \in OrderIds, order'[p].status = "pending"
    PROVE  order'[p] = order[p]
<1>1. CASE order[o].status = "paid"
  BY <1>1 DEF MarkPaidTx
<1>2. CASE order[o].status # "paid"
  <2>1. order' = [order EXCEPT ![o] = Settled(order[o], c, byHand)]
    BY <1>2 DEF MarkPaidTx
  <2>2. order[o] \in OrderRow
    BY DEF Typed, TypeOK
  <2>3. Settled(order[o], c, byHand).status = "paid"
    BY <2>2 DEF Settled, OrderRow
  <2> QED BY <2>1, <2>3 DEF Typed, TypeOK
<1> QED BY <1>1, <1>2

LEMMA PayingAttributed == Typed /\ Reserved /\ Attributed /\ Paying => Attributed'
<1> SUFFICES ASSUME Typed, Reserved, Attributed, Paying PROVE Attributed'
  OBVIOUS
<1>1. ASSUME NEW o \in OrderIds, NEW lag \in Lags, Pay(o, lag) PROVE Attributed'
  <2> DEFINE p == [order |-> o, channel |-> order[o].channel,
                   amount |-> order[o].actual, occurred |-> clock - lag]
  <2>1. /\ payments' = payments \cup {p} /\ clock' = clock + 1
        /\ UNCHANGED <<order, reservations, inflight, receipts>>
    BY <1>1 DEF Pay
  <2>2. clock \in Nat /\ p.occurred <= clock /\ p.occurred \in Int
    BY TimeAssumption DEF Typed, TypeOK
  <2>3. \A q \in payments : q.occurred \in Int /\ q.occurred < clock
    BY DEF Typed, TypeOK, PaymentRow, Attributed, PaymentsPast
  <2>4. PaymentsPast'
    BY <2>1, <2>2, <2>3 DEF PaymentsPast
  <2>5. RequestsReal' /\ ReceiptAttribution'
    BY <2>1 DEF Attributed, RequestsReal, ReceiptAttribution
  <2>6. ASSUME NEW q \in OrderIds, Rival(p, q) PROVE FALSE
    <3>1. Exposed(o)
      BY <1>1 DEF Pay, Exposed, RetainedUntil
    <3>2. Exposed(q)
      BY <1>1, <2>6 DEF Pay, Exposed, Rival
    <3>3. PICK r \in reservations : r.order = o
      BY <3>1 DEF Reserved, ExposedHeld
    <3>4. PICK s \in reservations : s.order = q
      BY <3>2 DEF Reserved, ExposedHeld
    <3>5. r.channel = s.channel /\ r.amount = s.amount
      BY <2>6, <3>3, <3>4 DEF Reserved, RowsAgree, Rival
    <3> QED BY <2>6, <3>3, <3>4, <3>5 DEF Reserved, AmountHeldOnce, Rival
  <2>7. RivalsLater'
    <3> HIDE DEF p
    <3> SUFFICES ASSUME NEW q \in payments', NEW x \in OrderIds, Rival(q, x)
                 PROVE  q.occurred < order[x].lockedAt
      BY <2>1 DEF RivalsLater, Rival
    <3> QED BY <2>1, <2>6 DEF Attributed, RivalsLater
  <2> QED BY <2>4, <2>5, <2>7 DEF Attributed
<1>2. ASSUME NEW p \in payments, NEW k \in Copies, IngestBegin(p, k)
      PROVE  Attributed'
  BY <1>2 DEF IngestBegin, Attributed, PaymentsPast, RequestsReal, RivalsLater,
              ReceiptAttribution, Rival
<1>3. ASSUME NEW i \in inflight, NEW o \in OrderIds, IngestMatch(i, o)
      PROVE  Attributed'
  <2>1. i.payment \in payments /\ i.payment \in PaymentRow
    BY DEF Attributed, RequestsReal, Typed, TypeOK
  <2>2. o = i.payment.order
    <3>1. o \in Matches(i)
      BY <1>3 DEF IngestMatch, Oldest
    <3>2. order[o].lockedAt <= i.payment.occurred
      BY <3>1 DEF Matches
    <3>3. o # i.payment.order => Rival(i.payment, o)
      BY <3>1 DEF Matches, Rival
    <3>4. order[o].lockedAt \in Nat /\ i.payment.occurred \in Int
      BY <2>1 DEF Typed, TypeOK, OrderRow, PaymentRow
    <3> QED BY <2>1, <3>2, <3>3, <3>4 DEF Attributed, RivalsLater
  <2>3. ReceiptAttribution'
    BY <1>3, <2>2 DEF IngestMatch, Record, Attributed, ReceiptAttribution
  <2>4. UNCHANGED <<payments, clock>> /\ inflight' \subseteq inflight
    BY <1>3 DEF IngestMatch
  <2>5. \A q \in OrderIds : order'[q].status = "pending" => order'[q] = order[q]
    BY <1>3, <2>1, MarkPaidPending DEF IngestMatch, PaymentRow
  <2>6. RivalsLater'
    BY <2>4, <2>5 DEF Attributed, RivalsLater, Rival
  <2> QED BY <2>3, <2>4, <2>6 DEF Attributed, PaymentsPast, RequestsReal
<1>4. ASSUME NEW i \in inflight, IngestUnmatched(i) PROVE Attributed'
  BY <1>4 DEF IngestUnmatched, Record, Attributed, PaymentsPast, RequestsReal,
              RivalsLater, ReceiptAttribution, Rival
<1>5. ASSUME NEW i \in inflight, IngestRollback(i) PROVE Attributed'
  BY <1>5 DEF IngestRollback, Attributed, PaymentsPast, RequestsReal,
              RivalsLater, ReceiptAttribution, Rival
<1>6. ASSUME NEW o \in OrderIds, NEW c \in Channels, Supplement(o, c)
      PROVE  Attributed'
  <2>1. \A q \in OrderIds : order'[q].status = "pending" => order'[q] = order[q]
    BY <1>6, MarkPaidPending DEF Supplement
  <2> QED BY <1>6, <2>1, QuotesAttributed DEF Supplement
<1> QED BY <1>1, <1>2, <1>3, <1>4, <1>5, <1>6 DEF Paying

LEMMA StepAttributed ==
    Typed /\ Reserved /\ Attributed /\ [Next]_vars => Attributed'
<1>1. Typed /\ Attributed /\ Tick => Attributed'
  BY QuotesAttributed DEF Tick
<1>2. Typed /\ Attributed /\ UNCHANGED vars => Attributed'
  BY QuotesAttributed DEF vars
<1> QED BY <1>1, <1>2, CheckoutAttributed, LapsingAttributed, PayingAttributed,
           RefundingAttributed DEF Next

(* A receipt never settles another order than the one it was paid for, for *)
(* any number of merchants, orders, transfers, phones and repetitions.     *)
THEOREM ReceiptsAttributed == Spec => []ReceiptAttribution
<1>1. Attributed => ReceiptAttribution
  BY DEF Attributed
<1> QED BY <1>1, InitTyped, StepTyped, InitReserved, StepReserved,
           InitAttributed, StepAttributed, PTL DEF Spec

-----------------------------------------------------------------------------
(* What a step may do to one order: nothing, or one move of its life.  The *)
(* invariants and action properties below are proved from these moves.     *)

SameTerms(o) ==
    /\ order'[o].manual = order[o].manual
    /\ order'[o].channel = order[o].channel
    /\ order'[o].actual = order[o].actual
    /\ order'[o].created = order[o].created
    /\ order'[o].lockedAt = order[o].lockedAt

Opens(o) ==
    /\ order[o].status = "absent" /\ order'[o].status = "pending"
    /\ MerchantOf[o] \notin banned
    /\ ~ order'[o].manual
    /\ order'[o].created = clock
    /\ order'[o].channel # NoChannel => order'[o].lockedAt = clock

Quoted(o) ==
    /\ order[o].status = "pending" /\ order'[o].status = "pending"
    /\ MerchantOf[o] \notin banned
    /\ order[o].channel = NoChannel
    /\ order'[o].manual = order[o].manual
    /\ order'[o].created = order[o].created
    /\ order'[o].lockedAt = clock

Lapses(o) ==
    /\ order[o].status = "pending" /\ order'[o].status = "expired"
    /\ SameTerms(o)

Books(o, byHand) ==
    /\ IF byHand THEN order[o].status \in {"pending", "expired"}
                 ELSE order[o].status = "pending" /\ clock < order[o].expires
    /\ order'[o].status = "paid" /\ order'[o].manual = byHand
    /\ order[o].channel # NoChannel => /\ order'[o].channel = order[o].channel
                                       /\ order'[o].actual = order[o].actual
    /\ order'[o].created = order[o].created

BooksReceipt(o) == Books(o, FALSE) /\ \E x \in receipts' : x.settled = o

Returns(o) ==
    /\ order[o].status = "paid" /\ order'[o].status = "refunded"
    /\ SameTerms(o)
    /\ \A r \in PendingRefunds(o) : refund'[r].status # "pending"

Evolves(o) ==
    \/ order'[o] = order[o]
    \/ Opens(o) \/ Quoted(o) \/ Lapses(o)
    \/ Books(o, TRUE) \/ BooksReceipt(o) \/ Returns(o)

(* One row is replaced.                                                    *)
LEMMA OneRow ==
    ASSUME Typed, NEW o \in OrderIds, NEW row, order' = [order EXCEPT ![o] = row]
    PROVE  order'[o] = row /\ \A p \in OrderIds \ {o} : order'[p] = order[p]
BY DEF Typed, TypeOK

LEMMA CheckoutEvolves ==
    ASSUME Typed, Checkout
    PROVE  \A o \in OrderIds : Evolves(o)
<1> SUFFICES ASSUME
             NEW o \in OrderIds, NEW eligible \in SUBSET Channels,
             NEW f \in FloatSettings,
             \/ \E price \in Originals, ttl \in TTLs :
                   \/ \E c \in Channels \cup {NoChannel} :
                         Create(o, price, eligible, ttl, c, f)
                   \/ CreateSubscriptionOrder(o, price, eligible, ttl)
             \/ \E c \in Channels : SelectChannel(o, c, eligible, f)
             PROVE \A p \in OrderIds : Evolves(p)
  BY DEF Checkout
<1>1. ASSUME NEW price \in Originals, NEW ttl \in TTLs, NEW c, NEW x,
             order[o].status = "absent", MerchantOf[o] \notin banned,
             \/ order' = [order EXCEPT ![o] = NewOrder(price, eligible, ttl)]
             \/ order' = [order EXCEPT
                            ![o] = Locked(NewOrder(price, eligible, ttl), c, x)]
      PROVE  \A p \in OrderIds : Evolves(p)
  <2> DEFINE new == NewOrder(price, eligible, ttl)
  <2>1. /\ new \in OrderRow
        /\ new.status = "pending" /\ new.channel = NoChannel
        /\ new.manual = FALSE /\ new.created = clock
    BY NewOrderRow DEF Typed, NewOrder, Blank
  <2>2. /\ Locked(new, c, x).status = "pending" /\ Locked(new, c, x).manual = FALSE
        /\ Locked(new, c, x).created = clock /\ Locked(new, c, x).lockedAt = clock
    <3> HIDE DEF new
    <3> QED BY <2>1 DEF Locked, OrderRow
  <2>3. order'[o] \in {new, Locked(new, c, x)}
        /\ \A p \in OrderIds \ {o} : order'[p] = order[p]
    BY <1>1, OneRow
  <2> HIDE DEF new
  <2>4. Opens(o)
    BY <1>1, <2>1, <2>2, <2>3 DEF Opens
  <2> QED BY <2>3, <2>4 DEF Evolves
<1>2. ASSUME NEW price \in Originals, NEW ttl \in TTLs,
             NEW c \in Channels \cup {NoChannel},
             Create(o, price, eligible, ttl, c, f)
      PROVE  \A p \in OrderIds : Evolves(p)
  BY <1>1, <1>2 DEF Create
<1>3. ASSUME NEW price \in Originals, NEW ttl \in TTLs,
             CreateSubscriptionOrder(o, price, eligible, ttl)
      PROVE  \A p \in OrderIds : Evolves(p)
  BY <1>1, <1>3 DEF CreateSubscriptionOrder
<1>4. ASSUME NEW c \in Channels, SelectChannel(o, c, eligible, f)
      PROVE  \A p \in OrderIds : Evolves(p)
  <2> DEFINE x == Allocate(order[o].original, f, Occupied(MerchantOf[o], c))
             row == Locked(order[o], c, x)
  <2>1. /\ row.status = order[o].status /\ row.manual = order[o].manual
        /\ row.created = order[o].created /\ row.lockedAt = clock
    BY DEF Locked, Typed, TypeOK, OrderRow
  <2>2. /\ order[o].status = "pending" /\ order[o].channel = NoChannel
        /\ MerchantOf[o] \notin banned /\ order' = [order EXCEPT ![o] = row]
    BY <1>4 DEF SelectChannel
  <2> HIDE DEF row
  <2>3. order'[o] = row /\ \A p \in OrderIds \ {o} : order'[p] = order[p]
    BY <2>2, OneRow
  <2>4. Quoted(o)
    BY <2>1, <2>2, <2>3 DEF Quoted
  <2> QED BY <2>3, <2>4 DEF Evolves
<1> QED BY <1>2, <1>3, <1>4

LEMMA LapsingEvolves ==
    ASSUME Typed, Lapsing
    PROVE  \A o \in OrderIds : Evolves(o)
<1>1. ASSUME NEW S, \A o \in S : order[o].status = "pending",
             NEW why, Expired(S, why), NEW o \in OrderIds
      PROVE  Evolves(o)
  <2>1. order[o] \in OrderRow
    BY DEF Typed, TypeOK
  <2>2. order'[o] = IF o \in S
                    THEN [order[o] EXCEPT !.status = "expired", !.reason = why[o]]
                    ELSE order[o]
    BY <1>1 DEF Expired
  <2>3. o \in S => Lapses(o)
    BY <1>1, <2>1, <2>2 DEF Lapses, SameTerms, OrderRow
  <2> QED BY <2>2, <2>3 DEF Evolves
<1>2. ASSUME NEW o \in OrderIds, ExpireBatch(o)
      PROVE  \A p \in OrderIds : Evolves(p)
  BY <1>1, <1>2 DEF ExpireBatch, Due
<1>3. ASSUME NEW bought \in SUBSET SubscriptionOrders,
             CancelSubscriptionOrders(bought)
      PROVE  \A p \in OrderIds : Evolves(p)
  <2>1. \A o \in PendingOf(bought) : order[o].status = "pending"
    BY DEF PendingOf
  <2> QED BY <1>1, <1>3, <2>1 DEF CancelSubscriptionOrders
<1>4. ASSUME NEW m \in Merchants, NEW bought \in SUBSET SubscriptionOrders,
             Ban(m, bought)
      PROVE  \A p \in OrderIds : Evolves(p)
  <2> DEFINE own == PendingOf(OrdersOf(m))
             open == own \cup PendingOf(bought)
             why == [o \in open |-> IF o \in own THEN "banned" ELSE "cancelled"]
  <2>1. \A o \in open : order[o].status = "pending"
    BY DEF PendingOf
  <2>2. Expired(open, why)
    BY <1>4 DEF Ban
  <2> HIDE DEF open, why
  <2> QED BY <1>1, <2>1, <2>2
<1>5. ASSUME NEW m \in Merchants, Unban(m)
      PROVE  \A p \in OrderIds : Evolves(p)
  BY <1>5 DEF Unban, Evolves
<1> QED BY <1>2, <1>3, <1>4, <1>5 DEF Lapsing, Query

(* A settlement books the one order it is called for, once.                *)
LEMMA MarkPaidBooks ==
    ASSUME Typed, NEW o \in OrderIds, NEW c \in Channels,
           NEW byHand \in BOOLEAN, MarkPaidTx(o, c, byHand),
           order[o].status # "paid"
    PROVE  Books(o, byHand) /\ \A p \in OrderIds \ {o} : order'[p] = order[p]
<1> DEFINE row == Settled(order[o], c, byHand)
<1>1. order[o] \in OrderRow
  BY DEF Typed, TypeOK
<1>2. Payable(o, c, byHand) /\ order' = [order EXCEPT ![o] = row]
  BY DEF MarkPaidTx
<1>3. /\ row.status = "paid" /\ row.manual = byHand /\ row.channel = c
      /\ row.created = order[o].created
      /\ order[o].channel # NoChannel => row.actual = order[o].actual
  BY <1>1 DEF Settled, OrderRow
<1> HIDE DEF row
<1>4. order'[o] = row /\ \A p \in OrderIds \ {o} : order'[p] = order[p]
  BY <1>2, OneRow
<1> QED BY <1>2, <1>3, <1>4 DEF Books, Payable

(* What the ingestion of a receipt does: it books the order it is recorded *)
(* for, and no other.                                                      *)
LEMMA IngestBooks ==
    ASSUME Typed, NEW i \in inflight, NEW o \in OrderIds, IngestMatch(i, o)
    PROVE  BooksReceipt(o) /\ \A p \in OrderIds \ {o} : order'[p] = order[p]
<1>1. i.payment.channel \in Channels
  BY DEF Typed, TypeOK, PaymentRow
<1>2. order[o].status = "pending" /\ MarkPaidTx(o, i.payment.channel, FALSE)
  BY DEF IngestMatch, Oldest, Matches
<1>3. Books(o, FALSE) /\ \A p \in OrderIds \ {o} : order'[p] = order[p]
  BY <1>1, <1>2, MarkPaidBooks
<1>4. \E x \in receipts' : x.settled = o
  <2> DEFINE x == [payment |-> i.payment, copy |-> i.copy, settled |-> o]
  <2>1. x \in receipts' /\ x.settled = o
    BY DEF IngestMatch, Record
  <2> QED BY <2>1
<1> QED BY <1>3, <1>4 DEF BooksReceipt

LEMMA PayingEvolves ==
    ASSUME Typed, Paying
    PROVE  \A o \in OrderIds : Evolves(o)
<1>1. ASSUME UNCHANGED order PROVE \A o \in OrderIds : Evolves(o)
  BY <1>1 DEF Evolves
<1>2. ASSUME NEW i \in inflight, NEW o \in OrderIds, IngestMatch(i, o)
      PROVE  \A p \in OrderIds : Evolves(p)
  BY <1>2, IngestBooks DEF Evolves
<1>3. ASSUME NEW o \in OrderIds, NEW c \in Channels, Supplement(o, c)
      PROVE  \A p \in OrderIds : Evolves(p)
  <2>1. Books(o, TRUE) /\ \A p \in OrderIds \ {o} : order'[p] = order[p]
    BY <1>3, MarkPaidBooks DEF Supplement
  <2> QED BY <2>1 DEF Evolves
<1> QED BY <1>1, <1>2, <1>3
        DEF Paying, Pay, IngestBegin, IngestUnmatched, IngestRollback

LEMMA MarkRefundedReturns ==
    ASSUME Typed, NEW o \in OrderIds, MarkRefundedTx(o)
    PROVE  Returns(o) /\ \A p \in OrderIds \ {o} : order'[p] = order[p]
<1> DEFINE row == [order[o] EXCEPT !.status = "refunded"]
<1>1. order[o] \in OrderRow
  BY DEF Typed, TypeOK
<1>2. /\ row.status = "refunded" /\ row.manual = order[o].manual
      /\ row.channel = order[o].channel /\ row.actual = order[o].actual
      /\ row.created = order[o].created /\ row.lockedAt = order[o].lockedAt
  BY <1>1 DEF OrderRow
<1>3. order[o].status = "paid" /\ order' = [order EXCEPT ![o] = row]
  BY DEF MarkRefundedTx
<1> HIDE DEF row
<1>4. order'[o] = row /\ \A p \in OrderIds \ {o} : order'[p] = order[p]
  BY <1>3, OneRow
<1>5. ASSUME NEW r \in PendingRefunds(o) PROVE refund'[r].status # "pending"
  <2>1. r \in RefundIds /\ refund[r] \in RefundRow
    BY DEF PendingRefunds, Typed, TypeOK
  <2>2. refund'[r] = [refund[r] EXCEPT !.status = "completed"]
    BY <2>1 DEF MarkRefundedTx
  <2> QED BY <2>1, <2>2 DEF RefundRow
<1> QED BY <1>2, <1>3, <1>4, <1>5 DEF Returns, SameTerms

LEMMA RefundingEvolves ==
    ASSUME Typed, Refunding
    PROVE  \A o \in OrderIds : Evolves(o)
<1>1. ASSUME NEW o \in OrderIds, MarkRefundedTx(o)
      PROVE  \A p \in OrderIds : Evolves(p)
  BY <1>1, MarkRefundedReturns DEF Evolves
<1>2. ASSUME NEW r \in RefundIds, ApproveRefund(r)
      PROVE  \A p \in OrderIds : Evolves(p)
  <2>1. refund[r].order \in OrderIds
    BY <1>2 DEF ApproveRefund, Typed, TypeOK, RefundRow
  <2> QED BY <1>1, <1>2, <2>1 DEF ApproveRefund
<1> QED BY <1>1, <1>2 DEF Refunding, MarkRefunded, RequestRefund, RejectRefund, Evolves

LEMMA StepEvolves == Typed /\ [Next]_vars => \A o \in OrderIds : Evolves(o)
<1>1. Tick => \A o \in OrderIds : Evolves(o)
  BY DEF Tick, Evolves
<1>2. UNCHANGED vars => \A o \in OrderIds : Evolves(o)
  BY DEF vars, Evolves
<1> QED BY <1>1, <1>2, CheckoutEvolves, LapsingEvolves, PayingEvolves,
           RefundingEvolves DEF Next

-----------------------------------------------------------------------------
(* Settlement.                                                             *)

(* A step records at most one receipt, and a receipt that settles an order *)
(* books it in the same step.                                              *)
LEMMA StepReceipts ==
    ASSUME Typed, [Next]_vars
    PROVE  /\ receipts \subseteq receipts'
           /\ \A x, y \in receipts' \ receipts : x = y
           /\ \A x \in receipts' \ receipts :
                 x.settled # NoOrder =>
                    x.settled \in OrderIds /\ Books(x.settled, FALSE)
<1> DEFINE G == /\ receipts \subseteq receipts'
                /\ \A x, y \in receipts' \ receipts : x = y
                /\ \A x \in receipts' \ receipts :
                      x.settled # NoOrder =>
                         x.settled \in OrderIds /\ Books(x.settled, FALSE)
<1>1. ASSUME NEW i \in inflight, NEW o \in OrderIds, IngestMatch(i, o) PROVE G
  <2> DEFINE x == [payment |-> i.payment, copy |-> i.copy, settled |-> o]
  <2>1. receipts' = receipts \cup {x} /\ x.settled = o
    BY <1>1 DEF IngestMatch, Record
  <2>2. Books(o, FALSE)
    BY <1>1, IngestBooks DEF BooksReceipt
  <2> HIDE DEF x
  <2> QED BY <2>1, <2>2
<1>2. ASSUME NEW i \in inflight, IngestUnmatched(i) PROVE G
  <2> DEFINE x == [payment |-> i.payment, copy |-> i.copy, settled |-> NoOrder]
  <2>1. receipts' = receipts \cup {x} /\ x.settled = NoOrder
    BY <1>2 DEF IngestUnmatched, Record
  <2> HIDE DEF x
  <2> QED BY <2>1
<1>3. UNCHANGED receipts => G
  OBVIOUS
<1>4. Tick \/ Checkout \/ Lapsing \/ Refunding => UNCHANGED receipts
  <2>1. Tick \/ Checkout => UNCHANGED receipts
    BY DEF Tick, Checkout, Create, CreateSubscriptionOrder, SelectChannel, money
  <2>2. Lapsing => UNCHANGED receipts
    BY DEF Lapsing, ExpireBatch, Query, CancelSubscriptionOrders, Ban, Unban, money
  <2>3. Refunding => UNCHANGED receipts
    BY DEF Refunding, RequestRefund, RejectRefund, ApproveRefund, MarkRefunded, money
  <2> QED BY <2>1, <2>2, <2>3
<1>5. Paying => G
  BY <1>1, <1>2, <1>3
     DEF Paying, Pay, IngestBegin, IngestRollback, Supplement, money
<1> QED BY <1>3, <1>4, <1>5 DEF Next, vars, money

LEMMA InitSettlement == Init => OneReceiptPerSettlement
BY DEF Init, Blank, OneReceiptPerSettlement

LEMMA StepSettlement ==
    Typed /\ OneReceiptPerSettlement /\ [Next]_vars => OneReceiptPerSettlement'
<1> SUFFICES ASSUME Typed, OneReceiptPerSettlement, [Next]_vars
             PROVE  OneReceiptPerSettlement'
  OBVIOUS
<1> DEFINE Automatic(o) == /\ order[o].status \in {"paid", "refunded"}
                           /\ ~ order[o].manual
<1>1. ASSUME NEW x \in receipts' \ receipts, x.settled # NoOrder
      PROVE  \A y \in receipts : y.settled # x.settled
  <2>1. x.settled \in OrderIds /\ order[x.settled].status = "pending"
    BY <1>1, StepReceipts DEF Books
  <2> QED BY <2>1 DEF OneReceiptPerSettlement
<1>2. ASSUME NEW x \in receipts', NEW y \in receipts',
             x.settled # NoOrder, x.settled = y.settled
      PROVE  x = y
  <2>1. CASE x \in receipts /\ y \in receipts
    BY <1>2, <2>1 DEF OneReceiptPerSettlement
  <2>2. CASE x \notin receipts \/ y \notin receipts
    BY <1>1, <1>2, <2>2, StepReceipts
  <2> QED BY <2>1, <2>2
<1>3. ASSUME NEW o \in OrderIds
      PROVE  (\E x \in receipts' : x.settled = o) <=> Automatic(o)'
  <2>1. (\E x \in receipts : x.settled = o) <=> Automatic(o)
    BY DEF OneReceiptPerSettlement
  <2>2. \A x \in receipts' \ receipts : x.settled = o => Books(o, FALSE)
    BY StepReceipts, NullAssumption
  <2>3. receipts \subseteq receipts'
    BY StepReceipts
  <2>4. order[o] \in OrderRow
    BY DEF Typed, TypeOK
  <2>5. CASE order'[o] = order[o] \/ Opens(o) \/ Quoted(o) \/ Lapses(o) \/ Returns(o)
    <3>1. ~ Books(o, FALSE)
      BY <2>4, <2>5 DEF Books, Opens, Quoted, Lapses, Returns
    <3>2. Automatic(o)' <=> Automatic(o)
      BY <2>5 DEF Opens, Quoted, Lapses, Returns, SameTerms
    <3> QED BY <2>1, <2>2, <2>3, <3>1, <3>2
  <2>6. CASE Books(o, TRUE)
    BY <2>1, <2>2, <2>6 DEF Books
  <2>7. CASE BooksReceipt(o)
    BY <2>7 DEF BooksReceipt, Books
  <2> QED BY <2>5, <2>6, <2>7, StepEvolves DEF Evolves
<1> QED BY <1>2, <1>3 DEF OneReceiptPerSettlement

(* Matched receipts and orders paid automatically correspond one to one:   *)
(* no order is settled by two receipts, none by a receipt after it was     *)
(* booked by hand, and a refund keeps the record of how it was paid.       *)
THEOREM SettledByOneReceipt == Spec => []OneReceiptPerSettlement
BY InitTyped, StepTyped, InitSettlement, StepSettlement, PTL DEF Spec

(* However long the ingestion request waited between its clock read and    *)
(* its transaction, no step settles an order automatically that is not     *)
(* pending or is past its expiry by the clock of that step.                *)
THEOREM SettledInTime == Spec => AutomaticOnlyInTime
<1>1. Typed /\ [Next]_vars =>
         \A o \in OrderIds :
            /\ order[o].status # "paid" /\ order'[o].status = "paid"
            /\ ~ order'[o].manual
            => order[o].status = "pending" /\ clock < order[o].expires
  <2> SUFFICES ASSUME Typed, [Next]_vars, NEW o \in OrderIds,
                      order[o].status # "paid", order'[o].status = "paid",
                      ~ order'[o].manual
               PROVE  order[o].status = "pending" /\ clock < order[o].expires
    OBVIOUS
  <2>1. Evolves(o)
    BY StepEvolves
  <2>2. Books(o, FALSE)
    BY <2>1 DEF Evolves, Opens, Quoted, Lapses, Returns, Books, BooksReceipt
  <2> QED BY <2>2 DEF Books
<1> QED BY <1>1, InitTyped, StepTyped, PTL DEF Spec, AutomaticOnlyInTime

-----------------------------------------------------------------------------
(* Bans.                                                                   *)

LEMMA InitBanned == Init => BannedHasNoPending
BY DEF Init, BannedHasNoPending

LEMMA StepBanned == Typed /\ BannedHasNoPending /\ [Next]_vars => BannedHasNoPending'
<1> SUFFICES ASSUME Typed, BannedHasNoPending, [Next]_vars
             PROVE  BannedHasNoPending'
  OBVIOUS
<1>1. ASSUME banned' \subseteq banned PROVE BannedHasNoPending'
  <2> SUFFICES ASSUME NEW o \in OrderIds, MerchantOf[o] \in banned
               PROVE  order'[o].status # "pending"
    BY <1>1 DEF BannedHasNoPending
  <2>1. order[o].status # "pending"
    BY DEF BannedHasNoPending
  <2> QED BY <2>1, StepEvolves
          DEF Evolves, Opens, Quoted, Lapses, Books, BooksReceipt, Returns
<1>2. ASSUME NEW m \in Merchants, NEW bought \in SUBSET SubscriptionOrders,
             Ban(m, bought)
      PROVE  BannedHasNoPending'
  <2> SUFFICES ASSUME NEW o \in OrderIds, MerchantOf[o] \in banned \cup {m}
               PROVE  order'[o].status # "pending"
    BY <1>2 DEF Ban, BannedHasNoPending
  <2>1. CASE order[o].status = "pending"
    <3> DEFINE own == PendingOf(OrdersOf(m))
               open == own \cup PendingOf(bought)
               why == [p \in open |-> IF p \in own THEN "banned" ELSE "cancelled"]
    <3>1. MerchantOf[o] = m
      BY <2>1 DEF BannedHasNoPending
    <3>2. o \in open
      BY <2>1, <3>1 DEF PendingOf, OrdersOf
    <3>3. Expired(open, why)
      BY <1>2 DEF Ban
    <3> HIDE DEF open, why
    <3>4. order[o] \in OrderRow
      BY DEF Typed, TypeOK
    <3>5. order'[o] = [order[o] EXCEPT !.status = "expired", !.reason = why[o]]
      BY <3>2, <3>3 DEF Expired
    <3> QED BY <3>4, <3>5 DEF OrderRow
  <2>2. CASE order[o].status # "pending"
    <3>1. order[o] \in OrderRow
      BY DEF Typed, TypeOK
    <3>2. \/ order'[o] = order[o]
          \/ \E w : order'[o] = [order[o] EXCEPT !.status = "expired", !.reason = w]
      BY <1>2 DEF Ban, Expired
    <3> QED BY <2>2, <3>1, <3>2 DEF OrderRow
  <2> QED BY <2>1, <2>2
<1>3. ASSUME UNCHANGED banned PROVE BannedHasNoPending'
  BY <1>1, <1>3
<1>4. Tick \/ Checkout \/ Paying \/ Refunding => UNCHANGED banned
  <2>1. Tick \/ Checkout => UNCHANGED banned
    BY DEF Tick, Checkout, Create, CreateSubscriptionOrder, SelectChannel
  <2>2. Paying => UNCHANGED banned
    BY DEF Paying, Pay, IngestBegin, IngestMatch, IngestUnmatched,
           IngestRollback, Supplement
  <2>3. Refunding => UNCHANGED banned
    BY DEF Refunding, RequestRefund, RejectRefund, ApproveRefund, MarkRefunded
  <2> QED BY <2>1, <2>2, <2>3
<1>5. Lapsing => BannedHasNoPending'
  BY <1>1, <1>2, <1>3 DEF Lapsing, ExpireBatch, Query, CancelSubscriptionOrders, Unban
<1> QED BY <1>3, <1>4, <1>5 DEF Next, vars

(* No ban leaves the merchant an order that could still be paid, and none  *)
(* is opened or priced while the ban stands.                               *)
THEOREM BannedUnpayable == Spec => []BannedHasNoPending
BY InitTyped, StepTyped, InitBanned, StepBanned, PTL DEF Spec

-----------------------------------------------------------------------------
(* Refunds.  "At most one open request" is carried as uniqueness, and a    *)
(* request that was made names its order.                                  *)

RequestsNamed ==
    \A r \in RefundIds : refund[r].status # "none" => refund[r].order \in OrderIds

RequestsFollow ==
    \A r \in RefundIds :
        /\ refund[r].status = "pending" => order[refund[r].order].status = "paid"
        /\ refund[r].status = "completed" =>
              order[refund[r].order].status = "refunded"

OneOpenRequest ==
    \A o \in OrderIds : \A r, s \in PendingRefunds(o) : r = s

Refundable == RequestsNamed /\ RequestsFollow /\ OneOpenRequest

LEMMA RefundableHolds == Refundable => RefundsFollowOrder
<1> SUFFICES ASSUME Refundable PROVE RefundsFollowOrder
  OBVIOUS
<1>1. ASSUME NEW o \in OrderIds PROVE Cardinality(PendingRefunds(o)) <= 1
  <2>1. CASE PendingRefunds(o) = {}
    <3>1. Cardinality({}) = 0
      BY FS_EmptySet
    <3> QED BY <2>1, <3>1
  <2>2. CASE PendingRefunds(o) # {}
    <3>1. PICK r : r \in PendingRefunds(o)
      BY <2>2
    <3>2. PendingRefunds(o) = {r}
      BY <3>1 DEF Refundable, OneOpenRequest
    <3>3. Cardinality({r}) = 1
      BY FS_Singleton
    <3> QED BY <3>2, <3>3
  <2> QED BY <2>1, <2>2
<1> QED BY <1>1 DEF Refundable, RequestsFollow, RefundsFollowOrder

LEMMA InitRefundable == Init => Refundable
BY DEF Init, Refundable, RequestsNamed, RequestsFollow, OneOpenRequest, PendingRefunds

(* Orders move and the requests stay: a paid order stays paid, unless it   *)
(* has no open request.                                                    *)
LEMMA UnaskedRefundable ==
    ASSUME Typed, Refundable, UNCHANGED refund, \A o \in OrderIds : Evolves(o)
    PROVE  Refundable'
<1>1. ASSUME NEW r \in RefundIds, refund[r].status = "pending"
      PROVE  order'[refund[r].order].status = "paid"
  <2> DEFINE o == refund[r].order
  <2>1. o \in OrderIds /\ order[o].status = "paid" /\ r \in PendingRefunds(o)
    BY <1>1 DEF Refundable, RequestsNamed, RequestsFollow, PendingRefunds
  <2>2. ~ Returns(o)
    BY <1>1, <2>1 DEF Returns
  <2> HIDE DEF o
  <2>3. order'[o].status = "paid"
    BY <2>1, <2>2 DEF Evolves, Opens, Quoted, Lapses, Books, BooksReceipt
  <2> QED BY <2>3 DEF o
<1>2. ASSUME NEW r \in RefundIds, refund[r].status = "completed"
      PROVE  order'[refund[r].order].status = "refunded"
  <2> DEFINE o == refund[r].order
  <2>1. o \in OrderIds /\ order[o].status = "refunded"
    BY <1>2 DEF Refundable, RequestsNamed, RequestsFollow
  <2> HIDE DEF o
  <2>2. order'[o].status = "refunded"
    BY <2>1 DEF Evolves, Opens, Quoted, Lapses, Books, BooksReceipt, Returns
  <2> QED BY <2>2 DEF o
<1>3. RequestsNamed' /\ OneOpenRequest'
  BY DEF Refundable, RequestsNamed, OneOpenRequest, PendingRefunds
<1> QED BY <1>1, <1>2, <1>3 DEF Refundable, RequestsFollow

(* A refunded order's open request is completed with it.                   *)
LEMMA MarkRefundedRefundable ==
    ASSUME Typed, Refundable, NEW o \in OrderIds, MarkRefundedTx(o)
    PROVE  Refundable'
<1>1. /\ order[o].status = "paid" /\ order'[o].status = "refunded"
      /\ \A p \in OrderIds \ {o} : order'[p] = order[p]
  BY MarkRefundedReturns DEF Returns
<1>2. ASSUME NEW r \in RefundIds
      PROVE  /\ refund'[r].order = refund[r].order
             /\ refund'[r].status = IF r \in PendingRefunds(o) THEN "completed"
                                                               ELSE refund[r].status
  <2>1. refund[r] \in RefundRow
    BY DEF Typed, TypeOK
  <2>2. refund'[r] = IF r \in PendingRefunds(o)
                     THEN [refund[r] EXCEPT !.status = "completed"]
                     ELSE refund[r]
    BY DEF MarkRefundedTx
  <2> QED BY <2>1, <2>2 DEF RefundRow
<1>3. RequestsNamed'
  BY <1>2 DEF Refundable, RequestsNamed, PendingRefunds
<1>4. OneOpenRequest'
  BY <1>2 DEF Refundable, OneOpenRequest, PendingRefunds
<1>5. RequestsFollow'
  <2> SUFFICES ASSUME NEW r \in RefundIds
               PROVE  /\ refund'[r].status = "pending" =>
                            order'[refund'[r].order].status = "paid"
                      /\ refund'[r].status = "completed" =>
                            order'[refund'[r].order].status = "refunded"
    BY DEF RequestsFollow
  <2>1. CASE r \in PendingRefunds(o)
    BY <1>1, <1>2, <2>1 DEF PendingRefunds
  <2>2. CASE r \notin PendingRefunds(o)
    <3> DEFINE p == refund[r].order
    <3>1. refund'[r].order = p /\ refund'[r].status = refund[r].status
      BY <1>2, <2>2
    <3>2. CASE refund[r].status = "pending"
      <4>1. p \in OrderIds \ {o} /\ order[p].status = "paid"
        BY <2>2, <3>2 DEF Refundable, RequestsNamed, RequestsFollow, PendingRefunds
      <4> HIDE DEF p
      <4> QED BY <1>1, <3>1, <3>2, <4>1
    <3>3. CASE refund[r].status = "completed"
      <4>1. p \in OrderIds /\ order[p].status = "refunded"
        BY <3>3 DEF Refundable, RequestsNamed, RequestsFollow
      <4> HIDE DEF p
      <4> QED BY <1>1, <3>1, <3>3, <4>1
    <3> QED BY <3>1, <3>2, <3>3
  <2> QED BY <2>1, <2>2
<1> QED BY <1>3, <1>4, <1>5 DEF Refundable

LEMMA RefundingRefundable == Typed /\ Refundable /\ Refunding => Refundable'
<1> SUFFICES ASSUME Typed, Refundable, Refunding PROVE Refundable'
  OBVIOUS
<1>1. ASSUME NEW r \in RefundIds, NEW o \in OrderIds, RequestRefund(r, o)
      PROVE  Refundable'
  <2>1. /\ refund'[r] = [order |-> o, status |-> "pending"]
        /\ \A s \in RefundIds \ {r} : refund'[s] = refund[s]
    BY <1>1 DEF RequestRefund, Typed, TypeOK
  <2>2. order' = order /\ order[o].status = "paid" /\ PendingRefunds(o) = {}
    BY <1>1 DEF RequestRefund
  <2>3. RequestsNamed' /\ RequestsFollow'
    BY <2>1, <2>2 DEF Refundable, RequestsNamed, RequestsFollow
  <2>4. OneOpenRequest'
    BY <2>1, <2>2 DEF Refundable, OneOpenRequest, PendingRefunds
  <2> QED BY <2>3, <2>4 DEF Refundable
<1>2. ASSUME NEW r \in RefundIds, RejectRefund(r) PROVE Refundable'
  <2>1. refund[r] \in RefundRow
    BY DEF Typed, TypeOK
  <2>2. /\ refund'[r].order = refund[r].order /\ refund'[r].status = "rejected"
        /\ \A s \in RefundIds \ {r} : refund'[s] = refund[s]
    BY <1>2, <2>1 DEF RejectRefund, Typed, TypeOK, RefundRow
  <2>3. order' = order /\ refund[r].status = "pending"
    BY <1>2 DEF RejectRefund
  <2>4. RequestsNamed' /\ RequestsFollow'
    BY <2>2, <2>3 DEF Refundable, RequestsNamed, RequestsFollow
  <2>5. OneOpenRequest'
    BY <2>2 DEF Refundable, OneOpenRequest, PendingRefunds
  <2> QED BY <2>4, <2>5 DEF Refundable
<1>3. ASSUME NEW r \in RefundIds, ApproveRefund(r) PROVE Refundable'
  <2>1. refund[r].order \in OrderIds
    BY <1>3 DEF ApproveRefund, Typed, TypeOK, RefundRow
  <2> QED BY <1>3, <2>1, MarkRefundedRefundable DEF ApproveRefund
<1>4. ASSUME NEW o \in OrderIds, MarkRefunded(o) PROVE Refundable'
  BY <1>4, MarkRefundedRefundable DEF MarkRefunded
<1> QED BY <1>1, <1>2, <1>3, <1>4 DEF Refunding

LEMMA StepRefundable == Typed /\ Refundable /\ [Next]_vars => Refundable'
<1>1. Tick \/ Checkout => UNCHANGED refund
  BY DEF Tick, Checkout, Create, CreateSubscriptionOrder, SelectChannel
<1>2. Lapsing => UNCHANGED refund
  BY DEF Lapsing, ExpireBatch, Query, CancelSubscriptionOrders, Ban, Unban
<1>3. Paying => UNCHANGED refund
  BY DEF Paying, Pay, IngestBegin, IngestMatch, IngestUnmatched, IngestRollback,
         Supplement
<1>4. UNCHANGED vars => UNCHANGED refund
  BY DEF vars
<1> QED BY <1>1, <1>2, <1>3, <1>4, StepEvolves, UnaskedRefundable,
           RefundingRefundable DEF Next

(* However requests, rejections, approvals and direct refunds interleave,  *)
(* an open request is on a paid order, one at a time, and a completed one  *)
(* on a refunded order: no order is refunded with a request left open.     *)
THEOREM RefundsFollow == Spec => []RefundsFollowOrder
BY RefundableHolds, InitTyped, StepTyped, InitRefundable, StepRefundable, PTL DEF Spec

-----------------------------------------------------------------------------
(* Recognition.  A transfer keeps agreeing with the quote of its order,    *)
(* whatever becomes of the order; a quote is taken no earlier than its     *)
(* order was created; and an ingestion request reads the clock after the   *)
(* transfer it reports.                                                    *)

QuotesPaid ==
    \A p \in payments :
        /\ order[p.order].status # "absent"
        /\ order[p.order].channel = p.channel
        /\ order[p.order].actual = p.amount

CreatedPast == \A o \in OrderIds : order[o].created <= clock

LockedOpen ==
    \A o \in OrderIds :
        order[o].status = "pending" /\ order[o].channel # NoChannel =>
            order[o].created <= order[o].lockedAt

RequestsOrdered ==
    \A i \in inflight : i.payment.occurred < i.now /\ i.now <= clock

Recognised == QuotesPaid /\ CreatedPast /\ LockedOpen /\ RequestsOrdered

LEMMA InitRecognised == Init => Recognised
BY DEF Init, Blank, Recognised, QuotesPaid, CreatedPast, LockedOpen, RequestsOrdered

LEMMA StepClock ==
    ASSUME Typed, [Next]_vars
    PROVE  clock' \in {clock, clock + 1}
<1>1. Tick \/ Checkout => clock' \in {clock, clock + 1}
  BY DEF Tick, Checkout, Create, CreateSubscriptionOrder, SelectChannel
<1>2. Lapsing => clock' = clock
  BY DEF Lapsing, ExpireBatch, Query, CancelSubscriptionOrders, Ban, Unban
<1>3. Paying => clock' \in {clock, clock + 1}
  BY DEF Paying, Pay, IngestBegin, IngestMatch, IngestUnmatched, IngestRollback,
         Supplement
<1>4. Refunding => clock' = clock
  BY DEF Refunding, RequestRefund, RejectRefund, ApproveRefund, MarkRefunded
<1> QED BY <1>1, <1>2, <1>3, <1>4 DEF Next, vars

(* The payments and the requests a step adds.                              *)
LEMMA StepMoney ==
    ASSUME Typed, [Next]_vars
    PROVE  /\ \A p \in payments' \ payments :
                 /\ order'[p.order] = order[p.order]
                 /\ order[p.order].status # "absent"
                 /\ order[p.order].channel = p.channel
                 /\ order[p.order].actual = p.amount
           /\ \A i \in inflight' \ inflight :
                 i.payment \in payments /\ i.now = clock
<1> DEFINE G == /\ \A p \in payments' \ payments :
                      /\ order'[p.order] = order[p.order]
                      /\ order[p.order].status # "absent"
                      /\ order[p.order].channel = p.channel
                      /\ order[p.order].actual = p.amount
                /\ \A i \in inflight' \ inflight :
                      i.payment \in payments /\ i.now = clock
<1>1. payments' = payments /\ inflight' \subseteq inflight => G
  OBVIOUS
<1>2. ASSUME NEW o \in OrderIds, NEW lag \in Lags, Pay(o, lag) PROVE G
  BY <1>2 DEF Pay
<1>3. ASSUME NEW p \in payments, NEW k \in Copies, IngestBegin(p, k) PROVE G
  BY <1>3 DEF IngestBegin
<1> HIDE DEF G
<1>4. Paying => G
  BY <1>1, <1>2, <1>3
     DEF Paying, IngestMatch, IngestUnmatched, IngestRollback, Supplement, money
<1>5. Tick \/ Checkout => G
  BY <1>1 DEF Tick, Checkout, Create, CreateSubscriptionOrder, SelectChannel, money
<1>6. Lapsing => G
  BY <1>1 DEF Lapsing, ExpireBatch, Query, CancelSubscriptionOrders, Ban, Unban, money
<1>7. Refunding => G
  BY <1>1 DEF Refunding, RequestRefund, RejectRefund, ApproveRefund, MarkRefunded, money
<1>8. G
  BY <1>1, <1>4, <1>5, <1>6, <1>7 DEF Next, vars, money
<1> QED BY <1>8 DEF G

LEMMA StepRecognised ==
    Typed /\ Attributed /\ Recognised /\ [Next]_vars => Recognised'
<1> SUFFICES ASSUME Typed, Attributed, Recognised, [Next]_vars
             PROVE  Recognised'
  OBVIOUS
<1>1. /\ clock \in Nat /\ clock' \in Nat /\ clock <= clock'
      /\ \A o \in OrderIds : order[o].created \in Nat /\ order[o].lockedAt \in Nat
  BY StepClock DEF Typed, TypeOK, OrderRow
<1>2. QuotesPaid'
  <2> SUFFICES ASSUME NEW p \in payments'
               PROVE  /\ order'[p.order].status # "absent"
                      /\ order'[p.order].channel = p.channel
                      /\ order'[p.order].actual = p.amount
    BY DEF QuotesPaid
  <2>1. CASE p \in payments
    <3> DEFINE o == p.order
    <3>1. o \in OrderIds /\ p.channel \in Channels
      BY <2>1 DEF Typed, TypeOK, PaymentRow
    <3>2. /\ order[o].status # "absent" /\ order[o].channel = p.channel
          /\ order[o].actual = p.amount /\ order[o].channel # NoChannel
      BY <2>1, <3>1, NullAssumption DEF Recognised, QuotesPaid
    <3> HIDE DEF o
    <3>3. /\ order'[o].status # "absent" /\ order'[o].channel = order[o].channel
          /\ order'[o].actual = order[o].actual
      BY <3>1, <3>2, StepEvolves
         DEF Evolves, Opens, Quoted, Lapses, Books, BooksReceipt, Returns, SameTerms
    <3> QED BY <3>2, <3>3 DEF o
  <2>2. CASE p \notin payments
    BY <2>2, StepMoney
  <2> QED BY <2>1, <2>2
<1>3. CreatedPast'
  <2> SUFFICES ASSUME NEW o \in OrderIds PROVE order'[o].created <= clock'
    BY DEF CreatedPast
  <2>1. order[o].created <= clock
    BY DEF Recognised, CreatedPast
  <2>2. order'[o].created \in {order[o].created, clock}
    BY StepEvolves
       DEF Evolves, Opens, Quoted, Lapses, Books, BooksReceipt, Returns, SameTerms
  <2> QED BY <1>1, <2>1, <2>2
<1>4. LockedOpen'
  <2> SUFFICES ASSUME NEW o \in OrderIds, order'[o].status = "pending",
                      order'[o].channel # NoChannel
               PROVE  order'[o].created <= order'[o].lockedAt
    BY DEF LockedOpen
  <2>1. order'[o] = order[o] \/ Opens(o) \/ Quoted(o)
    BY StepEvolves DEF Evolves, Lapses, Books, BooksReceipt, Returns
  <2>2. CASE order'[o] = order[o]
    BY <2>2 DEF Recognised, LockedOpen
  <2>3. CASE Opens(o)
    BY <1>1, <2>3 DEF Opens
  <2>4. CASE Quoted(o)
    BY <1>1, <2>4 DEF Quoted, Recognised, CreatedPast
  <2> QED BY <2>1, <2>2, <2>3, <2>4
<1>5. RequestsOrdered'
  <2> SUFFICES ASSUME NEW i \in inflight'
               PROVE  i.payment.occurred < i.now /\ i.now <= clock'
    BY DEF RequestsOrdered
  <2>1. CASE i \in inflight
    <3>1. i.now \in Nat
      BY <2>1 DEF Typed, TypeOK
    <3> QED BY <1>1, <2>1, <3>1 DEF Recognised, RequestsOrdered
  <2>2. CASE i \notin inflight
    <3>1. i.payment \in payments /\ i.now = clock
      BY <2>2, StepMoney
    <3> QED BY <1>1, <3>1 DEF Attributed, PaymentsPast
  <2> QED BY <2>1, <2>2
<1> QED BY <1>2, <1>3, <1>4, <1>5 DEF Recognised

(* A request finds the order its transfer was made for whenever that order *)
(* is pending, in time, and was priced before the transfer was stamped.    *)
LEMMA OwnOrderMatches ==
    ASSUME Typed, Attributed, Recognised, NEW i \in inflight,
           order[i.payment.order].status = "pending",
           clock < order[i.payment.order].expires,
           order[i.payment.order].lockedAt <= i.payment.occurred
    PROVE  i.payment.order \in Matches(i)
<1> DEFINE o == i.payment.order
           at == i.payment.occurred
<1>1. /\ o \in OrderIds /\ at \in Int /\ i.now \in Nat /\ clock \in Nat
      /\ i.payment.channel \in Channels
      /\ order[o].created \in Nat /\ order[o].lockedAt \in Nat
      /\ order[o].expires \in Nat
  BY DEF Typed, TypeOK, PaymentRow, OrderRow
<1>2. i.payment \in payments
  BY DEF Attributed, RequestsReal
<1>3. order[o].channel = i.payment.channel /\ order[o].actual = i.payment.amount
  BY <1>2 DEF Recognised, QuotesPaid
<1>4. at < i.now /\ i.now <= clock
  BY DEF Recognised, RequestsOrdered
<1>5. order[o].created <= order[o].lockedAt
  BY <1>1, <1>3, NullAssumption DEF Recognised, LockedOpen
<1>6. /\ i.now < order[o].expires /\ order[o].created <= at
      /\ at < order[o].expires /\ at <= i.now + Skew
  BY <1>1, <1>4, <1>5, TimeAssumption
<1> QED BY <1>1, <1>3, <1>6 DEF Matches

(* A receipt is filed unmatched only when its own order really cannot be   *)
(* settled by it any more, although the request chose by an older clock    *)
(* reading and by amount, channel and times instead of the order's name.   *)
THEOREM PayableReceiptsMatched == Spec => NoPayableReceiptUnmatched
<1> DEFINE Hopeless(x) ==
        \/ order[x.payment.order].status # "pending"
        \/ MerchantOf[x.payment.order] \in banned
        \/ order[x.payment.order].expires <= clock
        \/ x.payment.occurred < order[x.payment.order].lockedAt
<1>1. Typed /\ Attributed /\ Recognised /\ [Next]_vars =>
         \A x \in receipts' \ receipts : x.settled = NoOrder => Hopeless(x)
  <2> SUFFICES ASSUME Typed, Attributed, Recognised, [Next]_vars,
                      NEW x \in receipts' \ receipts, x.settled = NoOrder
               PROVE  Hopeless(x)
    OBVIOUS
  <2>1. PICK i \in inflight : IngestUnmatched(i) /\ x.payment = i.payment
    <3>1. ~ (Tick \/ Checkout \/ UNCHANGED vars)
      BY DEF Tick, Checkout, Create, CreateSubscriptionOrder, SelectChannel, money, vars
    <3>2. ~ Lapsing
      BY DEF Lapsing, ExpireBatch, Query, CancelSubscriptionOrders, Ban, Unban, money
    <3>3. ~ Refunding
      BY DEF Refunding, RequestRefund, RejectRefund, ApproveRefund, MarkRefunded, money
    <3>4. ASSUME NEW i \in inflight, NEW o \in OrderIds, IngestMatch(i, o)
          PROVE  FALSE
      <4>1. x.settled = o
        BY <3>4 DEF IngestMatch, Record
      <4> QED BY <4>1, NullAssumption
    <3>5. Paying
      BY <3>1, <3>2, <3>3 DEF Next
    <3>6. PICK i \in inflight : IngestUnmatched(i)
      BY <3>4, <3>5 DEF Paying, Pay, IngestBegin, IngestRollback, Supplement, money
    <3>7. x.payment = i.payment
      BY <3>6 DEF IngestUnmatched, Record
    <3> QED BY <3>6, <3>7
  <2>2. \/ MerchantOf[i.payment.order] \in banned
        \/ Matches(i) = {}
    BY <2>1 DEF IngestUnmatched
  <2>3. /\ i.payment.order \in OrderIds /\ i.payment.occurred \in Int
        /\ order[i.payment.order].expires \in Nat /\ clock \in Nat
        /\ order[i.payment.order].lockedAt \in Nat
    BY DEF Typed, TypeOK, PaymentRow, OrderRow
  <2>4. CASE Matches(i) = {}
    <3>1. \/ order[i.payment.order].status # "pending"
          \/ ~ (clock < order[i.payment.order].expires)
          \/ ~ (order[i.payment.order].lockedAt <= i.payment.occurred)
      BY <2>4, OwnOrderMatches
    <3> QED BY <2>1, <2>3, <3>1
  <2> QED BY <2>1, <2>2, <2>4
<1>2. Typed /\ Attributed /\ Recognised /\ [Next]_vars =>
         \A x \in receipts' \ receipts :
            LET row == order[x.payment.order]
            IN  x.settled = NoOrder =>
                   \/ row.status # "pending"
                   \/ MerchantOf[x.payment.order] \in banned
                   \/ row.expires <= clock
                   \/ x.payment.occurred < row.lockedAt
  BY <1>1
<1> QED BY <1>2, InitTyped, StepTyped, InitReserved, StepReserved,
           InitAttributed, StepAttributed, InitRecognised, StepRecognised,
           PTL DEF Spec, NoPayableReceiptUnmatched

-----------------------------------------------------------------------------
(* The tables implement the order book: status and holds of OrderBook are  *)
(* the statuses of the rows and the quotes of their reservations.          *)

LEMMA InitBook == Init => Book!Init
BY DEF Init, Blank, Book!Init, QuotesHeld

(* Only the reservations matter to what is held.                           *)
LEMMA HeldUnchanged ==
    ASSUME UNCHANGED reservations
    PROVE  [o \in OrderIds |-> QuotesHeld(o)]' = [o \in OrderIds |-> QuotesHeld(o)]
BY DEF QuotesHeld

(* One order changes its status.                                           *)
LEMMA StatusMoves ==
    ASSUME Typed, NEW o \in OrderIds,
           \A p \in OrderIds \ {o} : order'[p] = order[p]
    PROVE  [p \in OrderIds |-> order[p].status]' =
              [[p \in OrderIds |-> order[p].status]
                 EXCEPT ![o] = order'[o].status]
OBVIOUS

(* Reserving a free amount takes the quote; the holds that end are those   *)
(* of the lapsed orders whose retention is over.                           *)
LEMMA ReserveTakes ==
    ASSUME Typed, Reserved,
           NEW o \in OrderIds, \A r \in reservations : r.order # o,
           NEW c \in Channels, NEW x \in MinAmount .. MaxAmount,
           x \notin Occupied(MerchantOf[o], c), Reserve(o, c, x)
    PROVE  \E q \in Merchants \X Channels \X (MinAmount .. MaxAmount),
              L \in SUBSET Book!Lapsed : Book!Takes(o, q, L)
<1> DEFINE q == <<MerchantOf[o], c, x>>
           new == [order |-> o, channel |-> c, amount |-> x, release |-> 0]
           kept == Purged(MerchantOf[o])
           L == {p \in OrderIds : \E r \in reservations \ kept : r.order = p}
<1>1. q \in Merchants \X Channels \X (MinAmount .. MaxAmount)
  BY MerchantOfAssumption
<1>2. reservations' = kept \cup {new} /\ kept \subseteq reservations
  BY DEF Reserve, Purged
<1>3. reservations \subseteq ReservationRow
  BY DEF Typed, TypeOK
<1>4. L \in SUBSET Book!Lapsed
  <2> SUFFICES ASSUME NEW r \in reservations \ kept
               PROVE  order[r.order].status = "expired"
    BY DEF Book!Lapsed
  <2>1. r.release # 0
    BY DEF Purged
  <2> QED BY <2>1 DEF Reserved, RowsAgree
<1>5. ASSUME NEW p \in OrderIds \ L PROVE q \notin QuotesHeld(p)
  <2>1. \A r \in reservations : r.order = p => r \in kept
    BY <1>5
  <2>2. \A r \in kept : MerchantOf[r.order] = MerchantOf[o] /\ r.channel = c
                           => r.amount # x
    BY DEF Occupied
  <2> QED BY <2>1, <2>2 DEF QuotesHeld
<1>6. ASSUME NEW p \in OrderIds
      PROVE  QuotesHeld(p)' = IF p = o THEN {q} ELSE
                              IF p \in L THEN {} ELSE QuotesHeld(p)
  <2> HIDE DEF kept
  <2>1. CASE p = o
    <3>1. {r \in reservations' : r.order = p} = {new}
      BY <1>2, <2>1
    <3>2. QuotesHeld(p)' =
             {<<MerchantOf[p], r.channel, r.amount>> : r \in {new}}
      BY <3>1 DEF QuotesHeld
    <3>3. QuotesHeld(p)' = {<<MerchantOf[p], c, x>>}
      BY <3>2
    <3> QED BY <2>1, <3>3
  <2>2. CASE p # o /\ p \in L
    <3>1. PICK r \in reservations \ kept : r.order = p
      BY <2>2
    <3>2. \A s \in reservations : s.order = p => s = r
      BY <3>1 DEF Reserved, AmountHeldOnce
    <3>3. {s \in reservations' : s.order = p} = {}
      BY <1>2, <2>2, <3>1, <3>2
    <3> QED BY <2>2, <3>3 DEF QuotesHeld
  <2>3. CASE p # o /\ p \notin L
    <3>1. {r \in reservations' : r.order = p} = {r \in reservations : r.order = p}
      BY <1>2, <2>3
    <3> QED BY <2>3, <3>1 DEF QuotesHeld
  <2> QED BY <2>1, <2>2, <2>3
<1> HIDE DEF L, q
<1>7. Book!Takes(o, q, L)
  BY <1>5, <1>6 DEF Book!Takes, Book!Without
<1> QED BY <1>1, <1>4, <1>7

LEMMA CheckoutBook == Typed /\ Reserved /\ Checkout => Book!Next
<1> SUFFICES ASSUME Typed, Reserved,
             NEW o \in OrderIds, NEW eligible \in SUBSET Channels,
             NEW f \in FloatSettings,
             \/ \E price \in Originals, ttl \in TTLs :
                   \/ \E c \in Channels \cup {NoChannel} :
                         Create(o, price, eligible, ttl, c, f)
                   \/ CreateSubscriptionOrder(o, price, eligible, ttl)
             \/ \E c \in Channels : SelectChannel(o, c, eligible, f)
             PROVE Book!Next
  BY DEF Checkout
<1>1. ASSUME NEW price \in Originals, NEW ttl \in TTLs, NEW row,
             order[o].status = "absent", row.status = "pending",
             order' = [order EXCEPT ![o] = row],
             \/ UNCHANGED reservations
             \/ /\ \A r \in reservations : r.order # o
                /\ \E c \in Channels, x \in MinAmount .. MaxAmount :
                      x \notin Occupied(MerchantOf[o], c) /\ Reserve(o, c, x)
      PROVE  Book!Open(o)
  <2>1. order'[o] = row /\ \A p \in OrderIds \ {o} : order'[p] = order[p]
    BY <1>1, OneRow
  <2>2. [p \in OrderIds |-> order[p].status]' =
           [[p \in OrderIds |-> order[p].status] EXCEPT ![o] = "pending"]
    BY <1>1, <2>1, StatusMoves
  <2>3. \/ UNCHANGED [p \in OrderIds |-> QuotesHeld(p)]
        \/ \E q \in Merchants \X Channels \X (MinAmount .. MaxAmount),
              L \in SUBSET Book!Lapsed : Book!Takes(o, q, L)
    BY <1>1, HeldUnchanged, ReserveTakes
  <2> QED BY <1>1, <2>2, <2>3 DEF Book!Open
<1>2. ASSUME NEW price \in Originals, NEW ttl \in TTLs,
             NEW c \in Channels \cup {NoChannel},
             Create(o, price, eligible, ttl, c, f)
      PROVE  Book!Open(o)
  <2> DEFINE new == NewOrder(price, eligible, ttl)
             x == Allocate(price, f, Occupied(MerchantOf[o], c))
  <2>1. new \in OrderRow /\ new.status = "pending" /\ order[o].status = "absent"
    BY <1>2, NewOrderRow DEF Typed, NewOrder, Blank, Create
  <2>2. CASE order' = [order EXCEPT ![o] = new] /\ UNCHANGED reservations
    BY <1>1, <2>1, <2>2
  <2>3. CASE /\ c \in Channels
             /\ Offers(price, f) \ Occupied(MerchantOf[o], c) # {}
             /\ order' = [order EXCEPT ![o] = Locked(new, c, x)]
             /\ Reserve(o, c, x)
    <3>1. x \in MinAmount .. MaxAmount /\ x \notin Occupied(MerchantOf[o], c)
      BY <2>3, AllocateFree, AmountAssumption
    <3>2. Locked(new, c, x).status = "pending"
      BY <2>1, <2>3, <3>1, LockedRow DEF Typed
    <3>3. \A r \in reservations : r.order # o
      BY <2>1 DEF Reserved, RowsAgree
    <3> HIDE DEF new, x
    <3> QED BY <1>1, <2>1, <2>3, <3>1, <3>2, <3>3
  <2> QED BY <1>2, <2>2, <2>3 DEF Create
<1>3. ASSUME NEW price \in Originals, NEW ttl \in TTLs,
             CreateSubscriptionOrder(o, price, eligible, ttl)
      PROVE  Book!Open(o)
  <2>1. NewOrder(price, eligible, ttl).status = "pending"
    BY DEF NewOrder, Blank
  <2> QED BY <1>1, <1>3, <2>1 DEF CreateSubscriptionOrder
<1>4. ASSUME NEW c \in Channels, SelectChannel(o, c, eligible, f)
      PROVE  Book!Quote(o)
  <2> DEFINE x == Allocate(order[o].original, f, Occupied(MerchantOf[o], c))
             row == Locked(order[o], c, x)
  <2>1. /\ order[o].status = "pending" /\ order[o].channel = NoChannel
        /\ order' = [order EXCEPT ![o] = row] /\ Reserve(o, c, x)
    BY <1>4 DEF SelectChannel
  <2>2. order[o] \in OrderRow /\ order[o].original \in Nat
    BY <2>1, AmountAssumption DEF Typed, TypeOK, PriceInRange
  <2>3. x \in MinAmount .. MaxAmount /\ x \notin Occupied(MerchantOf[o], c)
    BY <1>4, <2>2, AllocateFree DEF SelectChannel
  <2>4. row.status = "pending"
    BY <2>1, <2>2 DEF Locked, OrderRow
  <2> HIDE DEF x, row
  <2>5. \A r \in reservations : r.order # o
    BY <2>1, NullAssumption DEF Reserved, RowsAgree, Typed, TypeOK, ReservationRow
  <2>6. order'[o] = row /\ \A p \in OrderIds \ {o} : order'[p] = order[p]
    BY <2>1, OneRow
  <2>7. UNCHANGED [p \in OrderIds |-> order[p].status]
    BY <2>1, <2>4, <2>6
  <2>8. QuotesHeld(o) = {}
    BY <2>5 DEF QuotesHeld
  <2>9. \E q \in Merchants \X Channels \X (MinAmount .. MaxAmount),
           L \in SUBSET Book!Lapsed : Book!Takes(o, q, L)
    BY <2>1, <2>3, <2>5, ReserveTakes
  <2> QED BY <2>1, <2>7, <2>8, <2>9 DEF Book!Quote
<1> QED BY <1>2, <1>3, <1>4 DEF Book!Next

(* Lapsed orders keep what they hold, or nothing lapsed.                   *)
LEMMA RetainLapses ==
    ASSUME Typed, NEW S \in SUBSET OrderIds,
           \A o \in S : order[o].status = "pending",
           NEW why, Expired(S, why), NEW T, Retain(T)
    PROVE  [Book!Next]_Book!vars
<1>1. ASSUME NEW o \in OrderIds
      PROVE  order'[o].status = IF o \in S THEN "expired" ELSE order[o].status
  <2>1. order[o] \in OrderRow
    BY DEF Typed, TypeOK
  <2>2. order'[o] = IF o \in S
                    THEN [order[o] EXCEPT !.status = "expired", !.reason = why[o]]
                    ELSE order[o]
    BY DEF Expired
  <2> QED BY <2>1, <2>2 DEF OrderRow
<1>2. ASSUME NEW o \in OrderIds PROVE QuotesHeld(o)' = QuotesHeld(o)
  <2> DEFINE moved(r) == IF r.order \in T
                         THEN [r EXCEPT !.release = RetainedUntil(r.order)] ELSE r
  <2>1. reservations' = {moved(r) : r \in reservations}
    BY DEF Retain
  <2>2. ASSUME NEW r \in reservations
        PROVE  /\ moved(r).order = r.order /\ moved(r).channel = r.channel
               /\ moved(r).amount = r.amount
    BY DEF Typed, TypeOK, ReservationRow
  <2> HIDE DEF moved
  <2> QED BY <2>1, <2>2 DEF QuotesHeld
<1>3. UNCHANGED [o \in OrderIds |-> QuotesHeld(o)]
  BY <1>2
<1>4. CASE S = {}
  BY <1>1, <1>3, <1>4 DEF Book!vars
<1>5. CASE S # {}
  <2>1. Book!Lapse(S)
    BY <1>1, <1>3, <1>5 DEF Book!Lapse
  <2> QED BY <2>1 DEF Book!Next
<1> QED BY <1>4, <1>5

(* A settlement frees the quote.                                           *)
LEMMA MarkPaidSettles ==
    ASSUME Typed, NEW o \in OrderIds, NEW c \in Channels,
           NEW byHand \in BOOLEAN, MarkPaidTx(o, c, byHand),
           order[o].status # "paid"
    PROVE  Book!Settle(o)
<1>1. /\ Books(o, byHand)
      /\ \A p \in OrderIds \ {o} : order'[p] = order[p]
  BY MarkPaidBooks
<1>2. order[o].status \in {"pending", "expired"} /\ order'[o].status = "paid"
  BY <1>1 DEF Books
<1>3. [p \in OrderIds |-> order[p].status]' =
         [[p \in OrderIds |-> order[p].status] EXCEPT ![o] = "paid"]
  BY <1>1, <1>2, StatusMoves
<1>4. reservations' = {r \in reservations : r.order # o}
  BY DEF MarkPaidTx, Unreserve
<1>5. \A p \in OrderIds : QuotesHeld(p)' = IF p = o THEN {} ELSE QuotesHeld(p)
  BY <1>4 DEF QuotesHeld
<1> QED BY <1>2, <1>3, <1>5 DEF Book!Settle, Book!Without

LEMMA MarkRefundedReturned ==
    ASSUME Typed, NEW o \in OrderIds, MarkRefundedTx(o), UNCHANGED reservations
    PROVE  Book!Return(o)
<1>1. /\ order[o].status = "paid" /\ order'[o].status = "refunded"
      /\ \A p \in OrderIds \ {o} : order'[p] = order[p]
  BY MarkRefundedReturns DEF Returns
<1>2. [p \in OrderIds |-> order[p].status]' =
         [[p \in OrderIds |-> order[p].status] EXCEPT ![o] = "refunded"]
  BY <1>1, StatusMoves
<1> QED BY <1>1, <1>2, HeldUnchanged DEF Book!Return

LEMMA StepBook == Typed /\ Reserved /\ [Next]_vars => [Book!Next]_Book!vars
<1> SUFFICES ASSUME Typed, Reserved, [Next]_vars PROVE [Book!Next]_Book!vars
  OBVIOUS
<1>1. ASSUME UNCHANGED <<order, reservations>> PROVE [Book!Next]_Book!vars
  BY <1>1, HeldUnchanged DEF Book!vars
<1>2. ASSUME NEW o \in OrderIds, ExpireBatch(o) PROVE [Book!Next]_Book!vars
  BY <1>2, RetainLapses DEF ExpireBatch, Due
<1>3. ASSUME NEW bought \in SUBSET SubscriptionOrders,
             CancelSubscriptionOrders(bought)
      PROVE  [Book!Next]_Book!vars
  <2>1. /\ PendingOf(bought) \in SUBSET OrderIds
        /\ \A o \in PendingOf(bought) : order[o].status = "pending"
    BY SubscriptionAssumption DEF PendingOf
  <2> QED BY <1>3, <2>1, RetainLapses DEF CancelSubscriptionOrders
<1>4. ASSUME NEW m \in Merchants, NEW bought \in SUBSET SubscriptionOrders,
             Ban(m, bought)
      PROVE  [Book!Next]_Book!vars
  <2> DEFINE own == PendingOf(OrdersOf(m))
             open == own \cup PendingOf(bought)
             why == [o \in open |-> IF o \in own THEN "banned" ELSE "cancelled"]
  <2>1. /\ open \in SUBSET OrderIds
        /\ \A o \in open : order[o].status = "pending"
    BY SubscriptionAssumption DEF OrdersOf, PendingOf
  <2>2. Expired(open, why) /\ \E T : Retain(T)
    BY <1>4 DEF Ban
  <2> HIDE DEF open, why
  <2> QED BY <2>1, <2>2, RetainLapses
<1>5. Lapsing => [Book!Next]_Book!vars
  BY <1>1, <1>2, <1>3, <1>4 DEF Lapsing, Query, Unban
<1>6. ASSUME NEW i \in inflight, NEW o \in OrderIds, IngestMatch(i, o)
      PROVE  [Book!Next]_Book!vars
  <2>1. i.payment.channel \in Channels /\ order[o].status = "pending"
    BY <1>6 DEF IngestMatch, Oldest, Matches, Typed, TypeOK, PaymentRow
  <2>2. Book!Settle(o)
    BY <1>6, <2>1, MarkPaidSettles DEF IngestMatch
  <2> QED BY <2>2 DEF Book!Next
<1>7. ASSUME NEW o \in OrderIds, NEW c \in Channels, Supplement(o, c)
      PROVE  [Book!Next]_Book!vars
  <2>1. Book!Settle(o)
    BY <1>7, MarkPaidSettles DEF Supplement
  <2> QED BY <2>1 DEF Book!Next
<1>8. Paying => [Book!Next]_Book!vars
  BY <1>1, <1>6, <1>7 DEF Paying, Pay, IngestBegin, IngestUnmatched, IngestRollback
<1>9. ASSUME NEW r \in RefundIds, ApproveRefund(r) PROVE [Book!Next]_Book!vars
  <2>1. PICK o \in OrderIds : MarkRefundedTx(o) /\ UNCHANGED reservations
    BY <1>9 DEF ApproveRefund, Typed, TypeOK, RefundRow
  <2>2. Book!Return(o)
    BY <2>1, MarkRefundedReturned
  <2> QED BY <2>1, <2>2 DEF Book!Next
<1>10. ASSUME NEW o \in OrderIds, MarkRefunded(o) PROVE [Book!Next]_Book!vars
  <2>1. Book!Return(o)
    BY <1>10, MarkRefundedReturned DEF MarkRefunded
  <2> QED BY <2>1 DEF Book!Next
<1>11. Refunding => [Book!Next]_Book!vars
  BY <1>1, <1>9, <1>10 DEF Refunding, RequestRefund, RejectRefund
<1>12. Tick \/ UNCHANGED vars => [Book!Next]_Book!vars
  BY <1>1 DEF Tick, vars
<1> QED BY <1>5, <1>8, <1>11, <1>12, CheckoutBook DEF Next

(* Every behaviour of the tables, with their clocks, retention periods and *)
(* concurrent requests, is a behaviour of the order book: a quote belongs  *)
(* to one order at a time and an order is settled and returned once.       *)
THEOREM ImplementsBook == Spec => BookSpec
BY InitBook, StepBook, InitTyped, StepTyped, InitReserved, StepReserved, PTL
   DEF Spec, BookSpec, Book!Spec

=============================================================================
