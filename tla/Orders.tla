------------------------------- MODULE Orders -------------------------------
(***************************************************************************)
(* Orders, amount reservations, receipts and refunds of VanillaPay         *)
(* (internal/payment, the receipt ingestion of internal/device and the     *)
(* ban of internal/merchant).                                              *)
(*                                                                         *)
(* Every operation is one database transaction that first locks the        *)
(* merchant row (db.LockBusinessRows), so the operations of a merchant are *)
(* serialised and each is one action.  Two things happen outside that      *)
(* lock and are steps of their own: a payer transfers money (Pay), and the *)
(* ingestion request reads the clock before it waits for the lock          *)
(* (IngestBegin, then IngestMatch).                                        *)
(*                                                                         *)
(* The tables are the variables: orders is a function of the order         *)
(* identity (merchant, out_trade_no), amount_reservations and receipts are *)
(* sets of rows.  outbox holds what the transactions write to the tables   *)
(* of other components: callback_events, purchases, notifications.         *)
(***************************************************************************)
EXTENDS Integers, FiniteSets

CONSTANTS
    Merchants,
    OrderIds,            \* one per (merchant_id, out_trade_no)
    MerchantOf,          \* [OrderIds -> Merchants], orders.merchant_id
    SubscriptionOrders,  \* the order identities with purpose 'subscription'
    RefundIds,           \* one per refund request
    Channels,            \* alipay, wxpay, qqpay
    NoChannel,           \* SQL NULL of orders.channel
    NoOrder,             \* SQL NULL of receipts.order_id
    Originals,           \* the prices asked for, in cents
    MinAmount, MaxAmount,\* site settings, in cents
    FloatSettings,       \* records [up : BOOLEAN, limit : Nat] settings allow
    TTLs,                \* order lifetimes settings allow, in ticks
    Retention,           \* interval '24 hours', in ticks
    Skew,                \* interval '30 seconds', in ticks
    Lags,                \* how far a phone clock may be behind, in ticks
    Copies,              \* event ids under which a payment may be reported
    MaxInflight,         \* bound: concurrent ingestion requests
    MaxClock             \* bound: the last tick

ASSUME MerchantOfAssumption == MerchantOf \in [OrderIds -> Merchants]
ASSUME SubscriptionAssumption == SubscriptionOrders \subseteq OrderIds
ASSUME NullAssumption == NoChannel \notin Channels /\ NoOrder \notin OrderIds
ASSUME AmountAssumption ==
    /\ MinAmount \in Nat /\ MaxAmount \in Nat
    /\ Originals \subseteq Nat \ {0}
    /\ FloatSettings \subseteq [up : BOOLEAN, limit : Nat]
ASSUME TimeAssumption ==
    /\ TTLs \subseteq Nat \ {0}
    /\ Retention \in Nat /\ Skew \in Nat /\ Lags \subseteq Nat

VARIABLES
    clock,         \* the server's clock (platform.Clock)
    banned,        \* merchants with banned_at set
    order,         \* table orders
    reservations,  \* table amount_reservations
    payments,      \* transfers made by payers, as the phones report them
    inflight,      \* ingestion requests between their clock read and their tx
    receipts,      \* table receipts
    refund,        \* table refunds
    outbox         \* rows written for the other components

money == <<payments, inflight, receipts>>
vars == <<clock, banned, order, reservations, money, refund, outbox>>

-----------------------------------------------------------------------------
(* The rows.                                                               *)

OrderRow ==
    [status : {"absent", "pending", "expired", "paid", "refunded"},
     reason : {"none", "timeout", "cancelled", "banned"},
     manual : BOOLEAN,
     allowed : SUBSET Channels,
     channel : Channels \cup {NoChannel},
     original : Originals \cup {0},
     actual : {0} \cup (MinAmount .. MaxAmount),   \* 0 is SQL NULL
     created : Nat, lockedAt : Nat, expires : Nat]

ReservationRow ==
    [order : OrderIds, channel : Channels,
     amount : MinAmount .. MaxAmount,
     release : Nat]                                 \* 0 is SQL NULL

PaymentRow ==
    [order : OrderIds, channel : Channels, amount : Nat, occurred : Int]

ReceiptRow ==
    [payment : PaymentRow, copy : Copies, settled : OrderIds \cup {NoOrder}]

RefundRow ==
    [order : OrderIds \cup {NoOrder},
     status : {"none", "pending", "rejected", "completed"}]

Message ==
    [kind : {"callback", "cancel_callback", "fulfil", "revoke"}, id : OrderIds]
    \cup [kind : {"refund_notice"}, id : RefundIds]

Blank == [status |-> "absent", reason |-> "none", manual |-> FALSE,
          allowed |-> {}, channel |-> NoChannel, original |-> 0, actual |-> 0,
          created |-> 0, lockedAt |-> 0, expires |-> 0]

TypeOK ==
    /\ clock \in Nat
    /\ banned \subseteq Merchants
    /\ order \in [OrderIds -> OrderRow]
    /\ reservations \subseteq ReservationRow
    /\ payments \subseteq PaymentRow
    /\ inflight \subseteq [payment : PaymentRow, copy : Copies, now : Nat]
    /\ receipts \subseteq ReceiptRow
    /\ refund \in [RefundIds -> RefundRow]
    /\ outbox \subseteq Message

Init ==
    /\ clock = 1
    /\ banned = {}
    /\ order = [o \in OrderIds |-> Blank]
    /\ reservations = {}
    /\ payments = {}
    /\ inflight = {}
    /\ receipts = {}
    /\ refund = [r \in RefundIds |-> [order |-> NoOrder, status |-> "none"]]
    /\ outbox = {}

-----------------------------------------------------------------------------
(* Amounts and reservations.                                               *)

(* The amounts a price may float to under setting f.                       *)
Offers(price, f) ==
    LET floated == IF f.up THEN price .. price + f.limit
                           ELSE price - f.limit .. price
    IN  {a \in floated : 1 <= a /\ MinAmount <= a /\ a <= MaxAmount}

Distance(a, b) == IF a < b THEN b - a ELSE a - b

(* AllocateAmount: the free offer nearest to the price.                    *)
Allocate(price, f, occupied) ==
    LET free == Offers(price, f) \ occupied
    IN  CHOOSE a \in free :
            \A b \in free : Distance(a, price) <= Distance(b, price)

(* The rows of merchant m whose retention is over are deleted first.       *)
Purged(m) ==
    {r \in reservations :
        ~ (MerchantOf[r.order] = m /\ r.release # 0 /\ r.release <= clock)}

(* Mutant of Occupied: the rows of lapsed orders no longer count.          *)
OccupiedByPending(m, c) ==
    {r.amount : r \in {q \in Purged(m) : /\ MerchantOf[q.order] = m
                                          /\ q.channel = c
                                          /\ q.release = 0}}

Occupied(m, c) ==
    {r.amount : r \in {q \in Purged(m) : /\ MerchantOf[q.order] = m
                                          /\ q.channel = c}}

(* Order o reserves amount a on channel c.                                 *)
Reserve(o, c, a) ==
    reservations' = Purged(MerchantOf[o]) \cup
        {[order |-> o, channel |-> c, amount |-> a, release |-> 0]}

(* Mutant of Retain: the row is released at the expiry itself.             *)
RetainToExpiry(S) ==
    reservations' =
        {IF r.order \in S THEN [r EXCEPT !.release = order[r.order].expires]
                          ELSE r : r \in reservations}

(* The rows of the orders S are kept until 24 h after their expiry.        *)
RetainedUntil(o) == order[o].expires + Retention

Retain(S) ==
    reservations' =
        {IF r.order \in S THEN [r EXCEPT !.release = RetainedUntil(r.order)]
                          ELSE r : r \in reservations}

(* Mutant of Unreserve: a settled order keeps its row.                     *)
UnreserveForgotten(o) == UNCHANGED reservations

Unreserve(o) == reservations' = {r \in reservations : r.order # o}

Send(kind, id) == outbox' = outbox \cup {[kind |-> kind, id |-> id]}
-----------------------------------------------------------------------------
(* Creating an order and choosing its channel.                             *)
(*                                                                         *)
(* What the eligibility check leaves of the channels (subscription active, *)
(* a device online, a QR image per channel) belongs to other components:   *)
(* here it is any non-empty set; an empty one refuses the request.         *)

InRange(price) == MinAmount <= price /\ price <= MaxAmount

NewOrder(price, allowed, ttl) ==
    [Blank EXCEPT !.status = "pending", !.allowed = allowed,
                  !.original = price, !.created = clock,
                  !.expires = clock + ttl]

(* The channel, amount and lock time that go into the row together.        *)
Locked(row, c, a) ==
    [row EXCEPT !.channel = c, !.actual = a, !.lockedAt = clock]

(* Service.Create: an external order, for which the API client may already *)
(* name the channel.                                                       *)
Create(o, price, eligible, ttl, c, f) ==
    /\ o \notin SubscriptionOrders
    /\ order[o].status = "absent"
    /\ MerchantOf[o] \notin banned
    /\ InRange(price)
    /\ eligible # {}
    /\ clock + ttl <= MaxClock
    /\ \/ /\ c = NoChannel
          /\ order' = [order EXCEPT ![o] = NewOrder(price, eligible, ttl)]
          /\ UNCHANGED reservations
       \/ LET taken == Occupied(MerchantOf[o], c)
              a == Allocate(price, f, taken)
          IN  /\ c \in eligible
              /\ Offers(price, f) \ taken # {}
              /\ order' = [order EXCEPT
                             ![o] = Locked(NewOrder(price, eligible, ttl), c, a)]
              /\ Reserve(o, c, a)
    /\ UNCHANGED <<clock, banned, money, refund, outbox>>

(* Service.CreateSubscriptionOrderTx: the order of a plan purchase.        *)
CreateSubscriptionOrder(o, price, eligible, ttl) ==
    /\ o \in SubscriptionOrders
    /\ order[o].status = "absent"
    /\ MerchantOf[o] \notin banned
    /\ InRange(price)
    /\ eligible # {}
    /\ clock + ttl <= MaxClock
    /\ order' = [order EXCEPT ![o] = NewOrder(price, eligible, ttl)]
    /\ UNCHANGED <<clock, banned, reservations, money, refund, outbox>>

(* Service.SelectChannel: the payer picks the channel in the checkout.  An *)
(* order past its expiry is refused; the UPDATE to 'expired' the code      *)
(* issues first is rolled back with the refusal.                           *)
SelectChannel(o, c, eligible, f) ==
    LET taken == Occupied(MerchantOf[o], c)
        a == Allocate(order[o].original, f, taken)
    IN  /\ order[o].status = "pending"
        /\ clock < order[o].expires
        /\ order[o].channel = NoChannel
        /\ MerchantOf[o] \notin banned
        /\ InRange(order[o].original)
        /\ c \in eligible /\ c \in order[o].allowed
        /\ Offers(order[o].original, f) \ taken # {}
        /\ order' = [order EXCEPT ![o] = Locked(@, c, a)]
        /\ Reserve(o, c, a)
        /\ UNCHANGED <<clock, banned, money, refund, outbox>>

-----------------------------------------------------------------------------
(* Leaving "pending" without money.                                        *)

(* The orders S lapse, order o for the reason why[o].                      *)
Expired(S, why) ==
    order' = [o \in OrderIds |->
                 IF o \in S
                 THEN [order[o] EXCEPT !.status = "expired", !.reason = why[o]]
                 ELSE order[o]]

(* Mutant of Due: orders without a channel are overlooked.                 *)
DueQuoted(o) ==
    /\ order[o].status = "pending" /\ order[o].expires <= clock
    /\ order[o].channel # NoChannel

Due(o) == order[o].status = "pending" /\ order[o].expires <= clock

(* One item of Service.ExpireBatch.  The batch reads its list before it    *)
(* takes the locks; the UPDATE repeats the condition.                      *)
ExpireBatch(o) ==
    /\ Due(o)
    /\ Expired({o}, [x \in {o} |-> "timeout"])
    /\ Retain({o})
    /\ UNCHANGED <<clock, banned, money, refund, outbox>>

(* Service.Query expires an overdue order it is asked about (expireOne).   *)
Query(o) == ExpireBatch(o)

PendingOf(S) == {o \in S : order[o].status = "pending"}

(* Service.CancelSubscriptionOrderTx for the orders of the purchases that  *)
(* one transaction of the subscription service cancels.                    *)
CancelSubscriptionOrders(bought) ==
    LET open == PendingOf(bought)
    IN  /\ open # {}
        /\ Expired(open, [o \in open |-> "cancelled"])
        /\ Retain(open)
        /\ UNCHANGED <<clock, banned, money, refund, outbox>>

OrdersOf(m) == {o \in OrderIds : MerchantOf[o] = m}

(* Mutant of Ban: orders without a channel stay pending.                   *)
BanQuoted(m, bought) ==
    LET own == {o \in PendingOf(OrdersOf(m)) : order[o].channel # NoChannel}
    IN  /\ m \notin banned
        /\ banned' = banned \cup {m}
        /\ Expired(own, [o \in own |-> "banned"])
        /\ Retain(own)
        /\ UNCHANGED <<clock, money, refund, outbox>>

(* merchant.Service.Ban: ExpirePendingForBannedTx ends the merchant's own  *)
(* orders, CancelPendingPurchasesForBannedTx those it bought plans with.   *)
Ban(m, bought) ==
    LET own == PendingOf(OrdersOf(m))
        open == own \cup PendingOf(bought)
        banExpired == {o \in OrdersOf(m) : /\ order[o].status = "expired"
                                            /\ order[o].reason = "banned"}
    IN  /\ m \notin banned
        /\ banned' = banned \cup {m}
        /\ Expired(open, [o \in open |-> IF o \in own THEN "banned"
                                                     ELSE "cancelled"])
        /\ Retain(open \cup banExpired)
        /\ UNCHANGED <<clock, money, refund, outbox>>

Unban(m) ==
    /\ m \in banned
    /\ banned' = banned \ {m}
    /\ UNCHANGED <<clock, order, reservations, money, refund, outbox>>

-----------------------------------------------------------------------------
(* Money.                                                                  *)

(* A payer transfers the quoted amount, once per order, while the order is *)
(* open or at most 24 h after it lapsed.  The phone stamps the transfer    *)
(* with a clock that may be behind.  No later transaction reads the very   *)
(* instant of the transfer: the clock moves on.                            *)
Pay(o, lag) ==
    /\ order[o].status \in {"pending", "expired"}
    /\ order[o].channel # NoChannel
    /\ clock < RetainedUntil(o)
    /\ \A p \in payments : p.order # o
    /\ clock < MaxClock
    /\ payments' = payments \cup
           {[order |-> o, channel |-> order[o].channel,
             amount |-> order[o].actual, occurred |-> clock - lag]}
    /\ clock' = clock + 1
    /\ UNCHANGED <<banned, order, reservations, inflight, receipts, refund,
                   outbox>>

(* The rest of Service.MarkPaidTx once its checks passed: the row is paid, *)
(* at the price if no channel was chosen, its reservation is dropped and   *)
(* the callback, or the fulfilment of the purchase, is written.            *)
Settled(row, c, byHand) ==
    [row EXCEPT !.status = "paid", !.reason = "none", !.manual = byHand,
                !.channel = c,
                !.actual = IF row.channel = NoChannel THEN row.original ELSE @]

HandOff(o) == IF o \in SubscriptionOrders THEN "fulfil" ELSE "callback"

(* fulfillment.PaidTx refuses a purchase that is over; a purchase ends no  *)
(* later than its order.                                                   *)
FulfilmentAccepts(o) ==
    o \in SubscriptionOrders =>
        clock < order[o].expires /\ order[o].reason # "cancelled"

(* The conditions of Service.MarkPaidTx.                                   *)
Payable(o, c, byHand) ==
    /\ IF byHand THEN order[o].status \in {"pending", "expired"}
                 ELSE order[o].status = "pending" /\ clock < order[o].expires
    /\ order[o].channel \in {c, NoChannel}
    /\ FulfilmentAccepts(o)

(* Service.MarkPaidTx; settling a paid order again succeeds and does       *)
(* nothing.                                                                *)
MarkPaidTx(o, c, byHand) ==
    IF order[o].status = "paid"
    THEN UNCHANGED <<order, reservations, outbox>>
    ELSE /\ Payable(o, c, byHand)
         /\ order' = [order EXCEPT ![o] = Settled(@, c, byHand)]
         /\ Unreserve(o)
         /\ Send(HandOff(o), o)

(* device.Service.Ingest reads the clock, then waits for the lock.         *)
IngestBegin(p, k) ==
    /\ Cardinality(inflight) < MaxInflight
    /\ p \in payments
    /\ inflight' = inflight \cup {[payment |-> p, copy |-> k, now |-> clock]}
    /\ UNCHANGED <<clock, banned, order, reservations, payments, receipts,
                   refund, outbox>>

(* Mutants of Matches: the choice of the channel need not precede the      *)
(* transfer; it must strictly precede it; a paid order matches again.      *)
MatchesBeforeLock(i) ==
    {o \in OrderIds :
        LET row == order[o]
            at == i.payment.occurred
        IN  /\ MerchantOf[o] = MerchantOf[i.payment.order]
            /\ row.channel = i.payment.channel
            /\ row.actual = i.payment.amount
            /\ row.status = "pending"
            /\ i.now < row.expires /\ at < row.expires
            /\ at <= i.now + Skew}

MatchesAfterLock(i) ==
    {o \in MatchesBeforeLock(i) : order[o].lockedAt < i.payment.occurred}

MatchesPaid(i) ==
    {o \in OrderIds :
        LET row == order[o]
            at == i.payment.occurred
        IN  /\ MerchantOf[o] = MerchantOf[i.payment.order]
            /\ row.channel = i.payment.channel
            /\ row.actual = i.payment.amount
            /\ row.status \in {"pending", "paid"}
            /\ i.now < row.expires /\ at < row.expires
            /\ row.lockedAt <= at}

(* The orders the SELECT of Ingest finds for request i.                    *)
Matches(i) ==
    {o \in OrderIds :
        LET row == order[o]
            at == i.payment.occurred
        IN  /\ MerchantOf[o] = MerchantOf[i.payment.order]
            /\ row.channel = i.payment.channel
            /\ row.actual = i.payment.amount
            /\ row.status = "pending"
            /\ i.now < row.expires
            /\ row.created <= at /\ row.lockedAt <= at
            /\ at < row.expires
            /\ at <= i.now + Skew}

Oldest(S) == {o \in S : \A p \in S : order[o].created <= order[p].created}

Recorded(i) ==
    \E x \in receipts : x.payment = i.payment /\ x.copy = i.copy

Record(i, o) ==
    receipts' = receipts \cup
        {[payment |-> i.payment, copy |-> i.copy, settled |-> o]}

(* The receipt settles the oldest matching order.                          *)
IngestMatch(i, o) ==
    /\ i \in inflight
    /\ ~ Recorded(i)
    /\ MerchantOf[i.payment.order] \notin banned
    /\ o \in Oldest(Matches(i))
    /\ MarkPaidTx(o, i.payment.channel, FALSE)
    /\ Record(i, o)
    /\ inflight' = inflight \ {i}
    /\ UNCHANGED <<clock, banned, payments, refund>>

(* The receipt is kept unmatched: banned merchant or no order.             *)
IngestUnmatched(i) ==
    /\ i \in inflight
    /\ ~ Recorded(i)
    /\ \/ MerchantOf[i.payment.order] \in banned
       \/ Matches(i) = {}
    /\ Record(i, NoOrder)
    /\ inflight' = inflight \ {i}
    /\ UNCHANGED <<clock, banned, order, reservations, payments, refund,
                   outbox>>

(* The request ends without a row: the event is already recorded, or       *)
(* MarkPaidTx refused (the order expired while the request waited) and the *)
(* transaction rolled back, or the connection failed.  The phone retries.  *)
IngestRollback(i) ==
    /\ i \in inflight
    /\ inflight' = inflight \ {i}
    /\ UNCHANGED <<clock, banned, order, reservations, payments, receipts,
                   refund, outbox>>

(* Service.SupplementIdempotent: the merchant books an order by hand.  A   *)
(* replayed idempotency key changes nothing.                               *)
Supplement(o, c) ==
    /\ MerchantOf[o] \notin banned
    /\ order[o].status \in {"pending", "expired"}
    /\ c \in order[o].allowed
    /\ MarkPaidTx(o, c, TRUE)
    /\ UNCHANGED <<clock, banned, money, refund>>

-----------------------------------------------------------------------------
(* Refunds.                                                                *)

PendingRefunds(o) ==
    {r \in RefundIds : refund[r].order = o /\ refund[r].status = "pending"}

(* Service.RequestRefund by the API client.                                *)
RequestRefund(r, o) ==
    /\ refund[r].status = "none"
    /\ order[o].status = "paid"
    /\ PendingRefunds(o) = {}
    /\ refund' = [refund EXCEPT ![r] = [order |-> o, status |-> "pending"]]
    /\ Send("refund_notice", r)
    /\ UNCHANGED <<clock, banned, order, reservations, money>>

(* Mutant of MarkRefundedTx: open refund requests are left open.           *)
MarkRefundedTxAlone(o) ==
    /\ order[o].status = "paid"
    /\ order' = [order EXCEPT ![o].status = "refunded"]
    /\ UNCHANGED refund
    /\ Send(IF o \in SubscriptionOrders THEN "revoke" ELSE "cancel_callback", o)

(* Service.markRefundedTx.                                                 *)
MarkRefundedTx(o) ==
    /\ order[o].status = "paid"
    /\ order' = [order EXCEPT ![o].status = "refunded"]
    /\ refund' = [r \in RefundIds |->
                     IF r \in PendingRefunds(o)
                     THEN [refund[r] EXCEPT !.status = "completed"]
                     ELSE refund[r]]
    /\ Send(IF o \in SubscriptionOrders THEN "revoke" ELSE "cancel_callback", o)

(* Service.ResolveRefund: action 'reject'.                                 *)
RejectRefund(r) ==
    /\ refund[r].status = "pending"
    /\ order[refund[r].order].status = "paid"
    /\ refund' = [refund EXCEPT ![r].status = "rejected"]
    /\ UNCHANGED <<clock, banned, order, reservations, money, outbox>>

(* Service.ResolveRefund: action 'mark_refunded'.  Only the order's status *)
(* is checked: the request may have been rejected before.                  *)
ApproveRefund(r) ==
    /\ refund[r].order # NoOrder
    /\ MarkRefundedTx(refund[r].order)
    /\ UNCHANGED <<clock, banned, reservations, money>>

(* Service.MarkRefundedIdempotent.                                         *)
MarkRefunded(o) ==
    /\ MarkRefundedTx(o)
    /\ UNCHANGED <<clock, banned, reservations, money>>

-----------------------------------------------------------------------------
Tick ==
    /\ clock < MaxClock
    /\ clock' = clock + 1
    /\ UNCHANGED <<banned, order, reservations, money, refund, outbox>>

Checkout ==
    \E o \in OrderIds, eligible \in SUBSET Channels, f \in FloatSettings :
        \/ \E price \in Originals, ttl \in TTLs :
              \/ \E c \in Channels \cup {NoChannel} :
                    Create(o, price, eligible, ttl, c, f)
              \/ CreateSubscriptionOrder(o, price, eligible, ttl)
        \/ \E c \in Channels : SelectChannel(o, c, eligible, f)

Lapsing ==
    \/ \E o \in OrderIds : ExpireBatch(o) \/ Query(o)
    \/ \E bought \in SUBSET SubscriptionOrders :
          \/ CancelSubscriptionOrders(bought)
          \/ \E m \in Merchants : Ban(m, bought)
    \/ \E m \in Merchants : Unban(m)

Paying ==
    \/ \E o \in OrderIds, lag \in Lags : Pay(o, lag)
    \/ \E p \in payments, k \in Copies : IngestBegin(p, k)
    \/ \E i \in inflight :
          \/ \E o \in OrderIds : IngestMatch(i, o)
          \/ IngestUnmatched(i)
          \/ IngestRollback(i)
    \/ \E o \in OrderIds, c \in Channels : Supplement(o, c)

Refunding ==
    \/ \E r \in RefundIds :
          \/ \E o \in OrderIds : RequestRefund(r, o)
          \/ RejectRefund(r)
          \/ ApproveRefund(r)
    \/ \E o \in OrderIds : MarkRefunded(o)

Next == Tick \/ Checkout \/ Lapsing \/ Paying \/ Refunding

Spec == Init /\ [][Next]_vars

(* Time passes, and the 15-second expiry job visits every overdue order.   *)
FairSpec == /\ Spec
            /\ WF_vars(Tick)
            /\ \A o \in OrderIds : WF_vars(ExpireBatch(o))

-----------------------------------------------------------------------------
(* Properties.                                                             *)

(* A reservation is unique per order and per (merchant, channel, amount),  *)
(* without the help of the table's unique indexes: the rows that           *)
(* reserveAmountTx and SelectChannel insert never conflict.                *)
AmountHeldOnce ==
    \A r, s \in reservations :
        \/ r.order = s.order
        \/ /\ MerchantOf[r.order] = MerchantOf[s.order]
           /\ r.channel = s.channel /\ r.amount = s.amount
        => r = s

(* Order o may still receive the amount it quoted to a payer.              *)
Exposed(o) ==
    /\ order[o].channel # NoChannel
    /\ \/ order[o].status = "pending"
       \/ order[o].status = "expired" /\ clock < order[o].expires + Retention

Holds(o) ==
    \E r \in reservations : /\ r.order = o
                            /\ r.channel = order[o].channel
                            /\ r.amount = order[o].actual

(* The quote of a pending order, and of a lapsed one for 24 hours after    *)
(* its expiry, stays reserved whichever way the order lapsed: by the job,  *)
(* by a query, by cancellation or by one or several bans.                  *)
HoldCoversExposure == \A o \in OrderIds : Exposed(o) => Holds(o)

(* A receipt never settles an order other than the one it was paid for,    *)
(* however late, often or out of order the phone reports it, and whatever  *)
(* was booked by hand, expired, released and reused in between.            *)
ReceiptAttribution ==
    \A x \in receipts : x.settled # NoOrder => x.settled = x.payment.order

(* An order is settled by hand or by exactly one receipt: matched receipts *)
(* and automatically paid orders correspond one to one.                    *)
OneReceiptPerSettlement ==
    /\ \A x, y \in receipts :
          x.settled # NoOrder /\ x.settled = y.settled => x = y
    /\ \A o \in OrderIds :
          (\E x \in receipts : x.settled = o)
             <=> order[o].status \in {"paid", "refunded"} /\ ~ order[o].manual

(* A refund request is open only on a paid order, one at a time, and a     *)
(* completed one means that its order is refunded.                         *)
RefundsFollowOrder ==
    /\ \A r \in RefundIds :
          /\ refund[r].status = "pending" => order[refund[r].order].status = "paid"
          /\ refund[r].status = "completed" =>
                order[refund[r].order].status = "refunded"
    /\ \A o \in OrderIds : Cardinality(PendingRefunds(o)) <= 1

(* A banned merchant has no payable order, so that nothing can be settled  *)
(* for it until it is unbanned.                                            *)
BannedHasNoPending ==
    \A o \in OrderIds : MerchantOf[o] \in banned => order[o].status # "pending"

(* Money that arrives by receipt settles an order only while it is pending *)
(* and before its expiry by the clock of the settling transaction, though  *)
(* Ingest looked for the order with an older clock reading.                *)
AutomaticOnlyInTime ==
    [][\A o \in OrderIds :
          /\ order[o].status # "paid" /\ order'[o].status = "paid"
          /\ ~ order'[o].manual
          => order[o].status = "pending" /\ clock < order[o].expires]_vars

(* A receipt is filed unmatched only if its order cannot be settled by it  *)
(* any more: it is not pending, its merchant is banned, it is past expiry, *)
(* or the phone's stamp precedes the choice of the channel.                *)
NoPayableReceiptUnmatched ==
    [][\A x \in receipts' \ receipts :
          LET row == order[x.payment.order]
          IN  x.settled = NoOrder =>
                \/ row.status # "pending"
                \/ MerchantOf[x.payment.order] \in banned
                \/ row.expires <= clock
                \/ x.payment.occurred < row.lockedAt]_vars

(* Every pending order is eventually settled or lapses.                    *)
PendingEnds ==
    \A o \in OrderIds :
        order[o].status = "pending" ~> order[o].status # "pending"

-----------------------------------------------------------------------------
(* The abstract order book and the mapping under which Orders refines it.  *)

QuotesHeld(o) ==
    {<<MerchantOf[o], r.channel, r.amount>> :
        r \in {q \in reservations : q.order = o}}

Book == INSTANCE OrderBook WITH
            Orders <- OrderIds,
            Quotes <- Merchants \X Channels \X (MinAmount .. MaxAmount),
            status <- [o \in OrderIds |-> order[o].status],
            held   <- [o \in OrderIds |-> QuotesHeld(o)]

(* Every behaviour of the order tables is a behaviour of the order book.   *)
BookSpec == Book!Spec
=============================================================================
