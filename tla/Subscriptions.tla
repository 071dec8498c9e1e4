--------------------------- MODULE Subscriptions ---------------------------
(***************************************************************************)
(* Plans, purchases and entitlements of the merchants that buy from the    *)
(* platform (internal/subscription, with the billing orders of             *)
(* internal/payment and the bans of internal/merchant).                    *)
(*                                                                         *)
(* A purchase reserves one unit of its buyer's limit and has an order of   *)
(* the billing merchant, its bill.  Paying the bill turns the purchase     *)
(* into a grant.  Grants form chains: a renewal joins the buyer's active   *)
(* chain, every other grant begins one, named here after its first grant.  *)
(* The subscription row caches what the live grants of the active chain    *)
(* add up to.                                                              *)
(*                                                                         *)
(* Every action is one transaction.  Prices and channels do not matter     *)
(* here; a plan's terms are its duration and its purchase limit.           *)
(***************************************************************************)
EXTENDS Integers, FiniteSets, FiniteSetsExt

CONSTANTS
    Buyers,        \* merchants that buy plans
    Billing,       \* the billing merchant, who receives the money
    Plans,
    PurchaseIds,   \* bound: 1 .. n, ids in the order of creation
    ManualIds,     \* bound: ids of an administrator's grants
    Durations,     \* of a plan, in ticks
    Limits,        \* purchase limits, NoLimit among them or not
    Expiries,      \* expiry dates an administrator may grant
    Confirms,      \* values of confirm_replace in requests
    Bannable,      \* bound: the merchants that are banned at times
    TTL,           \* default_ttl_seconds, the life of a purchase
    MaxClock,      \* bound
    MaxRevision    \* bound on a plan's revisions

NoLimit == 0
NoPlan == 0
NoChain == 0
Nobody == 0

ASSUME IdsAssumption ==
    /\ PurchaseIds \subseteq Nat \ {0} /\ ManualIds \subseteq Nat \ {0}
    /\ PurchaseIds \cap ManualIds = {}
    /\ NoPlan \notin Plans /\ Nobody \notin Buyers /\ Billing \notin Buyers
    /\ Bannable \subseteq Buyers \cup {Billing} /\ Confirms \subseteq BOOLEAN
ASSUME TermsAssumption ==
    /\ Durations \subseteq Nat \ {0} /\ Expiries \subseteq Nat \ {0}
    /\ Limits \subseteq Nat /\ TTL \in Nat \ {0}
    /\ MaxClock \in Nat /\ MaxRevision \in Nat \ {0}

VARIABLES
    clock,
    banned,     \* merchants with banned_at set
    plan,       \* [Plans -> row of plans]
    purchase,   \* [PurchaseIds -> row of purchases, with its order's status]
    counter,    \* [Buyers \X Plans -> row of plan_purchase_counters]
    grant,      \* [GrantIds -> row of subscription_grants]
    sub,        \* [Buyers -> row of subscriptions, revision 0 when absent]
    request     \* [Buyers -> set of at most one purchase request under way]

vars == <<clock, banned, plan, purchase, counter, grant, sub, request>>

GrantIds == PurchaseIds \cup ManualIds

PlanRow == [revision : 1 .. MaxRevision, duration : Durations,
            limit : Limits, deleted : BOOLEAN]

PurchaseRow ==
    [state : {"absent", "pending", "paid", "expired", "cancelled", "refunded"},
     buyer : Buyers \cup {Nobody}, plan : Plans \cup {NoPlan},
     kind : {"new", "renew", "switch"}, duration : Nat, expires : Nat,
     bill : {"none", "pending", "expired", "paid", "refunded"}]

GrantRow ==
    [chain : GrantIds \cup {NoChain}, buyer : Buyers \cup {Nobody},
     plan : Plans \cup {NoPlan}, effective : Nat, duration : Nat, fixed : Nat,
     refunded : BOOLEAN, voided : BOOLEAN]

SubRow ==
    [plan : Plans \cup {NoPlan}, expires : Nat, revision : Nat,
     chain : GrantIds \cup {NoChain}, source : {"none", "purchase", "manual"}]

Request == [plan : Plans, terms : PlanRow, seen : SubRow, confirm : Confirms]

TypeOK ==
    /\ clock \in 0 .. MaxClock
    /\ banned \subseteq Bannable
    /\ plan \in [Plans -> PlanRow]
    /\ purchase \in [PurchaseIds -> PurchaseRow]
    /\ counter \in [Buyers \X Plans -> [paid : Nat, reserved : Nat]]
    /\ grant \in [GrantIds -> GrantRow]
    /\ sub \in [Buyers -> SubRow]
    /\ \A b \in Buyers : request[b] \subseteq Request

-----------------------------------------------------------------------------

NoPurchase ==
    [state |-> "absent", buyer |-> Nobody, plan |-> NoPlan, kind |-> "new",
     duration |-> 0, expires |-> 0, bill |-> "none"]

NoGrant ==
    [chain |-> NoChain, buyer |-> Nobody, plan |-> NoPlan, effective |-> 0,
     duration |-> 0, fixed |-> 0, refunded |-> FALSE, voided |-> FALSE]

NoSubscription ==
    [plan |-> NoPlan, expires |-> 0, revision |-> 0, chain |-> NoChain,
     source |-> "none"]

Init ==
    /\ clock = 0 /\ banned = {}
    /\ plan \in [Plans -> [revision : {1}, duration : Durations,
                           limit : Limits, deleted : {FALSE}]]
    /\ purchase = [p \in PurchaseIds |-> NoPurchase]
    /\ counter = [k \in Buyers \X Plans |-> [paid |-> 0, reserved |-> 0]]
    /\ grant = [g \in GrantIds |-> NoGrant]
    /\ sub = [b \in Buyers |-> NoSubscription]
    /\ request = [b \in Buyers |-> {}]

Tick ==
    /\ clock < MaxClock
    /\ clock' = clock + 1
    /\ UNCHANGED <<banned, plan, purchase, counter, grant, sub, request>>

-----------------------------------------------------------------------------
(* Plans.                                                                  *)

SavePlan(pl, duration, limit) ==
    /\ ~plan[pl].deleted
    /\ plan[pl].revision < MaxRevision
    /\ plan' = [plan EXCEPT ![pl].revision = @ + 1,
                            ![pl].duration = duration,
                            ![pl].limit = limit]
    /\ UNCHANGED <<clock, banned, purchase, counter, grant, sub, request>>

Pending(p) == purchase[p].state = "pending"

(* Every pending purchase of S gives its reservation back.                 *)
Release(S) ==
    counter' = [k \in Buyers \X Plans |->
        [counter[k] EXCEPT !.reserved =
            Max({0, @ - Cardinality({p \in S : <<purchase[p].buyer,
                                                 purchase[p].plan>> = k})})]]

(* CancelSubscriptionOrderTx: a bill that is not pending stays as it is.   *)
CancelBill(bill) == IF bill = "pending" THEN "expired" ELSE bill

(* Mutant of Cancelled: the bill stays open.                               *)
CancelledAlone(row) == [row EXCEPT !.state = "cancelled"]

Cancelled(row) ==
    [row EXCEPT !.state = "cancelled", !.bill = CancelBill(@)]

Cancel(S) ==
    /\ purchase' = [p \in PurchaseIds |->
                       IF p \in S THEN Cancelled(purchase[p]) ELSE purchase[p]]
    /\ Release(S)

DeletePlan(pl) ==
    /\ ~plan[pl].deleted
    /\ plan[pl].revision < MaxRevision
    /\ plan' = [plan EXCEPT ![pl].deleted = TRUE, ![pl].revision = @ + 1]
    /\ Cancel({p \in PurchaseIds : Pending(p) /\ purchase[p].plan = pl})
    /\ UNCHANGED <<clock, banned, grant, sub, request>>

-----------------------------------------------------------------------------
(* Purchases.                                                              *)

(* The buyer reads the plan and its subscription, decides, and sends the   *)
(* request; the session check turns banned merchants away.                 *)
Review(b, pl, confirm) ==
    /\ b \notin banned
    /\ request[b] = {}
    /\ ~plan[pl].deleted
    /\ request' = [request EXCEPT ![b] =
          {[plan |-> pl, terms |-> plan[pl], seen |-> sub[b],
            confirm |-> confirm]}]
    /\ UNCHANGED <<clock, banned, plan, purchase, counter, grant, sub>>

(* The request is refused or lost.                                         *)
Drop(b) ==
    /\ request[b] # {}
    /\ request' = [request EXCEPT ![b] = {}]
    /\ UNCHANGED <<clock, banned, plan, purchase, counter, grant, sub>>

Active(b) == sub[b].plan # NoPlan /\ sub[b].expires > clock

KindFor(b, pl) ==
    IF ~Active(b) THEN "new" ELSE IF sub[b].plan = pl THEN "renew" ELSE "switch"

(* Mutant of HasRoom: off by one.                                          *)
HasRoomForOneMore(b, pl) ==
    \/ plan[pl].limit = NoLimit
    \/ counter[<<b, pl>>].paid + counter[<<b, pl>>].reserved <= plan[pl].limit

HasRoom(b, pl) ==
    \/ plan[pl].limit = NoLimit
    \/ counter[<<b, pl>>].paid + counter[<<b, pl>>].reserved < plan[pl].limit

(* Mutant of UpToDate: only the plan is compared.                          *)
PlanUpToDate(b, r) == plan[r.plan].revision = r.terms.revision

(* The revisions the request carries are still those of the rows.          *)
UpToDate(b, r) ==
    /\ plan[r.plan].revision = r.terms.revision
    /\ sub[b].revision = r.seen.revision

(* The transaction locks the buyer and asks only the billing merchant for  *)
(* a ban.  Its own check refuses a second purchase while the first is      *)
(* pending and in time; the unique index refuses one that is overdue too.  *)
Purchase(b, p) ==
    \E r \in request[b] :
      LET kind == KindFor(b, r.plan)
      IN  /\ purchase[p].state = "absent"
          /\ \A q \in PurchaseIds : q < p => purchase[q].state # "absent"
          /\ clock + TTL <= MaxClock
          /\ Billing \notin banned
          /\ ~plan[r.plan].deleted
          /\ UpToDate(b, r)
          /\ kind = "switch" => r.confirm
          /\ \A q \in PurchaseIds : purchase[q].buyer = b => ~Pending(q)
          /\ HasRoom(b, r.plan)
          /\ purchase' = [purchase EXCEPT ![p] =
                [state |-> "pending", buyer |-> b, plan |-> r.plan,
                 kind |-> kind, duration |-> plan[r.plan].duration,
                 expires |-> clock + TTL, bill |-> "pending"]]
          /\ counter' = [counter EXCEPT ![<<b, r.plan>>].reserved = @ + 1]
          /\ request' = [request EXCEPT ![b] = {}]
          /\ UNCHANGED <<clock, banned, plan, grant, sub>>

CancelPurchase(p) ==
    /\ Pending(p)
    /\ Cancel({p})
    /\ UNCHANGED <<clock, banned, plan, grant, sub, request>>

(* Mutant of CloseExpired: the reservation is kept.                        *)
CloseExpiredHolding(p) ==
    /\ Pending(p)
    /\ purchase[p].expires <= clock
    /\ purchase' = [purchase EXCEPT ![p].state = "expired"]
    /\ UNCHANGED <<clock, banned, plan, counter, grant, sub, request>>

(* Mutant of CloseExpired: a purchase whose bill lapsed first is skipped.  *)
CloseExpiredWithBill(p) ==
    /\ Pending(p)
    /\ purchase[p].expires <= clock
    /\ purchase[p].bill = "pending"
    /\ purchase' = [purchase EXCEPT ![p].state = "expired"]
    /\ Release({p})
    /\ UNCHANGED <<clock, banned, plan, grant, sub, request>>

(* The job closes one purchase per transaction and leaves its bill to the  *)
(* job that expires orders.                                                *)
CloseExpired(p) ==
    /\ Pending(p)
    /\ purchase[p].expires <= clock
    /\ purchase' = [purchase EXCEPT ![p].state = "expired"]
    /\ Release({p})
    /\ UNCHANGED <<clock, banned, plan, grant, sub, request>>

(* The bill's own expiry, which does not touch the purchase.               *)
LapseBill(p) ==
    /\ purchase[p].bill = "pending"
    /\ purchase[p].expires <= clock
    /\ purchase' = [purchase EXCEPT ![p].bill = "expired"]
    /\ UNCHANGED <<clock, banned, plan, counter, grant, sub, request>>

(* A ban expires the orders the merchant is paid by and cancels the        *)
(* purchases it has pending.                                               *)
Ban(m) ==
    LET bought == {p \in PurchaseIds : Pending(p) /\ purchase[p].buyer = m}
    IN  /\ m \notin banned
        /\ banned' = banned \cup {m}
        /\ purchase' = [p \in PurchaseIds |->
              IF p \in bought THEN Cancelled(purchase[p])
              ELSE IF m = Billing
              THEN [purchase[p] EXCEPT !.bill = CancelBill(@)]
              ELSE purchase[p]]
        /\ Release(bought)
        /\ UNCHANGED <<clock, plan, grant, sub, request>>

Unban(m) ==
    /\ m \in banned
    /\ banned' = banned \ {m}
    /\ UNCHANGED <<clock, plan, purchase, counter, grant, sub, request>>

-----------------------------------------------------------------------------
(* Entitlements.                                                           *)

Exists(g) == grant[g].chain # NoChain
Live(row) == ~row.refunded /\ ~row.voided

(* The live grants of chain c among the rows G.                            *)
LiveIn(G, c) == {g \in GrantIds : G[g].chain = c /\ Live(G[g])}

(* The rows G with chain c voided.                                         *)
Void(G, c) == [g \in GrantIds |-> IF c # NoChain /\ G[g].chain = c
                                  THEN [G[g] EXCEPT !.voided = TRUE] ELSE G[g]]

(* recomputeChainTx takes the live grants as they take effect, the latest  *)
(* of S last.                                                              *)
Latest(G, S) == CHOOSE g \in S : \A h \in S : G[h].effective <= G[g].effective

(* When the grants live end: each starts when it takes effect or when      *)
(* those before it end, a manual grant sets the date.                      *)
EndDate(G, live) ==
    LET date[S \in SUBSET live] ==
          IF S = {} THEN 0
          ELSE LET g == Latest(G, S)
               IN  IF G[g].fixed # 0 THEN G[g].fixed
                   ELSE Max({date[S \ {g}], G[g].effective}) + G[g].duration
    IN  date[live]

(* The subscription follows chain c of rows G.                             *)
Recomputed(row, G, c, at) ==
    LET live == LiveIn(G, c)
        expiry == EndDate(G, live)
        source == IF expiry <= at THEN "none"
                  ELSE IF \E g \in live : G[g].fixed # 0
                  THEN "manual" ELSE "purchase"
    IN  IF live = {}
        THEN [row EXCEPT !.plan = NoPlan, !.expires = at,
                         !.revision = @ + 1, !.chain = c, !.source = "none"]
        ELSE [plan |-> G[Latest(G, live)].plan, expires |-> expiry,
              revision |-> row.revision + 1, chain |-> c, source |-> source]

(* Mutant of Renews: a chain that has run out is extended too.             *)
RenewsLapsed(p) ==
    purchase[p].kind = "renew" /\ sub[purchase[p].buyer].chain # NoChain

(* A renewal extends the chain that is active when it is paid.             *)
Renews(p) ==
    LET s == sub[purchase[p].buyer]
    IN  purchase[p].kind = "renew" /\ s.chain # NoChain /\ s.expires > clock

(* Mutant of Fulfil: a switch leaves the chain it replaces alive.          *)
FulfilKeeping(p) ==
    LET row == purchase[p]
        s == sub[row.buyer]
        chain == IF Renews(p) THEN s.chain ELSE p
        rows == [grant EXCEPT ![p] =
                    [NoGrant EXCEPT
                        !.chain = chain, !.buyer = row.buyer, !.plan = row.plan,
                        !.effective = IF Renews(p) THEN s.expires ELSE clock,
                        !.duration = row.duration]]
    IN  /\ grant' = rows
        /\ sub' = [sub EXCEPT ![row.buyer] = Recomputed(s, rows, chain, clock)]

(* PaidTx: the new grant, the chain a switch replaces, the subscription.   *)
Fulfil(p) ==
    LET row == purchase[p]
        s == sub[row.buyer]
        chain == IF Renews(p) THEN s.chain ELSE p
        kept == IF row.kind = "switch" THEN Void(grant, s.chain) ELSE grant
        rows == [kept EXCEPT ![p] =
                    [NoGrant EXCEPT
                        !.chain = chain, !.buyer = row.buyer, !.plan = row.plan,
                        !.effective = IF Renews(p) THEN s.expires ELSE clock,
                        !.duration = row.duration]]
    IN  /\ grant' = rows
        /\ sub' = [sub EXCEPT ![row.buyer] = Recomputed(s, rows, chain, clock)]

(* A receipt settles a pending bill in time, a person also an expired one; *)
(* PaidTx then refuses a purchase that is closed or overdue, and the whole *)
(* settlement with it.                                                     *)
Payable(p, byHand) ==
    /\ purchase[p].bill \in IF byHand THEN {"pending", "expired"} ELSE {"pending"}
    /\ Pending(p)
    /\ purchase[p].expires > clock

Settle(p, byHand) ==
    LET k == <<purchase[p].buyer, purchase[p].plan>>
    IN  /\ Payable(p, byHand)
        /\ purchase' = [purchase EXCEPT ![p].state = "paid", ![p].bill = "paid"]
        /\ counter' = [counter EXCEPT ![k].reserved = Max({0, @ - 1}),
                                      ![k].paid = @ + 1]
        /\ Fulfil(p)
        /\ UNCHANGED <<clock, banned, plan, request>>

(* Mutant of Follows: a refund recomputes the grant's own chain.           *)
FollowsAny(b, c) == TRUE

(* Only the active chain drives the subscription.                          *)
Follows(b, c) == sub[b].chain = c

(* markRefundedTx with RefundedTx; a refund gives no unit of the limit     *)
(* back.                                                                   *)
Refund(p) ==
    LET b == purchase[p].buyer
        rows == [grant EXCEPT ![p].refunded = TRUE]
        chain == grant[p].chain
    IN  /\ purchase[p].bill = "paid"
        /\ purchase[p].state = "paid"
        /\ purchase' = [purchase EXCEPT ![p].state = "refunded",
                                        ![p].bill = "refunded"]
        /\ grant' = rows
        /\ sub' = IF Follows(b, chain)
                  THEN [sub EXCEPT ![b] = Recomputed(sub[b], rows, chain, clock)]
                  ELSE sub
        /\ UNCHANGED <<clock, banned, plan, counter, request>>

(* An administrator replaces whatever the merchant has: its pending        *)
(* purchases are cancelled, its active chain is voided.  A request with an *)
(* outdated revision is refused and changes nothing.                       *)
Grant(b, g, pl, expires) ==
    LET mine == {p \in PurchaseIds : Pending(p) /\ purchase[p].buyer = b}
    IN  /\ ~Exists(g)
        /\ \A h \in ManualIds : h < g => Exists(h)
        /\ ~plan[pl].deleted
        /\ Cancel(mine)
        /\ grant' = [Void(grant, sub[b].chain) EXCEPT ![g] =
                        [NoGrant EXCEPT !.chain = g, !.buyer = b, !.plan = pl,
                                        !.effective = clock, !.fixed = expires]]
        /\ sub' = [sub EXCEPT ![b] =
                      [plan |-> pl, expires |-> expires, chain |-> g,
                       revision |-> @.revision + 1, source |-> "manual"]]
        /\ UNCHANGED <<clock, banned, plan, request>>

-----------------------------------------------------------------------------

Next ==
    \/ Tick
    \/ \E pl \in Plans :
          \/ DeletePlan(pl)
          \/ \E d \in Durations, l \in Limits : SavePlan(pl, d, l)
    \/ \E b \in Buyers :
          \/ Drop(b)
          \/ \E pl \in Plans, c \in Confirms : Review(b, pl, c)
          \/ \E p \in PurchaseIds : Purchase(b, p)
          \/ \E g \in ManualIds, pl \in Plans, e \in Expiries : Grant(b, g, pl, e)
    \/ \E p \in PurchaseIds :
          \/ CancelPurchase(p) \/ CloseExpired(p) \/ LapseBill(p) \/ Refund(p)
          \/ \E byHand \in BOOLEAN : Settle(p, byHand)
    \/ \E m \in Bannable : Ban(m) \/ Unban(m)

Spec == Init /\ [][Next]_vars

(* The expiry job runs every 15 seconds and time passes.                   *)
FairSpec ==
    /\ Spec
    /\ WF_vars(Tick)
    /\ \A p \in PurchaseIds : WF_vars(CloseExpired(p))

-----------------------------------------------------------------------------
(* Safety.                                                                 *)

Of(b, pl, states) ==
    {p \in PurchaseIds : /\ purchase[p].state \in states
                         /\ purchase[p].buyer = b /\ purchase[p].plan = pl}

(* The counters are incremented and decremented by eight operations, none  *)
(* of which counts the purchases; they agree with the purchases all the    *)
(* same: reserved are the pending ones, paid the settled ones, refunded or *)
(* not.                                                                    *)
CountersMatch ==
    \A b \in Buyers, pl \in Plans :
        /\ counter[<<b, pl>>].reserved = Cardinality(Of(b, pl, {"pending"}))
        /\ counter[<<b, pl>>].paid = Cardinality(Of(b, pl, {"paid", "refunded"}))

(* The purchase, its bill and its grant are three rows written by          *)
(* different services: money and entitlement never part.  A paid bill has  *)
(* a paid purchase and an unrefunded grant, a refunded one has both        *)
(* refunded, and a cancelled purchase cannot be paid.                      *)
BillsAgree ==
    \A p \in PurchaseIds :
        /\ (purchase[p].bill = "paid") <=> (purchase[p].state = "paid")
        /\ (purchase[p].bill = "refunded") <=> (purchase[p].state = "refunded")
        /\ purchase[p].state = "cancelled" => purchase[p].bill = "expired"
        /\ Exists(p) <=> purchase[p].state \in {"paid", "refunded"}
        /\ grant[p].refunded <=> purchase[p].state = "refunded"

(* When the grants of S, in one chain, end: the best of the dates reached  *)
(* by starting anew at one of them and adding all later ones, a manual     *)
(* grant cancelling what is before it.  No order, no recursion.                 *)
EndOf(S) ==
    LET Later(g) == {h \in S : grant[h].effective > grant[g].effective}
        Days(T) == Cardinality(UNION {{h} \X (1 .. grant[h].duration) : h \in T})
        Reach(g) == (IF grant[g].fixed # 0 THEN grant[g].fixed
                     ELSE grant[g].effective + grant[g].duration) + Days(Later(g))
        Counting == {g \in S : \A h \in Later(g) : grant[h].fixed = 0}
    IN  Max({Reach(g) : g \in Counting})

(* The subscription row is what the live grants of its active chain add up *)
(* to, after any sequence of purchases, renewals, switches, refunds and    *)
(* manual grants; a voided chain is never the active one, and a chain      *)
(* holds grants of one buyer and one plan.                                 *)
EntitlementFollowsGrants ==
    \A b \in Buyers :
      LET live == LiveIn(grant, sub[b].chain)
      IN  sub[b].chain # NoChain =>
            /\ \A g \in GrantIds : grant[g].chain = sub[b].chain =>
                  ~grant[g].voided /\ grant[g].buyer = b
            /\ IF live = {} THEN sub[b].plan = NoPlan /\ sub[b].expires <= clock
               ELSE /\ sub[b].expires = EndOf(live)
                    /\ \A g \in live : grant[g].plan = sub[b].plan

(* Nothing a buyer paid for is forgotten: a live grant outside the active  *)
(* chain belongs to a chain that has run out.  Only a confirmed switch, an *)
(* administrator or a refund ends an entitlement early.                    *)
NoPaidTimeForgotten ==
    \A g \in GrantIds :
      Exists(g) /\ Live(grant[g]) /\ grant[g].chain # sub[grant[g].buyer].chain
        => EndOf(LiveIn(grant, grant[g].chain)) <= clock

(* A plan that is no longer for sale has no purchase waiting for payment.  *)
DeletedPlanHasNoPending ==
    \A p \in PurchaseIds : Pending(p) => ~plan[purchase[p].plan].deleted

(* What the test of bans expects (interleaving_test.go): a banned buyer    *)
(* has no pending purchase.  A request admitted before the ban breaks it.  *)
BannedBuyerHasNoPending ==
    \A p \in PurchaseIds : Pending(p) => purchase[p].buyer \notin banned

-----------------------------------------------------------------------------
(* Steps.                                                                  *)

Taken(b, pl) == Cardinality(Of(b, pl, {"pending", "paid", "refunded"}))

(* A buyer's purchases of a plan, pending, settled or refunded, grow only  *)
(* up to the limit the plan has at that moment.                            *)
LimitRespected ==
    [][\A b \in Buyers, pl \in Plans :
          Taken(b, pl)' > Taken(b, pl) =>
             plan'[pl].limit = NoLimit \/ Taken(b, pl)' <= plan'[pl].limit]_vars

Becomes(p, from, to) == purchase[p].state = from /\ purchase'[p].state = to

(* What the dashboard promises before payment: a renewal paid in time adds *)
(* the plan's days to the current expiry, anything else starts now.        *)
PaymentBuysItsDays ==
    [][\A p \in PurchaseIds : Becomes(p, "pending", "paid") =>
          LET b == purchase[p].buyer
          IN  /\ sub'[b].plan = purchase[p].plan
              /\ sub'[b].expires = purchase[p].duration +
                    (IF purchase[p].kind = "renew" /\ Active(b)
                     THEN sub[b].expires ELSE clock)]_vars

(* A refund never lengthens an entitlement or changes the plan, and one of *)
(* a grant outside the active chain leaves the subscription alone.         *)
RefundNeverRevives ==
    [][\A p \in PurchaseIds : Becomes(p, "paid", "refunded") =>
          LET b == purchase[p].buyer
          IN  /\ sub'[b].plan \in {sub[b].plan, NoPlan}
              /\ sub'[b].expires <= Max({sub[b].expires, clock})
              /\ grant[p].chain # sub[b].chain => sub'[b] = sub[b]]_vars

(* A purchase is made on the terms and the subscription its buyer was      *)
(* shown: revisions are bumped by every writer, so comparing them is       *)
(* enough.  Only time may have passed.                                     *)
PurchaseAsReviewed ==
    [][\A p \in PurchaseIds : Becomes(p, "absent", "pending") =>
          \E r \in request[purchase'[p].buyer] :
              /\ purchase'[p].plan = r.plan
              /\ purchase'[p].duration = r.terms.duration
              /\ sub[purchase'[p].buyer] = r.seen]_vars

(* Each purchase and its bill, alone, live the life that PurchaseLocks     *)
(* shows its transactions to give them, however their locks interleave.    *)
Life(p) == INSTANCE PurchaseLife WITH purchase <- purchase[p].state,
                                      bill <- purchase[p].bill

ImplementsLife ==
    /\ \A p \in PurchaseIds : Life(p)!Init
    /\ [][\A p \in PurchaseIds : [Life(p)!Next]_(Life(p)!vars)]_vars

(* A purchase does not stay pending, and does not hold its unit of the     *)
(* limit, for ever.                                                        *)
PurchaseEnds == \A p \in PurchaseIds : Pending(p) ~> ~Pending(p)

=============================================================================
