------------------------ MODULE SubscriptionsProofs -------------------------
(***************************************************************************)
(* Proofs about plans and purchases (Subscriptions), for every set of      *)
(* buyers, plans and purchases, every terms and every number of revisions. *)
(* What the grants of a chain add up to is for EntitlementProofs.          *)
(***************************************************************************)
EXTENDS Subscriptions, FiniteSetTheorems, TLAPS

-----------------------------------------------------------------------------
(* The inductive invariant.                                                *)

CounterRow == [paid : Nat, reserved : Nat]

SaleTyped ==
    /\ clock \in Nat
    /\ plan \in [Plans -> PlanRow]
    /\ purchase \in [PurchaseIds -> PurchaseRow]
    /\ counter \in [Buyers \X Plans -> CounterRow]

(* The columns of the other rows, whatever values D they hold.             *)
GrantColumns(D) ==
    [chain : D, buyer : D, plan : D, effective : D, duration : D, fixed : D,
     refunded : BOOLEAN, voided : BOOLEAN]

SubColumns(D) == [plan : D, expires : D, revision : Nat, chain : D, source : D]

RowsShaped ==
    /\ \E D : grant \in [GrantIds -> GrantColumns(D)]
    /\ \E D : sub \in [Buyers -> SubColumns(D)]

PurchasesFinite == IsFiniteSet({p \in PurchaseIds : purchase[p].state # "absent"})

(* A purchase and its bill.                                                *)
PurchaseSound ==
    \A p \in PurchaseIds :
        /\ purchase[p].state = "absent" => purchase[p].bill = "none"
        /\ purchase[p].state # "absent" =>
              purchase[p].buyer \in Buyers /\ purchase[p].plan \in Plans
        /\ purchase[p].state = "pending" => purchase[p].bill \in {"pending", "expired"}
        /\ purchase[p].bill = "pending" => purchase[p].state \in {"pending", "expired"}

(* What a request carries is the row of the same revision, or of one that  *)
(* was before it.                                                          *)
RequestsHonest ==
    \A b \in Buyers : \A r \in request[b] :
        /\ r.plan \in Plans
        /\ r.terms.revision \in Nat /\ r.terms.revision <= plan[r.plan].revision
        /\ r.terms.revision = plan[r.plan].revision =>
              r.terms.duration = plan[r.plan].duration
        /\ r.seen.revision \in Nat /\ r.seen.revision <= sub[b].revision
        /\ r.seen.revision = sub[b].revision => r.seen = sub[b]

RequestsShaped == DOMAIN request = Buyers

SaleInv ==
    /\ SaleTyped /\ RowsShaped /\ PurchasesFinite /\ PurchaseSound
    /\ BillsAgree /\ CountersMatch /\ DeletedPlanHasNoPending
    /\ RequestsShaped /\ RequestsHonest

(* The part of EntitlementFollowsGrants that counts no days: the chain a   *)
(* subscription follows is never voided and is its merchant's alone.       *)
ActiveChainWhole ==
    \A b \in Buyers : sub[b].chain # NoChain =>
        \A g \in GrantIds : grant[g].chain = sub[b].chain =>
            ~grant[g].voided /\ grant[g].buyer = b

(* A chain is named after its first grant.                                 *)
ChainsNamed ==
    /\ \A g \in GrantIds : grant[g].chain # NoChain =>
          /\ grant[g].chain \in GrantIds
          /\ grant[grant[g].chain].chain = grant[g].chain
    /\ \A b \in Buyers : sub[b].chain # NoChain =>
          /\ sub[b].chain \in GrantIds
          /\ grant[sub[b].chain].chain = sub[b].chain

ChainInv == ActiveChainWhole /\ ChainsNamed

(* What a step keeps beside the invariant: the limits, and the terms.      *)
WithinLimits ==
    \A b \in Buyers, pl \in Plans :
          Taken(b, pl)' > Taken(b, pl) =>
             plan'[pl].limit = NoLimit \/ Taken(b, pl)' <= plan'[pl].limit

AsReviewed ==
    \A p \in PurchaseIds : Becomes(p, "absent", "pending") =>
          \E r \in request[purchase'[p].buyer] :
              /\ purchase'[p].plan = r.plan
              /\ purchase'[p].duration = r.terms.duration
              /\ sub[purchase'[p].buyer] = r.seen

SaleKept == SaleInv' /\ WithinLimits /\ AsReviewed

-----------------------------------------------------------------------------
(* Operators.                                                              *)

LEMMA MaxOfZero ==
    ASSUME NEW n \in Int
    PROVE  Max({0, n}) = IF n >= 0 THEN n ELSE 0
<1>1. CASE n >= 0
  <2>1. \A x \in {0, n} : (\A y \in {0, n} : x >= y) => x = n
    BY <1>1
  <2>2. n \in {0, n} /\ \A y \in {0, n} : n >= y
    BY <1>1
  <2> QED BY <1>1, <2>1, <2>2 DEF Max
<1>2. CASE n < 0
  <2>1. \A x \in {0, n} : (\A y \in {0, n} : x >= y) => x = 0
    BY <1>2
  <2>2. 0 \in {0, n} /\ \A y \in {0, n} : 0 >= y
    BY <1>2
  <2> QED BY <1>2, <2>1, <2>2 DEF Max
<1> QED BY <1>1, <1>2

LEMMA VoidKeeps ==
    ASSUME NEW D, NEW G \in [GrantIds -> GrantColumns(D)], NEW c
    PROVE  /\ Void(G, c) \in [GrantIds -> GrantColumns(D)]
           /\ \A g \in GrantIds : /\ Void(G, c)[g].chain = G[g].chain
                                  /\ Void(G, c)[g].refunded = G[g].refunded
                                  /\ G[g].chain # c => Void(G, c)[g] = G[g]
<1>1. ASSUME NEW g \in GrantIds
      PROVE  /\ Void(G, c)[g] \in GrantColumns(D)
             /\ Void(G, c)[g].chain = G[g].chain
             /\ Void(G, c)[g].refunded = G[g].refunded
  <2>1. G[g] \in GrantColumns(D)
    OBVIOUS
  <2>2. CASE Void(G, c)[g] = G[g]
    BY <2>1, <2>2
  <2>3. CASE Void(G, c)[g] = [G[g] EXCEPT !.voided = TRUE]
    BY <2>1, <2>3 DEF GrantColumns
  <2> QED BY <2>2, <2>3 DEF Void
<1> QED BY <1>1 DEF Void

LEMMA RecomputedColumns ==
    ASSUME NEW D, NEW row \in SubColumns(D), NEW G, NEW c, NEW at
    PROVE  /\ Recomputed(row, G, c, at).revision = row.revision + 1
           /\ Recomputed(row, G, c, at).chain = c
           /\ \E E : Recomputed(row, G, c, at) \in SubColumns(E)
<1>1. PICK live : live = LiveIn(G, c)
  OBVIOUS
<1>2. PICK expiry : expiry = EndDate(G, live)
  OBVIOUS
<1>3. PICK source : source = IF expiry <= at THEN "none"
                             ELSE IF \E g \in live : G[g].fixed # 0
                             THEN "manual" ELSE "purchase"
  OBVIOUS
<1>4. Recomputed(row, G, c, at) =
         IF live = {}
         THEN [row EXCEPT !.plan = NoPlan, !.expires = at,
                          !.revision = row.revision + 1, !.chain = c,
                          !.source = "none"]
         ELSE [plan |-> G[Latest(G, live)].plan, expires |-> expiry,
               revision |-> row.revision + 1, chain |-> c, source |-> source]
  BY <1>1, <1>2, <1>3 DEF Recomputed
<1>5. row.revision + 1 \in Nat
  BY DEF SubColumns
<1>6. CASE live = {}
  <2>1. Recomputed(row, G, c, at) =
          [row EXCEPT !.plan = NoPlan, !.expires = at,
                      !.revision = row.revision + 1, !.chain = c, !.source = "none"]
    BY <1>4, <1>6
  <2>2. Recomputed(row, G, c, at) =
          [plan |-> NoPlan, expires |-> at, revision |-> row.revision + 1,
           chain |-> c, source |-> "none"]
    BY <2>1 DEF SubColumns
  <2>3. PICK E : E = D \cup {NoPlan, at, c, "none"}
    OBVIOUS
  <2> QED BY <1>5, <2>2, <2>3 DEF SubColumns
<1>7. CASE live # {}
  <2>1. PICK pl : pl = G[Latest(G, live)].plan
    OBVIOUS
  <2>2. Recomputed(row, G, c, at) =
          [plan |-> pl, expires |-> expiry, revision |-> row.revision + 1,
           chain |-> c, source |-> source]
    BY <1>4, <1>7, <2>1
  <2>3. PICK E : E = D \cup {pl, expiry, c, source}
    OBVIOUS
  <2> QED BY <1>5, <2>2, <2>3 DEF SubColumns
<1> QED BY <1>6, <1>7

-----------------------------------------------------------------------------
(* Purchases of a buyer and a plan, counted.                               *)

Standings == {"pending", "expired", "paid", "refunded", "cancelled"}

LEMMA CountedFinite ==
    ASSUME SaleInv, NEW b, NEW pl, NEW T \in SUBSET Standings
    PROVE  IsFiniteSet(Of(b, pl, T)) /\ Cardinality(Of(b, pl, T)) \in Nat
<1>1. Of(b, pl, T) \subseteq {p \in PurchaseIds : purchase[p].state # "absent"}
  BY DEF Of, Standings
<1>2. IsFiniteSet(Of(b, pl, T))
  BY <1>1, FS_Subset DEF SaleInv, PurchasesFinite
<1> QED BY <1>2, FS_CardinalityType

LEMMA TakenCounted ==
    ASSUME SaleInv, NEW b \in Buyers, NEW pl \in Plans
    PROVE  /\ Taken(b, pl) \in Nat
           /\ Taken(b, pl) = counter[<<b, pl>>].paid + counter[<<b, pl>>].reserved
<1> DEFINE P == Of(b, pl, {"pending"})
           Q == Of(b, pl, {"paid", "refunded"})
<1>1. Of(b, pl, {"pending", "paid", "refunded"}) = P \cup Q /\ P \cap Q = {}
  BY DEF Of
<1>2. /\ IsFiniteSet(P) /\ IsFiniteSet(Q)
      /\ Cardinality(P) \in Nat /\ Cardinality(Q) \in Nat
  BY CountedFinite DEF Standings
<1>3. counter[<<b, pl>>].reserved = Cardinality(P) /\ counter[<<b, pl>>].paid = Cardinality(Q)
  BY DEF SaleInv, CountersMatch
<1> HIDE DEF P, Q
<1>4. Cardinality(P \cup Q) = Cardinality(P) + Cardinality(Q) - Cardinality(P \cap Q)
  BY <1>2, FS_Union
<1>5. Cardinality(P \cap Q) = 0
  BY <1>1, FS_EmptySet
<1>6. Taken(b, pl) = Cardinality(P \cup Q)
  BY <1>1 DEF Taken
<1>7. Cardinality(P \cup Q) = Cardinality(P) + Cardinality(Q)
  BY <1>2, <1>4, <1>5
<1> QED BY <1>2, <1>3, <1>6, <1>7

(* The purchases of S leave pending and give their units back: the         *)
(* counters still count, and no buyer holds more than before.              *)
LEMMA Released ==
    ASSUME SaleInv, NEW S \in SUBSET {p \in PurchaseIds : Pending(p)},
           \A p \in PurchaseIds :
              /\ purchase'[p].buyer = purchase[p].buyer
              /\ purchase'[p].plan = purchase[p].plan
              /\ p \in S => purchase'[p].state \in {"cancelled", "expired"}
              /\ p \notin S => purchase'[p].state = purchase[p].state,
           Release(S)
    PROVE  /\ counter' \in [Buyers \X Plans -> CounterRow]
           /\ CountersMatch' /\ WithinLimits
<1> DEFINE In(b, pl) == {p \in S : <<purchase[p].buyer, purchase[p].plan>> = <<b, pl>>}
           P(b, pl) == Of(b, pl, {"pending"})
           Q(b, pl) == Of(b, pl, {"paid", "refunded"})
           T(b, pl) == Of(b, pl, {"pending", "paid", "refunded"})
<1>1. ASSUME NEW b \in Buyers, NEW pl \in Plans
      PROVE  /\ counter'[<<b, pl>>] \in CounterRow
             /\ counter'[<<b, pl>>].reserved = Cardinality(P(b, pl)')
             /\ counter'[<<b, pl>>].paid = Cardinality(Q(b, pl)')
             /\ T(b, pl)' \subseteq T(b, pl)
  <2>1. /\ P(b, pl)' = P(b, pl) \ In(b, pl) /\ P(b, pl) \cap In(b, pl) = In(b, pl)
        /\ Q(b, pl)' = Q(b, pl)
        /\ T(b, pl)' \subseteq T(b, pl)
    BY DEF Of, Pending
  <2>2. IsFiniteSet(P(b, pl)) /\ Cardinality(P(b, pl)) \in Nat
    BY CountedFinite DEF Standings
  <2>3. /\ counter[<<b, pl>>] \in CounterRow
        /\ counter[<<b, pl>>].reserved = Cardinality(P(b, pl))
        /\ counter[<<b, pl>>].paid = Cardinality(Q(b, pl))
    BY DEF SaleInv, SaleTyped, CountersMatch
  <2> HIDE DEF In, P, Q, T
  <2>4. /\ IsFiniteSet(P(b, pl) \ In(b, pl))
        /\ Cardinality(P(b, pl) \ In(b, pl)) =
              Cardinality(P(b, pl)) - Cardinality(In(b, pl))
    BY <2>1, <2>2, FS_Difference
  <2>5. In(b, pl) \subseteq P(b, pl)
    BY <2>1
  <2>6. IsFiniteSet(In(b, pl)) /\ Cardinality(In(b, pl)) \in Nat
    BY <2>2, <2>5, FS_Subset, FS_CardinalityType
  <2>7. Cardinality(P(b, pl) \ In(b, pl)) \in Nat
    BY <2>4, FS_CardinalityType
  <2>8. counter'[<<b, pl>>] =
           [counter[<<b, pl>>] EXCEPT !.reserved =
               Max({0, counter[<<b, pl>>].reserved - Cardinality(In(b, pl))})]
    BY DEF Release, In
  <2>9. Max({0, counter[<<b, pl>>].reserved - Cardinality(In(b, pl))})
          = Cardinality(P(b, pl) \ In(b, pl))
    <3> DEFINE n == counter[<<b, pl>>].reserved - Cardinality(In(b, pl))
    <3>1. n \in Nat /\ n = Cardinality(P(b, pl) \ In(b, pl))
      BY <2>2, <2>3, <2>4, <2>6, <2>7
    <3>2. Max({0, n}) = n
      BY <3>1, MaxOfZero
    <3> QED BY <3>1, <3>2
  <2>10. /\ counter'[<<b, pl>>].reserved = Cardinality(P(b, pl) \ In(b, pl))
         /\ counter'[<<b, pl>>].paid = counter[<<b, pl>>].paid
         /\ counter'[<<b, pl>>] \in CounterRow
    BY <2>3, <2>7, <2>8, <2>9 DEF CounterRow
  <2> QED BY <2>1, <2>3, <2>10
<1>2. counter' \in [Buyers \X Plans -> CounterRow]
  <2>1. counter' = [k \in Buyers \X Plans |-> counter'[k]]
    BY DEF Release
  <2>2. ASSUME NEW k \in Buyers \X Plans PROVE counter'[k] \in CounterRow
    <3>1. PICK b \in Buyers, pl \in Plans : k = <<b, pl>>
      OBVIOUS
    <3> QED BY <1>1, <3>1
  <2> QED BY <2>1, <2>2
<1>3. CountersMatch'
  BY <1>1 DEF CountersMatch
<1>4. WithinLimits
  <2> SUFFICES ASSUME NEW b \in Buyers, NEW pl \in Plans
               PROVE  ~(Taken(b, pl)' > Taken(b, pl))
    BY DEF WithinLimits
  <2>1. IsFiniteSet(T(b, pl)) /\ T(b, pl)' \subseteq T(b, pl)
    BY <1>1, CountedFinite DEF Standings
  <2>2. /\ Cardinality(T(b, pl)') <= Cardinality(T(b, pl))
        /\ Cardinality(T(b, pl)') \in Nat /\ Cardinality(T(b, pl)) \in Nat
    <3> HIDE DEF T
    <3> QED BY <2>1, FS_Subset, FS_CardinalityType
  <2>3. Taken(b, pl)' = Cardinality(T(b, pl)') /\ Taken(b, pl) = Cardinality(T(b, pl))
    BY DEF Taken
  <2> QED BY <2>2, <2>3
<1> QED BY <1>2, <1>3, <1>4

(* No purchase starts or ends pending, none is settled.                    *)
LEMMA SameCounts ==
    ASSUME SaleInv, counter' = counter,
           \A p \in PurchaseIds :
              /\ purchase'[p].buyer = purchase[p].buyer
              /\ purchase'[p].plan = purchase[p].plan
              /\ purchase'[p].state = "pending" <=> purchase[p].state = "pending"
              /\ purchase'[p].state \in {"paid", "refunded"}
                    <=> purchase[p].state \in {"paid", "refunded"}
    PROVE  CountersMatch' /\ WithinLimits
<1>1. ASSUME NEW b \in Buyers, NEW pl \in Plans
      PROVE  /\ Of(b, pl, {"pending"})' = Of(b, pl, {"pending"})
             /\ Of(b, pl, {"paid", "refunded"})' = Of(b, pl, {"paid", "refunded"})
             /\ Taken(b, pl)' = Taken(b, pl)
             /\ Taken(b, pl) \in Nat
  <2>1. /\ Of(b, pl, {"pending"})' = Of(b, pl, {"pending"})
        /\ Of(b, pl, {"paid", "refunded"})' = Of(b, pl, {"paid", "refunded"})
        /\ Of(b, pl, {"pending", "paid", "refunded"})'
              = Of(b, pl, {"pending", "paid", "refunded"})
    BY DEF Of
  <2>2. Taken(b, pl)' = Taken(b, pl)
    BY <2>1 DEF Taken
  <2>3. Taken(b, pl) \in Nat
    BY CountedFinite DEF Taken, Standings
  <2> QED BY <2>1, <2>2, <2>3
<1>2. CountersMatch'
  BY <1>1 DEF CountersMatch, SaleInv
<1>3. WithinLimits
  BY <1>1 DEF WithinLimits
<1> QED BY <1>2, <1>3

(* Requests stay honest: who writes a row gives it a new revision.         *)
LEMMA RequestsKept ==
    ASSUME SaleInv,
           \A pl \in Plans :
              \/ plan'[pl] = plan[pl]
              \/ /\ plan'[pl].revision \in Nat
                 /\ plan'[pl].revision > plan[pl].revision,
           \A b \in Buyers :
              \/ sub'[b] = sub[b]
              \/ /\ sub'[b].revision \in Nat
                 /\ sub'[b].revision > sub[b].revision,
           \A b \in Buyers : request'[b] \subseteq request[b]
    PROVE  RequestsHonest'
<1> SUFFICES ASSUME NEW b \in Buyers, NEW r \in request'[b]
             PROVE  /\ r.plan \in Plans
                    /\ r.terms.revision \in Nat
                    /\ r.terms.revision <= plan'[r.plan].revision
                    /\ r.terms.revision = plan'[r.plan].revision =>
                          r.terms.duration = plan'[r.plan].duration
                    /\ r.seen.revision \in Nat
                    /\ r.seen.revision <= sub'[b].revision
                    /\ r.seen.revision = sub'[b].revision => r.seen = sub'[b]
  BY DEF RequestsHonest
<1>1. /\ r.plan \in Plans
      /\ r.terms.revision \in Nat
      /\ r.terms.revision <= plan[r.plan].revision
      /\ r.terms.revision = plan[r.plan].revision =>
            r.terms.duration = plan[r.plan].duration
      /\ r.seen.revision \in Nat
      /\ r.seen.revision <= sub[b].revision
      /\ r.seen.revision = sub[b].revision => r.seen = sub[b]
  BY DEF SaleInv, RequestsHonest
<1>2. plan[r.plan].revision \in Nat
  BY <1>1, TermsAssumption DEF SaleInv, SaleTyped, PlanRow
<1>3. sub[b].revision \in Nat
  BY DEF SaleInv, RowsShaped, SubColumns
<1>4. /\ r.terms.revision <= plan'[r.plan].revision
      /\ r.terms.revision = plan'[r.plan].revision =>
            r.terms.duration = plan'[r.plan].duration
  BY <1>1, <1>2
<1>5. /\ r.seen.revision <= sub'[b].revision
      /\ r.seen.revision = sub'[b].revision => r.seen = sub'[b]
  BY <1>1, <1>3
<1> QED BY <1>1, <1>4, <1>5

(* The purchases of S are closed, by whoever closes them, and bills lapse. *)
Closing(S) ==
    \A p \in PurchaseIds :
        /\ purchase'[p].buyer = purchase[p].buyer
        /\ purchase'[p].plan = purchase[p].plan
        /\ p \in S => purchase'[p].state \in {"cancelled", "expired"}
        /\ p \notin S => purchase'[p].state = purchase[p].state
        /\ \/ purchase'[p].bill = purchase[p].bill
           \/ purchase[p].bill = "pending" /\ purchase'[p].bill = "expired"
        /\ p \in S /\ purchase'[p].state = "cancelled" =>
              purchase'[p].bill = "expired"

LEMMA Closed ==
    ASSUME SaleInv, NEW S \in SUBSET {p \in PurchaseIds : Pending(p)},
           Closing(S),
           \A p \in PurchaseIds : /\ grant'[p].chain = grant[p].chain
                                  /\ grant'[p].refunded = grant[p].refunded
    PROVE  PurchasesFinite' /\ PurchaseSound' /\ BillsAgree' /\ AsReviewed
<1>1. \A p \in PurchaseIds :
         purchase'[p].state = "absent" <=> purchase[p].state = "absent"
  BY DEF Closing, Pending
<1>2. {p \in PurchaseIds : purchase'[p].state # "absent"}
        = {p \in PurchaseIds : purchase[p].state # "absent"}
  BY <1>1
<1>3. PurchasesFinite'
  BY <1>2 DEF PurchasesFinite, SaleInv
<1>4. AsReviewed
  BY <1>1 DEF AsReviewed, Becomes
<1>5. PurchaseSound'
  <2> SUFFICES ASSUME NEW p \in PurchaseIds
        PROVE  /\ purchase'[p].state = "absent" => purchase'[p].bill = "none"
               /\ purchase'[p].state # "absent" =>
                     purchase'[p].buyer \in Buyers /\ purchase'[p].plan \in Plans
               /\ purchase'[p].state = "pending" =>
                     purchase'[p].bill \in {"pending", "expired"}
               /\ purchase'[p].bill = "pending" =>
                     purchase'[p].state \in {"pending", "expired"}
    BY DEF PurchaseSound
  <2> QED BY <1>1 DEF SaleInv, PurchaseSound, Closing, Pending
<1>6. BillsAgree'
  <2> SUFFICES ASSUME NEW p \in PurchaseIds
        PROVE  /\ (purchase'[p].bill = "paid") <=> (purchase'[p].state = "paid")
               /\ (purchase'[p].bill = "refunded") <=> (purchase'[p].state = "refunded")
               /\ purchase'[p].state = "cancelled" => purchase'[p].bill = "expired"
               /\ Exists(p)' <=> purchase'[p].state \in {"paid", "refunded"}
               /\ grant'[p].refunded <=> purchase'[p].state = "refunded"
    BY DEF BillsAgree
  <2>1. CASE p \in S
    <3>1. purchase[p].state = "pending" /\ purchase'[p].state \in {"cancelled", "expired"}
      BY <2>1 DEF Closing, Pending
    <3>2. purchase[p].bill \in {"pending", "expired"}
      BY <3>1 DEF SaleInv, PurchaseSound
    <3> QED BY <2>1, <3>1, <3>2 DEF Closing, SaleInv, BillsAgree, Exists
  <2>2. CASE p \notin S
    <3>1. purchase'[p].state = purchase[p].state
      BY <2>2 DEF Closing
    <3>2. \/ purchase'[p].bill = purchase[p].bill
          \/ /\ purchase[p].bill = "pending" /\ purchase'[p].bill = "expired"
             /\ purchase[p].state \in {"pending", "expired"}
      BY DEF Closing, SaleInv, PurchaseSound
    <3> QED BY <3>1, <3>2 DEF SaleInv, BillsAgree, Exists
  <2> QED BY <2>1, <2>2
<1> QED BY <1>3, <1>4, <1>5, <1>6

LEMMA CancelledRow ==
    ASSUME SaleInv, NEW p \in PurchaseIds, Pending(p)
    PROVE  /\ Cancelled(purchase[p]) \in PurchaseRow
           /\ Cancelled(purchase[p]) =
                [purchase[p] EXCEPT !.state = "cancelled", !.bill = "expired"]
<1>1. purchase[p] \in PurchaseRow
  BY DEF SaleInv, SaleTyped
<1>2. purchase[p].bill \in {"pending", "expired"}
  BY DEF SaleInv, PurchaseSound, Pending
<1>3. CancelBill(purchase[p].bill) = "expired"
  BY <1>2 DEF CancelBill
<1>4. Cancelled(purchase[p]) =
         [purchase[p] EXCEPT !.state = "cancelled", !.bill = "expired"]
  BY <1>3 DEF Cancelled
<1> QED BY <1>1, <1>4 DEF PurchaseRow

LEMMA CancelCloses ==
    ASSUME SaleInv, NEW S \in SUBSET {p \in PurchaseIds : Pending(p)}, Cancel(S)
    PROVE  purchase' \in [PurchaseIds -> PurchaseRow] /\ Closing(S) /\ Release(S)
<1>1. ASSUME NEW p \in PurchaseIds
      PROVE  /\ purchase[p] \in PurchaseRow
             /\ p \in S => /\ Cancelled(purchase[p]) \in PurchaseRow
                           /\ Cancelled(purchase[p]) =
                                 [purchase[p] EXCEPT !.state = "cancelled",
                                                     !.bill = "expired"]
  BY CancelledRow DEF SaleInv, SaleTyped
<1>2. /\ purchase' = [p \in PurchaseIds |->
                       IF p \in S THEN Cancelled(purchase[p]) ELSE purchase[p]]
      /\ Release(S)
  BY DEF Cancel
<1>3. purchase' \in [PurchaseIds -> PurchaseRow]
  BY <1>1, <1>2
<1>4. ASSUME NEW p \in PurchaseIds
      PROVE  /\ purchase'[p].buyer = purchase[p].buyer
             /\ purchase'[p].plan = purchase[p].plan
             /\ p \in S => purchase'[p].state = "cancelled" /\ purchase'[p].bill = "expired"
             /\ p \notin S => purchase'[p] = purchase[p]
             /\ \/ purchase'[p].bill = purchase[p].bill
                \/ purchase[p].bill = "pending" /\ purchase'[p].bill = "expired"
  <2>1. CASE p \in S
    <3>1. purchase'[p] = [purchase[p] EXCEPT !.state = "cancelled", !.bill = "expired"]
      BY <1>1, <1>2, <2>1
    <3>2. purchase[p].bill \in {"pending", "expired"}
      BY <2>1 DEF SaleInv, PurchaseSound, Pending
    <3> QED BY <1>1, <2>1, <3>1, <3>2 DEF PurchaseRow
  <2>2. CASE p \notin S
    BY <1>2, <2>2
  <2> QED BY <2>1, <2>2
<1>5. Closing(S)
  BY <1>4 DEF Closing
<1> QED BY <1>2, <1>3, <1>5

(* A step that closes purchases and writes no grant, no subscription.      *)
LEMMA ClosingStep ==
    ASSUME SaleInv, NEW S \in SUBSET {p \in PurchaseIds : Pending(p)},
           Closing(S), Release(S), purchase' \in [PurchaseIds -> PurchaseRow],
           UNCHANGED <<clock, plan, grant, sub, request>>
    PROVE  SaleKept
<1>1. counter' \in [Buyers \X Plans -> CounterRow] /\ CountersMatch' /\ WithinLimits
  BY Released DEF Closing
<1>2. PurchasesFinite' /\ PurchaseSound' /\ BillsAgree' /\ AsReviewed
  BY Closed
<1>3. RequestsHonest'
  BY RequestsKept
<1>4. RowsShaped' /\ RequestsShaped'
  BY DEF SaleInv, RowsShaped, RequestsShaped
<1>5. SaleTyped'
  BY <1>1 DEF SaleInv, SaleTyped
<1>6. DeletedPlanHasNoPending'
  BY DEF SaleInv, DeletedPlanHasNoPending, Closing, Pending
<1> QED BY <1>1, <1>2, <1>3, <1>4, <1>5, <1>6 DEF SaleKept, SaleInv

(* A step that leaves purchases, counters and grants alone.                *)
LEMMA QuietStep ==
    ASSUME SaleInv, UNCHANGED <<purchase, counter, grant, sub>>,
           clock' \in Nat, plan' \in [Plans -> PlanRow],
           \A pl \in Plans :
              /\ plan'[pl].deleted = plan[pl].deleted
              /\ \/ plan'[pl] = plan[pl]
                 \/ /\ plan'[pl].revision \in Nat
                    /\ plan'[pl].revision > plan[pl].revision
    PROVE  /\ CountersMatch' /\ WithinLimits /\ AsReviewed
           /\ PurchasesFinite' /\ PurchaseSound' /\ BillsAgree'
           /\ RowsShaped' /\ SaleTyped' /\ DeletedPlanHasNoPending'
<1>1. CountersMatch' /\ WithinLimits
  BY SameCounts
<1>2. Closing({}) /\ {} \in SUBSET {p \in PurchaseIds : Pending(p)}
  BY DEF Closing
<1>3. PurchasesFinite' /\ PurchaseSound' /\ BillsAgree' /\ AsReviewed
  BY <1>2, Closed
<1>4. RowsShaped' /\ SaleTyped'
  BY DEF SaleInv, RowsShaped, SaleTyped
<1>5. DeletedPlanHasNoPending'
  BY DEF SaleInv, DeletedPlanHasNoPending, PurchaseSound, Pending
<1> QED BY <1>1, <1>3, <1>4, <1>5

-----------------------------------------------------------------------------
(* The steps.                                                              *)

LEMMA TickStep == ASSUME SaleInv, Tick PROVE SaleKept
<1>1. clock' \in Nat /\ UNCHANGED <<banned, plan, purchase, counter, grant, sub, request>>
  BY DEF Tick, SaleInv, SaleTyped
<1>2. plan' \in [Plans -> PlanRow]
  BY <1>1 DEF SaleInv, SaleTyped
<1>3. /\ CountersMatch' /\ WithinLimits /\ AsReviewed
      /\ PurchasesFinite' /\ PurchaseSound' /\ BillsAgree'
      /\ RowsShaped' /\ SaleTyped' /\ DeletedPlanHasNoPending'
  BY <1>1, <1>2, QuietStep
<1>4. RequestsHonest'
  BY <1>1, RequestsKept
<1>5. RequestsShaped'
  BY <1>1 DEF SaleInv, RequestsShaped
<1> QED BY <1>3, <1>4, <1>5 DEF SaleKept, SaleInv

LEMMA SavePlanStep ==
    ASSUME SaleInv, NEW pl \in Plans, NEW d \in Durations, NEW l \in Limits,
           SavePlan(pl, d, l)
    PROVE  SaleKept
<1>1. plan[pl] \in PlanRow /\ plan[pl].revision < MaxRevision
  BY DEF SaleInv, SaleTyped, SavePlan
<1>2. PICK row : row = [plan[pl] EXCEPT !.revision = plan[pl].revision + 1,
                                        !.duration = d, !.limit = l]
  OBVIOUS
<1>3. plan' = [plan EXCEPT ![pl] = row]
  <2>1. plan = [q \in Plans |-> plan[q]]
    BY DEF SaleInv, SaleTyped
  <2>2. plan' = [plan EXCEPT ![pl] =
                   [plan[pl] EXCEPT !.revision = plan[pl].revision + 1,
                                    !.duration = d, !.limit = l]]
    BY <2>1 DEF SavePlan
  <2> QED BY <1>2, <2>2
<1>4. /\ row \in PlanRow /\ row.revision \in Nat
      /\ row.revision > plan[pl].revision /\ row.deleted = plan[pl].deleted
  <2>1. plan[pl].revision + 1 \in 1 .. MaxRevision /\ plan[pl].revision \in Nat
    BY <1>1, TermsAssumption DEF PlanRow
  <2>2. row \in PlanRow
    BY <1>1, <1>2, <2>1 DEF PlanRow
  <2>3. row.revision = plan[pl].revision + 1
    BY <1>1, <1>2 DEF PlanRow
  <2>4. row.deleted = plan[pl].deleted
    BY <1>1, <1>2 DEF PlanRow
  <2> QED BY <2>1, <2>2, <2>3, <2>4
<1>5. UNCHANGED <<clock, banned, purchase, counter, grant, sub, request>>
  BY DEF SavePlan
<1>6. /\ plan' \in [Plans -> PlanRow]
      /\ \A q \in Plans :
           /\ plan'[q].deleted = plan[q].deleted
           /\ \/ plan'[q] = plan[q]
              \/ /\ plan'[q].revision \in Nat
                 /\ plan'[q].revision > plan[q].revision
  BY <1>3, <1>4 DEF SaleInv, SaleTyped
<1>7. clock' \in Nat
  BY <1>5 DEF SaleInv, SaleTyped
<1>8. /\ CountersMatch' /\ WithinLimits /\ AsReviewed
      /\ PurchasesFinite' /\ PurchaseSound' /\ BillsAgree'
      /\ RowsShaped' /\ SaleTyped' /\ DeletedPlanHasNoPending'
  BY <1>5, <1>6, <1>7, QuietStep
<1>9. RequestsHonest'
  BY <1>5, <1>6, RequestsKept
<1>10. RequestsShaped'
  BY <1>5 DEF SaleInv, RequestsShaped
<1> QED BY <1>8, <1>9, <1>10 DEF SaleKept, SaleInv

LEMMA DeletePlanStep ==
    ASSUME SaleInv, NEW pl \in Plans, DeletePlan(pl)
    PROVE  SaleKept
<1> DEFINE S == {p \in PurchaseIds : Pending(p) /\ purchase[p].plan = pl}
<1>1. /\ S \in SUBSET {p \in PurchaseIds : Pending(p)}
      /\ Cancel(S) /\ UNCHANGED <<clock, banned, grant, sub, request>>
  BY DEF DeletePlan
<1>2. purchase' \in [PurchaseIds -> PurchaseRow] /\ Closing(S) /\ Release(S)
  BY <1>1, CancelCloses
<1>3. plan[pl] \in PlanRow /\ plan[pl].revision < MaxRevision
  BY DEF SaleInv, SaleTyped, DeletePlan
<1>4. PICK row : row = [plan[pl] EXCEPT !.deleted = TRUE,
                                        !.revision = plan[pl].revision + 1]
  OBVIOUS
<1>5. plan' = [plan EXCEPT ![pl] = row]
  <2>1. plan = [q \in Plans |-> plan[q]]
    BY DEF SaleInv, SaleTyped
  <2>2. plan' = [plan EXCEPT ![pl] =
                   [plan[pl] EXCEPT !.deleted = TRUE,
                                    !.revision = plan[pl].revision + 1]]
    BY <2>1 DEF DeletePlan
  <2> QED BY <1>4, <2>2
<1>6. /\ row \in PlanRow /\ row.revision \in Nat /\ row.revision > plan[pl].revision
  <2>1. plan[pl].revision + 1 \in 1 .. MaxRevision /\ plan[pl].revision \in Nat
    BY <1>3, TermsAssumption DEF PlanRow
  <2>2. row \in PlanRow
    BY <1>3, <1>4, <2>1 DEF PlanRow
  <2>3. row.revision = plan[pl].revision + 1
    BY <1>3, <1>4 DEF PlanRow
  <2> QED BY <2>1, <2>2, <2>3
<1>7. plan' \in [Plans -> PlanRow]
  BY <1>5, <1>6 DEF SaleInv, SaleTyped
<1> HIDE DEF S
<1>8. counter' \in [Buyers \X Plans -> CounterRow] /\ CountersMatch' /\ WithinLimits
  BY <1>1, <1>2, Released DEF Closing
<1>9. PurchasesFinite' /\ PurchaseSound' /\ BillsAgree' /\ AsReviewed
  BY <1>1, <1>2, Closed
<1>10. RequestsHonest'
  <2>1. \A q \in Plans :
           \/ plan'[q] = plan[q]
           \/ plan'[q].revision \in Nat /\ plan'[q].revision > plan[q].revision
    BY <1>5, <1>6 DEF SaleInv, SaleTyped
  <2> QED BY <1>1, <2>1, RequestsKept
<1>11. RowsShaped' /\ RequestsShaped'
  BY <1>1 DEF SaleInv, RowsShaped, RequestsShaped
<1>12. SaleTyped'
  BY <1>1, <1>2, <1>7, <1>8 DEF SaleInv, SaleTyped
<1>13. DeletedPlanHasNoPending'
  <2> SUFFICES ASSUME NEW p \in PurchaseIds, purchase'[p].state = "pending"
               PROVE  ~plan'[purchase'[p].plan].deleted
    BY DEF DeletedPlanHasNoPending, Pending
  <2>1. p \notin S /\ Pending(p) /\ purchase'[p].plan = purchase[p].plan
    BY <1>2 DEF Closing, Pending
  <2>2. purchase[p].plan # pl
    BY <2>1 DEF S
  <2>3. purchase[p].plan \in Plans /\ ~plan[purchase[p].plan].deleted
    BY <2>1 DEF SaleInv, PurchaseSound, DeletedPlanHasNoPending, Pending
  <2> QED BY <1>5, <2>1, <2>2, <2>3 DEF SaleInv, SaleTyped
<1> QED BY <1>8, <1>9, <1>10, <1>11, <1>12, <1>13 DEF SaleKept, SaleInv

LEMMA CancelPurchaseStep ==
    ASSUME SaleInv, NEW p \in PurchaseIds, CancelPurchase(p)
    PROVE  SaleKept
<1>1. /\ {p} \in SUBSET {q \in PurchaseIds : Pending(q)}
      /\ Cancel({p}) /\ UNCHANGED <<clock, plan, grant, sub, request>>
  BY DEF CancelPurchase
<1>2. purchase' \in [PurchaseIds -> PurchaseRow] /\ Closing({p}) /\ Release({p})
  BY <1>1, CancelCloses
<1> QED BY <1>1, <1>2, ClosingStep

LEMMA CloseExpiredStep ==
    ASSUME SaleInv, NEW p \in PurchaseIds, CloseExpired(p)
    PROVE  SaleKept
<1>1. /\ {p} \in SUBSET {q \in PurchaseIds : Pending(q)}
      /\ Release({p}) /\ UNCHANGED <<clock, plan, grant, sub, request>>
  BY DEF CloseExpired
<1>2. purchase[p] \in PurchaseRow
  BY DEF SaleInv, SaleTyped
<1>3. PICK row : row = [purchase[p] EXCEPT !.state = "expired"]
  OBVIOUS
<1>4. purchase' = [purchase EXCEPT ![p] = row]
  BY <1>3 DEF CloseExpired
<1>5. /\ row \in PurchaseRow /\ row.state = "expired"
      /\ row.buyer = purchase[p].buyer /\ row.plan = purchase[p].plan
      /\ row.bill = purchase[p].bill
  BY <1>2, <1>3 DEF PurchaseRow
<1>6. purchase' \in [PurchaseIds -> PurchaseRow]
  BY <1>4, <1>5 DEF SaleInv, SaleTyped
<1>7. Closing({p})
  BY <1>4, <1>5 DEF Closing, SaleInv, SaleTyped
<1> QED BY <1>1, <1>6, <1>7, ClosingStep

LEMMA LapseBillStep ==
    ASSUME SaleInv, NEW p \in PurchaseIds, LapseBill(p)
    PROVE  SaleKept
<1>1. purchase[p].bill = "pending" /\ UNCHANGED <<clock, plan, counter, grant, sub, request>>
  BY DEF LapseBill
<1>2. purchase[p] \in PurchaseRow
  BY DEF SaleInv, SaleTyped
<1>3. PICK row : row = [purchase[p] EXCEPT !.bill = "expired"]
  OBVIOUS
<1>4. purchase' = [purchase EXCEPT ![p] = row]
  BY <1>3 DEF LapseBill
<1>5. /\ row \in PurchaseRow /\ row.bill = "expired"
      /\ row.buyer = purchase[p].buyer /\ row.plan = purchase[p].plan
      /\ row.state = purchase[p].state
  BY <1>2, <1>3 DEF PurchaseRow
<1>6. purchase' \in [PurchaseIds -> PurchaseRow]
  BY <1>4, <1>5 DEF SaleInv, SaleTyped
<1>7. Closing({})
  BY <1>1, <1>4, <1>5 DEF Closing, SaleInv, SaleTyped
<1>8. {} \in SUBSET {q \in PurchaseIds : Pending(q)}
  OBVIOUS
<1>9. CountersMatch' /\ WithinLimits
  <2>1. \A q \in PurchaseIds : /\ purchase'[q].buyer = purchase[q].buyer
                               /\ purchase'[q].plan = purchase[q].plan
                               /\ purchase'[q].state = purchase[q].state
    BY <1>7 DEF Closing
  <2> QED BY <1>1, <2>1, SameCounts
<1>10. PurchasesFinite' /\ PurchaseSound' /\ BillsAgree' /\ AsReviewed
  BY <1>1, <1>7, <1>8, Closed
<1>11. RequestsHonest'
  BY <1>1, RequestsKept
<1>12. RowsShaped' /\ RequestsShaped' /\ SaleTyped'
  BY <1>1, <1>6 DEF SaleInv, RowsShaped, RequestsShaped, SaleTyped
<1>13. DeletedPlanHasNoPending'
  BY <1>1, <1>7 DEF SaleInv, DeletedPlanHasNoPending, Closing, Pending
<1> QED BY <1>9, <1>10, <1>11, <1>12, <1>13 DEF SaleKept, SaleInv

LEMMA BanStep ==
    ASSUME SaleInv, NEW m, Ban(m)
    PROVE  SaleKept
<1> DEFINE S == {p \in PurchaseIds : Pending(p) /\ purchase[p].buyer = m}
<1>1. /\ S \in SUBSET {p \in PurchaseIds : Pending(p)}
      /\ Release(S) /\ UNCHANGED <<clock, plan, grant, sub, request>>
  BY DEF Ban
<1>2. purchase' = [p \in PurchaseIds |->
              IF p \in S THEN Cancelled(purchase[p])
              ELSE IF m = Billing
              THEN [purchase[p] EXCEPT !.bill = CancelBill(purchase[p].bill)]
              ELSE purchase[p]]
  BY DEF Ban
<1> HIDE DEF S
<1>3. ASSUME NEW p \in PurchaseIds
      PROVE  /\ purchase'[p] \in PurchaseRow
             /\ purchase'[p].buyer = purchase[p].buyer
             /\ purchase'[p].plan = purchase[p].plan
             /\ p \in S => purchase'[p].state = "cancelled" /\ purchase'[p].bill = "expired"
             /\ p \notin S => purchase'[p].state = purchase[p].state
             /\ \/ purchase'[p].bill = purchase[p].bill
                \/ purchase[p].bill = "pending" /\ purchase'[p].bill = "expired"
  <2>1. purchase[p] \in PurchaseRow
    BY DEF SaleInv, SaleTyped
  <2>2. CASE p \in S
    <3>1. Pending(p)
      BY <1>1, <2>2
    <3>2. /\ Cancelled(purchase[p]) \in PurchaseRow
          /\ Cancelled(purchase[p]) =
               [purchase[p] EXCEPT !.state = "cancelled", !.bill = "expired"]
      BY <3>1, CancelledRow
    <3>3. purchase'[p] = [purchase[p] EXCEPT !.state = "cancelled", !.bill = "expired"]
      BY <1>2, <2>2, <3>2
    <3>4. purchase[p].bill \in {"pending", "expired"}
      BY <3>1 DEF SaleInv, PurchaseSound, Pending
    <3> QED BY <2>1, <2>2, <3>2, <3>3, <3>4 DEF PurchaseRow
  <2>3. CASE p \notin S /\ m = Billing
    <3>1. purchase'[p] = [purchase[p] EXCEPT !.bill = CancelBill(purchase[p].bill)]
      BY <1>2, <2>3
    <3>2. \/ CancelBill(purchase[p].bill) = purchase[p].bill
          \/ purchase[p].bill = "pending" /\ CancelBill(purchase[p].bill) = "expired"
      BY DEF CancelBill
    <3> QED BY <2>1, <2>3, <3>1, <3>2 DEF PurchaseRow
  <2>4. CASE p \notin S /\ m # Billing
    BY <1>2, <2>1, <2>4
  <2> QED BY <2>2, <2>3, <2>4
<1>4. purchase' \in [PurchaseIds -> PurchaseRow]
  <2>1. purchase' = [p \in PurchaseIds |-> purchase'[p]]
    BY <1>2
  <2> QED BY <1>3, <2>1
<1>5. Closing(S)
  BY <1>3 DEF Closing
<1> QED BY <1>1, <1>4, <1>5, ClosingStep

LEMMA ReviewStep ==
    ASSUME SaleInv, NEW b \in Buyers, NEW pl \in Plans, NEW c \in Confirms,
           Review(b, pl, c)
    PROVE  SaleKept
<1>1. UNCHANGED <<clock, banned, plan, purchase, counter, grant, sub>>
  BY DEF Review
<1>2. PICK new : new = [plan |-> pl, terms |-> plan[pl], seen |-> sub[b], confirm |-> c]
  OBVIOUS
<1>3. request' = [request EXCEPT ![b] = {new}]
  BY <1>2 DEF Review
<1>4. clock' \in Nat /\ plan' \in [Plans -> PlanRow]
  BY <1>1 DEF SaleInv, SaleTyped
<1>5. /\ CountersMatch' /\ WithinLimits /\ AsReviewed
      /\ PurchasesFinite' /\ PurchaseSound' /\ BillsAgree'
      /\ RowsShaped' /\ SaleTyped' /\ DeletedPlanHasNoPending'
  BY <1>1, <1>4, QuietStep
<1>6. RequestsShaped'
  BY <1>3 DEF SaleInv, RequestsShaped
<1>7. /\ plan[pl].revision \in Nat
      /\ sub[b].revision \in Nat
  BY TermsAssumption DEF SaleInv, SaleTyped, PlanRow, RowsShaped, SubColumns
<1>8. /\ new.plan \in Plans
      /\ new.terms.revision \in Nat /\ new.terms.revision <= plan[new.plan].revision
      /\ new.terms.revision = plan[new.plan].revision =>
            new.terms.duration = plan[new.plan].duration
      /\ new.seen.revision \in Nat /\ new.seen.revision <= sub[b].revision
      /\ new.seen.revision = sub[b].revision => new.seen = sub[b]
  BY <1>2, <1>7
<1>9. \A d \in Buyers : IF d = b THEN request'[d] = {new} ELSE request'[d] = request[d]
  BY <1>3 DEF SaleInv, RequestsShaped
<1>10. RequestsHonest'
  BY <1>1, <1>8, <1>9 DEF SaleInv, RequestsHonest
<1> QED BY <1>5, <1>6, <1>10 DEF SaleKept, SaleInv

LEMMA DropStep ==
    ASSUME SaleInv, NEW b \in Buyers, Drop(b)
    PROVE  SaleKept
<1>1. UNCHANGED <<clock, banned, plan, purchase, counter, grant, sub>>
  BY DEF Drop
<1>2. clock' \in Nat /\ plan' \in [Plans -> PlanRow]
  BY <1>1 DEF SaleInv, SaleTyped
<1>3. /\ CountersMatch' /\ WithinLimits /\ AsReviewed
      /\ PurchasesFinite' /\ PurchaseSound' /\ BillsAgree'
      /\ RowsShaped' /\ SaleTyped' /\ DeletedPlanHasNoPending'
  BY <1>1, <1>2, QuietStep
<1>4. RequestsShaped' /\ \A d \in Buyers : request'[d] \subseteq request[d]
  BY DEF Drop, SaleInv, RequestsShaped
<1>5. RequestsHonest'
  BY <1>1, <1>4, RequestsKept
<1> QED BY <1>3, <1>4, <1>5 DEF SaleKept, SaleInv

LEMMA UnbanStep ==
    ASSUME SaleInv, UNCHANGED <<clock, plan, purchase, counter, grant, sub, request>>
    PROVE  SaleKept
<1>1. clock' \in Nat /\ plan' \in [Plans -> PlanRow]
  BY DEF SaleInv, SaleTyped
<1>2. /\ CountersMatch' /\ WithinLimits /\ AsReviewed
      /\ PurchasesFinite' /\ PurchaseSound' /\ BillsAgree'
      /\ RowsShaped' /\ SaleTyped' /\ DeletedPlanHasNoPending'
  BY <1>1, QuietStep
<1>3. RequestsHonest'
  BY RequestsKept
<1>4. RequestsShaped'
  BY DEF SaleInv, RequestsShaped
<1> QED BY <1>2, <1>3, <1>4 DEF SaleKept, SaleInv

LEMMA PurchaseStep ==
    ASSUME SaleInv, NEW b \in Buyers, NEW p \in PurchaseIds, Purchase(b, p)
    PROVE  SaleKept
<1>1. PICK r \in request[b] :
         /\ purchase[p].state = "absent" /\ ~plan[r.plan].deleted
         /\ UpToDate(b, r) /\ HasRoom(b, r.plan)
         /\ purchase' = [purchase EXCEPT ![p] =
               [state |-> "pending", buyer |-> b, plan |-> r.plan,
                kind |-> KindFor(b, r.plan), duration |-> plan[r.plan].duration,
                expires |-> clock + TTL, bill |-> "pending"]]
         /\ counter' = [counter EXCEPT ![<<b, r.plan>>].reserved =
                           counter[<<b, r.plan>>].reserved + 1]
         /\ request' = [request EXCEPT ![b] = {}]
         /\ UNCHANGED <<clock, banned, plan, grant, sub>>
  BY DEF Purchase, SaleInv, SaleTyped
<1>2. PICK pl : pl = r.plan
  OBVIOUS
<1>3. /\ pl \in Plans /\ plan[pl] \in PlanRow
      /\ r.terms.duration = plan[pl].duration /\ sub[b] = r.seen
  BY <1>1, <1>2 DEF UpToDate, SaleInv, SaleTyped, RequestsHonest
<1>4. PICK new : new = [state |-> "pending", buyer |-> b, plan |-> pl,
                        kind |-> KindFor(b, pl), duration |-> plan[pl].duration,
                        expires |-> clock + TTL, bill |-> "pending"]
  OBVIOUS
<1>5. /\ new.state = "pending" /\ new.buyer = b /\ new.plan = pl
      /\ new.duration = plan[pl].duration /\ new.bill = "pending"
  BY <1>4
<1>6. new \in PurchaseRow
  <2>1. KindFor(b, pl) \in {"new", "renew", "switch"}
    BY DEF KindFor
  <2>2. clock + TTL \in Nat /\ plan[pl].duration \in Nat
    <3>1. clock + TTL \in Nat
      BY TermsAssumption DEF SaleInv, SaleTyped
    <3>2. plan[pl].duration \in Nat
      BY <1>3, TermsAssumption DEF PlanRow
    <3> QED BY <3>1, <3>2
  <2> QED BY <1>3, <1>4, <2>1, <2>2 DEF PurchaseRow
<1>7. purchase' = [purchase EXCEPT ![p] = new]
  BY <1>1, <1>2, <1>4
<1>8. /\ purchase' \in [PurchaseIds -> PurchaseRow] /\ purchase'[p] = new
      /\ \A q \in PurchaseIds : q # p => purchase'[q] = purchase[q]
  BY <1>6, <1>7 DEF SaleInv, SaleTyped
<1>9. PICK units : units = [counter[<<b, pl>>] EXCEPT !.reserved =
                               counter[<<b, pl>>].reserved + 1]
  OBVIOUS
<1>10. counter[<<b, pl>>] \in CounterRow
  BY <1>3 DEF SaleInv, SaleTyped
<1>11. /\ units \in CounterRow /\ units.paid = counter[<<b, pl>>].paid
       /\ units.reserved = counter[<<b, pl>>].reserved + 1
  BY <1>9, <1>10 DEF CounterRow
<1>12. counter' = [counter EXCEPT ![<<b, pl>>] = units]
  BY <1>1, <1>2, <1>9
<1>13. counter' \in [Buyers \X Plans -> CounterRow] /\ counter'[<<b, pl>>] = units
  BY <1>3, <1>11, <1>12 DEF SaleInv, SaleTyped
<1>14. ASSUME NEW c \in Buyers, NEW q \in Plans, <<c, q>> # <<b, pl>>
       PROVE  /\ counter'[<<c, q>>] = counter[<<c, q>>]
              /\ Of(c, q, {"pending"})' = Of(c, q, {"pending"})
              /\ Of(c, q, {"paid", "refunded"})' = Of(c, q, {"paid", "refunded"})
              /\ Taken(c, q)' = Taken(c, q)
  <2>1. counter'[<<c, q>>] = counter[<<c, q>>]
    BY <1>12, <1>14 DEF SaleInv, SaleTyped
  <2>2. /\ Of(c, q, {"pending"})' = Of(c, q, {"pending"})
        /\ Of(c, q, {"paid", "refunded"})' = Of(c, q, {"paid", "refunded"})
        /\ Of(c, q, {"pending", "paid", "refunded"})'
              = Of(c, q, {"pending", "paid", "refunded"})
    BY <1>1, <1>5, <1>8, <1>14 DEF Of
  <2> QED BY <2>1, <2>2 DEF Taken
<1>15. /\ Cardinality(Of(b, pl, {"pending"})') = Cardinality(Of(b, pl, {"pending"})) + 1
       /\ Of(b, pl, {"paid", "refunded"})' = Of(b, pl, {"paid", "refunded"})
       /\ Taken(b, pl)' = Taken(b, pl) + 1
  <2> DEFINE P == Of(b, pl, {"pending"})
             T == Of(b, pl, {"pending", "paid", "refunded"})
  <2>1. P' = P \cup {p} /\ p \notin P /\ T' = T \cup {p} /\ p \notin T
    BY <1>1, <1>5, <1>8 DEF Of
  <2>2. Of(b, pl, {"paid", "refunded"})' = Of(b, pl, {"paid", "refunded"})
    BY <1>1, <1>5, <1>8 DEF Of
  <2>3. IsFiniteSet(P) /\ IsFiniteSet(T)
    BY CountedFinite DEF Standings
  <2> HIDE DEF P, T
  <2>4. Cardinality(P') = Cardinality(P) + 1 /\ Cardinality(T') = Cardinality(T) + 1
    BY <2>1, <2>3, FS_AddElement
  <2> QED BY <2>2, <2>4 DEF P, T, Taken
<1>16. CountersMatch'
  <2> SUFFICES ASSUME NEW c \in Buyers, NEW q \in Plans
       PROVE  /\ counter'[<<c, q>>].reserved = Cardinality(Of(c, q, {"pending"})')
              /\ counter'[<<c, q>>].paid = Cardinality(Of(c, q, {"paid", "refunded"})')
    BY DEF CountersMatch
  <2>1. /\ counter[<<c, q>>].reserved = Cardinality(Of(c, q, {"pending"}))
        /\ counter[<<c, q>>].paid = Cardinality(Of(c, q, {"paid", "refunded"}))
    BY DEF SaleInv, CountersMatch
  <2>2. CASE <<c, q>> # <<b, pl>>
    BY <1>14, <2>1, <2>2
  <2>3. CASE <<c, q>> = <<b, pl>>
    <3>1. /\ Cardinality(Of(c, q, {"pending"})')
                = Cardinality(Of(c, q, {"pending"})) + 1
          /\ Of(c, q, {"paid", "refunded"})' = Of(c, q, {"paid", "refunded"})
      BY <1>15, <2>3
    <3> QED BY <1>11, <1>13, <2>1, <2>3, <3>1
  <2> QED BY <2>2, <2>3
<1>17. WithinLimits
  <2> SUFFICES ASSUME NEW c \in Buyers, NEW q \in Plans, Taken(c, q)' > Taken(c, q)
               PROVE  plan'[q].limit = NoLimit \/ Taken(c, q)' <= plan'[q].limit
    BY DEF WithinLimits
  <2>1. Taken(c, q) \in Nat
        /\ Taken(c, q) = counter[<<c, q>>].paid + counter[<<c, q>>].reserved
    BY TakenCounted
  <2>2. c = b /\ q = pl
    BY <1>14, <2>1
  <2>3. Taken(c, q)' = Taken(c, q) + 1
    BY <1>15, <2>2
  <2>4. plan[q].limit = NoLimit \/ Taken(c, q) < plan[q].limit
    BY <1>1, <1>2, <2>1, <2>2 DEF HasRoom
  <2>5. plan[q].limit \in Nat
    BY TermsAssumption DEF SaleInv, SaleTyped, PlanRow
  <2> QED BY <1>1, <2>1, <2>3, <2>4, <2>5
<1>18. AsReviewed
  <2> SUFFICES ASSUME NEW q \in PurchaseIds, Becomes(q, "absent", "pending")
               PROVE  \E s \in request[purchase'[q].buyer] :
                         /\ purchase'[q].plan = s.plan
                         /\ purchase'[q].duration = s.terms.duration
                         /\ sub[purchase'[q].buyer] = s.seen
    BY DEF AsReviewed
  <2>1. q = p
    BY <1>8 DEF Becomes
  <2> QED BY <1>2, <1>3, <1>5, <1>8, <2>1
<1>19. PurchasesFinite'
  <2> DEFINE E == {q \in PurchaseIds : purchase[q].state # "absent"}
  <2>1. {q \in PurchaseIds : purchase'[q].state # "absent"} = E \cup {p}
    BY <1>5, <1>8
  <2>2. IsFiniteSet(E)
    BY DEF SaleInv, PurchasesFinite
  <2> HIDE DEF E
  <2>3. IsFiniteSet(E \cup {p})
    BY <2>2, FS_AddElement
  <2> QED BY <2>1, <2>3 DEF PurchasesFinite
<1>20. PurchaseSound'
  BY <1>3, <1>5, <1>8 DEF SaleInv, PurchaseSound
<1>21. BillsAgree'
  <2> SUFFICES ASSUME NEW q \in PurchaseIds
        PROVE  /\ (purchase'[q].bill = "paid") <=> (purchase'[q].state = "paid")
               /\ (purchase'[q].bill = "refunded") <=> (purchase'[q].state = "refunded")
               /\ purchase'[q].state = "cancelled" => purchase'[q].bill = "expired"
               /\ Exists(q)' <=> purchase'[q].state \in {"paid", "refunded"}
               /\ grant'[q].refunded <=> purchase'[q].state = "refunded"
    BY DEF BillsAgree
  <2>1. CASE q = p
    <3>1. /\ ~Exists(q) /\ ~grant[q].refunded
      BY <1>1, <2>1 DEF SaleInv, BillsAgree
    <3> QED BY <1>1, <1>5, <1>8, <2>1, <3>1 DEF Exists
  <2>2. CASE q # p
    BY <1>1, <1>8, <2>2 DEF SaleInv, BillsAgree, Exists
  <2> QED BY <2>1, <2>2
<1>22. DeletedPlanHasNoPending'
  BY <1>1, <1>2, <1>5, <1>8 DEF SaleInv, DeletedPlanHasNoPending, Pending
<1>23. RequestsShaped' /\ \A d \in Buyers : request'[d] \subseteq request[d]
  BY <1>1 DEF SaleInv, RequestsShaped
<1>24. RequestsHonest'
  BY <1>1, <1>23, RequestsKept
<1>25. RowsShaped' /\ SaleTyped'
  BY <1>1, <1>8, <1>13 DEF SaleInv, RowsShaped, SaleTyped
<1> QED BY <1>16, <1>17, <1>18, <1>19, <1>20, <1>21, <1>22, <1>23, <1>24, <1>25
        DEF SaleKept, SaleInv

(* A new grant, or the grant of a row rewritten, among the others.         *)
LEMMA GrantWritten ==
    ASSUME NEW D, NEW G \in [GrantIds -> GrantColumns(D)], NEW g \in GrantIds,
           NEW E, NEW row \in GrantColumns(E)
    PROVE  \E F : [G EXCEPT ![g] = row] \in [GrantIds -> GrantColumns(F)]
<1>1. GrantColumns(D) \subseteq GrantColumns(D \cup E)
  BY DEF GrantColumns
<1>2. GrantColumns(E) \subseteq GrantColumns(D \cup E)
  BY DEF GrantColumns
<1>3. [G EXCEPT ![g] = row] \in [GrantIds -> GrantColumns(D \cup E)]
  BY <1>1, <1>2
<1> QED BY <1>3

LEMMA SubWritten ==
    ASSUME SaleInv, NEW b \in Buyers, NEW row, NEW E, row \in SubColumns(E),
           row.revision = sub[b].revision + 1, sub' = [sub EXCEPT ![b] = row]
    PROVE  /\ \E F : sub' \in [Buyers -> SubColumns(F)]
           /\ \A c \in Buyers : \/ sub'[c] = sub[c]
                               \/ /\ sub'[c].revision \in Nat
                                  /\ sub'[c].revision > sub[c].revision
<1>1. PICK D : sub \in [Buyers -> SubColumns(D)]
  BY DEF SaleInv, RowsShaped
<1>2. SubColumns(D) \subseteq SubColumns(D \cup E)
  BY DEF SubColumns
<1>3. SubColumns(E) \subseteq SubColumns(D \cup E)
  BY DEF SubColumns
<1>4. sub' \in [Buyers -> SubColumns(D \cup E)]
  BY <1>1, <1>2, <1>3
<1>5. sub[b].revision \in Nat /\ row.revision \in Nat
  BY <1>1 DEF SubColumns
<1>6. \A c \in Buyers : IF c = b THEN sub'[c] = row ELSE sub'[c] = sub[c]
  BY <1>1
<1>7. \A c \in Buyers : \/ sub'[c] = sub[c]
                        \/ /\ sub'[c].revision \in Nat
                           /\ sub'[c].revision > sub[c].revision
  BY <1>5, <1>6
<1> QED BY <1>4, <1>7

(* Grant g of merchant b is written and its subscription follows it: the   *)
(* other grants are left alone, or those of the chain it replaces voided.  *)
Granted(b, g) ==
    \E kept, new, c :
        /\ \A h \in GrantIds : IF h = g THEN grant'[h] = new ELSE grant'[h] = kept[h]
        /\ \A h \in GrantIds : /\ kept[h].chain = grant[h].chain
                               /\ grant[h].chain # sub[b].chain => kept[h] = grant[h]
        /\ new.chain = c /\ new.buyer = b /\ new.voided = FALSE
        /\ \/ c = g
           \/ /\ c = sub[b].chain /\ c # NoChain
              /\ \A h \in GrantIds : kept[h] = grant[h]
        /\ \A d \in Buyers : IF d = b THEN sub'[d].chain = c ELSE sub'[d] = sub[d]

(* What a payment writes beside the purchase and its counter.              *)
LEMMA FulfilWrites ==
    ASSUME SaleInv, NEW p \in PurchaseIds, Pending(p), Fulfil(p)
    PROVE  /\ RowsShaped'
           /\ \A c \in Buyers : \/ sub'[c] = sub[c]
                               \/ /\ sub'[c].revision \in Nat
                                  /\ sub'[c].revision > sub[c].revision
           /\ Exists(p)' /\ ~grant'[p].refunded
           /\ \A q \in PurchaseIds : q # p =>
                 /\ grant'[q].chain = grant[q].chain
                 /\ grant'[q].refunded = grant[q].refunded
           /\ Granted(purchase[p].buyer, p)
<1>1. PICK b : b = purchase[p].buyer
  OBVIOUS
<1>2. b \in Buyers /\ p \in GrantIds
  BY <1>1 DEF SaleInv, PurchaseSound, Pending, GrantIds
<1>3. PICK chain : chain = IF Renews(p) THEN sub[b].chain ELSE p
  OBVIOUS
<1>4. chain # NoChain
  BY <1>1, <1>3, IdsAssumption DEF Renews, NoChain
<1>5. PICK kept : kept = IF purchase[p].kind = "switch"
                         THEN Void(grant, sub[b].chain) ELSE grant
  OBVIOUS
<1>6. PICK since : since = IF Renews(p) THEN sub[b].expires ELSE clock
  OBVIOUS
<1>7. PICK E : E = {NoChain, Nobody, NoPlan, 0, chain, b, purchase[p].plan, since,
                    purchase[p].duration}
  OBVIOUS
<1>8. PICK new : new =
        [NoGrant EXCEPT !.chain = chain, !.buyer = b, !.plan = purchase[p].plan,
                        !.effective = since, !.duration = purchase[p].duration]
  OBVIOUS
<1>9. PICK rows : rows = [kept EXCEPT ![p] = new]
  OBVIOUS
<1>10. /\ grant' = rows
       /\ sub' = [sub EXCEPT ![b] = Recomputed(sub[b], rows, chain, clock)]
  BY <1>1, <1>3, <1>5, <1>6, <1>8, <1>9 DEF Fulfil
<1>11. PICK D : grant \in [GrantIds -> GrantColumns(D)]
  BY DEF SaleInv, RowsShaped
<1>12. /\ kept \in [GrantIds -> GrantColumns(D)]
       /\ \A g \in GrantIds : /\ kept[g].chain = grant[g].chain
                              /\ kept[g].refunded = grant[g].refunded
                              /\ grant[g].chain # sub[b].chain => kept[g] = grant[g]
  <2>1. CASE purchase[p].kind = "switch"
    BY <1>5, <1>11, <2>1, VoidKeeps
  <2>2. CASE purchase[p].kind # "switch"
    BY <1>5, <1>11, <2>2
  <2> QED BY <2>1, <2>2
<1>13. new.chain = chain
  BY <1>8 DEF NoGrant
<1>14. new \in GrantColumns(E)
  <2>1. NoGrant \in GrantColumns(E)
    BY <1>7 DEF NoGrant, GrantColumns
  <2> QED BY <1>7, <1>8, <2>1 DEF GrantColumns
<1>15. \E F : grant' \in [GrantIds -> GrantColumns(F)]
  BY <1>2, <1>9, <1>10, <1>12, <1>14, GrantWritten
<1>16. \A g \in GrantIds : IF g = p THEN grant'[g] = new ELSE grant'[g] = kept[g]
  BY <1>9, <1>10, <1>12
<1>17. PICK C : sub \in [Buyers -> SubColumns(C)]
  BY DEF SaleInv, RowsShaped
<1>18. PICK row : row = Recomputed(sub[b], rows, chain, clock)
  OBVIOUS
<1>19. /\ row.revision = sub[b].revision + 1 /\ row.chain = chain
       /\ \E F : row \in SubColumns(F)
  BY <1>2, <1>17, <1>18, RecomputedColumns
<1>20. /\ \E F : sub' \in [Buyers -> SubColumns(F)]
       /\ \A c \in Buyers : \/ sub'[c] = sub[c]
                           \/ /\ sub'[c].revision \in Nat
                              /\ sub'[c].revision > sub[c].revision
  <2>1. sub' = [sub EXCEPT ![b] = row]
    BY <1>10, <1>18
  <2> QED BY <1>2, <1>19, <2>1, SubWritten
<1>21. RowsShaped'
  BY <1>15, <1>20 DEF RowsShaped
<1>22. Exists(p)' /\ ~grant'[p].refunded
  <2>1. grant'[p].chain = chain
    BY <1>2, <1>13, <1>16
  <2>2. new.refunded = FALSE
    BY <1>8 DEF NoGrant
  <2>3. grant'[p] = new
    BY <1>2, <1>16
  <2> QED BY <1>4, <2>1, <2>2, <2>3 DEF Exists
<1>23. \A q \in PurchaseIds : q # p => /\ grant'[q].chain = grant[q].chain
                                      /\ grant'[q].refunded = grant[q].refunded
  BY <1>12, <1>16 DEF GrantIds
<1>24. Granted(b, p)
  <2>1. new.buyer = b
    BY <1>8 DEF NoGrant
  <2>2. new.voided = FALSE
    BY <1>8 DEF NoGrant
  <2>3. \/ chain = p
        \/ /\ chain = sub[b].chain /\ chain # NoChain
           /\ \A h \in GrantIds : kept[h] = grant[h]
    BY <1>3, <1>4, <1>5 DEF Renews
  <2>4. \A d \in Buyers : IF d = b THEN sub'[d].chain = chain ELSE sub'[d] = sub[d]
    BY <1>10, <1>17, <1>18, <1>19
  <2> QED BY <1>12, <1>13, <1>16, <2>1, <2>2, <2>3, <2>4 DEF Granted
<1> QED BY <1>1, <1>20, <1>21, <1>22, <1>23, <1>24

LEMMA SettleStep ==
    ASSUME SaleInv, NEW p \in PurchaseIds, NEW byHand \in BOOLEAN, Settle(p, byHand)
    PROVE  SaleKept
<1>1. Pending(p) /\ Fulfil(p) /\ UNCHANGED <<clock, banned, plan, request>>
  BY DEF Settle, Payable
<1>2. PICK b, pl : b = purchase[p].buyer /\ pl = purchase[p].plan
  OBVIOUS
<1>3. b \in Buyers /\ pl \in Plans /\ purchase[p] \in PurchaseRow
  BY <1>1, <1>2 DEF SaleInv, SaleTyped, PurchaseSound, Pending
<1>4. PICK new : new = [purchase[p] EXCEPT !.state = "paid", !.bill = "paid"]
  OBVIOUS
<1>5. /\ new \in PurchaseRow /\ new.state = "paid" /\ new.bill = "paid"
      /\ new.buyer = b /\ new.plan = pl
  BY <1>2, <1>3, <1>4 DEF PurchaseRow
<1>6. purchase' = [purchase EXCEPT ![p] = new]
  <2>1. purchase = [q \in PurchaseIds |-> purchase[q]]
    BY DEF SaleInv, SaleTyped
  <2> QED BY <1>4, <2>1 DEF Settle
<1>7. /\ purchase' \in [PurchaseIds -> PurchaseRow] /\ purchase'[p] = new
      /\ \A q \in PurchaseIds : q # p => purchase'[q] = purchase[q]
  BY <1>5, <1>6 DEF SaleInv, SaleTyped
<1>8. PICK k : k = <<b, pl>>
  OBVIOUS
<1>9. k \in Buyers \X Plans /\ counter[k] \in CounterRow
  BY <1>3, <1>8 DEF SaleInv, SaleTyped
<1>10. PICK units : units = [counter[k] EXCEPT !.reserved = Max({0, counter[k].reserved - 1}),
                                               !.paid = counter[k].paid + 1]
  OBVIOUS
<1>11. counter' = [counter EXCEPT ![k] = units]
  <2>1. counter = [j \in Buyers \X Plans |-> counter[j]]
    BY DEF SaleInv, SaleTyped
  <2>2. counter' = [counter EXCEPT ![k] =
           [counter[k] EXCEPT !.reserved = Max({0, counter[k].reserved - 1}),
                              !.paid = counter[k].paid + 1]]
    BY <1>2, <1>8, <1>9, <2>1 DEF Settle
  <2> QED BY <1>10, <2>2
<1>12. ASSUME NEW c \in Buyers, NEW q \in Plans, <<c, q>> # k
       PROVE  /\ counter'[<<c, q>>] = counter[<<c, q>>]
              /\ Of(c, q, {"pending"})' = Of(c, q, {"pending"})
              /\ Of(c, q, {"paid", "refunded"})' = Of(c, q, {"paid", "refunded"})
  <2>1. counter'[<<c, q>>] = counter[<<c, q>>]
    BY <1>11, <1>12 DEF SaleInv, SaleTyped
  <2>2. /\ Of(c, q, {"pending"})' = Of(c, q, {"pending"})
        /\ Of(c, q, {"paid", "refunded"})' = Of(c, q, {"paid", "refunded"})
    BY <1>2, <1>5, <1>7, <1>8, <1>12 DEF Of
  <2> QED BY <2>1, <2>2
<1>13. /\ Cardinality(Of(b, pl, {"pending"})') = Cardinality(Of(b, pl, {"pending"})) - 1
       /\ Cardinality(Of(b, pl, {"pending"})') \in Nat
       /\ Cardinality(Of(b, pl, {"paid", "refunded"})')
             = Cardinality(Of(b, pl, {"paid", "refunded"})) + 1
  <2> DEFINE P == Of(b, pl, {"pending"})
             Q == Of(b, pl, {"paid", "refunded"})
  <2>1. P' = P \ {p} /\ p \in P /\ Q' = Q \cup {p} /\ p \notin Q
    BY <1>1, <1>2, <1>5, <1>7 DEF Of, Pending
  <2>2. IsFiniteSet(P) /\ IsFiniteSet(Q)
    BY CountedFinite DEF Standings
  <2> HIDE DEF P, Q
  <2>3. Cardinality(P') = Cardinality(P) - 1 /\ IsFiniteSet(P')
    BY <2>1, <2>2, FS_RemoveElement
  <2>4. Cardinality(Q') = Cardinality(Q) + 1
    BY <2>1, <2>2, FS_AddElement
  <2>5. Cardinality(P') \in Nat
    BY <2>3, FS_CardinalityType
  <2> QED BY <2>3, <2>4, <2>5 DEF P, Q
<1>14. /\ counter[k].reserved = Cardinality(Of(b, pl, {"pending"}))
       /\ counter[k].paid = Cardinality(Of(b, pl, {"paid", "refunded"}))
  BY <1>3, <1>8 DEF SaleInv, CountersMatch
<1>15. Max({0, counter[k].reserved - 1}) = counter[k].reserved - 1
  <2>1. counter[k].reserved - 1 \in Nat
    BY <1>13, <1>14
  <2> QED BY <2>1, MaxOfZero
<1>16. /\ units \in CounterRow /\ units.reserved = counter[k].reserved - 1
       /\ units.paid = counter[k].paid + 1
  <2>1. units = [counter[k] EXCEPT !.reserved = counter[k].reserved - 1,
                                   !.paid = counter[k].paid + 1]
    BY <1>10, <1>15
  <2>2. counter[k].reserved - 1 \in Nat /\ counter[k].paid + 1 \in Nat
    BY <1>9, <1>13, <1>14 DEF CounterRow
  <2> QED BY <1>9, <2>1, <2>2 DEF CounterRow
<1>17. counter' \in [Buyers \X Plans -> CounterRow] /\ counter'[k] = units
  BY <1>9, <1>11, <1>16 DEF SaleInv, SaleTyped
<1>18. CountersMatch'
  <2> SUFFICES ASSUME NEW c \in Buyers, NEW q \in Plans
       PROVE  /\ counter'[<<c, q>>].reserved = Cardinality(Of(c, q, {"pending"})')
              /\ counter'[<<c, q>>].paid = Cardinality(Of(c, q, {"paid", "refunded"})')
    BY DEF CountersMatch
  <2>1. /\ counter[<<c, q>>].reserved = Cardinality(Of(c, q, {"pending"}))
        /\ counter[<<c, q>>].paid = Cardinality(Of(c, q, {"paid", "refunded"}))
    BY DEF SaleInv, CountersMatch
  <2>2. CASE <<c, q>> # k
    BY <1>12, <2>1, <2>2
  <2>3. CASE <<c, q>> = k
    <3>1. c = b /\ q = pl
      BY <1>8, <2>3
    <3>2. /\ counter'[k].reserved = Cardinality(Of(b, pl, {"pending"})')
          /\ counter'[k].paid = Cardinality(Of(b, pl, {"paid", "refunded"})')
      BY <1>13, <1>14, <1>16, <1>17
    <3> QED BY <1>8, <3>1, <3>2
  <2> QED BY <2>2, <2>3
<1>19. WithinLimits
  <2> SUFFICES ASSUME NEW c \in Buyers, NEW q \in Plans
               PROVE  ~(Taken(c, q)' > Taken(c, q))
    BY DEF WithinLimits
  <2>1. Of(c, q, {"pending", "paid", "refunded"})'
          = Of(c, q, {"pending", "paid", "refunded"})
    BY <1>1, <1>2, <1>5, <1>7 DEF Of, Pending
  <2>2. Taken(c, q)' = Taken(c, q) /\ Taken(c, q) \in Nat
    BY <2>1, TakenCounted DEF Taken
  <2> QED BY <2>2
<1>20. AsReviewed
  BY <1>5, <1>7 DEF AsReviewed, Becomes
<1>21. /\ RowsShaped'
       /\ \A c \in Buyers : \/ sub'[c] = sub[c]
                           \/ /\ sub'[c].revision \in Nat
                              /\ sub'[c].revision > sub[c].revision
       /\ Exists(p)' /\ ~grant'[p].refunded
       /\ \A q \in PurchaseIds : q # p =>
              /\ grant'[q].chain = grant[q].chain
              /\ grant'[q].refunded = grant[q].refunded
  BY <1>1, FulfilWrites
<1>22. RequestsHonest'
  BY <1>1, <1>21, RequestsKept
<1>23. RequestsShaped' /\ SaleTyped'
  BY <1>1, <1>7, <1>17 DEF SaleInv, RequestsShaped, SaleTyped
<1>24. PurchasesFinite'
  <2>1. {q \in PurchaseIds : purchase'[q].state # "absent"}
          = {q \in PurchaseIds : purchase[q].state # "absent"}
    BY <1>1, <1>5, <1>7 DEF Pending
  <2> QED BY <2>1 DEF SaleInv, PurchasesFinite
<1>25. PurchaseSound'
  BY <1>3, <1>5, <1>7 DEF SaleInv, PurchaseSound
<1>26. BillsAgree'
  <2> SUFFICES ASSUME NEW q \in PurchaseIds
        PROVE  /\ (purchase'[q].bill = "paid") <=> (purchase'[q].state = "paid")
               /\ (purchase'[q].bill = "refunded") <=> (purchase'[q].state = "refunded")
               /\ purchase'[q].state = "cancelled" => purchase'[q].bill = "expired"
               /\ Exists(q)' <=> purchase'[q].state \in {"paid", "refunded"}
               /\ grant'[q].refunded <=> purchase'[q].state = "refunded"
    BY DEF BillsAgree
  <2>1. CASE q = p
    BY <1>5, <1>7, <1>21, <2>1
  <2>2. CASE q # p
    BY <1>7, <1>21, <2>2 DEF SaleInv, BillsAgree, Exists
  <2> QED BY <2>1, <2>2
<1>27. DeletedPlanHasNoPending'
  BY <1>1, <1>5, <1>7 DEF SaleInv, DeletedPlanHasNoPending, Pending
<1> QED BY <1>18, <1>19, <1>20, <1>21, <1>22, <1>23, <1>24, <1>25, <1>26, <1>27
        DEF SaleKept, SaleInv

LEMMA RefundStep ==
    ASSUME SaleInv, NEW p \in PurchaseIds, Refund(p)
    PROVE  SaleKept
<1>1. /\ purchase[p].state = "paid"
      /\ UNCHANGED <<clock, banned, plan, counter, request>>
  BY DEF Refund
<1>2. PICK b : b = purchase[p].buyer
  OBVIOUS
<1>3. b \in Buyers /\ purchase[p] \in PurchaseRow /\ p \in GrantIds
  BY <1>1, <1>2 DEF SaleInv, SaleTyped, PurchaseSound, GrantIds
<1>4. PICK new : new = [purchase[p] EXCEPT !.state = "refunded", !.bill = "refunded"]
  OBVIOUS
<1>5. /\ new \in PurchaseRow /\ new.state = "refunded" /\ new.bill = "refunded"
      /\ new.buyer = purchase[p].buyer /\ new.plan = purchase[p].plan
  BY <1>3, <1>4 DEF PurchaseRow
<1>6. purchase' = [purchase EXCEPT ![p] = new]
  <2>1. purchase = [q \in PurchaseIds |-> purchase[q]]
    BY DEF SaleInv, SaleTyped
  <2> QED BY <1>4, <2>1 DEF Refund
<1>7. /\ purchase' \in [PurchaseIds -> PurchaseRow] /\ purchase'[p] = new
      /\ \A q \in PurchaseIds : q # p => purchase'[q] = purchase[q]
  BY <1>5, <1>6 DEF SaleInv, SaleTyped
<1>8. PICK D : grant \in [GrantIds -> GrantColumns(D)]
  BY DEF SaleInv, RowsShaped
<1>9. PICK given : given = [grant[p] EXCEPT !.refunded = TRUE]
  OBVIOUS
<1>10. grant' = [grant EXCEPT ![p] = given]
  BY <1>9 DEF Refund
<1>11. given \in GrantColumns(D)
  BY <1>3, <1>8, <1>9 DEF GrantColumns
<1>12. given.chain = grant[p].chain
  BY <1>3, <1>8, <1>9 DEF GrantColumns
<1>13. given.refunded = TRUE
  BY <1>3, <1>8, <1>9 DEF GrantColumns
<1>14. \E F : grant' \in [GrantIds -> GrantColumns(F)]
  BY <1>3, <1>8, <1>10, <1>11, GrantWritten
<1>15. \A q \in PurchaseIds : IF q = p THEN grant'[q] = given ELSE grant'[q] = grant[q]
  BY <1>8, <1>10 DEF GrantIds
<1>16. PICK C : sub \in [Buyers -> SubColumns(C)]
  BY DEF SaleInv, RowsShaped
<1>17. /\ \E F : sub' \in [Buyers -> SubColumns(F)]
       /\ \A c \in Buyers : \/ sub'[c] = sub[c]
                           \/ /\ sub'[c].revision \in Nat
                              /\ sub'[c].revision > sub[c].revision
  <2>1. CASE sub' = sub
    BY <1>16, <2>1
  <2>2. CASE sub' # sub
    <3>1. PICK row : row = Recomputed(sub[b], grant', grant[p].chain, clock)
      OBVIOUS
    <3>2. sub' = [sub EXCEPT ![b] = row]
      BY <1>2, <2>2, <3>1 DEF Refund
    <3>3. row.revision = sub[b].revision + 1 /\ \E F : row \in SubColumns(F)
      BY <1>3, <1>16, <3>1, RecomputedColumns
    <3> QED BY <1>3, <3>2, <3>3, SubWritten
  <2> QED BY <2>1, <2>2
<1>18. RowsShaped'
  BY <1>14, <1>17 DEF RowsShaped
<1>19. RequestsHonest'
  BY <1>1, <1>17, RequestsKept
<1>20. RequestsShaped' /\ SaleTyped'
  BY <1>1, <1>7 DEF SaleInv, RequestsShaped, SaleTyped
<1>21. CountersMatch' /\ WithinLimits
  <2>1. \A q \in PurchaseIds :
          /\ purchase'[q].buyer = purchase[q].buyer
          /\ purchase'[q].plan = purchase[q].plan
          /\ purchase'[q].state = "pending" <=> purchase[q].state = "pending"
          /\ purchase'[q].state \in {"paid", "refunded"}
                <=> purchase[q].state \in {"paid", "refunded"}
    BY <1>1, <1>5, <1>7
  <2> QED BY <1>1, <2>1, SameCounts
<1>22. AsReviewed
  BY <1>5, <1>7 DEF AsReviewed, Becomes
<1>23. PurchasesFinite'
  <2>1. {q \in PurchaseIds : purchase'[q].state # "absent"}
          = {q \in PurchaseIds : purchase[q].state # "absent"}
    BY <1>1, <1>5, <1>7
  <2> QED BY <2>1 DEF SaleInv, PurchasesFinite
<1>24. PurchaseSound'
  BY <1>1, <1>5, <1>7 DEF SaleInv, PurchaseSound
<1>25. BillsAgree'
  <2> SUFFICES ASSUME NEW q \in PurchaseIds
        PROVE  /\ (purchase'[q].bill = "paid") <=> (purchase'[q].state = "paid")
               /\ (purchase'[q].bill = "refunded") <=> (purchase'[q].state = "refunded")
               /\ purchase'[q].state = "cancelled" => purchase'[q].bill = "expired"
               /\ Exists(q)' <=> purchase'[q].state \in {"paid", "refunded"}
               /\ grant'[q].refunded <=> purchase'[q].state = "refunded"
    BY DEF BillsAgree
  <2>1. CASE q = p
    <3>1. Exists(q)
      BY <1>1, <2>1 DEF SaleInv, BillsAgree
    <3>2. grant'[q].chain = grant[q].chain
      BY <1>12, <1>15, <2>1
    <3>3. grant'[q].refunded
      BY <1>13, <1>15, <2>1
    <3> QED BY <1>5, <1>7, <2>1, <3>1, <3>2, <3>3 DEF Exists
  <2>2. CASE q # p
    BY <1>7, <1>15, <2>2 DEF SaleInv, BillsAgree, Exists
  <2> QED BY <2>1, <2>2
<1>26. DeletedPlanHasNoPending'
  BY <1>1, <1>5, <1>7 DEF SaleInv, DeletedPlanHasNoPending, Pending
<1> QED BY <1>18, <1>19, <1>20, <1>21, <1>22, <1>23, <1>24, <1>25, <1>26
        DEF SaleKept, SaleInv

LEMMA GrantStep ==
    ASSUME SaleInv, NEW b \in Buyers, NEW g \in ManualIds, NEW pl \in Plans,
           NEW e \in Expiries, Grant(b, g, pl, e)
    PROVE  SaleKept
<1> DEFINE S == {p \in PurchaseIds : Pending(p) /\ purchase[p].buyer = b}
<1>1. /\ S \in SUBSET {p \in PurchaseIds : Pending(p)}
      /\ Cancel(S) /\ UNCHANGED <<clock, banned, plan, request>>
  BY DEF Grant
<1>2. purchase' \in [PurchaseIds -> PurchaseRow] /\ Closing(S) /\ Release(S)
  BY <1>1, CancelCloses
<1> HIDE DEF S
<1>3. g \in GrantIds /\ g \notin PurchaseIds
  BY IdsAssumption DEF GrantIds
<1>4. PICK kept : kept = Void(grant, sub[b].chain)
  OBVIOUS
<1>5. PICK D : grant \in [GrantIds -> GrantColumns(D)]
  BY DEF SaleInv, RowsShaped
<1>6. /\ kept \in [GrantIds -> GrantColumns(D)]
      /\ \A h \in GrantIds : /\ kept[h].chain = grant[h].chain
                             /\ kept[h].refunded = grant[h].refunded
  BY <1>4, <1>5, VoidKeeps
<1>7. PICK E : E = {NoChain, Nobody, NoPlan, 0, g, b, pl, clock, e}
  OBVIOUS
<1>8. PICK new : new = [NoGrant EXCEPT !.chain = g, !.buyer = b, !.plan = pl,
                                       !.effective = clock, !.fixed = e]
  OBVIOUS
<1>9. new \in GrantColumns(E)
  <2>1. NoGrant \in GrantColumns(E)
    BY <1>7 DEF NoGrant, GrantColumns
  <2> QED BY <1>7, <1>8, <2>1 DEF GrantColumns
<1>10. grant' = [kept EXCEPT ![g] = new]
  BY <1>4, <1>8 DEF Grant
<1>11. \E F : grant' \in [GrantIds -> GrantColumns(F)]
  BY <1>3, <1>6, <1>9, <1>10, GrantWritten
<1>12. \A p \in PurchaseIds : /\ grant'[p].chain = grant[p].chain
                             /\ grant'[p].refunded = grant[p].refunded
  <2> SUFFICES ASSUME NEW p \in PurchaseIds
               PROVE  /\ grant'[p].chain = grant[p].chain
                      /\ grant'[p].refunded = grant[p].refunded
    OBVIOUS
  <2>1. p \in GrantIds /\ p # g
    BY <1>3 DEF GrantIds
  <2>2. grant'[p] = kept[p]
    BY <1>6, <1>10, <2>1
  <2> QED BY <1>6, <2>1, <2>2
<1>13. PICK row : row = [plan |-> pl, expires |-> e, chain |-> g,
                         revision |-> sub[b].revision + 1, source |-> "manual"]
  OBVIOUS
<1>14. sub' = [sub EXCEPT ![b] = row]
  BY <1>13 DEF Grant
<1>15. PICK C : sub \in [Buyers -> SubColumns(C)]
  BY DEF SaleInv, RowsShaped
<1>16. PICK F : F = {pl, e, g, "manual"}
  OBVIOUS
<1>17. row \in SubColumns(F) /\ row.revision = sub[b].revision + 1
  BY <1>13, <1>15, <1>16 DEF SubColumns
<1>18. /\ \E H : sub' \in [Buyers -> SubColumns(H)]
       /\ \A c \in Buyers : \/ sub'[c] = sub[c]
                           \/ /\ sub'[c].revision \in Nat
                              /\ sub'[c].revision > sub[c].revision
  BY <1>14, <1>17, SubWritten
<1>19. RowsShaped'
  BY <1>11, <1>18 DEF RowsShaped
<1>20. counter' \in [Buyers \X Plans -> CounterRow] /\ CountersMatch' /\ WithinLimits
  BY <1>1, <1>2, Released DEF Closing
<1>21. PurchasesFinite' /\ PurchaseSound' /\ BillsAgree' /\ AsReviewed
  BY <1>1, <1>2, <1>12, Closed
<1>22. RequestsHonest'
  BY <1>1, <1>18, RequestsKept
<1>23. RequestsShaped' /\ SaleTyped'
  BY <1>1, <1>2, <1>20 DEF SaleInv, RequestsShaped, SaleTyped
<1>24. DeletedPlanHasNoPending'
  BY <1>1, <1>2 DEF SaleInv, DeletedPlanHasNoPending, Closing, Pending
<1> QED BY <1>19, <1>20, <1>21, <1>22, <1>23, <1>24 DEF SaleKept, SaleInv

-----------------------------------------------------------------------------
(* Chains.                                                                 *)

LEMMA ChainGranted ==
    ASSUME ChainInv, NEW b \in Buyers, NEW g \in GrantIds, ~Exists(g), Granted(b, g)
    PROVE  ChainInv'
<1>1. PICK kept, new, c :
        /\ \A h \in GrantIds : IF h = g THEN grant'[h] = new ELSE grant'[h] = kept[h]
        /\ \A h \in GrantIds : /\ kept[h].chain = grant[h].chain
                               /\ grant[h].chain # sub[b].chain => kept[h] = grant[h]
        /\ new.chain = c /\ new.buyer = b /\ new.voided = FALSE
        /\ \/ c = g
           \/ /\ c = sub[b].chain /\ c # NoChain
              /\ \A h \in GrantIds : kept[h] = grant[h]
        /\ \A d \in Buyers : IF d = b THEN sub'[d].chain = c ELSE sub'[d] = sub[d]
  BY DEF Granted
<1>2. g # NoChain /\ grant[g].chain = NoChain
  BY IdsAssumption DEF GrantIds, NoChain, Exists
<1>3. c \in GrantIds /\ c # NoChain /\ grant'[c].chain = c
  <2>1. CASE c = g
    BY <1>1, <1>2, <2>1
  <2>2. CASE c # g
    <3>1. c = sub[b].chain /\ c # NoChain
      BY <1>1, <2>2
    <3>2. c \in GrantIds /\ grant[c].chain = c
      BY <3>1 DEF ChainInv, ChainsNamed
    <3> QED BY <1>1, <2>2, <3>1, <3>2
  <2> QED BY <2>1, <2>2
<1>4. ASSUME NEW h \in GrantIds, grant'[h].chain # NoChain
      PROVE  grant'[h].chain \in GrantIds
             /\ grant'[grant'[h].chain].chain = grant'[h].chain
  <2>1. CASE h = g
    BY <1>1, <1>3, <2>1
  <2>2. CASE h # g
    <3>1. PICK e : e = grant[h].chain
      OBVIOUS
    <3>2. grant'[h].chain = e /\ e # NoChain
      BY <1>1, <1>4, <2>2, <3>1
    <3>3. e \in GrantIds /\ grant[e].chain = e
      BY <3>1, <3>2 DEF ChainInv, ChainsNamed
    <3>4. e # g
      BY <1>2, <3>2, <3>3
    <3>5. grant'[e].chain = e
      BY <1>1, <3>3, <3>4
    <3> QED BY <3>2, <3>3, <3>5
  <2> QED BY <2>1, <2>2
<1>5. ASSUME NEW d \in Buyers, sub'[d].chain # NoChain
      PROVE  sub'[d].chain \in GrantIds
             /\ grant'[sub'[d].chain].chain = sub'[d].chain
  <2>1. CASE d = b
    BY <1>1, <1>3, <2>1
  <2>2. CASE d # b
    <3>1. PICK e : e = sub[d].chain
      OBVIOUS
    <3>2. sub'[d].chain = e /\ e # NoChain
      BY <1>1, <1>5, <2>2, <3>1
    <3>3. e \in GrantIds /\ grant[e].chain = e
      BY <3>1, <3>2 DEF ChainInv, ChainsNamed
    <3>4. e # g
      BY <1>2, <3>2, <3>3
    <3>5. grant'[e].chain = e
      BY <1>1, <3>3, <3>4
    <3> QED BY <3>2, <3>3, <3>5
  <2> QED BY <2>1, <2>2
<1>6. ASSUME NEW d \in Buyers, sub'[d].chain # NoChain,
             NEW h \in GrantIds, grant'[h].chain = sub'[d].chain
      PROVE  ~grant'[h].voided /\ grant'[h].buyer = d
  <2>1. CASE d = b /\ h = g
    BY <1>1, <2>1
  <2>2. CASE d = b /\ h # g
    <3>1. grant[h].chain = c /\ grant'[h] = kept[h]
      BY <1>1, <1>6, <2>2
    <3>2. c # g
      BY <1>2, <1>3, <3>1 DEF ChainInv, ChainsNamed
    <3>3. c = sub[b].chain /\ c # NoChain /\ kept[h] = grant[h]
      BY <1>1, <3>2
    <3> QED BY <2>2, <3>1, <3>3 DEF ChainInv, ActiveChainWhole
  <2>3. CASE d # b
    <3>1. PICK e : e = sub[d].chain
      OBVIOUS
    <3>2. sub'[d].chain = e /\ e # NoChain
      BY <1>1, <1>6, <2>3, <3>1
    <3>3. e \in GrantIds /\ grant[e].chain = e
      BY <3>1, <3>2 DEF ChainInv, ChainsNamed
    <3>4. grant[e].buyer = d
      BY <3>1, <3>2, <3>3 DEF ChainInv, ActiveChainWhole
    <3>5. e # g
      BY <1>2, <3>2, <3>3
    <3>6. e # sub[b].chain
      BY <2>3, <3>2, <3>3, <3>4 DEF ChainInv, ActiveChainWhole
    <3>7. h # g
      BY <1>1, <1>6, <3>2, <3>5, <3>6
    <3>8. grant[h].chain = e /\ grant'[h] = grant[h]
      BY <1>1, <1>6, <3>2, <3>6, <3>7
    <3> QED BY <3>1, <3>2, <3>8 DEF ChainInv, ActiveChainWhole
  <2> QED BY <2>1, <2>2, <2>3
<1> QED BY <1>4, <1>5, <1>6 DEF ChainInv, ActiveChainWhole, ChainsNamed

(* A refund marks a grant and recomputes; a chain is neither left nor      *)
(* joined.                                                                 *)
LEMMA ChainRefunded ==
    ASSUME SaleInv, ChainInv, NEW p \in PurchaseIds, Refund(p)
    PROVE  ChainInv'
<1>1. PICK D : grant \in [GrantIds -> GrantColumns(D)]
  BY DEF SaleInv, RowsShaped
<1>2. PICK C : sub \in [Buyers -> SubColumns(C)]
  BY DEF SaleInv, RowsShaped
<1>3. p \in GrantIds /\ grant[p] \in GrantColumns(D)
  BY <1>1 DEF GrantIds
<1>4. PICK given : given = [grant[p] EXCEPT !.refunded = TRUE]
  OBVIOUS
<1>5. /\ given.chain = grant[p].chain /\ given.buyer = grant[p].buyer
  BY <1>3, <1>4 DEF GrantColumns
<1>6. given.voided = grant[p].voided
  BY <1>3, <1>4 DEF GrantColumns
<1>7. \A g \in GrantIds : IF g = p THEN grant'[g] = given ELSE grant'[g] = grant[g]
  BY <1>1, <1>4 DEF Refund
<1>8. \A b \in Buyers : sub'[b].chain = sub[b].chain
  <2>1. CASE sub' = sub
    BY <2>1
  <2>2. CASE sub' # sub
    <3>1. PICK b : b = purchase[p].buyer
      OBVIOUS
    <3>2. PICK row : row = Recomputed(sub[b], grant', grant[p].chain, clock)
      OBVIOUS
    <3>3. /\ sub' = [sub EXCEPT ![b] = row] /\ sub[b].chain = grant[p].chain
      BY <2>2, <3>1, <3>2 DEF Refund, Follows
    <3>4. b \in Buyers
      BY <3>1 DEF Refund, SaleInv, PurchaseSound
    <3>5. row.chain = grant[p].chain
      BY <1>2, <3>2, <3>4, RecomputedColumns
    <3> QED BY <1>2, <3>3, <3>4, <3>5
  <2> QED BY <2>1, <2>2
<1>9. \A g \in GrantIds : grant'[g].chain = grant[g].chain /\ grant'[g].buyer = grant[g].buyer
  BY <1>5, <1>7
<1>10. \A g \in GrantIds : grant[g].voided = FALSE => grant'[g].voided = FALSE
  BY <1>6, <1>7
<1>11. ChainsNamed'
  BY <1>8, <1>9 DEF ChainInv, ChainsNamed
<1>12. ActiveChainWhole'
  <2> SUFFICES ASSUME NEW b \in Buyers, sub'[b].chain # NoChain,
                      NEW g \in GrantIds, grant'[g].chain = sub'[b].chain
               PROVE  ~grant'[g].voided /\ grant'[g].buyer = b
    BY DEF ActiveChainWhole
  <2>1. sub[b].chain # NoChain /\ grant[g].chain = sub[b].chain
    BY <1>8, <1>9
  <2>2. ~grant[g].voided /\ grant[g].buyer = b
    BY <2>1 DEF ChainInv, ActiveChainWhole
  <2>3. grant[g].voided \in BOOLEAN
    BY <1>1 DEF GrantColumns
  <2>4. ~grant'[g].voided
    BY <1>10, <2>2, <2>3
  <2> QED BY <1>9, <2>2, <2>4
<1> QED BY <1>11, <1>12 DEF ChainInv

LEMMA ChainManual ==
    ASSUME SaleInv, ChainInv, NEW b \in Buyers, NEW g \in ManualIds,
           NEW pl \in Plans, NEW e \in Expiries, Grant(b, g, pl, e)
    PROVE  ChainInv'
<1>1. g \in GrantIds /\ ~Exists(g)
  BY DEF Grant, GrantIds
<1>2. PICK D : grant \in [GrantIds -> GrantColumns(D)]
  BY DEF SaleInv, RowsShaped
<1>3. PICK C : sub \in [Buyers -> SubColumns(C)]
  BY DEF SaleInv, RowsShaped
<1>4. PICK kept : kept = Void(grant, sub[b].chain)
  OBVIOUS
<1>5. /\ kept \in [GrantIds -> GrantColumns(D)]
      /\ \A h \in GrantIds : /\ kept[h].chain = grant[h].chain
                             /\ grant[h].chain # sub[b].chain => kept[h] = grant[h]
  BY <1>2, <1>4, VoidKeeps
<1>6. PICK new : new = [NoGrant EXCEPT !.chain = g, !.buyer = b, !.plan = pl,
                                       !.effective = clock, !.fixed = e]
  OBVIOUS
<1>7. new.chain = g /\ new.buyer = b
  BY <1>6 DEF NoGrant
<1>8. new.voided = FALSE
  BY <1>6 DEF NoGrant
<1>9. grant' = [kept EXCEPT ![g] = new]
  BY <1>4, <1>6 DEF Grant
<1>10. \A h \in GrantIds : IF h = g THEN grant'[h] = new ELSE grant'[h] = kept[h]
  BY <1>5, <1>9
<1>11. \A d \in Buyers : IF d = b THEN sub'[d].chain = g ELSE sub'[d] = sub[d]
  BY <1>3 DEF Grant
<1>12. Granted(b, g)
  BY <1>5, <1>7, <1>8, <1>10, <1>11 DEF Granted
<1> QED BY <1>1, <1>12, ChainGranted

LEMMA ChainPaid ==
    ASSUME SaleInv, ChainInv, NEW p \in PurchaseIds, NEW byHand \in BOOLEAN,
           Settle(p, byHand)
    PROVE  ChainInv'
<1>1. Pending(p) /\ Fulfil(p)
  BY DEF Settle, Payable
<1>2. purchase[p].buyer \in Buyers /\ p \in GrantIds /\ ~Exists(p)
  BY <1>1 DEF Pending, SaleInv, PurchaseSound, BillsAgree, GrantIds
<1>3. Granted(purchase[p].buyer, p)
  BY <1>1, FulfilWrites
<1> QED BY <1>2, <1>3, ChainGranted

LEMMA NextChain ==
    ASSUME SaleInv, ChainInv, [Next]_vars
    PROVE  ChainInv'
<1>1. ASSUME UNCHANGED <<grant, sub>> PROVE ChainInv'
  BY <1>1 DEF ChainInv, ActiveChainWhole, ChainsNamed
<1>2. ASSUME NEW b \in Buyers, NEW g \in ManualIds, NEW pl \in Plans,
             NEW e \in Expiries, Grant(b, g, pl, e)
      PROVE  ChainInv'
  BY <1>2, ChainManual
<1>3. ASSUME NEW p \in PurchaseIds, Refund(p) PROVE ChainInv'
  BY <1>3, ChainRefunded
<1>4. ASSUME NEW p \in PurchaseIds, NEW byHand \in BOOLEAN, Settle(p, byHand)
      PROVE  ChainInv'
  BY <1>4, ChainPaid
<1>5. CASE Tick
  BY <1>1, <1>5 DEF Tick
<1>6. ASSUME NEW pl \in Plans, DeletePlan(pl) PROVE ChainInv'
  BY <1>1, <1>6 DEF DeletePlan
<1>7. ASSUME NEW pl \in Plans, NEW d \in Durations, NEW l \in Limits, SavePlan(pl, d, l)
      PROVE  ChainInv'
  BY <1>1, <1>7 DEF SavePlan
<1>8. ASSUME NEW b \in Buyers, Drop(b) PROVE ChainInv'
  BY <1>1, <1>8 DEF Drop
<1>9. ASSUME NEW b \in Buyers, NEW pl \in Plans, NEW c \in Confirms, Review(b, pl, c)
      PROVE  ChainInv'
  BY <1>1, <1>9 DEF Review
<1>10. ASSUME NEW b \in Buyers, NEW p \in PurchaseIds, Purchase(b, p) PROVE ChainInv'
  BY <1>1, <1>10 DEF Purchase
<1>11. ASSUME NEW p \in PurchaseIds, CancelPurchase(p) \/ CloseExpired(p) \/ LapseBill(p)
       PROVE  ChainInv'
  BY <1>1, <1>11 DEF CancelPurchase, CloseExpired, LapseBill
<1>12. ASSUME NEW m \in Bannable, Ban(m) \/ Unban(m) PROVE ChainInv'
  BY <1>1, <1>12 DEF Ban, Unban
<1>13. CASE UNCHANGED vars
  BY <1>1, <1>13 DEF vars
<1> QED BY <1>2, <1>3, <1>4, <1>5, <1>6, <1>7, <1>8, <1>9, <1>10, <1>11, <1>12, <1>13
        DEF Next

-----------------------------------------------------------------------------
(* The results.                                                            *)

LEMMA InitSale == Init => SaleInv
<1> SUFFICES ASSUME Init PROVE SaleInv
  OBVIOUS
<1>1. \A p \in PurchaseIds : purchase[p] = NoPurchase
  BY DEF Init
<1>2. SaleTyped
  <2>1. clock \in Nat
    BY DEF Init
  <2>2. plan \in [Plans -> PlanRow]
    <3>1. plan \in [Plans -> [revision : {1}, duration : Durations,
                            limit : Limits, deleted : {FALSE}]]
      BY DEF Init
    <3>2. {1} \subseteq 1 .. MaxRevision
      BY TermsAssumption
    <3> QED BY <3>1, <3>2 DEF PlanRow
  <2>3. purchase \in [PurchaseIds -> PurchaseRow]
    <3>1. NoPurchase \in PurchaseRow
      BY DEF NoPurchase, PurchaseRow, Nobody, NoPlan
    <3> QED BY <3>1 DEF Init
  <2>4. counter \in [Buyers \X Plans -> CounterRow]
    BY DEF Init, CounterRow
  <2> QED BY <2>1, <2>2, <2>3, <2>4 DEF SaleTyped
<1>3. RowsShaped
  <2>1. PICK D : D = {0, "none"}
    OBVIOUS
  <2>2. NoGrant \in GrantColumns(D)
    BY <2>1 DEF NoGrant, GrantColumns, NoChain, Nobody, NoPlan
  <2>3. NoSubscription \in SubColumns(D)
    BY <2>1 DEF NoSubscription, SubColumns, NoChain, NoPlan
  <2>4. grant \in [GrantIds -> GrantColumns(D)]
    BY <2>2 DEF Init
  <2>5. sub \in [Buyers -> SubColumns(D)]
    BY <2>3 DEF Init
  <2> QED BY <2>4, <2>5 DEF RowsShaped
<1>4. PurchasesFinite
  <2>1. {p \in PurchaseIds : purchase[p].state # "absent"} = {}
    BY <1>1 DEF NoPurchase
  <2> QED BY <2>1, FS_EmptySet DEF PurchasesFinite
<1>5. PurchaseSound
  BY <1>1 DEF PurchaseSound, NoPurchase
<1>6. BillsAgree
  <2>1. \A p \in PurchaseIds : grant[p] = NoGrant
    BY DEF Init, GrantIds
  <2>2. NoGrant.chain = NoChain /\ NoGrant.refunded = FALSE
    BY DEF NoGrant
  <2>3. NoPurchase.state = "absent" /\ NoPurchase.bill = "none"
    BY DEF NoPurchase
  <2> QED BY <1>1, <2>1, <2>2, <2>3 DEF BillsAgree, Exists
<1>7. CountersMatch
  <2> SUFFICES ASSUME NEW b \in Buyers, NEW pl \in Plans
       PROVE  /\ counter[<<b, pl>>].reserved = Cardinality(Of(b, pl, {"pending"}))
              /\ counter[<<b, pl>>].paid = Cardinality(Of(b, pl, {"paid", "refunded"}))
    BY DEF CountersMatch
  <2>1. Of(b, pl, {"pending"}) = {} /\ Of(b, pl, {"paid", "refunded"}) = {}
    BY <1>1 DEF Of, NoPurchase
  <2>2. counter[<<b, pl>>] = [paid |-> 0, reserved |-> 0]
    BY DEF Init
  <2> QED BY <2>1, <2>2, FS_EmptySet
<1>8. DeletedPlanHasNoPending
  BY <1>1 DEF DeletedPlanHasNoPending, Pending, NoPurchase
<1>9. RequestsShaped /\ RequestsHonest
  BY DEF Init, RequestsShaped, RequestsHonest
<1> QED BY <1>2, <1>3, <1>4, <1>5, <1>6, <1>7, <1>8, <1>9 DEF SaleInv

LEMMA NextSale ==
    ASSUME SaleInv, [Next]_vars
    PROVE  SaleKept
<1>1. CASE Tick
  BY <1>1, TickStep
<1>2. ASSUME NEW pl \in Plans, DeletePlan(pl) PROVE SaleKept
  BY <1>2, DeletePlanStep
<1>3. ASSUME NEW pl \in Plans, NEW d \in Durations, NEW l \in Limits, SavePlan(pl, d, l)
      PROVE  SaleKept
  BY <1>3, SavePlanStep
<1>4. ASSUME NEW b \in Buyers, Drop(b) PROVE SaleKept
  BY <1>4, DropStep
<1>5. ASSUME NEW b \in Buyers, NEW pl \in Plans, NEW c \in Confirms, Review(b, pl, c)
      PROVE  SaleKept
  BY <1>5, ReviewStep
<1>6. ASSUME NEW b \in Buyers, NEW p \in PurchaseIds, Purchase(b, p) PROVE SaleKept
  BY <1>6, PurchaseStep
<1>7. ASSUME NEW b \in Buyers, NEW g \in ManualIds, NEW pl \in Plans,
             NEW e \in Expiries, Grant(b, g, pl, e)
      PROVE  SaleKept
  BY <1>7, GrantStep
<1>8. ASSUME NEW p \in PurchaseIds,
             CancelPurchase(p) \/ CloseExpired(p) \/ LapseBill(p) \/ Refund(p)
      PROVE  SaleKept
  BY <1>8, CancelPurchaseStep, CloseExpiredStep, LapseBillStep, RefundStep
<1>9. ASSUME NEW p \in PurchaseIds, NEW byHand \in BOOLEAN, Settle(p, byHand)
      PROVE  SaleKept
  BY <1>9, SettleStep
<1>10. ASSUME NEW m \in Bannable, Ban(m) PROVE SaleKept
  BY <1>10, BanStep
<1>11. ASSUME NEW m \in Bannable, Unban(m) PROVE SaleKept
  BY <1>11, UnbanStep DEF Unban
<1>12. CASE UNCHANGED vars
  BY <1>12, UnbanStep DEF vars
<1> QED BY <1>1, <1>2, <1>3, <1>4, <1>5, <1>6, <1>7, <1>8, <1>9, <1>10, <1>11, <1>12
        DEF Next

LEMMA SaleAlways == Spec => []SaleInv
<1>1. SaleInv /\ [Next]_vars => SaleInv'
  BY NextSale DEF SaleKept
<1> QED BY InitSale, <1>1, PTL DEF Spec

(* Eight operations count a buyer's units up and down and none counts the  *)
(* purchases; the counters agree with the purchases in every state.        *)
THEOREM CountersCount == Spec => []CountersMatch
BY SaleAlways, PTL DEF SaleInv

(* Purchase, bill and grant, written by different services, never part:    *)
(* paid is paid in all three, refunded in all three.                       *)
THEOREM BillsFollow == Spec => []BillsAgree
BY SaleAlways, PTL DEF SaleInv

(* Deleting a plan and buying it never cross: no purchase of a deleted     *)
(* plan waits for payment.                                                 *)
THEOREM DeletedUnpaid == Spec => []DeletedPlanHasNoPending
BY SaleAlways, PTL DEF SaleInv

(* A plan's limit holds for every buyer at every step, although the check  *)
(* reads the counters and not the purchases.                               *)
THEOREM LimitHolds == Spec => LimitRespected
<1>1. SaleInv /\ [Next]_vars =>
        [\A b \in Buyers, pl \in Plans :
          Taken(b, pl)' > Taken(b, pl) =>
             plan'[pl].limit = NoLimit \/ Taken(b, pl)' <= plan'[pl].limit]_vars
  BY NextSale DEF SaleKept, WithinLimits
<1> QED BY SaleAlways, <1>1, PTL DEF Spec, LimitRespected

(* A purchase is made on the terms and the subscription the buyer saw: the *)
(* two revisions are enough to notice any change in between.               *)
THEOREM SoldAsReviewed == Spec => PurchaseAsReviewed
<1>1. SaleInv /\ [Next]_vars =>
        [\A p \in PurchaseIds : Becomes(p, "absent", "pending") =>
          \E r \in request[purchase'[p].buyer] :
              /\ purchase'[p].plan = r.plan
              /\ purchase'[p].duration = r.terms.duration
              /\ sub[purchase'[p].buyer] = r.seen]_vars
  BY NextSale DEF SaleKept, AsReviewed
<1> QED BY SaleAlways, <1>1, PTL DEF Spec, PurchaseAsReviewed

LEMMA ChainAlways == Spec => []ChainInv
<1>1. Init => ChainInv
  <2> SUFFICES ASSUME Init PROVE ChainInv
    OBVIOUS
  <2>1. \A g \in GrantIds : grant[g].chain = NoChain
    BY DEF Init, NoGrant
  <2>2. \A b \in Buyers : sub[b].chain = NoChain
    BY DEF Init, NoSubscription
  <2> QED BY <2>1, <2>2 DEF ChainInv, ActiveChainWhole, ChainsNamed
<1>2. SaleInv /\ ChainInv /\ [Next]_vars => ChainInv'
  BY NextChain
<1> QED BY SaleAlways, <1>1, <1>2, PTL DEF Spec

(* Whatever buyers switch and administrators replace, the chain a          *)
(* subscription follows is never a voided one and holds grants of its      *)
(* merchant alone.                                                         *)
THEOREM ActiveChainStands == Spec => []ActiveChainWhole
BY ChainAlways, PTL DEF ChainInv

-----------------------------------------------------------------------------
(* Every purchase lives its life (PurchaseLife), with its bill.            *)

LEMMA Unmoved ==
    ASSUME NEW p \in PurchaseIds,
           purchase'[p].state = purchase[p].state, purchase'[p].bill = purchase[p].bill
    PROVE  [Life(p)!Next]_(Life(p)!vars)
BY DEF Life!vars

(* A row that is cancelled, or whose open bill is expired.                 *)
LEMMA EndedLives ==
    ASSUME NEW p \in PurchaseIds, purchase[p] \in PurchaseRow,
           \/ Pending(p) /\ purchase'[p] = Cancelled(purchase[p])
           \/ purchase'[p] = [purchase[p] EXCEPT !.bill = CancelBill(@)]
    PROVE  [Life(p)!Next]_(Life(p)!vars)
<1>1. CASE Pending(p) /\ purchase'[p] = Cancelled(purchase[p])
  <2>1. /\ purchase'[p].state = "cancelled"
        /\ purchase'[p].bill = IF purchase[p].bill = "pending" THEN "expired"
                               ELSE purchase[p].bill
    BY <1>1 DEF Cancelled, CancelBill, PurchaseRow
  <2>2. Life(p)!Cancel
    BY <1>1, <2>1 DEF Life!Cancel, Pending
  <2> QED BY <2>2 DEF Life!Next
<1>2. CASE purchase'[p] = [purchase[p] EXCEPT !.bill = CancelBill(@)]
  <2>1. /\ purchase'[p].state = purchase[p].state
        /\ purchase'[p].bill = CancelBill(purchase[p].bill)
    BY <1>2 DEF PurchaseRow
  <2>2. CASE purchase[p].bill = "pending"
    BY <2>1, <2>2 DEF Life!Next, Life!Lapse, CancelBill
  <2>3. CASE purchase[p].bill # "pending"
    BY <2>1, <2>3, Unmoved DEF CancelBill
  <2> QED BY <2>2, <2>3
<1> QED BY <1>1, <1>2

LEMMA LifeStep ==
    ASSUME SaleInv, [Next]_vars, NEW p \in PurchaseIds
    PROVE  [Life(p)!Next]_(Life(p)!vars)
<1> USE DEF SaleInv
<1>0. /\ purchase \in [PurchaseIds -> PurchaseRow] /\ purchase[p] \in PurchaseRow
      /\ purchase[p].state = "absent" => purchase[p].bill = "none"
      /\ purchase[p].state = "pending" => purchase[p].bill \in {"pending", "expired"}
      /\ purchase[p].state = "paid" => purchase[p].bill = "paid"
  BY DEF SaleTyped, PurchaseSound, BillsAgree
<1>1. CASE purchase' = purchase
  BY <1>1, Unmoved
<1>2. ASSUME NEW S \in SUBSET PurchaseIds, \A q \in S : Pending(q), Cancel(S)
      PROVE  [Life(p)!Next]_(Life(p)!vars)
  <2>1. CASE p \in S
    BY <1>0, <1>2, <2>1, EndedLives DEF Cancel
  <2>2. CASE p \notin S
    BY <1>2, <2>2, Unmoved DEF Cancel
  <2> QED BY <2>1, <2>2
<1>3. ASSUME NEW q \in PurchaseIds, NEW r, q # p, purchase' = [purchase EXCEPT ![q] = r]
      PROVE  [Life(p)!Next]_(Life(p)!vars)
  BY <1>0, <1>3, Unmoved
<1>4. ASSUME NEW pl \in Plans, DeletePlan(pl) PROVE [Life(p)!Next]_(Life(p)!vars)
  BY <1>4, <1>2 DEF DeletePlan
<1>5. ASSUME NEW b \in Buyers, NEW q \in PurchaseIds, Purchase(b, q)
      PROVE  [Life(p)!Next]_(Life(p)!vars)
  <2> DEFINE Row(r) == [state |-> "pending", buyer |-> b, plan |-> r.plan,
                        kind |-> KindFor(b, r.plan), duration |-> plan[r.plan].duration,
                        expires |-> clock + TTL, bill |-> "pending"]
  <2>0. \E r \in request[b] : /\ purchase[q].state = "absent"
                             /\ purchase' = [purchase EXCEPT ![q] = Row(r)]
    BY <1>5 DEF Purchase
  <2>1. PICK r \in request[b] : /\ purchase[q].state = "absent"
                                /\ purchase' = [purchase EXCEPT ![q] = Row(r)]
    BY <2>0
  <2>3. Row(r).state = "pending" /\ Row(r).bill = "pending"
    OBVIOUS
  <2> HIDE DEF Row
  <2>2. CASE q = p
    BY <1>0, <2>1, <2>2, <2>3 DEF Life!Next, Life!Open
  <2> QED BY <1>3, <2>1, <2>2
<1>6. ASSUME NEW b \in Buyers, NEW g \in ManualIds, NEW pl \in Plans,
             NEW e \in Expiries, Grant(b, g, pl, e)
      PROVE  [Life(p)!Next]_(Life(p)!vars)
  BY <1>6, <1>2 DEF Grant
<1>7. ASSUME NEW q \in PurchaseIds, CancelPurchase(q)
      PROVE  [Life(p)!Next]_(Life(p)!vars)
  BY <1>7, <1>2 DEF CancelPurchase
<1>8. ASSUME NEW q \in PurchaseIds, CloseExpired(q)
      PROVE  [Life(p)!Next]_(Life(p)!vars)
  <2>1. CASE q = p
    BY <1>0, <1>8, <2>1 DEF CloseExpired, Pending, PurchaseRow, Life!Next, Life!Close
  <2> QED BY <1>3, <1>8, <2>1 DEF CloseExpired
<1>9. ASSUME NEW q \in PurchaseIds, LapseBill(q)
      PROVE  [Life(p)!Next]_(Life(p)!vars)
  <2>1. CASE q = p
    BY <1>0, <1>9, <2>1 DEF LapseBill, PurchaseRow, Life!Next, Life!Lapse
  <2> QED BY <1>3, <1>9, <2>1 DEF LapseBill
<1>10. ASSUME NEW q \in PurchaseIds, Refund(q)
       PROVE  [Life(p)!Next]_(Life(p)!vars)
  <2>1. CASE q = p
    BY <1>0, <1>10, <2>1 DEF Refund, PurchaseRow, Life!Next, Life!Refund
  <2> QED BY <1>3, <1>10, <2>1 DEF Refund
<1>11. ASSUME NEW q \in PurchaseIds, NEW byHand \in BOOLEAN, Settle(q, byHand)
       PROVE  [Life(p)!Next]_(Life(p)!vars)
  <2>1. CASE q = p
    BY <1>0, <1>11, <2>1 DEF Settle, Payable, Pending, PurchaseRow, Life!Next, Life!Pay
  <2> QED BY <1>3, <1>11, <2>1 DEF Settle
<1>12. ASSUME NEW m \in Bannable, Ban(m) PROVE [Life(p)!Next]_(Life(p)!vars)
  <2>1. \/ Pending(p) /\ purchase'[p] = Cancelled(purchase[p])
        \/ purchase'[p] = [purchase[p] EXCEPT !.bill = CancelBill(@)]
        \/ purchase'[p] = purchase[p]
    BY <1>12 DEF Ban
  <2> QED BY <1>0, <2>1, EndedLives, Unmoved
<1>13. [Next]_vars =>
         \/ purchase' = purchase
         \/ \E pl \in Plans : DeletePlan(pl)
         \/ \E b \in Buyers, q \in PurchaseIds : Purchase(b, q)
         \/ \E b \in Buyers, g \in ManualIds, pl \in Plans, e \in Expiries :
               Grant(b, g, pl, e)
         \/ \E q \in PurchaseIds :
               \/ CancelPurchase(q) \/ CloseExpired(q) \/ LapseBill(q) \/ Refund(q)
               \/ \E byHand \in BOOLEAN : Settle(q, byHand)
         \/ \E m \in Bannable : Ban(m)
  BY DEF Next, vars, Tick, SavePlan, Drop, Review, Unban
<1> QED BY <1>1, <1>4, <1>5, <1>6, <1>7, <1>8, <1>9, <1>10, <1>11, <1>12, <1>13

(* Every purchase and its bill, moved by eight operations of two services, *)
(* live one life: paid together, refunded together, cancelled together,    *)
(* and no money for a purchase that has ended.                             *)
THEOREM LivesLived == Spec => ImplementsLife
<1>1. Init => \A p \in PurchaseIds : Life(p)!Init
  BY DEF Init, NoPurchase, Life!Init
<1>2. SaleInv /\ [Next]_vars =>
        [\A p \in PurchaseIds : [Life(p)!Next]_(Life(p)!vars)]_vars
  BY LifeStep
<1> QED BY SaleAlways, <1>1, <1>2, PTL DEF Spec, ImplementsLife
=============================================================================
