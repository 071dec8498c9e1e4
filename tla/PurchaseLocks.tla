--------------------------- MODULE PurchaseLocks ---------------------------
(***************************************************************************)
(* The row locks of the transactions that meet on one purchase             *)
(* (internal/subscription, payment, merchant, device; db/sqlc/tx.go).      *)
(*                                                                         *)
(* Transactions are READ COMMITTED: a statement sees what is committed     *)
(* when it has its row, waits while another transaction holds it, and the  *)
(* writes and locks of a transaction end together.  Not everybody locks in *)
(* one order: whoever cancels takes the purchase before its bill, whoever  *)
(* settles the bill before the purchase, and fulfilment takes the buyer,   *)
(* whom a new grant refers to, last.  PostgreSQL breaks a circle of        *)
(* waiting transactions by aborting one, and InTx runs that one again.     *)
(*                                                                         *)
(* A script lists the rows a transaction takes that others may hold before *)
(* it; counters and grants are only ever reached through these.            *)
(***************************************************************************)
EXTENDS Naturals, Sequences

CONSTANTS
    Txs,          \* connections that run transactions, one after another
    None,         \* no transaction
    Offered,      \* bound: the requests that come
    BuyerFirst,   \* the buyer's id is smaller than the billing merchant's
    MaxRuns       \* runs that InTx grants a transaction

Requests ==
    {"Purchase", "CancelPurchase", "DeletePlan", "CloseExpired", "BanBuyer",
     "BanBilling", "ExpireBatch", "Ingest", "Supplement", "MarkRefunded"}

ASSUME LocksAssumption ==
    /\ None \notin Txs /\ Offered \subseteq Requests
    /\ BuyerFirst \in BOOLEAN /\ MaxRuns \in Nat \ {0}

VARIABLES
    row,       \* what is committed of each row
    late,      \* the purchase and its bill have expired
    holder,    \* [Rows -> the transaction that has locked the row]
    does,      \* [Txs -> the request it serves, "idle" or "failed"]
    step,      \* [Txs -> index of its next statement]
    run,       \* [Txs -> how often InTx has begun it]
    at,        \* [Txs -> whether it read a time after the expiry]
    written    \* [Txs -> what it wrote to each row and has not committed]

lockVars == <<row, late, holder, does, step, run, at, written>>

Rows == {"billing", "buyer", "plan", "sub", "purchase", "order"}

Statuses ==
    {"exists", "sold", "deleted", "none", "absent", "pending", "overdue",
     "paid", "expired", "cancelled", "refunded"}

-----------------------------------------------------------------------------
(* Statements: the row, what it has to be, what it becomes ("same": it is  *)
(* only read), and what happens if it is anything else.                    *)

Statement == [row : Rows, need : SUBSET Statuses, to : Statuses \cup {"same"},
              otherwise : {"error", "finish", "go on"}]

(* SELECT ... FOR UPDATE, whatever the row says.                           *)
Lock(r) == [row |-> r, need |-> Statuses, to |-> "same", otherwise |-> "go on"]

(* The same, and an error of the function unless the row says one of S.    *)
Need(r, S, to) == [row |-> r, need |-> S, to |-> to, otherwise |-> "error"]

(* A row found by its state; without one there is nothing left to do.      *)
Find(r, S, to) == [row |-> r, need |-> S, to |-> to, otherwise |-> "finish"]

(* SELECT ... FOR UPDATE, then an UPDATE if the row says one of S.         *)
Adjust(r, S, to) == [row |-> r, need |-> S, to |-> to, otherwise |-> "go on"]

Unpaid == {"pending", "overdue"}

(* LockBusinessRows, ascending by id.                                      *)
BuyerAndBilling == IF BuyerFirst THEN <<Lock("buyer"), Lock("billing")>>
                   ELSE <<Lock("billing"), Lock("buyer")>>

OnSale == Need("plan", {"sold"}, "same")

(* CancelPendingPurchasesForBannedTx, and the same statements of           *)
(* DeletePlan; CancelPurchase names the purchase, so that another state is *)
(* an error.                                                               *)
CancelPending ==
    <<Find("purchase", Unpaid, "cancelled"), Adjust("order", Unpaid, "expired")>>

(* Mutant of PaidTx: whatever the purchase has become, it is paid.         *)
PaidTxAnyway ==
    <<Need("purchase", Statuses, "paid"), Lock("sub"), Lock("buyer"), Lock("plan")>>

(* The purchase and its subscription are selected; inserting the grant and *)
(* the subscription takes the rows they refer to, the buyer and the plan.  *)
PaidTx ==
    <<Need("purchase", {"pending"}, "paid"), Lock("sub"), Lock("buyer"), Lock("plan")>>

Purchase ==
    BuyerAndBilling \o <<OnSale, Lock("sub"), Find("purchase", {"absent"}, "pending"),
                        Need("order", {"none"}, "pending")>>

CancelPurchase ==
    <<Lock("buyer"), Need("purchase", Unpaid, "cancelled"),
      Adjust("order", Unpaid, "expired")>>

DeletePlan == <<Need("plan", {"sold"}, "deleted")>> \o CancelPending

(* Mutant of CloseExpired: the purchase it has found before its buyer.     *)
CloseExpiredAsFound ==
    <<Find("purchase", {"overdue"}, "expired"), Lock("buyer")>>

CloseExpired == <<Lock("buyer"), Find("purchase", {"overdue"}, "expired")>>

BanBuyer == BuyerAndBilling \o CancelPending

(* ExpirePendingForBannedTx, when it is the billing merchant.              *)
BanBilling == <<Lock("billing"), Find("order", Unpaid, "expired")>>

ExpireBatch == <<Lock("billing"), Find("order", {"overdue"}, "expired")>>

Ingest == <<Lock("billing"), Find("order", {"pending"}, "paid")>> \o PaidTx

Supplement ==
    <<Lock("billing"), Need("order", Unpaid \cup {"expired"}, "paid")>> \o PaidTx

MarkRefunded ==
    <<Lock("billing"), Need("order", {"paid"}, "refunded"),
      Need("purchase", {"paid"}, "refunded"), Lock("sub")>>

Script == [request \in Requests |->
    CASE request = "Purchase" -> Purchase
      [] request = "CancelPurchase" -> CancelPurchase
      [] request = "DeletePlan" -> DeletePlan
      [] request = "CloseExpired" -> CloseExpired
      [] request = "BanBuyer" -> BanBuyer
      [] request = "BanBilling" -> BanBilling
      [] request = "ExpireBatch" -> ExpireBatch
      [] request = "Ingest" -> Ingest
      [] request = "Supplement" -> Supplement
      [] request = "MarkRefunded" -> MarkRefunded]

(* The errors of these statements do not reach InTx as they are: DeletePlan *)
(* replaces the first by NOT_FOUND and goes on after the second, in a      *)
(* transaction that is aborted; Purchase answers PLAN_UNAVAILABLE and      *)
(* MarkRefunded NOT_FOUND.                                                 *)
Disguised ==
    {<<"DeletePlan", "plan">>, <<"DeletePlan", "order">>, <<"Purchase", "plan">>,
     <<"MarkRefunded", "order">>}

-----------------------------------------------------------------------------

Untouched == [r \in Rows |-> "same"]

LocksInit ==
    /\ row = [r \in Rows |-> CASE r = "plan" -> "sold" [] r = "purchase" -> "absent"
                               [] r = "order" -> "none" [] OTHER -> "exists"]
    /\ late = FALSE
    /\ holder = [r \in Rows |-> None]
    /\ does = [t \in Txs |-> "idle"]
    /\ step = [t \in Txs |-> 1]
    /\ run = [t \in Txs |-> 1]
    /\ at = [t \in Txs |-> FALSE]
    /\ written = [t \in Txs |-> Untouched]

Busy(t) == does[t] \in Offered

AllDone(t) == step[t] > Len(Script[does[t]])

Line(t) == Script[does[t]][step[t]]

(* The clock is read when the bill is judged, PaidTx judges by that time;  *)
(* the jobs have found what they visit overdue.                            *)
Time(t) == IF Line(t).row = "order" THEN late ELSE at[t]

Seen(t) == LET s == row[Line(t).row]
           IN  IF s = "pending" /\ Time(t) THEN "overdue" ELSE s

Fits(t) == Seen(t) \in Line(t).need

(* Mutant of Free: the plan is selected without FOR UPDATE.                *)
FreeButPlans(t) == Line(t).row = "plan" \/ holder[Line(t).row] \in {None, t}

Free(t) == holder[Line(t).row] \in {None, t}

(* What is not there, or not what a search is for, is not waited for.      *)
Wants(t) ==
    \/ Fits(t)
    \/ Line(t).otherwise # "finish" /\ Seen(t) \notin {"absent", "none"}

WaitsFor(t, u) ==
    /\ u # t /\ Busy(t) /\ ~AllDone(t)
    /\ Wants(t) /\ holder[Line(t).row] = u

(* Transactions that wait for each other in a circle.                      *)
Circle(C) == \A v \in C : \E u \in C : WaitsFor(u, v)

Deadlocked(t) == \E C \in SUBSET Txs : t \in C /\ Circle(C)

Released(t) == [r \in Rows |-> IF holder[r] = t THEN None ELSE holder[r]]

(* Transaction t has come to its end.                                      *)
End(t, as) ==
    /\ holder' = Released(t)
    /\ does' = [does EXCEPT ![t] = as]
    /\ step' = [step EXCEPT ![t] = 1]
    /\ run' = [run EXCEPT ![t] = IF as = "failed" THEN @ ELSE 1]
    /\ at' = [at EXCEPT ![t] = FALSE]
    /\ written' = [written EXCEPT ![t] = Untouched]

-----------------------------------------------------------------------------

Begin(t, request) ==
    /\ ~Busy(t)
    /\ request \in {"CloseExpired", "ExpireBatch"} => late
    /\ does' = [does EXCEPT ![t] = request]
    /\ run' = [run EXCEPT ![t] = 1]
    /\ at' = [at EXCEPT ![t] = late]
    /\ UNCHANGED <<row, late, holder, step, written>>

(* The next statement gets its row.                                        *)
Take(t) ==
    /\ Busy(t) /\ ~AllDone(t)
    /\ Fits(t) \/ Line(t).otherwise = "go on"
    /\ Free(t)
    /\ holder' = [holder EXCEPT ![Line(t).row] = t]
    /\ written' = [written EXCEPT ![t][Line(t).row] =
                      IF Fits(t) THEN Line(t).to ELSE "same"]
    /\ at' = [at EXCEPT ![t] = Time(t)]
    /\ step' = [step EXCEPT ![t] = @ + 1]
    /\ UNCHANGED <<row, late, does, run>>

(* The row is not what the function asks for: rolled back.                 *)
Refuse(t) ==
    /\ Busy(t) /\ ~AllDone(t)
    /\ ~Fits(t) /\ Line(t).otherwise = "error"
    /\ Wants(t) => Free(t)
    /\ End(t, "idle")
    /\ UNCHANGED <<row, late>>

Commit(t) ==
    /\ Busy(t)
    /\ ~AllDone(t) => ~Fits(t) /\ Line(t).otherwise = "finish"
    /\ row' = [r \in Rows |->
                  IF written[t][r] = "same" THEN row[r] ELSE written[t][r]]
    /\ End(t, "idle")
    /\ UNCHANGED late

(* Refused for another reason, or the connection is lost.                  *)
BreakOff(t) ==
    /\ Busy(t)
    /\ End(t, "idle")
    /\ UNCHANGED <<row, late>>

(* InTx begins again.                                                      *)
Retry(t) ==
    /\ Busy(t) /\ Deadlocked(t)
    /\ run[t] < MaxRuns /\ <<does[t], Line(t).row>> \notin Disguised
    /\ holder' = Released(t)
    /\ step' = [step EXCEPT ![t] = 1]
    /\ run' = [run EXCEPT ![t] = @ + 1]
    /\ at' = [at EXCEPT ![t] = late]
    /\ written' = [written EXCEPT ![t] = Untouched]
    /\ UNCHANGED <<row, late, does>>

(* InTx has run it often enough, or does not recognise the deadlock.       *)
GiveUp(t) ==
    /\ Busy(t) /\ Deadlocked(t)
    /\ run[t] = MaxRuns \/ <<does[t], Line(t).row>> \in Disguised
    /\ End(t, "failed")
    /\ UNCHANGED <<row, late>>

Expire ==
    /\ row["purchase"] # "absent"
    /\ late' = TRUE
    /\ UNCHANGED <<row, holder, does, step, run, at, written>>

Proceed(t) == Take(t) \/ Refuse(t) \/ Commit(t) \/ Retry(t) \/ GiveUp(t)

LocksNext ==
    \/ Expire
    \/ \E t \in Txs :
          \/ Proceed(t) \/ BreakOff(t)
          \/ \E request \in Offered : Begin(t, request)

LocksSpec == LocksInit /\ [][LocksNext]_lockVars

-----------------------------------------------------------------------------
(* Properties.                                                             *)

LocksTypeOK ==
    /\ row \in [Rows -> Statuses] /\ late \in BOOLEAN
    /\ holder \in [Rows -> Txs \cup {None}]
    /\ does \in [Txs -> Offered \cup {"idle", "failed"}]
    /\ step \in [Txs -> Nat \ {0}] /\ run \in [Txs -> 1 .. MaxRuns]
    /\ at \in [Txs -> BOOLEAN]
    /\ written \in [Txs -> [Rows -> Statuses \cup {"same"}]]

(* However the transactions interleave, wait, lose a deadlock and begin    *)
(* again, what they commit of a purchase and its bill is a life of both    *)
(* that moves them as one.                                                 *)
Life == INSTANCE PurchaseLife WITH purchase <- row["purchase"], bill <- row["order"]

ImplementsLife == Life!Spec

(* Deleting a plan finds every purchase of it that is pending, although    *)
(* purchases are inserted while it looks for them.                         *)
DeletedPlanHasNoPending ==
    row["plan"] = "deleted" => row["purchase"] # "pending"

(* The payment service takes a bill before its purchase and the merchants  *)
(* at both ends, the subscription service and bans take the buyer, the     *)
(* plan and the purchase before the bill.  Each keeps to one order of the  *)
(* rows, through all its functions: whoever is in a deadlock waits for a   *)
(* request of the other kind, and among their own nobody loses one.        *)
BillFirst == {"Ingest", "Supplement", "MarkRefunded"}
PurchaseFirst ==
    {"Purchase", "CancelPurchase", "DeletePlan", "CloseExpired", "BanBuyer"}

DeadlocksCross ==
    \A C \in (SUBSET Txs) \ {{}} :
        Circle(C) => /\ \E t \in C : does[t] \in BillFirst
                     /\ \E t \in C : does[t] \in PurchaseFirst

(* What InTx says of itself (db/sqlc/tx.go): a transaction that lost a     *)
(* deadlock is executed again, so none fails by one before its last run.   *)
RetriedAfterDeadlock == \A t \in Txs : does[t] = "failed" => run[t] = MaxRuns
=============================================================================
