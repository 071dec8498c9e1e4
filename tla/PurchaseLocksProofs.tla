------------------------ MODULE PurchaseLocksProofs ------------------------
(***************************************************************************)
(* Proofs about the transactions that meet on one purchase                 *)
(* (PurchaseLocks), for every number of connections, every set of requests *)
(* and every number of runs.                                               *)
(***************************************************************************)
EXTENDS PurchaseLocks, TLAPS, SequenceTheorems

-----------------------------------------------------------------------------
(* The scripts, statement by statement.                                    *)

(* The two merchants, in the order of their ids.                           *)
First == IF BuyerFirst THEN Lock("buyer") ELSE Lock("billing")
Second == IF BuyerFirst THEN Lock("billing") ELSE Lock("buyer")

LEMMA BothMerchants == BuyerAndBilling = <<First, Second>>
BY DEF BuyerAndBilling, First, Second

PurchaseSold == Find("purchase", {"absent"}, "pending")
BillOpened == Need("order", {"none"}, "pending")
PurchaseFound == Find("purchase", Unpaid, "cancelled")
BillDropped == Adjust("order", Unpaid, "expired")
PurchasePaid == Need("purchase", {"pending"}, "paid")

LEMMA Joined ==
    ASSUME NEW T, NEW s \in Seq(T), NEW u \in Seq(T), NEW w \in Seq(T),
           Len(w) = Len(s) + Len(u),
           \A i \in 1 .. Len(s) : w[i] = s[i],
           \A i \in 1 .. Len(u) : w[Len(s) + i] = u[i]
    PROVE  s \o u = w
<1>0. Len(s) \in Nat /\ Len(u) \in Nat
  OBVIOUS
<1>1. s \o u \in Seq(T) /\ Len(s \o u) = Len(w)
  BY ConcatProperties
<1>2. ASSUME NEW i \in 1 .. Len(w) PROVE (s \o u)[i] = w[i]
  <2>1. CASE i <= Len(s)
    BY <1>0, <2>1, ConcatProperties
  <2>2. CASE ~ (i <= Len(s))
    <3>1. i - Len(s) \in 1 .. Len(u) /\ i = Len(s) + (i - Len(s))
      BY <1>0, <2>2
    <3>2. w[Len(s) + (i - Len(s))] = u[i - Len(s)]
      BY <3>1
    <3>3. (s \o u)[i] = u[i - Len(s)]
      BY <1>0, <2>2, ConcatProperties
    <3> QED BY <3>1, <3>2, <3>3
  <2> QED BY <2>1, <2>2
<1> QED BY <1>1, <1>2, SeqEqual

LEMMA JoinedOneTwo ==
    ASSUME NEW a, NEW b, NEW c
    PROVE  <<a>> \o <<b, c>> = <<a, b, c>>
<1> DEFINE T == {a, b, c}
           s == <<a>>
           u == <<b, c>>
           w == <<a, b, c>>
<1>1. s \in Seq(T) /\ u \in Seq(T) /\ w \in Seq(T)
  OBVIOUS
<1>2. Len(w) = Len(s) + Len(u)
  OBVIOUS
<1>3. \A i \in 1 .. Len(s) : w[i] = s[i]
  OBVIOUS
<1>4. \A i \in 1 .. Len(u) : w[Len(s) + i] = u[i]
  OBVIOUS
<1> HIDE DEF T, s, u, w
<1>5. s \o u = w
  BY <1>1, <1>2, <1>3, <1>4, Joined
<1> QED BY <1>5 DEF s, u, w

LEMMA JoinedTwoTwo ==
    ASSUME NEW a, NEW b, NEW c, NEW d
    PROVE  <<a, b>> \o <<c, d>> = <<a, b, c, d>>
<1> DEFINE T == {a, b, c, d}
           s == <<a, b>>
           u == <<c, d>>
           w == <<a, b, c, d>>
<1>1. s \in Seq(T) /\ u \in Seq(T) /\ w \in Seq(T)
  OBVIOUS
<1>2. Len(w) = Len(s) + Len(u)
  OBVIOUS
<1>3. \A i \in 1 .. Len(s) : w[i] = s[i]
  OBVIOUS
<1>4. \A i \in 1 .. Len(u) : w[Len(s) + i] = u[i]
  OBVIOUS
<1> HIDE DEF T, s, u, w
<1>5. s \o u = w
  BY <1>1, <1>2, <1>3, <1>4, Joined
<1> QED BY <1>5 DEF s, u, w

LEMMA JoinedTwoFour ==
    ASSUME NEW a, NEW b, NEW c, NEW d, NEW e, NEW f
    PROVE  <<a, b>> \o <<c, d, e, f>> = <<a, b, c, d, e, f>>
<1> DEFINE T == {a, b, c, d, e, f}
           s == <<a, b>>
           u == <<c, d, e, f>>
           w == <<a, b, c, d, e, f>>
<1>1. s \in Seq(T) /\ u \in Seq(T) /\ w \in Seq(T)
  OBVIOUS
<1>2. Len(w) = Len(s) + Len(u)
  OBVIOUS
<1>3. \A i \in 1 .. Len(s) : w[i] = s[i]
  OBVIOUS
<1>4. \A i \in 1 .. Len(u) : w[Len(s) + i] = u[i]
  OBVIOUS
<1> HIDE DEF T, s, u, w
<1>5. s \o u = w
  BY <1>1, <1>2, <1>3, <1>4, Joined
<1> QED BY <1>5 DEF s, u, w

LEMMA Scripts ==
    /\ Script["Purchase"] =
         <<First, Second, OnSale, Lock("sub"), PurchaseSold, BillOpened>>
    /\ Script["CancelPurchase"] =
         <<Lock("buyer"), Need("purchase", Unpaid, "cancelled"), BillDropped>>
    /\ Script["DeletePlan"] =
         <<Need("plan", {"sold"}, "deleted"), PurchaseFound, BillDropped>>
    /\ Script["CloseExpired"] =
         <<Lock("buyer"), Find("purchase", {"overdue"}, "expired")>>
    /\ Script["BanBuyer"] = <<First, Second, PurchaseFound, BillDropped>>
    /\ Script["BanBilling"] =
         <<Lock("billing"), Find("order", Unpaid, "expired")>>
    /\ Script["ExpireBatch"] =
         <<Lock("billing"), Find("order", {"overdue"}, "expired")>>
    /\ Script["Ingest"] =
         <<Lock("billing"), Find("order", {"pending"}, "paid"), PurchasePaid,
           Lock("sub"), Lock("buyer"), Lock("plan")>>
    /\ Script["Supplement"] =
         <<Lock("billing"), Need("order", Unpaid \cup {"expired"}, "paid"),
           PurchasePaid, Lock("sub"), Lock("buyer"), Lock("plan")>>
    /\ Script["MarkRefunded"] =
         <<Lock("billing"), Need("order", {"paid"}, "refunded"),
           Need("purchase", {"paid"}, "refunded"), Lock("sub")>>
<1>1. Script["Purchase"] =
        BuyerAndBilling \o <<OnSale, Lock("sub"), PurchaseSold, BillOpened>>
  BY DEF Script, Purchase, Requests, PurchaseSold, BillOpened
<1>2. Script["DeletePlan"] = <<Need("plan", {"sold"}, "deleted")>> \o CancelPending
  BY DEF Script, DeletePlan, Requests
<1>3. Script["BanBuyer"] = BuyerAndBilling \o CancelPending
  BY DEF Script, BanBuyer, Requests
<1>4. CancelPending = <<PurchaseFound, BillDropped>>
  BY DEF CancelPending, PurchaseFound, BillDropped
<1>5. Script["Ingest"] = <<Lock("billing"), Find("order", {"pending"}, "paid")>> \o PaidTx
  BY DEF Script, Ingest, Requests
<1>6. Script["Supplement"] =
        <<Lock("billing"), Need("order", Unpaid \cup {"expired"}, "paid")>> \o PaidTx
  BY DEF Script, Supplement, Requests
<1>7. PaidTx = <<PurchasePaid, Lock("sub"), Lock("buyer"), Lock("plan")>>
  BY DEF PaidTx, PurchasePaid
<1>8. Script["Purchase"] =
         <<First, Second, OnSale, Lock("sub"), PurchaseSold, BillOpened>>
  BY <1>1, BothMerchants, JoinedTwoFour
<1>9. Script["DeletePlan"] =
         <<Need("plan", {"sold"}, "deleted"), PurchaseFound, BillDropped>>
  BY <1>2, <1>4, JoinedOneTwo
<1>10. Script["BanBuyer"] = <<First, Second, PurchaseFound, BillDropped>>
  BY <1>3, <1>4, BothMerchants, JoinedTwoTwo
<1>11. Script["Ingest"] =
         <<Lock("billing"), Find("order", {"pending"}, "paid"), PurchasePaid,
           Lock("sub"), Lock("buyer"), Lock("plan")>>
  BY <1>5, <1>7, JoinedTwoFour
<1>12. Script["Supplement"] =
         <<Lock("billing"), Need("order", Unpaid \cup {"expired"}, "paid"),
           PurchasePaid, Lock("sub"), Lock("buyer"), Lock("plan")>>
  BY <1>6, <1>7, JoinedTwoFour
<1>13. Script["CancelPurchase"] =
         <<Lock("buyer"), Need("purchase", Unpaid, "cancelled"), BillDropped>>
  BY DEF Script, CancelPurchase, Requests, BillDropped
<1>14. Script["CloseExpired"] =
         <<Lock("buyer"), Find("purchase", {"overdue"}, "expired")>>
  BY DEF Script, CloseExpired, Requests
<1>15. Script["BanBilling"] = <<Lock("billing"), Find("order", Unpaid, "expired")>>
  BY DEF Script, BanBilling, Requests
<1>16. Script["ExpireBatch"] = <<Lock("billing"), Find("order", {"overdue"}, "expired")>>
  BY DEF Script, ExpireBatch, Requests
<1>17. Script["MarkRefunded"] =
         <<Lock("billing"), Need("order", {"paid"}, "refunded"),
           Need("purchase", {"paid"}, "refunded"), Lock("sub")>>
  BY DEF Script, MarkRefunded, Requests
<1> QED BY <1>8, <1>9, <1>10, <1>11, <1>12, <1>13, <1>14, <1>15, <1>16, <1>17

(* A script locks each row once, and never writes that something is        *)
(* overdue.                                                                *)
Whole(s) ==
    /\ Len(s) \in Nat
    /\ \A i \in 1 .. Len(s) : s[i] \in Statement /\ s[i].to # "overdue"
    /\ \A i, j \in 1 .. Len(s) : s[i].row = s[j].row => i = j

Sound == {L \in Statement : L.to # "overdue"}

LEMMA WholeTwo ==
    ASSUME NEW a \in Sound, NEW b \in Sound,
           a.row # b.row
    PROVE  Whole(<<a, b>>)
BY DEF Whole, Sound

LEMMA WholeThree ==
    ASSUME NEW a \in Sound, NEW b \in Sound, NEW c \in Sound,
           a.row # b.row, a.row # c.row, b.row # c.row
    PROVE  Whole(<<a, b, c>>)
BY DEF Whole, Sound

LEMMA WholeFour ==
    ASSUME NEW a \in Sound, NEW b \in Sound, NEW c \in Sound, NEW d \in Sound,
           a.row # b.row, a.row # c.row, a.row # d.row, b.row # c.row,
           b.row # d.row, c.row # d.row
    PROVE  Whole(<<a, b, c, d>>)
BY DEF Whole, Sound

LEMMA WholeSix ==
    ASSUME NEW a \in Sound, NEW b \in Sound, NEW c \in Sound,
           NEW d \in Sound, NEW e \in Sound, NEW f \in Sound,
           a.row # b.row, a.row # c.row, a.row # d.row, a.row # e.row,
           a.row # f.row, b.row # c.row, b.row # d.row, b.row # e.row,
           b.row # f.row, c.row # d.row, c.row # e.row, c.row # f.row,
           d.row # e.row, d.row # f.row, e.row # f.row
    PROVE  Whole(<<a, b, c, d, e, f>>)
BY DEF Whole, Sound

LEMMA LockSound == \A r \in Rows : Lock(r) \in Sound /\ Lock(r).row = r
BY DEF Sound, Statement, Lock, Statuses

LEMMA OthersSound ==
    ASSUME NEW r \in Rows, NEW S \in SUBSET Statuses, NEW to \in Statuses \cup {"same"},
           to # "overdue"
    PROVE  /\ Need(r, S, to) \in Sound /\ Need(r, S, to).row = r
           /\ Find(r, S, to) \in Sound /\ Find(r, S, to).row = r
           /\ Adjust(r, S, to) \in Sound /\ Adjust(r, S, to).row = r
<1>1. Need(r, S, to) \in Sound /\ Need(r, S, to).row = r
  BY DEF Sound, Statement, Need
<1>2. Find(r, S, to) \in Sound /\ Find(r, S, to).row = r
  BY DEF Sound, Statement, Find
<1>3. Adjust(r, S, to) \in Sound /\ Adjust(r, S, to).row = r
  BY DEF Sound, Statement, Adjust
<1> QED BY <1>1, <1>2, <1>3

LEMMA ScriptsWhole == \A q \in Requests : Whole(Script[q])
<1>1. /\ Lock("buyer") \in Sound /\ Lock("buyer").row = "buyer"
      /\ Lock("billing") \in Sound /\ Lock("billing").row = "billing"
      /\ Lock("sub") \in Sound /\ Lock("sub").row = "sub"
      /\ Lock("plan") \in Sound /\ Lock("plan").row = "plan"
  BY LockSound DEF Rows
<1>2. /\ First \in Sound /\ Second \in Sound /\ First.row # Second.row
      /\ First.row \in {"buyer", "billing"} /\ Second.row \in {"buyer", "billing"}
  BY <1>1 DEF First, Second
<1>3. /\ OnSale \in Sound /\ OnSale.row = "plan"
      /\ Need("plan", {"sold"}, "deleted") \in Sound
      /\ Need("plan", {"sold"}, "deleted").row = "plan"
  BY OthersSound DEF OnSale, Rows, Statuses
<1>4. /\ PurchaseSold \in Sound /\ PurchaseSold.row = "purchase"
      /\ PurchaseFound \in Sound /\ PurchaseFound.row = "purchase"
      /\ PurchasePaid \in Sound /\ PurchasePaid.row = "purchase"
  BY OthersSound DEF PurchaseSold, PurchaseFound, PurchasePaid, Rows, Statuses, Unpaid
<1>5. /\ Need("purchase", Unpaid, "cancelled") \in Sound
      /\ Need("purchase", Unpaid, "cancelled").row = "purchase"
      /\ Find("purchase", {"overdue"}, "expired") \in Sound
      /\ Find("purchase", {"overdue"}, "expired").row = "purchase"
      /\ Need("purchase", {"paid"}, "refunded") \in Sound
      /\ Need("purchase", {"paid"}, "refunded").row = "purchase"
  BY OthersSound DEF Rows, Statuses, Unpaid
<1>6. /\ BillOpened \in Sound /\ BillOpened.row = "order"
      /\ BillDropped \in Sound /\ BillDropped.row = "order"
  BY OthersSound DEF BillOpened, BillDropped, Rows, Statuses, Unpaid
<1>7. /\ Find("order", Unpaid, "expired") \in Sound
      /\ Find("order", Unpaid, "expired").row = "order"
      /\ Find("order", {"overdue"}, "expired") \in Sound
      /\ Find("order", {"overdue"}, "expired").row = "order"
      /\ Find("order", {"pending"}, "paid") \in Sound
      /\ Find("order", {"pending"}, "paid").row = "order"
  BY OthersSound DEF Rows, Statuses, Unpaid
<1>8. /\ Need("order", Unpaid \cup {"expired"}, "paid") \in Sound
      /\ Need("order", Unpaid \cup {"expired"}, "paid").row = "order"
      /\ Need("order", {"paid"}, "refunded") \in Sound
      /\ Need("order", {"paid"}, "refunded").row = "order"
  BY OthersSound DEF Rows, Statuses, Unpaid
<1>9. Whole(Script["Purchase"])
  <2>1. Whole(<<First, Second, OnSale, Lock("sub"), PurchaseSold, BillOpened>>)
    BY <1>1, <1>2, <1>3, <1>4, <1>6, WholeSix
  <2> QED BY <2>1, Scripts
<1>10. Whole(Script["CancelPurchase"]) /\ Whole(Script["DeletePlan"])
  BY <1>1, <1>3, <1>4, <1>5, <1>6, Scripts, WholeThree
<1>11. /\ Whole(Script["CloseExpired"]) /\ Whole(Script["BanBilling"])
       /\ Whole(Script["ExpireBatch"])
  BY <1>1, <1>5, <1>7, Scripts, WholeTwo
<1>12. Whole(Script["BanBuyer"]) /\ Whole(Script["MarkRefunded"])
  BY <1>1, <1>2, <1>4, <1>5, <1>6, <1>8, Scripts, WholeFour
<1>13. ASSUME NEW bill \in Sound, bill.row = "order"
       PROVE  Whole(<<Lock("billing"), bill, PurchasePaid, Lock("sub"), Lock("buyer"),
                      Lock("plan")>>)
  BY <1>1, <1>4, <1>13, WholeSix
<1>14. Whole(Script["Ingest"])
  BY <1>7, <1>13, Scripts
<1>15. Whole(Script["Supplement"])
  BY <1>8, <1>13, Scripts
<1> QED BY <1>9, <1>10, <1>11, <1>12, <1>14, <1>15 DEF Requests

-----------------------------------------------------------------------------
(* The inductive invariant.                                                *)

(* That a row is overdue is a judgement and is not written anywhere.       *)
RowsTyped ==
    /\ LocksTypeOK
    /\ \A r \in Rows : row[r] # "overdue"
    /\ \A t \in Txs, r \in Rows : written[t][r] # "overdue"

(* What a transaction may have taken row r for, early or late.             *)
Judgements(r) == IF row[r] = "pending" THEN {"pending", "overdue"} ELSE {row[r]}

(* Transaction t is past statement L: it has the row, which still is what  *)
(* it took it for.                                                         *)
Past(t, L) ==
    /\ holder[L.row] = t
    /\ \E s \in Judgements(L.row) :
          /\ s \in L.need \/ L.otherwise = "go on"
          /\ written[t][L.row] = IF s \in L.need THEN L.to ELSE "same"

Passed(t) == 1 .. (step[t] - 1)

(* A transaction has all rows of the statements it is past, and has        *)
(* written nothing else.                                                   *)
RowsHeld ==
    \A t \in Txs :
        /\ step[t] > 1 => Busy(t)
        /\ Busy(t) => step[t] <= Len(Script[does[t]]) + 1
        /\ \A i \in Passed(t) : Past(t, Script[does[t]][i])
        /\ \A r \in Rows : written[t][r] # "same" =>
              \E i \in Passed(t) : Script[does[t]][i].row = r

LocksInv == RowsTyped /\ RowsHeld

LEMMA InitLocks == LocksInit => LocksInv
<1> SUFFICES ASSUME LocksInit PROVE LocksInv
  OBVIOUS
<1>1. \A r \in Rows : row[r] \in {"sold", "absent", "none", "exists"}
  BY DEF LocksInit
<1>2. row \in [Rows -> Statuses]
  BY <1>1 DEF LocksInit, Statuses
<1>3. /\ late \in BOOLEAN /\ at \in [Txs -> BOOLEAN]
      /\ holder \in [Rows -> Txs \cup {None}]
      /\ step \in [Txs -> Nat \ {0}]
  <2>1. late \in BOOLEAN /\ at \in [Txs -> BOOLEAN]
    BY DEF LocksInit
  <2>2. holder \in [Rows -> Txs \cup {None}]
    BY DEF LocksInit
  <2>3. step \in [Txs -> Nat \ {0}]
    BY DEF LocksInit
  <2> QED BY <2>1, <2>2, <2>3
<1>9. does \in [Txs -> Offered \cup {"idle", "failed"}]
  BY DEF LocksInit
<1>4. run \in [Txs -> 1 .. MaxRuns]
  BY LocksAssumption DEF LocksInit
<1>5. written \in [Txs -> [Rows -> Statuses \cup {"same"}]]
  BY DEF LocksInit, Untouched
<1>6. \A t \in Txs : written[t] = Untouched /\ step[t] = 1
  BY DEF LocksInit
<1>7. RowsTyped
  BY <1>1, <1>2, <1>3, <1>4, <1>5, <1>6, <1>9 DEF RowsTyped, LocksTypeOK, Untouched
<1>8. RowsHeld
  <2> SUFFICES ASSUME NEW t \in Txs
               PROVE  /\ step[t] > 1 => Busy(t)
                      /\ Busy(t) => step[t] <= Len(Script[does[t]]) + 1
                      /\ Passed(t) = {}
                      /\ \A r \in Rows : written[t][r] = "same"
    BY DEF RowsHeld
  <2>1. does[t] = "idle" /\ "idle" \notin Offered
    BY LocksAssumption DEF LocksInit, Requests
  <2> QED BY <1>6, <2>1 DEF Busy, Passed, Untouched
<1> QED BY <1>7, <1>8 DEF LocksInv

LEMMA PassedLines ==
    ASSUME LocksInv, NEW t \in Txs, NEW i \in Passed(t)
    PROVE  /\ Busy(t) /\ does[t] \in Requests
           /\ i \in 1 .. Len(Script[does[t]])
           /\ Script[does[t]][i].row \in Rows
<1>1. step[t] \in Nat /\ step[t] > 1 /\ i \in Nat /\ i >= 1 /\ i <= step[t] - 1
  BY DEF LocksInv, RowsTyped, LocksTypeOK, Passed
<1>2. Busy(t) /\ step[t] <= Len(Script[does[t]]) + 1
  BY <1>1 DEF LocksInv, RowsHeld
<1>3. does[t] \in Requests
  BY <1>2, LocksAssumption DEF Busy
<1>4. Whole(Script[does[t]])
  BY <1>3, ScriptsWhole
<1>5. Len(Script[does[t]]) \in Nat
  BY <1>4 DEF Whole
<1>6. i \in 1 .. Len(Script[does[t]])
  BY <1>1, <1>2, <1>5
<1>7. Script[does[t]][i] \in Statement
  BY <1>4, <1>6 DEF Whole
<1> QED BY <1>2, <1>3, <1>6, <1>7 DEF Statement

(* A transaction that ends, or begins again, leaves the others what they   *)
(* have.                                                                   *)
LEMMA OthersKeep ==
    ASSUME LocksInv, NEW t \in Txs, NEW u \in Txs, u # t,
           holder' = Released(t),
           \A r \in Rows : holder[r] = u => row'[r] = row[r],
           does'[u] = does[u], step'[u] = step[u], written'[u] = written[u]
    PROVE  /\ step'[u] > 1 => Busy(u)'
           /\ Busy(u)' => step'[u] <= Len(Script[does'[u]]) + 1
           /\ \A i \in Passed(u)' : Past(u, Script[does[u]][i])'
           /\ \A r \in Rows : written'[u][r] # "same" =>
                 \E i \in Passed(u)' : Script[does'[u]][i].row = r
<1>1. /\ step[u] > 1 => Busy(u)
      /\ Busy(u) => step[u] <= Len(Script[does[u]]) + 1
      /\ \A i \in Passed(u) : Past(u, Script[does[u]][i])
      /\ \A r \in Rows : written[u][r] # "same" =>
            \E i \in Passed(u) : Script[does[u]][i].row = r
  BY DEF LocksInv, RowsHeld
<1>2. Passed(u)' = Passed(u) /\ (Busy(u)' <=> Busy(u))
  BY DEF Passed, Busy
<1>3. \A i \in Passed(u) : Script[does[u]][i].row \in Rows
  BY PassedLines
<1>4. ASSUME NEW i \in Passed(u) PROVE Past(u, Script[does[u]][i])'
  <2> DEFINE r == Script[does[u]][i].row
  <2>1. Past(u, Script[does[u]][i]) /\ r \in Rows
    BY <1>1, <1>3
  <2>2. holder[r] = u
    BY <2>1 DEF Past
  <2>3. holder'[r] = u /\ row'[r] = row[r]
    BY <2>1, <2>2 DEF Released
  <2> QED BY <2>1, <2>3 DEF Past, Judgements
<1> QED BY <1>1, <1>2, <1>4

LEMMA NotBusyEnds == "idle" \notin Offered /\ "failed" \notin Offered
BY LocksAssumption DEF Requests

(* Every way in which a transaction ends.                                  *)
LEMMA EndKeeps ==
    ASSUME LocksInv, NEW t \in Txs, NEW as \in {"idle", "failed"}, End(t, as),
           late' \in BOOLEAN, row' \in [Rows -> Statuses],
           \A r \in Rows : row'[r] # "overdue",
           \A r \in Rows : row'[r] = row[r] \/ holder[r] = t
    PROVE  LocksInv'
<1>1. LocksTypeOK
  BY DEF LocksInv, RowsTyped
<1>2. /\ holder' = Released(t) /\ does' = [does EXCEPT ![t] = as]
      /\ step' = [step EXCEPT ![t] = 1]
      /\ run' = [run EXCEPT ![t] = IF as = "failed" THEN @ ELSE 1]
      /\ at' = [at EXCEPT ![t] = FALSE]
      /\ written' = [written EXCEPT ![t] = Untouched]
  BY DEF End
<1>3. holder' \in [Rows -> Txs \cup {None}]
  BY <1>1, <1>2 DEF LocksTypeOK, Released
<1>4. does' \in [Txs -> Offered \cup {"idle", "failed"}]
  BY <1>1, <1>2 DEF LocksTypeOK
<1>5. step' \in [Txs -> Nat \ {0}]
  BY <1>1, <1>2 DEF LocksTypeOK
<1>6. run' \in [Txs -> 1 .. MaxRuns]
  <2>1. 1 \in 1 .. MaxRuns
    BY LocksAssumption
  <2> QED BY <1>1, <1>2, <2>1 DEF LocksTypeOK
<1>7. at' \in [Txs -> BOOLEAN]
  BY <1>1, <1>2 DEF LocksTypeOK
<1>8. Untouched \in [Rows -> Statuses \cup {"same"}]
  BY DEF Untouched
<1>9. written' \in [Txs -> [Rows -> Statuses \cup {"same"}]]
  BY <1>1, <1>2, <1>8 DEF LocksTypeOK
<1>10. \A u \in Txs, r \in Rows : written'[u][r] # "overdue"
  BY <1>1, <1>2 DEF LocksTypeOK, LocksInv, RowsTyped, Untouched
<1>11. RowsTyped'
  BY <1>3, <1>4, <1>5, <1>6, <1>7, <1>9, <1>10 DEF RowsTyped, LocksTypeOK
<1>12. step'[t] = 1 /\ ~Busy(t)' /\ \A r \in Rows : written'[t][r] = "same"
  BY <1>1, <1>2, NotBusyEnds DEF LocksTypeOK, Busy, Untouched
<1>13. RowsHeld'
  <2> SUFFICES ASSUME NEW u \in Txs
               PROVE  /\ step'[u] > 1 => Busy(u)'
                      /\ Busy(u)' => step'[u] <= Len(Script[does'[u]]) + 1
                      /\ \A i \in Passed(u)' : Past(u, Script[does[u]][i])'
                      /\ \A r \in Rows : written'[u][r] # "same" =>
                            \E i \in Passed(u)' : Script[does'[u]][i].row = r
    BY DEF RowsHeld
  <2>1. CASE u = t
    <3>1. Passed(u)' = {} /\ step'[u] = 1 /\ ~Busy(u)'
      BY <1>12, <2>1 DEF Passed, Busy
    <3>2. \A r \in Rows : written'[u][r] = "same"
      BY <1>12, <2>1
    <3> QED BY <3>1, <3>2
  <2>2. CASE u # t
    <3>1. does'[u] = does[u] /\ step'[u] = step[u] /\ written'[u] = written[u]
      BY <1>1, <1>2, <2>2 DEF LocksTypeOK
    <3>2. \A r \in Rows : holder[r] = u => row'[r] = row[r]
      BY <2>2
    <3> QED BY <1>2, <2>2, <3>1, <3>2, OthersKeep
  <2> QED BY <2>1, <2>2
<1> QED BY <1>11, <1>13 DEF LocksInv

LEMMA RetryKeeps ==
    ASSUME LocksInv, NEW t \in Txs, Retry(t)
    PROVE  LocksInv'
<1>1. LocksTypeOK
  BY DEF LocksInv, RowsTyped
<1>2. /\ holder' = Released(t) /\ step' = [step EXCEPT ![t] = 1]
      /\ run[t] < MaxRuns /\ run' = [run EXCEPT ![t] = @ + 1]
      /\ at' = [at EXCEPT ![t] = late]
      /\ written' = [written EXCEPT ![t] = Untouched]
      /\ UNCHANGED <<row, late, does>>
      /\ Busy(t)
  BY DEF Retry
<1>3. holder' \in [Rows -> Txs \cup {None}]
  BY <1>1, <1>2 DEF LocksTypeOK, Released
<1>4. step' \in [Txs -> Nat \ {0}]
  BY <1>1, <1>2 DEF LocksTypeOK
<1>5. run' \in [Txs -> 1 .. MaxRuns]
  <2>1. run[t] \in 1 .. MaxRuns
    BY <1>1 DEF LocksTypeOK
  <2>2. run[t] + 1 \in 1 .. MaxRuns
    BY <1>2, <2>1, LocksAssumption
  <2> QED BY <1>1, <1>2, <2>2 DEF LocksTypeOK
<1>6. at' \in [Txs -> BOOLEAN]
  BY <1>1, <1>2 DEF LocksTypeOK
<1>7. Untouched \in [Rows -> Statuses \cup {"same"}]
  BY DEF Untouched
<1>8. written' \in [Txs -> [Rows -> Statuses \cup {"same"}]]
  BY <1>1, <1>2, <1>7 DEF LocksTypeOK
<1>9. \A u \in Txs, r \in Rows : written'[u][r] # "overdue"
  BY <1>1, <1>2 DEF LocksTypeOK, LocksInv, RowsTyped, Untouched
<1>10. RowsTyped'
  BY <1>1, <1>2, <1>3, <1>4, <1>5, <1>6, <1>8, <1>9 DEF RowsTyped, LocksTypeOK, LocksInv
<1>11. step'[t] = 1 /\ Busy(t)' /\ \A r \in Rows : written'[t][r] = "same"
  BY <1>1, <1>2 DEF LocksTypeOK, Busy, Untouched
<1>12. Len(Script[does'[t]]) \in Nat
  BY <1>1, <1>2, LocksAssumption, ScriptsWhole DEF Busy, Whole
<1>13. RowsHeld'
  <2> SUFFICES ASSUME NEW u \in Txs
               PROVE  /\ step'[u] > 1 => Busy(u)'
                      /\ Busy(u)' => step'[u] <= Len(Script[does'[u]]) + 1
                      /\ \A i \in Passed(u)' : Past(u, Script[does[u]][i])'
                      /\ \A r \in Rows : written'[u][r] # "same" =>
                            \E i \in Passed(u)' : Script[does'[u]][i].row = r
    BY DEF RowsHeld
  <2>1. CASE u = t
    <3>1. Passed(u)' = {}
      BY <1>11, <2>1 DEF Passed
    <3> QED BY <1>11, <1>12, <2>1, <3>1
  <2>2. CASE u # t
    <3>1. does'[u] = does[u] /\ step'[u] = step[u] /\ written'[u] = written[u]
      BY <1>1, <1>2, <2>2 DEF LocksTypeOK
    <3> QED BY <1>2, <2>2, <3>1, OthersKeep
  <2> QED BY <2>1, <2>2
<1> QED BY <1>10, <1>13 DEF LocksInv

(* Whoever is not concerned keeps what it has.                             *)
LEMMA Same ==
    ASSUME LocksInv, NEW u \in Txs, does'[u] = does[u],
           UNCHANGED <<row, holder, step, written>>
    PROVE  /\ step'[u] > 1 => Busy(u)'
           /\ Busy(u)' => step'[u] <= Len(Script[does'[u]]) + 1
           /\ \A i \in Passed(u)' : Past(u, Script[does[u]][i])'
           /\ \A r \in Rows : written'[u][r] # "same" =>
                 \E i \in Passed(u)' : Script[does'[u]][i].row = r
<1>1. Passed(u)' = Passed(u) /\ (Busy(u)' <=> Busy(u))
  BY DEF Passed, Busy
<1>2. \A i \in Passed(u) : Past(u, Script[does[u]][i]) =>
                            Past(u, Script[does[u]][i])'
  BY DEF Past, Judgements
<1>3. /\ step[u] > 1 => Busy(u)
      /\ Busy(u) => step[u] <= Len(Script[does[u]]) + 1
      /\ \A i \in Passed(u) : Past(u, Script[does[u]][i])
      /\ \A r \in Rows : written[u][r] # "same" =>
            \E i \in Passed(u) : Script[does[u]][i].row = r
  BY DEF LocksInv, RowsHeld
<1> QED BY <1>1, <1>2, <1>3

LEMMA BeginKeeps ==
    ASSUME LocksInv, NEW t \in Txs, NEW request \in Offered, Begin(t, request)
    PROVE  LocksInv'
<1>1. LocksTypeOK
  BY DEF LocksInv, RowsTyped
<1>2. /\ ~Busy(t) /\ does' = [does EXCEPT ![t] = request]
      /\ run' = [run EXCEPT ![t] = 1] /\ at' = [at EXCEPT ![t] = late]
      /\ UNCHANGED <<row, late, holder, step, written>>
  BY DEF Begin
<1>3. does' \in [Txs -> Offered \cup {"idle", "failed"}]
  BY <1>1, <1>2 DEF LocksTypeOK
<1>4. run' \in [Txs -> 1 .. MaxRuns]
  <2>1. 1 \in 1 .. MaxRuns
    BY LocksAssumption
  <2> QED BY <1>1, <1>2, <2>1 DEF LocksTypeOK
<1>5. at' \in [Txs -> BOOLEAN]
  BY <1>1, <1>2 DEF LocksTypeOK
<1>6. RowsTyped'
  BY <1>1, <1>2, <1>3, <1>4, <1>5 DEF RowsTyped, LocksTypeOK, LocksInv
<1>7. step[t] = 1 /\ Passed(t) = {}
  <2>1. step[t] \in Nat \ {0} /\ ~(step[t] > 1)
    BY <1>1, <1>2 DEF LocksTypeOK, LocksInv, RowsHeld
  <2> QED BY <2>1 DEF Passed
<1>8. Len(Script[does'[t]]) \in Nat /\ Busy(t)'
  BY <1>1, <1>2, LocksAssumption, ScriptsWhole DEF Busy, Whole, LocksTypeOK
<1>9. RowsHeld'
  <2> SUFFICES ASSUME NEW u \in Txs
               PROVE  /\ step'[u] > 1 => Busy(u)'
                      /\ Busy(u)' => step'[u] <= Len(Script[does'[u]]) + 1
                      /\ \A i \in Passed(u)' : Past(u, Script[does[u]][i])'
                      /\ \A r \in Rows : written'[u][r] # "same" =>
                            \E i \in Passed(u)' : Script[does'[u]][i].row = r
    BY DEF RowsHeld
  <2>1. CASE u = t
    <3>1. Passed(u)' = {}
      BY <1>2, <1>7, <2>1 DEF Passed
    <3>2. \A r \in Rows : written[t][r] = "same"
      BY <1>7 DEF LocksInv, RowsHeld
    <3> QED BY <1>2, <1>7, <1>8, <2>1, <3>1, <3>2
  <2>2. CASE u # t
    <3>1. does'[u] = does[u]
      BY <1>1, <1>2, <2>2 DEF LocksTypeOK
    <3> QED BY <1>2, <3>1, Same
  <2> QED BY <2>1, <2>2
<1> QED BY <1>6, <1>9 DEF LocksInv

LEMMA ExpireKeeps ==
    ASSUME LocksInv, Expire PROVE LocksInv'
<1>1. late' = TRUE /\ UNCHANGED <<row, holder, does, step, run, at, written>>
  BY DEF Expire
<1>2. RowsTyped'
  BY <1>1 DEF LocksInv, RowsTyped, LocksTypeOK
<1>3. RowsHeld'
  <2> SUFFICES ASSUME NEW u \in Txs
               PROVE  /\ step'[u] > 1 => Busy(u)'
                      /\ Busy(u)' => step'[u] <= Len(Script[does'[u]]) + 1
                      /\ \A i \in Passed(u)' : Past(u, Script[does[u]][i])'
                      /\ \A r \in Rows : written'[u][r] # "same" =>
                            \E i \in Passed(u)' : Script[does'[u]][i].row = r
    BY DEF RowsHeld
  <2> QED BY <1>1, Same DEF LocksInv, RowsHeld
<1> QED BY <1>2, <1>3 DEF LocksInv

(* The statement that has its row becomes one that is passed.              *)
LEMMA TakeKeeps ==
    ASSUME LocksInv, NEW t \in Txs, Take(t)
    PROVE  LocksInv'
<1>0. PICK L : L = Line(t)
  OBVIOUS
<1>1. LocksTypeOK
  BY DEF LocksInv, RowsTyped
<1>2. /\ Busy(t) /\ ~AllDone(t) /\ Free(t)
      /\ Fits(t) \/ L.otherwise = "go on"
      /\ holder' = [holder EXCEPT ![L.row] = t]
      /\ written' = [written EXCEPT ![t][L.row] = IF Fits(t) THEN L.to ELSE "same"]
      /\ at' = [at EXCEPT ![t] = Time(t)]
      /\ step' = [step EXCEPT ![t] = @ + 1]
      /\ UNCHANGED <<row, late, does, run>>
  BY <1>0 DEF Take
<1>3. does[t] \in Requests /\ Whole(Script[does[t]]) /\ step[t] \in Nat \ {0}
  BY <1>1, <1>2, LocksAssumption, ScriptsWhole DEF Busy, LocksTypeOK
<1>4. /\ Len(Script[does[t]]) \in Nat /\ step[t] \in 1 .. Len(Script[does[t]])
      /\ L = Script[does[t]][step[t]]
  <2>1. Len(Script[does[t]]) \in Nat
    BY <1>3 DEF Whole
  <2>3. PICK n \in Nat : n = Len(Script[does[t]])
    BY <2>1
  <2>4. ~ (step[t] > n)
    BY <1>2, <2>3 DEF AllDone
  <2>2. step[t] <= Len(Script[does[t]])
    BY <1>3, <2>3, <2>4
  <2> QED BY <1>0, <1>3, <2>1, <2>2 DEF Line
<1>5. L \in Statement /\ L.to # "overdue" /\ L.row \in Rows
      /\ L.to \in Statuses \cup {"same"}
  BY <1>3, <1>4 DEF Whole, Statement
<1>6. Seen(t) \in Judgements(L.row)
  BY <1>0 DEF Seen, Judgements
<1>. PICK w : w = IF Fits(t) THEN L.to ELSE "same"
  OBVIOUS
<1>7. w \in Statuses \cup {"same"} /\ w # "overdue"
  BY <1>5
<1>8. /\ Seen(t) \in L.need \/ L.otherwise = "go on"
      /\ w = IF Seen(t) \in L.need THEN L.to ELSE "same"
  BY <1>0, <1>2 DEF Fits
<1>9. Time(t) \in BOOLEAN
  BY <1>1 DEF Time, LocksTypeOK
<1>10. written' = [written EXCEPT ![t][L.row] = w]
  BY <1>2
<1>11. holder[L.row] \in {None, t}
  BY <1>0, <1>2 DEF Free
<1>12. /\ written'[t] = [written[t] EXCEPT ![L.row] = w]
       /\ \A u \in Txs : u # t => written'[u] = written[u]
       /\ step'[t] = step[t] + 1 /\ \A u \in Txs : u # t => step'[u] = step[u]
       /\ holder'[L.row] = t /\ \A r \in Rows : r # L.row => holder'[r] = holder[r]
  BY <1>1, <1>2, <1>5, <1>10 DEF LocksTypeOK
<1>13. written'[t][L.row] = w /\ \A r \in Rows : r # L.row => written'[t][r] = written[t][r]
  BY <1>1, <1>5, <1>12 DEF LocksTypeOK
<1>14. RowsTyped'
  <2>1. holder' \in [Rows -> Txs \cup {None}]
    BY <1>1, <1>2 DEF LocksTypeOK
  <2>2. at' \in [Txs -> BOOLEAN]
    BY <1>1, <1>2, <1>9 DEF LocksTypeOK
  <2>6. step[t] + 1 \in Nat \ {0}
    BY <1>3
  <2>3. step' \in [Txs -> Nat \ {0}]
    BY <1>1, <1>2, <2>6 DEF LocksTypeOK
  <2>4. written' \in [Txs -> [Rows -> Statuses \cup {"same"}]]
    BY <1>1, <1>5, <1>7, <1>10 DEF LocksTypeOK
  <2>5. \A u \in Txs, r \in Rows : written'[u][r] # "overdue"
    <3> SUFFICES ASSUME NEW u \in Txs, NEW r \in Rows PROVE written'[u][r] # "overdue"
      OBVIOUS
    <3>1. CASE u = t
      BY <1>7, <1>13, <3>1 DEF LocksInv, RowsTyped
    <3>2. CASE u # t
      BY <1>12, <3>2 DEF LocksInv, RowsTyped
    <3> QED BY <3>1, <3>2
  <2> QED BY <1>1, <1>2, <2>1, <2>2, <2>3, <2>4, <2>5 DEF LocksInv, RowsTyped, LocksTypeOK
<1>15. ASSUME NEW u \in Txs
       PROVE  /\ step[u] > 1 => Busy(u)
              /\ Busy(u) => step[u] <= Len(Script[does[u]]) + 1
              /\ \A i \in Passed(u) : Past(u, Script[does[u]][i])
              /\ \A r \in Rows : written[u][r] # "same" =>
                    \E i \in Passed(u) : Script[does[u]][i].row = r
  BY DEF LocksInv, RowsHeld
<1>16. Passed(t)' = Passed(t) \cup {step[t]} /\ (Busy(t)' <=> Busy(t))
  <2>1. Busy(t)' <=> Busy(t)
    BY <1>2 DEF Busy
  <2>2. step'[t] - 1 = step[t] /\ step[t] \in Nat /\ step[t] >= 1
    BY <1>3, <1>12
  <2>3. 1 .. step[t] = (1 .. (step[t] - 1)) \cup {step[t]}
    BY <2>2
  <2> QED BY <2>1, <2>2, <2>3 DEF Passed
<1>17. ASSUME NEW i \in Passed(t) PROVE Past(t, Script[does[t]][i])'
  <2>0. PICK M : M = Script[does[t]][i]
    OBVIOUS
  <2>1. i \in 1 .. Len(Script[does[t]]) /\ M.row \in Rows
    BY <2>0, PassedLines
  <2>2. i # step[t]
    BY <1>3 DEF Passed
  <2>3. M.row # L.row
    BY <1>3, <1>4, <2>0, <2>1, <2>2 DEF Whole
  <2>4. Past(t, M)
    BY <1>15, <2>0
  <2>6. holder'[M.row] = holder[M.row] /\ written'[t][M.row] = written[t][M.row]
    BY <1>12, <1>13, <2>1, <2>3
  <2>7. Past(t, M)'
    BY <1>2, <2>4, <2>6 DEF Past, Judgements
  <2> QED BY <1>2, <2>0, <2>7 DEF Past, Judgements
<1>18. ASSUME NEW i, i = step[t] PROVE Past(t, Script[does[t]][i])'
  <2>1. Script[does[t]][i] = L
    BY <1>4, <1>18
  <2>2. holder'[L.row] = t /\ written'[t][L.row] = w /\ row' = row
    BY <1>2, <1>12, <1>13
  <2>3. Past(t, L)'
    BY <1>6, <1>8, <2>2 DEF Past, Judgements
  <2> QED BY <1>2, <2>1, <2>3 DEF Past, Judgements
<1>19. /\ step'[t] > 1 => Busy(t)'
       /\ Busy(t)' => step'[t] <= Len(Script[does'[t]]) + 1
       /\ \A i \in Passed(t)' : Past(t, Script[does[t]][i])'
       /\ \A r \in Rows : written'[t][r] # "same" =>
             \E i \in Passed(t)' : Script[does'[t]][i].row = r
  <2>1. /\ step'[t] > 1 => Busy(t)'
        /\ Busy(t)' => step'[t] <= Len(Script[does'[t]]) + 1
    <3>1. Busy(t)' /\ does'[t] = does[t]
      BY <1>2, <1>16
    <3>2. step[t] + 1 <= Len(Script[does[t]]) + 1
      BY <1>4
    <3> QED BY <1>12, <3>1, <3>2
  <2>2. \A i \in Passed(t)' : Past(t, Script[does[t]][i])'
    BY <1>16, <1>17, <1>18
  <2>3. \A r \in Rows : written'[t][r] # "same" =>
             \E i \in Passed(t)' : Script[does'[t]][i].row = r
    BY <1>2, <1>4, <1>13, <1>15, <1>16
  <2> QED BY <2>1, <2>2, <2>3
<1>20. ASSUME NEW u \in Txs, u # t
       PROVE  /\ step'[u] > 1 => Busy(u)'
              /\ Busy(u)' => step'[u] <= Len(Script[does'[u]]) + 1
              /\ \A i \in Passed(u)' : Past(u, Script[does[u]][i])'
              /\ \A r \in Rows : written'[u][r] # "same" =>
                    \E i \in Passed(u)' : Script[does'[u]][i].row = r
  <2>1. Passed(u)' = Passed(u) /\ (Busy(u)' <=> Busy(u))
    BY <1>2, <1>12, <1>20 DEF Passed, Busy
  <2>2. ASSUME NEW i \in Passed(u) PROVE Past(u, Script[does[u]][i])'
    <3>0. PICK M : M = Script[does[u]][i]
      OBVIOUS
    <3>1. Past(u, M) /\ M.row \in Rows
      BY <1>15, <3>0, PassedLines
    <3>2. M.row # L.row
      BY <1>11, <1>20, <3>1, LocksAssumption DEF Past
    <3>3. holder'[M.row] = holder[M.row] /\ written'[u] = written[u]
      BY <1>12, <1>20, <3>1, <3>2
    <3>4. Past(u, M)'
      BY <1>2, <3>1, <3>3 DEF Past, Judgements
    <3> QED BY <1>2, <3>0, <3>4 DEF Past, Judgements
  <2>3. does' = does /\ step'[u] = step[u] /\ written'[u] = written[u]
    BY <1>2, <1>12, <1>20
  <2>4. /\ step[u] > 1 => Busy(u)
        /\ Busy(u) => step[u] <= Len(Script[does[u]]) + 1
        /\ \A r \in Rows : written[u][r] # "same" =>
              \E i \in Passed(u) : Script[does[u]][i].row = r
    BY <1>15
  <2> QED BY <2>1, <2>2, <2>3, <2>4
<1>21. RowsHeld'
  BY <1>19, <1>20 DEF RowsHeld
<1> QED BY <1>14, <1>21 DEF LocksInv

-----------------------------------------------------------------------------
(* What is committed.                                                      *)

(* Statement L is part of what is committed.                               *)
Outcome(L) ==
    \E s \in Judgements(L.row) :
        /\ s \in L.need \/ L.otherwise = "go on"
        /\ row'[L.row] = IF s \in L.need /\ L.to # "same" THEN L.to ELSE row[L.row]

LEMMA CommitWrites ==
    ASSUME LocksInv, NEW t \in Txs, Commit(t)
    PROVE  /\ does[t] \in Requests
           /\ \A i \in Passed(t) : Outcome(Script[does[t]][i])
           /\ \A r \in Rows : \/ row'[r] = row[r]
                             \/ \E i \in Passed(t) : Script[does[t]][i].row = r
           /\ \A r \in Rows : row'[r] = row[r] \/ holder[r] = t
           /\ \A r \in Rows : row'[r] \in Statuses \ {"overdue"}
           /\ Len(Script[does[t]]) \in Nat /\ step[t] \in Nat
           /\ \/ step[t] = Len(Script[does[t]]) + 1
              \/ /\ step[t] \in 1 .. Len(Script[does[t]])
                 /\ ~Fits(t) /\ Script[does[t]][step[t]].otherwise = "finish"
<1>1. /\ Busy(t) /\ (~AllDone(t) => ~Fits(t) /\ Line(t).otherwise = "finish")
      /\ row' = [r \in Rows |-> IF written[t][r] = "same" THEN row[r] ELSE written[t][r]]
  BY DEF Commit
<1>2. does[t] \in Requests
  BY <1>1, LocksAssumption DEF Busy
<1>3. PICK n \in Nat : n = Len(Script[does[t]])
  BY <1>2, ScriptsWhole DEF Whole
<1>4. step[t] \in Nat /\ step[t] >= 1 /\ step[t] <= n + 1
  BY <1>1, <1>3 DEF LocksInv, RowsTyped, LocksTypeOK, RowsHeld
<1>5. ASSUME NEW i \in Passed(t) PROVE Outcome(Script[does[t]][i])
  <2>0. PICK L : L = Script[does[t]][i]
    OBVIOUS
  <2>1. Past(t, L) /\ L.row \in Rows
    BY <2>0, PassedLines DEF LocksInv, RowsHeld
  <2>2. row'[L.row] = IF written[t][L.row] = "same" THEN row[L.row] ELSE written[t][L.row]
    BY <1>1, <2>1
  <2>3. Outcome(L)
    BY <2>1, <2>2 DEF Past, Outcome
  <2> QED BY <2>0, <2>3
<1>6. \A r \in Rows : \/ row'[r] = row[r]
                    \/ \E i \in Passed(t) : Script[does[t]][i].row = r
  BY <1>1 DEF LocksInv, RowsHeld
<1>7. \A r \in Rows : row'[r] = row[r] \/ holder[r] = t
  <2> SUFFICES ASSUME NEW r \in Rows, NEW i \in Passed(t), Script[does[t]][i].row = r
               PROVE  holder[r] = t
    BY <1>6
  <2>1. Past(t, Script[does[t]][i])
    BY DEF LocksInv, RowsHeld
  <2> QED BY <2>1 DEF Past
<1>8. \A r \in Rows : row'[r] \in Statuses \ {"overdue"}
  BY <1>1 DEF LocksInv, RowsTyped, LocksTypeOK
<1>9. CASE AllDone(t)
  <2>1. step[t] > n
    BY <1>3, <1>9 DEF AllDone
  <2>2. step[t] = n + 1
    BY <1>4, <2>1
  <2> QED BY <1>2, <1>3, <1>4, <1>5, <1>6, <1>7, <1>8, <2>2
<1>10. CASE ~AllDone(t)
  <2>1. ~(step[t] > n)
    BY <1>3, <1>10 DEF AllDone
  <2>2. step[t] \in 1 .. n
    BY <1>4, <2>1
  <2>3. ~Fits(t) /\ Script[does[t]][step[t]].otherwise = "finish"
    BY <1>1, <1>10 DEF Line
  <2> QED BY <1>2, <1>3, <1>4, <1>5, <1>6, <1>7, <1>8, <2>2, <2>3
<1> QED BY <1>9, <1>10

(* Mutations of the rows that matter, statement by statement.              *)
LEMMA PurchaseOutcomes ==
    ASSUME LocksInv
    PROVE  /\ Outcome(PurchaseSold) =>
                 row["purchase"] = "absent" /\ row'["purchase"] = "pending"
           /\ Outcome(PurchaseFound) =>
                 row["purchase"] = "pending" /\ row'["purchase"] = "cancelled"
           /\ Outcome(Need("purchase", Unpaid, "cancelled")) =>
                 row["purchase"] = "pending" /\ row'["purchase"] = "cancelled"
           /\ Outcome(Find("purchase", {"overdue"}, "expired")) =>
                 row["purchase"] = "pending" /\ row'["purchase"] = "expired"
           /\ Outcome(PurchasePaid) =>
                 row["purchase"] = "pending" /\ row'["purchase"] = "paid"
           /\ Outcome(Need("purchase", {"paid"}, "refunded")) =>
                 row["purchase"] = "paid" /\ row'["purchase"] = "refunded"
<1>0. row["purchase"] # "overdue"
  BY DEF LocksInv, RowsTyped, Rows
<1>1. Outcome(PurchaseSold) =>
        row["purchase"] = "absent" /\ row'["purchase"] = "pending"
  BY DEF Outcome, Judgements, PurchaseSold, Find
<1>2. Outcome(PurchaseFound) =>
        row["purchase"] = "pending" /\ row'["purchase"] = "cancelled"
  BY <1>0 DEF Outcome, Judgements, PurchaseFound, Find, Unpaid
<1>3. Outcome(Need("purchase", Unpaid, "cancelled")) =>
        row["purchase"] = "pending" /\ row'["purchase"] = "cancelled"
  BY <1>0 DEF Outcome, Judgements, Need, Unpaid
<1>4. Outcome(Find("purchase", {"overdue"}, "expired")) =>
        row["purchase"] = "pending" /\ row'["purchase"] = "expired"
  BY <1>0 DEF Outcome, Judgements, Find
<1>5. Outcome(PurchasePaid) =>
        row["purchase"] = "pending" /\ row'["purchase"] = "paid"
  BY DEF Outcome, Judgements, PurchasePaid, Need
<1>6. Outcome(Need("purchase", {"paid"}, "refunded")) =>
        row["purchase"] = "paid" /\ row'["purchase"] = "refunded"
  BY DEF Outcome, Judgements, Need
<1> QED BY <1>1, <1>2, <1>3, <1>4, <1>5, <1>6

LEMMA BillOutcomes ==
    ASSUME LocksInv
    PROVE  /\ Outcome(BillOpened) => row["order"] = "none" /\ row'["order"] = "pending"
           /\ Outcome(BillDropped) =>
                 row'["order"] = IF row["order"] = "pending" THEN "expired" ELSE row["order"]
           /\ Outcome(Find("order", Unpaid, "expired")) =>
                 row["order"] = "pending" /\ row'["order"] = "expired"
           /\ Outcome(Find("order", {"overdue"}, "expired")) =>
                 row["order"] = "pending" /\ row'["order"] = "expired"
           /\ Outcome(Find("order", {"pending"}, "paid")) =>
                 row["order"] = "pending" /\ row'["order"] = "paid"
           /\ Outcome(Need("order", Unpaid \cup {"expired"}, "paid")) =>
                 row["order"] \in {"pending", "expired"} /\ row'["order"] = "paid"
           /\ Outcome(Need("order", {"paid"}, "refunded")) =>
                 row["order"] = "paid" /\ row'["order"] = "refunded"
<1>0. row["order"] # "overdue"
  BY DEF LocksInv, RowsTyped, Rows
<1>1. Outcome(BillOpened) => row["order"] = "none" /\ row'["order"] = "pending"
  BY DEF Outcome, Judgements, BillOpened, Need
<1>2. Outcome(BillDropped) =>
        row'["order"] = IF row["order"] = "pending" THEN "expired" ELSE row["order"]
  BY <1>0 DEF Outcome, Judgements, BillDropped, Adjust, Unpaid
<1>3. Outcome(Find("order", Unpaid, "expired")) =>
        row["order"] = "pending" /\ row'["order"] = "expired"
  BY <1>0 DEF Outcome, Judgements, Find, Unpaid
<1>4. Outcome(Find("order", {"overdue"}, "expired")) =>
        row["order"] = "pending" /\ row'["order"] = "expired"
  BY <1>0 DEF Outcome, Judgements, Find
<1>5. Outcome(Find("order", {"pending"}, "paid")) =>
        row["order"] = "pending" /\ row'["order"] = "paid"
  BY DEF Outcome, Judgements, Find
<1>6. Outcome(Need("order", Unpaid \cup {"expired"}, "paid")) =>
        row["order"] \in {"pending", "expired"} /\ row'["order"] = "paid"
  BY <1>0 DEF Outcome, Judgements, Need, Unpaid
<1>7. Outcome(Need("order", {"paid"}, "refunded")) =>
        row["order"] = "paid" /\ row'["order"] = "refunded"
  BY DEF Outcome, Judgements, Need
<1> QED BY <1>1, <1>2, <1>3, <1>4, <1>5, <1>6, <1>7

LEMMA PlanOutcomes ==
    /\ Outcome(OnSale) => row["plan"] = "sold" /\ row'["plan"] = row["plan"]
    /\ Outcome(Lock("plan")) => row'["plan"] = row["plan"]
<1>1. Outcome(OnSale) => row["plan"] = "sold" /\ row'["plan"] = row["plan"]
  BY DEF Outcome, Judgements, OnSale, Need
<1>2. Outcome(Lock("plan")) => row'["plan"] = row["plan"]
  BY DEF Outcome, Judgements, Lock
<1> QED BY <1>1, <1>2

(* The rows of the statements, and which of them end a transaction that    *)
(* finds nothing.                                                          *)
LEMMA Columns ==
    /\ First.row \in {"buyer", "billing"} /\ First.otherwise = "go on"
    /\ Second.row \in {"buyer", "billing"} /\ Second.otherwise = "go on"
    /\ Lock("buyer").row = "buyer" /\ Lock("buyer").otherwise = "go on"
    /\ Lock("billing").row = "billing"
    /\ Lock("billing").otherwise = "go on"
    /\ Lock("sub").row = "sub" /\ Lock("sub").otherwise = "go on"
    /\ Lock("plan").row = "plan" /\ Lock("plan").otherwise = "go on"
    /\ OnSale.row = "plan" /\ OnSale.otherwise = "error"
    /\ Need("plan", {"sold"}, "deleted").row = "plan"
    /\ Need("plan", {"sold"}, "deleted").otherwise = "error"
    /\ PurchaseSold.row = "purchase" /\ PurchaseSold.otherwise = "finish"
    /\ PurchaseFound.row = "purchase"
    /\ PurchaseFound.otherwise = "finish"
    /\ PurchasePaid.row = "purchase" /\ PurchasePaid.otherwise = "error"
    /\ Need("purchase", Unpaid, "cancelled").row = "purchase"
    /\ Need("purchase", Unpaid, "cancelled").otherwise = "error"
    /\ Need("purchase", {"paid"}, "refunded").row = "purchase"
    /\ Need("purchase", {"paid"}, "refunded").otherwise = "error"
    /\ Find("purchase", {"overdue"}, "expired").row = "purchase"
    /\ Find("purchase", {"overdue"}, "expired").otherwise = "finish"
    /\ BillOpened.row = "order" /\ BillOpened.otherwise = "error"
    /\ BillDropped.row = "order" /\ BillDropped.otherwise = "go on"
    /\ Find("order", Unpaid, "expired").row = "order"
    /\ Find("order", Unpaid, "expired").otherwise = "finish"
    /\ Find("order", {"overdue"}, "expired").row = "order"
    /\ Find("order", {"overdue"}, "expired").otherwise = "finish"
    /\ Find("order", {"pending"}, "paid").row = "order"
    /\ Find("order", {"pending"}, "paid").otherwise = "finish"
    /\ Need("order", Unpaid \cup {"expired"}, "paid").row = "order"
    /\ Need("order", Unpaid \cup {"expired"}, "paid").otherwise = "error"
    /\ Need("order", {"paid"}, "refunded").row = "order"
    /\ Need("order", {"paid"}, "refunded").otherwise = "error"
<1>1. /\ First.row \in {"buyer", "billing"} /\ First.otherwise = "go on"
      /\ Second.row \in {"buyer", "billing"} /\ Second.otherwise = "go on"
      /\ Lock("buyer").row = "buyer" /\ Lock("buyer").otherwise = "go on"
      /\ Lock("billing").row = "billing"
      /\ Lock("billing").otherwise = "go on"
      /\ Lock("sub").row = "sub" /\ Lock("sub").otherwise = "go on"
  BY DEF Lock, First, Second
<1>2. /\ Lock("plan").row = "plan" /\ Lock("plan").otherwise = "go on"
      /\ OnSale.row = "plan" /\ OnSale.otherwise = "error"
      /\ Need("plan", {"sold"}, "deleted").row = "plan"
      /\ Need("plan", {"sold"}, "deleted").otherwise = "error"
  BY DEF Lock, OnSale, Need
<1>3. /\ PurchaseSold.row = "purchase" /\ PurchaseSold.otherwise = "finish"
      /\ PurchaseFound.row = "purchase"
      /\ PurchaseFound.otherwise = "finish"
      /\ PurchasePaid.row = "purchase" /\ PurchasePaid.otherwise = "error"
      /\ Need("purchase", Unpaid, "cancelled").row = "purchase"
      /\ Need("purchase", Unpaid, "cancelled").otherwise = "error"
      /\ Need("purchase", {"paid"}, "refunded").row = "purchase"
      /\ Need("purchase", {"paid"}, "refunded").otherwise = "error"
      /\ Find("purchase", {"overdue"}, "expired").row = "purchase"
      /\ Find("purchase", {"overdue"}, "expired").otherwise = "finish"
  BY DEF PurchaseSold, PurchaseFound, PurchasePaid, Need, Find
<1>4. /\ BillOpened.row = "order" /\ BillOpened.otherwise = "error"
      /\ BillDropped.row = "order" /\ BillDropped.otherwise = "go on"
      /\ Find("order", Unpaid, "expired").row = "order"
      /\ Find("order", Unpaid, "expired").otherwise = "finish"
      /\ Find("order", {"overdue"}, "expired").row = "order"
      /\ Find("order", {"overdue"}, "expired").otherwise = "finish"
      /\ Find("order", {"pending"}, "paid").row = "order"
      /\ Find("order", {"pending"}, "paid").otherwise = "finish"
      /\ Need("order", Unpaid \cup {"expired"}, "paid").row = "order"
      /\ Need("order", Unpaid \cup {"expired"}, "paid").otherwise = "error"
      /\ Need("order", {"paid"}, "refunded").row = "order"
      /\ Need("order", {"paid"}, "refunded").otherwise = "error"
  BY DEF BillOpened, BillDropped, Need, Find, Adjust
<1> QED BY <1>1, <1>2, <1>3, <1>4

(* A step that keeps purchase and bill on their life and, with the plan,   *)
(* what DeletedPlanHasNoPending says.                                      *)
GoodCommit ==
    /\ [Life!Next]_(Life!vars)
    /\ row'["plan"] = "deleted" /\ row'["purchase"] = "pending" =>
          row["plan"] = "deleted" /\ row["purchase"] = "pending"

(* The statements of script s before the k-th are committed, the k-th has  *)
(* found nothing or there is none.                                         *)
Committed(t, s, k) ==
    /\ k = Len(s) + 1 \/ (s[k].otherwise = "finish" /\ step[t] = k /\ ~Fits(t))
    /\ \A i \in 1 .. (k - 1) : Outcome(s[i])
    /\ \A r \in Rows : row'[r] = row[r] \/ \E i \in 1 .. (k - 1) : s[i].row = r

LEMMA CommitOf ==
    ASSUME LocksInv, NEW t \in Txs, Commit(t), NEW s, s = Script[does[t]]
    PROVE  \E k \in 1 .. (Len(s) + 1) : Committed(t, s, k)
<1>1. PICK k : k = step[t]
  OBVIOUS
<1>2. Passed(t) = 1 .. (k - 1)
  BY <1>1 DEF Passed
<1>3. \A i \in 1 .. (k - 1) : Outcome(s[i])
  <2> SUFFICES ASSUME NEW i \in Passed(t) PROVE Outcome(s[i])
    BY <1>2
  <2> QED BY CommitWrites
<1>4. \A r \in Rows : row'[r] = row[r] \/ \E i \in 1 .. (k - 1) : s[i].row = r
  <2> SUFFICES ASSUME NEW r \in Rows, row'[r] # row[r]
               PROVE  \E i \in 1 .. (k - 1) : s[i].row = r
    OBVIOUS
  <2>1. \E i \in Passed(t) : Script[does[t]][i].row = r
    BY CommitWrites
  <2> QED BY <1>2, <2>1
<1>5. \/ k = Len(s) + 1
      \/ k \in 1 .. Len(s) /\ ~Fits(t) /\ s[k].otherwise = "finish"
  BY <1>1, CommitWrites
<1>6. k \in 1 .. (Len(s) + 1) /\ Committed(t, s, k)
  <2>1. Len(s) \in Nat
    BY CommitWrites
  <2>2. k \in 1 .. (Len(s) + 1)
    BY <1>5, <2>1
  <2>3. k = Len(s) + 1 \/ (s[k].otherwise = "finish" /\ step[t] = k /\ ~Fits(t))
    BY <1>1, <1>5
  <2> QED BY <1>3, <1>4, <2>2, <2>3 DEF Committed
<1> QED BY <1>6

LEMMA NothingCommitted ==
    ASSUME row'["purchase"] = row["purchase"], row'["order"] = row["order"],
           row'["plan"] = row["plan"]
    PROVE  GoodCommit
BY DEF GoodCommit, Life!vars

LEMMA CommitPurchase ==
    ASSUME LocksInv, NEW t \in Txs, Commit(t), does[t] = "Purchase"
    PROVE  GoodCommit
<1>1. PICK s : s = Script[does[t]]
  OBVIOUS
<1>2. s = <<First, Second, OnSale, Lock("sub"), PurchaseSold, BillOpened>>
  BY <1>1, Scripts
<1>3. Len(s) = 6
  BY <1>2
<1>4. /\ s[1] = First /\ s[2] = Second /\ s[3] = OnSale /\ s[4] = Lock("sub")
      /\ s[5] = PurchaseSold /\ s[6] = BillOpened
  BY <1>2
<1>5. PICK k \in 1 .. (Len(s) + 1) : Committed(t, s, k)
  BY <1>1, CommitOf
<1>6. /\ s[1].otherwise # "finish" /\ s[2].otherwise # "finish"
      /\ s[3].otherwise # "finish" /\ s[4].otherwise # "finish"
      /\ s[6].otherwise # "finish"
  BY <1>4, Columns
<1>7. k \in {5, 7}
  BY <1>3, <1>5, <1>6 DEF Committed
<1>8. CASE k = 5
  <2>1. /\ s[1].row \notin {"purchase", "order"}
        /\ s[2].row \notin {"purchase", "order"}
        /\ s[3].row \notin {"purchase", "order"}
        /\ s[4].row \notin {"purchase", "order"}
    BY <1>4, Columns
  <2>2. row'["purchase"] = row["purchase"] /\ row'["order"] = row["order"]
    BY <1>5, <1>8, <2>1 DEF Committed, Rows
  <2>3. row["plan"] = "sold" /\ row'["plan"] = row["plan"]
    BY <1>3, <1>4, <1>5, <1>8, PlanOutcomes DEF Committed
  <2> QED BY <2>2, <2>3 DEF GoodCommit, Life!vars
<1>9. CASE k = 7
  <2>3. row["plan"] = "sold" /\ row'["plan"] = row["plan"]
    BY <1>3, <1>4, <1>5, <1>9, PlanOutcomes DEF Committed
  <2>4. Outcome(PurchaseSold) /\ Outcome(BillOpened)
    BY <1>3, <1>4, <1>5, <1>9 DEF Committed
  <2>5. Life!Open
    BY <2>4, PurchaseOutcomes, BillOutcomes DEF Life!Open
  <2> QED BY <2>3, <2>5 DEF GoodCommit, Life!Next
<1> QED BY <1>7, <1>8, <1>9

LEMMA CommitCancelPurchase ==
    ASSUME LocksInv, NEW t \in Txs, Commit(t), does[t] = "CancelPurchase"
    PROVE  GoodCommit
<1>1. PICK s : s = Script[does[t]]
  OBVIOUS
<1>2. s = <<Lock("buyer"), Need("purchase", Unpaid, "cancelled"),
           BillDropped>>
  BY <1>1, Scripts
<1>3. Len(s) = 3
  BY <1>2
<1>4. /\ s[1] = Lock("buyer") /\ s[2] = Need("purchase", Unpaid, "cancelled")
      /\ s[3] = BillDropped
  BY <1>2
<1>5. PICK k \in 1 .. (Len(s) + 1) : Committed(t, s, k)
  BY <1>1, CommitOf
<1>6. /\ s[1].otherwise # "finish" /\ s[2].otherwise # "finish"
      /\ s[3].otherwise # "finish"
  BY <1>4, Columns
<1>7. k = 4
  BY <1>3, <1>5, <1>6 DEF Committed
<1>8. Outcome(Need("purchase", Unpaid, "cancelled")) /\ Outcome(BillDropped)
  BY <1>3, <1>4, <1>5, <1>7 DEF Committed
<1>9. Life!Cancel
  BY <1>8, PurchaseOutcomes, BillOutcomes DEF Life!Cancel
<1> QED BY <1>8, <1>9, PurchaseOutcomes DEF GoodCommit, Life!Next

LEMMA CommitDeletePlan ==
    ASSUME LocksInv, NEW t \in Txs, Commit(t), does[t] = "DeletePlan"
    PROVE  GoodCommit
<1>1. PICK s : s = Script[does[t]]
  OBVIOUS
<1>2. s = <<Need("plan", {"sold"}, "deleted"), PurchaseFound, BillDropped>>
  BY <1>1, Scripts
<1>3. Len(s) = 3
  BY <1>2
<1>4. /\ s[1] = Need("plan", {"sold"}, "deleted") /\ s[2] = PurchaseFound
      /\ s[3] = BillDropped
  BY <1>2
<1>5. PICK k \in 1 .. (Len(s) + 1) : Committed(t, s, k)
  BY <1>1, CommitOf
<1>6. s[1].otherwise # "finish" /\ s[3].otherwise # "finish"
  BY <1>4, Columns
<1>7. k \in {2, 4}
  BY <1>3, <1>5, <1>6 DEF Committed
<1>8. CASE k = 2
  <2>1. s[1].row \notin {"purchase", "order"}
    BY <1>4, Columns
  <2>2. row'["purchase"] = row["purchase"] /\ row'["order"] = row["order"]
    BY <1>5, <1>8, <2>1 DEF Committed, Rows
  <2>3. Line(t) = PurchaseFound /\ ~Fits(t)
    BY <1>1, <1>3, <1>4, <1>5, <1>8 DEF Committed, Line
  <2>4. row["purchase"] # "pending"
    BY <2>3 DEF Fits, Seen, PurchaseFound, Find, Unpaid
  <2> QED BY <2>2, <2>4 DEF GoodCommit, Life!vars
<1>9. CASE k = 4
  <2>3. Outcome(PurchaseFound) /\ Outcome(BillDropped)
    BY <1>3, <1>4, <1>5, <1>9 DEF Committed
  <2>4. Life!Cancel
    BY <2>3, PurchaseOutcomes, BillOutcomes DEF Life!Cancel
  <2> QED BY <2>3, <2>4, PurchaseOutcomes DEF GoodCommit, Life!Next
<1> QED BY <1>7, <1>8, <1>9

LEMMA CommitCloseExpired ==
    ASSUME LocksInv, NEW t \in Txs, Commit(t), does[t] = "CloseExpired"
    PROVE  GoodCommit
<1>1. PICK s : s = Script[does[t]]
  OBVIOUS
<1>2. s = <<Lock("buyer"), Find("purchase", {"overdue"}, "expired")>>
  BY <1>1, Scripts
<1>3. Len(s) = 2
  BY <1>2
<1>4. /\ s[1] = Lock("buyer")
      /\ s[2] = Find("purchase", {"overdue"}, "expired")
  BY <1>2
<1>5. PICK k \in 1 .. (Len(s) + 1) : Committed(t, s, k)
  BY <1>1, CommitOf
<1>6. s[1].otherwise # "finish"
  BY <1>4, Columns
<1>7. k \in {2, 3}
  BY <1>3, <1>5, <1>6 DEF Committed
<1>8. CASE k = 2
  <2>1. s[1].row \notin {"purchase", "order", "plan"}
    BY <1>4, Columns
  <2>2. /\ row'["purchase"] = row["purchase"] /\ row'["order"] = row["order"]
        /\ row'["plan"] = row["plan"]
    BY <1>5, <1>8, <2>1 DEF Committed, Rows
  <2> QED BY <2>2, NothingCommitted
<1>9. CASE k = 3
  <2>1. s[1].row \notin {"order"} /\ s[2].row \notin {"order"}
    BY <1>4, Columns
  <2>2. row'["order"] = row["order"]
    BY <1>5, <1>9, <2>1 DEF Committed, Rows
  <2>3. Outcome(Find("purchase", {"overdue"}, "expired"))
    BY <1>3, <1>4, <1>5, <1>9 DEF Committed
  <2>4. Life!Close
    BY <2>3, <2>2, PurchaseOutcomes, BillOutcomes DEF Life!Close
  <2> QED BY <2>3, <2>4, PurchaseOutcomes DEF GoodCommit, Life!Next
<1> QED BY <1>7, <1>8, <1>9

LEMMA CommitBan ==
    ASSUME LocksInv, NEW t \in Txs, Commit(t), does[t] = "BanBuyer"
    PROVE  GoodCommit
<1>1. PICK s : s = Script[does[t]]
  OBVIOUS
<1>2. s = <<First, Second, PurchaseFound, BillDropped>>
  BY <1>1, Scripts
<1>3. Len(s) = 4
  BY <1>2
<1>4. /\ s[1] = First /\ s[2] = Second /\ s[3] = PurchaseFound
      /\ s[4] = BillDropped
  BY <1>2
<1>5. PICK k \in 1 .. (Len(s) + 1) : Committed(t, s, k)
  BY <1>1, CommitOf
<1>6. /\ s[1].otherwise # "finish" /\ s[2].otherwise # "finish"
      /\ s[4].otherwise # "finish"
  BY <1>4, Columns
<1>7. k \in {3, 5}
  BY <1>3, <1>5, <1>6 DEF Committed
<1>8. CASE k = 3
  <2>1. /\ s[1].row \notin {"purchase", "order", "plan"}
        /\ s[2].row \notin {"purchase", "order", "plan"}
    BY <1>4, Columns
  <2>2. /\ row'["purchase"] = row["purchase"] /\ row'["order"] = row["order"]
        /\ row'["plan"] = row["plan"]
    BY <1>5, <1>8, <2>1 DEF Committed, Rows
  <2> QED BY <2>2, NothingCommitted
<1>9. CASE k = 5
  <2>3. Outcome(PurchaseFound) /\ Outcome(BillDropped)
    BY <1>3, <1>4, <1>5, <1>9 DEF Committed
  <2>4. Life!Cancel
    BY <2>3, PurchaseOutcomes, BillOutcomes DEF Life!Cancel
  <2> QED BY <2>3, <2>4, PurchaseOutcomes DEF GoodCommit, Life!Next
<1> QED BY <1>7, <1>8, <1>9

LEMMA CommitBanBilling ==
    ASSUME LocksInv, NEW t \in Txs, Commit(t), does[t] = "BanBilling"
    PROVE  GoodCommit
<1>1. PICK s : s = Script[does[t]]
  OBVIOUS
<1>2. s = <<Lock("billing"), Find("order", Unpaid, "expired")>>
  BY <1>1, Scripts
<1>3. Len(s) = 2
  BY <1>2
<1>4. s[1] = Lock("billing") /\ s[2] = Find("order", Unpaid, "expired")
  BY <1>2
<1>5. PICK k \in 1 .. (Len(s) + 1) : Committed(t, s, k)
  BY <1>1, CommitOf
<1>6. s[1].otherwise # "finish"
  BY <1>4, Columns
<1>7. k \in {2, 3}
  BY <1>3, <1>5, <1>6 DEF Committed
<1>8. CASE k = 2
  <2>1. s[1].row \notin {"purchase", "order", "plan"}
    BY <1>4, Columns
  <2>2. /\ row'["purchase"] = row["purchase"] /\ row'["order"] = row["order"]
        /\ row'["plan"] = row["plan"]
    BY <1>5, <1>8, <2>1 DEF Committed, Rows
  <2> QED BY <2>2, NothingCommitted
<1>9. CASE k = 3
  <2>1. /\ s[1].row \notin {"purchase", "plan"}
        /\ s[2].row \notin {"purchase", "plan"}
    BY <1>4, Columns
  <2>2. row'["purchase"] = row["purchase"] /\ row'["plan"] = row["plan"]
    BY <1>5, <1>9, <2>1 DEF Committed, Rows
  <2>3. Outcome(Find("order", Unpaid, "expired"))
    BY <1>3, <1>4, <1>5, <1>9 DEF Committed
  <2>4. Life!Lapse
    BY <2>3, <2>2, PurchaseOutcomes, BillOutcomes DEF Life!Lapse
  <2> QED BY <2>3, <2>4, <2>2, PurchaseOutcomes DEF GoodCommit, Life!Next
<1> QED BY <1>7, <1>8, <1>9

LEMMA CommitExpireBatch ==
    ASSUME LocksInv, NEW t \in Txs, Commit(t), does[t] = "ExpireBatch"
    PROVE  GoodCommit
<1>1. PICK s : s = Script[does[t]]
  OBVIOUS
<1>2. s = <<Lock("billing"), Find("order", {"overdue"}, "expired")>>
  BY <1>1, Scripts
<1>3. Len(s) = 2
  BY <1>2
<1>4. s[1] = Lock("billing") /\ s[2] = Find("order", {"overdue"}, "expired")
  BY <1>2
<1>5. PICK k \in 1 .. (Len(s) + 1) : Committed(t, s, k)
  BY <1>1, CommitOf
<1>6. s[1].otherwise # "finish"
  BY <1>4, Columns
<1>7. k \in {2, 3}
  BY <1>3, <1>5, <1>6 DEF Committed
<1>8. CASE k = 2
  <2>1. s[1].row \notin {"purchase", "order", "plan"}
    BY <1>4, Columns
  <2>2. /\ row'["purchase"] = row["purchase"] /\ row'["order"] = row["order"]
        /\ row'["plan"] = row["plan"]
    BY <1>5, <1>8, <2>1 DEF Committed, Rows
  <2> QED BY <2>2, NothingCommitted
<1>9. CASE k = 3
  <2>1. /\ s[1].row \notin {"purchase", "plan"}
        /\ s[2].row \notin {"purchase", "plan"}
    BY <1>4, Columns
  <2>2. row'["purchase"] = row["purchase"] /\ row'["plan"] = row["plan"]
    BY <1>5, <1>9, <2>1 DEF Committed, Rows
  <2>3. Outcome(Find("order", {"overdue"}, "expired"))
    BY <1>3, <1>4, <1>5, <1>9 DEF Committed
  <2>4. Life!Lapse
    BY <2>3, <2>2, PurchaseOutcomes, BillOutcomes DEF Life!Lapse
  <2> QED BY <2>3, <2>4, <2>2, PurchaseOutcomes DEF GoodCommit, Life!Next
<1> QED BY <1>7, <1>8, <1>9

LEMMA CommitIngest ==
    ASSUME LocksInv, NEW t \in Txs, Commit(t), does[t] = "Ingest"
    PROVE  GoodCommit
<1>1. PICK s : s = Script[does[t]]
  OBVIOUS
<1>2. s = <<Lock("billing"), Find("order", {"pending"}, "paid"),
           PurchasePaid, Lock("sub"), Lock("buyer"), Lock("plan")>>
  BY <1>1, Scripts
<1>3. Len(s) = 6
  BY <1>2
<1>4. /\ s[1] = Lock("billing") /\ s[2] = Find("order", {"pending"}, "paid")
      /\ s[3] = PurchasePaid /\ s[4] = Lock("sub") /\ s[5] = Lock("buyer")
      /\ s[6] = Lock("plan")
  BY <1>2
<1>5. PICK k \in 1 .. (Len(s) + 1) : Committed(t, s, k)
  BY <1>1, CommitOf
<1>6. /\ s[1].otherwise # "finish" /\ s[3].otherwise # "finish"
      /\ s[4].otherwise # "finish" /\ s[5].otherwise # "finish"
      /\ s[6].otherwise # "finish"
  BY <1>4, Columns
<1>7. k \in {2, 7}
  BY <1>3, <1>5, <1>6 DEF Committed
<1>8. CASE k = 2
  <2>1. s[1].row \notin {"purchase", "order", "plan"}
    BY <1>4, Columns
  <2>2. /\ row'["purchase"] = row["purchase"] /\ row'["order"] = row["order"]
        /\ row'["plan"] = row["plan"]
    BY <1>5, <1>8, <2>1 DEF Committed, Rows
  <2> QED BY <2>2, NothingCommitted
<1>9. CASE k = 7
  <2>3. Outcome(Find("order", {"pending"}, "paid")) /\ Outcome(PurchasePaid)
    BY <1>3, <1>4, <1>5, <1>9 DEF Committed
  <2>4. Life!Pay
    BY <2>3, PurchaseOutcomes, BillOutcomes DEF Life!Pay
  <2> QED BY <2>3, <2>4, PurchaseOutcomes DEF GoodCommit, Life!Next
<1> QED BY <1>7, <1>8, <1>9

LEMMA CommitSupplement ==
    ASSUME LocksInv, NEW t \in Txs, Commit(t), does[t] = "Supplement"
    PROVE  GoodCommit
<1>1. PICK s : s = Script[does[t]]
  OBVIOUS
<1>2. s = <<Lock("billing"),
           Need("order", Unpaid \cup {"expired"}, "paid"), PurchasePaid,
           Lock("sub"), Lock("buyer"), Lock("plan")>>
  BY <1>1, Scripts
<1>3. Len(s) = 6
  BY <1>2
<1>4. /\ s[1] = Lock("billing")
      /\ s[2] = Need("order", Unpaid \cup {"expired"}, "paid")
      /\ s[3] = PurchasePaid /\ s[4] = Lock("sub") /\ s[5] = Lock("buyer")
      /\ s[6] = Lock("plan")
  BY <1>2
<1>5. PICK k \in 1 .. (Len(s) + 1) : Committed(t, s, k)
  BY <1>1, CommitOf
<1>6. /\ s[1].otherwise # "finish" /\ s[2].otherwise # "finish"
      /\ s[3].otherwise # "finish" /\ s[4].otherwise # "finish"
      /\ s[5].otherwise # "finish" /\ s[6].otherwise # "finish"
  BY <1>4, Columns
<1>7. k = 7
  BY <1>3, <1>5, <1>6 DEF Committed
<1>8. /\ Outcome(Need("order", Unpaid \cup {"expired"}, "paid"))
      /\ Outcome(PurchasePaid)
  BY <1>3, <1>4, <1>5, <1>7 DEF Committed
<1>9. Life!Pay
  BY <1>8, PurchaseOutcomes, BillOutcomes DEF Life!Pay
<1> QED BY <1>8, <1>9, PurchaseOutcomes DEF GoodCommit, Life!Next

LEMMA CommitMarkRefunded ==
    ASSUME LocksInv, NEW t \in Txs, Commit(t), does[t] = "MarkRefunded"
    PROVE  GoodCommit
<1>1. PICK s : s = Script[does[t]]
  OBVIOUS
<1>2. s = <<Lock("billing"), Need("order", {"paid"}, "refunded"),
           Need("purchase", {"paid"}, "refunded"), Lock("sub")>>
  BY <1>1, Scripts
<1>3. Len(s) = 4
  BY <1>2
<1>4. /\ s[1] = Lock("billing") /\ s[2] = Need("order", {"paid"}, "refunded")
      /\ s[3] = Need("purchase", {"paid"}, "refunded") /\ s[4] = Lock("sub")
  BY <1>2
<1>5. PICK k \in 1 .. (Len(s) + 1) : Committed(t, s, k)
  BY <1>1, CommitOf
<1>6. /\ s[1].otherwise # "finish" /\ s[2].otherwise # "finish"
      /\ s[3].otherwise # "finish" /\ s[4].otherwise # "finish"
  BY <1>4, Columns
<1>7. k = 5
  BY <1>3, <1>5, <1>6 DEF Committed
<1>8. /\ Outcome(Need("order", {"paid"}, "refunded"))
      /\ Outcome(Need("purchase", {"paid"}, "refunded"))
  BY <1>3, <1>4, <1>5, <1>7 DEF Committed
<1>9. Life!Refund
  BY <1>8, PurchaseOutcomes, BillOutcomes DEF Life!Refund
<1> QED BY <1>8, <1>9, PurchaseOutcomes DEF GoodCommit, Life!Next

LEMMA CommitGood ==
    ASSUME LocksInv, NEW t \in Txs, Commit(t)
    PROVE  GoodCommit
<1>1. does[t] \in Requests
  BY CommitWrites
<1> QED BY <1>1, CommitPurchase, CommitCancelPurchase, CommitDeletePlan,
           CommitCloseExpired, CommitBan, CommitBanBilling, CommitExpireBatch,
           CommitIngest, CommitSupplement, CommitMarkRefunded DEF Requests

-----------------------------------------------------------------------------

LEMMA CommitKeeps ==
    ASSUME LocksInv, NEW t \in Txs, Commit(t)
    PROVE  LocksInv'
<1>1. /\ End(t, "idle") /\ late' = late
      /\ row' = [r \in Rows |-> IF written[t][r] = "same" THEN row[r] ELSE written[t][r]]
  BY DEF Commit
<1>2. late' \in BOOLEAN
  BY <1>1 DEF LocksInv, RowsTyped, LocksTypeOK
<1>3. /\ \A r \in Rows : row'[r] = row[r] \/ holder[r] = t
      /\ \A r \in Rows : row'[r] \in Statuses \ {"overdue"}
  BY CommitWrites
<1>4. row' \in [Rows -> Statuses]
  BY <1>1, <1>3
<1> QED BY <1>1, <1>2, <1>3, <1>4, EndKeeps

(* A step other than a commit writes no row.                               *)
LEMMA NextLocks ==
    ASSUME LocksInv, [LocksNext]_lockVars
    PROVE  LocksInv' /\ GoodCommit
<1> DEFINE Fine == LocksInv' /\ GoodCommit
<1>1. ASSUME row' = row PROVE GoodCommit
  BY <1>1, NothingCommitted
<1>2. ASSUME NEW t \in Txs, NEW as \in {"idle", "failed"}, End(t, as),
             UNCHANGED <<row, late>>
      PROVE  Fine
  <2>1. /\ late' \in BOOLEAN /\ row' \in [Rows -> Statuses]
        /\ \A r \in Rows : row'[r] # "overdue"
        /\ \A r \in Rows : row'[r] = row[r] \/ holder[r] = t
    BY <1>2 DEF LocksInv, RowsTyped, LocksTypeOK
  <2>2. LocksInv'
    BY <1>2, <2>1, EndKeeps
  <2> QED BY <1>1, <1>2, <2>2
<1>3. CASE Expire
  BY <1>1, <1>3, ExpireKeeps DEF Expire
<1>4. ASSUME NEW t \in Txs, Take(t) PROVE Fine
  <2>1. row' = row
    BY <1>4 DEF Take
  <2> QED BY <1>1, <1>4, <2>1, TakeKeeps
<1>5. ASSUME NEW t \in Txs, Refuse(t) PROVE Fine
  BY <1>2, <1>5 DEF Refuse
<1>6. ASSUME NEW t \in Txs, Commit(t) PROVE Fine
  BY <1>6, CommitKeeps, CommitGood
<1>7. ASSUME NEW t \in Txs, BreakOff(t) PROVE Fine
  BY <1>2, <1>7 DEF BreakOff
<1>8. ASSUME NEW t \in Txs, Retry(t) PROVE Fine
  <2>1. row' = row
    BY <1>8 DEF Retry
  <2> QED BY <1>1, <1>8, <2>1, RetryKeeps
<1>9. ASSUME NEW t \in Txs, GiveUp(t) PROVE Fine
  BY <1>2, <1>9 DEF GiveUp
<1>10. ASSUME NEW t \in Txs, NEW request \in Offered, Begin(t, request) PROVE Fine
  <2>1. row' = row
    BY <1>10 DEF Begin
  <2> QED BY <1>1, <1>10, <2>1, BeginKeeps
<1>11. CASE UNCHANGED lockVars
  <2>1. UNCHANGED <<row, late, holder, does, step, run, at, written>>
    BY <1>11 DEF lockVars
  <2>2. RowsTyped'
    BY <2>1 DEF LocksInv, RowsTyped, LocksTypeOK
  <2>3. RowsHeld'
    <3> SUFFICES ASSUME NEW u \in Txs
                 PROVE  /\ step'[u] > 1 => Busy(u)'
                        /\ Busy(u)' => step'[u] <= Len(Script[does'[u]]) + 1
                        /\ \A i \in Passed(u)' : Past(u, Script[does[u]][i])'
                        /\ \A r \in Rows : written'[u][r] # "same" =>
                              \E i \in Passed(u)' : Script[does'[u]][i].row = r
      BY DEF RowsHeld
    <3> QED BY <2>1, Same
  <2> QED BY <1>1, <2>1, <2>2, <2>3 DEF LocksInv
<1> HIDE DEF Fine
<1> QED BY <1>3, <1>4, <1>5, <1>6, <1>7, <1>8, <1>9, <1>10, <1>11 DEF LocksNext, Proceed, Fine

LEMMA LocksAlways == LocksSpec => []LocksInv
<1>1. LocksInv /\ [LocksNext]_lockVars => LocksInv'
  BY NextLocks
<1> QED BY InitLocks, <1>1, PTL DEF LocksSpec

(* Rows, scripts and locks keep their types: no transaction gets past the  *)
(* end of its script, is run more often than InTx allows, or commits       *)
(* "overdue", which is only ever a judgement.                              *)
THEOREM LocksTyped == LocksSpec => []LocksTypeOK
BY LocksAlways, PTL DEF LocksInv, RowsTyped

(* Whoever locks what in which order, and however often deadlocks undo     *)
(* them, the transactions move a purchase and its bill as one: a row that  *)
(* is locked is still what it was locked for when the writes are committed.*)
THEOREM LocksImplementLife == LocksSpec => ImplementsLife
<1>1. LocksInit => Life!Init
  BY DEF LocksInit, Life!Init, Rows
<1>2. LocksInv /\ [LocksNext]_lockVars => [Life!Next]_(Life!vars)
  BY NextLocks DEF GoodCommit
<1> QED BY LocksAlways, <1>1, <1>2, PTL DEF LocksSpec, ImplementsLife, Life!Spec

(* DeletePlan and Purchase exclude each other by the row of the plan: no   *)
(* pending purchase of a deleted plan is ever committed.                   *)
THEOREM DeletedWhileLocked == LocksSpec => []DeletedPlanHasNoPending
<1>1. LocksInit => DeletedPlanHasNoPending
  BY DEF LocksInit, DeletedPlanHasNoPending, Rows
<1>2. LocksInv /\ DeletedPlanHasNoPending /\ [LocksNext]_lockVars => DeletedPlanHasNoPending'
  BY NextLocks DEF GoodCommit, DeletedPlanHasNoPending
<1> QED BY LocksAlways, <1>1, <1>2, PTL DEF LocksSpec

-----------------------------------------------------------------------------
(* Deadlocks.                                                              *)

(* Nobody has a row that it is not past a statement of.                    *)
HeldInOrder ==
    \A t \in Txs, r \in Rows :
        holder[r] = t => \E i \in Passed(t) : Script[does[t]][i].row = r

LEMMA InitHeld == LocksInit => HeldInOrder
BY LocksAssumption DEF LocksInit, HeldInOrder

(* Whoever is not concerned still is past what it has.                     *)
LEMMA HeldSame ==
    ASSUME HeldInOrder, NEW u \in Txs, NEW r \in Rows, holder[r] = u,
           does'[u] = does[u], step'[u] = step[u]
    PROVE  \E i \in Passed(u)' : Script[does'[u]][i].row = r
<1>1. Passed(u)' = Passed(u)
  BY DEF Passed
<1>2. \E i \in Passed(u) : Script[does[u]][i].row = r
  BY DEF HeldInOrder
<1> QED BY <1>1, <1>2

LEMMA ReleasedHeld ==
    ASSUME LocksInv, HeldInOrder, NEW t \in Txs, holder' = Released(t),
           \A u \in Txs : u # t => does'[u] = does[u] /\ step'[u] = step[u]
    PROVE  HeldInOrder'
<1> SUFFICES ASSUME NEW u \in Txs, NEW r \in Rows, holder'[r] = u
             PROVE  \E i \in Passed(u)' : Script[does'[u]][i].row = r
  BY DEF HeldInOrder
<1>1. u # t /\ holder[r] = u
  BY LocksAssumption DEF Released
<1> QED BY <1>1, HeldSame

LEMMA EndHeld ==
    ASSUME LocksInv, HeldInOrder, NEW t \in Txs, NEW as, End(t, as)
    PROVE  HeldInOrder'
<1>1. holder' = Released(t)
  BY DEF End
<1>2. \A u \in Txs : u # t => does'[u] = does[u] /\ step'[u] = step[u]
  BY DEF End, LocksInv, RowsTyped, LocksTypeOK
<1> QED BY <1>1, <1>2, ReleasedHeld

LEMMA TakeHeld ==
    ASSUME LocksInv, HeldInOrder, NEW t \in Txs, Take(t)
    PROVE  HeldInOrder'
<1> SUFFICES ASSUME NEW u \in Txs, NEW r \in Rows, holder'[r] = u
             PROVE  \E i \in Passed(u)' : Script[does'[u]][i].row = r
  BY DEF HeldInOrder
<1>1. PICK L : L = Line(t)
  OBVIOUS
<1>2. /\ does' = does /\ holder' = [holder EXCEPT ![L.row] = t]
      /\ step' = [step EXCEPT ![t] = @ + 1]
  BY <1>1 DEF Take
<1>3. /\ holder \in [Rows -> Txs \cup {None}] /\ step \in [Txs -> Nat \ {0}]
  BY DEF LocksInv, RowsTyped, LocksTypeOK
<1>4. CASE u # t
  <2>1. holder[r] = u /\ step'[u] = step[u]
    BY <1>2, <1>3, <1>4
  <2> QED BY <1>2, <2>1, HeldSame
<1>5. CASE u = t
  <2>1. Passed(t)' = Passed(t) \cup {step[t]}
    <3>1. step[t] \in Nat /\ step[t] >= 1 /\ step'[t] - 1 = step[t]
      BY <1>2, <1>3
    <3>2. 1 .. step[t] = (1 .. (step[t] - 1)) \cup {step[t]}
      BY <3>1
    <3> QED BY <3>1, <3>2 DEF Passed
  <2>2. CASE r = L.row
    <3>1. Script[does[t]][step[t]].row = r
      BY <1>1, <2>2 DEF Line
    <3> QED BY <1>2, <1>5, <2>1, <3>1
  <2>3. CASE r # L.row
    <3>1. holder[r] = t
      BY <1>2, <1>3, <1>5, <2>3
    <3>2. \E i \in Passed(t) : Script[does[t]][i].row = r
      BY <3>1 DEF HeldInOrder
    <3> QED BY <1>2, <1>5, <2>1, <3>2
  <2> QED BY <2>2, <2>3
<1> QED BY <1>4, <1>5

(* A connection that is not busy has nothing.                              *)
LEMMA BeginHeld ==
    ASSUME LocksInv, HeldInOrder, NEW t \in Txs, NEW request \in Offered,
           Begin(t, request)
    PROVE  HeldInOrder'
<1> SUFFICES ASSUME NEW u \in Txs, NEW r \in Rows, holder'[r] = u
             PROVE  \E i \in Passed(u)' : Script[does'[u]][i].row = r
  BY DEF HeldInOrder
<1>1. /\ ~Busy(t) /\ does' = [does EXCEPT ![t] = request]
      /\ holder' = holder /\ step' = step
  BY DEF Begin
<1>2. PICK i \in Passed(u) : Script[does[u]][i].row = r
  BY <1>1 DEF HeldInOrder
<1>3. u # t
  BY <1>1, <1>2, PassedLines
<1>4. does'[u] = does[u]
  BY <1>1, <1>3 DEF LocksInv, RowsTyped, LocksTypeOK
<1> QED BY <1>1, <1>4, HeldSame

LEMMA NextHeld ==
    ASSUME LocksInv, HeldInOrder, [LocksNext]_lockVars
    PROVE  HeldInOrder'
<1>1. ASSUME UNCHANGED <<holder, does, step>> PROVE HeldInOrder'
  BY <1>1 DEF HeldInOrder, Passed
<1>2. CASE Expire
  BY <1>1, <1>2 DEF Expire
<1>3. ASSUME NEW t \in Txs, Take(t) PROVE HeldInOrder'
  BY <1>3, TakeHeld
<1>4. ASSUME NEW t \in Txs, Refuse(t) \/ Commit(t) \/ BreakOff(t) \/ GiveUp(t)
      PROVE  HeldInOrder'
  BY <1>4, EndHeld DEF Refuse, Commit, BreakOff, GiveUp
<1>5. ASSUME NEW t \in Txs, Retry(t) PROVE HeldInOrder'
  <2>1. /\ holder' = Released(t) /\ does' = does
        /\ step' = [step EXCEPT ![t] = 1]
    BY <1>5 DEF Retry
  <2>2. \A u \in Txs : u # t => does'[u] = does[u] /\ step'[u] = step[u]
    BY <2>1 DEF LocksInv, RowsTyped, LocksTypeOK
  <2> QED BY <2>1, <2>2, ReleasedHeld
<1>6. ASSUME NEW t \in Txs, NEW request \in Offered, Begin(t, request)
      PROVE  HeldInOrder'
  BY <1>6, BeginHeld
<1>7. CASE UNCHANGED lockVars
  BY <1>1, <1>7 DEF lockVars
<1> QED BY <1>2, <1>3, <1>4, <1>5, <1>6, <1>7 DEF LocksNext, Proceed

(* Script s takes its rows in the order in which p places them.            *)
InOrder(s, p) ==
    \A i, j \in 1 .. Len(s) : i < j => p[s[i].row] < p[s[j].row]

(* Transactions that all take their rows in one order do not wait in a     *)
(* circle: whoever is waited for waits for a later row than whoever waits  *)
(* for it, so that the first rows, and so all, are waited for by nobody.   *)
LEMMA OneOrder ==
    ASSUME LocksInv, HeldInOrder, NEW C \in SUBSET Txs, Circle(C),
           NEW p \in [Rows -> 1 .. 6],
           \A t \in C : Busy(t) => InOrder(Script[does[t]], p)
    PROVE  C = {}
<1> DEFINE Later(k) == \A u, v \in C : WaitsFor(u, v) => p[Line(u).row] > k
<1>1. ASSUME NEW u \in C, NEW v \in C, WaitsFor(u, v)
      PROVE  /\ step[u] \in 1 .. Len(Script[does[u]]) /\ Line(u).row \in Rows
             /\ Len(Script[does[u]]) \in Nat
             /\ Busy(u) /\ holder[Line(u).row] = v /\ p[Line(u).row] \in 1 .. 6
  <2>1. Busy(u) /\ ~AllDone(u) /\ holder[Line(u).row] = v
    BY <1>1 DEF WaitsFor
  <2>2. Whole(Script[does[u]])
    BY <2>1, LocksAssumption, ScriptsWhole DEF Busy
  <2>3. PICK n \in Nat : n = Len(Script[does[u]])
    BY <2>2 DEF Whole
  <2>4. step[u] \in Nat \ {0}
    BY DEF LocksInv, RowsTyped, LocksTypeOK
  <2>5. ~(step[u] > n)
    BY <2>1, <2>3 DEF AllDone
  <2>6. step[u] \in 1 .. n
    BY <2>4, <2>5
  <2>7. Line(u) \in Statement
    BY <2>2, <2>3, <2>6 DEF Whole, Line
  <2>8. Line(u).row \in Rows
    BY <2>7 DEF Statement
  <2>9. p[Line(u).row] \in 1 .. 6
    BY <2>8
  <2> QED BY <2>1, <2>3, <2>6, <2>8, <2>9
<1>2. ASSUME NEW u \in C, NEW v \in C, WaitsFor(u, v),
             NEW w \in C, WaitsFor(w, u)
      PROVE  p[Line(w).row] < p[Line(u).row]
  <2>1. /\ holder[Line(w).row] = u /\ Line(w).row \in Rows
    BY <1>2, <1>1
  <2>2. PICK i \in Passed(u) : Script[does[u]][i].row = Line(w).row
    BY <2>1 DEF HeldInOrder
  <2>3. i \in 1 .. Len(Script[does[u]])
    BY <2>2, PassedLines
  <2>4. step[u] \in 1 .. Len(Script[does[u]]) /\ Busy(u)
    BY <1>2, <1>1
  <2>5. i < step[u]
    BY <2>4 DEF Passed
  <2>6. InOrder(Script[does[u]], p)
    BY <2>4
  <2> QED BY <2>2, <2>3, <2>4, <2>5, <2>6 DEF InOrder, Line
<1>3. ASSUME NEW k \in Nat, Later(k) PROVE Later(k + 1)
  <2> SUFFICES ASSUME NEW u \in C, NEW v \in C, WaitsFor(u, v)
               PROVE  p[Line(u).row] > k + 1
    OBVIOUS
  <2>1. PICK w \in C : WaitsFor(w, u)
    BY DEF Circle
  <2>2. p[Line(w).row] > k
    BY <1>3, <2>1
  <2>3. p[Line(w).row] < p[Line(u).row]
    BY <1>2, <2>1
  <2>4. p[Line(w).row] \in Nat /\ p[Line(u).row] \in Nat
    BY <1>1, <2>1
  <2> QED BY <2>2, <2>3, <2>4
<1>4. Later(0)
  BY <1>1
<1> HIDE DEF Later
<1>5. Later(6)
  <2>1. Later(1)
    BY <1>3, <1>4
  <2>2. Later(2)
    BY <1>3, <2>1
  <2>3. Later(3)
    BY <1>3, <2>2
  <2>4. Later(4)
    BY <1>3, <2>3
  <2>5. Later(5)
    BY <1>3, <2>4
  <2> QED BY <1>3, <2>5
<1>6. ASSUME NEW v \in C PROVE FALSE
  <2>1. PICK u \in C : WaitsFor(u, v)
    BY DEF Circle
  <2>2. p[Line(u).row] > 6
    BY <1>5, <2>1 DEF Later
  <2> QED BY <1>1, <2>1, <2>2
<1> QED BY <1>6

LEMMA InOrderTwo ==
    ASSUME NEW p \in [Rows -> 1 .. 6], NEW a, NEW b,
           a.row \in Rows, b.row \in Rows, p[a.row] < p[b.row]
    PROVE  InOrder(<<a, b>>, p)
BY DEF InOrder

LEMMA InOrderThree ==
    ASSUME NEW p \in [Rows -> 1 .. 6], NEW a, NEW b, NEW c,
           a.row \in Rows, b.row \in Rows, c.row \in Rows,
           p[a.row] < p[b.row], p[b.row] < p[c.row]
    PROVE  InOrder(<<a, b, c>>, p)
BY DEF InOrder

LEMMA InOrderFour ==
    ASSUME NEW p \in [Rows -> 1 .. 6], NEW a, NEW b, NEW c, NEW d,
           a.row \in Rows, b.row \in Rows, c.row \in Rows, d.row \in Rows,
           p[a.row] < p[b.row], p[b.row] < p[c.row], p[c.row] < p[d.row]
    PROVE  InOrder(<<a, b, c, d>>, p)
BY DEF InOrder

LEMMA InOrderSix ==
    ASSUME NEW p \in [Rows -> 1 .. 6],
           NEW a, NEW b, NEW c, NEW d, NEW e, NEW f,
           a.row \in Rows, b.row \in Rows, c.row \in Rows, d.row \in Rows,
           e.row \in Rows, f.row \in Rows,
           p[a.row] < p[b.row], p[b.row] < p[c.row], p[c.row] < p[d.row],
           p[d.row] < p[e.row], p[e.row] < p[f.row]
    PROVE  InOrder(<<a, b, c, d, e, f>>, p)
BY DEF InOrder

(* The order of the payment service.                                       *)
BillOrder ==
    [r \in Rows |-> CASE r = "billing" -> 1 [] r = "order" -> 2
                      [] r = "purchase" -> 3 [] r = "sub" -> 4
                      [] r = "buyer" -> 5 [] r = "plan" -> 6]

(* The order of the subscription service and of bans: the merchants by     *)
(* their ids.                                                              *)
PurchaseOrder ==
    [r \in Rows |-> CASE r = First.row -> 1 [] r = Second.row -> 2
                      [] r = "plan" -> 3 [] r = "sub" -> 4
                      [] r = "purchase" -> 5 [] r = "order" -> 6]

LEMMA BillSide ==
    /\ BillOrder \in [Rows -> 1 .. 6]
    /\ \A q \in Requests \ PurchaseFirst : InOrder(Script[q], BillOrder)
<1>1. /\ BillOrder["billing"] = 1 /\ BillOrder["order"] = 2
      /\ BillOrder["purchase"] = 3 /\ BillOrder["sub"] = 4
      /\ BillOrder["buyer"] = 5 /\ BillOrder["plan"] = 6
  BY DEF BillOrder, Rows
<1>2. BillOrder \in [Rows -> 1 .. 6]
  BY <1>1 DEF BillOrder, Rows
<1> HIDE DEF BillOrder
<1>3. /\ "billing" \in Rows /\ "order" \in Rows /\ "purchase" \in Rows
      /\ "sub" \in Rows /\ "buyer" \in Rows /\ "plan" \in Rows
  BY DEF Rows
<1>4. ASSUME NEW bill, bill.row = "order"
      PROVE  InOrder(<<Lock("billing"), bill>>, BillOrder)
  <2>1. Lock("billing").row = "billing"
    BY Columns
  <2> QED BY <1>1, <1>2, <1>3, <1>4, <2>1, InOrderTwo
<1>5. InOrder(Script["BanBilling"], BillOrder)
  <2>1. Find("order", Unpaid, "expired").row = "order"
    BY Columns
  <2> QED BY <1>4, <2>1, Scripts
<1>6. InOrder(Script["ExpireBatch"], BillOrder)
  <2>1. Find("order", {"overdue"}, "expired").row = "order"
    BY Columns
  <2> QED BY <1>4, <2>1, Scripts
<1>7. ASSUME NEW bill, bill.row = "order"
      PROVE  InOrder(<<Lock("billing"), bill, PurchasePaid, Lock("sub"),
                       Lock("buyer"), Lock("plan")>>, BillOrder)
  <2>1. /\ Lock("billing").row = "billing" /\ PurchasePaid.row = "purchase"
        /\ Lock("sub").row = "sub" /\ Lock("buyer").row = "buyer"
        /\ Lock("plan").row = "plan"
    BY Columns
  <2> QED BY <1>1, <1>2, <1>3, <1>7, <2>1, InOrderSix
<1>8. InOrder(Script["Ingest"], BillOrder)
  <2>1. Find("order", {"pending"}, "paid").row = "order"
    BY Columns
  <2> QED BY <1>7, <2>1, Scripts
<1>9. InOrder(Script["Supplement"], BillOrder)
  <2>1. Need("order", Unpaid \cup {"expired"}, "paid").row = "order"
    BY Columns
  <2> QED BY <1>7, <2>1, Scripts
<1>10. InOrder(Script["MarkRefunded"], BillOrder)
  <2>1. /\ Lock("billing").row = "billing" /\ Lock("sub").row = "sub"
        /\ Need("order", {"paid"}, "refunded").row = "order"
        /\ Need("purchase", {"paid"}, "refunded").row = "purchase"
    BY Columns
  <2>2. InOrder(<<Lock("billing"), Need("order", {"paid"}, "refunded"),
                  Need("purchase", {"paid"}, "refunded"), Lock("sub")>>, BillOrder)
    BY <1>1, <1>2, <1>3, <2>1, InOrderFour
  <2> QED BY <2>2, Scripts
<1> QED BY <1>2, <1>5, <1>6, <1>8, <1>9, <1>10 DEF Requests, PurchaseFirst

LEMMA PurchaseSide ==
    /\ PurchaseOrder \in [Rows -> 1 .. 6]
    /\ \A q \in Requests \ BillFirst : InOrder(Script[q], PurchaseOrder)
<1>1. {First.row, Second.row} = {"buyer", "billing"} /\ First.row # Second.row
  BY DEF First, Second, Lock
<1>2. /\ PurchaseOrder[First.row] = 1 /\ PurchaseOrder[Second.row] = 2
      /\ PurchaseOrder["plan"] = 3 /\ PurchaseOrder["sub"] = 4
      /\ PurchaseOrder["purchase"] = 5 /\ PurchaseOrder["order"] = 6
  BY <1>1 DEF PurchaseOrder, Rows
<1>3. PurchaseOrder \in [Rows -> 1 .. 6]
  BY <1>1, <1>2 DEF PurchaseOrder, Rows
<1> HIDE DEF PurchaseOrder
<1>4. /\ First.row \in Rows /\ Second.row \in Rows /\ "order" \in Rows
      /\ "purchase" \in Rows /\ "sub" \in Rows /\ "plan" \in Rows
      /\ "buyer" \in Rows /\ "billing" \in Rows
  BY <1>1 DEF Rows
<1>5. PurchaseOrder["buyer"] \in {1, 2} /\ PurchaseOrder["billing"] \in {1, 2}
  BY <1>1, <1>2
<1>6. /\ Lock("buyer").row = "buyer" /\ Lock("billing").row = "billing"
      /\ Lock("sub").row = "sub" /\ OnSale.row = "plan"
      /\ PurchaseSold.row = "purchase" /\ PurchaseFound.row = "purchase"
      /\ BillOpened.row = "order" /\ BillDropped.row = "order"
  BY Columns
<1>7. InOrder(Script["Purchase"], PurchaseOrder)
  <2>1. InOrder(<<First, Second, OnSale, Lock("sub"), PurchaseSold, BillOpened>>,
                PurchaseOrder)
    BY <1>2, <1>3, <1>4, <1>6, InOrderSix
  <2> QED BY <2>1, Scripts
<1>8. InOrder(Script["CancelPurchase"], PurchaseOrder)
  <2>1. Need("purchase", Unpaid, "cancelled").row = "purchase"
    BY Columns
  <2>2. InOrder(<<Lock("buyer"), Need("purchase", Unpaid, "cancelled"), BillDropped>>,
                PurchaseOrder)
    BY <1>2, <1>3, <1>4, <1>5, <1>6, <2>1, InOrderThree
  <2> QED BY <2>2, Scripts
<1>9. InOrder(Script["DeletePlan"], PurchaseOrder)
  <2>1. Need("plan", {"sold"}, "deleted").row = "plan"
    BY Columns
  <2>2. InOrder(<<Need("plan", {"sold"}, "deleted"), PurchaseFound, BillDropped>>,
                PurchaseOrder)
    BY <1>2, <1>3, <1>4, <1>6, <2>1, InOrderThree
  <2> QED BY <2>2, Scripts
<1>10. InOrder(Script["CloseExpired"], PurchaseOrder)
  <2>1. Find("purchase", {"overdue"}, "expired").row = "purchase"
    BY Columns
  <2>2. InOrder(<<Lock("buyer"), Find("purchase", {"overdue"}, "expired")>>,
                PurchaseOrder)
    BY <1>2, <1>3, <1>4, <1>5, <1>6, <2>1, InOrderTwo
  <2> QED BY <2>2, Scripts
<1>11. InOrder(Script["BanBuyer"], PurchaseOrder)
  <2>1. InOrder(<<First, Second, PurchaseFound, BillDropped>>, PurchaseOrder)
    BY <1>2, <1>3, <1>4, <1>6, InOrderFour
  <2> QED BY <2>1, Scripts
<1>12. ASSUME NEW bill, bill.row = "order"
       PROVE  InOrder(<<Lock("billing"), bill>>, PurchaseOrder)
  BY <1>2, <1>3, <1>4, <1>5, <1>6, <1>12, InOrderTwo
<1>13. InOrder(Script["BanBilling"], PurchaseOrder)
  <2>1. Find("order", Unpaid, "expired").row = "order"
    BY Columns
  <2> QED BY <1>12, <2>1, Scripts
<1>14. InOrder(Script["ExpireBatch"], PurchaseOrder)
  <2>1. Find("order", {"overdue"}, "expired").row = "order"
    BY Columns
  <2> QED BY <1>12, <2>1, Scripts
<1> QED BY <1>3, <1>7, <1>8, <1>9, <1>10, <1>11, <1>13, <1>14 DEF Requests, BillFirst

LEMMA CirclesCross == LocksInv /\ HeldInOrder => DeadlocksCross
<1> SUFFICES ASSUME LocksInv, HeldInOrder, NEW C \in (SUBSET Txs) \ {{}}, Circle(C)
             PROVE  /\ \E t \in C : does[t] \in BillFirst
                    /\ \E t \in C : does[t] \in PurchaseFirst
  BY DEF DeadlocksCross
<1>1. \A t \in C : Busy(t) => does[t] \in Requests
  BY LocksAssumption DEF Busy
<1>2. ASSUME \A t \in C : does[t] \notin BillFirst PROVE FALSE
  <2>1. \A t \in C : Busy(t) => InOrder(Script[does[t]], PurchaseOrder)
    BY <1>1, <1>2, PurchaseSide
  <2>2. PurchaseOrder \in [Rows -> 1 .. 6]
    BY PurchaseSide
  <2>3. C = {}
    BY <2>1, <2>2, OneOrder
  <2> QED BY <2>3
<1>3. ASSUME \A t \in C : does[t] \notin PurchaseFirst PROVE FALSE
  <2>1. \A t \in C : Busy(t) => InOrder(Script[does[t]], BillOrder)
    BY <1>1, <1>3, BillSide
  <2>2. BillOrder \in [Rows -> 1 .. 6]
    BY BillSide
  <2>3. C = {}
    BY <2>1, <2>2, OneOrder
  <2> QED BY <2>3
<1> QED BY <1>2, <1>3

(* However many transactions run, a deadlock of a purchase and its bill    *)
(* is between the payment service, which takes the bill first, and the     *)
(* subscription service or a ban, which take the purchase first: each of   *)
(* the two alone has one order of the rows and never loses a transaction.  *)
THEOREM DeadlocksAreCrossings == LocksSpec => []DeadlocksCross
<1>1. LocksInv /\ HeldInOrder /\ [LocksNext]_lockVars => HeldInOrder'
  BY NextHeld
<1> QED BY LocksAlways, InitHeld, <1>1, CirclesCross, PTL DEF LocksSpec
=============================================================================
