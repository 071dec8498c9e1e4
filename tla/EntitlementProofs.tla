------------------------- MODULE EntitlementProofs --------------------------
(***************************************************************************)
(* Proofs about entitlements (Subscriptions): what the live grants of a    *)
(* chain add up to, whatever is bought, renewed, switched, refunded and    *)
(* granted by hand.                                                        *)
(*                                                                         *)
(* The induction over a chain is one over finite sets: a smallest set that *)
(* were an exception has a latest grant, and is none without it.           *)
(***************************************************************************)
EXTENDS SubscriptionsProofs

-----------------------------------------------------------------------------
(* Finite sets.                                                            *)

(* Among finite subsets of X, one that is in Bad while nothing smaller is. *)
LEMMA SmallestBad ==
    ASSUME NEW X, NEW Bad \in SUBSET FiniteSubsetsOf(X), Bad # {}
    PROVE  \E S \in Bad : \A x \in S : S \ {x} \notin Bad
<1> DEFINE R == StrictSubsetOrdering(X)
<1>1. IsWellFoundedOn(R, FiniteSubsetsOf(X))
  BY FS_StrictSubsetOrderingWellFounded
<1>2. PICK S \in Bad : \A T \in Bad : ~ (<<T, S>> \in R)
  <2> HIDE DEF R
  <2> QED BY <1>1, WFMin
<1>3. ASSUME NEW x \in S PROVE S \ {x} \notin Bad
  <2>1. S \in SUBSET X
    BY DEF FiniteSubsetsOf
  <2>2. <<S \ {x}, S>> \in R
    BY <1>3, <2>1 DEF StrictSubsetOrdering
  <2> QED BY <1>2, <2>2
<1> QED BY <1>3

LEMMA SmallestNumber ==
    ASSUME NEW S \in SUBSET Nat, S # {}
    PROVE  \E n \in S : n - 1 \notin S
<1> DEFINE Bad == {0 .. n - 1 : n \in S}
<1>1. Bad \in SUBSET FiniteSubsetsOf(Nat) /\ Bad # {}
  <2>1. ASSUME NEW n \in S PROVE 0 .. n - 1 \in FiniteSubsetsOf(Nat)
    BY FS_Interval DEF FiniteSubsetsOf
  <2> QED BY <2>1
<1>2. PICK T \in Bad : \A x \in T : T \ {x} \notin Bad
  <2> HIDE DEF Bad
  <2> QED BY <1>1, SmallestBad
<1>3. PICK n \in S : T = 0 .. n - 1
  BY <1>2
<1>4. ASSUME n - 1 \in S PROVE FALSE
  <2>1. n \in Nat /\ n - 1 \in Nat
    BY <1>4
  <2>2. n - 1 \in T /\ T \ {n - 1} = 0 .. (n - 1) - 1
    BY <1>3, <2>1
  <2>3. T \ {n - 1} \in Bad
    BY <1>4, <2>2
  <2> QED BY <1>2, <2>2, <2>3
<1> QED BY <1>4

-----------------------------------------------------------------------------
(* The latest grant.                                                       *)

(* Grants as a chain holds them: their dates are dates, no two take effect *)
(* together, and each has a fixed end or a duration.                       *)
Dated(G, S) ==
    /\ IsFiniteSet(S)
    /\ \A g \in S : /\ G[g].effective \in Nat /\ G[g].duration \in Nat
                    /\ G[g].fixed \in Nat
                    /\ G[g].fixed = 0 => G[g].duration > 0
    /\ \A g, h \in S : G[g].effective = G[h].effective => g = h

SameDates(G, H, S) ==
    \A g \in S : /\ G[g].effective = H[g].effective
                 /\ G[g].duration = H[g].duration
                 /\ G[g].fixed = H[g].fixed

LEMMA DatedPart ==
    ASSUME NEW G, NEW S, NEW T \in SUBSET S, Dated(G, S)
    PROVE  Dated(G, T)
BY FS_Subset DEF Dated

LEMMA DatedSame ==
    ASSUME NEW G, NEW H, NEW S, Dated(G, S), SameDates(G, H, S)
    PROVE  Dated(H, S)
BY DEF Dated, SameDates

LEMMA LatestExists ==
    ASSUME NEW G, NEW S, Dated(G, S), S # {}
    PROVE  \E g \in S : \A h \in S : G[h].effective <= G[g].effective
<1> DEFINE Good(T) == \E g \in T : \A h \in T : G[h].effective <= G[g].effective
           Bad == {T \in SUBSET S : T # {} /\ ~Good(T)}
<1>1. \A g \in S : G[g].effective \in Nat
  BY DEF Dated
<1>2. SUFFICES ASSUME S \in Bad PROVE FALSE
  OBVIOUS
<1>3. Bad \in SUBSET FiniteSubsetsOf(S)
  BY FS_Subset DEF Dated, FiniteSubsetsOf
<1>4. PICK T \in Bad : \A x \in T : T \ {x} \notin Bad
  <2> HIDE DEF Bad
  <2> QED BY <1>2, <1>3, SmallestBad
<1>5. PICK x \in T : TRUE
  OBVIOUS
<1>6. CASE T = {x}
  BY <1>1, <1>6
<1>7. CASE T # {x}
  <2>1. Good(T \ {x})
    BY <1>4, <1>5, <1>7
  <2>2. PICK g \in T \ {x} : \A h \in T \ {x} : G[h].effective <= G[g].effective
    BY <2>1
  <2>3. CASE G[x].effective <= G[g].effective
    BY <2>2, <2>3
  <2>4. CASE ~(G[x].effective <= G[g].effective)
    <3>1. \A h \in T : G[h].effective <= G[x].effective
      BY <1>1, <1>5, <2>2, <2>4
    <3> QED BY <1>5, <3>1
  <2> QED BY <2>3, <2>4
<1> QED BY <1>6, <1>7

LEMMA LatestLast ==
    ASSUME NEW G, NEW S, Dated(G, S), S # {}
    PROVE  /\ Latest(G, S) \in S
           /\ \A h \in S : G[h].effective <= G[Latest(G, S)].effective
<1>1. \E g \in S : \A h \in S : G[h].effective <= G[g].effective
  BY LatestExists
<1> QED BY <1>1 DEF Latest

LEMMA LatestIs ==
    ASSUME NEW G, NEW S, Dated(G, S), NEW g \in S,
           \A h \in S : G[h].effective <= G[g].effective
    PROVE  Latest(G, S) = g
<1>1. PICK l : l = Latest(G, S)
  OBVIOUS
<1>2. l \in S /\ \A h \in S : G[h].effective <= G[l].effective
  BY <1>1, LatestLast
<1>3. G[l].effective \in Nat /\ G[g].effective \in Nat
  BY <1>2 DEF Dated
<1>4. G[l].effective = G[g].effective
  BY <1>2, <1>3
<1> QED BY <1>1, <1>2, <1>4 DEF Dated

-----------------------------------------------------------------------------
(* The end of a chain.                                                     *)

DateAt(G, date, S) ==
    IF S = {} THEN 0
    ELSE IF G[Latest(G, S)].fixed # 0 THEN G[Latest(G, S)].fixed
    ELSE Max({date[S \ {Latest(G, S)}], G[Latest(G, S)].effective})
         + G[Latest(G, S)].duration

IsDates(G, S, date) == date = [T \in SUBSET S |-> DateAt(G, date, T)]

LEMMA EndDateChosen ==
    ASSUME NEW G, NEW S
    PROVE  EndDate(G, S) = (CHOOSE date : IsDates(G, S, date))[S]
BY DEF EndDate, IsDates, DateAt

(* There are such dates: for sets of up to n grants, then of n + 1.        *)
LEMMA DatesExist ==
    ASSUME NEW G, NEW S, Dated(G, S)
    PROVE  \E date : IsDates(G, S, date)
<1> DEFINE Small(n) == {T \in SUBSET S : Cardinality(T) <= n}
           Good(n) == \E date : date = [T \in Small(n) |-> DateAt(G, date, T)]
           Bad == {n \in Nat : ~Good(n)}
<1>1. ASSUME NEW T \in SUBSET S
      PROVE  IsFiniteSet(T) /\ Cardinality(T) \in Nat /\ Dated(G, T)
  BY FS_Subset, FS_CardinalityType, DatedPart DEF Dated
<1>2. ASSUME NEW T \in SUBSET S, T # {}
      PROVE  /\ Latest(G, T) \in T
             /\ T \ {Latest(G, T)} \in SUBSET S
             /\ Cardinality(T \ {Latest(G, T)}) = Cardinality(T) - 1
  <2>1. Latest(G, T) \in T
    BY <1>1, <1>2, LatestLast
  <2> QED BY <1>1, <2>1, FS_RemoveElement
<1>3. Good(0)
  <2>1. \A T \in Small(0) : T = {}
    BY <1>1, FS_EmptySet
  <2>2. PICK date : date = [T \in Small(0) |-> 0]
    OBVIOUS
  <2>3. \A T \in Small(0) : DateAt(G, date, T) = 0
    BY <2>1 DEF DateAt
  <2>4. date = [T \in Small(0) |-> DateAt(G, date, T)]
    <3> HIDE DEF Small
    <3> QED BY <2>2, <2>3
  <2> QED BY <2>4
<1>4. ASSUME NEW n \in Nat, Good(n) PROVE Good(n + 1)
  <2>1. PICK date : date = [T \in Small(n) |-> DateAt(G, date, T)]
    BY <1>4
  <2>2. PICK next : next = [T \in Small(n + 1) |-> DateAt(G, date, T)]
    OBVIOUS
  <2>3. ASSUME NEW T \in Small(n + 1) PROVE DateAt(G, date, T) = DateAt(G, next, T)
    <3>1. CASE T = {}
      BY <3>1 DEF DateAt
    <3>2. CASE T # {}
      <4>1. PICK U : U = T \ {Latest(G, T)}
        OBVIOUS
      <4>2. U \in Small(n)
        BY <1>1, <1>2, <2>3, <3>2, <4>1
      <4>3. U \in Small(n + 1)
        BY <1>1, <4>2
      <4>4. date[U] = next[U]
        <5> HIDE DEF Small
        <5> QED BY <2>1, <2>2, <4>2, <4>3
      <4> QED BY <3>2, <4>1, <4>4 DEF DateAt
    <3> QED BY <3>1, <3>2
  <2>4. next = [T \in Small(n + 1) |-> DateAt(G, next, T)]
    <3> HIDE DEF Small
    <3> QED BY <2>2, <2>3
  <2> QED BY <2>4
<1>5. \A n \in Nat : Good(n)
  <2> HIDE DEF Good
  <2> SUFFICES ASSUME Bad # {} PROVE FALSE
    OBVIOUS
  <2>1. PICK n \in Bad : n - 1 \notin Bad
    <3>1. Bad \in SUBSET Nat
      OBVIOUS
    <3> HIDE DEF Bad
    <3> QED BY <3>1, SmallestNumber
  <2>2. n # 0
    BY <1>3, <2>1
  <2>3. n - 1 \in Nat
    BY <2>1, <2>2
  <2>4. Good(n - 1)
    BY <2>1, <2>3
  <2>5. Good((n - 1) + 1)
    BY <1>4, <2>3, <2>4
  <2>6. (n - 1) + 1 = n
    BY <2>1
  <2> QED BY <2>1, <2>5, <2>6
<1>6. Cardinality(S) \in Nat /\ Small(Cardinality(S)) = SUBSET S
  BY FS_Subset, FS_CardinalityType DEF Dated
<1>7. Good(Cardinality(S))
  <2> HIDE DEF Good
  <2> QED BY <1>5, <1>6
<1> QED BY <1>6, <1>7 DEF IsDates

(* The dates of a set do not depend on the other grants they are computed  *)
(* with.                                                                   *)
LEMMA DatesAgree ==
    ASSUME NEW G, NEW H, NEW A, NEW B, NEW d, NEW e, NEW S \in SUBSET (A \cap B),
           Dated(G, S), SameDates(G, H, S), IsDates(G, A, d), IsDates(H, B, e)
    PROVE  d[S] = e[S]
<1> DEFINE Bad == {T \in SUBSET S : d[T] # e[T]}
<1> SUFFICES ASSUME S \in Bad PROVE FALSE
  OBVIOUS
<1>1. ASSUME NEW T \in SUBSET S
      PROVE  IsFiniteSet(T) /\ Dated(G, T) /\ Dated(H, T) /\ SameDates(G, H, T)
  <2>1. Dated(G, T)
    BY DatedPart
  <2>2. SameDates(G, H, T)
    BY DEF SameDates
  <2> QED BY <2>1, <2>2, DatedSame DEF Dated
<1>2. Bad \in SUBSET FiniteSubsetsOf(S)
  BY <1>1 DEF FiniteSubsetsOf
<1>3. PICK T \in Bad : \A x \in T : T \ {x} \notin Bad
  <2> HIDE DEF Bad
  <2> QED BY <1>2, SmallestBad
<1>4. d[T] = DateAt(G, d, T) /\ e[T] = DateAt(H, e, T)
  <2>1. T \in SUBSET A /\ T \in SUBSET B
    BY <1>3
  <2> QED BY <2>1 DEF IsDates
<1>5. CASE T = {}
  BY <1>3, <1>4, <1>5 DEF DateAt
<1>6. CASE T # {}
  <2>1. PICK g : g = Latest(G, T)
    OBVIOUS
  <2>2. g \in T /\ \A h \in T : G[h].effective <= G[g].effective
    BY <1>1, <1>3, <1>6, <2>1, LatestLast
  <2>3. \A h \in T : H[h].effective <= H[g].effective
    BY <1>1, <1>3, <2>2 DEF SameDates
  <2>4. Latest(H, T) = g
    BY <1>1, <1>3, <2>2, <2>3, LatestIs
  <2>5. d[T \ {g}] = e[T \ {g}]
    BY <1>3, <2>2
  <2>6. /\ G[g].effective = H[g].effective /\ G[g].duration = H[g].duration
        /\ G[g].fixed = H[g].fixed
    BY <1>1, <1>3, <2>2 DEF SameDates
  <2>7. DateAt(G, d, T) = DateAt(H, e, T)
    BY <1>6, <2>1, <2>4, <2>5, <2>6 DEF DateAt
  <2> QED BY <1>3, <1>4, <2>7
<1> QED BY <1>5, <1>6

LEMMA EndDateOf ==
    ASSUME NEW G, NEW S, Dated(G, S), NEW T \in SUBSET S, NEW date, IsDates(G, S, date)
    PROVE  date[T] = EndDate(G, T)
<1>1. Dated(G, T)
  BY DatedPart
<1>2. PICK d : d = CHOOSE f : IsDates(G, T, f)
  OBVIOUS
<1>3. IsDates(G, T, d)
  BY <1>1, <1>2, DatesExist
<1>4. EndDate(G, T) = d[T]
  BY <1>2, EndDateChosen
<1>5. SameDates(G, G, T)
  BY DEF SameDates
<1>6. d[T] = date[T]
  BY <1>1, <1>3, <1>5, DatesAgree
<1> QED BY <1>4, <1>6

LEMMA EndDateSame ==
    ASSUME NEW G, NEW H, NEW S, Dated(G, S), SameDates(G, H, S)
    PROVE  EndDate(G, S) = EndDate(H, S)
<1>1. Dated(H, S)
  BY DatedSame
<1>2. PICK d : IsDates(G, S, d)
  BY DatesExist
<1>3. PICK e : IsDates(H, S, e)
  BY <1>1, DatesExist
<1>4. d[S] = e[S]
  BY <1>2, <1>3, DatesAgree
<1> QED BY <1>1, <1>2, <1>3, <1>4, EndDateOf

LEMMA EndDateNone ==
    ASSUME NEW G
    PROVE  EndDate(G, {}) = 0
<1>1. Dated(G, {})
  BY FS_EmptySet DEF Dated
<1>2. PICK date : IsDates(G, {}, date)
  BY <1>1, DatesExist
<1>3. date[{}] = DateAt(G, date, {})
  BY <1>2 DEF IsDates
<1>4. date[{}] = EndDate(G, {})
  BY <1>1, <1>2, EndDateOf
<1> QED BY <1>3, <1>4 DEF DateAt

(* What recomputeChainTx does with the last grant of its list.             *)
LEMMA EndDateLast ==
    ASSUME NEW G, NEW S, Dated(G, S), NEW g \in S,
           \A h \in S : G[h].effective <= G[g].effective
    PROVE  /\ G[g].fixed # 0 => EndDate(G, S) = G[g].fixed
           /\ G[g].fixed = 0 =>
                 EndDate(G, S) = Max({EndDate(G, S \ {g}), G[g].effective})
                                 + G[g].duration
<1>1. Latest(G, S) = g
  BY LatestIs
<1>2. PICK date : IsDates(G, S, date)
  BY DatesExist
<1>3. date[S] = DateAt(G, date, S)
  BY <1>2 DEF IsDates
<1>4. date[S] = EndDate(G, S)
  BY <1>2, EndDateOf
<1>5. date[S \ {g}] = EndDate(G, S \ {g})
  BY <1>2, EndDateOf
<1> QED BY <1>1, <1>3, <1>4, <1>5 DEF DateAt

LEMMA MaxOfTwo ==
    ASSUME NEW m \in Int, NEW n \in Int
    PROVE  Max({m, n}) = IF m >= n THEN m ELSE n
<1>1. CASE m >= n
  <2>1. \A x \in {m, n} : (\A y \in {m, n} : x >= y) => x = m
    BY <1>1
  <2>2. m \in {m, n} /\ \A y \in {m, n} : m >= y
    BY <1>1
  <2> QED BY <1>1, <2>1, <2>2 DEF Max
<1>2. CASE m < n
  <2>1. \A x \in {m, n} : (\A y \in {m, n} : x >= y) => x = n
    BY <1>2
  <2>2. n \in {m, n} /\ \A y \in {m, n} : n >= y
    BY <1>2
  <2> QED BY <1>2, <2>1, <2>2 DEF Max
<1> QED BY <1>1, <1>2

LEMMA EndDateNat ==
    ASSUME NEW G, NEW S, Dated(G, S)
    PROVE  EndDate(G, S) \in Nat
<1> DEFINE Bad == {T \in SUBSET S : EndDate(G, T) \notin Nat}
<1> SUFFICES ASSUME S \in Bad PROVE FALSE
  OBVIOUS
<1>1. Bad \in SUBSET FiniteSubsetsOf(S)
  BY FS_Subset DEF Dated, FiniteSubsetsOf
<1>2. PICK T \in Bad : \A x \in T : T \ {x} \notin Bad
  <2> HIDE DEF Bad
  <2> QED BY <1>1, SmallestBad
<1>3. Dated(G, T) /\ EndDate(G, T) \notin Nat
  BY <1>2, DatedPart
<1>4. T # {}
  BY <1>3, EndDateNone
<1>5. PICK g \in T : \A h \in T : G[h].effective <= G[g].effective
  BY <1>3, <1>4, LatestExists
<1>6. EndDate(G, T \ {g}) \in Nat
  BY <1>2, <1>5
<1>7. G[g].effective \in Nat /\ G[g].duration \in Nat /\ G[g].fixed \in Nat
  BY <1>3, <1>5 DEF Dated
<1>8. CASE G[g].fixed # 0
  BY <1>3, <1>5, <1>7, <1>8, EndDateLast
<1>9. CASE G[g].fixed = 0
  <2>1. Max({EndDate(G, T \ {g}), G[g].effective}) \in Nat
    <3>1. PICK m \in Nat : m = EndDate(G, T \ {g})
      BY <1>6
    <3>2. Max({m, G[g].effective}) = IF m >= G[g].effective THEN m ELSE G[g].effective
      BY <1>7, MaxOfTwo
    <3> QED BY <1>7, <3>1, <3>2
  <2>2. EndDate(G, T) = Max({EndDate(G, T \ {g}), G[g].effective}) + G[g].duration
    BY <1>3, <1>5, <1>9, EndDateLast
  <2> QED BY <1>3, <1>7, <2>1, <2>2
<1> QED BY <1>8, <1>9

(* The same, with numbers that the provers compare.                        *)
LEMMA EndDateAdds ==
    ASSUME NEW G, NEW S, Dated(G, S), NEW g \in S,
           \A h \in S : G[h].effective <= G[g].effective, G[g].fixed = 0
    PROVE  /\ EndDate(G, S \ {g}) \in Nat /\ EndDate(G, S) \in Nat
           /\ EndDate(G, S \ {g}) <= G[g].effective =>
                 EndDate(G, S) = G[g].effective + G[g].duration
           /\ EndDate(G, S \ {g}) >= G[g].effective =>
                 EndDate(G, S) = EndDate(G, S \ {g}) + G[g].duration
<1>1. EndDate(G, S \ {g}) \in Nat /\ EndDate(G, S) \in Nat
  BY DatedPart, EndDateNat
<1>2. G[g].effective \in Nat /\ G[g].duration \in Nat
  BY DEF Dated
<1>3. PICK m \in Nat : m = EndDate(G, S \ {g})
  BY <1>1
<1>4. EndDate(G, S) = Max({m, G[g].effective}) + G[g].duration
  BY <1>3, EndDateLast
<1>5. Max({m, G[g].effective}) = IF m >= G[g].effective THEN m ELSE G[g].effective
  BY <1>2, MaxOfTwo
<1>6. /\ m <= G[g].effective => EndDate(G, S) = G[g].effective + G[g].duration
      /\ m >= G[g].effective => EndDate(G, S) = m + G[g].duration
  BY <1>2, <1>4, <1>5
<1> QED BY <1>1, <1>3, <1>6

(* An entitlement that lasts outlives the beginning of all its grants, so  *)
(* a renewal, which takes effect when it ends, is the latest of them.      *)
LEMMA EndDateAfter ==
    ASSUME NEW G, NEW S, Dated(G, S), NEW t \in Nat, EndDate(G, S) > t,
           \A g \in S : G[g].fixed # 0 => G[g].effective <= t
    PROVE  \A g \in S : G[g].effective < EndDate(G, S)
<1> SUFFICES ASSUME NEW h \in S PROVE G[h].effective < EndDate(G, S)
  OBVIOUS
<1>1. PICK g \in S : \A k \in S : G[k].effective <= G[g].effective
  BY LatestExists
<1>2. /\ G[g].effective \in Nat /\ G[g].duration \in Nat /\ G[h].effective \in Nat
      /\ G[g].fixed = 0 => G[g].duration > 0
      /\ G[h].effective <= G[g].effective
  BY <1>1 DEF Dated
<1>3. EndDate(G, S) \in Nat
  BY EndDateNat
<1>4. CASE G[g].fixed # 0
  BY <1>1, <1>2, <1>3, <1>4
<1>5. CASE G[g].fixed = 0
  <2>1. PICK m \in Nat : m = EndDate(G, S \ {g})
    BY <1>1, <1>5, EndDateAdds
  <2>2. /\ m <= G[g].effective => EndDate(G, S) = G[g].effective + G[g].duration
        /\ m >= G[g].effective => EndDate(G, S) = m + G[g].duration
    BY <1>1, <1>5, <2>1, EndDateAdds
  <2> QED BY <1>2, <1>3, <1>5, <2>2
<1> QED BY <1>4, <1>5

(* Without one of its grants, a chain ends no later.                       *)
LEMMA EndDateShrinks ==
    ASSUME NEW G, NEW S, Dated(G, S), NEW p \in S, G[p].fixed = 0
    PROVE  EndDate(G, S \ {p}) <= EndDate(G, S)
<1> DEFINE Good(T) == EndDate(G, T \ {p}) <= EndDate(G, T)
           Bad == {T \in SUBSET S : p \in T /\ ~Good(T)}
<1> SUFFICES ASSUME S \in Bad PROVE FALSE
  OBVIOUS
<1>1. Bad \in SUBSET FiniteSubsetsOf(S)
  BY FS_Subset DEF Dated, FiniteSubsetsOf
<1>2. PICK T \in Bad : \A x \in T : T \ {x} \notin Bad
  <2> HIDE DEF Bad
  <2> QED BY <1>1, SmallestBad
<1>3. Dated(G, T) /\ p \in T /\ ~Good(T)
  BY <1>2, DatedPart
<1>4. PICK g \in T : \A h \in T : G[h].effective <= G[g].effective
  BY <1>3, LatestExists
<1>5. /\ G[g].effective \in Nat /\ G[g].duration \in Nat
  BY <1>3, <1>4 DEF Dated
<1>6. /\ EndDate(G, T) \in Nat /\ EndDate(G, T \ {p}) \in Nat
      /\ Dated(G, T \ {p}) /\ Dated(G, T \ {g})
  BY <1>3, DatedPart, EndDateNat
<1>7. CASE g = p
  <2>1. PICK m \in Nat : m = EndDate(G, T \ {p})
    BY <1>6
  <2>2. /\ m <= G[g].effective => EndDate(G, T) = G[g].effective + G[g].duration
        /\ m >= G[g].effective => EndDate(G, T) = m + G[g].duration
    BY <1>3, <1>4, <1>7, <2>1, EndDateAdds
  <2>3. m <= EndDate(G, T)
    BY <1>5, <1>6, <2>2
  <2> QED BY <1>3, <2>1, <2>3
<1>8. CASE g # p
  <2>1. g \in T \ {p} /\ \A h \in T \ {p} : G[h].effective <= G[g].effective
    BY <1>4, <1>8
  <2>2. CASE G[g].fixed # 0
    <3>1. EndDate(G, T) = G[g].fixed
      BY <1>3, <1>4, <2>2, EndDateLast
    <3>2. EndDate(G, T \ {p}) = G[g].fixed
      BY <1>6, <2>1, <2>2, EndDateLast
    <3> QED BY <1>3, <1>6, <3>1, <3>2
  <2>3. CASE G[g].fixed = 0
    <3>1. Good(T \ {g})
      BY <1>2, <1>3, <1>4, <1>8
    <3>2. (T \ {g}) \ {p} = (T \ {p}) \ {g}
      OBVIOUS
    <3>3. PICK m \in Nat : m = EndDate(G, T \ {g})
      BY <1>3, <1>4, <2>3, EndDateAdds
    <3>4. PICK n \in Nat : n = EndDate(G, (T \ {p}) \ {g})
      BY <1>6, <2>1, <2>3, EndDateAdds
    <3>5. n <= m
      BY <3>1, <3>2, <3>3, <3>4
    <3>6. /\ m <= G[g].effective => EndDate(G, T) = G[g].effective + G[g].duration
          /\ m >= G[g].effective => EndDate(G, T) = m + G[g].duration
      BY <1>3, <1>4, <2>3, <3>3, EndDateAdds
    <3>7. /\ n <= G[g].effective =>
                EndDate(G, T \ {p}) = G[g].effective + G[g].duration
          /\ n >= G[g].effective => EndDate(G, T \ {p}) = n + G[g].duration
      BY <1>6, <2>1, <2>3, <3>4, EndDateAdds
    <3>8. EndDate(G, T \ {p}) <= EndDate(G, T)
      BY <1>5, <1>6, <3>5, <3>6, <3>7
    <3> QED BY <1>3, <3>8
  <2> QED BY <2>2, <2>3
<1> QED BY <1>7, <1>8

-----------------------------------------------------------------------------
(* The end of a chain without an order: EndOf and EndDate are the same.    *)

Calendar(T) == UNION {{h} \X (1 .. grant[h].duration) : h \in T}
Days(T) == Cardinality(Calendar(T))
Later(S, g) == {h \in S : grant[h].effective > grant[g].effective}
Reach(S, g) == (IF grant[g].fixed # 0 THEN grant[g].fixed
                ELSE grant[g].effective + grant[g].duration) + Days(Later(S, g))
Counting(S) == {g \in S : \A h \in Later(S, g) : grant[h].fixed = 0}

LEMMA EndOfReach ==
    ASSUME NEW S
    PROVE  EndOf(S) = Max({Reach(S, g) : g \in Counting(S)})
BY DEF EndOf, Reach, Counting, Later, Days, Calendar

LEMMA OwnDays ==
    ASSUME NEW g, NEW d \in Nat
    PROVE  IsFiniteSet({g} \X (1 .. d)) /\ Cardinality({g} \X (1 .. d)) = d
<1>1. IsFiniteSet({g}) /\ Cardinality({g}) = 1
  BY FS_Singleton
<1>2. PICK I : I = 1 .. d
  OBVIOUS
<1>3. IsFiniteSet(I) /\ Cardinality(I) = IF 1 > d THEN 0 ELSE d - 1 + 1
  BY <1>2, FS_Interval
<1>4. Cardinality(I) = d
  BY <1>3
<1>5. IsFiniteSet({g} \X I) /\ Cardinality({g} \X I) = Cardinality({g}) * Cardinality(I)
  BY <1>1, <1>3, FS_Product
<1>6. Cardinality({g} \X I) = 1 * d
  BY <1>1, <1>4, <1>5
<1> QED BY <1>2, <1>5, <1>6

LEMMA CalendarAdds ==
    ASSUME NEW T, NEW g
    PROVE  Calendar(T \cup {g}) = Calendar(T) \cup ({g} \X (1 .. grant[g].duration))
BY DEF Calendar

LEMMA CalendarFinite ==
    ASSUME NEW S, Dated(grant, S)
    PROVE  IsFiniteSet(Calendar(S))
<1> DEFINE Bad == {T \in SUBSET S : ~IsFiniteSet(Calendar(T))}
<1> SUFFICES ASSUME S \in Bad PROVE FALSE
  OBVIOUS
<1>1. Bad \in SUBSET FiniteSubsetsOf(S)
  BY FS_Subset DEF Dated, FiniteSubsetsOf
<1>2. PICK T \in Bad : \A x \in T : T \ {x} \notin Bad
  <2> HIDE DEF Bad
  <2> QED BY <1>1, SmallestBad
<1>3. T # {}
  <2>1. Calendar({}) = {}
    BY DEF Calendar
  <2> QED BY <1>2, <2>1, FS_EmptySet
<1>4. PICK g \in T : TRUE
  BY <1>3
<1>5. grant[g].duration \in Nat
  BY <1>2, <1>4 DEF Dated
<1>6. IsFiniteSet({g} \X (1 .. grant[g].duration))
  BY <1>5, OwnDays
<1>7. IsFiniteSet(Calendar(T \ {g}))
  BY <1>2, <1>4
<1>8. Calendar(T) = Calendar(T \ {g}) \cup ({g} \X (1 .. grant[g].duration))
  <2>1. (T \ {g}) \cup {g} = T
    BY <1>4
  <2> QED BY <2>1, CalendarAdds
<1>9. IsFiniteSet(Calendar(T))
  <2>1. PICK A, B : A = Calendar(T \ {g}) /\ B = {g} \X (1 .. grant[g].duration)
    OBVIOUS
  <2>2. IsFiniteSet(A \cup B)
    BY <1>6, <1>7, <2>1, FS_Union
  <2> QED BY <1>8, <2>1, <2>2
<1> QED BY <1>2, <1>9

LEMMA DaysAdd ==
    ASSUME NEW S, Dated(grant, S), NEW T \in SUBSET S, NEW g \in S, g \notin T
    PROVE  /\ Days(T) \in Nat /\ Days(T \cup {g}) \in Nat
           /\ Days(T \cup {g}) = Days(T) + grant[g].duration
<1>1. IsFiniteSet(Calendar(T)) /\ IsFiniteSet(Calendar(T \cup {g}))
  BY DatedPart, CalendarFinite
<1>2. grant[g].duration \in Nat
  BY DEF Dated
<1>3. /\ IsFiniteSet({g} \X (1 .. grant[g].duration))
      /\ Cardinality({g} \X (1 .. grant[g].duration)) = grant[g].duration
  BY <1>2, OwnDays
<1>4. Calendar(T) \cap ({g} \X (1 .. grant[g].duration)) = {}
  BY DEF Calendar
<1>5. Days(T) \in Nat /\ Days(T \cup {g}) \in Nat
  BY <1>1, FS_CardinalityType DEF Days
<1>6. PICK A, B : A = Calendar(T) /\ B = {g} \X (1 .. grant[g].duration)
  OBVIOUS
<1>7. Cardinality(A \cup B) = Cardinality(A) + Cardinality(B) - Cardinality(A \cap B)
  BY <1>1, <1>3, <1>6, FS_Union
<1>8. Cardinality(A \cap B) = 0
  BY <1>4, <1>6, FS_EmptySet
<1>9. Calendar(T \cup {g}) = A \cup B
  BY <1>6, CalendarAdds
<1>10. PICK m \in Nat : m = Cardinality(A) /\ m = Days(T)
  BY <1>5, <1>6 DEF Days
<1>11. Days(T \cup {g}) = m + grant[g].duration
  <2>1. Cardinality(B) = grant[g].duration
    BY <1>3, <1>6
  <2>2. Cardinality(A \cup B) = m + grant[g].duration - 0
    BY <1>7, <1>8, <1>10, <2>1
  <2>3. Days(T \cup {g}) = Cardinality(A \cup B)
    BY <1>9 DEF Days
  <2> QED BY <1>2, <2>2, <2>3
<1> QED BY <1>5, <1>10, <1>11

LEMMA DaysNone == Days({}) = 0
<1>1. Calendar({}) = {}
  BY DEF Calendar
<1> QED BY <1>1, FS_EmptySet DEF Days

(* One more grant, later than the others, shifts what they reach by its    *)
(* duration.                                                               *)
LEMMA ReachShifts ==
    ASSUME NEW S, Dated(grant, S), NEW g \in S,
           \A h \in S : grant[h].effective <= grant[g].effective,
           NEW w \in S \ {g}
    PROVE  /\ Reach(S \ {g}, w) \in Nat
           /\ Reach(S, w) = Reach(S \ {g}, w) + grant[g].duration
           /\ w \in Counting(S) <=> w \in Counting(S \ {g}) /\ grant[g].fixed = 0
<1>1. /\ grant[w].effective \in Nat /\ grant[w].duration \in Nat
      /\ grant[w].fixed \in Nat /\ grant[g].effective \in Nat
      /\ grant[g].duration \in Nat /\ grant[w].effective # grant[g].effective
  BY DEF Dated
<1>2. grant[g].effective > grant[w].effective
  BY <1>1
<1>3. Later(S, w) = Later(S \ {g}, w) \cup {g} /\ g \notin Later(S \ {g}, w)
  BY <1>2 DEF Later
<1>4. Later(S \ {g}, w) \in SUBSET S
  BY DEF Later
<1>5. PICK m \in Nat : m = Days(Later(S \ {g}, w))
  BY <1>3, <1>4, DaysAdd
<1>6. Days(Later(S, w)) = m + grant[g].duration
  <2>1. PICK T \in SUBSET S : T = Later(S \ {g}, w)
    BY <1>4
  <2>2. g \notin T /\ Later(S, w) = T \cup {g}
    BY <1>3, <2>1
  <2>3. Days(T \cup {g}) = Days(T) + grant[g].duration
    BY <2>2, DaysAdd
  <2> QED BY <1>5, <2>1, <2>2, <2>3
<1>7. PICK own \in Nat : own = IF grant[w].fixed # 0 THEN grant[w].fixed
                               ELSE grant[w].effective + grant[w].duration
  BY <1>1
<1>8. /\ Reach(S \ {g}, w) = own + m
      /\ Reach(S, w) = own + (m + grant[g].duration)
  BY <1>5, <1>6, <1>7 DEF Reach
<1>9. w \in Counting(S) <=> w \in Counting(S \ {g}) /\ grant[g].fixed = 0
  BY <1>3 DEF Counting
<1> QED BY <1>1, <1>8, <1>9

LEMMA ReachLast ==
    ASSUME NEW S, Dated(grant, S), NEW g \in S,
           \A h \in S : grant[h].effective <= grant[g].effective
    PROVE  /\ g \in Counting(S)
           /\ Reach(S, g) = IF grant[g].fixed # 0 THEN grant[g].fixed
                            ELSE grant[g].effective + grant[g].duration
<1>1. \A h \in S : grant[h].effective \in Nat /\ grant[h].duration \in Nat
                   /\ grant[h].fixed \in Nat
  BY DEF Dated
<1>2. Later(S, g) = {}
  BY <1>1 DEF Later
<1>3. Days(Later(S, g)) = 0
  BY <1>2, DaysNone
<1> QED BY <1>1, <1>2, <1>3 DEF Counting, Reach

LEMMA EndOfIsEndDate ==
    ASSUME NEW S, Dated(grant, S), S # {}
    PROVE  EndOf(S) = EndDate(grant, S)
<1> DEFINE Best(T) == /\ \E w \in Counting(T) : Reach(T, w) = EndDate(grant, T)
                      /\ \A w \in Counting(T) : Reach(T, w) <= EndDate(grant, T)
           Bad == {T \in SUBSET S : T # {} /\ ~Best(T)}
<1>1. Best(S)
  <2> SUFFICES ASSUME S \in Bad PROVE FALSE
    OBVIOUS
  <2>1. Bad \in SUBSET FiniteSubsetsOf(S)
    BY FS_Subset DEF Dated, FiniteSubsetsOf
  <2>2. PICK T \in Bad : \A x \in T : T \ {x} \notin Bad
    <3> HIDE DEF Bad
    <3> QED BY <2>1, SmallestBad
  <2>3. Dated(grant, T) /\ T # {} /\ ~Best(T)
    BY <2>2, DatedPart
  <2>4. PICK g \in T : \A h \in T : grant[h].effective <= grant[g].effective
    BY <2>3, LatestExists
  <2>5. g \in Counting(T)
        /\ Reach(T, g) = IF grant[g].fixed # 0 THEN grant[g].fixed
                         ELSE grant[g].effective + grant[g].duration
    BY <2>3, <2>4, ReachLast
  <2>6. Counting(T) \subseteq T /\ Counting(T \ {g}) \subseteq T \ {g}
    BY DEF Counting
  <2>7. \A w \in T \ {g} :
           /\ Reach(T \ {g}, w) \in Nat
           /\ Reach(T, w) = Reach(T \ {g}, w) + grant[g].duration
           /\ w \in Counting(T) <=> w \in Counting(T \ {g}) /\ grant[g].fixed = 0
    BY <2>3, <2>4, ReachShifts
  <2>8. grant[g].effective \in Nat /\ grant[g].duration \in Nat /\ grant[g].fixed \in Nat
    BY <2>3, <2>4 DEF Dated
  <2>9. CASE grant[g].fixed # 0
    <3>1. EndDate(grant, T) = grant[g].fixed
      BY <2>3, <2>4, <2>9, EndDateLast
    <3>2. \A w \in Counting(T) : w = g
      BY <2>6, <2>7, <2>9
    <3>3. Reach(T, g) = EndDate(grant, T)
      BY <2>5, <2>9, <3>1
    <3>4. Best(T)
      BY <2>5, <2>8, <3>1, <3>2, <3>3
    <3> QED BY <2>3, <3>4
  <2>10. CASE grant[g].fixed = 0
    <3>1. PICK m \in Nat : m = EndDate(grant, T \ {g})
      BY <2>3, <2>4, <2>10, EndDateAdds
    <3>2. PICK n \in Nat : n = EndDate(grant, T)
      BY <2>3, <2>4, <2>10, EndDateAdds
    <3>3. /\ m <= grant[g].effective => n = grant[g].effective + grant[g].duration
          /\ m >= grant[g].effective => n = m + grant[g].duration
      BY <2>3, <2>4, <2>10, <3>1, <3>2, EndDateAdds
    <3>4. Reach(T, g) = grant[g].effective + grant[g].duration
      BY <2>5, <2>10
    <3>5. CASE T \ {g} = {}
      <4>1. m = 0
        BY <3>1, <3>5, EndDateNone
      <4>2. n = Reach(T, g)
        BY <2>8, <3>3, <3>4, <4>1
      <4>3. \A w \in Counting(T) : w = g
        BY <2>6, <3>5
      <4>4. Best(T)
        BY <2>5, <3>2, <4>2, <4>3
      <4> QED BY <2>3, <4>4
    <3>6. CASE T \ {g} # {}
      <4>1. Best(T \ {g})
        BY <2>2, <2>4, <3>6
      <4>2. PICK v \in Counting(T \ {g}) : Reach(T \ {g}, v) = m
        BY <3>1, <4>1
      <4>3. \A w \in Counting(T \ {g}) : Reach(T \ {g}, w) <= m
        BY <3>1, <4>1
      <4>4. v \in Counting(T) /\ Reach(T, v) = m + grant[g].duration
        BY <2>6, <2>7, <2>10, <4>2
      <4>5. ASSUME NEW w \in Counting(T), w # g
            PROVE  Reach(T, w) <= m + grant[g].duration
        <5>1. w \in T \ {g}
          BY <2>6, <4>5
        <5>2. w \in Counting(T \ {g}) /\ Reach(T \ {g}, w) \in Nat
              /\ Reach(T, w) = Reach(T \ {g}, w) + grant[g].duration
          BY <2>7, <4>5, <5>1
        <5>3. PICK r \in Nat : r = Reach(T \ {g}, w)
          BY <5>2
        <5>4. r <= m /\ Reach(T, w) = r + grant[g].duration
          BY <4>3, <5>2, <5>3
        <5> QED BY <2>8, <5>4
      <4>6. n >= m + grant[g].duration /\ n >= grant[g].effective + grant[g].duration
        BY <2>8, <3>3
      <4>7. \A w \in Counting(T) : Reach(T, w) <= n
        <5> SUFFICES ASSUME NEW w \in Counting(T) PROVE Reach(T, w) <= n
          OBVIOUS
        <5>1. CASE w = g
          BY <2>8, <3>4, <4>6, <5>1
        <5>2. CASE w # g
          <6>1. w \in T \ {g}
            BY <2>6, <5>2
          <6>2. PICK r \in Nat : r = Reach(T, w)
            BY <2>7, <2>8, <6>1
          <6>3. r <= m + grant[g].duration
            BY <4>5, <5>2, <6>2
          <6> QED BY <2>8, <4>6, <6>2, <6>3
        <5> QED BY <5>1, <5>2
      <4>8. \E w \in Counting(T) : Reach(T, w) = n
        <5>1. CASE m <= grant[g].effective
          BY <2>5, <3>3, <3>4, <5>1
        <5>2. CASE m >= grant[g].effective
          BY <3>3, <4>4, <5>2
        <5> QED BY <2>8, <5>1, <5>2
      <4>9. Best(T)
        BY <3>2, <4>7, <4>8
      <4> QED BY <2>3, <4>9
    <3> QED BY <3>5, <3>6
  <2> QED BY <2>9, <2>10
<1> DEFINE R == {Reach(S, g) : g \in Counting(S)}
<1>2. PICK n \in Nat : n = EndDate(grant, S)
  BY EndDateNat
<1>3. n \in R /\ \A r \in R : r <= n
  BY <1>1, <1>2
<1>4. R \subseteq Int
  <2>1. ASSUME NEW w \in Counting(S) PROVE Reach(S, w) \in Int
    <3>1. w \in S
      BY DEF Counting
    <3>2. Later(S, w) \in SUBSET S /\ w \notin Later(S, w)
      BY <3>1 DEF Later, Dated
    <3>3. Days(Later(S, w)) \in Nat
      BY <3>1, <3>2, DaysAdd
    <3>4. /\ grant[w].effective \in Nat /\ grant[w].duration \in Nat
          /\ grant[w].fixed \in Nat
      BY <3>1 DEF Dated
    <3> QED BY <3>3, <3>4 DEF Reach
  <2> QED BY <2>1
<1>5. Max(R) = n
  <2> HIDE DEF R
  <2>1. n \in R /\ \A r \in R : n >= r
    BY <1>3, <1>4
  <2>2. ASSUME NEW x \in R, \A r \in R : x >= r PROVE x = n
    <3>1. x \in Int /\ x >= n /\ n >= x
      BY <1>4, <2>1, <2>2
    <3> QED BY <3>1
  <2> QED BY <2>1, <2>2 DEF Max
<1> QED BY <1>2, <1>5, EndOfReach

-----------------------------------------------------------------------------
(* The inductive invariant.                                                *)

(* Rows of grants: a fixed end is a person's, of a grant that has begun.   *)
GrantsSound ==
    \A g \in GrantIds : Exists(g) =>
        /\ grant[g].buyer \in Buyers /\ grant[g].plan \in Plans
        /\ grant[g].effective \in Nat /\ grant[g].duration \in Nat
        /\ grant[g].fixed \in Nat
        /\ grant[g].fixed = 0 => grant[g].duration > 0
        /\ grant[g].fixed # 0 => grant[g].effective <= clock

GrantsFinite == IsFiniteSet({g \in GrantIds : Exists(g)})

(* The grant of a purchase is its buyer's and lasts for a duration.        *)
PurchasesGranted ==
    \A p \in PurchaseIds : Exists(p) =>
        grant[p].buyer = purchase[p].buyer /\ grant[p].fixed = 0

(* No two live grants of a chain take effect together.                     *)
GrantsApart ==
    \A g, h \in GrantIds :
        /\ Exists(g) /\ grant[h].chain = grant[g].chain
        /\ Live(grant[g]) /\ Live(grant[h])
        /\ grant[g].effective = grant[h].effective
        => g = h

OnePending ==
    \A p, q \in PurchaseIds :
        Pending(p) /\ Pending(q) /\ purchase[p].buyer = purchase[q].buyer => p = q

(* What a purchase under way was chosen to be, it still is: a new one has  *)
(* no entitlement to replace, a renewal its own plan or none.              *)
KindsHold ==
    \A p \in PurchaseIds : Pending(p) =>
        /\ purchase[p].duration > 0
        /\ purchase[p].kind = "new" => sub[purchase[p].buyer].expires <= clock
        /\ purchase[p].kind = "renew" =>
              sub[purchase[p].buyer].plan \in {purchase[p].plan, NoPlan}

(* The subscription is what the live grants of its chain add up to.        *)
Entitled ==
    \A b \in Buyers :
        /\ sub[b].chain = NoChain => sub[b].plan = NoPlan /\ sub[b].expires = 0
        /\ sub[b].chain # NoChain /\ LiveIn(grant, sub[b].chain) = {} =>
              sub[b].plan = NoPlan /\ sub[b].expires \in Nat /\ sub[b].expires <= clock
        /\ sub[b].chain # NoChain /\ LiveIn(grant, sub[b].chain) # {} =>
              /\ sub[b].expires = EndDate(grant, LiveIn(grant, sub[b].chain))
              /\ \A g \in LiveIn(grant, sub[b].chain) : grant[g].plan = sub[b].plan

(* A live grant that is not of its buyer's chain has run out.              *)
Remembered ==
    \A g \in GrantIds :
        /\ Exists(g) /\ Live(grant[g])
        /\ grant[g].chain # sub[grant[g].buyer].chain
        => EndDate(grant, LiveIn(grant, grant[g].chain)) <= clock

EntitlementInv ==
    /\ GrantsSound /\ GrantsFinite /\ PurchasesGranted /\ GrantsApart
    /\ OnePending /\ KindsHold /\ Entitled /\ Remembered

-----------------------------------------------------------------------------
(* Steps that write neither grants nor subscriptions.                      *)

LEMMA LiveDated ==
    ASSUME EntitlementInv, NEW c, c # NoChain
    PROVE  Dated(grant, LiveIn(grant, c))
<1>1. LiveIn(grant, c) \subseteq {g \in GrantIds : Exists(g)}
  BY DEF LiveIn, Exists
<1>2. IsFiniteSet(LiveIn(grant, c))
  BY <1>1, FS_Subset DEF EntitlementInv, GrantsFinite
<1>3. \A g \in LiveIn(grant, c) :
         /\ grant[g].effective \in Nat /\ grant[g].duration \in Nat
         /\ grant[g].fixed \in Nat
         /\ grant[g].fixed = 0 => grant[g].duration > 0
  BY <1>1 DEF EntitlementInv, GrantsSound
<1>4. \A g, h \in LiveIn(grant, c) : grant[g].effective = grant[h].effective => g = h
  BY <1>1 DEF EntitlementInv, GrantsApart, LiveIn
<1> QED BY <1>2, <1>3, <1>4 DEF Dated

LEMMA ExpiresNat ==
    ASSUME EntitlementInv, NEW b \in Buyers
    PROVE  sub[b].expires \in Nat
<1>1. CASE sub[b].chain = NoChain
  BY <1>1 DEF EntitlementInv, Entitled
<1>2. CASE sub[b].chain # NoChain /\ LiveIn(grant, sub[b].chain) = {}
  BY <1>2 DEF EntitlementInv, Entitled
<1>3. CASE sub[b].chain # NoChain /\ LiveIn(grant, sub[b].chain) # {}
  BY <1>3, LiveDated, EndDateNat DEF EntitlementInv, Entitled
<1> QED BY <1>1, <1>2, <1>3

(* Time may pass and purchases may end, none is begun.                     *)
LEMMA EntitledQuietly ==
    ASSUME SaleInv, EntitlementInv, UNCHANGED <<grant, sub>>,
           clock' \in Nat, clock' >= clock,
           \A p \in PurchaseIds : purchase'[p].state = "pending" => Pending(p),
           \A p \in PurchaseIds : purchase[p].state # "absent" =>
               /\ purchase'[p].buyer = purchase[p].buyer
               /\ purchase'[p].plan = purchase[p].plan
               /\ purchase'[p].kind = purchase[p].kind
               /\ purchase'[p].duration = purchase[p].duration
    PROVE  EntitlementInv'
<1>1. clock \in Nat
  BY DEF SaleInv, SaleTyped
<1>2. GrantsSound'
  BY <1>1 DEF EntitlementInv, GrantsSound, Exists
<1>3. GrantsFinite' /\ GrantsApart'
  BY DEF EntitlementInv, GrantsFinite, GrantsApart, Exists
<1>4. PurchasesGranted'
  BY DEF EntitlementInv, PurchasesGranted, Exists, SaleInv, BillsAgree
<1>5. OnePending'
  BY DEF EntitlementInv, OnePending, Pending
<1>6. \A b \in Buyers : sub[b].expires \in Nat
  BY ExpiresNat
<1>7. KindsHold'
  <2> SUFFICES ASSUME NEW p \in PurchaseIds, purchase'[p].state = "pending"
        PROVE  /\ purchase'[p].duration > 0
               /\ purchase'[p].kind = "new" => sub'[purchase'[p].buyer].expires <= clock'
               /\ purchase'[p].kind = "renew" =>
                     sub'[purchase'[p].buyer].plan \in {purchase'[p].plan, NoPlan}
    BY DEF KindsHold, Pending
  <2>1. Pending(p) /\ purchase[p].state # "absent" /\ purchase[p].buyer \in Buyers
    BY DEF Pending, SaleInv, PurchaseSound
  <2>2. /\ purchase[p].duration > 0
        /\ purchase[p].kind = "new" => sub[purchase[p].buyer].expires <= clock
        /\ purchase[p].kind = "renew" =>
              sub[purchase[p].buyer].plan \in {purchase[p].plan, NoPlan}
    BY <2>1 DEF EntitlementInv, KindsHold
  <2>3. sub[purchase[p].buyer].expires \in Nat
    BY <1>6, <2>1
  <2> QED BY <1>1, <2>1, <2>2, <2>3
<1>8. Entitled'
  BY <1>1 DEF EntitlementInv, Entitled
<1>9. Remembered'
  <2> SUFFICES ASSUME NEW g \in GrantIds, Exists(g), Live(grant[g]),
                      grant[g].chain # sub[grant[g].buyer].chain
               PROVE  EndDate(grant, LiveIn(grant, grant[g].chain)) <= clock'
    BY DEF Remembered, Exists
  <2>1. PICK n \in Nat : n = EndDate(grant, LiveIn(grant, grant[g].chain))
    BY LiveDated, EndDateNat DEF Exists
  <2>2. n <= clock
    BY <2>1 DEF EntitlementInv, Remembered
  <2> QED BY <1>1, <2>1, <2>2
<1> QED BY <1>2, <1>3, <1>4, <1>5, <1>7, <1>8, <1>9 DEF EntitlementInv

LEMMA EntitledPurchase ==
    ASSUME SaleInv, EntitlementInv, NEW b \in Buyers, NEW p \in PurchaseIds,
           Purchase(b, p)
    PROVE  EntitlementInv'
<1>1. PICK r \in request[b] :
        /\ purchase[p].state = "absent"
        /\ \A q \in PurchaseIds : purchase[q].buyer = b => ~Pending(q)
        /\ purchase' = [purchase EXCEPT ![p] =
              [state |-> "pending", buyer |-> b, plan |-> r.plan,
               kind |-> KindFor(b, r.plan), duration |-> plan[r.plan].duration,
               expires |-> clock + TTL, bill |-> "pending"]]
        /\ UNCHANGED <<clock, grant, sub>>
  BY DEF Purchase
<1>2. /\ purchase'[p].state = "pending" /\ purchase'[p].buyer = b
      /\ purchase'[p].plan = r.plan /\ purchase'[p].kind = KindFor(b, r.plan)
      /\ purchase'[p].duration = plan[r.plan].duration
  BY <1>1 DEF SaleInv, SaleTyped
<1>3. \A q \in PurchaseIds : q # p => purchase'[q] = purchase[q]
  BY <1>1 DEF SaleInv, SaleTyped
<1>4. r.plan \in Plans
  BY DEF SaleInv, RequestsHonest
<1>5. plan[r.plan].duration \in Nat /\ plan[r.plan].duration > 0
  <2>1. plan[r.plan] \in PlanRow
    BY <1>4 DEF SaleInv, SaleTyped
  <2>2. plan[r.plan].duration \in Durations
    BY <2>1 DEF PlanRow
  <2>3. \A d \in Durations : d \in Nat /\ d > 0
    BY TermsAssumption
  <2> QED BY <2>2, <2>3
<1>6. GrantsSound' /\ GrantsFinite' /\ GrantsApart' /\ Entitled' /\ Remembered'
  BY <1>1 DEF EntitlementInv, GrantsSound, GrantsFinite, GrantsApart, Entitled,
              Remembered, Exists
<1>7. PurchasesGranted'
  <2> SUFFICES ASSUME NEW q \in PurchaseIds, Exists(q)
               PROVE  grant[q].buyer = purchase'[q].buyer /\ grant[q].fixed = 0
    BY <1>1 DEF PurchasesGranted, Exists
  <2>1. q # p
    BY <1>1 DEF SaleInv, BillsAgree
  <2> QED BY <1>3, <2>1 DEF EntitlementInv, PurchasesGranted
<1>8. OnePending'
  BY <1>1, <1>2, <1>3 DEF EntitlementInv, OnePending, Pending
<1>9. sub[b].expires \in Nat /\ clock \in Nat
  BY ExpiresNat DEF SaleInv, SaleTyped
<1>10. sub[b].plan = NoPlan => sub[b].expires <= clock
  <2> SUFFICES ASSUME sub[b].plan = NoPlan PROVE sub[b].expires <= clock
    OBVIOUS
  <2>1. CASE sub[b].chain = NoChain
    BY <1>9, <2>1 DEF EntitlementInv, Entitled
  <2>2. CASE sub[b].chain # NoChain /\ LiveIn(grant, sub[b].chain) = {}
    BY <2>2 DEF EntitlementInv, Entitled
  <2>3. CASE sub[b].chain # NoChain /\ LiveIn(grant, sub[b].chain) # {}
    <3>1. PICK g \in LiveIn(grant, sub[b].chain) : TRUE
      BY <2>3
    <3>2. g \in GrantIds /\ Exists(g)
      BY <2>3, <3>1 DEF LiveIn, Exists
    <3>3. grant[g].plan \in Plans /\ grant[g].plan = sub[b].plan
      BY <2>3, <3>1, <3>2 DEF EntitlementInv, Entitled, GrantsSound
    <3> QED BY <3>3, IdsAssumption
  <2> QED BY <2>1, <2>2, <2>3
<1>11. KindsHold'
  <2> SUFFICES ASSUME NEW q \in PurchaseIds, purchase'[q].state = "pending"
        PROVE  /\ purchase'[q].duration > 0
               /\ purchase'[q].kind = "new" => sub[purchase'[q].buyer].expires <= clock
               /\ purchase'[q].kind = "renew" =>
                     sub[purchase'[q].buyer].plan \in {purchase'[q].plan, NoPlan}
    BY <1>1 DEF KindsHold, Pending
  <2>1. CASE q = p
    <3>1. KindFor(b, r.plan) = "new" => sub[b].expires <= clock
      BY <1>9, <1>10 DEF KindFor, Active
    <3>2. KindFor(b, r.plan) = "renew" => sub[b].plan = r.plan
      BY DEF KindFor
    <3> QED BY <1>2, <1>5, <2>1, <3>1, <3>2
  <2>2. CASE q # p
    BY <1>3, <2>2 DEF EntitlementInv, KindsHold, Pending
  <2> QED BY <2>1, <2>2
<1> QED BY <1>6, <1>7, <1>8, <1>11 DEF EntitlementInv

-----------------------------------------------------------------------------
(* Steps that write a grant.                                               *)

SameRow(row, was) ==
    /\ row.chain = was.chain /\ row.buyer = was.buyer /\ row.plan = was.plan
    /\ row.effective = was.effective /\ row.duration = was.duration
    /\ row.fixed = was.fixed /\ row.refunded = was.refunded

(* Grant g is new; the chain that merchant b followed is voided, or not.   *)
Added(b, g, new, voids) ==
    /\ grant'[g] = new
    /\ \A h \in GrantIds \ {g} :
          IF voids /\ sub[b].chain # NoChain /\ grant[h].chain = sub[b].chain
          THEN SameRow(grant'[h], grant[h]) /\ grant'[h].voided = TRUE
          ELSE grant'[h] = grant[h]

(* The new grant begins a chain, or is the latest of the one that b        *)
(* follows.                                                                *)
Joins(b, g, new, voids) ==
    /\ \/ new.chain = g
       \/ new.chain = sub[b].chain /\ sub[b].chain # NoChain /\ ~voids
    /\ new.buyer = b /\ new.plan \in Plans
    /\ new.refunded = FALSE /\ new.voided = FALSE
    /\ new.effective \in Nat /\ new.duration \in Nat /\ new.fixed \in Nat
    /\ new.fixed = 0 => new.duration > 0
    /\ new.fixed # 0 => new.effective <= clock
    /\ \A h \in LiveIn(grant, new.chain) : grant[h].effective < new.effective

LEMMA AddedRows ==
    ASSUME ChainInv, EntitlementInv, NEW b \in Buyers, NEW g \in GrantIds, ~Exists(g),
           NEW voids \in BOOLEAN, NEW new, Added(b, g, new, voids),
           Joins(b, g, new, voids)
    PROVE  /\ new.chain # NoChain /\ g # NoChain
           /\ \A h \in GrantIds : grant[h].chain # g
           /\ \A h \in GrantIds : h # g =>
                 SameRow(grant'[h], grant[h])
                 /\ (Live(grant'[h]) => Live(grant[h]))
           /\ \A h \in GrantIds : Exists(h)' <=> Exists(h) \/ h = g
           /\ LiveIn(grant', new.chain) = LiveIn(grant, new.chain) \cup {g}
           /\ g \notin LiveIn(grant, new.chain)
           /\ \A c : /\ c # NoChain /\ c # new.chain /\ (voids => c # sub[b].chain)
                     => /\ LiveIn(grant', c) = LiveIn(grant, c)
                        /\ SameDates(grant, grant', LiveIn(grant, c))
                        /\ EndDate(grant', LiveIn(grant', c))
                             = EndDate(grant, LiveIn(grant, c))
<1>1. g # NoChain /\ new.chain # NoChain
  BY IdsAssumption DEF GrantIds, NoChain, Joins
<1>2. \A h \in GrantIds : grant[h].chain # g
  BY <1>1 DEF ChainInv, ChainsNamed, Exists
<1>3. \A h \in GrantIds : h # g => SameRow(grant'[h], grant[h])
  BY DEF Added, SameRow
<1>4. \A h \in GrantIds : h # g => (Live(grant'[h]) => Live(grant[h]))
  BY DEF Added, Live
<1>5. \A h \in GrantIds : Exists(h)' <=> Exists(h) \/ h = g
  BY <1>1, <1>3 DEF Added, Exists, SameRow
<1>6. \A h \in GrantIds :
         h # g /\ grant[h].chain = new.chain => grant'[h] = grant[h]
  BY <1>2 DEF Added, Joins
<1>7. g \notin LiveIn(grant, new.chain)
  BY <1>1 DEF LiveIn, Exists
<1>8. LiveIn(grant', new.chain) = LiveIn(grant, new.chain) \cup {g}
  <2>1. grant'[g].chain = new.chain /\ Live(grant'[g])
    BY DEF Added, Joins, Live
  <2>2. ASSUME NEW h \in GrantIds, h # g
        PROVE  h \in LiveIn(grant', new.chain) <=> h \in LiveIn(grant, new.chain)
    <3>1. grant'[h].chain = grant[h].chain
      BY <1>3, <2>2 DEF SameRow
    <3>2. CASE grant[h].chain = new.chain
      BY <1>6, <2>2, <3>2 DEF LiveIn
    <3>3. CASE grant[h].chain # new.chain
      BY <3>1, <3>3 DEF LiveIn
    <3> QED BY <3>2, <3>3
  <2>3. LiveIn(grant', new.chain) \subseteq GrantIds
        /\ LiveIn(grant, new.chain) \subseteq GrantIds
    BY DEF LiveIn
  <2>4. g \in LiveIn(grant', new.chain)
    BY <2>1 DEF LiveIn
  <2> QED BY <2>2, <2>3, <2>4
<1>9. ASSUME NEW c, c # NoChain, c # new.chain, voids => c # sub[b].chain
      PROVE  /\ LiveIn(grant', c) = LiveIn(grant, c)
             /\ SameDates(grant, grant', LiveIn(grant, c))
             /\ EndDate(grant', LiveIn(grant', c)) = EndDate(grant, LiveIn(grant, c))
  <2>1. ASSUME NEW h \in GrantIds
        PROVE  h \in LiveIn(grant', c) <=> h \in LiveIn(grant, c)
    <3>1. CASE h = g
      <4>1. grant'[g].chain # c /\ grant[g].chain # c
        BY <1>9 DEF Added, Exists
      <4> QED BY <3>1, <4>1 DEF LiveIn
    <3>2. CASE h # g /\ grant[h].chain = c
      <4>1. grant'[h] = grant[h]
        BY <1>9, <3>2 DEF Added
      <4> QED BY <4>1 DEF LiveIn
    <3>3. CASE h # g /\ grant[h].chain # c
      BY <1>3, <3>3 DEF LiveIn, SameRow
    <3> QED BY <3>1, <3>2, <3>3
  <2>2. LiveIn(grant', c) \subseteq GrantIds /\ LiveIn(grant, c) \subseteq GrantIds
    BY DEF LiveIn
  <2>3. LiveIn(grant', c) = LiveIn(grant, c)
    BY <2>1, <2>2
  <2>4. SameDates(grant, grant', LiveIn(grant, c))
    <3>1. \A h \in LiveIn(grant, c) : h \in GrantIds /\ h # g
      BY <1>9 DEF LiveIn, Exists
    <3> QED BY <1>3, <3>1 DEF SameDates, SameRow
  <2>5. EndDate(grant', LiveIn(grant, c)) = EndDate(grant, LiveIn(grant, c))
    BY <1>9, <2>4, LiveDated, EndDateSame
  <2> QED BY <2>3, <2>4, <2>5
<1> QED BY <1>1, <1>2, <1>3, <1>4, <1>5, <1>7, <1>8, <1>9

LEMMA DatedAdd ==
    ASSUME NEW G, NEW S, Dated(G, S), NEW g, g \notin S,
           G[g].effective \in Nat, G[g].duration \in Nat, G[g].fixed \in Nat,
           G[g].fixed = 0 => G[g].duration > 0,
           \A h \in S : G[h].effective < G[g].effective
    PROVE  Dated(G, S \cup {g})
<1>1. IsFiniteSet(S \cup {g})
  BY FS_AddElement DEF Dated
<1>2. \A h \in S \cup {g} : /\ G[h].effective \in Nat /\ G[h].duration \in Nat
                            /\ G[h].fixed \in Nat
                            /\ G[h].fixed = 0 => G[h].duration > 0
  BY DEF Dated
<1>3. \A h, k \in S \cup {g} : G[h].effective = G[k].effective => h = k
  BY <1>2 DEF Dated
<1> QED BY <1>1, <1>2, <1>3 DEF Dated

(* When the chain that the new grant is in ends.                           *)
LEMMA AddedEnd ==
    ASSUME ChainInv, EntitlementInv, NEW b \in Buyers, NEW g \in GrantIds, ~Exists(g),
           NEW voids \in BOOLEAN, NEW new, Added(b, g, new, voids),
           Joins(b, g, new, voids)
    PROVE  /\ Dated(grant', LiveIn(grant', new.chain))
           /\ g \in LiveIn(grant', new.chain)
           /\ Latest(grant', LiveIn(grant', new.chain)) = g
           /\ new.fixed # 0 => EndDate(grant', LiveIn(grant', new.chain)) = new.fixed
           /\ new.fixed = 0 /\ EndDate(grant, LiveIn(grant, new.chain)) <= new.effective
                => EndDate(grant', LiveIn(grant', new.chain))
                     = new.effective + new.duration
<1>1. PICK S : S = LiveIn(grant, new.chain)
  OBVIOUS
<1>2. /\ LiveIn(grant', new.chain) = S \cup {g} /\ g \notin S /\ new.chain # NoChain
      /\ \A h \in GrantIds : h # g => SameRow(grant'[h], grant[h])
  BY <1>1, AddedRows
<1>3. Dated(grant, S)
  BY <1>1, <1>2, LiveDated
<1>4. SameDates(grant, grant', S)
  BY <1>1, <1>2 DEF SameDates, SameRow, LiveIn
<1>5. Dated(grant', S)
  BY <1>3, <1>4, DatedSame
<1>6. grant'[g] = new
  BY DEF Added
<1>7. \A h \in S : grant'[h].effective < grant'[g].effective
  BY <1>1, <1>4, <1>6 DEF Joins, SameDates
<1>8. Dated(grant', S \cup {g})
  BY <1>2, <1>5, <1>6, <1>7, DatedAdd DEF Joins
<1>9. \A h \in S \cup {g} : grant'[h].effective <= grant'[g].effective
  BY <1>7, <1>8 DEF Dated
<1>10. Latest(grant', S \cup {g}) = g
  BY <1>8, <1>9, LatestIs
<1>11. new.fixed # 0 => EndDate(grant', S \cup {g}) = new.fixed
  BY <1>6, <1>8, <1>9, EndDateLast
<1>12. ASSUME new.fixed = 0, EndDate(grant, S) <= new.effective
       PROVE  EndDate(grant', S \cup {g}) = new.effective + new.duration
  <2>1. (S \cup {g}) \ {g} = S
    BY <1>2
  <2>2. EndDate(grant', S) = EndDate(grant, S)
    BY <1>3, <1>4, EndDateSame
  <2> QED BY <1>6, <1>8, <1>9, <1>12, <2>1, <2>2, EndDateAdds
<1> QED BY <1>1, <1>2, <1>8, <1>10, <1>11, <1>12

(* Whatever writes the grant keeps the entitlements: b's follows the new   *)
(* one, nobody else's chain is reached, and what b leaves behind is voided *)
(* or has run out.                                                         *)
LEMMA AddedEntitles ==
    ASSUME SaleInv, ChainInv, EntitlementInv, NEW b \in Buyers, NEW g \in GrantIds,
           ~Exists(g), NEW voids \in BOOLEAN, NEW new, Added(b, g, new, voids),
           Joins(b, g, new, voids), clock' = clock,
           \A d \in Buyers : d # b => sub'[d] = sub[d],
           sub'[b].chain = new.chain,
           sub'[b].expires = EndDate(grant', LiveIn(grant', new.chain)),
           \A h \in LiveIn(grant', new.chain) : grant'[h].plan = sub'[b].plan,
           new.chain # sub[b].chain => voids \/ sub[b].expires <= clock
    PROVE  /\ GrantsSound' /\ GrantsFinite' /\ GrantsApart' /\ Entitled' /\ Remembered'
<1>1. /\ new.chain # NoChain /\ g # NoChain
      /\ \A h \in GrantIds : grant[h].chain # g
      /\ \A h \in GrantIds : h # g =>
            SameRow(grant'[h], grant[h]) /\ (Live(grant'[h]) => Live(grant[h]))
      /\ \A h \in GrantIds : Exists(h)' <=> Exists(h) \/ h = g
      /\ LiveIn(grant', new.chain) = LiveIn(grant, new.chain) \cup {g}
  BY AddedRows
<1>2. ASSUME NEW c, c # NoChain, c # new.chain, voids => c # sub[b].chain
      PROVE  /\ LiveIn(grant', c) = LiveIn(grant, c)
             /\ EndDate(grant', LiveIn(grant', c)) = EndDate(grant, LiveIn(grant, c))
  BY <1>2, AddedRows
<1>3. grant'[g] = new
  BY DEF Added
<1>4. GrantsSound'
  <2> SUFFICES ASSUME NEW h \in GrantIds, Exists(h)'
        PROVE  /\ grant'[h].buyer \in Buyers /\ grant'[h].plan \in Plans
               /\ grant'[h].effective \in Nat /\ grant'[h].duration \in Nat
               /\ grant'[h].fixed \in Nat
               /\ grant'[h].fixed = 0 => grant'[h].duration > 0
               /\ grant'[h].fixed # 0 => grant'[h].effective <= clock'
    BY DEF GrantsSound
  <2>1. CASE h = g
    BY <1>3, <2>1 DEF Joins
  <2>2. CASE h # g
    BY <1>1, <2>2 DEF EntitlementInv, GrantsSound, SameRow
  <2> QED BY <2>1, <2>2
<1>5. GrantsFinite'
  <2>1. {h \in GrantIds : Exists(h)'} = {h \in GrantIds : Exists(h)} \cup {g}
    BY <1>1
  <2>2. IsFiniteSet({h \in GrantIds : Exists(h)} \cup {g})
    BY FS_AddElement DEF EntitlementInv, GrantsFinite
  <2> QED BY <2>1, <2>2 DEF GrantsFinite
<1>6. \A h \in LiveIn(grant, new.chain) : grant[h].effective \in Nat
  BY <1>1, LiveDated DEF Dated
<1>7. GrantsApart'
  <2> SUFFICES ASSUME NEW h \in GrantIds, NEW k \in GrantIds, Exists(h)',
                      grant'[k].chain = grant'[h].chain, Live(grant'[h]),
                      Live(grant'[k]), grant'[h].effective = grant'[k].effective,
                      h # k
               PROVE  FALSE
    BY DEF GrantsApart
  <2>1. ASSUME NEW m \in GrantIds, m # g, Live(grant'[m]), grant'[m].chain = new.chain
        PROVE  grant'[m].effective < new.effective
    <3>1. grant[m].chain = new.chain /\ Live(grant[m])
          /\ grant'[m].effective = grant[m].effective
      BY <1>1, <2>1 DEF SameRow
    <3>2. m \in LiveIn(grant, new.chain)
      BY <3>1 DEF LiveIn
    <3> QED BY <3>1, <3>2 DEF Joins
  <2>2. new.effective \in Nat
    BY DEF Joins
  <2>3. CASE h = g
    BY <1>3, <2>1, <2>2, <2>3
  <2>4. CASE k = g
    BY <1>3, <2>1, <2>2, <2>4
  <2>5. CASE h # g /\ k # g
    <3>1. /\ Exists(h) /\ grant[k].chain = grant[h].chain
          /\ Live(grant[h]) /\ Live(grant[k])
          /\ grant[h].effective = grant[k].effective
      BY <1>1, <2>5 DEF SameRow
    <3> QED BY <3>1 DEF EntitlementInv, GrantsApart
  <2> QED BY <2>3, <2>4, <2>5
<1>8. ASSUME NEW d \in Buyers, d # b, NEW c, c = sub[d].chain, c # NoChain
      PROVE  c # new.chain /\ c # sub[b].chain
  <2>1. c \in GrantIds /\ grant[c].chain = c /\ grant[c].buyer = d
    BY <1>8 DEF ChainInv, ChainsNamed, ActiveChainWhole
  <2>2. c # sub[b].chain
    BY <1>8, <2>1 DEF ChainInv, ActiveChainWhole
  <2>3. c # g
    BY <1>1, <2>1
  <2> QED BY <2>2, <2>3 DEF Joins
<1>9. Entitled'
  <2>1. ASSUME NEW d \in Buyers, d # b
        PROVE  /\ sub'[d].chain = NoChain =>
                     sub'[d].plan = NoPlan /\ sub'[d].expires = 0
               /\ sub'[d].chain # NoChain /\ LiveIn(grant', sub'[d].chain) = {} =>
                     /\ sub'[d].plan = NoPlan /\ sub'[d].expires \in Nat
                     /\ sub'[d].expires <= clock'
               /\ sub'[d].chain # NoChain /\ LiveIn(grant', sub'[d].chain) # {} =>
                     /\ sub'[d].expires = EndDate(grant', LiveIn(grant', sub'[d].chain))
                     /\ \A h \in LiveIn(grant', sub'[d].chain) :
                           grant'[h].plan = sub'[d].plan
    <3>1. PICK c : c = sub[d].chain
      OBVIOUS
    <3>2. sub'[d] = sub[d] /\ sub'[d].chain = c
      BY <2>1, <3>1
    <3>3. CASE c = NoChain
      BY <3>1, <3>2, <3>3 DEF EntitlementInv, Entitled
    <3>4. CASE c # NoChain
      <4>1. /\ LiveIn(grant', c) = LiveIn(grant, c)
            /\ EndDate(grant', LiveIn(grant', c)) = EndDate(grant, LiveIn(grant, c))
        BY <1>2, <1>8, <2>1, <3>1, <3>4
      <4>2. \A h \in LiveIn(grant, c) : grant'[h].plan = grant[h].plan
        <5>1. \A h \in LiveIn(grant, c) : h \in GrantIds /\ h # g
          BY <1>1, <3>4 DEF LiveIn, Exists
        <5> QED BY <1>1, <5>1 DEF SameRow
      <4>3. CASE LiveIn(grant, c) = {}
        BY <3>1, <3>2, <3>4, <4>1, <4>3 DEF EntitlementInv, Entitled
      <4>4. CASE LiveIn(grant, c) # {}
        BY <3>1, <3>2, <3>4, <4>1, <4>2, <4>4 DEF EntitlementInv, Entitled
      <4> QED BY <4>3, <4>4
    <3> QED BY <3>3, <3>4
  <2>2. g \in LiveIn(grant', new.chain)
    BY <1>1
  <2> QED BY <1>1, <2>1, <2>2 DEF Entitled
<1>10. Remembered'
  <2> SUFFICES ASSUME NEW h \in GrantIds, Exists(h)', Live(grant'[h]),
                      grant'[h].chain # sub'[grant'[h].buyer].chain
               PROVE  EndDate(grant', LiveIn(grant', grant'[h].chain)) <= clock
    BY DEF Remembered
  <2>1. h # g
    BY <1>3 DEF Joins
  <2>2. PICK c, d : c = grant[h].chain /\ d = grant[h].buyer
    OBVIOUS
  <2>3. /\ grant'[h].chain = c /\ grant'[h].buyer = d /\ Exists(h) /\ Live(grant[h])
        /\ c # NoChain /\ d \in Buyers /\ h \in LiveIn(grant, c)
    BY <1>1, <2>1, <2>2 DEF SameRow, Exists, EntitlementInv, GrantsSound, LiveIn
  <2>4. CASE d # b
    <3>1. c # sub[d].chain
      BY <2>3, <2>4
    <3>2. EndDate(grant, LiveIn(grant, c)) <= clock
      BY <2>2, <2>3, <3>1 DEF EntitlementInv, Remembered
    <3>3. c # sub[b].chain
      BY <2>2, <2>3, <2>4 DEF ChainInv, ActiveChainWhole
    <3>4. c # new.chain
      BY <1>1, <2>2, <3>3 DEF Joins
    <3> QED BY <1>2, <2>3, <3>2, <3>3, <3>4
  <2>5. CASE d = b
    <3>1. c # new.chain
      BY <2>3, <2>5
    <3>2. CASE c # sub[b].chain
      <4>1. EndDate(grant, LiveIn(grant, c)) <= clock
        BY <2>2, <2>3, <2>5, <3>2 DEF EntitlementInv, Remembered
      <4> QED BY <1>2, <2>3, <3>1, <3>2, <4>1
    <3>3. CASE c = sub[b].chain
      <4>1. ~voids
        BY <2>1, <2>2, <2>3, <3>3 DEF Added, Live
      <4>2. sub[b].expires <= clock
        BY <3>1, <3>3, <4>1
      <4>3. sub[b].expires = EndDate(grant, LiveIn(grant, c))
        BY <2>3, <3>3 DEF EntitlementInv, Entitled
      <4> QED BY <1>2, <2>3, <3>1, <4>1, <4>2, <4>3
    <3> QED BY <3>2, <3>3
  <2> QED BY <2>4, <2>5
<1> QED BY <1>4, <1>5, <1>7, <1>9, <1>10

LEMMA VoidRows ==
    ASSUME SaleInv, NEW c, NEW h \in GrantIds
    PROVE  IF c # NoChain /\ grant[h].chain = c
           THEN SameRow(Void(grant, c)[h], grant[h]) /\ Void(grant, c)[h].voided = TRUE
           ELSE Void(grant, c)[h] = grant[h]
<1>1. PICK D : grant \in [GrantIds -> GrantColumns(D)]
  BY DEF SaleInv, RowsShaped
<1>2. PICK row : row = grant[h] /\ row \in GrantColumns(D)
  BY <1>1
<1>3. PICK void : void = [row EXCEPT !.voided = TRUE]
  OBVIOUS
<1>4. SameRow(void, row)
  BY <1>2, <1>3 DEF GrantColumns, SameRow
<1>5. void.voided = TRUE
  BY <1>2, <1>3 DEF GrantColumns
<1>6. Void(grant, c)[h] = IF c # NoChain /\ row.chain = c THEN void ELSE row
  BY <1>2, <1>3 DEF Void
<1> QED BY <1>2, <1>4, <1>5, <1>6

(* A chain that has not run out ends after each of its grants begins.      *)
LEMMA ActiveChainAhead ==
    ASSUME SaleInv, EntitlementInv, NEW b \in Buyers, sub[b].chain # NoChain,
           sub[b].expires > clock
    PROVE  /\ LiveIn(grant, sub[b].chain) # {}
           /\ sub[b].expires = EndDate(grant, LiveIn(grant, sub[b].chain))
           /\ \A h \in LiveIn(grant, sub[b].chain) :
                 /\ grant[h].effective < sub[b].expires
                 /\ grant[h].plan = sub[b].plan /\ sub[b].plan \in Plans
<1>1. clock \in Nat /\ sub[b].expires \in Nat
  BY ExpiresNat DEF SaleInv, SaleTyped
<1>2. PICK S : S = LiveIn(grant, sub[b].chain)
  OBVIOUS
<1>3. S # {}
  BY <1>1, <1>2 DEF EntitlementInv, Entitled
<1>4. /\ sub[b].expires = EndDate(grant, S)
      /\ \A h \in S : grant[h].plan = sub[b].plan
  BY <1>2, <1>3 DEF EntitlementInv, Entitled
<1>5. Dated(grant, S)
  BY <1>2, LiveDated
<1>6. \A h \in S : h \in GrantIds /\ Exists(h)
  BY <1>2 DEF LiveIn, Exists
<1>7. \A h \in S : grant[h].fixed # 0 => grant[h].effective <= clock
  BY <1>6 DEF EntitlementInv, GrantsSound
<1>8. \A h \in S : grant[h].effective < EndDate(grant, S)
  BY <1>1, <1>4, <1>5, <1>7, EndDateAfter
<1>9. \A h \in S : grant[h].plan \in Plans
  BY <1>6 DEF EntitlementInv, GrantsSound
<1> QED BY <1>2, <1>3, <1>4, <1>8, <1>9

Since(p) == IF Renews(p) THEN sub[purchase[p].buyer].expires ELSE clock

(* The grant that purchase p of merchant b becomes.                        *)
Bought(p, b, new, voids) ==
    /\ Added(b, p, new, voids) /\ Joins(b, p, new, voids)
    /\ new.fixed = 0 /\ new.plan = purchase[p].plan
    /\ new.duration = purchase[p].duration /\ new.effective = Since(p)
    /\ EndDate(grant, LiveIn(grant, new.chain)) <= new.effective
    /\ \A h \in LiveIn(grant, new.chain) : grant[h].plan = new.plan
    /\ new.chain # sub[b].chain => voids \/ sub[b].expires <= clock
    /\ sub' = [sub EXCEPT ![b] = Recomputed(sub[b], grant', new.chain, clock)]

(* A paid purchase begins a chain or extends the one that it renews.       *)
LEMMA SettleAdds ==
    ASSUME SaleInv, ChainInv, EntitlementInv, NEW p \in PurchaseIds, Pending(p),
           Fulfil(p), NEW b, b = purchase[p].buyer
    PROVE  /\ b \in Buyers /\ p \in GrantIds /\ ~Exists(p)
           /\ \E new : \E voids \in BOOLEAN : Bought(p, b, new, voids)
<1>1. b \in Buyers /\ p \in GrantIds /\ purchase[p].plan \in Plans
  BY DEF SaleInv, PurchaseSound, Pending, GrantIds
<1>2. ~Exists(p) /\ p # NoChain
  BY IdsAssumption DEF SaleInv, BillsAgree, Pending, NoChain
<1>3. purchase[p].duration \in Nat /\ purchase[p].duration > 0
  <2>1. purchase[p] \in PurchaseRow
    BY DEF SaleInv, SaleTyped
  <2> QED BY <2>1 DEF PurchaseRow, EntitlementInv, KindsHold
<1>4. clock \in Nat /\ sub[b].expires \in Nat
  BY <1>1, ExpiresNat DEF SaleInv, SaleTyped
<1>5. PICK chain : chain = IF Renews(p) THEN sub[b].chain ELSE p
  OBVIOUS
<1>6. PICK since : since = Since(p)
  OBVIOUS
<1>7. since = IF Renews(p) THEN sub[b].expires ELSE clock
  BY <1>6 DEF Since
<1>8. PICK voids \in BOOLEAN : voids <=> purchase[p].kind = "switch"
  OBVIOUS
<1>9. PICK kept : kept = IF purchase[p].kind = "switch"
                         THEN Void(grant, sub[b].chain) ELSE grant
  OBVIOUS
<1>10. PICK new : new =
         [NoGrant EXCEPT !.chain = chain, !.buyer = b, !.plan = purchase[p].plan,
                         !.effective = since, !.duration = purchase[p].duration]
  OBVIOUS
<1>11. PICK rows : rows = [kept EXCEPT ![p] = new]
  OBVIOUS
<1>12. /\ grant' = rows
       /\ sub' = [sub EXCEPT ![b] = Recomputed(sub[b], rows, chain, clock)]
  BY <1>5, <1>7, <1>9, <1>10, <1>11 DEF Fulfil
<1>13. /\ new.chain = chain /\ new.buyer = b /\ new.plan = purchase[p].plan
       /\ new.effective = since /\ new.duration = purchase[p].duration
       /\ new.fixed = 0
  BY <1>10 DEF NoGrant
<1>14. new.refunded = FALSE
  BY <1>10 DEF NoGrant
<1>15. new.voided = FALSE
  BY <1>10 DEF NoGrant
<1>16. DOMAIN kept = GrantIds
  <2>1. DOMAIN grant = GrantIds
    BY DEF SaleInv, RowsShaped
  <2> QED BY <1>9, <2>1 DEF Void
<1>17. ASSUME NEW h \in GrantIds
       PROVE  IF h = p THEN grant'[h] = new ELSE grant'[h] = kept[h]
  BY <1>11, <1>12, <1>16
<1>18. Added(b, p, new, voids)
  <2> SUFFICES ASSUME NEW h \in GrantIds, h # p
        PROVE  IF voids /\ sub[b].chain # NoChain /\ grant[h].chain = sub[b].chain
               THEN SameRow(grant'[h], grant[h]) /\ grant'[h].voided = TRUE
               ELSE grant'[h] = grant[h]
    BY <1>1, <1>17 DEF Added
  <2>1. grant'[h] = kept[h]
    BY <1>17
  <2>2. CASE voids
    BY <1>8, <1>9, <2>1, <2>2, VoidRows
  <2>3. CASE ~voids
    BY <1>8, <1>9, <2>1, <2>3
  <2> QED BY <2>2, <2>3
<1>19. CASE Renews(p)
  <2>1. /\ purchase[p].kind = "renew" /\ sub[b].chain # NoChain
        /\ sub[b].expires > clock
    BY <1>19 DEF Renews
  <2>2. /\ LiveIn(grant, sub[b].chain) # {}
        /\ sub[b].expires = EndDate(grant, LiveIn(grant, sub[b].chain))
        /\ \A h \in LiveIn(grant, sub[b].chain) :
              /\ grant[h].effective < sub[b].expires
              /\ grant[h].plan = sub[b].plan /\ sub[b].plan \in Plans
    BY <1>1, <2>1, ActiveChainAhead
  <2>3. sub[b].plan = purchase[p].plan
    <3>1. sub[b].plan \in Plans
      BY <2>2
    <3>2. sub[b].plan # NoPlan
      BY <3>1, IdsAssumption
    <3> QED BY <2>1, <3>2 DEF EntitlementInv, KindsHold
  <2>4. chain = sub[b].chain /\ since = sub[b].expires
    BY <1>5, <1>7, <1>19
  <2>5. Joins(b, p, new, voids)
    BY <1>1, <1>3, <1>4, <1>8, <1>13, <1>14, <1>15, <2>1, <2>2, <2>4 DEF Joins
  <2>6. EndDate(grant, LiveIn(grant, chain)) <= since
    BY <1>4, <2>2, <2>4
  <2> QED BY <1>1, <1>2, <1>6, <1>12, <1>13, <1>18, <2>2, <2>3, <2>4, <2>5, <2>6
        DEF Bought
<1>20. CASE ~Renews(p)
  <2>1. chain = p /\ since = clock
    BY <1>5, <1>7, <1>20
  <2>2. LiveIn(grant, p) = {}
    BY <1>1, <1>2 DEF ChainInv, ChainsNamed, LiveIn, Exists
  <2>3. Joins(b, p, new, voids)
    BY <1>1, <1>3, <1>4, <1>13, <1>14, <1>15, <2>1, <2>2 DEF Joins
  <2>4. EndDate(grant, LiveIn(grant, chain)) <= since
    BY <1>4, <2>1, <2>2, EndDateNone
  <2>5. voids \/ sub[b].expires <= clock
    <3>1. CASE purchase[p].kind = "switch"
      BY <1>8, <3>1
    <3>2. CASE purchase[p].kind = "new"
      BY <3>2 DEF EntitlementInv, KindsHold
    <3>3. CASE purchase[p].kind = "renew"
      <4>1. sub[b].chain = NoChain \/ sub[b].expires <= clock
        BY <1>4, <1>20, <3>3 DEF Renews
      <4> QED BY <1>1, <1>4, <4>1 DEF EntitlementInv, Entitled
    <3>4. purchase[p].kind \in {"new", "renew", "switch"}
      BY DEF SaleInv, SaleTyped, PurchaseRow
    <3> QED BY <3>1, <3>2, <3>3, <3>4
  <2> QED BY <1>1, <1>2, <1>6, <1>12, <1>13, <1>18, <2>1, <2>2, <2>3, <2>4, <2>5
        DEF Bought
<1> QED BY <1>19, <1>20

LEMMA RenewsIfActive ==
    ASSUME SaleInv, EntitlementInv, NEW p \in PurchaseIds,
           purchase[p].buyer \in Buyers
    PROVE  Since(p) = IF purchase[p].kind = "renew" /\ Active(purchase[p].buyer)
                      THEN sub[purchase[p].buyer].expires ELSE clock
<1>1. PICK b \in Buyers : b = purchase[p].buyer
  OBVIOUS
<1>2. clock \in Nat /\ sub[b].expires \in Nat
  BY ExpiresNat DEF SaleInv, SaleTyped
<1>3. ASSUME sub[b].expires > clock
      PROVE  sub[b].chain # NoChain /\ sub[b].plan # NoPlan
  <2>1. sub[b].chain # NoChain
    BY <1>2, <1>3 DEF EntitlementInv, Entitled
  <2>2. PICK h \in LiveIn(grant, sub[b].chain) : sub[b].plan \in Plans
    BY <1>3, <2>1, ActiveChainAhead
  <2> QED BY <2>1, <2>2, IdsAssumption
<1> QED BY <1>1, <1>3 DEF Since, Renews, Active

(* Payment keeps the entitlements, and buys the days it was sold with.     *)
LEMMA EntitledSettle ==
    ASSUME SaleInv, ChainInv, EntitlementInv, NEW p \in PurchaseIds,
           NEW byHand \in BOOLEAN, Settle(p, byHand), NEW b, b = purchase[p].buyer
    PROVE  /\ EntitlementInv'
           /\ b \in Buyers
           /\ sub'[b].plan = purchase[p].plan
           /\ sub'[b].expires = purchase[p].duration + Since(p)
<1>1. Pending(p) /\ Fulfil(p) /\ clock' = clock
  BY DEF Settle, Payable
<1>2. /\ b \in Buyers /\ p \in GrantIds /\ ~Exists(p)
      /\ \E new : \E voids \in BOOLEAN : Bought(p, b, new, voids)
  BY <1>1, SettleAdds
<1>3. PICK new : \E voids \in BOOLEAN : Bought(p, b, new, voids)
  BY <1>2
<1>4. PICK voids \in BOOLEAN :
        /\ Added(b, p, new, voids) /\ Joins(b, p, new, voids)
        /\ new.fixed = 0 /\ new.plan = purchase[p].plan
        /\ new.duration = purchase[p].duration /\ new.effective = Since(p)
        /\ EndDate(grant, LiveIn(grant, new.chain)) <= new.effective
        /\ \A h \in LiveIn(grant, new.chain) : grant[h].plan = new.plan
        /\ new.chain # sub[b].chain => voids \/ sub[b].expires <= clock
        /\ sub' = [sub EXCEPT ![b] =
                      Recomputed(sub[b], grant', new.chain, clock)]
  BY <1>3 DEF Bought
<1>5. PICK live : live = LiveIn(grant', new.chain)
  OBVIOUS
<1>6. /\ p \in live /\ Latest(grant', live) = p
      /\ EndDate(grant', live) = new.effective + new.duration
  BY <1>2, <1>4, <1>5, AddedEnd
<1>7. /\ live = LiveIn(grant, new.chain) \cup {p}
      /\ \A h \in GrantIds : h # p =>
            SameRow(grant'[h], grant[h]) /\ (Live(grant'[h]) => Live(grant[h]))
      /\ \A h \in GrantIds : Exists(h)' <=> Exists(h) \/ h = p
  <2>1. Added(b, p, new, voids) /\ Joins(b, p, new, voids)
    BY <1>4
  <2>2. /\ LiveIn(grant', new.chain) = LiveIn(grant, new.chain) \cup {p}
        /\ \A h \in GrantIds : h # p =>
              SameRow(grant'[h], grant[h]) /\ (Live(grant'[h]) => Live(grant[h]))
        /\ \A h \in GrantIds : Exists(h)' <=> Exists(h) \/ h = p
    BY <1>2, <2>1, AddedRows
  <2> QED BY <1>5, <2>2
<1>8. grant'[p] = new
  BY <1>4 DEF Added
<1>9. PICK row : row = Recomputed(sub[b], grant', new.chain, clock)
  OBVIOUS
<1>10. /\ row.plan = new.plan /\ row.expires = EndDate(grant', live)
      /\ row.chain = new.chain
  <2>1. live # {}
    BY <1>6
  <2> QED BY <1>5, <1>6, <1>8, <1>9, <2>1 DEF Recomputed
<1>11. \A d \in Buyers : IF d = b THEN sub'[d] = row ELSE sub'[d] = sub[d]
  <2>1. DOMAIN sub = Buyers
    BY DEF SaleInv, RowsShaped
  <2> QED BY <1>4, <1>9, <2>1
<1>12. \A h \in live : grant'[h].plan = row.plan
  <2> SUFFICES ASSUME NEW h \in live PROVE grant'[h].plan = new.plan
    BY <1>10
  <2>1. CASE h = p
    BY <1>8, <2>1
  <2>2. CASE h # p
    <3>1. h \in LiveIn(grant, new.chain) /\ h \in GrantIds
      BY <1>7, <2>2 DEF LiveIn
    <3> QED BY <1>4, <1>7, <2>2, <3>1 DEF SameRow
  <2> QED BY <2>1, <2>2
<1>13. /\ sub'[b].plan = purchase[p].plan
       /\ sub'[b].expires = new.effective + new.duration
       /\ sub'[b].chain = new.chain
       /\ sub'[b].expires = EndDate(grant', LiveIn(grant', new.chain))
       /\ \A h \in LiveIn(grant', new.chain) : grant'[h].plan = sub'[b].plan
  BY <1>2, <1>4, <1>5, <1>6, <1>10, <1>11, <1>12
<1>14. GrantsSound' /\ GrantsFinite' /\ GrantsApart' /\ Entitled' /\ Remembered'
  BY <1>1, <1>2, <1>4, <1>11, <1>13, AddedEntitles
<1>15. /\ purchase'[p].state = "paid" /\ purchase'[p].buyer = b
       /\ \A q \in PurchaseIds : q # p => purchase'[q] = purchase[q]
  <2>1. purchase = [q \in PurchaseIds |-> purchase[q]] /\ purchase[p] \in PurchaseRow
    BY DEF SaleInv, SaleTyped
  <2>2. PICK paid : paid = [purchase[p] EXCEPT !.state = "paid", !.bill = "paid"]
    OBVIOUS
  <2>3. purchase' = [purchase EXCEPT ![p] = paid]
    BY <2>1, <2>2 DEF Settle
  <2>4. paid.state = "paid" /\ paid.buyer = b
    BY <2>1, <2>2 DEF PurchaseRow
  <2> QED BY <2>1, <2>3, <2>4
<1>16. PurchasesGranted'
  <2> SUFFICES ASSUME NEW q \in PurchaseIds, Exists(q)'
               PROVE  grant'[q].buyer = purchase'[q].buyer /\ grant'[q].fixed = 0
    BY DEF PurchasesGranted
  <2>1. CASE q = p
    BY <1>4, <1>8, <1>15, <2>1 DEF Joins
  <2>2. CASE q # p
    BY <1>7, <1>15, <2>2 DEF EntitlementInv, PurchasesGranted, GrantIds, SameRow
  <2> QED BY <2>1, <2>2
<1>17. OnePending'
  BY <1>15 DEF EntitlementInv, OnePending, Pending
<1>18. KindsHold'
  <2> SUFFICES ASSUME NEW q \in PurchaseIds, Pending(q)'
        PROVE  /\ purchase'[q].duration > 0
               /\ purchase'[q].kind = "new" =>
                     sub'[purchase'[q].buyer].expires <= clock'
               /\ purchase'[q].kind = "renew" =>
                     sub'[purchase'[q].buyer].plan \in {purchase'[q].plan, NoPlan}
    BY DEF KindsHold
  <2>1. q # p /\ Pending(q) /\ purchase'[q] = purchase[q]
    BY <1>15 DEF Pending
  <2>2. purchase[q].buyer # b
    BY <1>1, <2>1 DEF EntitlementInv, OnePending
  <2>3. purchase[q].buyer \in Buyers
    BY <2>1 DEF SaleInv, PurchaseSound, Pending
  <2>4. sub'[purchase[q].buyer] = sub[purchase[q].buyer]
    BY <1>11, <2>2, <2>3
  <2> QED BY <1>1, <2>1, <2>4 DEF EntitlementInv, KindsHold
<1>19. purchase[p].duration \in Nat /\ Since(p) \in Nat
  <2>1. purchase[p] \in PurchaseRow
    BY DEF SaleInv, SaleTyped
  <2> QED BY <1>4, <2>1 DEF PurchaseRow, Joins
<1>20. sub'[b].expires = purchase[p].duration + Since(p)
  BY <1>4, <1>13, <1>19
<1> QED BY <1>2, <1>13, <1>14, <1>16, <1>17, <1>18, <1>20 DEF EntitlementInv

(* A refunded grant counts no more, in the one chain that it is in.        *)
LEMMA RefundedRows ==
    ASSUME SaleInv, EntitlementInv, NEW p \in PurchaseIds, Refund(p)
    PROVE  /\ p \in GrantIds /\ Exists(p) /\ purchase[p].buyer \in Buyers
           /\ grant[p].buyer = purchase[p].buyer
           /\ \A h \in GrantIds :
                 /\ grant'[h].chain = grant[h].chain
                 /\ grant'[h].buyer = grant[h].buyer
                 /\ grant'[h].plan = grant[h].plan
                 /\ grant'[h].effective = grant[h].effective
                 /\ grant'[h].duration = grant[h].duration
                 /\ grant'[h].fixed = grant[h].fixed
                 /\ (Live(grant'[h]) <=> Live(grant[h]) /\ h # p)
           /\ \A c : c # NoChain =>
                 /\ LiveIn(grant', c) = LiveIn(grant, c) \ {p}
                 /\ c # grant[p].chain => LiveIn(grant', c) = LiveIn(grant, c)
                 /\ Dated(grant', LiveIn(grant', c))
                 /\ EndDate(grant, LiveIn(grant, c)) \in Nat
                 /\ EndDate(grant', LiveIn(grant', c)) \in Nat
                 /\ EndDate(grant', LiveIn(grant', c))
                      <= EndDate(grant, LiveIn(grant, c))
<1>1. /\ p \in GrantIds /\ purchase[p].state = "paid" /\ purchase[p].buyer \in Buyers
  BY DEF Refund, SaleInv, PurchaseSound, GrantIds
<1>2. Exists(p) /\ ~grant[p].refunded
  BY <1>1 DEF SaleInv, BillsAgree
<1>3. grant[p].buyer = purchase[p].buyer /\ grant[p].fixed = 0
  BY <1>2 DEF EntitlementInv, PurchasesGranted
<1>4. PICK D : grant \in [GrantIds -> GrantColumns(D)]
  BY DEF SaleInv, RowsShaped
<1>5. PICK row : row = grant[p] /\ row \in GrantColumns(D)
  BY <1>1, <1>4
<1>6. PICK given : given = [row EXCEPT !.refunded = TRUE]
  OBVIOUS
<1>7. /\ given.chain = row.chain /\ given.buyer = row.buyer /\ given.plan = row.plan
      /\ given.effective = row.effective /\ given.duration = row.duration
      /\ given.fixed = row.fixed
  BY <1>5, <1>6 DEF GrantColumns
<1>8. given.refunded = TRUE
  BY <1>5, <1>6 DEF GrantColumns
<1>9. grant' = [grant EXCEPT ![p] = given]
  BY <1>4, <1>5, <1>6 DEF Refund
<1>10. \A h \in GrantIds : IF h = p THEN grant'[h] = given ELSE grant'[h] = grant[h]
  BY <1>4, <1>9
<1>11. \A h \in GrantIds :
         /\ grant'[h].chain = grant[h].chain /\ grant'[h].buyer = grant[h].buyer
         /\ grant'[h].plan = grant[h].plan
         /\ grant'[h].effective = grant[h].effective
         /\ grant'[h].duration = grant[h].duration
         /\ grant'[h].fixed = grant[h].fixed
  BY <1>5, <1>7, <1>10
<1>12. \A h \in GrantIds : Live(grant'[h]) <=> Live(grant[h]) /\ h # p
  BY <1>8, <1>10 DEF Live
<1>13. ASSUME NEW c, c # NoChain
       PROVE  /\ LiveIn(grant', c) = LiveIn(grant, c) \ {p}
              /\ c # grant[p].chain => LiveIn(grant', c) = LiveIn(grant, c)
              /\ Dated(grant', LiveIn(grant', c))
              /\ EndDate(grant, LiveIn(grant, c)) \in Nat
              /\ EndDate(grant', LiveIn(grant', c)) \in Nat
              /\ EndDate(grant', LiveIn(grant', c))
                   <= EndDate(grant, LiveIn(grant, c))
  <2>1. PICK S, T : S = LiveIn(grant, c) /\ T = S \ {p}
    OBVIOUS
  <2>2. LiveIn(grant', c) = T
    BY <1>11, <1>12, <2>1 DEF LiveIn
  <2>3. c # grant[p].chain => T = S
    BY <2>1 DEF LiveIn
  <2>4. Dated(grant, S) /\ Dated(grant, T)
    <3>1. Dated(grant, S)
      BY <1>13, <2>1, LiveDated
    <3> QED BY <2>1, <3>1, DatedPart
  <2>5. SameDates(grant, grant', T)
    BY <1>11, <2>1 DEF SameDates, LiveIn
  <2>6. Dated(grant', T) /\ EndDate(grant', T) = EndDate(grant, T)
    BY <2>4, <2>5, DatedSame, EndDateSame
  <2>7. EndDate(grant, S) \in Nat /\ EndDate(grant, T) \in Nat
    BY <2>4, EndDateNat
  <2>8. EndDate(grant, T) <= EndDate(grant, S)
    <3>1. CASE p \in S
      BY <1>3, <2>1, <2>4, <3>1, EndDateShrinks
    <3>2. CASE p \notin S
      <4>1. T = S
        BY <2>1, <3>2
      <4> QED BY <2>7, <4>1
    <3> QED BY <3>1, <3>2
  <2> QED BY <2>1, <2>2, <2>3, <2>6, <2>7, <2>8
<1> QED BY <1>1, <1>2, <1>3, <1>11, <1>12, <1>13

(* A refund keeps the entitlements, and shortens no one else's.            *)
LEMMA EntitledRefund ==
    ASSUME SaleInv, ChainInv, EntitlementInv, NEW p \in PurchaseIds, Refund(p),
           NEW b, b = purchase[p].buyer
    PROVE  /\ EntitlementInv'
           /\ sub'[b].plan \in {sub[b].plan, NoPlan}
           /\ sub'[b].expires <= Max({sub[b].expires, clock})
           /\ grant[p].chain # sub[b].chain => sub'[b] = sub[b]
<1>1. PICK c : c = grant[p].chain
  OBVIOUS
<1>2. /\ p \in GrantIds /\ b \in Buyers /\ c # NoChain /\ grant[p].buyer = b
      /\ \A h \in GrantIds :
            /\ grant'[h].chain = grant[h].chain /\ grant'[h].buyer = grant[h].buyer
            /\ grant'[h].plan = grant[h].plan
            /\ grant'[h].effective = grant[h].effective
            /\ grant'[h].duration = grant[h].duration
            /\ grant'[h].fixed = grant[h].fixed
            /\ (Live(grant'[h]) <=> Live(grant[h]) /\ h # p)
  BY <1>1, RefundedRows DEF Exists
<1>3. ASSUME NEW e, e # NoChain
      PROVE  /\ LiveIn(grant', e) = LiveIn(grant, e) \ {p}
             /\ e # c => LiveIn(grant', e) = LiveIn(grant, e)
             /\ Dated(grant', LiveIn(grant', e))
             /\ EndDate(grant, LiveIn(grant, e)) \in Nat
             /\ EndDate(grant', LiveIn(grant', e)) \in Nat
             /\ EndDate(grant', LiveIn(grant', e)) <= EndDate(grant, LiveIn(grant, e))
  BY <1>1, <1>3, RefundedRows
<1>4. clock \in Nat /\ clock' = clock /\ sub[b].expires \in Nat
  BY <1>2, ExpiresNat DEF Refund, SaleInv, SaleTyped
<1>5. PICK most \in Nat : /\ most = Max({sub[b].expires, clock})
                          /\ most >= sub[b].expires /\ most >= clock
                          /\ most \in {sub[b].expires, clock}
  <2>1. Max({sub[b].expires, clock}) =
           IF sub[b].expires >= clock THEN sub[b].expires ELSE clock
    BY <1>4, MaxOfTwo
  <2> QED BY <1>4, <2>1
<1>6. ASSUME NEW d \in Buyers, sub[d].chain = c PROVE d = b
  BY <1>1, <1>2, <1>6 DEF ChainInv, ActiveChainWhole
<1>7. /\ \A d \in Buyers : d # b => sub'[d] = sub[d]
      /\ sub[b].chain # c => sub'[b] = sub[b]
      /\ sub[b].chain = c => sub'[b] = Recomputed(sub[b], grant', c, clock)
  <2>1. DOMAIN sub = Buyers
    BY DEF SaleInv, RowsShaped
  <2>2. PICK row : row = Recomputed(sub[b], grant', c, clock)
    OBVIOUS
  <2>3. sub' = IF sub[b].chain = c THEN [sub EXCEPT ![b] = row] ELSE sub
    BY <1>1, <2>2 DEF Refund, Follows
  <2> QED BY <1>2, <2>1, <2>2, <2>3
<1>8. ASSUME sub[b].chain = c
      PROVE  /\ sub'[b].chain = c /\ sub'[b].expires \in Nat
             /\ LiveIn(grant', c) = {} =>
                   sub'[b].plan = NoPlan /\ sub'[b].expires = clock
             /\ LiveIn(grant', c) # {} =>
                   /\ sub'[b].plan = sub[b].plan
                   /\ sub'[b].expires = EndDate(grant', LiveIn(grant', c))
                   /\ sub'[b].expires <= sub[b].expires
                   /\ \A h \in LiveIn(grant', c) : grant'[h].plan = sub'[b].plan
  <2>1. PICK live : live = LiveIn(grant', c)
    OBVIOUS
  <2>2. PICK row : row = Recomputed(sub[b], grant', c, clock) /\ sub'[b] = row
    BY <1>7, <1>8
  <2>3. CASE live = {}
    <3>1. PICK E : sub[b] \in SubColumns(E)
      BY <1>2 DEF SaleInv, RowsShaped
    <3>2. row = [sub[b] EXCEPT !.plan = NoPlan, !.expires = clock,
                               !.revision = sub[b].revision + 1, !.chain = c,
                               !.source = "none"]
      BY <2>1, <2>2, <2>3 DEF Recomputed
    <3>3. row.plan = NoPlan /\ row.expires = clock /\ row.chain = c
      BY <3>1, <3>2 DEF SubColumns
    <3> QED BY <1>4, <2>1, <2>2, <2>3, <3>3
  <2>4. CASE live # {}
    <3>1. LiveIn(grant, c) # {} /\ live \subseteq LiveIn(grant, c)
      BY <1>2, <1>3, <2>1, <2>4
    <3>2. /\ sub[b].expires = EndDate(grant, LiveIn(grant, c))
          /\ \A h \in LiveIn(grant, c) : grant[h].plan = sub[b].plan
      BY <1>2, <1>8, <3>1 DEF EntitlementInv, Entitled
    <3>3. \A h \in live : grant'[h].plan = sub[b].plan
      BY <1>2, <3>1, <3>2 DEF LiveIn
    <3>4. Latest(grant', live) \in live
      BY <1>2, <1>3, <2>1, <2>4, LatestLast
    <3>5. /\ row.plan = grant'[Latest(grant', live)].plan
          /\ row.expires = EndDate(grant', live) /\ row.chain = c
      BY <2>1, <2>2, <2>4 DEF Recomputed
    <3>6. row.expires <= sub[b].expires /\ row.expires \in Nat
      BY <1>2, <1>3, <2>1, <3>2, <3>5
    <3> QED BY <2>1, <2>2, <3>3, <3>4, <3>5, <3>6
  <2> QED BY <2>3, <2>4
<1>9. \A d \in Buyers : sub'[d].chain = sub[d].chain
  BY <1>2, <1>7, <1>8
<1>10. /\ sub'[b].expires \in Nat /\ sub'[b].expires <= most
       /\ sub'[b].plan \in {sub[b].plan, NoPlan}
  <2>1. CASE sub[b].chain # c
    BY <1>4, <1>5, <1>7, <2>1
  <2>2. CASE sub[b].chain = c
    <3>1. /\ sub'[b].expires \in Nat
          /\ sub'[b].expires = clock \/ sub'[b].expires <= sub[b].expires
          /\ sub'[b].plan \in {sub[b].plan, NoPlan}
      BY <1>8, <2>2
    <3> QED BY <1>4, <1>5, <3>1
  <2> QED BY <2>1, <2>2
<1>11. GrantsSound' /\ GrantsFinite' /\ GrantsApart'
  <2>1. \A h \in GrantIds : Exists(h)' <=> Exists(h)
    BY <1>2 DEF Exists
  <2>2. GrantsSound'
    BY <1>2, <1>4, <2>1 DEF EntitlementInv, GrantsSound
  <2>3. GrantsFinite'
    BY <2>1 DEF EntitlementInv, GrantsFinite
  <2>4. GrantsApart'
    BY <1>2, <2>1 DEF EntitlementInv, GrantsApart
  <2> QED BY <2>2, <2>3, <2>4
<1>12. /\ purchase'[p].state = "refunded" /\ purchase'[p].buyer = b
       /\ \A q \in PurchaseIds : q # p => purchase'[q] = purchase[q]
  <2>1. purchase = [q \in PurchaseIds |-> purchase[q]] /\ purchase[p] \in PurchaseRow
    BY DEF SaleInv, SaleTyped
  <2>2. PICK back : back = [purchase[p] EXCEPT !.state = "refunded",
                                               !.bill = "refunded"]
    OBVIOUS
  <2>3. purchase' = [purchase EXCEPT ![p] = back]
    BY <2>1, <2>2 DEF Refund
  <2>4. back.state = "refunded" /\ back.buyer = b
    BY <2>1, <2>2 DEF PurchaseRow
  <2> QED BY <2>1, <2>3, <2>4
<1>13. PurchasesGranted'
  BY <1>2, <1>12 DEF EntitlementInv, PurchasesGranted, Exists, GrantIds
<1>14. OnePending'
  BY <1>12 DEF EntitlementInv, OnePending, Pending
<1>15. KindsHold'
  <2> SUFFICES ASSUME NEW q \in PurchaseIds, Pending(q)'
        PROVE  /\ purchase'[q].duration > 0
               /\ purchase'[q].kind = "new" =>
                     sub'[purchase'[q].buyer].expires <= clock
               /\ purchase'[q].kind = "renew" =>
                     sub'[purchase'[q].buyer].plan \in {purchase'[q].plan, NoPlan}
    BY <1>4 DEF KindsHold
  <2>1. q # p /\ Pending(q) /\ purchase'[q] = purchase[q]
    BY <1>12 DEF Pending
  <2>2. PICK d : d = purchase[q].buyer /\ d \in Buyers
    BY <2>1 DEF SaleInv, PurchaseSound, Pending
  <2>3. /\ purchase[q].duration > 0
        /\ purchase[q].kind = "new" => sub[d].expires <= clock
        /\ purchase[q].kind = "renew" => sub[d].plan \in {purchase[q].plan, NoPlan}
    BY <2>1, <2>2 DEF EntitlementInv, KindsHold
  <2>4. CASE d = b
    BY <1>4, <1>5, <1>10, <2>1, <2>2, <2>3, <2>4
  <2>5. CASE d # b
    BY <1>7, <2>1, <2>2, <2>3, <2>5
  <2> QED BY <2>4, <2>5
<1>16. Entitled'
  <2> SUFFICES ASSUME NEW d \in Buyers, NEW e, e = sub'[d].chain
        PROVE  /\ e = NoChain => sub'[d].plan = NoPlan /\ sub'[d].expires = 0
               /\ e # NoChain /\ LiveIn(grant', e) = {} =>
                     /\ sub'[d].plan = NoPlan /\ sub'[d].expires \in Nat
                     /\ sub'[d].expires <= clock
               /\ e # NoChain /\ LiveIn(grant', e) # {} =>
                     /\ sub'[d].expires = EndDate(grant', LiveIn(grant', e))
                     /\ \A h \in LiveIn(grant', e) : grant'[h].plan = sub'[d].plan
    BY <1>4 DEF Entitled
  <2>1. e = sub[d].chain
    BY <1>9
  <2>2. CASE e = c
    <3>1. d = b
      BY <1>6, <2>1, <2>2
    <3>2. sub[b].chain = c
      BY <2>1, <2>2, <3>1
    <3>3. /\ sub'[b].expires \in Nat
          /\ LiveIn(grant', c) = {} =>
                sub'[b].plan = NoPlan /\ sub'[b].expires = clock
          /\ LiveIn(grant', c) # {} =>
                /\ sub'[b].expires = EndDate(grant', LiveIn(grant', c))
                /\ \A h \in LiveIn(grant', c) : grant'[h].plan = sub'[b].plan
      BY <1>8, <3>2
    <3>4. clock <= clock
      BY <1>4
    <3> QED BY <1>2, <2>2, <3>1, <3>3, <3>4
  <2>3. CASE e # c
    <3>1. sub'[d] = sub[d]
      BY <1>7, <2>1, <2>3
    <3>2. CASE e = NoChain
      BY <2>1, <3>1, <3>2 DEF EntitlementInv, Entitled
    <3>3. CASE e # NoChain
      <4>1. PICK S : S = LiveIn(grant, e) /\ S = LiveIn(grant', e)
        BY <1>3, <2>3, <3>3
      <4>2. EndDate(grant', S) = EndDate(grant, S)
        <5>1. Dated(grant, S)
          BY <3>3, <4>1, LiveDated
        <5>2. SameDates(grant, grant', S)
          BY <1>2, <4>1 DEF SameDates, LiveIn
        <5> QED BY <5>1, <5>2, EndDateSame
      <4>3. \A h \in S : grant'[h].plan = grant[h].plan
        BY <1>2, <4>1 DEF LiveIn
      <4>4. CASE S = {}
        BY <2>1, <3>1, <3>3, <4>1, <4>4 DEF EntitlementInv, Entitled
      <4>5. CASE S # {}
        <5>1. sub[d].expires = EndDate(grant, S) /\ \A h \in S : grant[h].plan = sub[d].plan
          BY <2>1, <3>3, <4>1, <4>5 DEF EntitlementInv, Entitled
        <5>2. sub'[d].expires = EndDate(grant', S)
          BY <3>1, <4>2, <5>1
        <5>3. \A h \in S : grant'[h].plan = sub'[d].plan
          BY <3>1, <4>3, <5>1
        <5> QED BY <3>3, <4>1, <4>5, <5>2, <5>3
      <4> QED BY <4>4, <4>5
    <3> QED BY <3>2, <3>3
  <2> QED BY <2>2, <2>3
<1>17. Remembered'
  <2> SUFFICES ASSUME NEW h \in GrantIds, Exists(h)', Live(grant'[h]),
                      grant'[h].chain # sub'[grant'[h].buyer].chain
               PROVE  EndDate(grant', LiveIn(grant', grant'[h].chain)) <= clock
    BY <1>4 DEF Remembered
  <2>1. PICK e, d : e = grant[h].chain /\ d = grant[h].buyer
    OBVIOUS
  <2>2. /\ grant'[h].chain = e /\ grant'[h].buyer = d /\ e # NoChain
        /\ Exists(h) /\ Live(grant[h])
    BY <1>2, <2>1 DEF Exists
  <2>3. d \in Buyers
    BY <2>1, <2>2 DEF EntitlementInv, GrantsSound
  <2>4. e # sub[d].chain
    BY <1>9, <2>2, <2>3
  <2>5. EndDate(grant, LiveIn(grant, e)) <= clock
    BY <2>1, <2>2, <2>4 DEF EntitlementInv, Remembered
  <2>6. PICK m, n \in Nat : /\ m = EndDate(grant, LiveIn(grant, e))
                            /\ n = EndDate(grant', LiveIn(grant', e)) /\ n <= m
    BY <1>3, <2>2
  <2> QED BY <1>4, <2>2, <2>5, <2>6
<1>18. EntitlementInv'
  BY <1>11, <1>13, <1>14, <1>15, <1>16, <1>17 DEF EntitlementInv
<1>19. sub'[b].expires <= Max({sub[b].expires, clock})
  BY <1>5, <1>10
<1>20. grant[p].chain # sub[b].chain => sub'[b] = sub[b]
  BY <1>1, <1>7
<1> QED BY <1>10, <1>18, <1>19, <1>20

(* A person's grant replaces what the merchant has and is about to buy.    *)
LEMMA EntitledManual ==
    ASSUME SaleInv, ChainInv, EntitlementInv, NEW b \in Buyers, NEW g \in ManualIds,
           NEW pl \in Plans, NEW e \in Expiries, Grant(b, g, pl, e)
    PROVE  EntitlementInv'
<1> DEFINE S == {p \in PurchaseIds : Pending(p) /\ purchase[p].buyer = b}
<1>1. /\ S \in SUBSET {p \in PurchaseIds : Pending(p)}
      /\ Cancel(S) /\ clock' = clock /\ ~Exists(g)
  BY DEF Grant
<1>2. Closing(S)
  BY <1>1, CancelCloses
<1>3. \A p \in PurchaseIds :
        /\ purchase'[p].buyer = purchase[p].buyer
        /\ Pending(p)' => /\ Pending(p) /\ purchase[p].buyer # b
                          /\ purchase'[p] = purchase[p]
  <2>1. \A p \in PurchaseIds : p \notin S => purchase'[p] = purchase[p]
    BY <1>1 DEF Cancel
  <2> QED BY <1>2, <2>1 DEF Closing, Pending
<1> HIDE DEF S
<1>4. g \in GrantIds /\ g \notin PurchaseIds /\ g # NoChain
  BY IdsAssumption DEF GrantIds, NoChain
<1>5. e \in Nat /\ e # 0 /\ clock \in Nat
  BY TermsAssumption DEF SaleInv, SaleTyped
<1>6. PICK kept : kept = Void(grant, sub[b].chain)
  OBVIOUS
<1>7. PICK new : new = [NoGrant EXCEPT !.chain = g, !.buyer = b, !.plan = pl,
                                       !.effective = clock, !.fixed = e]
  OBVIOUS
<1>8. /\ new.chain = g /\ new.buyer = b /\ new.plan = pl /\ new.effective = clock
      /\ new.duration = 0 /\ new.fixed = e
  BY <1>7 DEF NoGrant
<1>9. new.refunded = FALSE
  BY <1>7 DEF NoGrant
<1>10. new.voided = FALSE
  BY <1>7 DEF NoGrant
<1>11. grant' = [kept EXCEPT ![g] = new]
  BY <1>6, <1>7 DEF Grant
<1>12. grant'[g] = new /\ \A h \in GrantIds : h # g => grant'[h] = kept[h]
  BY <1>4, <1>6, <1>11 DEF Void
<1>13. Added(b, g, new, TRUE)
  BY <1>6, <1>12, VoidRows DEF Added
<1>14. LiveIn(grant, g) = {}
  BY <1>1, <1>4 DEF ChainInv, ChainsNamed, LiveIn, Exists
<1>15. Joins(b, g, new, TRUE)
  BY <1>5, <1>8, <1>9, <1>10, <1>14 DEF Joins
<1>16. PICK row : row = [plan |-> pl, expires |-> e, chain |-> g,
                         revision |-> sub[b].revision + 1, source |-> "manual"]
  OBVIOUS
<1>17. \A d \in Buyers : IF d = b THEN sub'[d] = row ELSE sub'[d] = sub[d]
  <2>1. DOMAIN sub = Buyers
    BY DEF SaleInv, RowsShaped
  <2>2. sub' = [sub EXCEPT ![b] = row]
    BY <1>16 DEF Grant
  <2> QED BY <2>1, <2>2
<1>18. LiveIn(grant', g) = {g} /\ \A h \in GrantIds : Exists(h)' <=> Exists(h) \/ h = g
  <2>1. /\ LiveIn(grant', new.chain) = LiveIn(grant, new.chain) \cup {g}
        /\ \A h \in GrantIds : Exists(h)' <=> Exists(h) \/ h = g
    BY <1>1, <1>4, <1>13, <1>15, AddedRows
  <2> QED BY <1>8, <1>14, <2>1
<1>19. EndDate(grant', LiveIn(grant', g)) = e
  <2>1. new.fixed # 0 => EndDate(grant', LiveIn(grant', new.chain)) = new.fixed
    BY <1>1, <1>4, <1>13, <1>15, AddedEnd
  <2> QED BY <1>5, <1>8, <2>1
<1>20. /\ sub'[b].chain = new.chain
       /\ sub'[b].expires = EndDate(grant', LiveIn(grant', new.chain))
       /\ \A h \in LiveIn(grant', new.chain) : grant'[h].plan = sub'[b].plan
  BY <1>8, <1>12, <1>16, <1>17, <1>18, <1>19
<1>21. GrantsSound' /\ GrantsFinite' /\ GrantsApart' /\ Entitled' /\ Remembered'
  BY <1>1, <1>4, <1>13, <1>15, <1>17, <1>20, AddedEntitles
<1>22. PurchasesGranted'
  <2> SUFFICES ASSUME NEW p \in PurchaseIds, Exists(p)'
               PROVE  grant'[p].buyer = purchase'[p].buyer /\ grant'[p].fixed = 0
    BY DEF PurchasesGranted
  <2>1. p \in GrantIds /\ p # g /\ Exists(p)
    BY <1>4, <1>18 DEF GrantIds
  <2>2. grant[p].buyer = purchase[p].buyer /\ grant[p].fixed = 0
    BY <2>1 DEF EntitlementInv, PurchasesGranted
  <2>3. SameRow(grant'[p], grant[p])
    BY <1>13, <2>1 DEF Added, SameRow
  <2> QED BY <1>3, <2>2, <2>3 DEF SameRow
<1>23. OnePending'
  BY <1>3 DEF EntitlementInv, OnePending
<1>24. KindsHold'
  <2> SUFFICES ASSUME NEW q \in PurchaseIds, Pending(q)'
        PROVE  /\ purchase'[q].duration > 0
               /\ purchase'[q].kind = "new" =>
                     sub'[purchase'[q].buyer].expires <= clock'
               /\ purchase'[q].kind = "renew" =>
                     sub'[purchase'[q].buyer].plan \in {purchase'[q].plan, NoPlan}
    BY DEF KindsHold
  <2>1. Pending(q) /\ purchase'[q] = purchase[q] /\ purchase[q].buyer # b
    BY <1>3
  <2>2. purchase[q].buyer \in Buyers
    BY <2>1 DEF SaleInv, PurchaseSound, Pending
  <2>3. sub'[purchase[q].buyer] = sub[purchase[q].buyer]
    BY <1>17, <2>1, <2>2
  <2> QED BY <1>1, <2>1, <2>3 DEF EntitlementInv, KindsHold
<1> QED BY <1>21, <1>22, <1>23, <1>24 DEF EntitlementInv

-----------------------------------------------------------------------------
(* Every step.                                                             *)

(* What a step keeps beside the invariant.                                 *)
DaysAsSold ==
    \A p \in PurchaseIds : Becomes(p, "pending", "paid") =>
          LET b == purchase[p].buyer
          IN  /\ sub'[b].plan = purchase[p].plan
              /\ sub'[b].expires = purchase[p].duration +
                    (IF purchase[p].kind = "renew" /\ Active(b)
                     THEN sub[b].expires ELSE clock)

NeverRevived ==
    \A p \in PurchaseIds : Becomes(p, "paid", "refunded") =>
          LET b == purchase[p].buyer
          IN  /\ sub'[b].plan \in {sub[b].plan, NoPlan}
              /\ sub'[b].expires <= Max({sub[b].expires, clock})
              /\ grant[p].chain # sub[b].chain => sub'[b] = sub[b]

EntitlementKept == EntitlementInv' /\ DaysAsSold /\ NeverRevived

(* A purchase that stays what it is or ends unpaid.                        *)
EndsUnpaid(new, was) ==
    /\ new.state \in {was.state, "expired", "cancelled"}
    /\ new.buyer = was.buyer /\ new.plan = was.plan
    /\ new.kind = was.kind /\ new.duration = was.duration

LEMMA CancelledUnpaid ==
    ASSUME NEW row \in PurchaseRow
    PROVE  /\ EndsUnpaid(row, row) /\ EndsUnpaid(Cancelled(row), row)
           /\ EndsUnpaid([row EXCEPT !.bill = CancelBill(@)], row)
           /\ EndsUnpaid([row EXCEPT !.bill = "expired"], row)
           /\ EndsUnpaid([row EXCEPT !.state = "expired"], row)
BY DEF EndsUnpaid, Cancelled, PurchaseRow

LEMMA UnpaidEntitles ==
    ASSUME SaleInv, EntitlementInv, UNCHANGED <<grant, sub>>,
           clock' \in Nat, clock' >= clock,
           \A p \in PurchaseIds : EndsUnpaid(purchase'[p], purchase[p])
    PROVE  EntitlementKept
<1>1. EntitlementInv'
  BY EntitledQuietly DEF EndsUnpaid, Pending
<1>2. DaysAsSold /\ NeverRevived
  BY DEF DaysAsSold, NeverRevived, Becomes, EndsUnpaid
<1> QED BY <1>1, <1>2 DEF EntitlementKept

LEMMA NextEntitled ==
    ASSUME SaleInv, ChainInv, EntitlementInv, [Next]_vars
    PROVE  EntitlementKept
<1>1. /\ clock \in Nat /\ clock <= clock
      /\ purchase = [p \in PurchaseIds |-> purchase[p]]
      /\ \A p \in PurchaseIds :
            /\ EndsUnpaid(purchase[p], purchase[p])
            /\ EndsUnpaid(Cancelled(purchase[p]), purchase[p])
            /\ EndsUnpaid([purchase[p] EXCEPT !.bill = CancelBill(@)], purchase[p])
            /\ EndsUnpaid([purchase[p] EXCEPT !.bill = "expired"], purchase[p])
            /\ EndsUnpaid([purchase[p] EXCEPT !.state = "expired"], purchase[p])
  <2>1. clock \in Nat /\ purchase \in [PurchaseIds -> PurchaseRow]
    BY DEF SaleInv, SaleTyped
  <2>2. /\ clock <= clock
        /\ purchase = [p \in PurchaseIds |-> purchase[p]]
        /\ \A p \in PurchaseIds : purchase[p] \in PurchaseRow
    BY <2>1
  <2>3. ASSUME NEW p \in PurchaseIds
        PROVE  /\ EndsUnpaid(purchase[p], purchase[p])
               /\ EndsUnpaid(Cancelled(purchase[p]), purchase[p])
               /\ EndsUnpaid([purchase[p] EXCEPT !.bill = CancelBill(@)], purchase[p])
               /\ EndsUnpaid([purchase[p] EXCEPT !.bill = "expired"], purchase[p])
               /\ EndsUnpaid([purchase[p] EXCEPT !.state = "expired"], purchase[p])
    <3>1. purchase[p] \in PurchaseRow
      BY <2>2
    <3> QED BY <3>1, CancelledUnpaid
  <2> QED BY <2>1, <2>2, <2>3
<1>2. ASSUME UNCHANGED <<clock, grant, sub>>,
             \A p \in PurchaseIds : EndsUnpaid(purchase'[p], purchase[p])
      PROVE  EntitlementKept
  BY <1>1, <1>2, UnpaidEntitles
<1>3. CASE Tick
  <2>1. clock' \in Nat /\ clock' >= clock
    BY <1>1, <1>3 DEF Tick
  <2> QED BY <1>1, <1>3, <2>1, UnpaidEntitles DEF Tick
<1>4. ASSUME NEW S, Cancel(S), UNCHANGED <<clock, grant, sub>> PROVE EntitlementKept
  BY <1>1, <1>2, <1>4 DEF Cancel
<1>5. ASSUME NEW pl \in Plans, DeletePlan(pl) PROVE EntitlementKept
  BY <1>4, <1>5 DEF DeletePlan
<1>6. ASSUME NEW p \in PurchaseIds, CancelPurchase(p) PROVE EntitlementKept
  BY <1>4, <1>6 DEF CancelPurchase
<1>7. ASSUME UNCHANGED <<clock, purchase, grant, sub>> PROVE EntitlementKept
  BY <1>1, <1>2, <1>7
<1>8. ASSUME NEW pl \in Plans, NEW d \in Durations, NEW l \in Limits, SavePlan(pl, d, l)
      PROVE  EntitlementKept
  BY <1>7, <1>8 DEF SavePlan
<1>9. ASSUME NEW b \in Buyers, Drop(b) PROVE EntitlementKept
  BY <1>7, <1>9 DEF Drop
<1>10. ASSUME NEW b \in Buyers, NEW pl \in Plans, NEW c \in Confirms, Review(b, pl, c)
       PROVE  EntitlementKept
  BY <1>7, <1>10 DEF Review
<1>11. ASSUME NEW m \in Bannable, Unban(m) PROVE EntitlementKept
  BY <1>7, <1>11 DEF Unban
<1>12. CASE UNCHANGED vars
  BY <1>7, <1>12 DEF vars
<1>13. ASSUME NEW p \in PurchaseIds, CloseExpired(p) PROVE EntitlementKept
  <2>1. PICK row : row = [purchase[p] EXCEPT !.state = "expired"]
    OBVIOUS
  <2>2. purchase' = [purchase EXCEPT ![p] = row] /\ UNCHANGED <<clock, grant, sub>>
    BY <1>1, <1>13, <2>1 DEF CloseExpired
  <2> QED BY <1>1, <1>2, <2>1, <2>2
<1>14. ASSUME NEW p \in PurchaseIds, LapseBill(p) PROVE EntitlementKept
  <2>1. PICK row : row = [purchase[p] EXCEPT !.bill = "expired"]
    OBVIOUS
  <2>2. purchase' = [purchase EXCEPT ![p] = row] /\ UNCHANGED <<clock, grant, sub>>
    BY <1>1, <1>14, <2>1 DEF LapseBill
  <2> QED BY <1>1, <1>2, <2>1, <2>2
<1>15. ASSUME NEW m \in Bannable, Ban(m) PROVE EntitlementKept
  <2>1. /\ UNCHANGED <<clock, grant, sub>>
        /\ purchase' = [p \in PurchaseIds |->
              IF p \in {q \in PurchaseIds : Pending(q) /\ purchase[q].buyer = m}
              THEN Cancelled(purchase[p])
              ELSE IF m = Billing
              THEN [purchase[p] EXCEPT !.bill = CancelBill(@)]
              ELSE purchase[p]]
    BY <1>15 DEF Ban
  <2>2. ASSUME NEW p \in PurchaseIds
        PROVE  \/ purchase'[p] = Cancelled(purchase[p])
               \/ purchase'[p] = [purchase[p] EXCEPT !.bill = CancelBill(@)]
               \/ purchase'[p] = purchase[p]
    BY <2>1
  <2>3. \A p \in PurchaseIds : EndsUnpaid(purchase'[p], purchase[p])
    BY <1>1, <2>2
  <2> QED BY <1>2, <2>1, <2>3
<1>16. ASSUME NEW b \in Buyers, NEW p \in PurchaseIds, Purchase(b, p)
       PROVE  EntitlementKept
  <2>1. EntitlementInv'
    BY <1>16, EntitledPurchase
  <2>2. \A q \in PurchaseIds : purchase'[q].state # purchase[q].state =>
           purchase[q].state = "absent"
    BY <1>1, <1>16 DEF Purchase
  <2>3. DaysAsSold /\ NeverRevived
    BY <2>2 DEF DaysAsSold, NeverRevived, Becomes
  <2> QED BY <2>1, <2>3 DEF EntitlementKept
<1>17. ASSUME NEW b \in Buyers, NEW g \in ManualIds, NEW pl \in Plans,
              NEW e \in Expiries, Grant(b, g, pl, e)
       PROVE  EntitlementKept
  <2>1. EntitlementInv'
    BY <1>17, EntitledManual
  <2>2. PICK S : Cancel(S)
    BY <1>17 DEF Grant
  <2>3. \A q \in PurchaseIds : EndsUnpaid(purchase'[q], purchase[q])
    BY <1>1, <2>2 DEF Cancel
  <2>4. DaysAsSold /\ NeverRevived
    BY <2>3 DEF DaysAsSold, NeverRevived, Becomes, EndsUnpaid
  <2> QED BY <2>1, <2>4 DEF EntitlementKept
<1>18. ASSUME NEW p \in PurchaseIds, NEW byHand \in BOOLEAN, Settle(p, byHand)
       PROVE  EntitlementKept
  <2>1. PICK b : b = purchase[p].buyer
    OBVIOUS
  <2>2. /\ EntitlementInv' /\ b \in Buyers
        /\ sub'[b].plan = purchase[p].plan
        /\ sub'[b].expires = purchase[p].duration + Since(p)
    BY <1>18, <2>1, EntitledSettle
  <2>3. Since(p) = IF purchase[p].kind = "renew" /\ Active(b)
                   THEN sub[b].expires ELSE clock
    BY <2>1, <2>2, RenewsIfActive
  <2>4. PICK paid : paid = [purchase[p] EXCEPT !.state = "paid", !.bill = "paid"]
    OBVIOUS
  <2>5. purchase' = [purchase EXCEPT ![p] = paid] /\ purchase[p].state = "pending"
    BY <1>1, <1>18, <2>4 DEF Settle, Payable, Pending
  <2>6. \A q \in PurchaseIds : q # p => purchase'[q] = purchase[q]
    BY <1>1, <2>5
  <2>7. DaysAsSold
    BY <2>1, <2>2, <2>3, <2>6 DEF DaysAsSold, Becomes
  <2>8. NeverRevived
    BY <2>5, <2>6 DEF NeverRevived, Becomes
  <2> QED BY <2>2, <2>7, <2>8 DEF EntitlementKept
<1>19. ASSUME NEW p \in PurchaseIds, Refund(p) PROVE EntitlementKept
  <2>1. PICK b : b = purchase[p].buyer
    OBVIOUS
  <2>2. /\ EntitlementInv'
        /\ sub'[b].plan \in {sub[b].plan, NoPlan}
        /\ sub'[b].expires <= Max({sub[b].expires, clock})
        /\ grant[p].chain # sub[b].chain => sub'[b] = sub[b]
    BY <1>19, <2>1, EntitledRefund
  <2>3. PICK back : back = [purchase[p] EXCEPT !.state = "refunded",
                                               !.bill = "refunded"]
    OBVIOUS
  <2>4. purchase' = [purchase EXCEPT ![p] = back] /\ purchase[p].state = "paid"
    BY <1>1, <1>19, <2>3 DEF Refund
  <2>5. \A q \in PurchaseIds : q # p => purchase'[q] = purchase[q]
    BY <1>1, <2>4
  <2>6. NeverRevived
    BY <2>1, <2>2, <2>5 DEF NeverRevived, Becomes
  <2>7. DaysAsSold
    BY <2>4, <2>5 DEF DaysAsSold, Becomes
  <2> QED BY <2>2, <2>6, <2>7 DEF EntitlementKept
<1> QED BY <1>3, <1>5, <1>6, <1>8, <1>9, <1>10, <1>11, <1>12, <1>13, <1>14, <1>15,
           <1>16, <1>17, <1>18, <1>19 DEF Next

LEMMA InitEntitled == Init => EntitlementInv
<1> SUFFICES ASSUME Init PROVE EntitlementInv
  OBVIOUS
<1>1. \A g \in GrantIds : ~Exists(g)
  BY DEF Init, Exists, NoGrant
<1>2. GrantsSound /\ PurchasesGranted /\ GrantsApart /\ Remembered
  BY <1>1 DEF GrantsSound, PurchasesGranted, GrantsApart, Remembered, GrantIds
<1>3. GrantsFinite
  <2>1. {g \in GrantIds : Exists(g)} = {}
    BY <1>1
  <2> QED BY <2>1, FS_EmptySet DEF GrantsFinite
<1>4. OnePending /\ KindsHold
  BY DEF Init, OnePending, KindsHold, Pending, NoPurchase
<1>5. Entitled
  BY DEF Init, Entitled, NoSubscription
<1> QED BY <1>2, <1>3, <1>4, <1>5 DEF EntitlementInv

LEMMA EntitlementAlways == Spec => []EntitlementInv
<1>1. SaleInv /\ ChainInv /\ EntitlementInv /\ [Next]_vars => EntitlementInv'
  BY NextEntitled DEF EntitlementKept
<1> QED BY InitEntitled, SaleAlways, ChainAlways, <1>1, PTL DEF Spec

-----------------------------------------------------------------------------
(* The results.                                                            *)

(* The subscription row is only written when a purchase is paid or         *)
(* refunded and when a person grants; it is what the live grants of its    *)
(* chain add up to by calendar at every moment, whatever was bought,       *)
(* renewed, switched and refunded, in which order.                         *)
THEOREM EntitlementFollows == Spec => []EntitlementFollowsGrants
<1>1. ChainInv /\ EntitlementInv => EntitlementFollowsGrants
  <2> SUFFICES ASSUME ChainInv, EntitlementInv, NEW b \in Buyers,
                      sub[b].chain # NoChain, NEW S, S = LiveIn(grant, sub[b].chain)
        PROVE  /\ \A g \in GrantIds : grant[g].chain = sub[b].chain =>
                     ~grant[g].voided /\ grant[g].buyer = b
               /\ IF S = {} THEN sub[b].plan = NoPlan /\ sub[b].expires <= clock
                  ELSE /\ sub[b].expires = EndOf(S)
                       /\ \A g \in S : grant[g].plan = sub[b].plan
    BY DEF EntitlementFollowsGrants
  <2>1. \A g \in GrantIds : grant[g].chain = sub[b].chain =>
           ~grant[g].voided /\ grant[g].buyer = b
    BY DEF ChainInv, ActiveChainWhole
  <2>2. CASE S = {}
    BY <2>1, <2>2 DEF EntitlementInv, Entitled
  <2>3. CASE S # {}
    <3>1. /\ sub[b].expires = EndDate(grant, S)
          /\ \A g \in S : grant[g].plan = sub[b].plan
      BY <2>3 DEF EntitlementInv, Entitled
    <3>2. EndOf(S) = EndDate(grant, S)
      BY <2>3, LiveDated, EndOfIsEndDate
    <3> QED BY <2>1, <2>3, <3>1, <3>2
  <2> QED BY <2>2, <2>3
<1> QED BY ChainAlways, EntitlementAlways, <1>1, PTL

(* What is paid for and is not of the active chain has run out: nothing    *)
(* that a buyer, an administrator, a refund or a ban does leaves days of a *)
(* live grant behind.                                                      *)
THEOREM NothingForgotten == Spec => []NoPaidTimeForgotten
<1>1. EntitlementInv => NoPaidTimeForgotten
  <2> SUFFICES ASSUME EntitlementInv, NEW g \in GrantIds, Exists(g), Live(grant[g]),
                      grant[g].chain # sub[grant[g].buyer].chain
               PROVE  EndOf(LiveIn(grant, grant[g].chain)) <= clock
    BY DEF NoPaidTimeForgotten
  <2>1. PICK S : S = LiveIn(grant, grant[g].chain)
    OBVIOUS
  <2>2. g \in S /\ EndDate(grant, S) <= clock
    BY <2>1 DEF LiveIn, EntitlementInv, Remembered
  <2>3. EndOf(S) = EndDate(grant, S)
    BY <2>1, <2>2, LiveDated, EndOfIsEndDate DEF Exists
  <2> QED BY <2>1, <2>2, <2>3
<1> QED BY EntitlementAlways, <1>1, PTL

(* Whenever the bill is settled, in time or by hand, the purchase buys the *)
(* days it was sold with: from the end of what is active for a renewal,    *)
(* from now for anything else.                                             *)
THEOREM DaysBought == Spec => PaymentBuysItsDays
<1>1. SaleInv /\ ChainInv /\ EntitlementInv /\ [Next]_vars =>
        [\A p \in PurchaseIds : Becomes(p, "pending", "paid") =>
          LET b == purchase[p].buyer
          IN  /\ sub'[b].plan = purchase[p].plan
              /\ sub'[b].expires = purchase[p].duration +
                    (IF purchase[p].kind = "renew" /\ Active(b)
                     THEN sub[b].expires ELSE clock)]_vars
  BY NextEntitled DEF EntitlementKept, DaysAsSold
<1> QED BY SaleAlways, ChainAlways, EntitlementAlways, <1>1, PTL
        DEF Spec, PaymentBuysItsDays

(* A refund, of the first, the last or a middle grant of a chain, never    *)
(* lengthens an entitlement, changes its plan or touches a chain that the  *)
(* grant is not in.                                                        *)
THEOREM RefundsNeverRevive == Spec => RefundNeverRevives
<1>1. SaleInv /\ ChainInv /\ EntitlementInv /\ [Next]_vars =>
        [\A p \in PurchaseIds : Becomes(p, "paid", "refunded") =>
          LET b == purchase[p].buyer
          IN  /\ sub'[b].plan \in {sub[b].plan, NoPlan}
              /\ sub'[b].expires <= Max({sub[b].expires, clock})
              /\ grant[p].chain # sub[b].chain => sub'[b] = sub[b]]_vars
  BY NextEntitled DEF EntitlementKept, NeverRevived
<1> QED BY SaleAlways, ChainAlways, EntitlementAlways, <1>1, PTL
        DEF Spec, RefundNeverRevives

=============================================================================
