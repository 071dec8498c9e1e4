--------------------------- MODULE ConsoleProofs ----------------------------
(***************************************************************************)
(* Proofs about the site's settings (Settings), a merchant's collection    *)
(* codes (Media), lists and announcements (Portal), as MCConsole runs      *)
(* them, for every set of merchants, requests, uploads, orders, rows and   *)
(* readers, every mix of kinds of requests, every size of a page and every *)
(* bound of versions, revisions and time.                                  *)
(***************************************************************************)
EXTENDS MCConsole, FiniteSetTheorems, TLAPS

-----------------------------------------------------------------------------
(* The inductive invariant.                                                *)

BillingRow == [merchant : Clients \cup {Nobody}, valid : BOOLEAN,
               held : 0 .. MaxKey]

Seen == {<<>>} \cup (Limits \X BillingRow \X Nat)

SavingRow ==
    [stage : Site!Stages, kind : Site!Updates \cup Site!Shared \cup {"none"},
     who : Clients \cup {Nobody}, value : Nat, ids : SUBSET Clients,
     seen : Seq(Nat), saw : Seen, runs : 0 .. 3]

(* What the start of a request checks of its inputs.                       *)
Sound(x) ==
    /\ x \in SavingRow
    /\ x.kind \in Site!Shared => x.who \in Clients
    /\ x.kind = "payment" => x.value \in Limits
    /\ x.kind = "collection" => x.value \in Limits \cup {0}

(* The page of an update displayed version v, and if that is still the     *)
(* version ver, it displayed the content in force.                         *)
Displayed(x, ver, content) ==
    \E v \in 1 .. ver : /\ v < MaxVersion /\ x.seen = <<v>>
                        /\ v = ver => x.saw = content

SavingSound ==
    /\ saving \in [Requests -> SavingRow]
    /\ \A r \in Requests :
          /\ Sound(saving[r])
          /\ saving[r].kind \in Site!Updates
                => Displayed(saving[r], version, Site!content)

RowsSound ==
    /\ version \in 1 .. MaxVersion
    /\ bound \in Limits
    /\ billing \in BillingRow
    /\ legal \in 1 .. version
    /\ registered \subseteq Clients
    /\ key \in [Clients -> 1 .. MaxKey]
    /\ own \in [Clients -> Limits \cup {0}]
    /\ accepted \in [Clients -> 0 .. MaxVersion]
    /\ kinds \in SiteMixes

SiteInv ==
    RowsSound /\ SavingSound /\ CollectionWithinBounds /\ CredentialTruth

(* What a step keeps: the invariant, and nothing unseen is overwritten.    *)
SawWhatItReplaces ==
    \A r \in Requests :
        saving[r].kind \in Site!Updates /\ saving'[r] = Site!Idle
        /\ version' # version
            => saving[r].saw = Site!content

SiteKept == SiteInv' /\ SawWhatItReplaces

siteRest == <<version, bound, billing, legal, registered, key, own, accepted, kinds>>

-----------------------------------------------------------------------------
(* Rows of requests.                                                       *)

LEMMA SiteConstants ==
    /\ Limits \subseteq Nat \ {0} /\ Nobody \notin Clients
    /\ MaxVersion \in Nat \ {0} /\ MaxKey \in Nat \ {0}
    /\ FirstClients \subseteq Clients
    /\ SiteMixes \subseteq SUBSET (Site!Updates \cup Site!Shared)
BY ConsoleAssumption DEF Site!SettingsAssumption

LEMMA LimitNumber ==
    ASSUME NEW n \in Limits \cup {0}
    PROVE  n \in Nat
BY SiteConstants

LEMMA IdleSound ==
    /\ Sound(Site!Idle)
    /\ Site!Idle.kind \notin Site!Updates /\ Site!Idle.kind \notin Site!Shared
BY DEF Sound, SavingRow, Seen, Site!Idle, Site!Stages, Site!Updates, Site!Shared

LEMMA StageSound ==
    ASSUME NEW x, Sound(x), NEW s \in Site!Stages
    PROVE  LET new == [x EXCEPT !.stage = s]
           IN  /\ Sound(new) /\ new.kind = x.kind
               /\ new.seen = x.seen /\ new.saw = x.saw
BY DEF Sound, SavingRow

LEMMA RunSound ==
    ASSUME NEW x, Sound(x), x.runs < 3
    PROVE  LET new == [x EXCEPT !.stage = "begun", !.runs = @ + 1]
           IN  /\ Sound(new) /\ new.kind = x.kind
               /\ new.seen = x.seen /\ new.saw = x.saw
<1>1. x.runs + 1 \in 0 .. 3 /\ "begun" \in Site!Stages
  BY DEF Sound, SavingRow, Site!Stages
<1> QED BY <1>1 DEF Sound, SavingRow

(* One request moves; what it and the others displayed is as true as it    *)
(* was, if the content changes only together with the version.             *)
LEMMA SavingStep ==
    ASSUME RowsSound, SavingSound, NEW r \in Requests, NEW x, Sound(x),
           saving' = [saving EXCEPT ![r] = x],
           x.kind \in Site!Updates => Displayed(x, version', Site!content'),
           version' \in {version, version + 1},
           version' = version => Site!content' = Site!content
    PROVE  SavingSound'
<1>1. saving' \in [Requests -> SavingRow]
  BY DEF SavingSound, Sound
<1> SUFFICES ASSUME NEW q \in Requests
             PROVE  /\ Sound(saving'[q])
                    /\ saving'[q].kind \in Site!Updates
                          => Displayed(saving'[q], version', Site!content')
  BY <1>1 DEF SavingSound
<1>2. CASE q = r
  BY <1>2 DEF SavingSound
<1>3. CASE q # r
  <2>1. saving'[q] = saving[q] /\ Sound(saving[q])
    BY <1>3 DEF SavingSound
  <2>2. ASSUME saving[q].kind \in Site!Updates
        PROVE  Displayed(saving[q], version', Site!content')
    <3>1. PICK v \in 1 .. version : /\ v < MaxVersion /\ saving[q].seen = <<v>>
                                    /\ v = version => saving[q].saw = Site!content
      BY <2>2 DEF SavingSound, Displayed
    <3>2. version \in Nat
      BY DEF RowsSound
    <3>3. v \in 1 .. version' /\ (v = version' => v = version /\ version' = version)
      BY <3>1, <3>2
    <3> QED BY <3>1, <3>3 DEF Displayed
  <2> QED BY <2>1, <2>2
<1> QED BY <1>2, <1>3

(* A request moves and writes nothing yet.                                 *)
LEMMA SiteWaits ==
    ASSUME SiteInv, NEW r \in Requests, NEW x, Sound(x),
           saving' = [saving EXCEPT ![r] = x],
           x.kind \in Site!Updates => Displayed(x, version, Site!content),
           UNCHANGED siteRest
    PROVE  SiteKept
<1>1. version' = version /\ Site!content' = Site!content
  BY DEF siteRest, Site!content
<1>2. RowsSound' /\ CollectionWithinBounds' /\ CredentialTruth'
  BY DEF siteRest, SiteInv, RowsSound, CollectionWithinBounds, CredentialTruth,
         Site!CollectionWithinBounds, Site!CredentialTruth
<1>3. SavingSound'
  BY <1>1, SavingStep DEF SiteInv
<1> QED BY <1>1, <1>2, <1>3 DEF SiteKept, SiteInv, SawWhatItReplaces

(* A request commits and is over; if it changed the version, it is one     *)
(* whose writer saw the content, or no update.                             *)
LEMMA SiteCommits ==
    ASSUME SiteInv, NEW r \in Requests,
           saving' = [saving EXCEPT ![r] = Site!Idle],
           version' \in {version, version + 1},
           version' = version => Site!content' = Site!content,
           saving[r].kind \in Site!Updates => saving[r].saw = Site!content,
           RowsSound', CollectionWithinBounds', CredentialTruth'
    PROVE  SiteKept
<1>1. SavingSound'
  BY IdleSound, SavingStep DEF SiteInv
<1>2. ASSUME NEW q \in Requests, q # r PROVE saving'[q] = saving[q]
  BY <1>2 DEF SiteInv, SavingSound
<1>3. SawWhatItReplaces
  BY <1>2, IdleSound DEF SawWhatItReplaces
<1> QED BY <1>1, <1>3 DEF SiteKept, SiteInv

(* An update that finds the version it displayed.                          *)
LEMMA UpdatingSaw ==
    ASSUME SiteInv, NEW r \in Requests, NEW k \in Site!Updates,
           Site!Updating(r, k)
    PROVE  /\ saving[r].kind = k /\ saving[r].saw = Site!content
           /\ version < MaxVersion /\ version' # version
           /\ version' = version + 1
           /\ saving' = [saving EXCEPT ![r] = Site!Idle]
           /\ version \in Nat /\ version' \in 1 .. MaxVersion
           /\ legal \in 1 .. version'
<1>1. /\ saving[r].kind = k /\ saving[r].seen = <<version>>
      /\ version' = version + 1
      /\ saving' = [saving EXCEPT ![r] = Site!Idle]
  BY DEF Site!Updating, Site!Ready, Site!Current, Site!Ends
<1>2. PICK v \in 1 .. version : /\ v < MaxVersion /\ saving[r].seen = <<v>>
                                /\ v = version => saving[r].saw = Site!content
  BY <1>1 DEF SiteInv, SavingSound, Displayed
<1>3. v = version
  BY <1>1, <1>2
<1> QED BY <1>1, <1>2, <1>3, SiteConstants DEF SiteInv, RowsSound

-----------------------------------------------------------------------------
(* Steps.                                                                  *)

LEMMA SiteInitially == ConsoleInit => SiteInv
<1> SUFFICES ASSUME ConsoleInit PROVE SiteInv
  OBVIOUS
<1>1. Site!InitWith(FirstClients)
  BY DEF ConsoleInit
<1>2. RowsSound
  BY <1>1, SiteConstants DEF Site!InitWith, RowsSound, BillingRow
<1>3. saving = [r \in Requests |-> Site!Idle]
  BY <1>1 DEF Site!InitWith
<1>4. Site!Idle \in SavingRow
  BY IdleSound DEF Sound
<1>5. SavingSound
  BY <1>3, <1>4, IdleSound DEF SavingSound
<1>6. CollectionWithinBounds /\ CredentialTruth
  BY <1>1, SiteConstants
     DEF Site!InitWith, CollectionWithinBounds, Site!CollectionWithinBounds,
         CredentialTruth, Site!CredentialTruth
<1> QED BY <1>2, <1>5, <1>6 DEF SiteInv

LEMMA BeginUpdateStep ==
    ASSUME SiteInv, NEW r \in Requests, NEW k \in kinds,
           NEW m \in Clients \cup {Nobody}, NEW value \in Nat,
           Site!BeginUpdate(r, k, m, value)
    PROVE  SiteKept
<1>1. PICK x : x = [stage |-> "begun", kind |-> k, who |-> m, value |-> value,
                    ids |-> registered, seen |-> <<version>>,
                    saw |-> Site!content, runs |-> 1]
  OBVIOUS
<1>2. saving' = [saving EXCEPT ![r] = x] /\ UNCHANGED siteRest
  BY <1>1 DEF Site!BeginUpdate, siteRest
<1>3. /\ k \in Site!Updates /\ version < MaxVersion
      /\ k = "payment" => value \in Limits
  BY DEF Site!BeginUpdate
<1>4. Site!content \in Seen
  <2>1. bound \in Limits /\ billing \in BillingRow /\ legal \in Nat
    BY DEF SiteInv, RowsSound
  <2> QED BY <2>1 DEF Seen, Site!content
<1>5. x \in SavingRow
  <2>1. <<version>> \in Seq(Nat) /\ registered \in SUBSET Clients
    BY DEF SiteInv, RowsSound
  <2> QED BY <1>1, <1>3, <1>4, <2>1 DEF SavingRow, Site!Stages
<1>6. Sound(x)
  BY <1>1, <1>3, <1>5 DEF Sound, Site!Updates, Site!Shared
<1>7. Displayed(x, version, Site!content)
  BY <1>1, <1>3 DEF Displayed, SiteInv, RowsSound
<1> QED BY <1>2, <1>6, <1>7, SiteWaits

LEMMA BeginSharedStep ==
    ASSUME SiteInv, NEW r \in Requests, NEW k \in kinds, NEW m \in Clients,
           NEW value \in Nat, Site!BeginShared(r, k, m, value)
    PROVE  SiteKept
<1>1. PICK x : x = [Site!Idle EXCEPT
                        !.stage = "begun", !.kind = k, !.who = m, !.value = value,
                        !.ids = IF k = "register" THEN {} ELSE {m}, !.runs = 1]
  OBVIOUS
<1>2. saving' = [saving EXCEPT ![r] = x] /\ UNCHANGED siteRest
  BY <1>1 DEF Site!BeginShared, siteRest
<1>3. /\ k \in Site!Shared
      /\ k = "collection" => value \in Limits \cup {0}
  BY DEF Site!BeginShared
<1>4. /\ x.kind = k /\ x.who = m /\ x.value = value
      /\ x \in SavingRow
  <2>1. x = [stage |-> "begun", kind |-> k, who |-> m, value |-> value,
             ids |-> IF k = "register" THEN {} ELSE {m},
             seen |-> <<>>, saw |-> <<>>, runs |-> 1]
    BY <1>1 DEF Site!Idle
  <2>2. <<>> \in Seq(Nat) /\ <<>> \in Seen
    BY DEF Seen
  <2>3. (IF k = "register" THEN {} ELSE {m}) \in SUBSET Clients
    OBVIOUS
  <2> QED BY <1>3, <2>1, <2>2, <2>3 DEF SavingRow, Site!Stages
<1>5. k \notin Site!Updates /\ k # "payment"
  BY <1>3 DEF Site!Updates, Site!Shared
<1>6. Sound(x)
  BY <1>3, <1>4, <1>5 DEF Sound
<1> QED BY <1>2, <1>4, <1>5, <1>6, SiteWaits

LEMMA StageStep ==
    ASSUME SiteInv, NEW r \in Requests, NEW s \in Site!Stages,
           Site!Moved(r, s), UNCHANGED siteRest
    PROVE  SiteKept
<1>1. PICK x : x = [saving[r] EXCEPT !.stage = s]
  OBVIOUS
<1>2. saving' = [saving EXCEPT ![r] = x]
  BY <1>1 DEF Site!Moved, SiteInv, SavingSound
<1>3. Sound(saving[r])
  BY DEF SiteInv, SavingSound
<1>4. Sound(x) /\ x.kind = saving[r].kind /\ x.seen = saving[r].seen
      /\ x.saw = saving[r].saw
  BY <1>1, <1>3, StageSound
<1>5. x.kind \in Site!Updates => Displayed(x, version, Site!content)
  BY <1>4 DEF Displayed, SiteInv, SavingSound
<1> QED BY <1>2, <1>4, <1>5, SiteWaits

LEMMA VictimStep ==
    ASSUME SiteInv, NEW r \in Requests, Site!Victim(r)
    PROVE  SiteKept
<1>0. /\ UNCHANGED siteRest
      /\ saving' = [saving EXCEPT ![r] =
            IF saving[r].runs < 3
            THEN [saving[r] EXCEPT !.stage = "begun", !.runs = saving[r].runs + 1]
            ELSE Site!Idle]
  BY DEF Site!Victim, siteRest
<1>1. CASE saving[r].runs < 3
  <2>1. PICK x : x = [saving[r] EXCEPT !.stage = "begun", !.runs = @ + 1]
    OBVIOUS
  <2>2. saving' = [saving EXCEPT ![r] = x]
    BY <1>0, <1>1, <2>1
  <2>3. Sound(saving[r])
    BY DEF SiteInv, SavingSound
  <2>4. Sound(x) /\ x.kind = saving[r].kind /\ x.seen = saving[r].seen
        /\ x.saw = saving[r].saw
    BY <1>1, <2>1, <2>3, RunSound
  <2>5. x.kind \in Site!Updates => Displayed(x, version, Site!content)
    BY <2>4 DEF Displayed, SiteInv, SavingSound
  <2> QED BY <1>0, <2>2, <2>4, <2>5, SiteWaits
<1>2. CASE ~ (saving[r].runs < 3)
  <2>1. saving' = [saving EXCEPT ![r] = Site!Idle]
    BY <1>0, <1>2
  <2> QED BY <1>0, <2>1, IdleSound, SiteWaits
<1> QED BY <1>1, <1>2

(* Settings out of the new bound go back to the default.                   *)
LEMMA UpdatePaymentStep ==
    ASSUME SiteInv, NEW r \in Requests, Site!UpdatePayment(r)
    PROVE  SiteKept
<1>1. /\ Site!Updating(r, "payment") /\ "payment" \in Site!Updates
      /\ bound' = saving[r].value /\ own' = Site!Reconciled(r)
      /\ UNCHANGED <<billing, legal, registered, key, accepted, kinds>>
  BY DEF Site!UpdatePayment, Site!Updates
<1>2. /\ saving[r].kind = "payment" /\ saving[r].saw = Site!content
      /\ version' = version + 1 /\ version' # version
      /\ version' \in 1 .. MaxVersion
      /\ version \in Nat /\ legal \in 1 .. version'
      /\ saving' = [saving EXCEPT ![r] = Site!Idle]
  BY <1>1, UpdatingSaw
<1>3. bound' \in Limits /\ bound' \in Nat
  <2>1. bound' \in Limits
    BY <1>1, <1>2 DEF SiteInv, SavingSound, Sound
  <2> QED BY <2>1, LimitNumber
<1>4. /\ own' \in [Clients -> Limits \cup {0}]
      /\ \A m \in Clients : own'[m] <= bound'
  <2>1. own \in [Clients -> Limits \cup {0}]
    BY DEF SiteInv, RowsSound
  <2>2. own' = [m \in Clients |-> IF own[m] > bound' THEN 0 ELSE own[m]]
    BY <1>1 DEF Site!Reconciled
  <2>3. ASSUME NEW m \in Clients
        PROVE  own'[m] \in Limits \cup {0} /\ own'[m] <= bound'
    <3>1. own'[m] = IF own[m] > bound' THEN 0 ELSE own[m]
      BY <2>2
    <3>2. own[m] \in Limits \cup {0}
      BY <2>1
    <3>3. own[m] \in Nat
      BY <3>2, LimitNumber
    <3> QED BY <3>1, <3>2, <3>3, <1>3
  <2> QED BY <2>2, <2>3
<1>5. RowsSound' /\ CollectionWithinBounds' /\ CredentialTruth'
  BY <1>1, <1>2, <1>3, <1>4
     DEF SiteInv, RowsSound, CollectionWithinBounds, CredentialTruth,
         Site!CollectionWithinBounds, Site!CredentialTruth
<1> QED BY <1>2, <1>5, SiteCommits

(* The billing key is compared with the merchant's.                        *)
LEMMA UpdateBillingStep ==
    ASSUME SiteInv, NEW r \in Requests, Site!UpdateBilling(r)
    PROVE  SiteKept
<1>1. /\ Site!Updating(r, "billing") /\ "billing" \in Site!Updates
      /\ Site!Billable(r)
      /\ billing' = [merchant |-> saving[r].who, valid |-> TRUE,
                     held |-> IF saving[r].who = Nobody THEN billing.held
                              ELSE saving[r].value]
      /\ UNCHANGED <<bound, legal, registered, key, own, accepted, kinds>>
  BY DEF Site!UpdateBilling, Site!Updates
<1>2. /\ saving[r].saw = Site!content
      /\ version' = version + 1 /\ version' # version
      /\ version' \in 1 .. MaxVersion
      /\ version \in Nat /\ legal \in 1 .. version'
      /\ saving' = [saving EXCEPT ![r] = Site!Idle]
  BY <1>1, UpdatingSaw
<1>3. /\ saving[r].who \in Clients \cup {Nobody}
      /\ saving[r].who # Nobody =>
            saving[r].who \in Clients /\ saving[r].value = key[saving[r].who]
  BY <1>1 DEF SiteInv, SavingSound, SavingRow, Site!Billable
<1>4. billing.held \in 0 .. MaxKey /\ key \in [Clients -> 1 .. MaxKey]
  BY DEF SiteInv, RowsSound, BillingRow
<1>5. billing' \in BillingRow /\ CredentialTruth'
  <2>1. CASE saving[r].who = Nobody
    BY <1>1, <1>4, <2>1 DEF BillingRow, CredentialTruth, Site!CredentialTruth
  <2>2. CASE saving[r].who # Nobody
    <3>1. key[saving[r].who] \in 0 .. MaxKey
      BY <1>3, <1>4, <2>2, SiteConstants
    <3> QED BY <1>1, <1>3, <2>2, <3>1
            DEF BillingRow, CredentialTruth, Site!CredentialTruth
  <2> QED BY <2>1, <2>2
<1>6. RowsSound' /\ CollectionWithinBounds'
  BY <1>1, <1>2, <1>5
     DEF SiteInv, RowsSound, CollectionWithinBounds, Site!CollectionWithinBounds
<1> QED BY <1>2, <1>5, <1>6, SiteCommits

LEMMA UpdateLegalStep ==
    ASSUME SiteInv, NEW r \in Requests, Site!UpdateLegal(r)
    PROVE  SiteKept
<1>1. /\ Site!Updating(r, "footer_legal") /\ "footer_legal" \in Site!Updates
      /\ legal' = legal + 1
      /\ UNCHANGED <<bound, billing, registered, key, own, accepted, kinds>>
  BY DEF Site!UpdateLegal, Site!Updates
<1>2. /\ saving[r].saw = Site!content
      /\ version' = version + 1 /\ version' # version
      /\ version' \in 1 .. MaxVersion
      /\ version \in Nat
      /\ saving' = [saving EXCEPT ![r] = Site!Idle]
  BY <1>1, UpdatingSaw
<1>3. RowsSound' /\ CollectionWithinBounds' /\ CredentialTruth'
  BY <1>1, <1>2
     DEF SiteInv, RowsSound, CollectionWithinBounds, CredentialTruth,
         Site!CollectionWithinBounds, Site!CredentialTruth
<1> QED BY <1>2, <1>3, SiteCommits

LEMMA UpdateOtherStep ==
    ASSUME SiteInv, NEW r \in Requests, Site!UpdateOther(r)
    PROVE  SiteKept
<1>1. /\ Site!Updating(r, "other") /\ "other" \in Site!Updates
      /\ UNCHANGED <<bound, billing, legal, registered, key, own, accepted, kinds>>
  BY DEF Site!UpdateOther, Site!Updates
<1>2. /\ saving[r].saw = Site!content
      /\ version' = version + 1 /\ version' # version
      /\ version' \in 1 .. MaxVersion
      /\ version \in Nat /\ legal \in 1 .. version'
      /\ saving' = [saving EXCEPT ![r] = Site!Idle]
  BY <1>1, UpdatingSaw
<1>3. RowsSound' /\ CollectionWithinBounds' /\ CredentialTruth'
  BY <1>1, <1>2
     DEF SiteInv, RowsSound, CollectionWithinBounds, CredentialTruth,
         Site!CollectionWithinBounds, Site!CredentialTruth
<1> QED BY <1>2, <1>3, SiteCommits

(* A reset of the billing merchant's key takes back the site's belief.     *)
LEMMA ResetKeyStep ==
    ASSUME SiteInv, NEW r \in Requests, Site!ResetKey(r)
    PROVE  SiteKept
<1> DEFINE m == saving[r].who
           up == Site!Upgrades(r)
<1>1. /\ saving[r].kind = "reset_key" /\ key[m] < MaxKey
      /\ up => version < MaxVersion
      /\ key' = [key EXCEPT ![m] = @ + 1]
      /\ billing' = IF up THEN [billing EXCEPT !.valid = FALSE] ELSE billing
      /\ version' = IF up THEN version + 1 ELSE version
      /\ saving' = [saving EXCEPT ![r] = Site!Idle]
      /\ UNCHANGED <<bound, legal, registered, own, accepted, kinds>>
  BY DEF Site!ResetKey, Site!Ends
<1>2. up <=> billing.merchant = m
  BY <1>1 DEF Site!Upgrades
<1> HIDE DEF up
<1>3. m \in Clients /\ saving[r].kind \notin Site!Updates
  BY <1>1 DEF SiteInv, SavingSound, Sound, Site!Shared, Site!Updates
<1> HIDE DEF m
<1>4. /\ version \in 1 .. MaxVersion /\ legal \in 1 .. version
      /\ key \in [Clients -> 1 .. MaxKey] /\ billing \in BillingRow
  BY DEF SiteInv, RowsSound
<1>5. /\ key' \in [Clients -> 1 .. MaxKey]
      /\ \A n \in Clients : n # m => key'[n] = key[n]
  <2>1. key[m] + 1 \in 1 .. MaxKey
    BY <1>1, <1>3, <1>4, SiteConstants
  <2> QED BY <1>1, <1>4, <2>1
<1>6. billing' \in BillingRow /\ CredentialTruth'
  <2>1. CASE up
    <3>1. billing' = [billing EXCEPT !.valid = FALSE]
      BY <1>1, <2>1
    <3> QED BY <1>4, <3>1 DEF BillingRow, CredentialTruth, Site!CredentialTruth
  <2>2. CASE ~ up
    <3>1. billing' = billing /\ billing.merchant # m
      BY <1>1, <1>2, <2>2
    <3>2. billing.merchant \in Clients \cup {Nobody}
      BY <1>4 DEF BillingRow
    <3> QED BY <1>4, <1>5, <3>1, <3>2
            DEF SiteInv, CredentialTruth, Site!CredentialTruth
  <2> QED BY <2>1, <2>2
<1>7. version' \in {version, version + 1} /\ version' \in 1 .. MaxVersion
      /\ legal' \in 1 .. version'
  BY <1>1, <1>4, SiteConstants
<1>8. version' = version => Site!content' = Site!content
  BY <1>1, <1>4 DEF Site!content
<1>9. RowsSound' /\ CollectionWithinBounds'
  BY <1>1, <1>5, <1>6, <1>7
     DEF SiteInv, RowsSound, CollectionWithinBounds, Site!CollectionWithinBounds
<1> QED BY <1>1, <1>3, <1>6, <1>7, <1>8, <1>9, SiteCommits

(* The bound is checked under the lock that an update of it needs alone.   *)
LEMMA SaveCollectionStep ==
    ASSUME SiteInv, NEW r \in Requests, Site!SaveCollection(r)
    PROVE  SiteKept
<1>1. /\ saving[r].kind = "collection" /\ saving[r].value <= bound
      /\ own' = [own EXCEPT ![saving[r].who] = saving[r].value]
      /\ saving' = [saving EXCEPT ![r] = Site!Idle]
      /\ UNCHANGED <<version, bound, billing, legal, registered, key, accepted, kinds>>
  BY DEF Site!SaveCollection, Site!Ready, Site!Allowed, Site!Ends
<1>2. /\ saving[r].value \in Limits \cup {0}
      /\ saving[r].kind \notin Site!Updates
  BY <1>1 DEF SiteInv, SavingSound, Sound, Site!Updates
<1>3. /\ own' \in [Clients -> Limits \cup {0}]
      /\ \A m \in Clients : own'[m] <= bound
  BY <1>1, <1>2
     DEF SiteInv, RowsSound, CollectionWithinBounds, Site!CollectionWithinBounds
<1>4. RowsSound' /\ CollectionWithinBounds' /\ CredentialTruth'
  BY <1>1, <1>3
     DEF SiteInv, RowsSound, CollectionWithinBounds, CredentialTruth,
         Site!CollectionWithinBounds, Site!CredentialTruth
<1>5. Site!content' = Site!content
  BY <1>1 DEF Site!content
<1> QED BY <1>1, <1>2, <1>4, <1>5, SiteCommits

LEMMA RegisterStep ==
    ASSUME SiteInv, NEW r \in Requests, Site!Register(r)
    PROVE  SiteKept
<1>1. /\ saving[r].kind = "register"
      /\ registered' = registered \cup {saving[r].who}
      /\ accepted' = [accepted EXCEPT ![saving[r].who] = legal]
      /\ saving' = [saving EXCEPT ![r] = Site!Idle]
      /\ UNCHANGED <<version, bound, billing, legal, key, own, kinds>>
  BY DEF Site!Register, Site!Ready, Site!Ends
<1>2. saving[r].who \in Clients /\ saving[r].kind \notin Site!Updates
  BY <1>1 DEF SiteInv, SavingSound, Sound, Site!Shared, Site!Updates
<1>3. legal \in 0 .. MaxVersion
  BY SiteConstants DEF SiteInv, RowsSound
<1>4. RowsSound' /\ CollectionWithinBounds' /\ CredentialTruth'
  BY <1>1, <1>2, <1>3
     DEF SiteInv, RowsSound, CollectionWithinBounds, CredentialTruth,
         Site!CollectionWithinBounds, Site!CredentialTruth
<1>5. Site!content' = Site!content
  BY <1>1 DEF Site!content
<1> QED BY <1>1, <1>2, <1>4, <1>5, SiteCommits

LEMMA SiteStepKeeps ==
    SiteInv /\ (Site!Next \/ UNCHANGED siteVars) => SiteKept
<1> SUFFICES ASSUME SiteInv, Site!Next \/ UNCHANGED siteVars PROVE SiteKept
  OBVIOUS
<1>1. ASSUME NEW m \in Clients, Site!Create(m) PROVE SiteKept
  BY <1>1
     DEF Site!Create, SiteKept, SiteInv, RowsSound, SavingSound,
         CollectionWithinBounds, CredentialTruth, SawWhatItReplaces,
         Site!CollectionWithinBounds, Site!CredentialTruth, Site!content
<1>2. ASSUME NEW r \in Requests, Site!Begin(r) PROVE SiteKept
  <2>1. PICK k \in kinds, m \in Clients \cup {Nobody},
             value \in Limits \cup {0} \cup (1 .. MaxKey) \cup (1 .. legal) :
          \/ Site!BeginUpdate(r, k, m, value)
          \/ m # Nobody /\ Site!BeginShared(r, k, m, value)
    BY <1>2 DEF Site!Begin
  <2>2. value \in Nat
    BY SiteConstants DEF SiteInv, RowsSound
  <2>3. CASE Site!BeginUpdate(r, k, m, value)
    BY <2>2, <2>3, BeginUpdateStep
  <2>4. CASE m # Nobody /\ Site!BeginShared(r, k, m, value)
    BY <2>2, <2>4, BeginSharedStep
  <2> QED BY <2>1, <2>3, <2>4
<1>3. ASSUME NEW r \in Requests,
             \/ Site!LockSettings(r) \/ Site!LockMerchants(r)
             \/ Site!LockSettingsAlone(r)
      PROVE  SiteKept
  <2>1. PICK s \in Site!Stages : Site!Moved(r, s)
    BY <1>3 DEF Site!LockSettings, Site!LockMerchants, Site!LockSettingsAlone,
                Site!Stages
  <2>2. UNCHANGED siteRest
    BY <1>3 DEF Site!LockSettings, Site!LockMerchants, Site!LockSettingsAlone,
                siteRest
  <2> QED BY <2>1, <2>2, StageStep
<1>4. ASSUME NEW r \in Requests, Site!Victim(r) PROVE SiteKept
  BY <1>4, VictimStep
<1>5. ASSUME NEW r \in Requests, Site!GiveUp(r) PROVE SiteKept
  <2>1. saving' = [saving EXCEPT ![r] = Site!Idle] /\ UNCHANGED siteRest
    BY <1>5 DEF Site!GiveUp, siteRest
  <2> QED BY <2>1, IdleSound, SiteWaits
<1>6. ASSUME NEW r \in Requests,
             \/ Site!UpdatePayment(r) \/ Site!UpdateBilling(r)
             \/ Site!UpdateLegal(r) \/ Site!UpdateOther(r)
             \/ Site!ResetKey(r) \/ Site!SaveCollection(r) \/ Site!Register(r)
      PROVE  SiteKept
  BY <1>6, UpdatePaymentStep, UpdateBillingStep, UpdateLegalStep,
     UpdateOtherStep, ResetKeyStep, SaveCollectionStep, RegisterStep
<1>7. CASE UNCHANGED siteVars
  BY <1>7
     DEF siteVars, SiteKept, SiteInv, RowsSound, SavingSound,
         CollectionWithinBounds, CredentialTruth, SawWhatItReplaces,
         Site!CollectionWithinBounds, Site!CredentialTruth, Site!content
<1> QED BY <1>1, <1>2, <1>3, <1>4, <1>5, <1>6, <1>7 DEF Site!Next

-----------------------------------------------------------------------------
(* Theorems.                                                               *)

LEMMA SiteRuns ==
    [ConsoleNext]_<<part, vars, otherVars>> => Site!Next \/ UNCHANGED siteVars
BY DEF ConsoleNext, otherVars

LEMMA SiteAlways == ConsoleSpec => []SiteInv
<1>1. SiteInv /\ [ConsoleNext]_<<part, vars, otherVars>> => SiteInv'
  BY SiteRuns, SiteStepKeeps DEF SiteKept
<1> QED BY SiteInitially, <1>1, PTL DEF ConsoleSpec

(* No merchant's own collection setting is out of the bounds in force: an  *)
(* update of the bounds puts back every merchant there is, also those who  *)
(* registered or saved after it listed the rows to lock.                   *)
THEOREM CollectionBounded == ConsoleSpec => []CollectionWithinBounds
<1>1. SiteInv => CollectionWithinBounds
  BY DEF SiteInv
<1> QED BY SiteAlways, <1>1, PTL

(* The billing key the site holds for good is the billing merchant's key:  *)
(* a reset takes back the belief in the same transaction.                  *)
THEOREM CredentialHeldTrue == ConsoleSpec => []CredentialTruth
<1>1. SiteInv => CredentialTruth
  BY DEF SiteInv
<1> QED BY SiteAlways, <1>1, PTL

(* Whoever saves a group of settings replaces what he was shown: the       *)
(* content only changes together with the version that is compared.        *)
THEOREM NothingReplacedUnseen == ConsoleSpec => NobodyOverwritesUnseen
<1>1. SiteInv /\ [ConsoleNext]_<<part, vars, otherVars>>
        => SiteInv' /\ [SawWhatItReplaces]_siteVars
  BY SiteRuns, SiteStepKeeps DEF SiteKept
<1>2. siteVars = Site!vars
  BY DEF siteVars, Site!vars
<1> QED BY SiteInitially, <1>1, <1>2, PTL
        DEF ConsoleSpec, NobodyOverwritesUnseen, Site!NobodyOverwritesUnseen,
            Site!vars, siteVars, SawWhatItReplaces

-----------------------------------------------------------------------------
(* Collection codes.  An upload has its file until its row is saved; a row *)
(* is there from then on, with its file unless the COMMIT was unanswered;  *)
(* and orders only name assets with a row.                                 *)

SlotInv ==
    /\ row \in [Assets -> {"none", "active", "inactive"}]
    /\ upload \in [Assets -> {"idle", "stored", "begun", "over"}]
    /\ order \in [Orders -> Slot!OrderRow]
    /\ \A a \in Assets :
          /\ upload[a] \in {"stored", "begun"} => row[a] = "none" /\ a \in stored
          /\ upload[a] = "idle" => row[a] = "none"
          /\ row[a] # "none" => a \in stored \cup lost
    /\ \A o \in Orders : order[o].asset # NoAsset => order[o].asset \in Slot!Rows

LEMMA SlotInitially == ConsoleInit => SlotInv
BY ConsoleAssumption
   DEF ConsoleInit, Slot!MediaInit, SlotInv, Slot!OrderRow, Slot!MediaAssumption

(* Rows that are there stay, and orders keep or lose nothing by it.        *)
LEMMA UploadKeeps ==
    ASSUME SlotInv, UNCHANGED order,
           row' \in [Assets -> {"none", "active", "inactive"}],
           upload' \in [Assets -> {"idle", "stored", "begun", "over"}],
           \A a \in Assets :
              /\ upload'[a] \in {"stored", "begun"} => row'[a] = "none" /\ a \in stored'
              /\ upload'[a] = "idle" => row'[a] = "none"
              /\ row'[a] # "none" => a \in stored' \cup lost'
              /\ row[a] # "none" => row'[a] # "none"
    PROVE  SlotInv'
BY DEF SlotInv, Slot!Rows

LEMMA UploadSteps ==
    ASSUME SlotInv, NEW a \in Assets,
           \/ Slot!Store(a) \/ Slot!Begin(a) \/ Slot!SaveFails(a) \/ Slot!Crash(a)
    PROVE  SlotInv'
<1>1. UNCHANGED <<row, order, lost>>
  BY DEF Slot!Store, Slot!Begin, Slot!SaveFails, Slot!Crash
<1>2. CASE Slot!Store(a)
  BY <1>1, <1>2, UploadKeeps DEF Slot!Store, SlotInv
<1>3. CASE Slot!Begin(a)
  BY <1>1, <1>3, UploadKeeps DEF Slot!Begin, SlotInv
<1>4. CASE Slot!SaveFails(a)
  BY <1>1, <1>4, UploadKeeps DEF Slot!SaveFails, SlotInv
<1>5. CASE Slot!Crash(a)
  BY <1>1, <1>5, UploadKeeps DEF Slot!Crash, SlotInv
<1> QED BY <1>2, <1>3, <1>4, <1>5

LEMMA SaveSteps ==
    ASSUME SlotInv, NEW a \in Assets, Slot!Save(a) \/ Slot!SaveUnanswered(a)
    PROVE  SlotInv'
<1>1. /\ upload[a] = "begun"
      /\ upload' = [upload EXCEPT ![a] = "over"]
      /\ row' = [b \in Assets |-> IF b = a THEN "active"
                                  ELSE IF b \in Slot!Active THEN "inactive"
                                       ELSE row[b]]
      /\ UNCHANGED order
  BY DEF Slot!Save, Slot!SaveUnanswered, Slot!Saved
<1>2. /\ a \in stored' \cup lost'
      /\ \A b \in Assets : b # a => (b \in stored' <=> b \in stored)
                                 /\ (b \in lost' <=> b \in lost)
  BY <1>1 DEF Slot!Save, Slot!SaveUnanswered, SlotInv
<1>3. /\ upload' \in [Assets -> {"idle", "stored", "begun", "over"}]
      /\ upload'[a] = "over"
      /\ \A b \in Assets : b # a => upload'[b] = upload[b]
  BY <1>1 DEF SlotInv
<1>4. /\ row' \in [Assets -> {"none", "active", "inactive"}]
      /\ row'[a] = "active"
      /\ \A b \in Assets : b # a => (row'[b] = "none" <=> row[b] = "none")
  BY <1>1 DEF SlotInv, Slot!Active
<1> QED BY <1>1, <1>2, <1>3, <1>4, UploadKeeps DEF SlotInv

LEMMA SwitchStep ==
    ASSUME SlotInv, NEW on \in BOOLEAN, Slot!SetQREnabled(on)
    PROVE  SlotInv'
<1>1. PICK a \in Slot!Rows :
         row' = [b \in Assets |->
                   IF b = a THEN (IF on THEN "active" ELSE "inactive")
                   ELSE IF on /\ b \in Slot!Active THEN "inactive" ELSE row[b]]
  BY DEF Slot!SetQREnabled
<1>2. /\ row' \in [Assets -> {"none", "active", "inactive"}]
      /\ \A b \in Assets : row'[b] = "none" <=> row[b] = "none"
  BY <1>1 DEF SlotInv, Slot!Rows, Slot!Active
<1>3. UNCHANGED <<stored, lost, upload, order>>
  BY DEF Slot!SetQREnabled
<1> QED BY <1>2, <1>3, UploadKeeps DEF SlotInv

LEMMA OrdersKeep ==
    ASSUME SlotInv, UNCHANGED <<stored, row, upload, lost>>,
           order' \in [Orders -> Slot!OrderRow],
           \A o \in Orders : order'[o].asset \in Slot!Rows \cup {order[o].asset}
    PROVE  SlotInv'
BY DEF SlotInv, Slot!Rows

LEMMA OrderSteps ==
    ASSUME SlotInv, NEW o \in Orders,
           \/ Slot!SelectChannel(o) \/ Slot!Visit(o) \/ Slot!Pass(o) \/ Slot!End(o)
    PROVE  SlotInv'
<1>1. UNCHANGED <<stored, row, upload, lost>>
  BY DEF Slot!SelectChannel, Slot!Visit, Slot!Pass, Slot!End, Slot!uploadVars
<1>2. order \in [Orders -> Slot!OrderRow]
  BY DEF SlotInv
<1>3. CASE Slot!SelectChannel(o)
  <2>1. PICK a \in Slot!Active : order' = [order EXCEPT ![o].asset = a]
    BY <1>3 DEF Slot!SelectChannel
  <2>2. a \in Assets /\ a \in Slot!Rows
    BY <2>1 DEF Slot!Active, Slot!Rows
  <2>3. /\ order' \in [Orders -> Slot!OrderRow]
        /\ \A p \in Orders : order'[p].asset \in Slot!Rows \cup {order[p].asset}
    BY <1>2, <2>1, <2>2 DEF Slot!OrderRow
  <2> QED BY <1>1, <2>3, OrdersKeep
<1>4. CASE Slot!Visit(o) \/ Slot!End(o)
  <2>1. order' = [order EXCEPT ![o].pending = FALSE]
    BY <1>4 DEF Slot!Visit, Slot!End
  <2>2. /\ order' \in [Orders -> Slot!OrderRow]
        /\ \A p \in Orders : order'[p].asset = order[p].asset
    BY <1>2, <2>1 DEF Slot!OrderRow
  <2> QED BY <1>1, <2>2, OrdersKeep
<1>5. CASE Slot!Pass(o)
  <2>1. order[o].left > 0 /\ order' = [order EXCEPT ![o].left = order[o].left - 1]
    BY <1>2, <1>5 DEF Slot!Pass
  <2>2. order[o].left - 1 \in 0 .. 2
    BY <1>2, <2>1 DEF Slot!OrderRow
  <2>3. /\ order' \in [Orders -> Slot!OrderRow]
        /\ \A p \in Orders : order'[p].asset = order[p].asset
    BY <1>2, <2>1, <2>2 DEF Slot!OrderRow
  <2> QED BY <1>1, <2>3, OrdersKeep
<1> QED BY <1>3, <1>4, <1>5

LEMMA HinderStep ==
    ASSUME SlotInv, NEW h \in Slot!Hindrances, Slot!Hinder(h)
    PROVE  SlotInv'
<1>1. UNCHANGED <<stored, row, upload, lost>>
  BY DEF Slot!Hinder, Slot!uploadVars
<1>2. order \in [Orders -> Slot!OrderRow]
  BY DEF SlotInv
<1>3. CASE order' = order
  BY <1>1, <1>2, <1>3, OrdersKeep
<1>4. CASE order' = [o \in Orders |-> [order[o] EXCEPT !.pending = FALSE]]
  <2>1. /\ order' \in [Orders -> Slot!OrderRow]
        /\ \A o \in Orders : order'[o].asset = order[o].asset
    BY <1>2, <1>4 DEF Slot!OrderRow
  <2> QED BY <1>1, <2>1, OrdersKeep
<1> QED BY <1>3, <1>4 DEF Slot!Hinder

LEMMA SlotKept == SlotInv /\ [ConsoleNext]_<<part, vars, otherVars>> => SlotInv'
<1> SUFFICES ASSUME SlotInv, [ConsoleNext]_<<part, vars, otherVars>> PROVE SlotInv'
  OBVIOUS
<1>1. CASE UNCHANGED codeVars
  BY <1>1, UploadKeeps DEF codeVars, SlotInv
<1>2. CASE Slot!MediaNext
  BY <1>2, UploadSteps, SaveSteps, SwitchStep, OrderSteps, HinderStep
     DEF Slot!MediaNext
<1> QED BY <1>1, <1>2 DEF ConsoleNext, otherVars

(* A checkout page that tells the payer to pay shows the picture of the    *)
(* code it was given: no upload, switch or replacement takes the image of  *)
(* a row away but one whose COMMIT was answered with an error.             *)
THEOREM CodeShown == ConsoleSpec => []PayerSeesCode
<1>1. SlotInv => PayerSeesCode
  BY DEF SlotInv, PayerSeesCode, Slot!PayerSeesCode, Slot!CanPay, Slot!Opens,
         Slot!Rows
<1> QED BY SlotInitially, SlotKept, <1>1, PTL DEF ConsoleSpec

-----------------------------------------------------------------------------
(* Announcements.  What was marked is of a revision that there was, and of *)
(* the present revision nothing is marked that was not answered.           *)

AnnouncementRow == [there : BOOLEAN, revision : Nat, popup : BOOLEAN]

MarkRow == [announcement : Announcements \cup {Nothing}, revision : Nat,
            found : BOOLEAN]

MarksInv ==
    /\ announcement \in [Announcements -> AnnouncementRow]
    /\ marking \in [Readers -> MarkRow]
    /\ \A m \in Readers : marking[m].found =>
          /\ marking[m].announcement \in Announcements
          /\ marking[m].revision <= announcement[marking[m].announcement].revision
    /\ \A m \in Readers, a \in Announcements, v \in Nat :
          <<m, a, v>> \in acknowledged => v <= announcement[a].revision
    /\ \A m \in Readers, a \in Announcements :
          <<m, a, announcement[a].revision>> \in reads
             <=> <<m, a, announcement[a].revision>> \in acknowledged

LEMMA MarksInitially == ConsoleInit => MarksInv
<1> SUFFICES ASSUME ConsoleInit PROVE MarksInv
  OBVIOUS
<1>1. /\ announcement = [a \in Announcements |-> Pages!Unwritten]
      /\ reads = {} /\ acknowledged = {}
      /\ marking = [m \in Readers |-> Pages!NoMark]
  BY DEF ConsoleInit, Pages!PortalInit
<1>2. Pages!Unwritten \in AnnouncementRow
  BY DEF Pages!Unwritten, AnnouncementRow
<1>3. Pages!NoMark \in MarkRow /\ ~ Pages!NoMark.found
  BY DEF Pages!NoMark, MarkRow
<1> QED BY <1>1, <1>2, <1>3 DEF MarksInv

(* A new revision, which nobody has marked and nobody is about to.         *)
LEMMA SaveAnnouncementStep ==
    ASSUME MarksInv, NEW a \in Announcements, NEW popup \in BOOLEAN,
           Pages!SaveAnnouncement(a, popup)
    PROVE  MarksInv'
<1>1. announcement \in [Announcements -> AnnouncementRow]
  BY DEF MarksInv
<1>2. announcement[a].revision \in Nat
  BY <1>1 DEF AnnouncementRow
<1>3. PICK new : new = [there |-> TRUE, revision |-> announcement[a].revision + 1,
                        popup |-> popup]
  OBVIOUS
<1>4. /\ announcement' = [announcement EXCEPT ![a] = new]
      /\ reads' = {read \in reads : read[2] # a}
      /\ UNCHANGED <<marking, acknowledged>>
  BY <1>3 DEF Pages!SaveAnnouncement
<1>5. new \in AnnouncementRow /\ new.revision = announcement[a].revision + 1
  BY <1>2, <1>3 DEF AnnouncementRow
<1>6. /\ announcement' \in [Announcements -> AnnouncementRow]
      /\ announcement'[a].revision = announcement[a].revision + 1
      /\ \A b \in Announcements : b # a => announcement'[b] = announcement[b]
      /\ \A b \in Announcements : /\ announcement[b].revision \in Nat
                                  /\ announcement'[b].revision \in Nat
                                  /\ announcement[b].revision
                                        <= announcement'[b].revision
  <2>1. /\ announcement' \in [Announcements -> AnnouncementRow]
        /\ announcement'[a] = new
        /\ \A b \in Announcements : b # a => announcement'[b] = announcement[b]
    BY <1>1, <1>4, <1>5
  <2>2. \A b \in Announcements : /\ announcement[b].revision \in Nat
                                /\ announcement'[b].revision \in Nat
    BY <1>1, <2>1 DEF AnnouncementRow
  <2> QED BY <1>5, <2>1, <2>2
<1>7. \A m \in Readers : marking'[m].found =>
         /\ marking'[m].announcement \in Announcements
         /\ marking'[m].revision <= announcement'[marking'[m].announcement].revision
  <2>1. \A m \in Readers : marking[m].revision \in Nat
    BY DEF MarksInv, MarkRow
  <2> QED BY <1>4, <1>6, <2>1 DEF MarksInv
<1>8. \A m \in Readers, b \in Announcements, v \in Nat :
         <<m, b, v>> \in acknowledged' => v <= announcement'[b].revision
  BY <1>4, <1>6 DEF MarksInv
<1>9. ASSUME NEW m \in Readers, NEW b \in Announcements
      PROVE  <<m, b, announcement'[b].revision>> \in reads'
                <=> <<m, b, announcement'[b].revision>> \in acknowledged'
  <2>1. CASE b = a
    <3>1. <<m, b, announcement'[b].revision>> \notin reads'
      BY <1>4, <2>1
    <3>2. <<m, b, announcement'[b].revision>> \notin acknowledged
      BY <1>2, <1>6, <2>1 DEF MarksInv
    <3> QED BY <1>4, <3>1, <3>2
  <2>2. CASE b # a
    <3>1. /\ announcement'[b].revision = announcement[b].revision
          /\ <<m, b, announcement[b].revision>> \in reads'
                <=> <<m, b, announcement[b].revision>> \in reads
      BY <1>4, <1>6, <2>2
    <3> QED BY <1>4, <3>1 DEF MarksInv
  <2> QED BY <2>1, <2>2
<1> QED BY <1>4, <1>6, <1>7, <1>8, <1>9 DEF MarksInv

LEMMA DeleteAnnouncementStep ==
    ASSUME MarksInv, NEW a \in Announcements, Pages!DeleteAnnouncement(a)
    PROVE  MarksInv'
<1>1. announcement \in [Announcements -> AnnouncementRow]
  BY DEF MarksInv
<1>2. /\ announcement' = [announcement EXCEPT ![a].there = FALSE]
      /\ UNCHANGED <<reads, marking, acknowledged>>
  BY DEF Pages!DeleteAnnouncement
<1>3. /\ announcement' \in [Announcements -> AnnouncementRow]
      /\ \A b \in Announcements :
            announcement'[b].revision = announcement[b].revision
  BY <1>1, <1>2 DEF AnnouncementRow
<1> QED BY <1>2, <1>3 DEF MarksInv

LEMMA MarkMoves ==
    ASSUME MarksInv, NEW m \in Readers, NEW x \in MarkRow,
           marking' = [marking EXCEPT ![m] = x],
           x.found => /\ x.announcement \in Announcements
                      /\ x.revision <= announcement[x.announcement].revision,
           UNCHANGED announcement
    PROVE  /\ marking' \in [Readers -> MarkRow]
           /\ \A n \in Readers : marking'[n].found =>
                 /\ marking'[n].announcement \in Announcements
                 /\ marking'[n].revision
                       <= announcement'[marking'[n].announcement].revision
<1>1. /\ marking' \in [Readers -> MarkRow]
      /\ \A n \in Readers : IF n = m THEN marking'[n] = x
                                      ELSE marking'[n] = marking[n]
  BY DEF MarksInv
<1> QED BY <1>1 DEF MarksInv

LEMMA MarkSteps ==
    ASSUME MarksInv, NEW m \in Readers,
           \/ \E a \in Announcements, v \in 1 .. MaxRevision : Pages!MarkBegin(m, a, v)
           \/ Pages!MarkAnnouncementRead(m) \/ Pages!MarkFails(m)
    PROVE  MarksInv'
<1>1. Pages!NoMark \in MarkRow /\ ~ Pages!NoMark.found
  BY DEF Pages!NoMark, MarkRow
<1>2. ASSUME NEW a \in Announcements, NEW v \in 1 .. MaxRevision,
             Pages!MarkBegin(m, a, v)
      PROVE  MarksInv'
  <2>1. PICK x : x = [announcement |-> a, revision |-> v, found |-> TRUE]
    OBVIOUS
  <2>2. /\ v = announcement[a].revision
        /\ marking' = [marking EXCEPT ![m] = x]
        /\ UNCHANGED <<announcement, reads, acknowledged>>
    BY <1>2, <2>1 DEF Pages!MarkBegin
  <2>3. x \in MarkRow /\ x.announcement = a /\ x.revision = v /\ v <= v
    BY <2>1, ConsoleAssumption DEF MarkRow, Pages!PortalAssumption
  <2>4. /\ marking' \in [Readers -> MarkRow]
        /\ \A n \in Readers : marking'[n].found =>
              /\ marking'[n].announcement \in Announcements
              /\ marking'[n].revision
                    <= announcement'[marking'[n].announcement].revision
    BY <2>2, <2>3, MarkMoves
  <2> QED BY <2>2, <2>4 DEF MarksInv
<1>3. CASE Pages!MarkFails(m)
  <2>1. /\ marking' = [marking EXCEPT ![m] = Pages!NoMark]
        /\ UNCHANGED <<announcement, reads, acknowledged>>
    BY <1>3 DEF Pages!MarkFails
  <2>2. /\ marking' \in [Readers -> MarkRow]
        /\ \A n \in Readers : marking'[n].found =>
              /\ marking'[n].announcement \in Announcements
              /\ marking'[n].revision
                    <= announcement'[marking'[n].announcement].revision
    BY <1>1, <2>1, MarkMoves
  <2> QED BY <2>1, <2>2 DEF MarksInv
<1>4. CASE Pages!MarkAnnouncementRead(m)
  <2>1. PICK read : read = <<m, marking[m].announcement, marking[m].revision>>
    OBVIOUS
  <2>2. /\ marking[m].found
        /\ reads' = reads \cup {read} /\ acknowledged' = acknowledged \cup {read}
        /\ marking' = [marking EXCEPT ![m] = Pages!NoMark]
        /\ UNCHANGED announcement
    BY <1>4, <2>1 DEF Pages!MarkAnnouncementRead
  <2>3. /\ marking' \in [Readers -> MarkRow]
        /\ \A n \in Readers : marking'[n].found =>
              /\ marking'[n].announcement \in Announcements
              /\ marking'[n].revision
                    <= announcement'[marking'[n].announcement].revision
    BY <1>1, <2>2, MarkMoves
  <2>4. \A n \in Readers, a \in Announcements, v \in Nat :
           <<n, a, v>> \in acknowledged' => v <= announcement'[a].revision
    <3> SUFFICES ASSUME NEW n \in Readers, NEW a \in Announcements, NEW v \in Nat,
                        <<n, a, v>> \in acknowledged'
                 PROVE  v <= announcement[a].revision
      BY <2>2
    <3>1. CASE <<n, a, v>> \in acknowledged
      BY <3>1 DEF MarksInv
    <3>2. CASE <<n, a, v>> = read
      BY <2>1, <2>2, <3>2 DEF MarksInv
    <3> QED BY <2>2, <3>1, <3>2
  <2> QED BY <2>2, <2>3, <2>4 DEF MarksInv
<1> QED BY <1>2, <1>3, <1>4

LEMMA MarksKept == MarksInv /\ [ConsoleNext]_<<part, vars, otherVars>> => MarksInv'
<1> SUFFICES ASSUME MarksInv, [ConsoleNext]_<<part, vars, otherVars>> PROVE MarksInv'
  OBVIOUS
<1>1. CASE UNCHANGED <<announcement, reads, marking, acknowledged>>
  BY <1>1 DEF MarksInv
<1>2. CASE Pages!AnnouncementNext
  BY <1>2, SaveAnnouncementStep, DeleteAnnouncementStep, MarkSteps
     DEF Pages!AnnouncementNext
<1>3. ASSUME Pages!ListNext
      PROVE  UNCHANGED <<announcement, reads, marking, acknowledged>>
  <2>1. CASE \/ Pages!Tick
             \/ \E i \in RowIds, says \in Pages!Column[list] :
                   Pages!Turn(i, says)
                   \/ \E at \in 0 .. MaxTime : Pages!Insert(i, at, says)
             \/ \E S \in SUBSET RowIds : Pages!MarkRead(S)
    BY <2>1 DEF Pages!Tick, Pages!Turn, Pages!Turned, Pages!Insert,
                Pages!MarkRead, Pages!announcementVars
  <2>2. ASSUME NEW filter, Pages!ExportOrders(filter)
        PROVE  UNCHANGED <<announcement, reads, marking, acknowledged>>
    BY <2>2 DEF Pages!ExportOrders, Pages!announcementVars
  <2>3. ASSUME NEW filter, NEW limit, Pages!Page(filter, limit)
        PROVE  UNCHANGED <<announcement, reads, marking, acknowledged>>
    BY <2>3 DEF Pages!Page, Pages!announcementVars
  <2> QED BY <1>3, <2>1, <2>2, <2>3
          DEF Pages!ListNext, Pages!ListOrders, Pages!ListReceipts,
              Pages!ListAudits, Pages!ListNotifications,
              Pages!ListAnnouncements, Pages!ListConsole, Pages!ListPurchases
<1> QED BY <1>1, <1>2, <1>3 DEF ConsoleNext, otherVars, pageVars

(* An announcement pops up for a merchant until its present revision is    *)
(* marked, and then no longer: SaveAnnouncement drops the marks of the     *)
(* revisions before, and a mark that comes late is of one of those.        *)
THEOREM PopupUntilRead == ConsoleSpec => []ShownUntilRead
<1>1. MarksInv => ShownUntilRead
  BY DEF MarksInv, ShownUntilRead, Pages!ShownUntilRead, Pages!PopupAnnouncements
<1> QED BY MarksInitially, MarksKept, <1>1, PTL DEF ConsoleSpec

-----------------------------------------------------------------------------
(* Lists.  What ORDER BY lists is every row found, once; a page goes on    *)
(* where the one before ended; rows keep their time, and those that come   *)
(* in between are owed to nobody.                                          *)

Words == {"none", "everything", "pending", "paid", "expired", "refunded",
          "cancelled", "unmatched", "matched", "success", "failure", "unread",
          "read", "free", "banned", "published", "deleted"}

ListRow == [there : BOOLEAN, at : Nat, says : Words]

WalkRow == [state : {"idle", "reading", "done"}, filter : Words,
            cursor : {<<>>} \cup (Nat \X RowIds), seen : Seq(RowIds),
            owed : SUBSET RowIds]

RowsListed ==
    /\ rows \in [RowIds -> ListRow]
    /\ IsFiniteSet({i \in RowIds : rows[i].there})

(* The reader saw rows that exist, the newest first.                       *)
Descends(ids) ==
    /\ \A n \in 1 .. Len(ids) : rows[ids[n]].there
    /\ \A m, n \in 1 .. Len(ids) : m < n => Pages!NewestFirst(ids[m], ids[n])

(* A row that is owed was seen, or lies behind the cursor.                 *)
AheadOrSeen(i) ==
    \/ \E n \in 1 .. Len(walk.seen) : walk.seen[n] = i
    \/ walk.state = "reading" /\ Pages!Older(i, walk.cursor)

WalkSound ==
    /\ walk \in WalkRow
    /\ Descends(walk.seen)
    /\ walk.state = "idle" => walk.seen = <<>> /\ walk.cursor = <<>>
    /\ walk.state = "reading" =>
          /\ walk.seen # <<>>
          /\ LET end == walk.seen[Len(walk.seen)]
             IN  walk.cursor = <<rows[end].at, end>>
    /\ \A i \in walk.owed : Pages!Matches(rows[i], walk.filter) /\ AheadOrSeen(i)

PagesInv == RowsListed /\ WalkSound

(* NewestFirst orders the rows.                                            *)
LEMMA NewestOrders ==
    ASSUME rows \in [RowIds -> ListRow],
           NEW i \in RowIds, NEW j \in RowIds, NEW k \in RowIds
    PROVE  /\ ~ Pages!NewestFirst(i, i)
           /\ Pages!NewestFirst(i, j) \/ Pages!NewestFirst(j, i) \/ i = j
           /\ Pages!NewestFirst(i, j) /\ Pages!NewestFirst(j, k)
                 => Pages!NewestFirst(i, k)
<1>1. /\ i \in Nat /\ j \in Nat /\ k \in Nat
      /\ rows[i].at \in Nat /\ rows[j].at \in Nat /\ rows[k].at \in Nat
  BY ConsoleAssumption DEF Pages!PortalAssumption, ListRow
<1> QED BY <1>1 DEF Pages!NewestFirst

LEMMA OlderFollows ==
    ASSUME NEW i, NEW j
    PROVE  Pages!Older(j, <<rows[i].at, i>>) <=>
              \/ rows[j].at < rows[i].at
              \/ rows[j].at = rows[i].at /\ j < i
BY DEF Pages!Older

(* Different elements of a set, as many as it has, are all of them.        *)
LEMMA AllNamed ==
    ASSUME NEW S, IsFiniteSet(S), NEW f \in [1 .. Cardinality(S) -> S],
           \A m, n \in 1 .. Cardinality(S) : m < n => f[m] # f[n],
           NEW x \in S
    PROVE  \E n \in 1 .. Cardinality(S) : f[n] = x
<1> DEFINE N == 1 .. Cardinality(S)
<1>1. Cardinality(S) \in Nat
  BY FS_CardinalityType
<1>2. IsFiniteSet(N) /\ Cardinality(N) = Cardinality(S)
  BY <1>1, FS_Interval
<1>3. IsFiniteSet(S \ {x}) /\ Cardinality(S \ {x}) = Cardinality(S) - 1
  BY FS_RemoveElement
<1>4. SUFFICES ASSUME \A n \in N : f[n] # x
               PROVE  FALSE
  OBVIOUS
<1>5. f \in [N -> S \ {x}]
  BY <1>4
<1>6. \E m, n \in N : m # n /\ f[m] = f[n]
  BY <1>1, <1>2, <1>3, <1>5, FS_PigeonHole
<1> QED BY <1>1, <1>6

(* A finite set of rows can be listed: each at its rank.                   *)
LEMMA RowsHaveOrder ==
    ASSUME rows \in [RowIds -> ListRow], NEW S \in SUBSET RowIds, IsFiniteSet(S)
    PROVE  \E found \in [1 .. Cardinality(S) -> S] :
              \A m, n \in 1 .. Cardinality(S) :
                 m < n => Pages!NewestFirst(found[m], found[n])
<1> DEFINE N == 1 .. Cardinality(S)
           Newer(i) == {j \in S : Pages!NewestFirst(j, i)}
           rank == [i \in S |-> Cardinality(Newer(i)) + 1]
<1>1. Cardinality(S) \in Nat
  BY FS_CardinalityType
<1>2. ASSUME NEW i \in S
      PROVE  /\ IsFiniteSet(Newer(i)) /\ Cardinality(Newer(i)) \in Nat
             /\ Cardinality(Newer(i)) < Cardinality(S)
  <2>1. Newer(i) \in SUBSET S /\ i \notin Newer(i)
    BY NewestOrders
  <2> QED BY <2>1, FS_Subset, FS_CardinalityType
<1>3. rank \in [S -> N]
  BY <1>1, <1>2
<1>4. ASSUME NEW i \in S, NEW j \in S, Pages!NewestFirst(i, j)
      PROVE  rank[i] < rank[j]
  <2>1. Newer(i) \in SUBSET Newer(j)
    BY <1>4, NewestOrders
  <2>2. i \in Newer(j) /\ i \notin Newer(i)
    BY <1>4, NewestOrders
  <2>3. Cardinality(Newer(i)) < Cardinality(Newer(j))
    BY <1>2, <2>1, <2>2, FS_Subset
  <2>4. /\ rank[i] = Cardinality(Newer(i)) + 1
        /\ rank[j] = Cardinality(Newer(j)) + 1
    OBVIOUS
  <2>5. Cardinality(Newer(i)) \in Nat /\ Cardinality(Newer(j)) \in Nat
    BY <1>2
  <2> HIDE DEF rank, Newer
  <2> QED BY <2>3, <2>4, <2>5
<1>5. ASSUME NEW i \in S, NEW j \in S, i # j
      PROVE  rank[i] # rank[j]
  <2>1. Pages!NewestFirst(i, j) \/ Pages!NewestFirst(j, i)
    BY <1>5, NewestOrders
  <2> HIDE DEF rank
  <2>2. rank[i] \in Nat /\ rank[j] \in Nat
    BY <1>1, <1>3
  <2> QED BY <1>4, <2>1, <2>2
<1> HIDE DEF rank
<1>6. ASSUME NEW n \in N
      PROVE  \E i \in S : rank[i] = n
  <2>1. SUFFICES ASSUME \A i \in S : rank[i] # n
                 PROVE  FALSE
    OBVIOUS
  <2>2. rank \in [S -> N \ {n}]
    BY <1>3, <2>1
  <2>3. IsFiniteSet(N) /\ Cardinality(N) = Cardinality(S)
    BY <1>1, FS_Interval
  <2>4. IsFiniteSet(N \ {n}) /\ Cardinality(N \ {n}) = Cardinality(N) - 1
    BY <2>3, FS_RemoveElement
  <2>5. \E i, j \in S : i # j /\ rank[i] = rank[j]
    BY <1>1, <2>2, <2>3, <2>4, FS_PigeonHole
  <2> QED BY <1>5, <2>5
<1> DEFINE found == [n \in N |-> CHOOSE i \in S : rank[i] = n]
<1>7. \A n \in N : found[n] \in S /\ rank[found[n]] = n
  BY <1>6
<1>8. found \in [N -> S]
  BY <1>7
<1> HIDE DEF found
<1>9. ASSUME NEW m \in N, NEW n \in N, m < n
      PROVE  Pages!NewestFirst(found[m], found[n])
  <2>1. /\ found[m] \in S /\ rank[found[m]] = m
        /\ found[n] \in S /\ rank[found[n]] = n
    BY <1>7
  <2>2. found[m] # found[n] /\ m \in Nat /\ n \in Nat
    BY <1>9, <2>1
  <2>3. \/ Pages!NewestFirst(found[m], found[n])
        \/ Pages!NewestFirst(found[n], found[m])
    BY <2>1, <2>2, NewestOrders
  <2>4. ~ Pages!NewestFirst(found[n], found[m])
    BY <1>4, <1>9, <2>1, <2>2
  <2> QED BY <2>3, <2>4
<1> QED BY <1>8, <1>9

LEMMA CountsAgree ==
    ASSUME NEW S
    PROVE  Pages!Cardinality(S) = Cardinality(S)
BY DEF Pages!Cardinality, Cardinality

LEMMA ListedRows ==
    ASSUME rows \in [RowIds -> ListRow], NEW S \in SUBSET RowIds, IsFiniteSet(S)
    PROVE  /\ Pages!Listed(S) \in Seq(S)
           /\ Pages!Listed(S) \in Seq(RowIds)
           /\ \A m, n \in 1 .. Len(Pages!Listed(S)) :
                 m < n => Pages!NewestFirst(Pages!Listed(S)[m], Pages!Listed(S)[n])
           /\ \A i \in S : \E n \in 1 .. Len(Pages!Listed(S)) : Pages!Listed(S)[n] = i
<1>1. PICK found : found = Pages!Listed(S)
  OBVIOUS
<1>2. Cardinality(S) \in Nat
  BY FS_CardinalityType
<1>3. /\ found \in [1 .. Cardinality(S) -> S]
      /\ \A m, n \in 1 .. Cardinality(S) :
            m < n => Pages!NewestFirst(found[m], found[n])
  <2> DEFINE Sorted(f) ==
               \A m, n \in 1 .. Cardinality(S) : m < n => Pages!NewestFirst(f[m], f[n])
  <2>1. found = CHOOSE f \in [1 .. Cardinality(S) -> S] : Sorted(f)
    BY <1>1, CountsAgree DEF Pages!Listed
  <2>2. \E f \in [1 .. Cardinality(S) -> S] : Sorted(f)
    BY RowsHaveOrder
  <2>3. found \in [1 .. Cardinality(S) -> S] /\ Sorted(found)
    <3> HIDE DEF Sorted
    <3> QED BY <2>1, <2>2
  <2> QED BY <2>3
<1>4. /\ found \in Seq(S) /\ found \in Seq(RowIds)
      /\ Len(found) = Cardinality(S)
  BY <1>2, <1>3
<1>5. \A m, n \in 1 .. Cardinality(S) : m < n => found[m] # found[n]
  BY <1>3, NewestOrders
<1>6. \A i \in S : \E n \in 1 .. Cardinality(S) : found[n] = i
  BY <1>3, <1>5, AllNamed
<1> QED BY <1>1, <1>3, <1>4, <1>6

LEMMA PagesInitially == ConsoleInit => PagesInv
<1> SUFFICES ASSUME ConsoleInit PROVE PagesInv
  OBVIOUS
<1>1. rows = [i \in RowIds |-> Pages!NoRow] /\ walk = Pages!Unread
  BY DEF ConsoleInit, Pages!PortalInit
<1>2. Pages!NoRow \in ListRow /\ ~ Pages!NoRow.there
  BY DEF Pages!NoRow, ListRow, Words
<1>3. RowsListed
  <2>1. {i \in RowIds : rows[i].there} = {}
    BY <1>1, <1>2
  <2> QED BY <1>1, <1>2, <2>1, FS_EmptySet DEF RowsListed
<1>4. /\ walk \in WalkRow /\ walk.state = "idle" /\ walk.cursor = <<>>
      /\ walk.seen = <<>> /\ walk.owed = {}
  BY <1>1 DEF Pages!Unread, Pages!Everything, WalkRow, Words
<1>5. Descends(walk.seen)
  BY <1>4 DEF Descends
<1> QED BY <1>3, <1>4, <1>5 DEF PagesInv, WalkSound

(* Rows that are there keep their time, so what the reader saw stays in    *)
(* order; what no longer fits the filter is no longer owed.                *)
LEMMA RowsMove ==
    ASSUME PagesInv, rows' \in [RowIds -> ListRow],
           \A i \in RowIds : rows[i].there => /\ rows'[i].there
                                             /\ rows'[i].at = rows[i].at,
           NEW owed \in SUBSET walk.owed,
           walk' = [walk EXCEPT !.owed = owed],
           \A i \in owed : Pages!Matches(rows'[i], walk.filter)
    PROVE  WalkSound'
<1>1. /\ walk \in WalkRow /\ walk' \in WalkRow
      /\ walk'.state = walk.state /\ walk'.filter = walk.filter
      /\ walk'.cursor = walk.cursor /\ walk'.seen = walk.seen /\ walk'.owed = owed
  BY DEF PagesInv, WalkSound, WalkRow
<1>2. walk.seen \in Seq(RowIds) /\ owed \in SUBSET RowIds
  BY <1>1 DEF WalkRow
<1>3. \A n \in 1 .. Len(walk.seen) :
         /\ walk.seen[n] \in RowIds /\ rows[walk.seen[n]].there
         /\ rows'[walk.seen[n]].there
         /\ rows'[walk.seen[n]].at = rows[walk.seen[n]].at
  BY <1>2 DEF PagesInv, WalkSound, Descends
<1>4. Descends(walk.seen)'
  BY <1>1, <1>3 DEF PagesInv, WalkSound, Descends, Pages!NewestFirst
<1>5. walk'.state = "reading" =>
         /\ walk'.seen # <<>>
         /\ LET end == walk'.seen[Len(walk'.seen)]
            IN  walk'.cursor = <<rows'[end].at, end>>
  <2>1. SUFFICES ASSUME walk.state = "reading"
                 PROVE  /\ walk.seen # <<>>
                        /\ LET end == walk.seen[Len(walk.seen)]
                           IN  walk.cursor = <<rows'[end].at, end>>
    BY <1>1
  <2>2. walk.seen # <<>> /\ Len(walk.seen) \in 1 .. Len(walk.seen)
    BY <1>2, <2>1 DEF PagesInv, WalkSound
  <2> QED BY <1>3, <2>1, <2>2 DEF PagesInv, WalkSound
<1>6. ASSUME NEW i \in owed
      PROVE  Pages!Matches(rows'[i], walk'.filter) /\ AheadOrSeen(i)'
  <2>1. Pages!Matches(rows[i], walk.filter) /\ AheadOrSeen(i)
    BY DEF PagesInv, WalkSound
  <2>2. rows'[i].at = rows[i].at
    BY <1>2, <2>1 DEF Pages!Matches
  <2> QED BY <1>1, <2>1, <2>2 DEF AheadOrSeen, Pages!Older
<1> QED BY <1>1, <1>4, <1>5, <1>6 DEF PagesInv, WalkSound

LEMMA InsertStep ==
    ASSUME PagesInv, NEW i \in RowIds, NEW at \in 0 .. MaxTime, NEW says,
           Pages!Insert(i, at, says)
    PROVE  PagesInv'
<1>1. PICK new : new = [there |-> TRUE, at |-> at, says |-> says]
  OBVIOUS
<1>2. /\ rows[i] = Pages!NoRow /\ rows' = [rows EXCEPT ![i] = new]
      /\ walk' = walk /\ says \in Words /\ ~ Pages!NoRow.there
  BY <1>1 DEF Pages!Insert, Pages!Fresh, Pages!NoRow, Words
<1>3. new \in ListRow /\ new.there
  BY <1>1, <1>2, ConsoleAssumption DEF Pages!PortalAssumption, ListRow
<1>4. /\ rows \in [RowIds -> ListRow] /\ walk \in WalkRow
      /\ IsFiniteSet({j \in RowIds : rows[j].there})
  BY DEF PagesInv, RowsListed, WalkSound
<1>5. /\ rows' \in [RowIds -> ListRow] /\ rows'[i] = new
      /\ \A j \in RowIds : j # i => rows'[j] = rows[j]
  BY <1>2, <1>3, <1>4
<1>6. RowsListed'
  <2>1. {j \in RowIds : rows'[j].there} = {j \in RowIds : rows[j].there} \cup {i}
    BY <1>3, <1>5
  <2> QED BY <1>4, <1>5, <2>1, FS_AddElement DEF RowsListed
<1>7. WalkSound'
  <2>1. \A j \in RowIds : rows[j].there => rows'[j].there /\ rows'[j].at = rows[j].at
    BY <1>2, <1>5
  <2>2. walk' = [walk EXCEPT !.owed = walk.owed]
    BY <1>2, <1>4 DEF WalkRow
  <2>3. ASSUME NEW j \in walk.owed
        PROVE  Pages!Matches(rows'[j], walk.filter)
    <3>1. j \in RowIds /\ Pages!Matches(rows[j], walk.filter)
      BY <1>4 DEF PagesInv, WalkSound, WalkRow
    <3> QED BY <1>2, <1>5, <3>1 DEF Pages!Matches
  <2> QED BY <1>5, <2>1, <2>2, <2>3, RowsMove
<1> QED BY <1>6, <1>7 DEF PagesInv

LEMMA TurnedStep ==
    ASSUME PagesInv, NEW S, NEW says \in Words, Pages!Turned(S, says)
    PROVE  PagesInv'
<1>1. /\ rows \in [RowIds -> ListRow] /\ walk \in WalkRow
      /\ IsFiniteSet({i \in RowIds : rows[i].there})
  BY DEF PagesInv, RowsListed, WalkSound
<1>2. PICK owed : owed = {i \in walk.owed : Pages!Matches(rows'[i], walk.filter)}
  OBVIOUS
<1>3. /\ rows' = [i \in RowIds |-> IF i \in S THEN [rows[i] EXCEPT !.says = says]
                                  ELSE rows[i]]
      /\ walk' = [walk EXCEPT !.owed = owed]
  BY <1>1, <1>2 DEF Pages!Turned, WalkRow
<1>4. /\ rows' \in [RowIds -> ListRow]
      /\ \A i \in RowIds : rows'[i].there = rows[i].there /\ rows'[i].at = rows[i].at
  BY <1>1, <1>3 DEF ListRow
<1>5. RowsListed'
  <2>1. {i \in RowIds : rows'[i].there} = {i \in RowIds : rows[i].there}
    BY <1>4
  <2> QED BY <1>1, <1>4, <2>1 DEF RowsListed
<1>6. WalkSound'
  <2>1. \A i \in RowIds : rows[i].there => rows'[i].there /\ rows'[i].at = rows[i].at
    BY <1>4
  <2>2. /\ owed \in SUBSET walk.owed
        /\ \A i \in owed : Pages!Matches(rows'[i], walk.filter)
    BY <1>2
  <2> QED BY <1>3, <1>4, <2>1, <2>2, RowsMove
<1> QED BY <1>5, <1>6 DEF PagesInv

(* What a query finds, listed: all of it, in order.                        *)
LEMMA FoundRows ==
    ASSUME PagesInv, NEW filter, NEW cursor,
           NEW L, L = Pages!Listed(Pages!Found(filter, cursor))
    PROVE  /\ L \in Seq(RowIds)
           /\ \A n \in 1 .. Len(L) : /\ Pages!Matches(rows[L[n]], filter)
                                     /\ rows[L[n]].there
                                     /\ Pages!Older(L[n], cursor)
           /\ \A m, n \in 1 .. Len(L) : m < n => Pages!NewestFirst(L[m], L[n])
           /\ \A i \in RowIds : Pages!Matches(rows[i], filter) /\ Pages!Older(i, cursor)
                 => \E n \in 1 .. Len(L) : L[n] = i
<1> DEFINE S == Pages!Found(filter, cursor)
<1>1. /\ rows \in [RowIds -> ListRow]
      /\ IsFiniteSet({i \in RowIds : rows[i].there})
  BY DEF PagesInv, RowsListed
<1>2. /\ S \in SUBSET RowIds
      /\ \A i \in RowIds : i \in S <=> /\ Pages!Matches(rows[i], filter)
                                      /\ Pages!Older(i, cursor)
  BY DEF Pages!Found
<1>3. \A i \in S : rows[i].there
  BY <1>2 DEF Pages!Matches
<1>4. IsFiniteSet(S)
  <2>1. S \in SUBSET {i \in RowIds : rows[i].there}
    BY <1>2, <1>3
  <2> QED BY <1>1, <2>1, FS_Subset
<1> HIDE DEF S
<1>5. /\ L \in Seq(S) /\ L \in Seq(RowIds)
      /\ \A m, n \in 1 .. Len(L) : m < n => Pages!NewestFirst(L[m], L[n])
      /\ \A i \in S : \E n \in 1 .. Len(L) : L[n] = i
  <2>1. L = Pages!Listed(S)
    BY DEF S
  <2> QED BY <1>1, <1>2, <1>4, <2>1, ListedRows
<1>6. \A n \in 1 .. Len(L) : L[n] \in S
  BY <1>5
<1> QED BY <1>2, <1>3, <1>5, <1>6

(* A page lies behind all that was seen, and goes on after it.             *)
LEMMA PageStep ==
    ASSUME PagesInv, NEW filter \in Words, NEW limit \in PageSizes,
           Pages!Page(filter, limit)
    PROVE  PagesInv'
<1> DEFINE before == Len(walk.seen)
<1>1. PICK L : L = Pages!Listed(Pages!Found(filter, walk.cursor))
  OBVIOUS
<1>2. PICK page : page = IF Len(L) > limit THEN SubSeq(L, 1, limit) ELSE L
  OBVIOUS
<1>3. limit \in Nat /\ limit > 0
  BY ConsoleAssumption DEF Pages!PortalAssumption
<1>4. /\ L \in Seq(RowIds) /\ Len(L) \in Nat
      /\ \A n \in 1 .. Len(L) : /\ L[n] \in RowIds /\ rows[L[n]].there
                                /\ Pages!Older(L[n], walk.cursor)
      /\ \A m, n \in 1 .. Len(L) : m < n => Pages!NewestFirst(L[m], L[n])
      /\ \A i \in RowIds :
            Pages!Matches(rows[i], filter) /\ Pages!Older(i, walk.cursor)
               => \E n \in 1 .. Len(L) : L[n] = i
  BY <1>1, FoundRows
<1>5. /\ page \in Seq(RowIds) /\ Len(page) <= Len(L) /\ Len(page) \in Nat
      /\ Len(L) > limit => Len(page) = limit
      /\ ~ (Len(L) > limit) => Len(page) = Len(L)
      /\ \A n \in 1 .. Len(page) : page[n] = L[n]
  BY <1>2, <1>3, <1>4
<1>6. /\ walk.state # "done"
      /\ walk.state = "reading" => filter = walk.filter
      /\ walk' = [state |-> IF Len(L) > limit THEN "reading" ELSE "done",
                  filter |-> filter,
                  cursor |-> IF Len(L) > limit THEN <<rows[page[limit]].at, page[limit]>>
                             ELSE <<>>,
                  seen |-> walk.seen \o page,
                  owed |-> Pages!Owed(filter)]
      /\ rows' = rows
  <2>1. PICK found : found = Pages!RowsAfter(filter, walk.cursor, limit)
    OBVIOUS
  <2>2. found = IF Len(L) > limit THEN SubSeq(L, 1, limit + 1) ELSE L
    BY <1>1, <2>1 DEF Pages!RowsAfter
  <2>3. /\ Len(found) > limit <=> Len(L) > limit
        /\ Len(L) > limit => Pages!Front(found) = page
        /\ ~ (Len(L) > limit) => found = page
    <3>1. CASE Len(L) > limit
      <4>1. /\ found \in Seq(RowIds) /\ Len(found) = limit + 1
            /\ \A n \in 1 .. limit + 1 : found[n] = L[n]
        BY <1>3, <1>4, <2>2, <3>1
      <4>2. /\ SubSeq(found, 1, limit) \in Seq(RowIds)
            /\ Len(SubSeq(found, 1, limit)) = limit
            /\ \A n \in 1 .. limit : SubSeq(found, 1, limit)[n] = found[n]
        BY <1>3, <4>1
      <4>3. SubSeq(found, 1, limit) = page
        BY <1>3, <1>5, <3>1, <4>1, <4>2
      <4>4. Pages!Front(found) = SubSeq(found, 1, limit)
        BY <1>3, <4>1 DEF Pages!Front
      <4> QED BY <1>3, <3>1, <4>1, <4>3, <4>4
    <3>2. CASE ~ (Len(L) > limit)
      BY <1>2, <2>2, <3>2
    <3> QED BY <3>1, <3>2
  <2>4. Len(L) > limit => Pages!Last(page) = page[limit]
    BY <1>5 DEF Pages!Last
  <2> QED BY <2>1, <2>3, <2>4 DEF Pages!Page
<1>7. /\ rows \in [RowIds -> ListRow] /\ walk \in WalkRow
      /\ walk.seen \in Seq(RowIds) /\ before \in Nat
      /\ walk.owed \in SUBSET RowIds /\ walk.state \in {"idle", "reading", "done"}
  BY DEF PagesInv, RowsListed, WalkSound, WalkRow
<1>8. PICK seen : seen = walk.seen \o page
  OBVIOUS
<1>9. /\ seen \in Seq(RowIds) /\ Len(seen) = before + Len(page)
      /\ \A n \in 1 .. before : seen[n] = walk.seen[n]
      /\ \A n \in 1 .. Len(page) : seen[before + n] = L[n]
  BY <1>5, <1>7, <1>8
<1> HIDE DEF before
<1>10. ASSUME NEW m \in 1 .. Len(seen), m > before
       PROVE  m - before \in 1 .. Len(L) /\ seen[m] = L[m - before]
  <2>1. m - before \in 1 .. Len(page) /\ before + (m - before) = m
    BY <1>5, <1>7, <1>9, <1>10
  <2> QED BY <1>5, <1>4, <1>9, <2>1
<1>11. Descends(seen)
  <2>1. \A n \in 1 .. before : /\ walk.seen[n] \in RowIds
                              /\ rows[walk.seen[n]].there
    BY <1>7 DEF before, PagesInv, WalkSound, Descends
  <2>2. ASSUME NEW n \in 1 .. Len(seen)
        PROVE  rows[seen[n]].there
    <3>1. CASE n \in 1 .. before
      BY <1>9, <2>1, <3>1
    <3>2. CASE n > before
      BY <1>4, <1>10, <3>2
    <3> QED BY <1>7, <3>1, <3>2
  <2>3. ASSUME NEW m \in 1 .. Len(seen), NEW n \in 1 .. Len(seen), m < n
        PROVE  Pages!NewestFirst(seen[m], seen[n])
    <3>1. CASE n \in 1 .. before
      <4>1. m \in 1 .. before
        BY <1>7, <2>3, <3>1
      <4> QED BY <1>9, <2>3, <3>1, <4>1 DEF before, PagesInv, WalkSound, Descends
    <3>2. CASE n > before /\ m > before
      <4>1. m - before < n - before
        BY <1>7, <2>3
      <4> QED BY <1>4, <1>10, <3>2, <4>1
    <3>3. CASE n > before /\ m \in 1 .. before
      <4>1. PICK end : end = walk.seen[before]
        OBVIOUS
      <4>2. before \in 1 .. before /\ walk.seen # <<>>
        BY <1>7, <3>3 DEF before
      <4>3. walk.state = "reading"
        BY <1>6, <1>7, <4>2 DEF PagesInv, WalkSound
      <4>4. walk.cursor = <<rows[end].at, end>> /\ end \in RowIds
        BY <2>1, <4>1, <4>2, <4>3 DEF before, PagesInv, WalkSound
      <4>5. Pages!Older(seen[n], walk.cursor) /\ seen[n] \in RowIds
        BY <1>4, <1>10, <3>3
      <4>6. Pages!NewestFirst(end, seen[n])
        BY <4>4, <4>5, OlderFollows, ConsoleAssumption, <1>7
           DEF Pages!NewestFirst, ListRow, Pages!PortalAssumption
      <4>7. walk.seen[m] = end \/ Pages!NewestFirst(walk.seen[m], end)
        <5>1. CASE m = before
          BY <4>1, <5>1
        <5>2. CASE m < before
          BY <3>3, <4>1, <4>2, <5>2 DEF before, PagesInv, WalkSound, Descends
        <5> QED BY <1>7, <3>3, <5>1, <5>2
      <4> QED BY <1>7, <1>9, <2>1, <3>3, <4>4, <4>5, <4>6, <4>7, NewestOrders
    <3> QED BY <1>7, <3>1, <3>2, <3>3
  <2> QED BY <2>2, <2>3 DEF Descends
<1>12. ASSUME NEW i \in Pages!Owed(filter)
       PROVE  /\ i \in RowIds /\ Pages!Matches(rows[i], filter)
              /\ \/ \E n \in 1 .. before : walk.seen[n] = i
                 \/ Pages!Older(i, walk.cursor)
  <2>1. CASE walk.state = "idle"
    BY <1>12, <2>1 DEF Pages!Owed, Pages!Older, PagesInv, WalkSound
  <2>2. CASE walk.state # "idle"
    <3>1. i \in walk.owed /\ walk.state = "reading" /\ filter = walk.filter
      BY <1>6, <1>7, <1>12, <2>2 DEF Pages!Owed
    <3> QED BY <1>7, <3>1 DEF before, PagesInv, WalkSound, AheadOrSeen
  <2> QED BY <2>1, <2>2
<1>13. ASSUME NEW i \in Pages!Owed(filter)
       PROVE  \/ \E n \in 1 .. Len(seen) : seen[n] = i
              \/ Len(L) > limit /\ Pages!Older(i, <<rows[page[limit]].at, page[limit]>>)
  <2>1. ASSUME NEW n \in 1 .. before, walk.seen[n] = i
        PROVE  n \in 1 .. Len(seen) /\ seen[n] = i
    BY <1>5, <1>7, <1>9, <2>1
  <2>2. ASSUME NEW n \in 1 .. Len(page), L[n] = i
        PROVE  before + n \in 1 .. Len(seen) /\ seen[before + n] = i
    BY <1>5, <1>7, <1>9, <2>2
  <2>3. ASSUME NEW n \in 1 .. Len(L), L[n] = i, n \notin 1 .. Len(page)
        PROVE  /\ Len(L) > limit
               /\ Pages!Older(i, <<rows[page[limit]].at, page[limit]>>)
    <3>1. /\ Len(L) > limit /\ limit < n
          /\ limit \in 1 .. Len(L) /\ page[limit] = L[limit]
      BY <1>3, <1>4, <1>5, <2>3
    <3>2. Pages!NewestFirst(L[limit], L[n])
      BY <1>4, <3>1
    <3> QED BY <1>4, <1>7, <2>3, <3>1, <3>2, OlderFollows, ConsoleAssumption
            DEF Pages!NewestFirst, ListRow, Pages!PortalAssumption
  <2>4. \/ \E n \in 1 .. before : walk.seen[n] = i
        \/ \E n \in 1 .. Len(L) : L[n] = i
    BY <1>4, <1>12
  <2> QED BY <2>1, <2>2, <2>3, <2>4
<1>14. /\ walk'.state = IF Len(L) > limit THEN "reading" ELSE "done"
       /\ walk'.filter = filter /\ walk'.seen = seen
       /\ walk'.cursor = IF Len(L) > limit THEN <<rows[page[limit]].at, page[limit]>>
                         ELSE <<>>
       /\ walk'.owed = Pages!Owed(filter)
  BY <1>6, <1>8
<1>15. Len(L) > limit =>
          /\ seen # <<>> /\ seen[Len(seen)] = page[limit] /\ page[limit] \in RowIds
          /\ rows[page[limit]].at \in Nat
  <2>1. SUFFICES ASSUME Len(L) > limit
                 PROVE  /\ seen # <<>> /\ seen[Len(seen)] = page[limit]
                        /\ page[limit] \in RowIds /\ rows[page[limit]].at \in Nat
    OBVIOUS
  <2>2. Len(page) = limit /\ limit \in 1 .. Len(page) /\ page[limit] = L[limit]
    BY <1>3, <1>5, <2>1
  <2>3. Len(seen) = before + limit /\ seen # <<>>
    BY <1>3, <1>7, <1>9, <2>2
  <2> QED BY <1>5, <1>7, <1>9, <2>2, <2>3 DEF ListRow
<1>16. walk' \in WalkRow
  <2>1. Pages!Owed(filter) \in SUBSET RowIds
    BY <1>12
  <2>2. PICK state \in {"idle", "reading", "done"} : walk'.state = state
    BY <1>14
  <2>3. walk'.cursor \in {<<>>} \cup (Nat \X RowIds)
    BY <1>14, <1>15
  <2>4. walk' = [state |-> walk'.state, filter |-> walk'.filter,
                 cursor |-> walk'.cursor, seen |-> walk'.seen, owed |-> walk'.owed]
    BY <1>6
  <2> QED BY <1>9, <1>14, <2>1, <2>2, <2>3, <2>4 DEF WalkRow
<1>17. WalkSound'
  <2>1. Descends(walk.seen)'
    <3>1. /\ \A n \in 1 .. Len(seen) : rows[seen[n]].there
          /\ \A m, n \in 1 .. Len(seen) : m < n => Pages!NewestFirst(seen[m], seen[n])
      BY <1>11 DEF Descends
    <3>2. /\ \A n \in 1 .. Len(seen) : rows'[seen[n]].there
          /\ \A m, n \in 1 .. Len(seen) :
                m < n => \/ rows'[seen[m]].at > rows'[seen[n]].at
                         \/ rows'[seen[m]].at = rows'[seen[n]].at /\ seen[m] > seen[n]
      BY <1>6, <3>1 DEF Pages!NewestFirst
    <3> QED BY <1>14, <3>2 DEF Descends, Pages!NewestFirst
  <2>2. ASSUME NEW i \in walk'.owed
        PROVE  Pages!Matches(rows'[i], walk'.filter) /\ AheadOrSeen(i)'
    <3>1. i \in Pages!Owed(filter)
      BY <1>14
    <3>2. Pages!Matches(rows'[i], walk'.filter)
      BY <1>6, <1>12, <1>14, <3>1
    <3>3. AheadOrSeen(i)'
      BY <1>6, <1>13, <1>14, <3>1 DEF AheadOrSeen, Pages!Older
    <3> QED BY <3>2, <3>3
  <2>3. walk'.state # "idle"
    BY <1>14
  <2>4. walk'.state = "reading" =>
           /\ walk'.seen # <<>>
           /\ LET end == walk'.seen[Len(walk'.seen)]
              IN  walk'.cursor = <<rows'[end].at, end>>
    BY <1>6, <1>14, <1>15
  <2> QED BY <1>16, <2>1, <2>2, <2>3, <2>4 DEF WalkSound
<1> QED BY <1>6, <1>17 DEF PagesInv, RowsListed

(* An export is one page of all there is.                                  *)
LEMMA ExportStep ==
    ASSUME PagesInv, NEW filter \in Words, Pages!ExportOrders(filter)
    PROVE  PagesInv'
<1>1. PICK L : L = Pages!Listed(Pages!Found(filter, <<>>))
  OBVIOUS
<1>2. /\ L \in Seq(RowIds)
      /\ \A n \in 1 .. Len(L) : rows[L[n]].there
      /\ \A m, n \in 1 .. Len(L) : m < n => Pages!NewestFirst(L[m], L[n])
      /\ \A i \in RowIds : Pages!Matches(rows[i], filter)
            => \E n \in 1 .. Len(L) : L[n] = i
  BY <1>1, FoundRows DEF Pages!Older
<1>3. walk \in WalkRow /\ walk.state = "idle" /\ walk.cursor = <<>>
  BY DEF PagesInv, WalkSound, Pages!ExportOrders
<1>4. PICK owed : owed = {i \in RowIds : Pages!Matches(rows[i], filter)}
  OBVIOUS
<1>5. walk' = [walk EXCEPT !.state = "done", !.filter = filter, !.seen = L, !.owed = owed]
  BY <1>1, <1>3, <1>4 DEF Pages!ExportOrders, Pages!Owed
<1>6. rows' = rows
  BY DEF Pages!ExportOrders
<1>7. /\ walk'.state = "done" /\ walk'.filter = filter /\ walk'.seen = L
      /\ walk'.owed = owed /\ walk' \in WalkRow
  BY <1>2, <1>3, <1>4, <1>5 DEF WalkRow
<1>8. Descends(walk.seen)'
  BY <1>2, <1>6, <1>7 DEF Descends, Pages!NewestFirst
<1>9. ASSUME NEW i \in walk'.owed
      PROVE  Pages!Matches(rows'[i], walk'.filter) /\ AheadOrSeen(i)'
  BY <1>2, <1>4, <1>6, <1>7 DEF AheadOrSeen
<1> QED BY <1>6, <1>7, <1>8, <1>9 DEF PagesInv, RowsListed, WalkSound

LEMMA PagesKept == PagesInv /\ [ConsoleNext]_<<part, vars, otherVars>> => PagesInv'
<1> SUFFICES ASSUME PagesInv, [ConsoleNext]_<<part, vars, otherVars>> PROVE PagesInv'
  OBVIOUS
<1>1. CASE UNCHANGED <<rows, walk>>
  BY <1>1 DEF PagesInv, RowsListed, WalkSound, Descends, AheadOrSeen,
              Pages!NewestFirst, Pages!Older
<1>2. ASSUME Pages!ListNext
      PROVE  PagesInv'
  <2>1. CASE Pages!Tick
    BY <1>1, <2>1 DEF Pages!Tick
  <2>2. ASSUME NEW i \in RowIds, NEW says, Pages!Turn(i, says)
        PROVE  PagesInv'
    <3>1. says \in Words /\ Pages!Turned({i}, says)
      BY <2>2 DEF Pages!Turn, Pages!Turns, Words
    <3> QED BY <3>1, TurnedStep
  <2>3. ASSUME NEW i \in RowIds, NEW says, NEW at \in 0 .. MaxTime,
               Pages!Insert(i, at, says)
        PROVE  PagesInv'
    BY <2>3, InsertStep
  <2>4. ASSUME NEW S \in SUBSET RowIds, Pages!MarkRead(S)
        PROVE  PagesInv'
    <3>1. "read" \in Words /\ Pages!Turned(S, "read")
      BY <2>4 DEF Pages!MarkRead, Words
    <3> QED BY <3>1, TurnedStep
  <2>5. ASSUME NEW filter, Pages!ExportOrders(filter)
        PROVE  PagesInv'
    <3>1. filter \in Words
      BY <2>5 DEF Pages!ExportOrders, Pages!Column, Pages!Everything, Words
    <3> QED BY <2>5, <3>1, ExportStep
  <2>6. ASSUME NEW filter, NEW limit \in PageSizes,
               \/ Pages!ListOrders(filter, limit) \/ Pages!ListReceipts(filter, limit)
               \/ Pages!ListAudits(filter, limit)
               \/ Pages!ListNotifications(filter, limit)
               \/ Pages!ListAnnouncements(filter, limit)
               \/ Pages!ListConsole(filter, limit) \/ Pages!ListPurchases(filter, limit)
        PROVE  PagesInv'
    <3>1. filter \in Words /\ Pages!Page(filter, limit)
      BY <2>6 DEF Pages!ListOrders, Pages!ListReceipts, Pages!ListAudits,
                  Pages!ListNotifications, Pages!ListAnnouncements,
                  Pages!ListConsole, Pages!ListPurchases, Pages!Column,
                  Pages!Everything, Words
    <3> QED BY <3>1, PageStep
  <2> QED BY <1>2, <2>1, <2>2, <2>3, <2>4, <2>5, <2>6 DEF Pages!ListNext
<1>3. Pages!AnnouncementNext => UNCHANGED <<rows, walk>>
  BY DEF Pages!AnnouncementNext, Pages!SaveAnnouncement, Pages!DeleteAnnouncement,
         Pages!MarkBegin, Pages!MarkAnnouncementRead, Pages!MarkFails, Pages!listVars
<1> QED BY <1>1, <1>2, <1>3 DEF ConsoleNext, otherVars, pageVars

(* Whoever turns all the pages saw every row that was there at the first   *)
(* page and fitted the filter all the while, and none twice: the cursor is *)
(* the time and the id of the last row before it, and no row's time ever   *)
(* changes.                                                                *)
THEOREM PagesWhole == ConsoleSpec => []PagesComplete
<1>1. PagesInv => PagesComplete
  <2> SUFFICES ASSUME PagesInv, walk.state = "done"
               PROVE  /\ walk.owed \subseteq Pages!Range(walk.seen)
                      /\ Pages!IsInjective(walk.seen)
    BY DEF PagesComplete, Pages!PagesComplete
  <2>1. /\ rows \in [RowIds -> ListRow] /\ walk.seen \in Seq(RowIds)
        /\ Descends(walk.seen) /\ \A i \in walk.owed : AheadOrSeen(i)
    BY DEF PagesInv, RowsListed, WalkSound, WalkRow
  <2>2. DOMAIN walk.seen = 1 .. Len(walk.seen) /\ Len(walk.seen) \in Nat
    BY <2>1
  <2>3. walk.owed \subseteq Pages!Range(walk.seen)
    BY <2>1, <2>2 DEF AheadOrSeen, Pages!Range
  <2>4. ASSUME NEW m \in 1 .. Len(walk.seen), NEW n \in 1 .. Len(walk.seen),
               walk.seen[m] = walk.seen[n]
        PROVE  m = n
    <3>1. walk.seen[m] \in RowIds
      BY <2>1
    <3>2. ~ Pages!NewestFirst(walk.seen[m], walk.seen[n])
          /\ ~ Pages!NewestFirst(walk.seen[n], walk.seen[m])
      BY <2>1, <2>4, <3>1, NewestOrders
    <3> QED BY <2>1, <2>2, <3>2 DEF Descends
  <2> QED BY <2>2, <2>3, <2>4 DEF Pages!IsInjective
<1> QED BY PagesInitially, PagesKept, <1>1, PTL DEF ConsoleSpec
=============================================================================
