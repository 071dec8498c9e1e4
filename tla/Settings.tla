------------------------------ MODULE Settings ------------------------------
(***************************************************************************)
(* The site's settings and what hangs on them (internal/settings           *)
(* service.go, internal/merchant ResetKey and Create, auth Register):      *)
(* the bounds of the merchants' collection settings, the merchant whose    *)
(* key the site holds to bill subscriptions, and the legal texts.          *)
(*                                                                         *)
(* The one row of site_settings is locked first, then merchants' rows      *)
(* (sqlc.LockBusinessRows): updates of a group take the settings for       *)
(* themselves, everybody else shares them.  A transaction is a row of      *)
(* request that goes from lock to lock; what it writes is visible with its *)
(* commit.  PostgreSQL ends one of several that wait for each other, and   *)
(* sqlc.InTx runs that one again, three times in all.                      *)
(***************************************************************************)
EXTENDS Integers, FiniteSets

CONSTANTS
    Merchants,
    Limits,         \* values of the setting that payment bounds
    Requests,       \* transactions that may run at once
    Mixes,          \* bound: kinds of requests that occur together
    MaxVersion,     \* bound on site_settings.version
    MaxKey,         \* bound on key_version
    Nobody

Updates == {"payment", "billing", "footer_legal", "other"}
Shared == {"reset_key", "collection", "register"}

(* Assumed of the constants, by MCConsole. *)
SettingsAssumption ==
    /\ Limits \subseteq Nat \ {0}
    /\ Mixes \subseteq SUBSET (Updates \cup Shared)
    /\ MaxVersion \in Nat \ {0} /\ MaxKey \in Nat \ {0}
    /\ Nobody \notin Merchants

VARIABLES
    version,    \* site_settings.version
    bound,      \* the largest value that group payment allows
    billing,    \* group billing and the secret billing_key
    legal,      \* newest revision of the legal texts
    merchants,  \* rows of merchants
    key,        \* [Merchants -> key_version]
    own,        \* [Merchants -> own collection setting, 0 for none]
    accepted,   \* [Merchants -> legal revision accepted when registering]
    request,    \* [Requests -> transaction under way]
    kinds       \* one of Mixes

vars == <<version, bound, billing, legal, merchants, key, own, accepted, request,
          kinds>>

content == <<bound, billing, legal>>

Idle == [stage |-> "idle", kind |-> "none", who |-> Nobody, value |-> 0,
         ids |-> {}, seen |-> <<>>, saw |-> <<>>, runs |-> 0]

Stages == {"idle", "begun", "settings", "merchants", "alone"}

TypeOK ==
    /\ version \in 1 .. MaxVersion
    /\ bound \in Limits
    /\ billing \in [merchant : Merchants \cup {Nobody}, valid : BOOLEAN,
                    held : 0 .. MaxKey]
    /\ legal \in 0 .. MaxVersion
    /\ merchants \subseteq Merchants
    /\ key \in [Merchants -> 1 .. MaxKey]
    /\ own \in [Merchants -> Limits \cup {0}]
    /\ accepted \in [Merchants -> 0 .. MaxVersion]
    /\ kinds \in Mixes
    /\ \A r \in Requests : /\ request[r].stage \in Stages
                           /\ request[r].ids \subseteq Merchants
                           /\ request[r].runs \in 0 .. 3

InitWith(Registered) ==
    /\ version = 1
    /\ bound \in Limits
    /\ billing = [merchant |-> Nobody, valid |-> FALSE, held |-> 0]
    /\ legal = 1
    /\ merchants = Registered
    /\ key = [m \in Merchants |-> 1]
    /\ own = [m \in Merchants |-> 0]
    /\ accepted = [m \in Merchants |-> 0]
    /\ request = [r \in Requests |-> Idle]
    /\ kinds \in Mixes

-----------------------------------------------------------------------------
(* Locks.                                                                  *)

Alone(r) == request[r].kind \in Updates
Others(r) == Requests \ {r}

HasSettings(r) == request[r].stage \in {"settings", "merchants", "alone"}
HasMerchants(r) == request[r].stage \in {"merchants", "alone"}

(* Requests that have what r asks for next.                                *)
SettingsBlockers(r) ==
    {q \in Others(r) : HasSettings(q) /\ (Alone(r) \/ Alone(q)
                                          \/ request[q].stage = "alone")}
MerchantBlockers(r) ==
    {q \in Others(r) : HasMerchants(q) /\ request[q].ids \cap request[r].ids # {}}
UpgradeBlockers(r) == {q \in Others(r) : HasSettings(q)}

(* ResetKey of the billing merchant writes site_settings too.              *)
Upgrades(r) ==
    request[r].kind = "reset_key" /\ billing.merchant = request[r].who

Blockers(r) ==
    CASE request[r].stage = "begun" -> SettingsBlockers(r)
      [] request[r].stage = "settings" -> MerchantBlockers(r)
      [] request[r].stage = "merchants" /\ Upgrades(r) -> UpgradeBlockers(r)
      [] OTHER -> {}

Moved(r, stage) == request' = [request EXCEPT ![r].stage = stage]

LockSettings(r) ==
    /\ request[r].stage = "begun" /\ SettingsBlockers(r) = {}
    /\ Moved(r, "settings")
    /\ UNCHANGED <<version, bound, billing, legal, merchants, key, own, accepted,
                   kinds>>

LockMerchants(r) ==
    /\ request[r].stage = "settings" /\ MerchantBlockers(r) = {}
    /\ Moved(r, "merchants")
    /\ UNCHANGED <<version, bound, billing, legal, merchants, key, own, accepted,
                   kinds>>

LockSettingsAlone(r) ==
    /\ request[r].stage = "merchants" /\ Upgrades(r) /\ UpgradeBlockers(r) = {}
    /\ Moved(r, "alone")
    /\ UNCHANGED <<version, bound, billing, legal, merchants, key, own, accepted,
                   kinds>>

(* Two requests that wait for each other: one is ended and run again, with *)
(* what it read before its transaction.                                    *)
Victim(r) ==
    /\ \E q \in Blockers(r) : r \in Blockers(q)
    /\ request' = [request EXCEPT ![r] =
          IF request[r].runs < 3
          THEN [request[r] EXCEPT !.stage = "begun", !.runs = request[r].runs + 1]
          ELSE Idle]
    /\ UNCHANGED <<version, bound, billing, legal, merchants, key, own, accepted,
                   kinds>>

(* A check fails or the connection is lost.                                *)
GiveUp(r) ==
    /\ request[r] # Idle
    /\ request' = [request EXCEPT ![r] = Idle]
    /\ UNCHANGED <<version, bound, billing, legal, merchants, key, own, accepted,
                   kinds>>

-----------------------------------------------------------------------------
(* Requests.                                                               *)

(* The administrator's page shows the settings and their version; the list *)
(* of merchants to lock is read before the transaction.                    *)
BeginUpdate(r, kind, m, value) ==
    /\ request[r] = Idle /\ kind \in kinds \cap Updates
    /\ version < MaxVersion                                     \* bound
    /\ (m # Nobody) => kind = "billing" /\ m \in merchants
    /\ (value # 0) = (kind \in {"payment", "billing"})
    /\ kind = "payment" => value \in Limits
    /\ kind = "billing" => value \in 1 .. MaxKey
    /\ request' = [request EXCEPT ![r] =
          [stage |-> "begun", kind |-> kind, who |-> m, value |-> value,
           ids |-> merchants, seen |-> <<version>>, saw |-> content, runs |-> 1]]
    /\ UNCHANGED <<version, bound, billing, legal, merchants, key, own, accepted,
                   kinds>>

BeginShared(r, kind, m, value) ==
    /\ request[r] = Idle /\ kind \in kinds \cap Shared
    /\ (m \in merchants) = (kind # "register")
    /\ kind = "reset_key" => value = 0
    /\ kind = "collection" => value \in Limits \cup {0}
    /\ kind = "register" => value = legal         \* the texts just displayed
    /\ request' = [request EXCEPT ![r] =
          [Idle EXCEPT !.stage = "begun", !.kind = kind, !.who = m, !.value = value,
                       !.ids = IF kind = "register" THEN {} ELSE {m}, !.runs = 1]]
    /\ UNCHANGED <<version, bound, billing, legal, merchants, key, own, accepted,
                   kinds>>

Ready(r, kind) == request[r].stage = "merchants" /\ request[r].kind = kind
Ends(r) == request' = [request EXCEPT ![r] = Idle]

(* Mutant of Current: the version displayed is not compared.               *)
CurrentAlways(r) == TRUE

(* Service.UpdateGroup: the version must be the one that was displayed.    *)
Current(r) == request[r].seen = <<version>>

Updating(r, kind) ==
    /\ Ready(r, kind) /\ Current(r)
    /\ version' = version + 1
    /\ Ends(r)

(* Mutant of Reconciled: only the merchants listed and locked beforehand.  *)
ReconciledListed(r) ==
    [m \in Merchants |-> IF m \in request[r].ids /\ own[m] > request[r].value
                         THEN 0 ELSE own[m]]

(* reconcileCollectionSettings: settings out of the new bounds go back to  *)
(* the default, those of every merchant there is.                          *)
Reconciled(r) ==
    [m \in Merchants |-> IF own[m] > request[r].value THEN 0 ELSE own[m]]

UpdatePayment(r) ==
    /\ Updating(r, "payment")
    /\ bound' = request[r].value
    /\ own' = Reconciled(r)
    /\ UNCHANGED <<billing, legal, merchants, key, accepted, kinds>>

(* Mutant of Billable: the key is not compared with the merchant's.        *)
BillableUnchecked(r) == request[r].who = Nobody \/ request[r].who \in merchants

(* validateBillingValueTx: the key that is entered, or the one held if     *)
(* none is, must be the merchant's.                                        *)
Billable(r) ==
    \/ request[r].who = Nobody
    \/ /\ request[r].who \in merchants
       /\ request[r].value = key[request[r].who]

UpdateBilling(r) ==
    /\ Updating(r, "billing") /\ Billable(r)
    /\ billing' = [merchant |-> request[r].who, valid |-> TRUE,
                   held |-> IF request[r].who = Nobody THEN billing.held
                            ELSE request[r].value]
    /\ UNCHANGED <<bound, legal, merchants, key, own, accepted,
                   kinds>>

(* saveLegalRevisions.                                                     *)
UpdateLegal(r) ==
    /\ Updating(r, "footer_legal")
    /\ legal' = legal + 1
    /\ UNCHANGED <<bound, billing, merchants, key, own, accepted,
                   kinds>>

(* The other groups, and the repair of group security from the terminal.   *)
UpdateOther(r) ==
    /\ Updating(r, "other")
    /\ UNCHANGED <<bound, billing, legal, merchants, key, own, accepted,
                   kinds>>

(* merchant.Service.ResetKey; of the billing merchant it is also a change  *)
(* of the settings.                                                        *)
ResetKey(r) ==
    LET m == request[r].who
    IN  /\ request[r].kind = "reset_key"
        /\ request[r].stage = IF Upgrades(r) THEN "alone" ELSE "merchants"
        /\ key[m] < MaxKey                                      \* bound
        /\ Upgrades(r) => version < MaxVersion                  \* bound
        /\ key' = [key EXCEPT ![m] = @ + 1]
        /\ billing' = IF Upgrades(r) THEN [billing EXCEPT !.valid = FALSE]
                                     ELSE billing
        /\ version' = IF Upgrades(r) THEN version + 1 ELSE version
        /\ Ends(r)
        /\ UNCHANGED <<bound, legal, merchants, own, accepted, kinds>>

(* Service.SaveCollection.                                                 *)
Allowed(value) == value <= bound

SaveCollection(r) ==
    /\ Ready(r, "collection") /\ Allowed(request[r].value)
    /\ own' = [own EXCEPT ![request[r].who] = request[r].value]
    /\ Ends(r)
    /\ UNCHANGED <<version, bound, billing, legal, merchants, key, accepted, kinds>>

(* auth.Service.Register.                                                  *)
Register(r) ==
    /\ Ready(r, "register") /\ request[r].value = legal
    /\ request[r].who \notin merchants
    /\ merchants' = merchants \cup {request[r].who}
    /\ accepted' = [accepted EXCEPT ![request[r].who] = legal]
    /\ Ends(r)
    /\ UNCHANGED <<version, bound, billing, legal, key, own, kinds>>

(* merchant.Service.Create, by the administrator, without the settings.    *)
Create(m) ==
    /\ m \notin merchants
    /\ merchants' = merchants \cup {m}
    /\ UNCHANGED <<version, bound, billing, legal, key, own, accepted, request,
                   kinds>>

-----------------------------------------------------------------------------
Begin(r) ==
    \E kind \in kinds, m \in Merchants \cup {Nobody},
       value \in Limits \cup {0} \cup (1 .. MaxKey) \cup (1 .. legal) :
        \/ BeginUpdate(r, kind, m, value)
        \/ m # Nobody /\ BeginShared(r, kind, m, value)

Next ==
    \/ \E m \in Merchants : Create(m)
    \/ \E r \in Requests :
          \/ Begin(r) \/ LockSettings(r) \/ LockMerchants(r) \/ LockSettingsAlone(r)
          \/ Victim(r) \/ GiveUp(r)
          \/ UpdatePayment(r) \/ UpdateBilling(r) \/ UpdateLegal(r) \/ UpdateOther(r)
          \/ ResetKey(r) \/ SaveCollection(r) \/ Register(r)

-----------------------------------------------------------------------------
(* Properties.                                                             *)

(* No merchant's own setting is out of the bounds in force, although the   *)
(* merchants that an update locks were listed before its transaction and   *)
(* may since have become more, and saved settings of their own.            *)
CollectionWithinBounds == \A m \in Merchants : own[m] <= bound

(* The site believes in the key it holds only while that is the merchant's *)
(* key: a reset and an update of the billing group do not pass each other. *)
CredentialTruth ==
    billing.valid /\ billing.merchant # Nobody =>
        billing.held = key[billing.merchant]

(* Whoever saves a group of settings has seen what is in force: nothing    *)
(* that changed since the page was displayed is overwritten unseen.        *)
NobodyOverwritesUnseen ==
    [][\A r \in Requests :
          request[r].kind \in Updates /\ request'[r] = Idle /\ version' # version
              => request[r].saw = content]_vars
=============================================================================
