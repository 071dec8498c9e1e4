------------------------------- MODULE Media --------------------------------
(***************************************************************************)
(* One slot for a collection code: the images a merchant uploads for one   *)
(* channel (internal/settings media.go and the slots of service.go), the   *)
(* orders that take the slot's code when their payer picks the channel and *)
(* the checkout page that shows it (internal/payment).                     *)
(*                                                                         *)
(* An upload writes its file (Store), begins a transaction, which is the   *)
(* asset's created_at (Begin), and saves the row once it has the           *)
(* merchant's lock (Save): two uploads may get the lock in the other       *)
(* order.  Every other action is one transaction under that lock, or one   *)
(* that only reads.                                                        *)
(***************************************************************************)
EXTENDS Naturals, Sequences

CONSTANTS
    Assets,     \* ids of media_assets
    Orders,     \* the merchant's pending orders that allow the channel
    NoAsset

(* Assumed of the constants, by MCConsole. *)
MediaAssumption == NoAsset \notin Assets

VARIABLES
    stored,     \* assets whose image is under DATA_DIR
    row,        \* [Assets -> row of media_assets, by its column active]
    born,       \* assets by created_at, oldest first
    upload,     \* [Assets -> how far the upload has come]
    lost,       \* assets that were committed under an error
    order,      \* [Orders -> row of orders]
    hindrances  \* what keeps the merchant from collecting

mediaVars == <<stored, row, born, upload, lost, order, hindrances>>
uploadVars == <<stored, row, born, upload, lost>>

(* left: 2 more than the second that expires_at begins, 1 less, 0 over.    *)
OrderRow == [pending : BOOLEAN, left : 0 .. 2, asset : Assets \cup {NoAsset}]

Hindrances == {"banned", "offline", "unsubscribed"}

MediaTypeOK ==
    /\ stored \subseteq Assets /\ lost \subseteq Assets
    /\ row \in [Assets -> {"none", "active", "inactive"}]
    /\ born \in Seq(Assets)
    /\ upload \in [Assets -> {"idle", "stored", "begun", "over"}]
    /\ order \in [Orders -> OrderRow]
    /\ hindrances \subseteq Hindrances

MediaInit ==
    /\ stored = {} /\ lost = {} /\ born = <<>> /\ hindrances = {}
    /\ row = [a \in Assets |-> "none"]
    /\ upload = [a \in Assets |-> "idle"]
    /\ order = [o \in Orders |-> [pending |-> TRUE, left |-> 2, asset |-> NoAsset]]

Active == {a \in Assets : row[a] = "active"}
Rows == {a \in Assets : row[a] # "none"}

(* The first of the rows S by ORDER BY created_at DESC.                    *)
IsNewest(a, S) ==
    /\ a \in S
    /\ \E i \in DOMAIN born : /\ born[i] = a
                              /\ \A j \in DOMAIN born : born[j] \in S => j <= i

-----------------------------------------------------------------------------
(* Uploads.                                                                *)

(* UploadQR and the first half of saveAsset, for an image that passes.     *)
Store(a) ==
    /\ upload[a] = "idle"
    /\ upload' = [upload EXCEPT ![a] = "stored"]
    /\ stored' = stored \cup {a}
    /\ UNCHANGED <<row, born, lost, order, hindrances>>

Begin(a) ==
    /\ upload[a] = "stored"
    /\ upload' = [upload EXCEPT ![a] = "begun"]
    /\ born' = Append(born, a)
    /\ UNCHANGED <<stored, row, lost, order, hindrances>>

(* The active rows of the slot become inactive, a new one active.          *)
Saved(a) ==
    /\ upload[a] = "begun"
    /\ upload' = [upload EXCEPT ![a] = "over"]
    /\ row' = [b \in Assets |-> IF b = a THEN "active"
                                ELSE IF b \in Active THEN "inactive" ELSE row[b]]
    /\ UNCHANGED <<born, order, hindrances>>

Save(a) == Saved(a) /\ UNCHANGED <<stored, lost>>

(* The answer to COMMIT is lost: an error, which removes the file.         *)
SaveUnanswered(a) ==
    /\ Saved(a)
    /\ stored' = stored \ {a}
    /\ lost' = lost \cup {a}

SaveFails(a) ==
    /\ upload[a] \in {"stored", "begun"}
    /\ upload' = [upload EXCEPT ![a] = "over"]
    /\ stored' = stored \ {a}
    /\ UNCHANGED <<row, born, lost, order, hindrances>>

(* The process dies: the file stays, with no row.                          *)
Crash(a) ==
    /\ upload[a] \in {"stored", "begun"}
    /\ upload' = [upload EXCEPT ![a] = "over"]
    /\ UNCHANGED <<stored, row, born, lost, order, hindrances>>

(* Service.SetQREnabled switches the newest asset of the slot.             *)
SetQREnabled(on) ==
    /\ \E a \in Rows :
          /\ IsNewest(a, Rows)
          /\ row' = [b \in Assets |->
                       IF b = a THEN (IF on THEN "active" ELSE "inactive")
                       ELSE IF on /\ b \in Active THEN "inactive" ELSE row[b]]
    /\ UNCHANGED <<stored, born, upload, lost, order, hindrances>>

(* What Service.QRSlots says of the slot.                                  *)
SlotEnabled == \E a \in Active : IsNewest(a, Rows)

-----------------------------------------------------------------------------
(* Orders.                                                                 *)

(* SQLEligibility.load and CheckChannelTx.                                 *)
Eligible == hindrances = {} /\ Active # {}

(* Service.SelectChannel, and a merchant's order that names the channel.   *)
SelectChannel(o) ==
    /\ order[o].pending /\ order[o].left > 0
    /\ order[o].asset = NoAsset
    /\ Eligible
    /\ \E a \in Active : /\ IsNewest(a, Active)
                         /\ order' = [order EXCEPT ![o].asset = a]
    /\ UNCHANGED <<uploadVars, hindrances>>

(* Handler.checkoutData: a visit expires an order that is overdue.         *)
Visit(o) ==
    /\ order[o].pending /\ order[o].left = 0
    /\ "banned" \notin hindrances
    /\ order' = [order EXCEPT ![o].pending = FALSE]
    /\ UNCHANGED <<uploadVars, hindrances>>

CanPay(o) ==
    /\ order[o].pending /\ order[o].left > 0
    /\ {"banned", "offline"} \cap hindrances = {}
    /\ order[o].asset # NoAsset

(* Mutant of Opens: an image that was replaced or disabled is not served.  *)
OpensActive(o) ==
    LET a == order[o].asset IN
    /\ a \in Active /\ a \in stored
    /\ order[o].pending /\ order[o].left > 1

(* Service.OpenAsset for the page's link, which ends with the last whole   *)
(* second before the order does.                                           *)
Opens(o) ==
    LET a == order[o].asset IN
    /\ a \in Rows /\ a \in stored
    /\ order[o].pending /\ order[o].left > 1

Pass(o) ==
    /\ order[o].left > 0
    /\ order' = [order EXCEPT ![o].left = @ - 1]
    /\ UNCHANGED <<uploadVars, hindrances>>

(* Settled, cancelled, or expired by the job.                              *)
End(o) ==
    /\ order[o].pending
    /\ order' = [order EXCEPT ![o].pending = FALSE]
    /\ UNCHANGED <<uploadVars, hindrances>>

(* The phone, the subscription and a ban; a ban ends what is pending.      *)
Hinder(h) ==
    /\ hindrances' = IF h \in hindrances THEN hindrances \ {h}
                     ELSE hindrances \cup {h}
    /\ order' = IF h = "banned" /\ h \notin hindrances
                THEN [o \in Orders |-> [order[o] EXCEPT !.pending = FALSE]]
                ELSE order
    /\ UNCHANGED uploadVars

MediaNext ==
    \/ \E a \in Assets : \/ Store(a) \/ Begin(a) \/ Save(a)
                         \/ SaveUnanswered(a) \/ SaveFails(a) \/ Crash(a)
    \/ \E on \in BOOLEAN : SetQREnabled(on)
    \/ \E o \in Orders : SelectChannel(o) \/ Visit(o) \/ Pass(o) \/ End(o)
    \/ \E h \in Hindrances : Hinder(h)

MediaSpec == MediaInit /\ [][MediaNext]_mediaVars

-----------------------------------------------------------------------------
(* Properties.                                                             *)

(* A checkout page that tells the payer to pay shows the picture of the    *)
(* code, whatever was uploaded, switched off or replaced since the channel *)
(* was picked; not in the order's last started second, and not for an      *)
(* upload whose COMMIT was answered with an error.                         *)
PayerSeesCode ==
    \A o \in Orders : CanPay(o) /\ order[o].left > 1 =>
        Opens(o) \/ order[o].asset \in lost

(* The slot that the merchant's page calls enabled is the slot that new    *)
(* orders are given a code from: an upload "replaces this channel's code   *)
(* and enables it automatically" (web/src/locales/en.json:480).            *)
SlotShown == SlotEnabled <=> Active # {}
=============================================================================
