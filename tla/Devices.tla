------------------------------ MODULE Devices ------------------------------
(***************************************************************************)
(* The phones that report receipts (internal/device binding.go and         *)
(* service.go): binding codes, replacement, heartbeats and the scan that   *)
(* alarms a merchant whose phone has fallen silent.                        *)
(*                                                                         *)
(* Every request is one transaction under the merchant's lock.  The scan   *)
(* is not: it lists the silent devices first and then visits each in a     *)
(* transaction of its own (ScanBegin, then ScanVisit for every item).      *)
(*                                                                         *)
(* Times are counted: silence is the time since last_seen_at, no further   *)
(* than the threshold; left is the time until a code expires.              *)
(***************************************************************************)
EXTENDS Integers, Sequences, FiniteSets, SequencesExt

CONSTANTS
    Merchants,
    DeviceIds,     \* ids of devices, given in ascending order
    BindingIds,    \* ids of device_bindings
    Scanners,      \* workers that may run the offline job
    Threshold,     \* 90 seconds
    CodeLife,      \* 5 minutes
    ScanLimit,     \* 500
    MaxEpisode,    \* bound on offline_episode
    NoMerchant, NoDevice

ASSUME DeviceAssumption ==
    /\ Threshold \in Nat \ {0} /\ CodeLife \in Nat \ {0}
    /\ ScanLimit \in Nat \ {0} /\ MaxEpisode \in Nat
    /\ DeviceIds \subseteq Nat /\ BindingIds \subseteq Nat
    /\ NoMerchant \notin Merchants /\ NoDevice \notin DeviceIds

VARIABLES
    device,     \* [DeviceIds -> row of devices]
    binding,    \* [BindingIds -> row of device_bindings]
    heard,      \* the active devices heard from, by last_seen_at, oldest first
    banned,     \* merchants with banned_at set
    scan,       \* [Scanners -> devices the job has listed and not visited]
    notices,    \* notifications of kind device_offline, by dedupe key
    announced   \* active devices whose present silence has been alarmed

vars == <<device, binding, heard, banned, scan, notices, announced>>

DeviceRow ==
    [state : {"absent", "active", "revoked"},
     merchant : Merchants \cup {NoMerchant}, silence : 0 .. Threshold,
     episode : 0 .. MaxEpisode, notified : 0 .. MaxEpisode + 1]

BindingRow ==
    [merchant : Merchants \cup {NoMerchant}, confirmed : BOOLEAN,
     left : 0 .. CodeLife, device : DeviceIds \cup {NoDevice}]

Notice == [device : DeviceIds, episode : 1 .. MaxEpisode + 1]

TypeOK ==
    /\ device \in [DeviceIds -> DeviceRow]
    /\ binding \in [BindingIds -> BindingRow]
    /\ heard \in Seq(DeviceIds)
    /\ banned \subseteq Merchants
    /\ scan \in [Scanners -> Seq(DeviceIds)]
    /\ notices \subseteq Notice
    /\ announced \subseteq DeviceIds

NewDevice(m) ==
    [state |-> "active", merchant |-> m, silence |-> Threshold,
     episode |-> 0, notified |-> 0]

Init ==
    /\ device = [d \in DeviceIds |->
                    [NewDevice(NoMerchant) EXCEPT !.state = "absent"]]
    /\ binding = [b \in BindingIds |->
                    [merchant |-> NoMerchant, confirmed |-> FALSE,
                     left |-> 0, device |-> NoDevice]]
    /\ heard = <<>>
    /\ banned = {}
    /\ scan = [w \in Scanners |-> <<>>]
    /\ notices = {}
    /\ announced = {}

Active(d) == device[d].state = "active"
DevicesOf(m) == {d \in DeviceIds : Active(d) /\ device[d].merchant = m}
HasToldTime(d) == d \in ToSet(heard)                       \* ever_online
Without(S) == SelectSeq(heard, LAMBDA d : d \notin S)

-----------------------------------------------------------------------------
(* Binding.                                                                *)

(* Service.NewBinding.  Earlier codes stay valid.  The session check turns *)
(* banned merchants away, except for a request already past it.            *)
NewBinding(b, m, replace) ==
    /\ binding[b].merchant = NoMerchant
    /\ \A c \in BindingIds : c < b => binding[c].merchant # NoMerchant
    /\ DevicesOf(m) # {} => replace
    /\ binding' = [binding EXCEPT ![b] =
                      [merchant |-> m, confirmed |-> replace,
                       left |-> CodeLife, device |-> NoDevice]]
    /\ UNCHANGED <<device, heard, banned, scan, notices, announced>>

(* The devices in S get revoked_at.                                        *)
Revoked(rows, S) ==
    [d \in DeviceIds |-> IF d \in S THEN [rows[d] EXCEPT !.state = "revoked"]
                                    ELSE rows[d]]

(* Mutant of Redeemable: consumed_at is not looked at.                     *)
RedeemableTwice(b) ==
    /\ binding[b].merchant # NoMerchant
    /\ binding[b].left > 0
    /\ binding[b].merchant \notin banned
    /\ DevicesOf(binding[b].merchant) # {} => binding[b].confirmed

(* Service.Redeem: the phone shows the code; a device bound before goes.   *)
Redeemable(b) ==
    /\ binding[b].merchant # NoMerchant
    /\ binding[b].device = NoDevice
    /\ binding[b].left > 0
    /\ binding[b].merchant \notin banned
    /\ DevicesOf(binding[b].merchant) # {} => binding[b].confirmed

Redeem(b, d) ==
    LET m == binding[b].merchant
        old == DevicesOf(m)
    IN  /\ Redeemable(b)
        /\ device[d].state = "absent"
        /\ \A e \in DeviceIds : e < d => device[e].state # "absent"
        /\ device' = [Revoked(device, old) EXCEPT ![d] = NewDevice(m)]
        /\ binding' = [binding EXCEPT ![b].device =
                          IF @ = NoDevice THEN d ELSE @]
        /\ heard' = Without(old)
        /\ announced' = announced \ old
        /\ UNCHANGED <<banned, scan, notices>>

(* Service.Revoke.                                                         *)
Revoke(m) ==
    /\ DevicesOf(m) # {}
    /\ device' = Revoked(device, DevicesOf(m))
    /\ heard' = Without(DevicesOf(m))
    /\ announced' = announced \ DevicesOf(m)
    /\ UNCHANGED <<binding, banned, scan, notices>>

(* What a ban and its end mean here; bound devices keep their heartbeats.  *)
Ban(m) ==
    /\ m \notin banned
    /\ banned' = banned \cup {m}
    /\ UNCHANGED <<device, binding, heard, scan, notices, announced>>

Unban(m) ==
    /\ m \in banned
    /\ banned' = banned \ {m}
    /\ UNCHANGED <<device, binding, heard, scan, notices, announced>>

-----------------------------------------------------------------------------
(* Heartbeats and silence.                                                 *)

Silent(d) == HasToldTime(d) /\ device[d].silence >= Threshold

(* Mutant of Heartbeat: the return of a device opens no new episode.       *)
HeartbeatOnly(d) ==
    /\ Active(d)
    /\ device' = [device EXCEPT ![d].silence = 0]
    /\ heard' = Append(Without({d}), d)
    /\ announced' = announced \ {d}
    /\ UNCHANGED <<binding, banned, scan, notices>>

(* Service.Heartbeat; the device was authenticated before, and is checked  *)
(* again under the lock.                                                   *)
Heartbeat(d) ==
    /\ Active(d)
    /\ Silent(d) => device[d].episode < MaxEpisode          \* bound
    /\ device' = [device EXCEPT ![d].silence = 0,
                     ![d].episode = IF Silent(d) THEN @ + 1 ELSE @]
    /\ heard' = Append(Without({d}), d)
    /\ announced' = announced \ {d}
    /\ UNCHANGED <<binding, banned, scan, notices>>

(* What the merchant is shown (Service.Device).                            *)
Online(d) == HasToldTime(d) /\ device[d].silence < Threshold

NeedsOfflineNotification(d) == device[d].notified < device[d].episode + 1

(* The first query of DetectOffline, outside any transaction.              *)
Candidates ==
    LET due == SelectSeq(heard, LAMBDA d : Silent(d) /\ NeedsOfflineNotification(d))
    IN  SubSeq(due, 1, IF Len(due) < ScanLimit THEN Len(due) ELSE ScanLimit)

ScanBegin(w) ==
    /\ scan[w] = <<>>
    /\ Candidates # <<>>
    /\ scan' = [scan EXCEPT ![w] = Candidates]
    /\ UNCHANGED <<device, binding, heard, banned, notices, announced>>

(* Mutant of Found: the silence is not checked again.                      *)
FoundActive(d) == Active(d)

(* The transaction of one item selects the row again.  If the device has   *)
(* spoken or is revoked since, the query's error ends the whole job.       *)
Found(d) == Active(d) /\ Silent(d)

ScanMissing(w) ==
    /\ scan[w] # <<>>
    /\ ~ Found(Head(scan[w]))
    /\ scan' = [scan EXCEPT ![w] = <<>>]
    /\ UNCHANGED <<device, binding, heard, banned, notices, announced>>

ScanKnown(w) ==
    /\ scan[w] # <<>>
    /\ Found(Head(scan[w])) /\ ~ NeedsOfflineNotification(Head(scan[w]))
    /\ scan' = [scan EXCEPT ![w] = Tail(@)]
    /\ UNCHANGED <<device, binding, heard, banned, notices, announced>>

NoticeFor(d) == [device |-> d, episode |-> device[d].episode + 1]

ScanAlarm(w) ==
    /\ scan[w] # <<>>
    /\ LET d == Head(scan[w]) IN
          /\ Found(d) /\ NeedsOfflineNotification(d)
          /\ device' = [device EXCEPT ![d].notified = device[d].episode + 1]
          /\ notices' = notices \cup {NoticeFor(d)}
          /\ announced' = announced \cup {d}
    /\ scan' = [scan EXCEPT ![w] = Tail(@)]
    /\ UNCHANGED <<binding, heard, banned>>

(* The process dies or the transaction fails.                              *)
ScanCrash(w) ==
    /\ scan[w] # <<>>
    /\ scan' = [scan EXCEPT ![w] = <<>>]
    /\ UNCHANGED <<device, binding, heard, banned, notices, announced>>

Tick ==
    /\ device' = [d \in DeviceIds |->
                    [device[d] EXCEPT !.silence =
                        IF @ < Threshold THEN @ + 1 ELSE @]]
    /\ binding' = [b \in BindingIds |->
                    [binding[b] EXCEPT !.left = IF @ > 0 THEN @ - 1 ELSE 0]]
    /\ UNCHANGED <<heard, banned, scan, notices, announced>>

ScanVisit(w) == ScanMissing(w) \/ ScanKnown(w) \/ ScanAlarm(w)

Bindings ==
    \E m \in Merchants :
        \/ \E b \in BindingIds, replace \in BOOLEAN : NewBinding(b, m, replace)
        \/ Revoke(m) \/ Ban(m) \/ Unban(m)

Next ==
    \/ Tick \/ Bindings
    \/ \E d \in DeviceIds : Heartbeat(d) \/ \E b \in BindingIds : Redeem(b, d)
    \/ \E w \in Scanners : ScanBegin(w) \/ ScanVisit(w) \/ ScanCrash(w)

Spec == Init /\ [][Next]_vars

(* Time passes; the offline job runs every 15 seconds, and not every run   *)
(* of it is cut off before its first item.                                 *)
FairSpec ==
    /\ Spec
    /\ WF_vars(Tick)
    /\ \A w \in Scanners : WF_vars(ScanBegin(w)) /\ SF_vars(ScanVisit(w))

-----------------------------------------------------------------------------
(* Properties.                                                             *)

(* Every device is the one its code was consumed for: no code binds two,   *)
(* however requests repeat, expire or overtake each other.                 *)
EveryDeviceFromItsCode ==
    \A d \in DeviceIds : device[d].state # "absent" =>
        \E b \in BindingIds : /\ binding[b].device = d
                              /\ binding[b].merchant = device[d].merchant

(* A silence is alarmed once, and only while it lasts, although the scan   *)
(* works from a list made earlier and two workers may hold one.            *)
AlarmOncePerSilence ==
    [][\A d \in DeviceIds :
          d \in {n.device : n \in notices' \ notices} =>
              Active(d) /\ Silent(d) /\ d \notin announced]_vars

(* A phone that stays silent is alarmed, although the scan gives up at the *)
(* first device of its list that has come back.                            *)
SilenceAlarmed ==
    \A d \in DeviceIds :
        Active(d) /\ Silent(d) ~> ~ Active(d) \/ ~ Silent(d) \/ d \in announced
=============================================================================
