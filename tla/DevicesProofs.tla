---------------------------- MODULE DevicesProofs ----------------------------
(***************************************************************************)
(* Proofs about Devices, for any number of merchants, phones, codes and    *)
(* scanning workers, any threshold, code life and length of the scan.      *)
(***************************************************************************)
EXTENDS Devices, TLAPS

-----------------------------------------------------------------------------
(* The rows of devices and device_bindings are well typed.  The sequences  *)
(* heard and scan play no part: what a visit does is decided by the row it *)
(* reads again, whatever the list it works from holds.                     *)

RowsTyped ==
    /\ device \in [DeviceIds -> DeviceRow]
    /\ binding \in [BindingIds -> BindingRow]

LEMMA NewDeviceRow ==
    ASSUME NEW m \in Merchants \cup {NoMerchant}
    PROVE  /\ NewDevice(m) \in DeviceRow
           /\ [NewDevice(m) EXCEPT !.state = "absent"] \in DeviceRow
BY DeviceAssumption DEF NewDevice, DeviceRow

LEMMA RevokedRows ==
    ASSUME RowsTyped, NEW S
    PROVE  /\ Revoked(device, S) \in [DeviceIds -> DeviceRow]
           /\ \A d \in DeviceIds :
                 /\ Revoked(device, S)[d].merchant = device[d].merchant
                 /\ Revoked(device, S)[d].episode = device[d].episode
                 /\ Revoked(device, S)[d].notified = device[d].notified
                 /\ Revoked(device, S)[d].state =
                       IF d \in S THEN "revoked" ELSE device[d].state
<1>1. ASSUME NEW d \in DeviceIds
      PROVE  /\ device[d] \in DeviceRow
             /\ [device[d] EXCEPT !.state = "revoked"] \in DeviceRow
  BY DEF RowsTyped, DeviceRow
<1>2. Revoked(device, S) \in [DeviceIds -> DeviceRow]
  BY <1>1 DEF Revoked
<1>3. ASSUME NEW d \in DeviceIds
      PROVE  /\ Revoked(device, S)[d].merchant = device[d].merchant
             /\ Revoked(device, S)[d].episode = device[d].episode
             /\ Revoked(device, S)[d].notified = device[d].notified
             /\ Revoked(device, S)[d].state =
                   IF d \in S THEN "revoked" ELSE device[d].state
  BY <1>1 DEF Revoked, DeviceRow
<1> QED BY <1>2, <1>3

(* What a redemption does to the two tables.                               *)
LEMMA RedeemRows ==
    ASSUME RowsTyped, NEW b \in BindingIds, NEW d \in DeviceIds, Redeem(b, d)
    PROVE  LET m == binding[b].merchant IN
           /\ m \in Merchants /\ binding[b].device = NoDevice
           /\ device[d].state = "absent"
           /\ device'[d] = NewDevice(m)
           /\ binding'[b].device = d /\ binding'[b].merchant = m
           /\ \A e \in DeviceIds \ {d} : device'[e] = Revoked(device, DevicesOf(m))[e]
           /\ \A c \in BindingIds \ {b} : binding'[c] = binding[c]
           /\ RowsTyped'
<1> DEFINE m == binding[b].merchant
           row == [binding[b] EXCEPT !.device = d]
<1>1. binding[b] \in BindingRow
  BY DEF RowsTyped
<1>2. m \in Merchants /\ binding[b].device = NoDevice /\ device[d].state = "absent"
  BY <1>1 DEF Redeem, Redeemable, BindingRow
<1>3. row \in BindingRow /\ row.device = d /\ row.merchant = m
  BY <1>1 DEF BindingRow
<1>4. binding' = [binding EXCEPT ![b] = row]
  BY <1>2 DEF Redeem
<1>5. device' = [Revoked(device, DevicesOf(m)) EXCEPT ![d] = NewDevice(m)]
  BY DEF Redeem
<1> HIDE DEF m, row
<1>6. /\ Revoked(device, DevicesOf(m)) \in [DeviceIds -> DeviceRow]
      /\ NewDevice(m) \in DeviceRow
  BY <1>2, RevokedRows, NewDeviceRow
<1>7. /\ device'[d] = NewDevice(m)
      /\ \A e \in DeviceIds \ {d} : device'[e] = Revoked(device, DevicesOf(m))[e]
      /\ device' \in [DeviceIds -> DeviceRow]
  BY <1>5, <1>6
<1>8. /\ binding'[b] = row /\ \A c \in BindingIds \ {b} : binding'[c] = binding[c]
      /\ binding' \in [BindingIds -> BindingRow]
  BY <1>3, <1>4 DEF RowsTyped
<1> QED BY <1>2, <1>3, <1>7, <1>8 DEF RowsTyped, m

(* Time changes the counters only.                                         *)
LEMMA TickRows ==
    ASSUME RowsTyped, Tick
    PROVE  /\ RowsTyped'
           /\ \A d \in DeviceIds :
                 /\ device'[d].state = device[d].state
                 /\ device'[d].merchant = device[d].merchant
                 /\ device'[d].episode = device[d].episode
                 /\ device'[d].notified = device[d].notified
           /\ \A b \in BindingIds :
                 /\ binding'[b].merchant = binding[b].merchant
                 /\ binding'[b].device = binding[b].device
<1>1. ASSUME NEW d \in DeviceIds
      PROVE  /\ device'[d] \in DeviceRow
             /\ device'[d].state = device[d].state
             /\ device'[d].merchant = device[d].merchant
             /\ device'[d].episode = device[d].episode
             /\ device'[d].notified = device[d].notified
  <2> DEFINE s == IF device[d].silence < Threshold THEN device[d].silence + 1
                                                   ELSE device[d].silence
  <2>1. device[d] \in DeviceRow
    BY DEF RowsTyped
  <2>2. s \in 0 .. Threshold
    BY <2>1, DeviceAssumption DEF DeviceRow
  <2>3. device'[d] = [device[d] EXCEPT !.silence = s]
    BY DEF Tick
  <2> HIDE DEF s
  <2> QED BY <2>1, <2>2, <2>3 DEF DeviceRow
<1>2. ASSUME NEW b \in BindingIds
      PROVE  /\ binding'[b] \in BindingRow
             /\ binding'[b].merchant = binding[b].merchant
             /\ binding'[b].device = binding[b].device
  <2> DEFINE n == IF binding[b].left > 0 THEN binding[b].left - 1 ELSE 0
  <2>1. binding[b] \in BindingRow
    BY DEF RowsTyped
  <2>2. n \in 0 .. CodeLife
    BY <2>1, DeviceAssumption DEF BindingRow
  <2>3. binding'[b] = [binding[b] EXCEPT !.left = n]
    BY DEF Tick
  <2> HIDE DEF n
  <2> QED BY <2>1, <2>2, <2>3 DEF BindingRow
<1>3. RowsTyped'
  BY <1>1, <1>2 DEF Tick, RowsTyped
<1> QED BY <1>1, <1>2, <1>3

(* A heartbeat changes one row, in its silence and perhaps its episode.    *)
LEMMA HeartbeatRows ==
    ASSUME RowsTyped, NEW d \in DeviceIds, Heartbeat(d)
    PROVE  /\ RowsTyped'
           /\ device'[d].state = device[d].state
           /\ device'[d].merchant = device[d].merchant
           /\ \A e \in DeviceIds \ {d} : device'[e] = device[e]
           /\ binding' = binding /\ announced' = announced \ {d}
<1> DEFINE n == IF Silent(d) THEN device[d].episode + 1 ELSE device[d].episode
           row == [device[d] EXCEPT !.silence = 0, !.episode = n]
<1>1. device[d] \in DeviceRow
  BY DEF RowsTyped
<1>2. n \in 0 .. MaxEpisode
  BY <1>1, DeviceAssumption DEF Heartbeat, DeviceRow
<1>3. device' = [device EXCEPT ![d] = row]
  BY DEF Heartbeat, RowsTyped
<1>4. /\ row \in DeviceRow /\ row.state = device[d].state
      /\ row.merchant = device[d].merchant
  <2>1. 0 \in 0 .. Threshold
    BY DeviceAssumption
  <2>2. ASSUME NEW x \in 0 .. MaxEpisode, NEW old \in DeviceRow
        PROVE  LET new == [old EXCEPT !.silence = 0, !.episode = x]
               IN  /\ new \in DeviceRow /\ new.state = old.state
                   /\ new.merchant = old.merchant
    BY <2>1 DEF DeviceRow
  <2> HIDE DEF n
  <2> QED BY <1>1, <1>2, <2>2
<1> HIDE DEF row
<1> QED BY <1>3, <1>4 DEF Heartbeat, RowsTyped

(* An alarm changes one row, in what has been notified.                    *)
LEMMA AlarmRows ==
    ASSUME RowsTyped, NEW w \in Scanners, ScanAlarm(w)
    PROVE  /\ RowsTyped'
           /\ \A e \in DeviceIds :
                 /\ device'[e].state = device[e].state
                 /\ device'[e].merchant = device[e].merchant
                 /\ device'[e].episode = device[e].episode
                 /\ device'[e].notified =
                       IF e = Head(scan[w]) THEN device[e].episode + 1
                                            ELSE device[e].notified
           /\ binding' = binding
<1>1. ASSUME NEW e \in DeviceIds
      PROVE  /\ device'[e] \in DeviceRow
             /\ device'[e].state = device[e].state
             /\ device'[e].merchant = device[e].merchant
             /\ device'[e].episode = device[e].episode
             /\ device'[e].notified =
                   IF e = Head(scan[w]) THEN device[e].episode + 1
                                        ELSE device[e].notified
  <2>1. device[e] \in DeviceRow
    BY DEF RowsTyped
  <2>2. device[e].episode + 1 \in 0 .. MaxEpisode + 1
    BY <2>1, DeviceAssumption DEF DeviceRow
  <2>3. device'[e] = IF e = Head(scan[w])
                     THEN [device[e] EXCEPT !.notified = device[e].episode + 1]
                     ELSE device[e]
    BY DEF ScanAlarm, RowsTyped
  <2> QED BY <2>1, <2>2, <2>3 DEF DeviceRow
<1>2. device' = [e \in DeviceIds |-> device'[e]]
  BY DEF ScanAlarm, RowsTyped
<1>3. binding' = binding
  BY DEF ScanAlarm
<1> QED BY <1>1, <1>2, <1>3 DEF RowsTyped

LEMMA NewBindingRows ==
    ASSUME RowsTyped, NEW b \in BindingIds, NEW m \in Merchants,
           NEW replace \in BOOLEAN, NewBinding(b, m, replace)
    PROVE  /\ RowsTyped'
           /\ binding[b].merchant = NoMerchant
           /\ binding'[b].merchant = m /\ binding'[b].device = NoDevice
           /\ \A c \in BindingIds \ {b} : binding'[c] = binding[c]
           /\ device' = device
<1> DEFINE row == [merchant |-> m, confirmed |-> replace, left |-> CodeLife,
                   device |-> NoDevice]
<1>1. row \in BindingRow
  BY DeviceAssumption DEF BindingRow
<1>2. binding' = [binding EXCEPT ![b] = row]
  BY DEF NewBinding
<1>3. /\ binding'[b] = row /\ \A c \in BindingIds \ {b} : binding'[c] = binding[c]
      /\ binding' \in [BindingIds -> BindingRow]
  <2> HIDE DEF row
  <2> QED BY <1>1, <1>2 DEF RowsTyped
<1> QED BY <1>3 DEF NewBinding, RowsTyped

-----------------------------------------------------------------------------
(* The four ways in which a step touches the tables: nobody is bound or    *)
(* revoked, a code is issued, a code is redeemed, a merchant's device is   *)
(* revoked.                                                                *)

Quiet ==
    /\ \A d \in DeviceIds : /\ device'[d].state = device[d].state
                            /\ device'[d].merchant = device[d].merchant
    /\ \A b \in BindingIds : /\ binding'[b].merchant = binding[b].merchant
                             /\ binding'[b].device = binding[b].device

LEMMA StepKinds ==
    ASSUME RowsTyped, [Next]_vars
    PROVE  \/ Quiet
           \/ \E m \in Merchants, b \in BindingIds, replace \in BOOLEAN :
                 NewBinding(b, m, replace)
           \/ \E b \in BindingIds, d \in DeviceIds : Redeem(b, d)
           \/ \E m \in Merchants : Revoke(m)
<1>1. UNCHANGED <<device, binding>> => Quiet
  BY DEF Quiet
<1>2. Tick => Quiet
  BY TickRows DEF Quiet
<1>3. ASSUME NEW d \in DeviceIds, Heartbeat(d) PROVE Quiet
  <2>1. /\ device'[d].state = device[d].state
        /\ device'[d].merchant = device[d].merchant
        /\ \A e \in DeviceIds \ {d} : device'[e] = device[e]
        /\ binding' = binding
    BY <1>3, HeartbeatRows
  <2> QED BY <2>1 DEF Quiet
<1>4. ASSUME NEW w \in Scanners, ScanAlarm(w) PROVE Quiet
  BY <1>4, AlarmRows DEF Quiet
<1>5. ASSUME NEW m \in Merchants, Ban(m) \/ Unban(m) PROVE Quiet
  BY <1>1, <1>5 DEF Ban, Unban
<1>6. ASSUME NEW w \in Scanners, ScanBegin(w) \/ ScanVisit(w) \/ ScanCrash(w)
      PROVE  Quiet
  BY <1>1, <1>4, <1>6 DEF ScanBegin, ScanVisit, ScanMissing, ScanKnown, ScanCrash
<1>7. UNCHANGED vars => Quiet
  BY <1>1 DEF vars
<1> QED BY <1>2, <1>3, <1>5, <1>6, <1>7 DEF Next, Bindings

LEMMA InitRows == Init => RowsTyped
<1> SUFFICES ASSUME Init PROVE RowsTyped
  OBVIOUS
<1>1. [NewDevice(NoMerchant) EXCEPT !.state = "absent"] \in DeviceRow
  BY NewDeviceRow
<1>2. [merchant |-> NoMerchant, confirmed |-> FALSE, left |-> 0, device |-> NoDevice]
        \in BindingRow
  BY DeviceAssumption DEF BindingRow
<1> QED BY <1>1, <1>2 DEF Init, RowsTyped

LEMMA RevokeRows ==
    ASSUME RowsTyped, NEW m \in Merchants, Revoke(m)
    PROVE  /\ RowsTyped'
           /\ binding' = binding
           /\ \A d \in DeviceIds :
                 /\ device'[d].merchant = device[d].merchant
                 /\ device'[d].episode = device[d].episode
                 /\ device'[d].notified = device[d].notified
                 /\ device'[d].state = IF d \in DevicesOf(m) THEN "revoked"
                                                             ELSE device[d].state
BY RevokedRows DEF Revoke, RowsTyped

LEMMA StepRows == RowsTyped /\ [Next]_vars => RowsTyped'
<1> SUFFICES ASSUME RowsTyped, [Next]_vars PROVE RowsTyped'
  OBVIOUS
<1>1. UNCHANGED <<device, binding>> => RowsTyped'
  BY DEF RowsTyped
<1>2. ASSUME NEW m \in Merchants,
             \/ \E b \in BindingIds, replace \in BOOLEAN : NewBinding(b, m, replace)
             \/ Revoke(m) \/ Ban(m) \/ Unban(m)
      PROVE  RowsTyped'
  BY <1>1, <1>2, NewBindingRows, RevokeRows DEF Ban, Unban
<1>3. ASSUME NEW d \in DeviceIds, Heartbeat(d) \/ \E b \in BindingIds : Redeem(b, d)
      PROVE  RowsTyped'
  BY <1>3, HeartbeatRows, RedeemRows
<1>4. ASSUME NEW w \in Scanners, ScanBegin(w) \/ ScanVisit(w) \/ ScanCrash(w)
      PROVE  RowsTyped'
  BY <1>1, <1>4, AlarmRows
     DEF ScanBegin, ScanVisit, ScanMissing, ScanKnown, ScanCrash
<1> QED BY <1>1, <1>2, <1>3, <1>4, TickRows DEF Next, Bindings, vars

(* The tables hold well-typed rows: no counter of silence, episode or code *)
(* life leaves its range and no row names a device or merchant that is not *)
(* one.                                                                    *)
THEOREM DeviceRowsTyped == Spec => []RowsTyped
BY InitRows, StepRows, PTL DEF Spec

-----------------------------------------------------------------------------
(* Codes.  A code that was not issued has bound nothing.                   *)

CodesUnused ==
    \A b \in BindingIds :
        binding[b].merchant = NoMerchant => binding[b].device = NoDevice

Origin == CodesUnused /\ EveryDeviceFromItsCode

LEMMA InitOrigin == Init => Origin
BY DEF Init, Origin, CodesUnused, EveryDeviceFromItsCode, NewDevice

LEMMA StepOrigin == RowsTyped /\ Origin /\ [Next]_vars => Origin'
<1> SUFFICES ASSUME RowsTyped, Origin, [Next]_vars PROVE Origin'
  OBVIOUS
<1> USE DEF Origin
<1>1. CASE Quiet
  BY <1>1 DEF Quiet, CodesUnused, EveryDeviceFromItsCode
<1>2. ASSUME NEW m \in Merchants, NEW b \in BindingIds, NEW replace \in BOOLEAN,
             NewBinding(b, m, replace)
      PROVE  Origin'
  <2>1. /\ binding[b].device = NoDevice
        /\ binding'[b].merchant = m /\ binding'[b].device = NoDevice
        /\ \A c \in BindingIds \ {b} : binding'[c] = binding[c]
        /\ device' = device
    BY <1>2, NewBindingRows DEF CodesUnused
  <2>2. CodesUnused'
    BY <2>1 DEF CodesUnused
  <2>3. EveryDeviceFromItsCode'
    BY <2>1, DeviceAssumption DEF EveryDeviceFromItsCode
  <2> QED BY <2>2, <2>3
<1>3. ASSUME NEW b \in BindingIds, NEW d \in DeviceIds, Redeem(b, d)
      PROVE  Origin'
  <2> DEFINE m == binding[b].merchant
  <2>1. /\ m \in Merchants /\ binding[b].device = NoDevice
        /\ device'[d] = NewDevice(m)
        /\ binding'[b].device = d /\ binding'[b].merchant = m
        /\ \A e \in DeviceIds \ {d} : device'[e] = Revoked(device, DevicesOf(m))[e]
        /\ \A c \in BindingIds \ {b} : binding'[c] = binding[c]
    BY <1>3, RedeemRows
  <2> HIDE DEF m
  <2>2. CodesUnused'
    BY <2>1, DeviceAssumption DEF CodesUnused
  <2>3. \A e \in DeviceIds :
           /\ Revoked(device, DevicesOf(m))[e].merchant = device[e].merchant
           /\ Revoked(device, DevicesOf(m))[e].state =
                 IF e \in DevicesOf(m) THEN "revoked" ELSE device[e].state
    BY RevokedRows
  <2>4. ASSUME NEW e \in DeviceIds, device'[e].state # "absent"
        PROVE  \E c \in BindingIds : /\ binding'[c].device = e
                                     /\ binding'[c].merchant = device'[e].merchant
    <3>1. CASE e = d
      <4>1. device'[e].merchant = m
        BY <2>1, <3>1 DEF NewDevice
      <4> QED BY <2>1, <3>1, <4>1
    <3>2. CASE e # d
      <4>1. /\ device'[e].merchant = device[e].merchant
            /\ device[e].state # "absent"
        BY <2>1, <2>4, <2>3, <3>2 DEF DevicesOf, Active
      <4>2. PICK c \in BindingIds : /\ binding[c].device = e
                                    /\ binding[c].merchant = device[e].merchant
        BY <4>1 DEF EveryDeviceFromItsCode
      <4>3. c # b
        BY <2>1, <4>2, DeviceAssumption
      <4> QED BY <2>1, <4>1, <4>2, <4>3
    <3> QED BY <3>1, <3>2
  <2> QED BY <2>2, <2>4 DEF EveryDeviceFromItsCode
<1>4. ASSUME NEW m \in Merchants, Revoke(m) PROVE Origin'
  <2>1. binding' = binding
    BY <1>4, RevokeRows
  <2>2. \A d \in DeviceIds : /\ device'[d].merchant = device[d].merchant
                             /\ device'[d].state # "absent" =>
                                   device[d].state # "absent"
    BY <1>4, RevokeRows DEF DevicesOf, Active
  <2> QED BY <2>1, <2>2 DEF CodesUnused, EveryDeviceFromItsCode
<1> QED BY <1>1, <1>2, <1>3, <1>4, StepKinds

(* Every phone that was ever bound is the one its merchant's code was      *)
(* consumed for, however many codes are issued, repeated or expire.        *)
THEOREM DevicesFromCodes == Spec => []EveryDeviceFromItsCode
<1>1. Origin => EveryDeviceFromItsCode
  BY DEF Origin
<1> QED BY <1>1, InitRows, StepRows, InitOrigin, StepOrigin, PTL DEF Spec

-----------------------------------------------------------------------------
(* A merchant's receipts come from one phone: binding a second one revokes *)
(* the first in the same transaction, although earlier codes stay valid.   *)
OnePhone ==
    \A d, e \in DeviceIds :
        /\ Active(d) /\ Active(e) /\ device[d].merchant = device[e].merchant
        => d = e

LEMMA InitPhone == Init => OnePhone
BY DEF Init, OnePhone, Active, NewDevice

LEMMA StepPhone == RowsTyped /\ OnePhone /\ [Next]_vars => OnePhone'
<1> SUFFICES ASSUME RowsTyped, OnePhone, [Next]_vars PROVE OnePhone'
  OBVIOUS
<1>1. CASE Quiet
  BY <1>1 DEF Quiet, OnePhone, Active
<1>2. ASSUME NEW m \in Merchants, NEW b \in BindingIds, NEW replace \in BOOLEAN,
             NewBinding(b, m, replace)
      PROVE  OnePhone'
  BY <1>2, NewBindingRows DEF OnePhone, Active
<1>3. ASSUME NEW b \in BindingIds, NEW d \in DeviceIds, Redeem(b, d)
      PROVE  OnePhone'
  <2> DEFINE m == binding[b].merchant
  <2>1. /\ device'[d] = NewDevice(m)
        /\ \A e \in DeviceIds \ {d} : device'[e] = Revoked(device, DevicesOf(m))[e]
    BY <1>3, RedeemRows
  <2> HIDE DEF m
  <2>2. device'[d].merchant = m
    BY <2>1 DEF NewDevice
  <2>3. \A e \in DeviceIds :
           /\ Revoked(device, DevicesOf(m))[e].merchant = device[e].merchant
           /\ Revoked(device, DevicesOf(m))[e].state =
                 IF e \in DevicesOf(m) THEN "revoked" ELSE device[e].state
    BY RevokedRows
  <2>4. ASSUME NEW e \in DeviceIds \ {d}, device'[e].state = "active"
        PROVE  /\ device[e].state = "active"
               /\ device'[e].merchant = device[e].merchant
               /\ device[e].merchant # m
    BY <2>1, <2>4, <2>3 DEF DevicesOf, Active
  <2> QED BY <2>2, <2>4 DEF OnePhone, Active
<1>4. ASSUME NEW m \in Merchants, Revoke(m) PROVE OnePhone'
  BY <1>4, RevokeRows DEF OnePhone, Active
<1> QED BY <1>1, <1>2, <1>3, <1>4, StepKinds

(* No merchant ever has two active phones.                                 *)
THEOREM OnePhonePerMerchant == Spec => []OnePhone
BY InitRows, StepRows, InitPhone, StepPhone, PTL DEF Spec

-----------------------------------------------------------------------------
(* Alarms.  What has been announced is on an active phone, and its episode *)
(* has been notified: no list of a scan, however old, alarms it again.     *)

AnnouncedNotified ==
    \A d \in DeviceIds :
        d \in announced => Active(d) /\ ~ NeedsOfflineNotification(d)

LEMMA InitAnnounced == Init => AnnouncedNotified
BY DEF Init, AnnouncedNotified

LEMMA StepAnnounced ==
    RowsTyped /\ AnnouncedNotified /\ [Next]_vars => AnnouncedNotified'
<1> SUFFICES ASSUME RowsTyped, AnnouncedNotified, [Next]_vars
             PROVE  AnnouncedNotified'
  OBVIOUS
<1> USE DEF AnnouncedNotified, Active, NeedsOfflineNotification
<1>1. ASSUME UNCHANGED <<device, announced>> PROVE AnnouncedNotified'
  BY <1>1
<1>2. Tick => AnnouncedNotified'
  BY TickRows DEF Tick
<1>3. ASSUME NEW d \in DeviceIds, Heartbeat(d) PROVE AnnouncedNotified'
  <2>1. /\ \A e \in DeviceIds \ {d} : device'[e] = device[e]
        /\ announced' = announced \ {d}
    BY <1>3, HeartbeatRows
  <2> QED BY <2>1
<1>4. ASSUME NEW w \in Scanners, ScanAlarm(w) PROVE AnnouncedNotified'
  <2>1. announced' = announced \cup {Head(scan[w])} /\ Found(Head(scan[w]))
    BY <1>4 DEF ScanAlarm
  <2>2. \A e \in DeviceIds :
           /\ device'[e].state = device[e].state
           /\ device'[e].episode = device[e].episode
           /\ device'[e].notified =
                 IF e = Head(scan[w]) THEN device[e].episode + 1
                                      ELSE device[e].notified
           /\ device[e].episode \in Nat
    BY <1>4, AlarmRows, DeviceAssumption DEF RowsTyped, DeviceRow
  <2> QED BY <2>1, <2>2 DEF Found
<1>5. ASSUME NEW b \in BindingIds, NEW d \in DeviceIds, Redeem(b, d)
      PROVE  AnnouncedNotified'
  <2> DEFINE old == DevicesOf(binding[b].merchant)
  <2>1. /\ \A e \in DeviceIds \ {d} : device'[e] = Revoked(device, old)[e]
        /\ device[d].state = "absent" /\ announced' = announced \ old
    BY <1>5, RedeemRows DEF Redeem
  <2> HIDE DEF old
  <2>2. d \notin announced'
    BY <2>1
  <2>3. ASSUME NEW e \in DeviceIds \ {d}, e \in announced'
        PROVE  /\ device'[e].state = device[e].state
               /\ device'[e].episode = device[e].episode
               /\ device'[e].notified = device[e].notified
    BY <2>1, <2>3, RevokedRows
  <2> QED BY <2>1, <2>2, <2>3
<1>6. ASSUME NEW m \in Merchants, Revoke(m) PROVE AnnouncedNotified'
  <2>1. announced' = announced \ DevicesOf(m)
    BY <1>6 DEF Revoke
  <2> QED BY <1>6, <2>1, RevokeRows
<1>7. ASSUME NEW m \in Merchants, NEW b \in BindingIds, NEW replace \in BOOLEAN,
             NewBinding(b, m, replace)
      PROVE  AnnouncedNotified'
  BY <1>1, <1>7 DEF NewBinding
<1>8. ASSUME NEW m \in Merchants, Ban(m) \/ Unban(m) PROVE AnnouncedNotified'
  BY <1>1, <1>8 DEF Ban, Unban
<1>9. ASSUME NEW w \in Scanners, ScanBegin(w) \/ ScanVisit(w) \/ ScanCrash(w)
      PROVE  AnnouncedNotified'
  BY <1>1, <1>4, <1>9 DEF ScanBegin, ScanVisit, ScanMissing, ScanKnown, ScanCrash
<1> QED BY <1>1, <1>2, <1>3, <1>5, <1>6, <1>7, <1>8, <1>9 DEF Next, Bindings, vars

(* No step files an alarm for a phone that is revoked, has been heard from *)
(* within the threshold, or has been alarmed for its present silence, with *)
(* any number of workers holding lists of any age.                         *)
THEOREM AlarmedOncePerSilence == Spec => AlarmOncePerSilence
<1>1. RowsTyped /\ AnnouncedNotified /\ [Next]_vars =>
         \A d \in DeviceIds :
            d \in {n.device : n \in notices' \ notices} =>
               Active(d) /\ Silent(d) /\ d \notin announced
  <2> SUFFICES ASSUME RowsTyped, AnnouncedNotified, [Next]_vars,
                      NEW n \in notices' \ notices, n.device \in DeviceIds
               PROVE  /\ Active(n.device) /\ Silent(n.device)
                      /\ n.device \notin announced
    OBVIOUS
  <2>1. PICK w \in Scanners : ScanAlarm(w)
    <3>1. ~ Tick /\ ~ UNCHANGED vars
      BY DEF Tick, vars
    <3>2. ~ Bindings
      BY DEF Bindings, NewBinding, Revoke, Ban, Unban
    <3>3. \A d \in DeviceIds : ~ Heartbeat(d) /\ \A b \in BindingIds : ~ Redeem(b, d)
      BY DEF Heartbeat, Redeem
    <3> QED BY <3>1, <3>2, <3>3
            DEF Next, ScanBegin, ScanVisit, ScanMissing, ScanKnown, ScanCrash
  <2>2. /\ n = NoticeFor(Head(scan[w]))
        /\ Found(Head(scan[w])) /\ NeedsOfflineNotification(Head(scan[w]))
    BY <2>1 DEF ScanAlarm
  <2>3. n.device = Head(scan[w])
    BY <2>2 DEF NoticeFor
  <2> QED BY <2>2, <2>3 DEF Found, AnnouncedNotified
<1> QED BY <1>1, InitRows, StepRows, InitAnnounced, StepAnnounced, PTL
        DEF Spec, AlarmOncePerSilence

=============================================================================
