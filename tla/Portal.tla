------------------------------- MODULE Portal -------------------------------
(***************************************************************************)
(* What the console shows (internal/portal service.go and repository.go,   *)
(* internal/merchant console.go): lists read page by page while their rows *)
(* come and change, and announcements that pop up until they are read.     *)
(*                                                                         *)
(* A row's time is read from the clock before the transaction that inserts *)
(* it, so rows come out of order and share times; a page continues after   *)
(* the time and the id of the last row before it, newest first.            *)
(***************************************************************************)
EXTENDS Integers, Sequences, FiniteSets, SequencesExt, Functions

CONSTANTS
    Lists,          \* the lists read in this instance
    RowIds,         \* ids of a list's rows
    MaxTime,        \* bound on the clock
    Limits,         \* sizes of a page
    Readers,        \* merchants who read announcements
    Announcements,
    MaxRevision,    \* bound on announcements.revision
    Nothing

(* Assumed of the constants, by MCConsole. *)
PortalAssumption ==
    /\ RowIds \subseteq Nat \ {0} /\ MaxTime \in Nat
    /\ Limits \subseteq Nat \ {0} /\ MaxRevision \in Nat \ {0}
    /\ Nothing \notin Announcements

VARIABLES
    list,           \* the list that is read
    clock,
    rows,           \* [RowIds -> row of that list]
    walk,           \* the reader's way through the pages
    announcement,   \* [Announcements -> row of announcements]
    reads,          \* rows of announcement_reads
    marking,        \* [Readers -> MarkAnnouncementRead under way]
    acknowledged    \* answers "read" that readers got

portalVars == <<list, clock, rows, walk, announcement, reads, marking, acknowledged>>
listVars == <<list, clock, rows, walk>>
announcementVars == <<announcement, reads, marking, acknowledged>>

(* What a row's column may say, and what it may say next.                  *)
Column ==
    [orders |-> {"pending", "paid", "expired", "refunded"},
     receipts |-> {"unmatched", "matched"}, audits |-> {"success", "failure"},
     notifications |-> {"unread", "read"}, merchants |-> {"free", "banned"},
     announcements |-> {"published", "deleted"},
     purchases |-> {"pending", "paid", "expired", "cancelled", "refunded"}]

Turns ==
    {<<"pending", "paid">>, <<"pending", "expired">>, <<"expired", "paid">>,
     <<"pending", "cancelled">>, <<"paid", "refunded">>, <<"unmatched", "matched">>,
     <<"unread", "read">>, <<"free", "banned">>, <<"banned", "free">>,
     <<"published", "deleted">>}

Fresh == {"pending", "unmatched", "matched", "success", "failure", "unread",
          "free", "published"}

Everything == "everything"
NoRow == [there |-> FALSE, at |-> 0, says |-> "none"]
Unread == [state |-> "idle", filter |-> Everything, cursor |-> <<>>,
           seen |-> <<>>, owed |-> {}]
Unwritten == [there |-> FALSE, revision |-> 0, popup |-> FALSE]
NoMark == [announcement |-> Nothing, revision |-> 0, found |-> FALSE]

PortalTypeOK ==
    /\ list \in Lists /\ Lists \subseteq DOMAIN Column
    /\ clock \in 0 .. MaxTime
    /\ \A i \in RowIds : rows[i] = NoRow \/ /\ rows[i].at \in 0 .. clock
                                            /\ rows[i].says \in Column[list]
    /\ walk.state \in {"idle", "reading", "done"} /\ walk.owed \subseteq RowIds
    /\ Range(walk.seen) \subseteq RowIds
    /\ \A a \in Announcements : announcement[a].revision \in 0 .. MaxRevision
    /\ reads \subseteq Readers \X Announcements \X (1 .. MaxRevision)
    /\ reads \subseteq acknowledged

PortalInit ==
    /\ list \in Lists /\ clock = 0
    /\ rows = [i \in RowIds |-> NoRow]
    /\ walk = Unread
    /\ announcement = [a \in Announcements |-> Unwritten]
    /\ reads = {} /\ acknowledged = {}
    /\ marking = [m \in Readers |-> NoMark]

-----------------------------------------------------------------------------
(* Rows.                                                                   *)

Tick ==
    /\ clock < MaxTime                                          \* bound
    /\ clock' = clock + 1
    /\ UNCHANGED <<list, rows, walk, announcementVars>>

Insert(i, at, says) ==
    /\ rows[i] = NoRow /\ at <= clock
    /\ says \in Column[list] \cap Fresh
    /\ rows' = [rows EXCEPT ![i] = [there |-> TRUE, at |-> at, says |-> says]]
    /\ UNCHANGED <<list, clock, walk, announcementVars>>

(* The rows a query with the filter finds; a deleted announcement is none. *)
Matches(row, filter) ==
    /\ row.there /\ row.says # "deleted"
    /\ filter = Everything \/ row.says = filter

Turned(S, says) ==
    /\ rows' = [i \in RowIds |-> IF i \in S THEN [rows[i] EXCEPT !.says = says]
                                 ELSE rows[i]]
    /\ walk' = [walk EXCEPT !.owed = {i \in @ : Matches(rows'[i], walk.filter)}]
    /\ UNCHANGED <<list, clock, announcementVars>>

(* Other components' writes.                                               *)
Turn(i, says) ==
    /\ list # "notifications"
    /\ <<rows[i].says, says>> \in Turns
    /\ Turned({i}, says)

(* Service.MarkRead: some of the notifications, or all.                    *)
MarkRead(S) ==
    /\ list = "notifications" /\ S # {}
    /\ \A i \in S : rows[i].says = "unread"
    /\ Turned(S, "read")

-----------------------------------------------------------------------------
(* Pages.                                                                  *)

(* Mutant of Older: rows of the cursor's time are passed over.             *)
OlderByTime(i, cursor) == cursor = <<>> \/ rows[i].at < cursor[1]

(* (time, id) < (cursor's time, cursor's id), the cursor being signed.     *)
Older(i, cursor) ==
    cursor = <<>> \/ rows[i].at < cursor[1] \/ (rows[i].at = cursor[1] /\ i < cursor[2])

NewestFirst(i, j) ==
    rows[i].at > rows[j].at \/ (rows[i].at = rows[j].at /\ i > j)

(* The rows of S as ORDER BY lists them.                                   *)
Listed(S) ==
    CHOOSE found \in [1 .. Cardinality(S) -> S] :
        \A m, n \in 1 .. Cardinality(S) : m < n => NewestFirst(found[m], found[n])

Found(filter, cursor) ==
    {i \in RowIds : Matches(rows[i], filter) /\ Older(i, cursor)}

(* OrderRows, ReceiptRows, AuditRows: one row more than the page takes     *)
(* tells whether there is another page.                                    *)
RowsAfter(filter, cursor, limit) ==
    LET found == Listed(Found(filter, cursor))
    IN  IF Len(found) > limit THEN SubSeq(found, 1, limit + 1) ELSE found

Owed(filter) ==
    IF walk.state = "idle" THEN {i \in RowIds : Matches(rows[i], filter)}
    ELSE walk.owed

(* The reader asks for the first page, or the next with the same filter.   *)
Page(filter, limit) ==
    LET found == RowsAfter(filter, walk.cursor, limit)
        page == IF Len(found) > limit THEN Front(found) ELSE found
    IN  /\ walk.state # "done"
        /\ walk.state = "reading" => filter = walk.filter
        /\ walk' = [state |-> IF Len(found) > limit THEN "reading" ELSE "done",
                    filter |-> filter,
                    cursor |-> IF Len(found) > limit
                               THEN <<rows[Last(page)].at, Last(page)>> ELSE <<>>,
                    seen |-> walk.seen \o page,
                    owed |-> Owed(filter)]
        /\ UNCHANGED <<list, clock, rows, announcementVars>>

ListOrders(filter, limit) ==
    /\ list = "orders" /\ filter \in Column.orders \cup {Everything}
    /\ Page(filter, limit)

ListReceipts(filter, limit) ==
    /\ list = "receipts" /\ filter \in Column.receipts \cup {Everything}
    /\ Page(filter, limit)

ListAudits(filter, limit) ==
    /\ list = "audits" /\ filter \in Column.audits \cup {Everything}
    /\ Page(filter, limit)

ListNotifications(filter, limit) ==
    /\ list = "notifications" /\ filter \in {"unread", Everything}
    /\ Page(filter, limit)

ListAnnouncements(filter, limit) ==
    /\ list = "announcements" /\ filter = Everything
    /\ Page(filter, limit)

(* Service.ListPurchases of internal/subscription.                         *)
ListPurchases(filter, limit) ==
    /\ list = "purchases" /\ filter \in Column.purchases \cup {Everything}
    /\ Page(filter, limit)

ListConsole(filter, limit) ==
    /\ list = "merchants" /\ filter \in Column.merchants \cup {Everything}
    /\ Page(filter, limit)

(* Service.ExportOrders: every row, in one snapshot.                       *)
ExportOrders(filter) ==
    /\ list = "orders" /\ filter \in Column.orders \cup {Everything}
    /\ walk.state = "idle"
    /\ walk' = [walk EXCEPT !.state = "done", !.filter = filter,
                   !.seen = Listed(Found(filter, <<>>)),
                   !.owed = Owed(filter)]
    /\ UNCHANGED <<list, clock, rows, announcementVars>>

-----------------------------------------------------------------------------
(* Announcements.                                                          *)

(* Service.SaveAnnouncement: a new one, or a new revision of the one the   *)
(* editor saw, which everybody has to read again.                          *)
SaveAnnouncement(a, popup) ==
    /\ announcement[a].there \/ announcement[a].revision = 0
    /\ announcement[a].revision < MaxRevision                   \* bound
    /\ announcement' = [announcement EXCEPT ![a] =
          [there |-> TRUE, revision |-> @.revision + 1, popup |-> popup]]
    /\ reads' = {read \in reads : read[2] # a}
    /\ UNCHANGED <<listVars, marking, acknowledged>>

DeleteAnnouncement(a) ==
    /\ announcement[a].there
    /\ announcement' = [announcement EXCEPT ![a].there = FALSE]
    /\ UNCHANGED <<listVars, reads, marking, acknowledged>>

(* Service.MarkAnnouncementRead: the merchant saw a revision; the row is   *)
(* read without a lock, and the INSERT may come after its next revision.   *)
MarkBegin(m, a, revision) ==
    /\ marking[m] = NoMark
    /\ announcement[a].there /\ revision = announcement[a].revision
    /\ marking' = [marking EXCEPT ![m] =
          [announcement |-> a, revision |-> revision, found |-> TRUE]]
    /\ UNCHANGED <<listVars, announcement, reads, acknowledged>>

MarkAnnouncementRead(m) ==
    LET read == <<m, marking[m].announcement, marking[m].revision>>
    IN  /\ marking[m].found
        /\ reads' = reads \cup {read}
        /\ acknowledged' = acknowledged \cup {read}
        /\ marking' = [marking EXCEPT ![m] = NoMark]
        /\ UNCHANGED <<listVars, announcement>>

MarkFails(m) ==
    /\ marking[m].found
    /\ marking' = [marking EXCEPT ![m] = NoMark]
    /\ UNCHANGED <<listVars, announcement, reads, acknowledged>>

(* Mutant of PopupAnnouncements: any revision that was read will do.       *)
PopupOnce(m) ==
    {a \in Announcements :
        /\ announcement[a].there /\ announcement[a].popup
        /\ \A revision \in 1 .. MaxRevision : <<m, a, revision>> \notin reads}

(* The announcements that ListNotifications adds to a merchant's page.     *)
PopupAnnouncements(m) ==
    {a \in Announcements :
        /\ announcement[a].there /\ announcement[a].popup
        /\ <<m, a, announcement[a].revision>> \notin reads}

-----------------------------------------------------------------------------
ListNext ==
    \/ Tick
    \/ \E i \in RowIds, says \in Column[list] :
          Turn(i, says) \/ \E at \in 0 .. MaxTime : Insert(i, at, says)
    \/ \E S \in SUBSET RowIds : MarkRead(S)
    \/ \E filter \in Column[list] \cup {Everything} :
          \/ ExportOrders(filter)
          \/ \E limit \in Limits :
                \/ ListOrders(filter, limit) \/ ListReceipts(filter, limit)
                \/ ListAudits(filter, limit) \/ ListNotifications(filter, limit)
                \/ ListAnnouncements(filter, limit) \/ ListConsole(filter, limit)
                \/ ListPurchases(filter, limit)

AnnouncementNext ==
    \/ \E a \in Announcements :
          \/ DeleteAnnouncement(a)
          \/ \E popup \in BOOLEAN : SaveAnnouncement(a, popup)
          \/ \E m \in Readers, revision \in 1 .. MaxRevision : MarkBegin(m, a, revision)
    \/ \E m \in Readers : MarkAnnouncementRead(m) \/ MarkFails(m)

-----------------------------------------------------------------------------
(* Properties.                                                             *)

(* Whoever turned all the pages of a list, in pages of whatever sizes, saw *)
(* every row that was there at the first page and fitted the filter all    *)
(* the while, and none twice, although rows came, changed and vanished in  *)
(* between and share their times.                                          *)
PagesComplete ==
    walk.state = "done" =>
        /\ walk.owed \subseteq Range(walk.seen)
        /\ IsInjective(walk.seen)

(* An announcement pops up for a merchant exactly until the merchant was   *)
(* told that its present revision is marked: marks that come late, of the  *)
(* revision before, neither hide the new one nor are missed.               *)
ShownUntilRead ==
    \A m \in Readers, a \in Announcements :
        a \in PopupAnnouncements(m) <=>
            /\ announcement[a].there /\ announcement[a].popup
            /\ <<m, a, announcement[a].revision>> \notin acknowledged
=============================================================================
