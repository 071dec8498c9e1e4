# VanillaPay: a verification project

VanillaPay is a self-hosted collection platform: a merchant's own QR codes
receive the money, a phone reports each incoming transfer, and the only thing
that tells one payer from another is the amount.  An order therefore *reserves*
an amount on a channel of its merchant, the payer transfers exactly that
amount, and the receipt the phone reports is matched back to the order.  Paid
orders are announced to the merchant's server (callbacks), or, when a merchant
bought a plan from the platform, extend its subscription.

All state is in PostgreSQL.  Every operation is a transaction run by
`db.InTx`, which retries it at most three times on a serialisation failure or a
deadlock, and most transactions begin with `db.LockBusinessRows`: the settings
row, then the merchants' rows in ascending order.  Periodic work (expiry,
callback scan, offline scan, mail) runs as River jobs every 15 seconds.

## Inventory

| component | source (`src/internal`) | state | operations | correct when |
|---|---|---|---|---|
| Orders and reservations | `payment/service.go`, `amount.go`, `eligibility.go` | `orders`, `amount_reservations` | Create, CreateSubscriptionOrderTx, SelectChannel, Query, ExpireBatch, CancelSubscriptionOrderTx, MarkPaidTx, Supplement | an amount belongs to one order at a time and stays with it while anybody may pay it; an order settles once, in time, with its hand-off |
| Receipt ingestion | `device/ingest.go` | `receipts` | Ingest | a receipt settles the order it was paid for, or none, however it is reported |
| Refunds | `payment/service.go` | `refunds` | RequestRefund, ResolveRefund, MarkRefunded | requests follow the order's status |
| Callbacks | `payment/callback.go`, `jobs/callback.go` | `callback_events`, `callback_attempts`, River jobs | ProcessCallback, ReplayCallback, scan | one attempt at a time, a confirmation is final, retries go on to the end |
| Plans, purchases, subscriptions | `subscription/service.go` | `plans`, `purchases`, `plan_purchase_counters`, `subscription_grants`, `subscriptions` | SavePlan, DeletePlan, Purchase, CancelPurchase, PaidTx, RefundedTx, Grant, CloseExpiredPurchases | counters count, limits hold, the entitlement is what the live grants add up to |
| Merchants and bans | `merchant/service.go` | `merchants` | Create, Ban, Unban, keys, whitelist | a banned merchant collects and buys nothing |
| Devices | `device/binding.go`, `device/service.go` | `devices`, `device_bindings` | NewBinding, Redeem, Revoke, Heartbeat, DetectOffline | one device per code, one alarm per silence, no silence without one |
| Idempotency | `payment/idempotency.go` | `idempotency_records` | begin, record | a retried request takes effect once and is answered alike |
| Mail | `jobs/mail.go`, `mailer.go` | `mail_deliveries` | Send, deliverQueued | sent or tried four times, never sent again once it is marked sent |
| Identity | `auth/service.go`, `account.go` | `email_codes`, `auth_challenges`, `bootstrap`, `recovery_codes`, sessions | SendEmailCode, Register, ResetPassword, ChangeIdentity, Bootstrap, Login, VerifySecondFactor, SetupTOTP, ConfirmTOTP, DisableTOTP, console recovery | codes and challenges are used once, guesses are limited, one administrator |
| Settings | `settings/service.go` | `site_settings`, collection settings, legal revisions | UpdateGroup, SaveCollection, and ResetKey of `merchant` | nothing is overwritten unseen; merchants stay within the site's bounds; the billing key is the merchant's |
| Collection codes | `settings/media.go`, `service.go` | `media_assets`, files under DATA_DIR | UploadQR, SetQREnabled, QRSlots, OpenAsset | a payer who is told to pay sees the code; the page shows the slot as it is |
| Portal | `portal/service.go`, `repository.go`, `merchant/console.go` | `notifications`, `announcements`, `announcement_reads` | lists page by page, export, MarkRead, SaveAnnouncement, MarkAnnouncementRead | pages miss and repeat nothing; an announcement shows until it is read |
| Transactions and locks | `db/sqlc/tx.go` and whoever locks rows | locks on rows, held to the end of a transaction | InTx, LockBusinessRows, `SELECT ... FOR UPDATE` | only requests of the two sides of a purchase wait for each other in a circle, and what is committed is as if each had run alone |
| Protocols, shell, platform | `payment/v1.go`, `v2.go`, `httpx`, `platform`, `web` | little of their own | parsing, rendering, wiring | not modelled |

Interactions.  Creating, paying, expiring and refunding an order are calls of
`payment.Service`; ingestion (`device.Service.Ingest`) calls `MarkPaidTx` in
its own transaction; `MarkPaidTx` writes the first callback generation or calls
`subscription.PaidTx`, and `markRefundedTx` cancels callbacks or calls
`RefundedTx`, always inside the caller's transaction.  `merchant.Ban` reaches
into orders and purchases, and bound devices, subscription and QR codes decide
whether a merchant is eligible to collect.  Work is done *between* two
transactions in the callback worker (the HTTP request), the mail worker (the
mail server), the offline scan (a list made earlier), uploads (a file written
first) and wherever an attempt is counted on the pool before it is judged in a
transaction.  State is read before a lock and used after it: time stamps, the
revisions and versions shown to a person, the merchants to lock, challenges.
Those gaps, together with the periodic jobs, crashes, clocks that
disagree, and transactions that do not see each other's rows, are what makes the
system hard.  `PROJECT.json` lists each hazard with its line and its
properties.

## Modules

| module | models | extends |
|---|---|---|
| `Orders` | orders, reservations, receipts, refunds, the effect of bans on orders | |
| `OrderBook` | what orders and reservations promise, without tables | |
| `MCOrders`, `MCReceipts` | instances of `Orders`, of which the second has two in one run | `Orders` |
| `OrdersProofs` | proofs about `Orders`, and that it implements `OrderBook` | `Orders` |
| `Callbacks` | generations, attempts, leases, retries, the job queue | |
| `Retries` | replays of callbacks under idempotency keys | `Callbacks` |
| `MCCallbacks` | instances of `Callbacks` and `Retries` | `Retries` |
| `Subscriptions` | plans, purchases, counters, grants, entitlements | |
| `MCSubscriptions` | instances of `Subscriptions` | `Subscriptions` |
| `SubscriptionsProofs` | proofs about plans, counters, bills, requests, and that purchases live as `PurchaseLife` says | `Subscriptions` |
| `EntitlementProofs` | proofs about the dates of chains and what they entitle to | `SubscriptionsProofs` |
| `PurchaseLife` | what happens to one purchase and its bill, without rows or locks | |
| `PurchaseLocks`, `MCPurchaseLocks` | the row locks of the transactions that meet on one purchase; instances | |
| `PurchaseLocksProofs` | proofs about them, and that they implement `PurchaseLife` | `PurchaseLocks` |
| `Devices`, `MCDevices`, `DevicesProofs` | binding codes, devices, heartbeats, the offline scan; instances, proofs | |
| `Mail` | mail deliveries and their workers | |
| `MCDelivery` | instances of `Retries` and of `Mail` | `MCCallbacks` |
| `MCWorkers` | the instances of `MCDelivery` and one of `PurchaseLocks` | `MCDelivery`, `PurchaseLocks` |
| `DeliveryProofs` | proofs about `Callbacks`, `Retries` and `Mail` | `MCDelivery` |
| `Accounts` | merchants' accounts and the codes mailed to their owners | |
| `Sessions`, `MCSessions` | the administrator's initialization, login, second factor and recovery | |
| `Settings` | site settings under their locks, and what reconciles with them | |
| `Media`, `MCMedia` | one slot for a collection code, uploads, checkout pages | |
| `Portal` | lists by page, announcements | |
| `MCConsole` | instances of the last five | `Accounts` |
| `ConsoleProofs` | proofs about `Settings`, `Media`, lists and announcements | `MCConsole` |
| `IdentityProofs` | proofs about `Sessions` and `Accounts` | `MCConsole` |

`MCDelivery` has two instances of callbacks: one order that is replayed, and
(`page`) more orders than the scan looks at, each with one callback.
`MCDelivery`, `MCWorkers` and `MCConsole` put modules side by side that share no
variable: `part` says which of them a behaviour runs, the others keep their
initial state, and the numbers of states add up.  They also assume, of the constants,
what the instantiated modules need.

Unless a module says otherwise, one action is one transaction.
`LockBusinessRows` takes the merchants' rows first, so two transactions of one
merchant never overlap; where those locks are not the same for everybody, on a
purchase and its bill, `PurchaseLocks` takes the transactions apart again and
shows that they move both as one action does.  `Settings` models the locks on
the site's settings, because its transactions share and upgrade them;
`Accounts` and `Sessions` split their transactions, because part of them
happens on another connection or without locks.  A transaction that is refused and rolls back changes nothing and is no
action, unless something outside the database is left behind (a job's state, a
request that ends).  A repetition of a callback already recorded changes
nothing either and is a stutter.  "Mutant of" definitions next to the code's
are deliberate mistakes: each property is shown to notice one.

### Orders

State: `order`, `reservations`, `receipts` and `refund` are the tables;
`payments` are the transfers the payers made, as seen by the phone; `inflight`
are ingestion requests that read the clock and wait for the lock (`IngestBegin`
then `IngestMatch`, `IngestUnmatched` or `IngestRollback`); `outbox` is what
the transactions write for callbacks, purchases and notifications.  NULLs are
0 or the model values `NoChannel`, `NoOrder`.

Actions, by function: `Create`, `CreateSubscriptionOrder`, `SelectChannel`,
`ExpireBatch(o)` (one item of the job; the batch is a loop of transactions),
`Query` (expires an overdue order on the way), `CancelSubscriptionOrders`,
`Ban`/`Unban`, `Supplement`, `RequestRefund`, `RejectRefund`/`ApproveRefund`
(the two actions of `ResolveRefund`), `MarkRefunded`.  `AllocateAmount` is the
operator `Allocate`: the nearest free amount within the floating limit and the
site's limits.  The eligibility check (devices online, QR codes
present, whitelist) is any set of channels.  `SelectChannel` on an overdue order
has no effect: its UPDATE to expired is rolled back with the error.

What the attribution of receipts rests on, all of it outside the code:

- a payer transfers the amount shown, at most once per order, while the order
  is open or in the `Retention` (24 h) after its expiry;
- the phone's clock may be behind (`Lags`), not ahead of the server's;
- a transfer happens strictly between two operations: `Pay` moves the clock.

Without them the code cannot keep the promise: it sees only channel, amount
and time.  Transfers of an amount nobody was shown are left out, and so is a
receipt that repeats a provider's trade number under a new event (refused, no
change).

### Callbacks

State: `status` of the orders, `event` (a row per order and generation, with
its number of tries, the time to its next attempt, `wait`, and the age of its
last claim), `inflight` (attempts between the claim's transaction and the
outcome's) and `job` (the order's River job).  Times are countdowns, so no
clock is needed and the state space is finite without a bound on time.

`Claim*` are the first transaction of `ProcessCallback` by what it finds:
nothing due, a refunded order, used-up attempts, an attempt to make.  `Finish`
is `finishCallbackAttempt`, which writes without looking; `Lose` is a process
that dies or a second transaction that fails; `Rescue`, `CleanJob` and
`Enqueue` are River: a stuck job runs again, a job is unique per order while it
is queued and for as long as its completed row is kept.  River's limit of
25 runs discards a job, which then counts as absent, like one never queued.

The lease (two minutes) is meant to outlive a job (River's time limit is one
minute, the request's ten seconds).  `Patience` is the age after which an
outcome cannot be recorded, `Lease` that after which an attempt is given up;
`PatienceAssumption` is `Patience <= Lease`.

`Retries` adds `record`, the row of a key, and `told`, what answers named while
the row lived.  `ReplayFirst` is `beginIdempotencyTx`, the replay and
`recordIdempotencyTx`, one transaction; `ReplayAgain` answers from the record,
also when the event has ended and a new replay would be allowed; a key used for
another order is refused; `Lapse` is the record's 24 hours.

### Subscriptions

State: `plan`, `purchase` (with the status of its order, `bill`), `counter`,
`grant`, `sub` are rows; `request` is a purchase request that passed the
session check, with the plan's terms and the subscription row its buyer was
shown; `banned`; `clock`.  A chain is named after its first grant.

Actions: `SavePlan`, `DeletePlan`, `Review` and `Drop` (a request is sent, is
refused or lost), `Purchase`, `CancelPurchase`, `CloseExpired` (the job, one
purchase per transaction), `LapseBill` (the expiry of the purchase's order),
`Settle` (a receipt, or a person by hand, with `PaidTx`), `Refund` (with
`RefundedTx`), `Grant`, `Ban`, `Unban`.  `Recomputed` is `recomputeChainTx`:
`EndDate` computes the end of the live grants by recursion over the set of
them, taking the one that takes effect last (`Latest`) off; the property it is
compared with, `EndOf`, has neither order nor recursion.

Two modelling choices.  The purchase's own check and the unique index together
mean that a buyer has at most one pending purchase, overdue or not.  The
billing merchant's ban lapses bills that are still in time, and a person may
book such a bill by hand afterwards: both are in the model.

`ImplementsLife` says of every purchase and its bill that they live as
`PurchaseLife` describes: opened together, a bill that lapses, a purchase that
is closed or cancelled and takes its open bill along, both paid, both refunded.
`PurchaseLocks` has the same property: the two models, one with all rows and
whole transactions, the other with one purchase and single statements, meet
in it.

### PurchaseLocks

The transactions that touch one purchase, statement by statement: `Purchase`,
`CancelPurchase`, `DeletePlan`, `CloseExpired`, a ban of the buyer (`BanBuyer`) and of
the billing merchant (`BanBilling`), `ExpireBatch`, `Ingest`, `Supplement`,
`MarkRefunded` are the lists of rows they lock, in the code's order; a
statement says what the row has to be, what it becomes and what happens if it
is anything else (an error, nothing left to do, or the next statement).
`Script` maps requests to them.

State: `row` is what is committed of the buyer, the billing merchant, the plan,
the subscription, the purchase and the order; `holder` who has locked each;
`does`, `step`, `run`, `at`, `written` are a connection's request, its next
statement, its run in `InTx`, whether the time it read is after the expiry
(`late`), and its uncommitted writes.

`Take` is a statement that gets its row, judged by what is committed at that
moment (READ COMMITTED: a statement that waited looks again); `Refuse` an error
and its rollback; `Commit` the end; `BreakOff` any other end.  `Deadlocked` is a
circle of waiting transactions: PostgreSQL aborts one of them (`Retry`: `InTx`
begins it again; `GiveUp`: three runs are over, or the error reached
`InTx` in disguise).  `DeadlocksCross` says where circles can be: each has a
request of the payment service, which takes the bill before the purchase, and
one of the subscription service or a ban, which take the purchase before the
bill; among their own, neither ever loses a transaction.  `Disguised` are the statements whose error the code
replaces by one of its own or drops.

Left out: the shared lock on the site's settings (in `Settings`); counters,
grants and reservations, which are only reached by transactions that hold the
purchase's or the order's row; `Grant`, which locks and writes what `Ban` of the
buyer does.  The locks that foreign keys take on the buyer and the plan when a
grant is inserted, `FOR KEY SHARE`, are taken as exclusive ones, which makes
more circles.  The merchants' rows are locked in the order of their ids;
`BuyerFirst` is which of the two is smaller, and the runs take the order in
which more can wait: with the other one the settlements, which take the
billing merchant first and the buyer last, fit in.

### Devices

State: `device` and `binding` are rows, `heard` the order of last_seen_at of
active devices, `scan` what each worker has listed, `notices` the rows of
`notifications`.  `announced` is a history: the active devices whose present
silence has been alarmed.

`NewBinding`, `Redeem` (which revokes the device before), `Revoke` and
`Heartbeat` are transactions under the merchant's lock.  `DetectOffline` is
`ScanBegin`, a query outside any transaction, and one transaction per listed
device: `ScanAlarm`, `ScanKnown` (alarmed by another worker), or `ScanMissing`,
where the row is not found any more and the error ends the whole job.  Codes
issued earlier stay valid, so several may be open.

### Mail

`Queue` is every transaction that inserts a message; `Claim` the first
transaction of `deliverQueued`, which counts the attempt; `Send` the mail
server, which may accept a mail and not be heard; `Record` the outcome's UPDATE,
which looks at nothing; `Lose` a crash, the job's limit of a minute, or an error
that ends the loop.  `Rest` (the pause of 1, 5 and 30 minutes is over) comes
after the job that claimed has ended: the shortest pause is as long as
River's limit for a job.

### Accounts

State: `merchant`, `code` (rows of `email_codes`), `sessions`; `sender` and
`request` are requests under way; `compared` and `spent` are histories.
`SendBegin`, `SendCommit`, `SendEnd` are `issueEmailCode` before, in and after
its transaction; two of them may miss each other's rows, and the model lets both codes
live.  `consumeCode` is `Count` (UPDATE on the pool) and `Check` (in the
transaction, which keeps the row locked); `Commit` is what the codes were for:
`Register`, `ResetPassword`, `ChangeIdentity` with two or more codes, `ResetKey`.
The second factor that some of these also ask for is a reason to `GiveUp`.

### Sessions

State: `challenge` is `auth_challenges`, `bootstrap` the initialization code,
`secret` and `backups` the second factor, `request` what requests read before
they write.  Pairs of actions are a read and the transaction after it:
`BootstrapBegin`/`BootstrapCommit`, `LoginBegin`/`LoginAtOnce`/`LoginChallenge`,
`FactorCount`/`FactorAccept`/`FactorRefuse`, `ConfirmLaterBegin`/`-Commit`,
`DisableBegin`/`-Commit`, `RepairBegin`/`-Commit`.  `IssueBegin` is the snapshot
of the UPDATE in `IssueConsoleRecoveryCode`, `IssueCommit` its end: under READ
COMMITTED it ends the rows it found that are still live, and none inserted
since.  Passwords are right (a wrong one is refused); a presented factor fits or
does not.

### Settings

A transaction moves from lock to lock (`LockSettings`, `LockMerchants`,
`LockSettingsAlone` for the billing merchant's `ResetKey`, which upgrades the
lock it shares).  `Victim` is the deadlock: PostgreSQL ends one of two requests
that wait for each other and `InTx` runs it again, three times in all, with what
was read before the transaction.  `BeginUpdate` keeps the version that the page
displayed, and `saw`, a history, the contents.  One number stands for the
settings with bounds; `Create` registers merchants without any lock on the
settings.

### Media

One slot, with its uploads (`Store` the file, `Begin` the transaction and with it
`created_at`, `Save` the row under the lock), the switch, the orders that take
the active code, and their checkout page (`CanPay`, and `Opens` for the picture
behind the page's link).  `SaveUnanswered` is a COMMIT whose answer is lost.

### Portal

Lists of seven kinds, each with its filter and the changes its rows undergo; a
reader `walk`s from page to page with the cursor it got, while rows appear
with times read earlier.  `owed` is a history: the rows that were there at the
first page and fitted the filter ever since.  `Listed` is ORDER BY: the sequence
of a set of rows, newest first; `Found` the rows a query may return.  For announcements, `MarkBegin` and
`MarkAnnouncementRead` are the SELECT and the INSERT of one transaction without
a lock, between which a new revision may be saved.

## Runs

Bounds are in the `.cfg` files; sizes are distinct states.

| run | instance | shows |
|---|---|---|
| `orders_receipts` | receipts: 1 merchant, 2 orders of one price, 2 possible amounts, phone clock up to one tick behind, each transfer reported up to twice, clock to 5; book: 2 merchants, 3 orders of 2 prices, bans, no transfers, clock to 4; 4.0 M | `ReceiptAttribution`, `OneReceiptPerSettlement`, `NoPayableReceiptUnmatched`; `AmountHeldOnce`, `HoldCoversExposure`, `BannedHasNoPending` |
| `orders_life` | an external and a subscription order whose amounts float up or down, 2 refund requests, 1 receipt each, clock to 3, under `FairSpec`; 0.7 M | `RefundsFollowOrder`, `PendingEnds`, and `BookSpec`: the tables implement `OrderBook` |
| `workers` | callbacks: 1 order, 3 generations, 2 tries, a key; page: 2 orders of one callback each, a scan that looks at one; mail: 2 mails, 2 workers, 4 attempts; all three with fairness; locks: 2 connections, all ten requests, the buyer's id before the billing merchant's, 2 runs; 0.3 M | `OneAttemptPerEvent`, `OneReplayPerKey`, `SuccessIsFinal`, `NewestEnds`; `SentIsFinal`, `MailEnds`; `DeletedPlanHasNoPending`, `DeadlocksCross`, and `ImplementsLife`: statements, deadlocks and retries implement `PurchaseLife` |
| `subscriptions_chains` | 1 buyer, 2 plans, 3 purchases and a manual grant, the billing merchant may be banned, purchases live 2 ticks, clock to 3; 1.8 M | `BillsAgree`, `EntitlementFollowsGrants`, `NoPaidTimeForgotten`, `PaymentBuysItsDays`, `RefundNeverRevives`, `PurchaseAsReviewed` |
| `subscriptions_sales` | 2 buyers, one of them banned at times, 1 plan edited and deleted, limits 1 and 2, under `FairSpec`; 0.7 M | `CountersMatch`, `LimitRespected`, `PurchaseEnds` |
| `devices` | 2 merchants, 2 devices, 2 codes, 2 workers, 2 episodes, under `FairSpec`; 0.4 M | `EveryDeviceFromItsCode`, `AlarmOncePerSilence`, `SilenceAlarmed` |
| `console` | accounts: 1 merchant, 1 mailbox, 2 codes, 2 senders, 2 requests, 2 tries; sessions: 3 challenges, 2 requests; settings: 2 merchants, 2 transactions, 3 versions, 2 keys; media: 2 uploads, 1 order; lists: 3 rows, pages of 1 and 2; announcements: 2 readers, 3 revisions; 1.5 M | `GuessesBounded`, `CodeBuysOneChange`; `OneAdmin`, `ChallengeUsedOnce`; `CollectionWithinBounds`, `CredentialTruth`, `NobodyOverwritesUnseen`; `PayerSeesCode`; `PagesComplete`, `ShownUntilRead` |
| `callbacks_refund`, `subscriptions_banned`, `sessions_recovery`, `media_slots`, `locks_retry` | the smallest instances; locks with 3 connections and 3 runs | the findings below |

Why the bounds are enough.  Two orders and two amounts are what a conflict, a
release and a reuse need; the clock reaches past expiry and retention of the
first order while the second is open, so that a late report meets a reused
amount.  Two refund requests allow a rejected or completed one and one more.
Three generations and two tries allow a replay beside a retry and a
replay after that.  Two orders and a scan of one (`page`) are a page that is
full: of orders whose turn comes, and of one whose callback is used up.  Three grants and a manual one allow a renewal after a
switch, a refund in the middle of a chain, a renewal whose subscription has run
out or been refunded by the time it is paid, and a replacement by hand.  With a
limit of 2 and two purchases, the limit is reached with a pending and a settled
purchase and, edited down to 1, is below what is taken.  Two devices and two
codes allow a replacement and two codes open at once; two workers hold the same
item of a list.  Two connections are a circle, and two runs a first and a last
one; with three connections (`locks_retry`) the circles are longer, or a third
waits for one.  Two codes of a purpose are what two senders that miss each other
make, and one more try than the limit is asked for.  Three challenges are a recovery code, its repair session and the next code.  Two transactions
are enough for every conflict and deadlock of `Settings`, whose merchants to
lock are then incomplete when a third party creates one.  Three rows fill a page
of two and start the next, with two rows that share a time.

`Mixes` and `SiteMixes` split the requests of `Accounts` and `Settings` into
groups that can meet on the same rows; a behaviour runs one group.  In
`Accounts` the changes of a mailbox (`change_email_old` and `change_email_new`)
and of a key take the same actions with other purposes; the instance leaves them
out.  Symmetry is used on orders of one merchant, on plans and on
requests or senders, which no definition distinguishes, and in runs without
liveness only.

Deadlock checking is off where ids, versions and the clock are bounded and a
system that has used them up has nothing left to do: `Subscriptions`,
`Devices`, `Mail` and the console's modules.

## Fairness

- `Orders!FairSpec`: time passes, and the expiry job, periodic every 15
  seconds in `jobs/registry.go`, visits every overdue order.  Nothing is assumed of payers,
  phones or merchants.
- `Callbacks!FairSpec`, `Retries!RetriesFairSpec`: time passes; the scan is
  periodic; River runs a queued job, rescues a stuck one and cleans completed
  ones; a request returns or is cut off.  A worker may die any number of times:
  no fairness makes an attempt succeed or be recorded, only its end is fair.
  Nobody has to replay anything.
- `Mail!FairSpec`: the job is periodic and ends, by itself, at its time limit or
  with its process; pauses end.  No fairness makes a server accept a mail.
- `Devices!FairSpec`: time passes; the job is periodic (WF of `ScanBegin`);
  a worker visits its first item again and again if it begins again and again
  (SF of `ScanVisit`: a run that has listed devices may die, but not every
  one before its first visit).
- `Subscriptions!FairSpec`: time passes, and the job that closes overdue
  purchases visits each.  `Tick` stops at `MaxClock`, and `Purchase` is
  possible only if the purchase expires by then.

All jobs are periodic, every 15 seconds (`jobs/registry.go`).  The loops of the
expiry jobs stop at the first error.  No error that lasts is known for them, so
their fairness holds per row.  The offline scan does stop regularly, at devices
that have come back, and its model has that.

## Proofs

TLAPS proves the following for all values of the constants that satisfy the
modules' assumptions: any number of orders, merchants, amounts and
clocks, not the instances above.  The assumptions say what the code's
configuration guarantees (positive lifetimes, a lease not shorter than a
request's patience, ids that are no NULL); TLC evaluates them on every run.

| module | theorems |
|---|---|
| `OrdersProofs` | `TypeCorrect`, `AmountsHeldOnce`, `HoldsCoverExposure`, `ReceiptsAttributed`, `SettledByOneReceipt`, `SettledInTime`, `BannedUnpayable`, `RefundsFollow`, `PayableReceiptsMatched`, `ImplementsBook` |
| `DeliveryProofs` | `TypeCorrect`, `AttemptsExclusive`, `ConfirmationIsFinal`, `ReplayedOncePerKey`, `MailTyped`, `SentStaysSent` |
| `SubscriptionsProofs` | `CountersCount`, `BillsFollow`, `DeletedUnpaid`, `LimitHolds`, `SoldAsReviewed`, `ActiveChainStands`, `LivesLived` |
| `EntitlementProofs` | `EntitlementFollows`, `NothingForgotten`, `DaysBought`, `RefundsNeverRevive` |
| `PurchaseLocksProofs` | `LocksTyped`, `LocksImplementLife`, `DeletedWhileLocked`, `DeadlocksAreCrossings` |
| `DevicesProofs` | `DeviceRowsTyped`, `DevicesFromCodes`, `OnePhonePerMerchant`, `AlarmedOncePerSilence` |
| `IdentityProofs` | `SingleAdmin`, `FactorsBounded`, `SingleConsoleCode`, `ChallengeBuysOnce`, `GuessesCounted`, `CodePaysOnce` |
| `ConsoleProofs` | `CollectionBounded`, `CredentialHeldTrue`, `NothingReplacedUnseen`, `CodeShown`, `PopupUntilRead`, `PagesWhole` |

Every module follows one pattern: an invariant of named parts, a lemma for each
action (or group of actions that touch the same rows) that it keeps them and
whatever an action property says of that step, and theorems that combine the
steps.  What is worth knowing is where a property alone is not inductive.

`OrdersProofs`, three layers and what is built on them:

- `Typed`: `TypeOK` and that a pending order with a channel has a price in
  range.  The step that matters is `AllocateFree`: what allocation returns is
  an offer nobody holds; it needs the least element of a set of distances
  (`LeastNatural`, from the library's well-foundedness of strict inclusion on
  finite sets).
- `Reserved`: `AmountHeldOnce`; rows of reservations agree with their order's
  channel and amount (`RowsAgree`); exposed quotes are held, with a release
  time that is late enough (`ExposedHeld`).  `HoldCoversExposure` alone is not
  inductive: it says that a row exists, not when it goes.
- `Attributed`: `ReceiptAttribution`; payments lie in the past (`PaymentsPast`);
  requests are reports of real payments with a clock not ahead
  (`RequestsReal`); and any other order that quotes the same amount on the same
  channel of the same merchant while a payment may still be reported chose its
  channel after that payment (`RivalsLater`), which is why the comparison of
  time stamps in `Ingest` is enough.
- `Refundable`, for refunds: open requests are on paid orders, one at a time.
- `Recognised`, for receipts: a transfer was made of the quote its order still
  has (`QuotesPaid`), a quote is no older than its order, and a request reads
  the clock after the transfer it reports.  `PayableReceiptsMatched` rests on it.
- `ImplementsBook`: the quotes, settlements and returns of `OrderBook` are read
  off the rows; the steps that open a quote use `Reserved`, the rest move at
  most one order along the book's life, or stutter.

`DeliveryProofs`, callbacks: the invariant adds to `OneAttemptPerEvent` that an order
that is not paid has no callback and that an attempt which can still be
recorded is the last of its event and as old as the event says
(`AttemptCurrent`).  Claiming needs an expired lease, and by
`PatienceAssumption` no attempt of such an event can be recorded any more
(`LeaseCovers`); so `finishCallbackAttempt`, which overwrites without looking,
only ever overwrites its own attempt.

`DeliveryProofs`, replays and mail: answers name the callback of the record (`AnswersFromRecord`),
on top of the callbacks' invariant; a mail has one worker between claim and
outcome (`ClaimedOnce`), what was sent was claimed before, so the outcome's
UPDATE, which looks at nothing, can only write over its own claim.

`SubscriptionsProofs`: `PurchaseSound` ties the states of a purchase and its
bill together; `RequestsHonest` says that a row whose revision is the one a
request carries is the row the request was shown, since every writer adds one;
`CountersMatch` is a statement about cardinalities, and the guard that floors a
counter at zero (`Max({0, ...})`) is never needed (`Released`).  Chains are named
after a grant of theirs (`ChainsNamed`), so two merchants never follow one
chain, and voiding a replaced chain cannot reach another merchant's
(`ActiveChainWhole`).  `LivesLived` reads each action as a step of `PurchaseLife`
for the purchases it writes and a stutter for the rest; `PurchaseSound` decides
which.

`EntitlementProofs` has two parts.  The first is about sets of grants that no
two of take effect together (`Dated`): there is a function of dates as
`EndDate` defines it (`DatesExist`), it is monotone in the set, an end
that lies ahead is after the beginning of every grant, so that a renewal is the
latest of its chain, and it equals `EndOf`, which counts the days of the grants
that follow the last fixed date (`EndOfIsEndDate`).  Nothing here is done by
the library's induction theorems: a statement about all finite sets
is proved from a smallest exception (`SmallestBad`), which exists because
strict inclusion is well founded on them.  The second is the invariant: rows of
grants are sound and finitely many (`GrantsSound`, `GrantsFinite`), a
purchase's grant is its buyer's (`PurchasesGranted`), the live grants of a chain
begin apart (`GrantsApart`), a buyer has one pending purchase (`OnePending`)
which still is of the kind it was chosen to be (`KindsHold`), the subscription
is what its chain adds up to (`Entitled`), and a live grant elsewhere has run
out (`Remembered`).  `GrantsApart` and `KindsHold` are what the two properties
lack to be inductive: a renewal's grant begins when the chain ends, which is
after all others begin.  A refund takes a grant out of the middle of a chain,
where monotony says that nothing ends later.

`PurchaseLocksProofs`: the invariant `LocksInv` says that a transaction holds
the row of every statement it is past, and that the row still is what the
statement took it for, early or late (`RowsHeld`): nobody else can
have committed a change of a row that is held.  So when a transaction commits,
all it judged is true at once, whatever it waited for in between, and its
writes together are a step of `PurchaseLife` (one lemma per request).
For `DeletePlan`, whoever looks for the purchases of a plan holds the plan, and
whoever inserts one holds it until the purchase can be seen.  For all
this, deadlocks need no argument: what an aborted transaction wrote is nobody's
to see.  Where they come from is `DeadlocksAreCrossings`: nobody holds a row that
it is not past a statement of (`HeldInOrder`), so among transactions whose
scripts take the rows in one order (`InOrder`) whoever is waited for waits for a
later row than whoever waits for it.  In a circle everybody is waited for, so
nobody in it waits for the first row, hence not for the second, and so on to the
last (`OneOrder`).  `BillOrder` is an order that every script outside
`PurchaseFirst` keeps to, `PurchaseOrder` one for every script outside
`BillFirst`; a circle therefore has a request of each.

`DevicesProofs`: nothing is needed of the scans' lists: what a visit does is
decided by the row it reads again.  The alarm property needs that a silence
which was announced carries its episode's mark.

`IdentityProofs`: the guesses compared plus those counted
and under way never exceed the tries written (`FactorsCounted`,
`AttemptsCounted`), which the bound alone does not say; a proved code is live
and locked by one request (`ProvedSound`), since `consumeCode` keeps its row
until the transaction ends.  While a recovery code is issued, the live codes are
among the rows the UPDATE found (`IssuingSound`).

`ConsoleProofs`: for settings, that the version a page displayed is not ahead of
the table's and, while it still is the table's, the page showed the content in
force (`Displayed`); for collection codes,
that each row has its file or is one whose COMMIT was answered with an error
(`SlotInv`); for lists, that whatever is owed to the reader of a page is either
among what was seen or older than the cursor, and that what was seen is newer,
once each and in order (`WalkSound`, on top of `RowsListed`: rows are rows of
their kind, finitely many); for announcements, that a mark under way names a
revision that exists and that a reader's mark of the present revision is in the
table whenever it was acknowledged (`MarksInv`).

Checked by TLC only:

- liveness (`PendingEnds`, `NewestEnds`, `MailEnds`, `PurchaseEnds`,
  `SilenceAlarmed`): fairness and ENABLED are out of the prover's
  reach;
- the type invariants of `Subscriptions`, `Media`, `Settings` and `Portal`, and
  that of `Devices` but for its rows: the proofs do with the parts of them they
  need.  TLC checked them while the modules were written; the runs do not
  repeat them;
- that deadlocks are retried (`RetriedAfterDeadlock`) is false: finding 5.

Proved and repeated by no run: `AutomaticOnlyInTime` (`SettledInTime`),
`OneConsoleCode` (`SingleConsoleCode`), and, of `Subscriptions`,
`DeletedPlanHasNoPending` (`DeletedUnpaid`) and `ImplementsLife` (`LivesLived`).
The run `workers` checks the last two where transactions interleave, on
`PurchaseLocks`.

## Findings

1. `callbacks_refund`: an attempt under way when its order is refunded leaves
   its event `failed` with a retry date, although a test of refunds calls an
   uncancelled callback a failure.  The scan skips refunded orders.
2. `subscriptions_banned`: a purchase request admitted before its buyer's ban
   commits after it and leaves a pending purchase of a banned buyer.
3. `sessions_recovery`: a recovery code spent while the next one is issued
   leaves its repair session alive, although issuing "invalidates any earlier
   code/session": the UPDATE that ends them waits for the code's row and does
   not see the session inserted meanwhile.
4. `media_slots`: the slot's asset is the newest by `created_at`, which is when
   a transaction began, but the active one is the last that got the lock.  When
   two uploads swap, the page shows the slot disabled and *Disable* has no
   effect, while new orders are given the other code.

5. `locks_retry`: a plan's deletion that loses a deadlock with a settlement
   fails on its first run, although `InTx` promises to execute a transaction
   again after a deadlock: `DeletePlan` drops the error of the statement that
   locks the order, goes on in an aborted transaction, and the next
   statement's error is one that `retryableTxError` does not know.  Nothing is
   lost, the administrator has to repeat the request.

Noticed, and not stated otherwise by anything in the repository:

- a replayed generation that used up its attempts is always selected before an
  older one that still has retries;
- a used-up callback stays due, because its `next_attempt_at` is NULL, and keeps
  its order in the scan's page of 200 for ever.  With 200 such orders the scan
  reaches none after them: their retries, and callbacks whose worker died, wait
  until one of the 200 is refunded (a replay of one leaves its used-up callback
  where it is).  `NewestEnds` has that exception (`Crowded`) and no other;
- a refund of a grant that is not the last of its chain takes no time back,
  since later grants keep their dates;
- two requests for a mailed code that overlap leave two live codes, of which
  only the newer can be used until it is spent;
- a mail whose fourth worker dies stays `queued`;
- an upload whose COMMIT is not answered is taken for failed and its file
  removed, although its row may be active (`lost` in `Media`);
- in the last started second of an order, the checkout page says it can be
  paid, and the link of the picture, cut to whole seconds, no longer opens;
- `SelectChannel` expires an overdue order and then rolls that back with the
  error it returns;
- the cursors of the portal's lists are not bound to their filter, unlike
  those of purchases and merchants: `Portal` reads on with the filter it began with;
- `Purchase` calls a deadlock on the plan's row `PLAN_UNAVAILABLE`, and
  `MarkRefunded` one on the order's `NOT_FOUND`: like finding 5, but with an
  answer that misleads;
- `consumeCode` and `ListPlans` take a second connection while holding one; as
  many such requests as the pool has connections wait until their contexts end;
- an error on one overdue purchase would end the batch of its job, and the next
  run start with the same one.

## Not modelled

- Protocols V1 and V2, signatures, money strings: parsing and cryptography
  without state; formats are covered by the repository's unit tests.
- HTTP shell and web client: routing and rendering; the session check appears
  as the guard of requests, which may have passed it before a ban.
- Generated queries (`db/sqlc/*.sql.go`, `models.go`): called by nothing.
- Platform: cryptography, configuration, the guard of outbound requests; audit
  rows are written with their operations and read by `Portal`'s lists only.
- Of identity: the once-per-step rule of TOTP, the second factor asked at
  identity changes, captcha, limits by address.  Of settings: validation, logos.
  Of merchants: whitelist, preferences, passwords set by the administrator.  Of
  the portal: statistics, dashboards and details, which only read; they take
  several statements without a snapshot, so figures of one page may differ by
  what was committed in between.
- Liveness and ENABLED in proofs are out of the prover's reach.

## Plan

1. Orders, with `OrderBook`: modelled, checked and proved.
2. Callbacks, their replays, mail: modelled, checked and proved.
3. Subscriptions and what chains entitle to: modelled, checked and proved.
4. Devices, accounts, sessions, settings, collection codes, lists and
   announcements: modelled, checked and proved.
5. `PurchaseLocks`, with `PurchaseLife`: modelled, checked and proved.
6. Left: a composition of `Orders` and `Subscriptions` in which bills are orders.
   `PurchaseLife` is what the two would have to agree on.
7. Left: the locks of two purchases at once (a ban and a plan's deletion take
   the purchases of several buyers or plans in an order of their own).
