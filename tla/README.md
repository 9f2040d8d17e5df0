# My Detail OS backend: TLA+ models, checks and proofs

My Detail OS is a multi-tenant backend for vehicle-detailing studios: an
Express server over PostgreSQL (Prisma), with Razorpay for payments, an S3-like
object storage and WhatsApp, SMS and e-mail providers.  A request is an `async`
function that makes a sequence of database and provider calls and holds no lock
between them; several requests, webhooks and jobs run at once, and one row is
often read in one call and written in a later one.  What is hard to test is what
happens between those calls.  This directory models the parts where that
matters, checks them with TLC and proves the most important invariants with
TLAPS.

## 1. Inventory

| Component (under `src/`) | State | Operations | Hard behaviour | What makes it correct |
|---|---|---|---|---|
| Subscription payments (`src/modules/organization/organization-subscription.service.ts`, `organization.controller.ts`, `src/routes/webhooks.routes.ts`, `src/lib/razorpay.ts`) | `SubscriptionPayment`, `SubscriptionBill`, `OrganizationSubscription` rows, the Razorpay order | request a renewal or add-ons, payment link, confirm, webhooks, sync, reconcile, mark paid, verify, patch | settlement spread over six calls, webhook, browser and job settling the same payment, retries after a restart, a payment auto-failed and captured afterwards | bills numbered without gap, PAID implies a bill, every discount funded, no paid month lost, captured money billed |
| Subscription rules (`src/lib/subscription-pricing.ts`, `plan-catalog.ts`, `subscription-lock.ts`) | none | quotes, terms, caps | boundaries of a period | what a quote promises is what a settlement writes |
| Referral wallet (`organization/referral-wallet.service.ts`) | `ReferralWallet.points`, `ReferralTransaction` | redeem, credit | two debits of the same points | balance = ledger, never negative, one debit per payment |
| Trial provisioning and conversion (`organization-provision.service.ts`) | organization, users, branches, subscription | provision, convert a trial | overwrites a row a payment has just activated | conversion keeps what was paid |
| Suspension (`platform/platform.controller.ts`, `middleware/auth.ts`) | `Organization.isActive`, `subscription.status` | suspend, restore, access check | a webhook settles a suspended workshop | only an admin or a payment restores access |
| Branches and users (`src/services/user-api.service.ts`, `branch-api.service.ts`, `src/modules/users`, `branches`) | `User`, `Branch` rows, the role in each token | create, promote, move, deactivate, delete | count, hash, then create, without a transaction | no more seats than sold; no branch deleted under its documents |
| Inspection reports (`inspections/inspection.service.ts`, `inspection-assets.service.ts`) | reports, versions, uploads, photos and PDFs in the storage | upload, create, save, finalize, revise, delete, expire, clean up | database and storage are not one transaction; the cleanup job races saves | a frozen version keeps its document and photos |
| Inspection delivery (`inspections/inspection-delivery.service.ts`) | delivery log rows | send by WhatsApp, provider callbacks | duplicate requests, callbacks out of order, crash after the hand-over | one hand-over per request id |
| Invoices and customer wallet (`invoices/`) | JSON documents, `Customer.walletBalance` | create, update, delete an invoice with a credit or a wallet payment | balance computed outside the write | balance = sum of the invoices' effects |
| Job cards and quotations (`job-cards/`, `quotations/`) | `AppJsonRow` documents | save one or all, convert, bill | prices compared with a row read before, one invoice look-up per card | what was billed stands |
| Appointments and pickups (`appointments/`) | two collections and the `Appointment` table | save, delete, snapshot, driver's update | six writes in as many transactions | pickup requests follow the appointment |
| Document store (`collections/`) | `AppJsonRow` rows and singletons | upsert, delete, snapshot, merge | owner asked before a write by id; whole documents sent back | nothing lost, nothing of another workshop touched |
| Customers, portal, vehicles (`customers/`, `vehicles/`) | `Customer`, `Vehicle` rows, portal tokens | create, change, import, delete, log in | a phone is looked up, a password hashed, then written; no unique key | who was told a password gets in with it |
| Parties and ledgers (`parties/`, `lib/party-ledger.ts`) | `Party`, `PartyHidden` rows; the list and the ledgers are computed | save, hide, list, statements | rows and names joined by id, key and spelling | each counted once, views add up |
| Rewards and company targets (`rewards/`, `lib/company-target-engine.ts`) | settings | results of a period | tiers, periods, rounding | shares add up to the pool |
| Authentication (`auth/`, `services/login-otp.service.ts`, `password-reset.service.ts`) | users, codes in memory, reset links, link lists | log in, reset, switch, link | awaits between look-up and use, restarts | a code and a link work once |
| Permissions (`lib/staff-access.ts`, `middleware`) | permission keys of a user | set a level, check a route, filter a list | keys of three generations, other rules for PUT | a level means what its form says |
| Attendance (`services/attendance.service.ts`) | attendance rows of a day | punch, enter by hand, reset | look, then create, without a key | in at most once |
| Reminder jobs (`services/reminder-job.service.ts`) | reminders, a sent mark | cron run, button, client saves | crash between send and mark, overlapping runs | sent once per due date |
| Plan catalog (`lib/platform-settings.ts`, `platform/`) | one JSON document of plans, overrides, multipliers | create, patch, put, delete plans; sell them | read-modify-write, an old format until the first write | a change is read back as itself; no sold plan deleted |
| Support tickets, demo requests (`platform/`) | `AppJsonRow` rows of the workshops | browsers save, support patches and replies | both write whole documents | messages stay on their ticket |
| Messaging (`services/twilio-sms.service.ts`, `resend-send.ts`, `whatsapp-message-split.ts`), object storage, activity log | none of their own | provider calls | failures | best effort |

How they interact: the subscription row is written by payments, provisioning,
suspension and the admin's patch, and read by the access check and the caps;
the wallet is debited by a settlement and credited by somebody else's;
inspections use the object storage and are sent by the delivery component;
invoices freeze the prices of job cards, move the customer's wallet and are read by
parties and targets; users and branches carry attendance, permissions and caps, and
the caps come from the plan a workshop was sold; the vendor directory is mirrored
into the party table; reminders read documents and use the messaging providers.

## 2. Modules

| Module | What it holds |
|---|---|
| `SubscriptionRules` | quotes, terms, caps, periods and the row a settlement writes, as operators |
| `SubscriptionPayments` | the handlers over the payment, bill, subscription and wallet rows, one action per database or gateway call |
| `BillingLedger` | the abstract specification of bills and points that `SubscriptionPayments` implements |
| `SubscriptionPaymentsProofs` | the inductive invariant of `SubscriptionPayments`, the theorems and their proofs |
| `InspectionReports` | reports, versions and uploads of one branch, the object storage, the handlers and the cleanup job |
| `ReportArchive` | the abstract specification of frozen versions that `InspectionReports` implements |
| `InspectionDelivery` | the send log, the send endpoint, the provider and its webhooks |
| `InspectionDeliveryProofs` | the inductive invariant of `InspectionDelivery`, the theorems and their proofs |
| `InspectionReportsProofs` | the inductive invariant of `InspectionReports`, the theorems and their proofs |
| `CustomerWallet` | the wallet of a customer, its rows and the invoices that use it |
| `Staff`, `Attendance` | users, branches and their caps; the punches of a day on top of them |
| `Sessions`, `SessionsProofs` | passwords, one-time codes, reset links, linked accounts; the theorems about them |
| `Access` | permission keys, access levels, branch filters |
| `Parties`, `PartyStatements` | the merged list of parties; the ledgers of one party |
| `JobCards`, `JobCardsProofs` | job cards, quotations and the prices an invoice freezes; the theorem about the prices |
| `Bookings` | appointments with their pickup requests |
| `Reminders` | runs of the reminder job |
| `Books` | the cash book and the vendor directory, singleton documents |
| `Clients` | customers, vehicles, imports, the portal's log-in |
| `Targets` | company targets, pools and shares |
| `PlanCatalog` | the plan catalog and the plans that were sold |
| `SharedDocuments` | documents by id, of two workshops and the platform's support |
| `PeopleParts`, `OfficeParts` | the smaller modules side by side (below), and their properties |
| `PeopleProofs`, `OfficeProofs` | theorems about each of these modules and about all of them |
| `Sums` | lemmas about the folds the models add up with |
| `MCSubscriptionPayments`, `MCInspectionReports`, `MCInspectionDelivery`, `MCCustomerWallet` | instances for TLC; one `.cfg` per run |
| `MCPeople`, `MCOffice` | instances of `PeopleParts` and `OfficeParts` |

Every definition is read off the code lines that `PROJECT.json` gives for it under
"map"; definitions preceded by "With a bug" are not the code's: each is the
mutated form of the definition below it, and shows which property catches it.

### SubscriptionPayments

*State.* `payment`, `bills`, `sub`, `active`, `points`, `redeemed` and `credited`
are the tables; `quote` remembers the breakdown a payment was requested with
(the code keeps it only in the payment's notes, which it overwrites); `gateway`
is what Razorpay knows of an order; `pc`, `job`, `seen` are the handlers: the
next call, the request, and the rows read so far.  A row that has been read is in
`seen` and used from there, however old it is: that is where the races are.

*Actions.* `RequestRenewal`, `RequestAddOns`, `RequestPaymentLink` with
`CreateOrder`, `FinishRequest`, `CreateLink`, `StoreLink`, `FinishLink` are the
request functions; `Confirm`, `WebhookPaid`, `WebhookFailed`, `Sync` and the
`Poll*` actions, `Stale*`, `AdminVerify` and `MarkPaid` are the ways into
`verifySubscriptionPayment` (a browser confirms and syncs with the order id it was answered, which the row has had
since before; a row without one, which lines 1309 and 1365 let pass, gets the same settlement by
`AdminVerify`), which is `VerifyReadOrg` → `VerifyReadPayment` →
`CheckWallet` → `Redeem` → `CountBills` → `Settle` | `SettleAborts` →
`CreditReferrer`, or `FailPayment`.  `Patch`, `Convert`, `Suspend`, `Restore` are
the administration.  `Capture`, `AttemptFails`, `LinkExpires`, `Tick`, `EarnPoints`
and `Crash` are the world: Razorpay and the customer, the clock, other
organizations and the process.

*Abstractions.* Branches and seats follow the same rules field by field and are
one capacity; the unlimited (`null`) capacity, GST, coupons, the onboarding fee
and the price of extras are left out, so a price is one constant and money is
counted in points.  Bill numbers restart every year in the code; the model has
one year.  The calls whose interleaving nobody else can see are one action: the
reads of a quote with the insert of its payment, the creation of an order with
storing its id, the two reads of the wallet.  The 15 minutes after which
reconcile fails a payment are a nondeterministic choice.  Points are earned one
at a time.

*Bounds.* `MaxPayments` rows, `MaxRequests` calls by studio and admin (webhooks and
job runs are not counted), `MaxEarned` points, `MaxExtra` capacity, `MaxNow`
months, `MaxCrashes` restarts.  Two payments and two handlers are enough for every
race over one row and over one wallet; `MCSerial` adds a clock that passes the
end of a period, `MCRace` a wallet whose points are quoted twice.

*Fairness* (`FairSpec`, liveness only).  `WF` of a handler's next call: the server
runs what it has accepted, every call has a timeout.  `SF` of the delivery of a
captured payment's webhook: Razorpay redelivers until it is answered with a 2xx,
and the route answers 5xx when settlement throws (`webhooks.routes.ts`).

### InspectionReports

*State.* `report`, `version`, `upload` are the tables `InspectionReport`,
`InspectionReportVersion`, `InspectionUpload`; `stored` is the object storage, and
`written` the PDF keys ever used (a key has a fresh UUID in the code).  `copy` is what
a browser has last read of a report, which it sends back with its revision and its
timestamp; `work` is the request of each session, by the call that comes next;
`sweep` a run of the cleanup job.

*Actions.* `StartUpload` → `Persist` | `PersistFails` is the photo upload; `Create`,
`Update` → `LockReport` → `ReadUploads` → `Save` | `Abort` are
`createInspectionReport` and `updateInspectionReport`, whose transaction first
updates the report row under its expected revision (the row lock) and then links
the photos; `Finalize` → `ReadPhotos` → `WritePdf` → `Freeze` is
`finalizeInspectionReport`, with `FreezeFails` and `FreezeUnacknowledged` →
`Discard` for its catch block; `CreateRevision`, `SoftDelete`; `BeginCleanup` →
`Claim` → `Erase` → `DeleteRow`, or `CleanupFails` → `Unclaim`, is
`cleanupUnlinkedUploads`.  `Expire` is the clock, `Crash` the process.

*Abstractions.* One branch of one workshop, so the access checks pass.
READ COMMITTED transactions: a read may be stale at the write, a row updated stays
locked until the commit.  The content of a report is its photos.  The 24 hours of an
unlinked upload pass at a nondeterministic moment; the 24 photos are `MaxPhotos`.

*Bounds and faults.* Two sessions, two uploads, two PDF keys, three revisions in
`MCReportSaves` (draft, frozen, draft again, frozen again, so that a photo of an old
version can be dropped by a later draft); two reports compete for one upload in
`MCTwoReports`; two overlapping runs of the job with failing deletes in `MCCleanup`.
`MaxPhotos` = 1 with two uploads makes the limit bind.

*Fairness* (`FairSpec`, liveness only).  `WF` of each run of the cleanup: a scheduler
calls it again and again and its storage calls time out.  Sessions are not fair:
`OverdueIsRemoved` needs none.  A crash between claim and delete is not among the
faults of that run: the claim is never released and the upload stays (a hazard with
a note).

### InspectionDelivery

*State.* `log` are the `InspectionSendLog` rows by request id, `provider` what the
provider has got and what has happened to it, `task` the running calls.

*Actions.* `Call` → `Find` → `Refuse` | `CreateLog` → `HandOver` |
`HandOverUnanswered` | `HandOverFails` → `Record` | `RecordFails` → `Catch` |
`CatchFails` is `sendInspectionReport`, with `ReadRaced` for a call whose insert
the unique key (organizationId, requestId) has refused.  `Callback` is one
delivery of a webhook, of anything that has happened so far, as often as the
provider likes; `Progress` is the provider.

*Abstractions.* WhatsApp and email share the handler and differ in the answer of the
provider and in the words of its webhooks.  The retry of Resend with a test sender,
which only a development build does, is left out.  Whether the report is final and
exports are allowed is a nondeterministic `Refuse`.

*Bounds.* Three calls under one request id with two messages, two faults of the four
kinds, each at most once: enough for a retry that races a call, a conflict on
either path, and an error after the hand-over with webhooks in between.

*Fairness.* `WF` of a call: every await of it ends or throws.  Webhooks and the
provider are not fair.

### CustomerWallet

*State.* `wallet` is `Customer.walletBalance`; `debited` and `credited` sum the rows of
`walletTransactions` by invoice and payment, `entered` the rows of the manual
endpoint, `manual` what a patch of the customer changed without a row; `invoice` the
stored documents, `copy` the invoice a browser has open.  `doubtful` are the invoices
set aside: open in two browsers at once, deleted, written by a snapshot, or settled
and then not stored.  The code keeps nothing for these (below), so the properties
speak of the others, while all of them move the same wallet.

*Actions.* `Save` → `ReadBalance` → `Settle` | `Refuse` → `Store` | `StoreFails` is
`upsertInvoice` with `syncInvoiceWalletBalance`; `Delete`, `Snapshot`,
`Adjust` → `AdjustWallet`, `PatchCustomer` the other writers.

*Abstractions.* One customer; an invoice that changes its customer is left out.
Amounts are small integers and every payment has an extra of one.

*Bounds.* Two browsers, two invoices, one payment, three changing requests.

### Staff and Attendance

*State.* `user`, `branch`, `attendance` are the tables; `work` the branches that
documents name (a document names its branch in JSON, so no foreign key guards it);
`token` the role in the token each person holds, which is the one of the login.
`task` is the request of each worker with the counts it has read, `punch` that of each
terminal.

*Actions.* One per database round of `createUserApi`, `updateUserApi`, `deleteUser`,
`createBranch`, `deleteBranch` and their guards (`canCreateStaffAccounts`,
`canAssignUserRole`, `isBillableUserSeatRole`, …): the count, the hash of a password and
the write are separate.  `Attendance` adds `PostPunch` (look for the row of the day, then
update or create), entries by hand and the reset.  Rows have ids of their own, as the
database gives them: the id of a row that was deleted (`GoneRow`) is not used again, so
an update that comes late misses instead of hitting somebody else's row.

*What is left out of the properties.* Two requests that went by the same count (`stale`);
a document stored while its branch is being deleted (`late`); a member with two punches
at once, or with a row opened by hand next to an open one (`disturbed`).  There the code
does exceed the cap, keep an orphan, and open two rows.

*Bounds.* Two people, two branches, one seat, two workers, two terminals, three
requests and as many rows as they can create: enough for a promotion that races a creation, and for a deletion that races
the first document of a branch.

### Sessions

Codes are in the memory of the process (`Restart` forgets them), links and link lists in
the database.  `VerifyLoginOtp` → `ConsumeOtp`, `ForgotPassword` → `MailSent` |
`MailFails`, `CompletePasswordReset` → `WriteReset`, `LinkMyWorkspace` → `ReadLinks` →
`WriteHere` and `WriteThere` in either order (a `Promise.all`) are the handlers, one await per action.  Numbers stand for codes
and links and are never used twice, as six digits and a hash nearly are.  Three accounts
of three workshops, one yet to be created, two with the same phone; two requests at once, three in all,
logins included.
`MailedLinkWorks` leaves out accounts with two such requests at once (`raced`: a mail that
fails clears whatever link is stored then) and `LinksAreMutual` those with overlapping link
requests, one that a restart cut short, or one that made a list too long (`torn`).  Lists of two
(`MaxLinks`, 50 in the code) let an account be linked with both others and unlinked again; none
of the three can have a longer list, so the overflow is left to `MutualLinks`, which holds for any length.

### Access

One module of the permission table, of the three kinds there are: granular with an
upsert route, granular, and simple.  Roles, keys, levels and branches are exhaustive; no
rule looks at two modules.  The properties relate what a form last set (`level`) to what a
later route check answers, over keys of every generation.

### Parties and PartyStatements

`Parties` keeps what the list is merged from (`customers`, `directory`, `spent`, `rows`,
`hidden`); `AllParties` is the merge of `listParties`, computed from them at every request.  `Keys` and
`RowAt` are the map `dbById`, in which a row is under its own id and under that of its customer; `Leftovers` are
the entries of it the last loop adds, for every order in which the table may give the rows.
Spellings are two names of one vendor and one of another: `Norm` is what comparison does not tell
apart, `MirrorKey` the key the mirror of the vendor directory stores.  `PartyStatements` computes
balance, summary, transactions, items and both statements of every ledger of two
documents, two days and amounts of one and two, with part payments, payments from the
wallet and over-payments.

### JobCards

`Save` requests of one card or all of them read the stored version, ask card by card for
an invoice (`CheckPricing`) and write later (`WriteCards`); invoices come and go,
quotations are converted.  `billed` remembers the card at the moment of its invoice, `kept`
the lines that have been on it since.  Of several lines with one key, or none, the guard's `Map` keeps the last,
which is the one `lines` has: a change of an earlier one is not seen by the code and not in the model.  One card, one line, two prices, two workers, three requests.

### Bookings

One save is `StoreDocument` → `StoreRow` → `LookAtLeg` → `WriteLeg` | `ClearLeg`, each its own
transaction; `Fail` stops between any two.  Drivers update requests meanwhile
(`SaveLeg`).  One appointment, four requests.

### Reminders

`BeginRun` reads everything, then `SendOne` → `SaveOne` per reminder, or `SendFails`, `SaveFails`,
`Crash`; clients save reminders, invoices are paid, days pass.  A service and a payment reminder,
two runs at once, three days, lead time and period of one day.

### Books

`PutDocument` → `LookAtLegacy` | `FindRow` → `DropLegacy` → `StoreDocument` → `MirrorOne` is the
save of a singleton: merge of the lists the form leaves empty, move from the shared id
`default` to `{organization}::default`, mirror of vendors into the party table.  `seen` is what a
browser was shown, which for a user of one branch is part of the book.

### Clients

Creation, change, import and deletion of customers, the passwords they are sent and choose, the
portal's log-in by phone, vehicles with their snapshot.  Two customers, a phone of ten
digits and a shorter one, which no query looks for, two vehicles of one plate, imports of two rows.  The rows an
import keeps stay by their place in it.  `raced` are the rows of
overlapping requests: no unique key guards a phone, so the code does store it twice there.

### Targets, PlanCatalog, SharedDocuments

`Targets` evaluates `computePeriodResult` over three settings (tiers of one role each; two tiers of
a role; tiers for quarters only, one of them for any revenue), two members and two invoices.  A tier is a list
of rewards or, as it was saved before (`single`), one of its own, which `expandRawTier` takes without asking that it
give something; percentages are not negative.
`PlanCatalog` has one action per read and write of the settings document, the subscriptions that name
a plan, and both formats of the document.  `SharedDocuments` has the generic routes of a
collection (`CheckOwner` → `Write`, `Look` → `Remove`, `CheckForeign` → `Commit`) used by two browsers
of one workshop and one of another, and support's `PatchSupportTicket`, `ReplySupportTicket`
and `PatchDemoRequest`.  `stale` are, of each document, the browsers that go by a page older than
another's write, one whose snapshot was refused among them, since it keeps on its page what was not stored.

### Several modules in one run

`PeopleParts` (attendance with staff, sessions, access, parties, ledgers) and `OfficeParts` (wallet,
job cards, bookings, reminders, books, clients, targets, plans, tickets) hold models that do not share
state, so that one run checks them all: `part` is chosen in the first state and never changes, the
variables of the other parts keep their initial values, and each property speaks of the behaviours of its own
part.  A behaviour of all is a behaviour of each module (`EachPartRuns`, proved); nothing is claimed about
the interaction of two parts.  `MCPeople` and `MCOffice` give the constants their values and start the
parts that do nothing in one state (`SmallSpec`); both specifications allow the same behaviours of the part that
runs.  Modules that do interact are composed properly: `Attendance` extends `Staff` and its actions interleave
with all of `Staff`'s, `InspectionReports` has report, storage and cleanup in one state,
`SubscriptionPayments` payments, wallet, suspension and provisioning.
Workers (and, for the wallet, browsers and invoices) are interchangeable, which the symmetry uses.
None of these runs assumes fairness: they check safety only.

## 3. Runs

| Run | Instance | Shows |
|---|---|---|
| `MCRace` | two handlers, two renewals, two points, one restart | no interleaving leaves a gap in the numbers, a PAID payment without a bill, an unfunded discount, a wrong wallet; `ImplementsLedger` |
| `MCSerial` | one handler, every operation | one at a time, no settlement loses a paid month or gives one away (`SettlementExtends`) |
| `MCLive` | renewals, webhooks, reconcile, one restart, `FairSpec` | captured money is billed, every call is answered |
| `MCReportSaves` | two sessions on one report, the cleanup, a crash or an error | frozen versions keep their photos, no lost update, the photo limit, FINAL is frozen; `ImplementsArchive`: versions are numbered upwards, are never changed, and keep the documents and photos stored |
| `MCTwoReports` | two reports that want the same uploads | no report refers to a photo of another or to one that was taken away |
| `MCCleanup` | two runs of the job, failing storage, `FairSpec` | overdue uploads are removed or linked |
| `MCSends` | three calls of one request id, webhooks, two faults, `FairSpec` | one hand-over, answers of one's own message, statuses backed and never taken back, no forgotten queued row |
| `MCPeople` | attendance with staff, sessions, access, parties, ledgers | seats as sold, no branch deleted under its work, in at most once; a code logs in once, the mailed link works, links are mutual; levels mean what they say; each party once; ledgers agree |
| `MCOffice` | wallet, job cards, bookings, reminders, books, clients, targets, plans, tickets | the wallet matches the stored invoices; billed prices stand; pickups follow; one reminder per date; books keep what was saved; passwords open the portal, imports stay apart; shares add up; plan changes stand; tickets stand |

No run checks a `TypeOK`: each is proved, of every module that has variables (section 4).

Three runs expect a violation: each shows a statement of the repository that the code
does not keep, listed under "findings" in `PROJECT.json`.

| Run | Statement | What happens |
|---|---|---|
| `MCLostTerm` | renewing extends `expiresAt` by the term | two settlements compute the end from the same row |
| `MCLostBalance` | one transaction ensures strict consistency | two settlements read the same balance, the later write loses the earlier one |
| `MCRemindTwice` | the reminder processor is idempotent | a payment reminder moves to its next date, is due at once within the lead time, and is sent again by a run of the same day |

`CHECK_DEADLOCK FALSE` is in every cfg: the bounds on requests and calls let an
instance stop where the server would go on.

### Where the code keeps less

Met while modelling.  Nothing in the repository promises otherwise, or the cause is one of the
above; where a property would not hold for such a case, a ghost variable sets the case aside
and the property's comment says so.

*Payments.*  An older add-on quote overwrites the capacity of a newer one, because a quote holds
absolute capacities; an add-on payment that failed and is captured late settles as a renewal,
since failing it replaces the notes that hold the breakdown; the URL of a payment link is appended
to the JSON of the notes, which no longer parses.  A referrer is credited a second time when the
first PAID payment was failed by hand, and not at all after a crash between the commit and the count.

*Inspections.*  When the answer of finalize's commit is lost, the catch block deletes the PDF of a
FINAL report.  A crash between claim and delete leaves an upload claimed for ever.  An error after
the hand-over writes FAILED over a status that a webhook has recorded, and FAILED is final; a crash
before it leaves a QUEUED row that answers every retry.

*Wallet.*  A browser that saves an invoice again without the stamps of its first save has its extra
credited twice; deleting an invoice and replacing all of them leave the wallet alone; a crash
between the settlement and the store leaves rows for no invoice; a patch of the customer overwrites
the balance.

*People.*  Two creations that count at once exceed the seats; moving an active user to a
branch of another workshop checks none; the count of branches is not limited to the workshop.
Deletion looks for documents, not for attendance or inspections, whose foreign keys then refuse it.
Two super-admins can delete each other.  `upsertAttendanceRecord` finds the row of a member whatever
its branch; the reset deletes the rows of all workshops.

*Sessions.*  A reset link is cleared by user, so a mail that fails clears a newer one; a
password changed otherwise leaves an old link valid.  A list of more than 50 links cannot be read
back and counts as empty.  A crash between the two writes of a link leaves it one-sided.

*Documents.*  Removing a priced line and adding it again is no change of price; two conversions of
one quotation leave two cards; a save that read before the invoice was stored writes its price.
A null over a TRUE `vehiclePickupRequired` keeps the requests; snapshots do not sync them and leave rows in
the `Appointment` table.  A run of the reminder job sends again what it could not mark, writes over a
client's edit and brings a deleted reminder back.  A browser that was shown one branch of a book, or loaded
it before others wrote, deletes what it did not see; a settings save that races can empty the vendors; a
stop between the deletion of the row of the shared id and the upsert loses the document.  Saving an old copy
of a ticket drops support's replies, `patchSupportTicket` goes by its first reading, a reply brings a deleted
ticket back, and two workshops that create one id at once share the row.

*Customers.*  Two requests with one phone can both create it; imported customers have no
password; one vehicle saved alone is not compared with others; deleting a customer removes the vehicles
first, in a statement of their own.

*Parties.*  The mirror stores a key in lower case with underscores, which expenses spelled with
capitals or spaces do not match; a renamed profile whose party was saved keeps the old key, so the old name's
expenses count twice and the new name's never; an upsert of a hidden party stores it, resets its
opening balance and answers 500.  A party of its own that was given a customer stays in `dbById` under two
ids; once the customer is deleted nothing skips the second, so the party is listed twice and its balance
counts twice (`Strays`).  The studio's statement leaves out what came from the wallet, which
the public one has; the summary counts nothing paid of an overdue expense; the public page's total leaves
out the opening balance when an invoice is open.

*Targets and plans.*  A member is told the first tier of the role only, though the header says that each
achieved tier contributes; results use the members of the moment.  Two changes of the plan document that overlap
lose one of them, a plan can be sold while it is deleted, and a patch with limits of its own takes an unknown code;
an override whose code fails the pattern vanishes on the next read; the first write of any setting freezes the
built-in catalog.

## 4. Proofs

`SubscriptionPaymentsProofs` proves, for any number of handlers, payments, points,
plans and restarts and from `RulesAssumption` and `PaymentsAssumption` alone,

- `TypeCorrect`, `GaplessNumbers`, `PaymentsBilled`, `DiscountsFunded`: the type
  invariant and `BillNumbersGapless`, `PaidIsBilled`, `DiscountsAreFunded`;
- `WalletBalances`: `WalletBalanced`;
- `TermsAdd`: the action property `SettlementExtends`, where one request is served at a time;
- `Refinement`: `Spec => ImplementsLedger`.

None of them is inductive.  A settlement inserts a bill with a number it has
counted before, and a discount it has read before; so the invariant `Inv` also says
what a handler knows.  `HandlersInv` has, for each handler, `JobInv` (it works on a
payment that exists), `ReadInv` (the row it has read is one whose breakdown is in
the table or has been dropped from it), `FundedInv` (past the wallet, the points
of the breakdown it has read have been debited) and `CountedInv` (the number it has
counted is at most one more than the bills there are).  `CountedInv` is what makes
numbers gapless: a stale count can only be a number in use, which the unique key
refuses.  `TablesInv` has the facts of the rows: rows not yet created are empty,
notes hold the quoted breakdown or none, the debit of a payment is zero or what
its quote said, the wallet is not negative.  The proof has, per action, one lemma
for the types, one step for the tables and one for the handlers; `Refinement` maps
each action to `Earn`, `Debit`, `Issue` or a stutter.

`WalletBalanced` sums the rows of all payments with a recursive function.  The library's induction
theorems take an operator, which the provers cannot be given; its theorem on well-founded relations takes
sets.  `Induct` is derived from it, and so that the sum exists, is a number and grows by
what is written into an empty row (`SumIs`, `SumTyped`, `SumGrows`).

`TermsAdd` is `SettlementExtends` for a server that handles one request at a time: while a request
verifies, the end and the term of the subscription row it has read are the stored ones (`Fresh`), and the period it is
about to settle ends a term after that end, or later only if that end had passed, by the present (`Dated`).  With two requests the row may have moved on meanwhile, and
a paid month is lost (`MCLostTerm`).

`InspectionDeliveryProofs` proves, for any number of calls, request ids, messages
and faults and from `DeliveryAssumption` alone,

- `TypesHold`, `OneHandOver`, `OwnAnswer`: `TypeOK`, `HandedOverOnce`,
  `AnswersOwnMessage`;
- `BackedStatuses`: `StatusIsBacked`;
- `NoReturn`: the action property `StatusNeverReturns`.

`HandedOverOnce` is not inductive: a call about to hand over must know that nobody has.
`Inv` adds what a call knows (`TaskInv`: past the insert its row exists and is of its
message, before the hand-over the provider has no copy), that two calls never hand
the same request over (`OneHandsOver`), and that the provider knows of nothing that
is not in the table (`ProviderInv`), which is what makes a freshly inserted row a
fresh request.  There is one lemma per action, over lemmas that say what an update of a
task, a row or the provider leaves; `NoReturn` needs `Inv` for the status a call
records.  `BackedStatuses` has an invariant of its own, `Backed`, which is inductive given
`Inv`: a call about to record SENT has the provider's word for it, and a message is read
only after it was delivered, since a webhook of either kind makes a row DELIVERED.

`InspectionReportsProofs` proves, for any number of browsers, reports, photos, documents,
revisions, overlapping cleanups and faults and from `ReportsAssumption` alone,

- `TypesHold`, `SnapshotsKeepPhotos`, `ReportsKeepPhotos`, `LimitHolds`, `FinalReportsAreFrozen`:
  `TypeOK`, `PhotosRetained`, `PhotosLinked`, `PhotosBounded`, `FinalIsFrozen`;
- `UpdatesAreSeen`: the action property `NoLostUpdate`;
- `DocumentsStay`: `DocumentsKept`, where every commit is answered (`"lostAck" \notin Faults`);
- `ArchiveImplemented`: `ImplementsArchive`, the refinement of `ReportArchive`.

One invariant carries all but the last two.  A save and the cleanup never look at each other;
what keeps them apart is that the photos of a report are not being cleaned (`Tied`) and that an upload
being cleaned has one run that cleans it (`Claims`), so that an erase that runs long after its claim still
hits a free photo.  `Archived` holds the rows of a report together: versions are numbered up to the
revision (`Numbered`), a FINAL report is its version (`Final`), photos of report and versions are its
own and those of versions are stored (`Photographed`, `Retaining`), and there is room for them
(`Bounded`).  `Session` is what a request knows between two calls: a browser has read the row or an
older one (`Recent`), a save holds the lock (`Owns`), a request goes by what was read (`Informed`), a save has
counted the photos it is about to link and nobody else links to a report under its lock (`Counted`),
and a finalize, which locks nothing while it renders, has found its photos stored, if the revision has
not moved on (`Rendered`).  Two more invariants are about documents.  `Docs` keeps them apart: the key that a finalize prints under is of
no other request, and of no version once the request is about to commit.  `Answered` says that the
document of a version is stored and that no request that might discard it has its key, where no answer of a
commit is lost; with such a fault the code does delete the document of a version it has just
committed, which is why `DocumentsStay` has its hypothesis and why the archive then promises photos only
(`Safe`).  For the refinement, a commit is `Publish`: its number is above the older ones (`Numbered`), its key is
new (`Docs`) and its objects are stored (`Rendered`, `Docs`).  Every other step leaves the versions
alone, and is `Store` by the invariants after the step.

`JobCardsProofs` proves `TypeOK` (`TypeCorrect`) and `BilledPriceStands` (`BilledPrices`) from `JobCardsAssumption`, for
any cards, lines, prices, versions and overlapping requests.  A save writes what it has
checked before, so the invariant says what a check is still worth then (`Checked`): a save that
nothing has overtaken goes by the stored cards, and those of its cards that have an invoice and have
been checked change no price.  An invoice that is stored meanwhile overtakes the save.

`SessionsProofs` proves `TypeOK` (`TypeCorrect`), `CodeLogsInOnce`, `MailedLinkWorks` and
`LinksAreMutual` (`OneLoginPerCode`, `LastLinkWorks`, `MutualLinks`) from `SessionsAssumption`.  `Inv` has a part for
each, over the common `Typed`.  `Codes`: a code that is stored is unused and of one phone, and
what has not been sent has not been used.  `Resets`: one request at most holds the link of an account
that is set aside by nothing, and while a mail is on its way the stored link is that mail's.
`Linked`: such a request is the only one about its accounts, their lists can be read, have room for what it
adds and are what it has read, so that two lists differ only between its two writes.

`PeopleProofs` and `OfficeProofs` have the theorems of the modules of `PeopleParts` and `OfficeParts`.  Each is
proved of its module, by a plain instance, from that module's invariant and assumption, and stated of the
module's own `Spec` and of `PeopleSpec` or `OfficeSpec`, where it is the property that the run
checks: by `EachPartRuns` a behaviour of all parts is one of each.

- *Attendance* (with `Staff`): types and foreign keys (`DutyTyped`), `SeatsAreSold`, `WorkHasBranch` and
  `InAtMostOnce` (`SeatsHold`, `BranchesStay`, `InOnce`), for any people, branches, workers, terminals, caps and
  requests.  Every rule is checked in one query and relied on in a later one, and the invariant
  (`DutyInv`) says what is left of the check in between: a seat that was free still is, unless `stale` (`Counted`); a
  branch that was looked at twice has no documents but late ones (`Empty`); two requests of one member have
  been noticed (`Alone`), so the row a punch has found is still of that member and branch, or gone
  (`Owned`), and one that opens a row has found none open (`Held`); `Once` is `InAtMostOnce` row by row.
  `SeatsAreSold` counts a set that changes by one member at a time, which the library's theorems on
  cardinalities cover without an induction.
- *CustomerWallet*: types, of which the part that matters is that the balance is never negative
  (`WalletTyped`), `WalletIsDebited` and `ExtrasAreCredited` (`DebitsMatch`, `ExtrasMatch`), for any browsers,
  invoices, payments and requests.  Between the settlement and the store the rows are one save ahead
  of the invoice.  An invoice that is not `doubtful` is open in one browser (`OneBrowser`), whose request has
  read what is stored (`ReadsStored`); so the rows are those of the content that request is about to
  store, or of the stored one (`Booked`).  Extras need the stamps as well: a browser has no stamp
  that is not stored (`Stamped`), or an extra would be taken for credited that is not.
- *Bookings*: `PickupsFollow` (`RequestsFollow`).  It speaks of appointments that no request is at work on;
  in between, a request at work on an appointment that is not set aside is the only one (`Alone`), and `Progress`
  says, for each of its steps, which writes are done and which rows are still those of the version before.
- *Reminders*: types (`RemindersTyped`) and `RemindedOnce` (`OnePerDueDate`).  The messages alone do not say why the next one is
  for another date.  `Ahead` does: what may still be sent is due later than every message; and `Tracked`: the
  run that may send a reminder is the only one and has read its stored version.
- *SharedDocuments*: `TicketsStand` (`StoredTicketsStand`).  What a request goes by when it writes without a lock still
  holds, or a write came in between, which has made a browser stale or raced support: `Asked` (the owner it
  has asked for), `Reads` (what support has read), `Shows` (what is on a page).  The proof found that
  staleness has to be kept for each document: a browser may be stale about one and right about another.
- *Books*: `BooksKept` (`BooksAreKept`).  A save that nothing has overtaken will store the last items of every list
  (`Fresh`, by `MergedIsLast`: merging its form into them gives the next last items).  Between the deletion of the row under the
  shared id and the write of the workshop's the book is in that save alone; `Moved` says that nothing brings
  the shared row back meanwhile.  `Mirrored`: a vendor without a row is still to be mirrored or was missed.
- *PlanCatalog*: `ChangesStand` (`PlanChangesStand`).  Its algebra holds of every payload of either format
  (`EveryChangeStands`) and rests on `ReadsBack`: a catalog that is not empty, written with no overrides, is
  read back as it is.  That a plan that was sold stays is about time: what a request has
  read and counted is what is stored, or it has been overtaken (`Current`).
- *Access*: `LevelDecidesEdits` and `QueryNarrows` (`AccessBounded`), from what a level leaves of any keys
  (`Levelled`).
- *Clients*: `PortalOpens` and `ImportsStayApart` (`CustomersGetIn`, `ImportsApart`), for any customers and vehicles and
  imports of any length.  What a request looked for before its write has not come since, or it was overtaken
  (`Sought`; for an import it also says that its rows are apart from each other).  A customer that is not
  `raced` has one request at work on its row (`OneJob`), so a password on its way is the stored one
  (`WillSend`), and so is the one the customer was told (`Told`).
- *Parties*: `EachCountedOnce` (`PartiesCountedOnce`), for any customers, spellings, profiles, rows and hides.  Over
  time only one thing has to be kept: what a row is about fits its id (`RowFits`).  The rest is about the merge of
  one moment: a listed name is the directory's spelling of it or stands for itself (`VendorName`), two names with one
  id are one name (`CanonicalApart`), a party has the row of its id or else one of its customer or spelling
  (`CustomerIs`, `VendorIs`), a row no party has is listed by itself (`OtherIs`), under its only key
  (`OwnKey`) or else under two, which takes a customer who is gone (`IdsAreOne`), and in whatever order the
  rows come a row is only passed over for another one of its vendor (`RestIs`).  The id of a
  profile must not be a vendor's name (`PartiesAssumption`): the code puts either after `v:` and
  leaves both to the browser.
- *PartyStatements*: types and `LedgersAgree` (`ViewsOfLedgerAgree`), for any documents, days, items and amounts.
  Of the state it needs only that a status says what has been paid (`Fair`).  The rest is that every view is a sum over a
  set of rows, that each set is the image of a set of documents under a function that keeps them apart
  (`EntriesSum`, `TransactionsAre`), and that sums over a set cut by kind, by day or by status add up.
- *Targets*: types and `SharesAddUp` (`SharesOfTargets`), for any settings, members, invoices and joining dates.
  Nothing in it is about steps: it is what the engine computes from any settings.  A sum over the members is
  cut into sums over those who get of one tier (`GotAre`, `PaidByTier`), each of whom gets the same, rounded
  by half a cent at most (`BreakdownIs`, `PeriodPays`); the year is cut into its periods, and every
  invoice is in one of them (`PeriodsAre`, `RevenuesAddUp`).

The last two rest on `Sums`: what `SumFunction` of the community modules computes over any finite set.  Its fold
is defined by a `CHOOSE` of the function that holds the sums over all subsets; that there is one
(`TotalsExist`), and that any member may be taken first (`TotalAdd`), are inductions over a set of subsets
(`FiniteInduct`), since the provers cannot be given a predicate.

These theorems leave out what the models set aside (`overtaken`, `raced`, `torn`,
`disturbed`, `stale`, `late`, `doubtful`): requests that overlap on one row, and steps that fail or are cut off halfway.
The actions say which, and section 3 what happens there.

Every invariant of a passing run is stated by a theorem.  Model-checked only are
- `SettlementExtends` where requests overlap: proved for one request at a time (`TermsAdd`), violated by the
  code otherwise (`MCLostTerm`);
- the liveness properties `CapturedIsBilled`, `RequestsAnswered`, `OverdueIsRemoved` and
  `QueuedIsSettled`: liveness and ENABLED are out of the prover's reach;
- the properties that the code violates, which no theorem could state: `BalanceIsExplained` (`MCLostBalance`)
  and `IdempotentRuns` (`MCRemindTwice`).

## 5. Plan

1. An abstract specification: an outbox that `InspectionDelivery` implements.
2. Composition: invoices that both freeze a job card (`JobCards`) and move the wallet
   (`CustomerWallet`); a plan change (`PlanCatalog`) under the seats that were taken (`Staff`).
3. Two workshops in `Staff`, for the counts and resets that look at all of them; several branches
   in `InspectionReports`.
4. Prices with GST, coupons and the onboarding fee in `SubscriptionRules`.

## 6. Not modelled, and why

Every part has an entry under "components".  Left out for good: forms over single rows
(banners, profile and avatar, favourites, inspection templates), which have no state worth a
model; lists, searches, pagination and sorting; PDF layout, message texts and formatting;
validation of payloads; the API documentation, seeds, scripts and migrations (the schema's unique
keys are used where they guard a race).  Inside the modelled parts: GST, coupons and the onboarding
fee of a price; the year of a bill number; tenants and branches other than those a module
names; transport and storage beyond success, failure and lost answers.
