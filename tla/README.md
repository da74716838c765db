# A verification development for the trading ledger

The repository is a Next.js application over MariaDB (Prisma) in which a
trading company keeps invoices and orders, the receipts customers hand in, the
payment details that bundle receipts, the SWIFT transfers that pay a detail,
and the messages (e-mail, WhatsApp) that tell customers about it.  This
directory holds TLA+ models of its core, the TLC runs that check them on small
instances, and TLAPS proofs of what matters most for instances of every size.
Paths are relative to the root of the repository; `lib/` is `src/lib/`.

## 1. The system

Every handler runs in a Node process that serves many requests at once.  The
only shared state is the database (and, for images, the disk).  A handler
consists of reads outside a transaction, one or more transactions
(`runInTransaction`), and sometimes work after the commit.  What can go wrong lies between these pieces.

| Component | State it keeps | Operations | What makes it correct | Module |
|---|---|---|---|---|
| Settlement (`detail-service`, `swift-service`, `swift-transfer-*`, `deletion-service`) | `Detail`, `DetailItem`, `Swift`, `DeletionRequest`, `Receipt.status` | create and edit details; create, edit, sign and delete SWIFTs; request and decide deletions | never more paid than due; status follows from the SWIFTs; signed rows and completed details do not change; deletions leave nothing dangling | `Settlement` |
| Receipts (`receipt-service`, `receipt-edit-*`) | `Receipt` | create, mark received, edit, delete | the status agrees with the detail that links it; the order it counts for is the one it is bound to | `Settlement`, `OrderLedger`, `EditRequests` |
| Receipt generator (`receipt-generator-*`, `receipt-number`) | `ReceiptGeneratorSession`, drafts, `SystemCounter`, files | create, finalise, cancel a signing session; reserve numbers | a session is finalised once; its files agree with its receipt; numbers are unique | `Settlement`, `OrderLedger`, `UploadedAssets` (not the numbers) |
| E-mail (`lib/email/*`, `customer-service`) | `EmailNotification`, `EmailDelivery`, `EmailDeliveryAttempt`, `EmailWebhookEvent`, addresses | project events, preview, approve, cancel, retry, correct, dispatch, apply webhooks | what is approved is sent, once, with current content; failures are not mistaken for success; nothing is forgotten | `EmailDelivery` |
| Order balance (`order-balance*`, `balance-transfer-reversal-service`, `invoice-service`, `invoice-write`) | `Order.amount`, `Order.orderBalance` (a cache), `BalanceTransfer` | refresh, repair, transfer an overpayment, reverse it; bill, update, merge, migrate and delete orders | the cache agrees with the receipts; a transfer and its receipt live and die together; a payment counts once | `OrderLedger` |
| Edit requests (`receipt-`, `detail-`, `swift-edit-request-service`) | `*EditRequest` with a before and an after snapshot | file, approve, reject | one pending request per row; decided once; applied as decided | `EditRequests` |
| WhatsApp (`lib/whatsapp/*`) | `WhatsAppDelivery`, `WhatsAppWebhookEvent`, contacts, templates | project, refresh, claim, send, callback, retry, correct, delete | at most one send per claim; a retry only after a confirmed failure; nothing unapproved is sent | `WhatsAppDelivery` |
| MU Contract (`lib/integrations/*`), order tracker | `IntegrationSyncState` (lease, cursor), event receipts, links, conflicts, reconcile checkpoints, `OrderTracker` | incremental sync, preview, reconcile; people's edits | no event is passed over, under one lease; every contract has its row or a conflict; what people did stays | `ContractSync` |
| Uploaded assets (`uploaded-asset-*`, `detail-image-assets`) | `UploadedAsset`, files | stage, attach, preview (rename), sign, clean up | an image that is shown is the one that was given; what is abandoned goes | `UploadedAssets` |
| Customers and visibility, sessions and users, rate limit, Excel tokens, matching and OCR, settings, reports, audit, routes and UI, deployment | see `PROJECT.json` | | | none |

How they interact: receipts, details and SWIFTs change each other's status in
one transaction (`syncSwiftTransferState`), guarded by a lock of the detail's
row (`lockSwiftDetail`).  Every write of a receipt or an invoice calls the
e-mail and the WhatsApp projector inside its transaction; order balances are
refreshed after it has committed.  Edit requests call the update functions of
the row they edit; the edit of a receipt may reverse a transfer.  The contract
synchronisation and people write the same rows of the order tracker.  The
containers `email-delivery-trigger` and `whatsapp-delivery-trigger` call the
dispatchers every 30 seconds.  Providers answer the dispatchers and, later,
call the webhooks.

The hard behaviours, all of them listed with their lines under `hazards` in
`PROJECT.json`:

* *Reads that are stale when used*: checks before a transaction, reads without
  a lock inside one, snapshots of REPEATABLE READ.
* *Unconditional updates* by handlers that checked a status earlier.
* *Long sequences of legal calls* on money: edits, deletions, transfers,
  reversals and re-creation of rows in any order.
* *Locks taken in opposite orders* by reviews and deletions.
* *A provider whose answer is lost, late or repeated*, dispatches that die,
  leases that end while their holder is still working.
* *A file system beside a database*: two records of one fact, changed by
  separate statements.

## 2. The modules

| Module | What it is |
|---|---|
| `SwiftTransfer` | the money of a detail: amounts, sums, the status that the SWIFTs imply (`calculateSwiftTransferSummary`), the status the receipts get |
| `Settlement` | the transactions on receipts, details, SWIFTs and deletion requests, and the handlers in flight |
| `PaymentContract` | abstract specification of one payment detail: an amount due, an amount paid in copies, a phase |
| `SettlementProperties` | the invariants and action properties of Settlement, and the refinement mapping to `PaymentContract` |
| `SwiftTransferTheorems`, `SettlementProofs` | facts about sums of money; theorems about Settlement, the refinement among them |
| `OrderLedger`, `OrderLedgerProperties` | orders, receipts and transfers, under transactions with snapshots; their properties |
| `OrderLedgerProofs` | sums of money over finite tables; theorems about OrderLedger |
| `EditApproval` | abstract specification of the edit requests, without transactions and locks |
| `EditRequests` | the same as transactions that lock rows; its properties and the refinement |
| `EditRequestProofs` | theorems about EditRequests, the refinement among them |
| `EmailStatus` | statuses of notifications and deliveries, the status derived from deliveries, the ranks of reports |
| `EmailDelivery`, `EmailProperties` | one business event, its notification and corrections, deliveries, dispatches, provider and webhooks; properties |
| `EmailProofs` | theorems about EmailDelivery |
| `WhatsAppDelivery`, `WhatsAppProperties` | the messages about one receipt, their retries and corrections, dispatches, provider and callbacks; properties |
| `WhatsAppProofs` | theorems about WhatsAppDelivery |
| `ContractSync` | the feed and the reconcile of MU Contract, the lease, and people who edit the same rows; properties |
| `ContractProofs` | theorems about ContractSync |
| `UploadedAssets` | files, the registry of files, and the rows that show them; properties |
| `AssetProofs` | theorems about UploadedAssets |
| `MCSettlement`, `MCOrderLedger`, `MCEditRequests`, `MCEmail`, `MCWhatsApp`, `MCContractSync`, `MCUploadedAssets` | the instances for TLC, with their symmetries |

A definition marked "Fault" just before another is a plausible mistake in
that other; `mutants` in `PROJECT.json` say which property catches it.

Three components meet in the receipt, and each module takes of it what it needs:
`Settlement` its status and the details that link it, `OrderLedger` its order
and amount, `UploadedAssets` its image.  What one module does to the receipt
is an unconstrained step of the others (`MarkReceived` of OrderLedger,
`Freeze` of EditRequests), so that each is checked against more behaviour than
the composition has.

### Settlement

A row that does not exist has the status `"Unused"`, or `"Deleted"` once it
existed; identifiers (cuids) are not used twice.  `items` and `swifts` are the
child rows of each detail, `auto` marks the receipts that a detail created
(by their note in the code), `request` is the table of deletion requests.

An action is one transaction, from its first lock or first write on.  Handlers
that lock the row of the detail before they read take one action:
`UpdateDetail`, `CreateSwift`, `UpdateSwift`, `MarkSwiftReceived`,
`DeleteSwift`.  The others take two, and what they read before waits in
`session[w]` while other handlers run:

| Handler | reads | commits |
|---|---|---|
| `createDetailRecord` | `BeginCreateDetail`: the receipts it may link | `CreateDetail`: foreign keys must still hold (`ReferencesHold`) |
| `markReceiptReceived` | `BeginMark`: role, receipt | `MarkReceiptReceived`: reads the links again once it holds its locks |
| `finalizeReceiptGeneratorSession` | `BeginFinalize`: session and receipt pending; then it writes files | `Finalize`: unconditional |
| `createDeletionRequest` | `BeginRequest`: no request yet, target may be deleted | `CreateRequest` |
| `reviewDeletionRequest` | `BeginReject`, `BeginApprove`: request pending, target, the details that link a receipt | `Reject`; `ApproveMissing`, `ApproveReceiptDeletion`, `ApproveDetailDeletion`, `ApproveSwiftDeletion` |

`Abandon` is any error, crash or closed connection before the commit.  The fee
tolerance (`SWIFT_MAX_FEE_PER_COPY`) is read before the lock, so each action
uses any value of `Fees`: a set of values the setting takes while handlers run.
A sum of amounts is the number of its units (`SumOf`), which equals the sum
and spares the proofs a recursion.

Abstracted: images, dates, agents and texts; who the caller is (the actions a
user may not take are a subset of those modelled); orders and balances
(`OrderLedger`); matching a receipt to an item (any suitable receipt, or
a new one).  Amounts are integers: the code compares decimals, but sums the
items of a new detail in floating point (`lib/detail-service.ts:385`).

### E-mail

One business event (a receipt, or the shipment or release date of an invoice)
has an original notification and may have corrections.  Content is a version
number: `version` is what the event says now, `snapshot` what the notification
projected, `content` what an approved delivery froze.  A delivery is the pair
of its notification and an index, which is also its idempotency key.

* Business: `Publish` (the event is written: `upsertCurrentNotification`),
  `Remove` (date cleared, orders moved to another customer, source deleted),
  `Drift` (the customer is edited: the content changes and nothing is
  projected), `ChangeAddresses`.
* Administration: `Preview`, `Approve`, `Cancel`, `Retry`, `CreateCorrection`.
* Dispatch: `Claim` (a lease; a lease may end while its holder works),
  the call with its three outcomes (`ProviderAccepts`, `ProviderRejects`,
  `ConnectionFails` with or without the e-mail having arrived), `Record`,
  `RecordFails` (the database fails while an acceptance is recorded, and the
  same dispatch records a failure instead), `Crash`.
* Webhooks: `ProviderReports`, `BeginHook` (what the transaction reads) and
  `CommitHook` (what it writes).

The provider is external: it accepts a message once per key for as long as it
remembers the key (`remembered`, `KeyLapses`), reports what happens to a message
in order (`Following`; its failure is the last it reports of it), and its calls
arrive in any order, each any number of times.  Time is left out: a back-off may always be over.

Abstracted: templates and rendering, test mode, the outbound switch (an e-mail
that is switched off is one that no dispatch claims), permissions, several
events of one customer (they share no rows but the addresses).

### Orders and balances

A transaction here sees the tables as they were at its first read, which
`view` in `work[h]` remembers, except that a row it has itself written is the
latest (`Overlay`).  A request reads outside ("checked"), opens its
transaction ("open"), commits in one action and may then owe refreshes of
balances ("owes", "read"); `Crash` loses them and `Refuse` is any failure.

| Code | Actions |
|---|---|
| `createReceiptRecord`, `createReceiptGeneratorSession`, `finalizeReceiptGeneratorSession` | `CreateReceipt`, `CreateSession`, `BeginFinalise`, `CommitFinalise` |
| `markReceiptReceived`, `approveReceiptDeletion` | `MarkReceived`, `DeleteReceipt` |
| `transferInvoiceBalance` | `BeginTransfer` (the overpayment is computed here), `CommitTransfer` |
| `reverseTransferReceipt`, `reverseBalanceTransferInTransaction` | `OpenReverse`, `CommitReverse` (`Claimed`: the claim by deletion; `Reversible`: the checks; `Cleaned`: the empty pool order goes) |
| `applyReceiptEditInTransaction` | `OpenEdit`, `CommitEdit`, with the reversal of the transfers that `Impact` finds |
| `addInvoiceOrder`, saving an invoice | `Bill`, `MergeDeposit` |
| `updateInvoiceOrder`, `deleteInvoiceOrder` | `BeginUpdate`, `CommitUpdate`, `BeginDeleteOrder`, `CommitDeleteOrder` |
| `rematchAllOrders`, `applyRematchConflicts`, `consolidateGroupedOrders` | `BeginBind`, `CommitBind`, `BeginMerge`, `CommitMerge` |
| `migrateSystemPoolOrderForInvoiceRow` | `BeginMigrate`, `CommitMigrate` |
| `updateOrderBalance`, the repair of the dashboard | `ReadBalance`, `WriteBalance`, `Repair`; `Refreshed` inside a transaction |

Abstracted: which order a number or a customer means (any order), customers,
invoices as rows of their own, tolerances of a cent.

### Edit requests

`docs` are the receipts, details and SWIFTs with one value for their content
and a flag `frozen` for "its money was received" (a receipt: `Bank_Transfer` or
linked); `Freeze` sets and clears it at any time, which is more than Settlement does.
The review of a detail or a SWIFT claims the request, then locks and reads the
document (`Claim`, `ApplyClaimed`); that of a receipt reads a snapshot, writes
the receipt and claims last (`Apply`, `ClaimApplied`).  Rows that a
transaction has written are in `locks` until `End`; `Victim` is the rollback
that the database chooses in a deadlock, `Abort` any other failure.  The lock of a
SWIFT stands for the lock of its detail.  An instance has one document: the
requests for two documents share no row.

`EditApproval` says the same without sessions: a request is decided once and
the document changes in the same step.  It demands that what a change of a
detail overwrites is in the history, that a completed detail is not
changed, and that a deletion takes requests and history along; for receipts,
which are read without a lock, it demands less.

### WhatsApp

The deliveries for one receipt, in the order of their creation: the original,
retries of explicit failures (`retryOf`), and corrections of what was
submitted and is not true any more (`correctionOf`, `corrects`, `key`).  A
text is the version of the receipt it was rendered from.  The transactions are
Serializable (`whatsapp-transaction.ts:7`), so each is one action.

* Projection and refresh: `Project`, `Reconcile`, `Correct`, `BufferEnds`;
  `Refreshed` is `refreshWhatsAppInTransaction` with `pendingDeliveryUpdate`.
* Administration: `View`, `Approve` (of the row as it was on the screen:
  `seen`), `Cancel`, `Retry`; business: `Edit`, `RequestDeletion`,
  `DecideDeletion`, `OptOut`, `OptIn`.
* Dispatch: `Preview`, `Claim`, `CheckAncestors`, `Post` with four outcomes,
  `Record`, `Crash`, `ExpireClaim`.
* External: `Provider` reports statuses in any order its protocol allows, and, when
  `Revives`, delivers what it had reported as failed; `Webhook` applies a report.

Abstracted: a changed phone counts as a changed text, the phone is valid, the
template approved and the switches on; reminders and the template service are
left out.

### MU Contract

`log` is the log of the source; the cursor of an event is its position, its
version the number of events of its PI so far.  `rows` are the rows of the
order tracker by position, `link` the link of each PI, `open` its conflicts.
Each event and each item of a reconcile has a transaction that locks the
lease's row, then takes its snapshot: `tx` is the open one (`EventBegin` and
`EventCommit`, `ChunkBegin` and `ChunkCommit`), while people may commit in
between (`Overlap`).  `Decide` is the applier: create, attach, rename, take
over, or report a collision.  A run starts from the cursor it read before it had
the lease (`StartIncremental`, `Acquire`).  A reconcile keeps the evidence of
its preview and compares it before it starts (`ReconcilePreviewed`,
`AsPreviewed`), and resumes at its checkpoint (`CanResume`).  `RunFails`,
`Crash` and `LeaseExpires` are the failures.

Abstracted: the resolver of customers answers anything in `Resolutions`;
currency conflicts, the expiry and consumption of previews are left out; a
chunk has one item; at most one event of the log is invalid.

### Uploaded assets

`disk` maps paths to contents, `asset` is the registry, and `receipt` and
`detail` hold the image each shows and (`given`) the content it should have.
Staging takes two steps (`StageWrite`, `StageRegister`).  `CreateReceipt` and
`CreateDetail` (the "confirm" flow) attach the image they name; `CreateDirect`
(the "direct-create" flow) and `UpdateDetail` do not, as in the code, and what
they show is given to nobody: `given` is `NoImage`, and the registry leaves
the upload STAGED.  A preview takes five steps (`PreviewLoad`, `PreviewPick`,
`PreviewMove`, `PreviewPoint`, `PreviewRegister`) without a transaction, and so
does the export, which draws a new picture instead of renaming a file
(`redraw`).  Any step may be its last (`PreviewFails`): what it has moved by then
stays moved, and `cut` remembers the old name if the detail was not pointed at
the new one.  A signature takes three (`FinaliseLoad`, `FinaliseWrite`,
`FinaliseCommit` or `FinaliseFails`), and the maintenance one per file and
session (`CleanBegin` to `CleanEnd`), each of which may be the last
(`CleanFails`, `StageFails`).  `Orderly` is the switch that lets one request
or maintenance run at a time and keeps uploads from being attached after their
expiry; without it everything interleaves.

All details have one amount, day and agent, so that their previews compete for one
file name; a SWIFT's image is attached as a receipt's is.  A client names each
upload once (`named`), as the pages do.  Abstracted: what is drawn, files of customers
and agents; the writing of one file is atomic.

### Assumptions about the platform

The production database is MariaDB 10.6
(`docs/superpowers/plans/2026-07-19-...`, line 11) with InnoDB: plain reads of a
transaction see one snapshot, locking reads and updates see the latest commit,
a single `UPDATE ... WHERE` is atomic, and two transactions that wrote the same
row in turn do not abort each other.  Foreign keys and unique keys are enforced.
The handlers of Settlement that lock a detail ask for READ COMMITTED, so that what
they read after the lock is current; creating a detail, the handlers of orders and
transfers, and the e-mail handlers run under the default, REPEATABLE READ; those of
WhatsApp are Serializable.  From its first lock or first write on, a
transaction is one action unless a later read of its snapshot, or a lock it has
to wait for, matters.  InnoDB grants a lock in the order of the requests and
rolls one transaction of a deadlock back.

## 3. Runs

`tlc -config <run>.cfg <module>`; the run's cfg has its name.

| Run | Question | Instance |
|---|---|---|
| `settlement_money` | are the books right after any sequence of calls? | 1 detail, 2 receipts, 1 loose item, 2 SWIFTs, 1 request, 1 handler in flight, fees 0 and 1 |
| `settlement_races` | does a stale read break them, or leave the contract? | 2 details that may share the receipt, 1 SWIFT, 1 request, 2 handlers in flight |
| `ledger_serial` | does every operation leave every balance right, and count a payment once? | 2 orders, 2 receipts, every operation, one request at a time |
| `ledger_races` | do transfers stay paired and raise an order once, whatever races and crashes? | 2 orders, 2 receipts, 2 handlers, deposits, crashes after a commit |
| `requests` | is a request decided once and as a whole, and does every transaction end? (fairness) | 1 document of each kind, 2 requests, 2 handlers |
| `email_reports` | are outcomes recorded truthfully, duplicates confirmed, cancellations respected, reports monotone? | all seven kinds of report, failures of accepted e-mails among them, 2 reports per delivery, 2 dispatches, 1 retry, a lease that ends early, keys that lapse, 1 webhook at a time |
| `email_lifecycle` | does an approved e-mail carry current content, is a change marked, is everything queued settled? (fairness) | all removals, a correction, 1 change, a crash |
| `whatsapp` | is a message sent once, as approved, and its delivery known in the end? (fairness) | 2 deliveries, 1 dispatch that may die, 1 change, a provider that revises itself |
| `contract_feed` | does the feed reach every event once and catch up after failures? (fairness) | 2 PIs, 2 events of which one may be invalid, 2 runs, 2 reconciles, a crash or lost lease |
| `contract_people` | does every contract keep its row or get a conflict, and people their work? | 2 PIs that exchange 2 numbers in 3 events, 2 runs, 2 operations of people |
| `assets` | is every image that was attached, drawn or signed still shown, and is what is abandoned removed? (fairness) | 2 uploads, 2 details, 1 receipt, 2 previews, exports or updates, a failure or crash at any call, one request at a time |
| `assets_race` | (expects a violation) is an attached file safe from the maintenance? | the same without failures, everything interleaved |

Bounds.  In Settlement all amounts are 1 (`MaxAmount = 1`), so that a detail is due between
0 and 3 and two SWIFTs pay up to 2: overpayment, exact payment, payment within
the fee tolerance and underpayment all occur, and the proofs cover every other
amount.  Two SWIFTs are what is needed for one to be signed and the other not;
two receipts and a loose item for a total that survives a deletion; two
handlers for every race found, as each concerns one stale reader and one
writer.  In OrderLedger two orders and two receipts hold a transfer, its
generated receipt and the payment it came from; `MaxAmount` bounds what is
billed, nothing else grows.  In EditRequests a third handler would only add
a transaction that waits, as every conflict is about one document and one request of it.
In e-mail, `RetryLimit = 2` has both an automatic repetition and an exhausted
one.  Both runs have one delivery per notification: with two, an uncertain delivery
keeps its queued sibling waiting for an administrator, and neither `StatusIsDerived`
nor `QueuedIsSettled` would hold.  In WhatsApp two rows hold an original with a retry or a correction; that
a retry of a correction follows would take a third, which is out of reach of
a run of five minutes.  In ContractSync three events let two contracts exchange numbers
or one leave and return.  `MaxVersion`, `MaxCrashes`, `MaxLapses`, `MaxRetries`,
`MaxReports`, `MaxRows`, `MaxEvents`, `MaxPreviews`, `MaxHuman`, `MaxCalls`,
`MaxNames` and `MaxFaults` bound the number of such events and are listed in
each cfg; they are bounds of the checking and not of the code.

Identifiers, events or previews run out in all models but that of the e-mails,
whose cfgs leave the deadlock check on; the others turn it off, and the
liveness properties say that what has begun ends.

Each property has a mutant under `mutants`: a definition changed the way a
plausible bug would change it, with which the run finds the property violated.
Definitions of properties that no run lists (the `TypeOK` of the newer
modules, `ClaimedIsCurrent`, `VersionsOnlyGrow`, `LinksAreLive` of ContractSync,
`ReversalByEditIsNeutral`) were checked on the same instances, and all are
proved.

### Fairness

Settlement and OrderLedger have none: nothing there must happen.

* `EmailDelivery`: weak fairness of claiming, of each dispatch's call and of each
  recording.  The container `email-delivery-trigger` calls the dispatcher for
  ever and is restarted (`docker-compose.yml:83-92`); a call to the provider
  and a transaction end, in whatever way.  Nobody is assumed to approve, cancel,
  retry or report anything.  Claiming is fair for all deliveries together, as the
  dispatcher takes them in the order of their next attempt.  `QueuedIsSettled`
  holds because crashes and lapses are finite in number and attempts limited.
* `EditRequests`: strong fairness of each transaction's next step, since a lock
  it waits for is granted in the order of the requests however often it is
  taken in between.  `EveryTransactionEnds` then rests on `Victim`: without the
  rollback of a deadlock it fails (its mutant).
* `WhatsAppDelivery`: weak fairness of `Webhook`, which the provider repeats
  until it is answered.  Nothing is assumed of dispatches or triggers.
* `ContractSync`: the schedule starts runs again and again, a run that can
  go on does, and a lease whose owner died runs out.
* `UploadedAssets`: requests end, and the maintenance is called every day.

## 4. Proofs

Those about Settlement hold for any finite sets of receipts, loose
items, details and SWIFTs, any sets of requests and handlers, any fees and
amounts (`FinitenessAssumption`, `FeesAssumption`, `DisjointAssumption`,
`MaxAmountAssumption`).

`SettlementProofs` builds its invariant in layers.

* `TypeCorrect`.  `TypeOK` is almost inductive; `TypeInv` adds that a handler
  deciding on a request refers to one that was filed (`SessionsRefer`): it
  rewrites the status of the row it remembers.
* `LedgerInvariant`, and from it `NeverOverpaidAlways`,
  `TotalAlways`, `StatusAlwaysExplained`, `LinksAlwaysLive`.  The four parts of
  `Books` (`NeverOverpaid`, `TotalCoversItems`, `StatusExplained`,
  `LinksAreLive`) are proved together because they need each other.  That SWIFTs
  stay within the total is kept by the handlers that *refuse* what would be
  overpaid; for a new detail it needs that a row that does not exist has no
  SWIFTs (`LinksAreLive`).  That a status is explained (and is never ERROR)
  needs that nothing is overpaid.  That a total covers the items survives the
  deletion of a receipt whichever details were seen to link it, because
  dropping rows never raises a sum (`SumOfShrinks`).  That the total *equals*
  the sum would be too strong: `settlement_total` violates it.
* `ReceivedIsFrozen`, `UnreceivedByDeletion`, `SignedIsFinal`,
  `CompletionIsShared`, the action properties.  `markSwiftReceived` and the sync that
  follows it do not look at the status of the detail, so the proof needs that a
  RECEIVED detail with SWIFTs has only signed ones (`ReceivedAllSigned`, a
  consequence of `StatusExplained`), and that a SWIFT identifier is never issued
  twice (`IssuedInv`).  For `CompletionIsShared` every way into RECEIVED is
  followed to the update of the linked receipts in the same transaction.
* `GoneInvariant` and `ApprovedIsGone`.  An approval may decide that its target is
  missing before its transaction: this is safe because what is gone stays gone
  (`ReceiptsLast`, `DetailsLast`), which for a SWIFT needs that it has one
  owner (`OneOwner`), and because a request names what has existed
  (`RequestsInv`).
* `Implements`: from each detail's view every transaction is one step of
  `PaymentContract` or a stutter.  One step of the proof per action; the
  mapping needs the whole `LedgerInv`.

The facts about sums (`SwiftTransferTheorems`) rest on the library's theorems on
finite sets.

Those about EditRequests hold for any sets of documents, contents, requests and
handlers (`RequestsAssumption`: receipts and SWIFTs are different documents,
documents and requests different rows); `Init` picks any one of the documents.

* `EditRequestProofs`: `OnePendingAlways`, `ImplementsApprovalAlways`,
  `FrozenIsNotEditedAlways`, `OverwrittenIsKeptAlways`.  The proof sorts the
  actions first (`StepKind`): each is a move of a transaction that shows nothing
  or a commit of one kind (a request filed, decided, or removed with its document,
  or a document written), and the rest is proved of the kinds.  The invariant
  `RequestInv` has four parts.  `KeyInv`: pending requests hold their document's
  key and no others do, so that the unique key forbids a second one; alone it would give
  `OnePending`.  The refinement needs more.  `LockInv`: what a review has claimed
  is still there and pending when it commits, what a deletion has locked is still
  there, because nobody changes a row that another holds.  `ReviewInv`: a review remembers
  the request's document and proposal rightly as long as the document is there; this uses
  that a request goes with its document only, and that the instance has one
  document, so that nothing is filed after the deletion.  `TypeInv`: among other things a review that applies before it claims is one of
  a receipt, for which `EditApproval` demands less.  The two action properties then
  follow from the abstract specification (`ShownContent`), not from the transactions.

Those about e-mail hold for any numbers of corrections, deliveries, dispatches,
webhooks in flight, retries and changes.

* `EmailProofs`: `TypeCorrect`, `SuccessWasAcceptedAlways`,
  `ApprovedIsCurrentAlways` and `NoUnconfirmedDuplicateAlways` without further
  conditions: the last for any reports and any number of webhook calls at once.
  The others have conditions, and each is needed.  `SuccessIsNotRepeatedAlways`,
  `CancelledIsNotSentAlways` and `ChangeIsNotHiddenAlways` suppose that either no failure of
  an accepted e-mail is reported (`NoFailureReports`) or webhook calls are handled
  one at a time (`OneHook`, as in `email_reports`).  With failures and two
  calls TLC refutes all three: a call that has read a SENT delivery commits after
  another recorded its failure and the delivery was cancelled or retried, or its event
  changed.  (Set `Hooks = {h1, h2}` with FAILED among two `Reports`; the first also
  takes a `RetryLimit` of 3.)  `FinalIsNotTakenBackAlways` needs one call
  at a time in any case (`email_late_report`), `StatusIsDerivedAlways` one delivery per
  notification (`email_lost_retry`), `ChangeIsNotHiddenAlways` that and no retries
  (`email_hidden_change`).

  The invariant `MailInv` relates rows, leases and attempts (`ClaimInv`,
  `HolderInv`) with what the provider holds and has reported (`ProviderInv`,
  `AcceptedInv`, `LastInv`).  `CountInv` carries `NoUnconfirmedDuplicate`: what the
  provider accepted is at most one e-mail more than the confirmations and the
  failures applied (`Allowed`), and no more than these while the delivery may be
  sent again.  That a failure is counted before the delivery becomes retryable,
  and once only, is in `RowInv`: a row that has a message and has not succeeded, or
  is claimed again, had the failure of that message applied.  With one call at a time,
  `SeenInv` adds that what a call has read is still so when it commits, or that a later report
  makes it void.

Those about WhatsApp hold for any dispatches, any number of rows, any reports
and both modes, without conditions.

* `WhatsAppProofs`: `TypeCorrect`, `NoDuplicateAlways`,
  `ApprovalCoversTextAlways`, `ReportsAreKeptAlways`,
  `ClaimedIsCurrentAlways`.  The steps are sorted into kinds (rows rewritten, added, claimed,
  moved, answered, reported) and each part of `MessageInv` is proved of the
  kinds.  `RetryInv` carries `NoDuplicate`: a row that a retry follows is dead, i.e. it is
  FAILED with every message of it reported as failed, and stays so; since the set of
  dead rows is closed under `retryOf` it has every ancestor of a row in it.
  (`Ancestors` is defined as the least such set, not by recursion.)  A first
  version of `TypeOK` said more of corrections than three rows allow; the proof found it.

Those about ContractSync hold for any contracts, rows, runs and people, and any
length of the feed.

* `ContractProofs`: `TypeCorrect`, `NothingIsSkippedAlways`,
  `NoSilentGapAlways`, `LinksAlwaysLive` (`OneHolder` and `LinksAreLive`) and
  `VersionsOnlyGrowAlways` without conditions, the third also when people commit inside
  an open transaction, which `contract_people` does not cover;
  `HumanWorkIsKeptAlways` under `~Overlap`, since `contract_race`
  refutes it otherwise.  `ContractInv` has the feed and the lease (`FeedInv`,
  `LeaseInv`: whoever holds the lease has a cursor up to which everything is
  linked), the open transaction (`TxInv`, `SnapshotInv`: what it has locked is
  as it saw it), and what the links show (`OneHolder`, `NoSilentGap`), proved together since a
  take-over preserves each only because of the others.

Those about files hold for any uploads, details, receipts and names.

* `AssetProofs`: `TypeCorrect` without conditions, `ImagesAreKeptAlways` and
  `RetiredIsGoneAlways` under `Orderly` (one request or maintenance run at a time;
  TLC refutes them otherwise).  `AssetInv` says of every point at which
  a request may die what the disk, the registry and the rows have in common.
  `ImagesAreKept` excepts what the code does lose with one request at a time: the file
  of a detail whose preview ends between the renaming and the update (`cut`) and,
  after such a loss, the files that previews may write over its name; and images
  that no row was given, i.e. those an update, a direct creation or the link to a
  receipt shows without attaching them.  `assets_preview_cut` and `assets_unattached` exhibit both.

Those about OrderLedger hold for any finite sets of orders and receipts, any
handlers, amounts and operations (`LedgerAssumption`, `IdentifiersAssumption`: finitely
many identifiers, those of orders and receipts different, `NoOrder` neither).

* `OrderLedgerProofs`: `TypeCorrect`, `TransfersArePairedAlways` and
  `TransfersKeepWhatWasBilledAlways` without conditions: any number of requests
  in flight, crashes and deposits.  `PaymentCountsOnceAlways` and
  `ReversalByEditIsNeutralAlways` suppose one request at a time (`Solo`), and
  `CacheIsRightAlways` that there are no crashes and no deposits either.  The
  conditions are needed: `ledger_double` refutes the first with two
  requests, and TLC refutes the second with two as well; a crash between a commit
  and its refresh leaves a cached balance wrong until the dashboard repairs it; and a
  deposit is cached before it counts (§5), so that either switch alone refutes `CacheIsRight`.

  The invariant `LedgerInv` has two parts.  `Sound` is about the tables: identifiers
  were given out, receipts refer to existing orders, and a transfer has a counted receipt
  that is not a deposit, has its sum and, unless somebody has moved it, its
  target.  `SafeTask` is about what a
  request has read before it writes: a receipt being edited or bound holds no
  transfer, and a transfer in its snapshot that still exists is unchanged.  Without
  `SafeTask` the pairing is not inductive, since edits decide on a snapshot and write
  to the current tables.  Steps are sorted into those that only take a request further
  (`Turned`) and those that commit (`Committed`, `Lasting`: rows of transfers never
  change, no receipt turns into one of a transfer), and each kind of write is
  shown once to keep `Sound`.

  `ViewInv` says that with one request the snapshot of its transaction is the
  state it commits to.  `CacheInv` says which balances may be wrong at each point of a request:
  none before it commits, then those it still owes a refresh, of which there is one
  less after each refresh.

  Sums are numbers of units (`SumOf` counts the pairs of a row and one of its
  units), so that what a sum does when a row is added, dropped or replaced follows
  from the library's theorems on finite sets and needs no induction over data.
  The model changed in one place.  `Held` (what a transaction has read about these receipts
  is still so) now also says that they were in what it read: before, the snapshot was
  applied to receipts it might not hold.

To stay with TLC for good: the liveness properties (`QueuedIsSettled`,
`EveryTransactionEnds`, `DeliveriesBecomeKnown`, `CatchesUp`,
`AbandonedIsRemoved`), which need fairness.

## 5. Where the code and its documents disagree, and what else was found

Each of these cfgs checks one statement of the repository, and TLC shows how the
code leaves it.  `assets_race` is one of the runs; the others are there to be
run by hand (with the module whose name begins the cfg's, `MCSettlement`,
`MCEmail`, `MCOrderLedger`, `MCContractSync`, `MCEditRequests`, `MCUploadedAssets`).

| cfg | The statement | What happens |
|---|---|---|
| `assets_race` | `docs/superpowers/specs/2026-04-30-uploaded-asset-cleanup-design.md:147`: an attached image "must not be touched by orphan cleanup" | the maintenance removes from its list a file that was attached since it was listed (`lib/uploaded-asset-maintenance.ts:26`) |
| `assets_unattached` | the same design, line 145: "`STAGED` means the image exists on NAS but is not yet attached to a business record" | an update of a detail (`lib/detail-service.ts:319`) and a direct creation (`:371`, `:173`) show an upload and leave it STAGED; the maintenance then removes the file that is shown |
| `assets_preview_cut` | the same design, line 333: "business-attached files remain accessible through protected image read endpoints" | a failure between the renaming (`lib/detail-image-assets.ts:225`) and the update (`:236`) leaves the detail with a name that no file has |
| `settlement_received_deleted` | `lib/deletion-service.ts:57`: `RECEIVED状态下禁止删除` (no deletion when RECEIVED) | a detail that became RECEIVED after its deletion was requested is deleted by the approval (`:221`) |
| `settlement_decision` | `lib/deletion-service.ts:445`: `该申请已处理` (the request was decided) | approving and rejecting one request overwrite each other (`:451`) |
| `settlement_total` | `docs/superpowers/specs/2026-05-05-detail-swift-edit-approval-design.md:60`: "`totalAmount` continues to be derived from approved `items[]`" | a detail that links a receipt while its deletion is approved keeps the amount in its total (`:164`) |
| `email_restored` | `docs/superpowers/specs/2026-09-01-admin-approved-customer-email-notifications-design.md:120`: "`Pending`: ready for ADMIN review and send approval" | a notification that returns to PENDING with its old deliveries can never be approved (`lib/email/email-notification-projector.ts:181`) |
| `email_hidden_change` | `docs/email-notification-operations.md:152`: "delivery completion and later webhooks cannot hide that source change" | a retry clears the mark (`lib/email/email-notification-service.ts:759`) |
| `email_late_report` | `docs/email-notification-operations.md:64`: "old events cannot move a completed delivery backward" | two webhooks in flight do (`lib/email/resend-webhook-service.ts:156`) |
| `email_lost_retry` | the 2026-09-01 design, line 203: "The worker must survive restarts without losing queued work" | recording an outcome overwrites the QUEUED of a retry, and the retried delivery is never claimed (`lib/email/email-delivery-status.ts:63`) |
| `ledger_double` | `docs/superpowers/specs/2026-08-27-receipt-transfer-reversal-design.md:14`: "detect the duplicate transfer and require confirmation to reverse it before applying the edit" | a transfer that commits after the first read of the edit is not seen, and the payment counts twice |
| `contract_race` | `docs/superpowers/specs/2026-07-17-mucontract-order-sync-design.md:279`: "Once a user chooses a customer, later synchronization does not overwrite it." | a choice made after the snapshot of a run's transaction is overwritten or archived (`lib/integrations/mu-contract-order-applier.ts:397`) |
| `requests_latest` | `docs/superpowers/specs/2026-05-04-receipt-edit-approval-design.md:109`: "Approval applies against the latest stored receipt row" | a receipt that became Bank_Transfer after the review's snapshot is changed all the same |

The passing runs state what does hold beside them: `settlement_money` checks
`TotalCoversItems` (the total may be too high, never too low), `email_reports`
checks `FinalIsNotTakenBack` with webhooks handled one at a time (in any order)
and `StatusIsDerived` with one delivery per notification,
`email_lifecycle` checks `ChangeIsNotHidden` without retries, `ledger_serial` checks
`PaymentCountsOnce` with one request at a time, `contract_people` checks `HumanWorkIsKept`
without a person's commit inside an open transaction, `requests` checks
`FrozenIsNotEdited` of details and SWIFTs, and `assets` checks `ImagesAreKept` with
one request at a time, apart from the two losses above.

Observed while modelling, but nothing in the repository says otherwise, or it lies
outside the abstraction:

* Settlement.  A receipt linked by two details has the status of whichever changed last
  (`ENGINEERING_LOG.md:11` decides that receipt and detail are
  independent then).  A signing session finalised twice (a client that repeats a
  slow call) puts a settled receipt back to `SR_Received`: `Finalize` is
  unconditional.  A receipt dropped by an edit of its detail keeps its former
  status.  Two deletion requests for one target can be filed at once; the second
  approval finds the target gone.
* Orders.  The deposit of a signing session sets a new order's cached balance although the
  receipt does not count before it is signed; taking over a deposit never refreshes the
  order it leaves; a transfer counts receipts that wait for a signature and
  computes the overpayment before its transaction; the form of an order writes
  back an amount that a transfer has raised since; a merge adds amounts read before it.
* Edit requests.  A request for a detail or SWIFT that became RECEIVED after
  filing can be neither approved nor rejected
  (`lib/detail-edit-request-service.ts:367`).
* E-mail.  With a lease that ends early and a key the provider forgot, an e-mail can
  be sent twice: `NoUnconfirmedDuplicate` is claimed, and holds, without the two.
  Two webhook calls at once, one with the failure of an accepted e-mail, revive
  a cancelled delivery (`lib/email/resend-webhook-service.ts:156`, as in
  `email_late_report`).  An uncertain delivery keeps its queued siblings waiting for an administrator.
  A retry revives a cancelled notification of a source that is gone.  The reason
  `ADMIN_CANCELLED` is overwritten when the date is cleared, after which
  entering the date again reactivates the notification.  The projector's
  compare-and-set loop re-reads one snapshot.
* WhatsApp.  A receipt that changes from A to B and back, twice, gets no second
  correction, since its key is that of the first
  (`lib/whatsapp/whatsapp-corrections.ts:110`).  Retrying a failed correction while
  a newer one waits leaves two corrections waiting.
* MU Contract.  The committed cursor can go back, when a run starts from a
  cursor it read before it had the lease; replayed events change nothing, and
  `NothingIsSkipped` holds.  The mark of a human edit stays on a link after its row was
  taken over.
* Files.  Beside the race of the maintenance: a crash between the removal of a file and the mark
  of its row leaves a row that can still be attached; a signature that
  commits between the list of stale sessions and their cancellation loses its receipt; a
  second finalisation fails at the unique path and its error handler removes
  the files of the first; a receipt that shows its detail's image loses it when the
  preview renames that; two previews that pick one free name overwrite
  each other; a preview whose name is not the standard one is renamed at every view; an
  export draws over an uploaded image that a preview has renamed, whose name
  `isGeneratedDetailPreviewPath` cannot tell from that of a drawn one; the first
  failed removal ends the maintenance of that day, where the
  design (§7.2) continues with the other files; a crash before the registration leaves a file
  for ever.
* Elsewhere.  The number of a transfer
  receipt is the current millisecond; reserving a receipt number gives up after a
  bounded number of occupied ones; an Excel token is revoked and created in two
  statements; a changed rate-limit window applies to old timestamps.

## 6. Plan

Modelled and checked: Settlement, orders and transfers, edit requests, e-mail,
WhatsApp, the contract synchronisation, files; proved about: all of these.  What
is left:

1. `ReceiptNumber`: the counter, requested numbers and the unique key (property: no
   number twice); order aliases, rate limit and Excel tokens: algorithms against a
   reference.

Runs are few on purpose: each asks a distinct question of the system, and those
that only exhibit a disagreement stand outside, as cfgs of §5.

### Not modelled

With reasons in `PROJECT.json`: rendering and templates, OCR and text
matching (strings; what they answer is left open wherever it matters), read-only
reports and dashboards, customers, users, sessions, settings and audit
(sequential record keeping), routes, translation, the React interface (which
keeps no state that others share and is the larger part of the source) and deployment.
