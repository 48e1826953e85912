# Warehouse_BE_V2: verification

TLA+ models of the warehouse back end in `src/`, an Express service over PostgreSQL that rents
warehouse space to tenants, takes their goods in, stores them as LPNs (pallets) in bins, and ships
them out again. Node runs request handlers that interleave at every `await`; PostgreSQL makes each
statement atomic and isolates transactions at READ COMMITTED; PayOS is a remote payment service that
calls back. The service has no locks of its own, so its correctness is a question of what one handler
read before another one wrote. That question is what the models are for.

Contents: 1 the system, 2 the modules, 3 runs and bounds, 4 fairness, 5 proofs, 6 where the code
disagrees, 7 what is left out, 8 the plan.

## 1. The system

| Component | State | Operations | Shares state with |
|---|---|---|---|
| Rental requests and contracts (`rentalRequest`, `contract`) | request status and warehouse, contract status, signatures, product lines | ask, patch, claim, draw up, edit, sign, bill | invoices, storage reservations |
| Appendices, reservations, termination | appendix status and scope, `storage_reservations`, `contract_items`, termination requests | submit, review, approve, sign, pay, end; reserve, edit, delete; ask for an end, decide | contracts, invoices, putaway guards |
| Payments (`payosPayment`, `contractInvoice`, `contractAppendixInvoice`) | `invoices`, `payments`, orders at PayOS | create-link, webhook, sync, mark paid; activation follows | contracts, appendices, storage reservations |
| Billing (`billingJobs`, `recurringInvoice`, `recurringRentReminder`, `invoiceOverdue`) | monthly invoices, reminders | once a day: remind, bill, end what is late | invoices, contracts |
| Inbound (`inboundRequest`, `batch`, `lpn`, `lpnDetail`) | request status, lines, batches, LPNs, their contents | create, approve, receive, register LPNs, complete, cancel | putaway, deliveries, operational invoices |
| Deliveries (`inboundDelivery`, `outboundDelivery`, `shipment`) | trips, their drivers, addresses and plates | assign, report, deliver, remove | request statuses |
| Putaway (`inboundWorkflow`, `inventory`, `putawayReservation`, `bin`) | `lpns.status/current_bin_id`, bin counters and status | putaway of one LPN, bulk and automatic putaway, recount after a shipment, bin status by an administrator | outbound shipments, storage reservations |
| Stock (`inventories`, `inventory_movements`) | `quantity`, `reserved_quantity`, `available_quantity` per row, append-only movements | inserted by putaway, updated by reservation, release and shipment, by nobody else | outbound, putaway |
| Outbound (`outboundWorkflow`, `outboundRequest`, `outboundRequestItem`) | `outbound_requests`, their lines, `picking_tasks` and items | create, edit lines, submit, approve, reserve, pick, pack, ship, complete, cancel, delete | stock rows; operational invoices gate approval |
| Structure (`warehouse`, `warehouseZone`, `rack`, `rackLevel`, `bin`) | rows that refer to each other, areas | create singly and in bulk, edit, delete | stock, reservations |
| Accounts (`user`, `tenantCompany`, `auth`) | users, companies, one-time codes in memory, links | create, move, retire; forgot, reset, change | contracts |
| Catalogue (`sku`, `category`, `season`, `collection`, size and kind catalogues) | names, links, a copy of the sizes in memory | create, edit, delete | |
| Advice and room (`aiSlotRecommendation`, `putawayReservation`, `inboundApprovalReadiness`) | recommendations | recommend, mark applied | bins |
| Pure algorithms | none | FIFO allocation, boxes for a volume, quotes, dates, regions | |
| Badges, mails, scans (`adminNotification`, `*Notify`, `scanResolve`) | none | count, send, resolve | read everything |
| HTTP, validation, documentation, seeds | none | | |

The behaviours that are hard, by cause. Every one has a line in the hazards of `PROJECT.json`.

- *Check, await, write.* Status checks are done outside the transaction that acts on them
  (`shipOutbound`, `applyOutboundStatusChange`, `markInvoicePaid`, `updateContract`), and nearly every
  `UPDATE` is without a condition on the status it was decided on.
- *Several commits in one request.* Cancelling releases stock and then writes the status; a payment
  becomes SUCCESS, then its invoice PAID, then the contract ACTIVE. A crash falls in between.
- *Find, then insert.* Picking tasks, payments, inventory rows of an LPN, monthly invoices, reservations:
  no unique constraint backs the check.
- *Locks.* Rows are locked in the order a request names them; a row inserted with a foreign key
  shares the bin it is about to lock; transactions query the pool while they keep a connection of it.
- *Two places for one rule.* A badge repeats in SQL the guard of a call, a preview repeats the loop of a
  reservation, an invoice repeats an estimate; each pair can drift apart.
- *The outside world.* PayOS fails, loses answers, repeats webhooks. Mails are lost. A day passes
  without the daily job, or the job runs twice.

What each part owes its users, and thus what is checked: stock columns that add up and stock that
leaves only once and only for those who hold it (outbound); bins that hold what fits, counters that
follow stock, requests that end (putaway); no activation without payment and no payment without
activation (payments); one contract for a request and one request for a claim (leasing); room that is
private when it was promised so, and rights that end together (storage); goods that follow the arrival
of their request and stay within what the contract commits (inbound); a driver with one trip (deliveries);
every month of a lease billed once (billing); master data that agrees with what refers to it (directory).

## 2. The modules

| Module | What it models | Grain | Checked by | Proofs |
|---|---|---|---|---|
| `Outbound`, `StockLedger` | outbound requests and stock columns | statement or transaction, sessions overlap | `outbound_serial`, `outbound_race` | `OutboundProofs` |
| `InvoicePayment` | first invoices, PayOS, activation, overdue job | statement, sessions overlap | `payment_serial`, `payment_race`, `payment_fair` | `InvoicePaymentProofs` |
| `Putaway` | putaway and shipment transactions, row locks, pool | every statement of a transaction | `putaway_race` | `PutawayProofs` |
| `Leasing` | rental requests, claims, contracts, signatures | statement, sessions overlap | `leasing_race` | `LeasingProofs` |
| `StorageRights` | reservations, appendices, lines, terminations | statement; a call may stop after any | `storage_serial` | `StorageRightsProofs` |
| `Inbound` | inbound requests, lines, batches, LPNs, commitments | call; one that commits twice may stop between | `deliveries` | `DeliveriesProofs` |
| `Trips` | trips of drivers, drop-offs, shipments | statement; a call may stop after any | `deliveries` | `DeliveriesProofs` |
| `Structure`, `Accounts`, `Catalogue` over `Tables` | master data | call; bulk calls may stop, deletions race with goods | `directory_serial` | `DirectoryProofs` |
| `Calendar`, `Billing` | the daily job over real dates | statement of a run | `rules` | `LeasingProofs` |
| `Packing`, `Pricing`, and `Terms` over them and `Calendar` | boxes, quotes, fees: the terms of a lease | pure functions | `rules` | `LeasingProofs` |
| `Scan`, `Notices`, `Mails`, `Regions`, and `Answers` over them | labels, badges, mails, regions: what people are told | pure functions of a row and a user | `rules`, `scan_labels` | `DirectoryProofs` |
| `Slotting`, `Allocation`, and `Storeroom` over them | the planner of bins, the loops over stock, and what both promise | call; pure function | `rules` | `OutboundProofs` |
| `Sums` | lemmas about sums over finite sets | none | | itself |

`MC` modules give the constants their values; `MCDeliveries`, `MCDirectory` and `MCRules` also compose
modules that share no table: one run explores each with the others at rest (a product would multiply
their states and add nothing).

`StockLedger` is an abstract specification: units of a row are free, held or gone; they enter once,
move between free and held, and leave for good. `Outbound` implements it.

### Outbound

One session per HTTP request (`session[h]`: stage, request, status it read, lines left to insert).
Each autocommitted statement is a step and each transaction is a step, except where a transaction
decides on something it read without a lock (`ReserveCheckTask`, then `ReserveTx`). Other sessions run
between any two steps.

| Actions | Code |
|---|---|
| `CreateInsert`, `CreateCheckLine`, `CreateInsertLine`, `CreateUndo`, `CreateInvoice`, `CreateRefused` | `createOutboundRequest`: header, lines one by one, undo, invoice |
| `TouchRead/Write`, `SubmitRead/Write` | `updateOutboundRequest` with the old status, with PENDING |
| `ApproveRead`, `ApproveCheckStock`, `ApproveTx` | `approveAndReserveOutbound`: checks before BEGIN, then the transaction that starts with an UPDATE of the request |
| `ReserveRead`, `ReserveCheckTask`, `ReserveTx` | `reserveOutboundAndCreatePickingTask`, the recovery of APPROVED requests |
| `Start*`, `Confirm*`, `Ship*`, `Complete*` | the rest of `applyOutboundStatusChange`, `confirmPickingForOutbound`, `shipOutbound` |
| `CancelRead`, `CancelRelease`, `CancelWrite`; `DeleteRead`, `DeleteRelease`, `DeleteRow` | release in one transaction, status or row afterwards |
| `Add*`, `Change*`, `RemoveLine` | `outboundRequestItem.service.js` |
| `Pay`, `Putaway` | the tenant pays the operational invoice; a row enters the stock |
| `Abort`, `Crash` | an error before the first commit; a process that dies between commits |

`FifoAllocation` says what `reserveLine` takes from which row, as a relation rather than a loop; that the loop does
just this (all of every line, no row beyond its units, earlier rows first) is `ReservesInOrder` of `Allocation`.
`ReleaseReservations` and `ShipTx` keep the clamps (`Math.min`, `Math.max`) of the code, which matter
when two sessions release or ship the same units. Legacy requests start APPROVED with lines and no
task: the state the recovery path exists for.

Data abstracted: several lines of one sku are one line with their sum; rows are numbered in the order
`received_at` sorts them; `inventories.status` is a function of the quantities and is left out; reads
that follow each other without a decision in between are one read. Left out: `picking_tasks.status`
and its picker, the LPN and bin part of a shipment (it is in `Putaway`), the delivery row and its
ready-to-ship guard, roles.

A transaction here is one step although READ COMMITTED lets each statement see a newer snapshot.
`SELECT ... FOR UPDATE` re-reads a row it waited for, so the columns are never computed from an old
version; but the *order* in which a waiting statement meets the rows is below this grain. `Putaway` is the module where statements are steps.

### InvoicePayment

One first invoice, of a contract (`Initial`) or of an appendix; the payment rows and the same orders at
PayOS (`payment[k]`, `link[k]`); the contract, appendix and reservations (`units`) that depend on it.
Paying opens no transaction, so each statement and each call to PayOS is a step.

| Actions | Code |
|---|---|
| `LinkStart` ... `LinkMake` | `createInvoicePayOSPaymentLink` with its two attempts, `refreshPendingPaymentAfterPayOSTerminal`, `retirePendingPayOSPayment` |
| `SyncStart`, `SyncPick`, `SyncAsk` | `syncInvoicePayOSPayment` of the return page |
| `WebhookStart`, `Complete`, `Succeed` | the webhook and `completePaymentByPayOSOrderCode` |
| `ManualStart`, `Mark`, `MarkPaid`, `ActivateContract` | `markInvoicePaid`, `ensureContractActivatedAfterPayment` |
| `ReadAppendix`, `ActivateAppendix`, `ActivateUnits` | `activateAppendixAfterPayment`, two statements |
| `DropStart`, `DropAppendix`; `EndStart`, `EndContract` | `terminateContractAppendix`; `approveTerminationRequest` |
| `JobSelect`, `JobTerminate`, `JobSkip`, `JobAppendices` | `processOverdueInvoices` |
| `PayLink`, `Refuse`, `Crash` | the tenant at PayOS, an early error, a process that dies |

`CLOSED` stands for CANCELLED and EXPIRED, which the code treats alike. The refusal of a wrong amount is
left out, as are manual payments without an order code, and the five candidates a sync may read are not
counted (no run has more than three). The two reads of `markInvoicePaid` are one.

### Putaway

Here statements are steps. A session holds what its transaction has written and not yet committed:
inserted and drained inventory rows (`new`, `gone`), LPN and bin rows as it left them (`lpn`, `bin`),
foreign key locks (`share`). Other sessions see the committed tables. `WaitsFor` says, per statement,
which transactions it waits for: inserting a row that refers to a bin takes KEY SHARE on it,
`SELECT ... FOR UPDATE` conflicts with that and with itself, an UPDATE of an LPN or inventory row waits
for its writer. `Deadlocked` is a ring of waiting sessions; `Victim` is PostgreSQL failing one of them.
`ConnectionFree` is the pool: a transaction keeps one connection, and `Check` and `CountRows` contain
reads that take another one meanwhile. PostgreSQL cannot see that wait, so no victim resolves it: the pool is
`Starved` when every connection is kept by a transaction that wants another one or waits for a lock of such a one.

| Actions | Code |
|---|---|
| `StartPutaway`, `StartBulk`, `StartShip` | `putawayLpn` up to its transaction, `bulkPutawayInbound`, `shipOutbound` |
| `Begin` | `pool.connect`, BEGIN |
| `Check` | the checks of a bulk row, read through the pool |
| `CountRows`, `Insert`, `Store`, `Fill` | `executePutawayLpnCore`: `assertNoInventoryForLpn`, `createPutawayInventoryRecords`, the LPN update, `applyBinPutaway` |
| `Take`, `Unplace`, `Move`, `Recount` | the loop of `shipOutbound` over its picks, `reconcileBinOccupancyFromInventories` |
| `Commit`, `Rollback`, `Victim`, `Crash`, `SetBinStatus` | the ends of a transaction, `updateBin` |

Abstracted: the inbound stays in its receiving phase and the contract's reservations cover the bins (both
guards are true); one sku row per LPN, which ships whole; reads before BEGIN are one; automatic putaway
is a bulk putaway with any assignments, whatever the planner would choose; a bulk of a single LPN is left to
the single putaway, which makes the same checks earlier.


### Leasing

A tenant asks for space (`request[r]`: status, warehouse, lines, total), a warehouse of the region claims
the request, a contract is drawn up (`contract[c]`), offered, signed by the warehouse and then by the
tenant, whose signature issues the first invoice. `session[h]` is an open call with what it has read.

| Actions | Code |
|---|---|
| `CreateRequest`, `PatchStart`, `PatchLock`, `PatchCommit`, `DeleteRequest` | `rentalRequest.service.js`: the POST with the status of its body (`Posted`); the patch replaces product lines in a transaction |
| `ClaimStart`, `Claim` | the approval: checks on the row as read, then one guarded UPDATE |
| `ContractStart`, `ContractInsert`, `SeedItems` | `createContract`: find, insert (the unique column decides), default items; tenant, warehouse, status, amount and signatures are the client's (`Drafts`), and the request, if it names one, need not be claimed |
| `UpdateStart`, `UpdateWrite`, `BillFind`, `BillInsert`, `DeleteContract` | `updateContract`: any status, signatures and an amount given or taken back (`Edits`), what `applySignatureWorkflow` makes of them, then `createInitialInvoice` |
| `AllotStorage`, `PayInvoice` | what the other modules do to a contract |

Two fields of the rows are no columns. `posted` tells a request that was POSTed as APPROVED or CONVERTED. `path` tells
a contract on the "workflow", whose status and signatures came by the calls that check them, from one that went
"astray" (a client POSTed the tenant's signature or PENDING_PAYMENT, wrote PENDING_PAYMENT by hand, took a signature
back, or had it signed without an amount) and from one "posted" as ACTIVE. The properties say of which they hold: what
the program checks is the workflow, and section 6 says what it lets pass.

Abstracted: dates and prices (in `Calendar` and `Pricing`), regions are a relation (`InRegion`), a contract has an
amount or not (`priced`), and its price can be estimated or not (`Priced`).

### StorageRights

Who may use which place until when. An ACTIVE contract holds reservations; an appendix asks for more and its
reservations wait CANCELLED until it is paid; a termination ends contract, appendices and reservations.
Every statement outside a transaction is a step, and `Fail` may end a call after any of them.

| Actions | Code |
|---|---|
| `ReserveStart`, `ReservationInsert`, `EditReservation`, `DeleteReservation` | `storageReservation.service.js`: the overlap check, then the insert with the appendix and the status of the body (`Named`, `Given`), which nothing looks at; edits check nothing again |
| `AddItem`, `ChangeItem`, `RemoveItem` | `contractItem.service.js`: lines at any level, for any appendix of any contract |
| `SubmitStart`, `SubmitInsert`, `SubmitLine`; `ReviewStart`, `ReviewWrite` | a tenant's appendix and its review |
| `ApproveStart`, `Attach`, `ApproveWrite` | the approval, which attaches its scope row by row and then writes the status |
| `SignStart`, `SignWrite`, `SignBill`; `PayStart`, `ActivateAppendix`, `ActivateUnits` | signature, first invoice, activation in two statements |
| `EndStart`, `EndCommit`, `DeleteAppendix` | `terminateContractAppendix`, deletion |
| `TerminationStart`, `TerminationInsert`, `DecideStart`, `ApproveTermination`, `RejectTermination` | `contractTermination.service.js` |
| `EndOverdue`, `EditContract` | the other ways a contract ends: the overdue job, which leaves appendices and reservations, and a patch of its status (`ContractEdits`) |

Places have a level and the identifiers above it, as rows do; periods are half open. `attached` is no column: it tells
the reservations that an approval made from those a client POSTed, to which the ceiling and the fate of the appendix
do not apply.

### Inbound

One contract in force commits a number of pieces of each kind. Lines, batches, LPNs and their contents
(`detail`), the operational invoice, and what is on hand (`stock`) decide what a tenant may announce.

| Actions | Code |
|---|---|
| `CreateRequest`, `UpdateRequest`, `DeleteRequest`, `AddLine`, `UpdateLine`, `DeleteLine` | `inboundRequest.service.js`, `inboundRequestItem.service.js` with the commitment check |
| `StartReceiving`, `Receive`, `CompleteReceiving`, `CompleteInbound` | `inboundWorkflow.service.js` |
| `CreateBatch`, `DeleteBatch`, `CreateLpn`, `UpdateLpn`, `DeleteLpn`, `CreateDetail`, `UpdateDetail`, `DeleteDetail` | batches; LPNs, POSTed in the status and with the bin of the body (`LpnBirths`); their contents (`actual_quantity` is left out: nothing decides on it) |
| `PutawayLpn`, `Ship`, `Pickup`, `Arrival`, `SavePlate`, `PayInvoice`, `CloseCommitment` | the neighbours; a shipment of the last piece makes its LPN SHIPPED, out of its bin |

### Trips

A delivery row goes with an inbound or an outbound request. Dispatch reads the other trips of a driver and
then writes the row (`AssignStart/AssignWrite`, `DispatchStart/DispatchWrite`); a report writes the row and then
the request (`PickupStart/PickupStatus`, `DeliverStart/DeliverStatus`); the rest are single calls named for their
functions. `SaveVehicle` writes the driver that the tenant names for its own vehicle, who is not looked up;
`DeleteInbound` and `DeleteOutbound` take the delivery and the shipments with the request, in any status (the foreign
keys cascade). `Fail` stops a call between its statements; with several handlers others run there.

### Structure, Accounts, Catalogue

Tables are functions to rows or `None` (`Tables`). *Structure*: warehouses with areas, zones, racks, levels, bins,
singly and in bulk; a bulk call may make any part of what it was asked; the deletion of bins and racks asks first
(`AskBin`, `DeleteRackAsk`) and deletes afterwards while goods and reservations come and go (`Store`, `Empty`,
`Reserve`, `Unreserve`). *Accounts*: creation, moves and retirement of users, companies with their admin, login,
one-time codes with tries and expiry, password links, restarts. *Catalogue*: names, links between rows, sizes
looked up in a copy that may be a minute old (`LookupExpires`, `SizesChange`).

### What the program computes

- `Calendar`: months, billing days, ends and fractions of a lease over real dates.
- `Billing`: the daily job over two leases; reminders, rent, overdue ends; runs that fail, are missed or overlap, or skip the
  lease because nobody can be written to or its total is nothing.
- `Packing`, `Pricing`: boxes for a volume, quotes, first and appendix invoices, fees.
- `Slotting`: the plan of automatic putaway, the advised bin, the room a warehouse believes it has.
- `Allocation`: the reservation loop, the FIFO preview and the check of sufficient stock, as loops (recursive
  functions over the lines and the sorted rows); `Outbound` has their effect as the relation `FifoAllocation`.
- `Storeroom`: what is told of a warehouse, the room of `Slotting`'s bins or the stock of one of its `Enquiries`.
- `Regions`: the location tree, who may claim or drive where, the preview guests see, and its verdict.
- `Scan`, `Notices`, `Mails`: what a label answers, what a badge counts and a list shows, who is mailed, each beside
  the guard of the call it leads to.
- `Terms`, `Answers`: one behaviour for each input of the pure functions, with what validation promises of it as the
  module's assumption (`TermsAssumption`: counts, areas and rates are not negative, a line has a piece, the catalogue
  gives every kind of goods a volume, dates are days of the calendar. `AnswersAssumption`: a user has a role, a row its
  warehouse, tenant and a status of its kind, a code is what `Scan` tells apart). The property is stated of every input.

## 3. Runs and bounds

| Run | Question | Bounds |
|---|---|---|
| `outbound_serial` | Does the whole lifecycle agree with itself when calls do not overlap? | 2 requests, 1 session, 2 skus, 3 rows (the second sku's row between two of the first), all operations, one request may start APPROVED |
| `outbound_race` | What survives any overlap and any crash? | 2 requests, 2 sessions, 1 row |
| `payment_serial` | Do invoice, appendix, storage and contract agree when calls do not overlap and nothing fails? | 1 session, 3 orders, all calls |
| `payment_race` | What survives overlap, a failing PayOS, a crash and the job? | 2 sessions, 2 orders, 1 crash |
| `payment_fair` | Is received money always recorded, and does it activate? | 2 sessions, 2 orders, 1 crash |
| `putaway_race` | Do bins, LPNs and stock agree whatever the statements' order, and does every call end unless the pool is starved? | 2 sessions (one does bulk putaways of two LPNs, one puts away a third, larger one, one of them ships), 2 bins, bulk of 2; two deployments: a pool of 3 with blocks of one bin, and a pool of 2, which does starve |
| `leasing_race` | Are claims, contracts, signatures and first invoices exclusive and in order? | 2 sessions; claims: 1 request POSTed as PENDING or CONVERTED, 2 warehouses, 2 contracts, one for the request and the other POSTed as ACTIVE for another tenant; signatures: 1 contract of the request, edits of one field or of both signatures |
| `storage_serial` | Do reservations, appendices and terminations agree, and is private room private? | 1 session that may stop anywhere, 2 tenants, 1 appendix, 2 reservations (POSTed ACTIVE, with the appendix or without), 2 termination requests, 2 nested places, 2 days; lines and edits by hand in one part, ends of contracts (also overdue, and patched to EXPIRED) in the other |
| `deliveries` | Do goods follow their request, and has a driver one trip? | goods: 1 request, 2 skus, 1 batch, 1 LPN, 2 and 1 committed pieces; trips: 1 driver, 2 inbound and 1 outbound requests, of which two are under way; shipments: 1 |
| `directory_serial` | Does the master data agree with what refers to it? | structure: 1 warehouse, 2 zones, 1 rack, 1 level, 2 bins; accounts: 3 users, 2 companies, 3 addresses, codes of 2 tries; catalogue: 2 names, 3 kinds |
| `rules` | Do the computations agree with what they stand for? | five parts: rent (2 leases, 2 runs a day, one day of trouble or on which a run skips the lease), slots (4 bins, 3 boxes, one call by hand), stock, and some ten thousand inputs of `Terms` (dates, splits, quotes, loads, baskets) and `Answers` (scans, badges, moves, houses) |
| `scan_labels` | violation, section 6 | the labels of `rules` |

Each row of `PROJECT.json`'s runs names its properties; several are conjunctions of the named parts of one
question (`StockIsPromisedOnce == HeldMatchesPicks /\ PicksMatchLines /\ LinesAreCovered`, and so on), stated
in the module with a comment for each part.

Why the bounds suffice to be interesting. Two sessions are what every race of this code needs: one that
has read and one that writes; three would repeat the pairs. Two rows of a sku make FIFO a question, a
row of another sku between them shows that skus do not disturb each other. `MaxQty = 2` lets a row
be taken in part; `MaxTasks` and `MaxShips` of 2 let a second task or shipment happen, which is what the
properties forbid. Two orders let an old link and a new one be open together, three let create-link
replace twice. A volume of 2 in a bin of 2 and one of 3, with 2 slots each, meets both limits. A pool
of 3 is one more than the sessions can keep at once, so that only locks make them wait; a pool of 2 runs out, also in
the mixed form in which one transaction wants a connection and the other waits for a lock of the first. Two contracts for one request are what a second claim
would make. Two tenants and a zone within a warehouse let private and shared room meet at both levels. A
second request of one driver is what he must not get. The dates of `rules` lie around the ends of months of 28
to 31 days, over a leap day and a new year.

What the bounds do not reach: in `putaway_race` two shipments never overlap each other, and the LPNs of
the two sessions differ; that row locks exclude each other there too, and that bins hold what fits and stock is
where it says, is proved for any sessions (section 5). In `leasing_race` a claim never overlaps an edit of a contract, and
edits write one field or both signatures; the theorems have no such limit. Deadlock checking is off in every run because the system may stop: all requests may be shipped or
deleted, all orders used.

Properties that are invariants of *every* interleaving are in the race runs. Others (`StockIsPromisedOnce`,
`ShipsOnce`, `OneOpenLink`, `EndingTakesStorage`, `DedicatedIsPrivate`, `DriversAreBooked`, ...) are what the code
delivers only when calls do not overlap; they are stated of the serial runs, and section 6
says how overlap breaks them. They still rule out the logic errors: an operation that forgets to release,
a guard that admits a wrong status, a sequence of legal calls that leaves units reserved for nobody. The serial
runs of storage, deliveries and the directory let a call stop between any two of its statements.

## 4. Fairness

- `InvoicePayment`: weak fairness of every open session (Node runs a handler whose await is over); strong
  fairness of the sync and of the webhook of a paid order. The last two are assumptions about the outside:
  the tenant comes back to the return page, PayOS repeats a webhook until it is accepted. The code
  registers no timer of its own, so without them nothing would ever ask. Crashes are limited by
  `MaxCrashes` and unfair.
- `Putaway` (`EitherSpec` of `MCPutaway`): strong fairness of `Continue(h)`, because a statement that waits for a lock or a connection may be
  disabled again before it runs; PostgreSQL's lock queue and the pool's queue are first come, first served.
  `Victim` is part of `Continue`: the deadlock detector always fires in the end. Crashes are unfair.
- All other modules state safety only; nothing in them has to happen. That a late lease is ended
  (`RentIsCollected`) is stated of the days that pass, not of fairness.

## 5. Proofs

TLAPS proves the following for every value of the constants that satisfies the modules' assumptions (each module's
named ASSUME, which TLC evaluates in every run), and where said under a further assumption.

A theorem with a further assumption is stated `ASSUME A PROVE Spec => ...`, so that the assumption is part of it.
Each of these assumptions excludes a behaviour that breaks the property, shown in section 6 or said with the theorem,
and the run that checks the property satisfies all of them.

**Sums.** The code adds up quantities, volumes and areas in loops, the modules with `MapThenSumSet`. `Sums` proves
what the others need of it, by induction over finite sets written as membership in a set of sets (`SetOfSets`): the
order does not matter, one more element adds its value, equal values give equal totals, a part is at most the whole,
disjoint sets add up, n times the same is a product, and a finite set of numbers has a largest (`LargestExists`).
`TotalOfImage` lets a total be taken over names instead of rows, and `RoundedIs` says what rounding a quotient gives.

**OutboundProofs.** For any sessions and crashes: `StockAlwaysAddsUp`,
`HandlersImplementLedger`. The inductive invariant is
`StockInv == TypeOK /\ StockBalanced /\ MovementsAccountForStock`. The types alone are not inductive: a
shipment that deducts from a row keeps `available` a natural number only because the columns balance
before it. One lemma for each of the three transactions that move stock says what it does to the columns
(`ReserveStep`, `ReleaseStep`, `ShipStep`); all other steps leave stock alone. The refinement follows from the
same lemmas: reserve is `Hold`, release is `Release`, ship is `Leave`, putaway is `Enter`, anything else stutters.
The clamps are what makes it true with overlapping sessions.
`ApprovedOnce` (`ApprovalIsOnce`) holds for any sessions too. `ApprovalInv` puts every request in one of three
conditions: its row is not inserted, or was inserted as APPROVED, or was never APPROVED; the second has no lines and
no task, and in the third an approval and its task come in one transaction.
Between the statements of two calls, the other three properties are false (section 6). Under `OneAtATime`, one
session and none that dies, `StockIsPromisedToOne` (`StockIsPromisedOnce`), `RequestsShipOnce` (`ShipsOnce`) and
`OnlyHeldStockShips` (`ShipsOnlyHeldStock`) follow from `SerialInv`: what the session knows at each stage, what each
request's status says of its lines, tasks and picks, that reserved columns are the total of what the holders' tasks
will take, and that requests that wait are covered by what is available. The last two are sums over requests and rows.

The storeroom: `StoreroomTold` (`RoomIsAsTold`), for every state of the bins and every enquiry. *Room*: `SlottingInv`
adds to the types of the rows (`SlotTables`) that a bin's columns cover the boxes inside it and stay within its
capacity (`Keeps`). The types alone are not inductive: a putaway adds to the columns, and a shipment recounts them from
the boxes that stay. From it follow `PlansAreAccepted` (a plan is carried out, unless it counts on an empty bin still
marked FULL), `PlansFillStarted`, `ReadinessHonest` and `AdviceUsable`. Plan and putaway are two loops over the same
boxes, one filling a copy of the bins, one the bins; the proof carries the one along the other. *Stock*: each loop is
a recursive function. That such a function runs to its end is an induction on its length, made once for a set of runs
(`RunExists`, `FirstExists` in `Sums`); what it has done after each row is an invariant of the same kind: a line gets
no more than it wants and no more than is there, every line that was reached has got all of it or is the one that
fails, and rows that came earlier are used up first. This gives `ReservationsInOrder`, `PreviewsComeTrue` (the preview
reads each row before anything is taken, which makes no difference where no SKU comes twice) and `PicksOldestFirst`. The assumptions
(`SlottingAssumption`, `StoreroomAssumption`): codes are unique, capacities are positive, a contract's places are among
its tenant's, quantities and times are not negative, a line wants at least one unit.

**InvoicePaymentProofs.** `NothingOnCredit` (`ActiveNeedsPaid`) and `MoneyIsBacked` (`PaymentsAreBacked`), whatever
overlaps or dies. `PaymentInv` adds to the properties what each open session knows (`Sound`): at stage
`succeed` its order is PAID at PayOS, at `activate` its invoice is PAID. This stays true under steps of other
sessions because nothing is taken back (`Grows`): a paid order stays paid, a PAID invoice stays PAID, a row
stays a row. So each action has to be checked against its own session only.
Under `OneCallAtATime`: `LinksAreOpenedOnce` (`OneOpenLink`), `StorageEndsWithRights` (`EndingTakesStorage`) and
`EndedStaysEnded` (`TerminatedIsFinal`). Each part of the assumption stands for one line of section 6: two
create-links at once open two links, a PayOS that fails to close a link leaves it open, a crash stops an activation
between its statements, and the overdue job leaves the appendices of a contract it ends. `AloneInv` says that at most
one payment is PENDING and at most one link open, that storage is ACTIVE with its appendix, and what the one session
has read and nobody has changed since.

**PutawayProofs.** `RowLocksExclude` (the lock part of `TypeOK`) and `BlockedTakesNothing`
(`BlockedBinTakesNothing`). `LockInv` has the shapes of the tables and sessions, `LocksExclude`, and `HeldAsRead`: a
transaction that holds a bin which is committed as BLOCKED holds it unchanged. The first is needed for
the third: `Fill` looks at the bin under the lock, and nobody else may commit the bin while the lock is held,
so the look is still true at COMMIT. The `IsFiniteSet(Lpns)` assumption is there for the recount.
`BinsAlwaysHoldWhatFits` (`BinsHoldWhatFits`) needs no further assumption, not even that LPNs are put away once.
`FitInv` says that the counters of a bin are never below its content, nor above what it may hold,
of each committed bin row with the rows committed and of each bin row a session holds with what that session has
added and taken: a shipment that leaves a counter too high errs on the safe side.
`StockStaysWhereItSays` (`StockIsWhereItSays`) is exact: rows, LPN positions, counters and status tell one story after
every commit (`TrackInv`: the same with equality, and with what each open transaction is about to make true).
It has two assumptions. `OneRequestPerLpn`: no two requests put away one LPN, since both would count no inventory
row of it and both insert (`inventory.service.js:199`). `EditsOnlyClose`: an administrator sets a bin BLOCKED or
RESERVED and not EMPTY, PARTIAL or FULL against its content.

**LeasingProofs.** `LeaseIsInvariant` is the inductive invariant: rows, open sessions and what each of them may still
write agree. From it `RequestsHaveOneContract` (`OneContractPerClaim`), `ClaimsAreFinal` (`ClaimIsFinal`) and
`SignedContractsAreBilled` (`SignedThenBilled`) for any calls with any bodies, of which the run has a few: `Posted`,
`Drafts` and `Edits` are any sets of statuses and bodies that pass validation. What a session may still write (`Signs`)
holds of a contract that is still on the workflow when it writes, and `Grows` says that such a one was on it all the
time and lost no signature. `TotalsMatchLines` (`LinesMatchTotal`) assumes that no patch carries product lines alone
(`BareLines \subseteq {FALSE}`); section 6 has what happens otherwise.

From "Dates" on it is about the rent of a lease. First the calendar: every day has its number, days can be added and
subtracted over a month's end (`AddDaysIs`), the billing days of a lease follow one another a month apart
(`BillingDaysAlwaysAgree`), and a lease keeps its months (`MonthsAreAlwaysKept`, `ApprovalAlwaysKeepsMonths`), for
every date and every number of months. Then the daily runs, for every lease. `RentBase` has the shapes of the tables
and what an open run has read that nothing takes back. On it rest three invariants, each a fact about the days that
are done (those before today, and today once its run is past a stage): their rent is billed, in order (`RentBilled`),
what was unpaid has ended the lease (`RentEnds`), the mail for them is sent and logged (`Announced`); in each, the
trouble of the day itself excuses, and in the first and the last also that a run found nothing to bill or nobody to
write to then (`Excused`). `RentIsTiled` and `RentIsAlwaysAnnounced` assume
`OneRun`, that runs do not overlap: the job's own schedule is once a day, and a script started beside it bills twice
(section 6). `LateAlwaysEnds` and `BillingTypes` hold of any number of
overlapping runs; `RentIsAlwaysCollected` (`RentIsCollected`) puts the four together. The proofs found two limits that the run's inputs had hidden: `MonthsAreKept` was false from 64 months
on (section 6), and `AddDays` passes one end of a month only, so that a signature is given 27 days and not 33.

Then the terms of a lease, for every input (`LeaseAlwaysAddsUp`: `LeaseAddsUp`). *Boxes*: each volume is twice the
one before, so what is left over at each size is less than one box of it and at last less than a MEDIUM one, which the
last box holds. `FeesAlwaysAgree` and `CommitmentIsAlwaysDelivered` are sums over lines, of which one is taken out or which
are renamed. *Quotes* (`QuoteIsAlwaysTheRent`): the rent is the total divided by the months and rounded, so the months
make up the total to half a VND each, and where a month is quoted it is the same quotient. *Appendices*
(`AppendixAlwaysSplits`): a month in part costs its days over its length. In units of 1/377580 of a month, which every
length of 28 to 31 days divides, each date has a position on one line, and the amount of a period is the rate times a
difference of two positions; so the parts of a cut telescope, and only the roundings of three amounts are left, which
come to at most one VND.

**StorageRightsProofs.** One call at a time (`OneCall`), which may stop after any statement. `StorageInv` is the rows
of all tables and their links (`Tables`), and for the open session what it has read and still holds (`SessionsKnow`):
that an appendix it works on is still in the status it found, that rows it is about to insert are new.
`ScopeStaysWithinCeiling` (`ScopeWithinCeiling`, of what approvals attach) follows whatever is edited and reserved by
hand. `PlacesStayPrivate` (`DedicatedIsPrivate`) and `RightsAlwaysEndTogether` (`RightsEndTogether`) also assume
`EditsOnlyClose`: reservations are only closed by hand, for an edit that revives one or moves its days checks no
overlap, and no ended contract is patched back to ACTIVE, which no termination record would notice. `RightsInv` adds to
privacy that the reservations an approval attached are ACTIVE only with their appendix. The assumption on the constants
says what requests may carry: edits of the fields of the PATCH body with values of their types, any of the appendices
and statuses named in a POST, periods that do not end before they begin, places with their own level and a warehouse.

**DeliveriesProofs.** *Trips*: `TripsAreAlwaysPaid` for any number of handlers, of the drivers whom the warehouse sends:
a tenant may name anybody for its own vehicle. `DriversAreBookedOnce` (`DriversAreBooked`)
and `GoodsNeverChangeHands` (`GoodsStayWithDriver`, until they are delivered or their request is deleted) for one call
at a time and requests that are not patched back to
the transport of the warehouse, which is what the code delivers. *Inbound*: `GoodsAlwaysFollowArrival`
(`GoodsFollowArrival`) and `ApprovalIsAlwaysPaid` (`PaidBeforeApproval`) under `Orderly`: requests are born DRAFT or
PENDING, LPNs RECEIVING, no general patch writes COMPLETED, no edit of an LPN writes a status. `AnnouncementsAlwaysFit`
(`AnnouncementsFit`) also assumes that the contract commits something: the code measures nothing when it has no product
lines. The sums over lines become totals over one set of cells (`SumsBefore`, `SumsAfter`). A call that is not measured
opens no line and raises none (`NothingMore`); one that is adds exactly, or at most, what it was measured with
(`MeasuredFits`): a line that is added, one whose expectation changes while its receipt does not fall, and all the
lines of a new request at once (`CreateRequestFits`).

**DirectoryProofs.** *Structure*: `AreasAlwaysAgree` (`AreasAgree`) and `StructureStaysWhole` (`StructureIsWhole`) from
`StructureInv`: the types of the rows, the zones of each warehouse fit its usable area (`FitIn`), and what is named is
there (`StockKeepsItsPlace`). A call about zones writes one row, deletes one or makes several of one area (`ZoneStep`),
and the total of the areas changes by what was asked for. That all but the last of the zones the planner suggests
fit is arithmetic (`AllButTheLastFit`): rounding to the hundredth adds at most half of one per zone, which the last
zone pays for as long as its area is at least the reference of 50 m2. *Catalogue*: `CatalogueAlwaysAgrees`
(`CatalogueAgrees`) from `CatalogueInv`, table by table. *Accounts*: `AccountsStayDistinct`
(`AccountsAreDistinct`) and `CodesAreSpent` (`OtpIsSpent`) from `AccountsInv == Directory /\ Guesses`. The
assumptions on the constants are that tables are finite where they are summed, that NULL is no row, name or number, and
that areas are not negative (the code does not refuse those, section 6).
*Answers*: `AnswersAreAlwaysTrue` (`AnswersAreTrue`). A label is taken apart again into what it was made of
(`LabelsParse`): a structured label names its kind, and a search stops at the first resolver that answers, so what it
answers bears the code and, where the code of the kind is unique, is the row (`NamedIsAlwaysFound`). Badges and mails are
compared with the guards status by status. That the areas of a warehouse agree rests on the sum of *distinct* areas
being at most the sum of all of them, and equal to it where they differ (`Sums`).

Only model-checked: liveness and ENABLED (`CallsEndUnlessStarved`, `PaidIsRecordedUnlessCrash`, `PaidIsActivated`), which the
provers do not reach. Every invariant that a passing run checks is stated by a theorem.

## 6. Where the code disagrees

Shown by a run, and listed under findings: `scan_labels`: the plain label of a box whose code begins with `INB-`, as
the documented ones do, is looked for among the inbound requests only and answered with 404, although
`docs/barcode-mobile.md` promises the box. (Read off the source: plain codes of bins and items end in a database error,
for `findBinByCode` and `findSkuByCodeInWarehouse` name a table `zones` that no script creates.)

Met while modelling, and the reason why some properties are stated of serial runs or under an assumption.
Each was seen as a TLC trace of a variant of the model, or read off the source at the line given.

**Outbound.** Two overlapping ship calls pass the PACKING check outside the transaction and both deduct
(`outboundWorkflow.service.js:557`). A cancellation that read PENDING overtakes an approval; the request ends CANCELLED
with its units reserved (`:924`, `docs/request.md:609`). A cancel repeated after a crash releases twice, at the expense
of another request; cancellation and deletion may stop between release and status. Two overlapping recovery
reservations create two tasks. A line can be inserted after the approval that checked the lines. Creation commits
header, lines and invoice one by one; one refused at the last check stays PENDING without lines. An update that repeats
the status it read moves a request back. Reserved units of open requests count twice in `assertSufficientInventory`.
The FIFO preview counts the same rows for two lines of one sku. Approval awaits the picker's mail after COMMIT and
keeps its connection; a failing lookup there answers an error for a committed reservation.

**Payments.** The process dies between payment SUCCESS and invoice PAID; no later webhook or sync marks the
invoice, because SUCCESS returns early (`payosPayment.service.js:313`, against the comment at `:334`). Create-link on
an order PayOS calls PAID completes it, then retires the SUCCESS payment and opens a second link. Two overlapping
create-links open two payable links. A session that read PENDING_PAYMENT before the overdue job revives the contract
the job terminated. The job terminates a contract paid after its list was made. It calls
`terminateAllAppendicesForContract` with one argument instead of two, outside its transaction, and swallows the error:
the appendix stays open, and a late payment gives storage to a TERMINATED contract. An appendix whose activation
crashes between its two statements never gets its reservations; one activated while it is terminated keeps them.

**Putaway.** Two overlapping putaways of an LPN both count no inventory rows and both insert
(`inventory.service.js:199`). As many putaways as connections, each waiting for a second one, wait for ever, and
so does whoever waits for a lock of theirs (`putaway_race` reaches both with a pool of 2, and `CallsEndUnlessStarved`
excepts just this; `:341`; `config/db.js` sets neither a maximum nor a timeout, the driver's default is 10, `ARCHITECTURE.md:1055` says 20).
Two putaways into one bin deadlock whenever both have inserted their row before either locks the bin: one of them
fails with a PostgreSQL error, although the comment of `applyBinPutaway` expects FOR UPDATE to serialise them. A
shipment out of a RESERVED or BLOCKED bin never lowers its counters, so that a bin unblocked later has counters above
its content until a shipment recounts it. An LPN shipped before its inbound is completed blocks `completeInbound`,
which wants every LPN STORED.

**Leasing.** A request is POSTed in any status (`rentalRequest.service.js:61`): one that arrives APPROVED or CONVERTED
has no warehouse and nobody granted it. A contract is POSTed in any status and with signatures (`contract.service.js:44`):
as ACTIVE it is in force with no invoice, as PENDING_PAYMENT it waits for an invoice that nobody issues. It needs no
request; if it names one, this need not be claimed, nor be of the same tenant, warehouse or type (`:257`). A patch may
write any status but ACTIVE unchecked (`:63`) and ACTIVE once the first invoice is PAID, may take back either signature,
so that the tenant's stays without the warehouse's, and may take back the amount. A whole warehouse claimed by one tenant can be claimed for another (`docs/contract_type.md:5`). A patch
with product lines and no total leaves the old total. A contract without an amount that is signed from DRAFT ends
PENDING_PAYMENT with no invoice. Two concurrent tenant signatures issue two first invoices. A late signature
write can put an ACTIVE contract back to PENDING_PAYMENT.

**Storage.** Two tenants' appendices can be approved for the same zone and both paid: approval compares with ACTIVE
reservations (`storageReservation.service.js:256`), and activation does not compare again
(`contractAppendixInvoice.service.js:98`). Reviving a reservation by hand, or two handlers, do the same.
A POSTed reservation may name any appendix of any contract, in any status (`storageReservation.service.js:29`): it is
held to no ceiling and may be ACTIVE before the appendix is paid, or after it ended; lines of a contract likewise
(`contractItem.service.js:20`). Contracts end without a termination record and keep their appendices and reservations:
by the overdue job (`invoiceOverdue.service.js`) and by a patch of the status (`contract.service.js:63`), which also
makes a TERMINATED contract ACTIVE again.
Reservations can be made on TERMINATED contracts. Deleting an appendix leaves its lines and reservations. An
approval refused for a price of zero leaves its scope attached.

**Inbound.** A general patch may write COMPLETED with goods on the dock (`docs/test1.md:1388`). Expected and received
pieces patched together are measured with the old receipt, and on-hand pieces can exceed the commitment. A request without
items, or whose invoice failed, can never be approved. `delivery_mode` can be patched at any time. LPNs and their
contents are edited without a look at the status; `actual_quantity` goes stale. An LPN is POSTed in any status and with a
bin (`lpn.service.js:25`): as STORED it lets its request be completed with nothing put away, and one with a bin cannot be
put away until the bin is patched away. Inbound requests, too, are POSTed and patched in any status. A batch may be
created while its request is cancelled.

**Deliveries.** Two dispatchers at once can give one driver two trips. Staff may delete a delivery or change its driver
IN_TRANSIT. A mode patched after the assignment gives the driver a second trip. A stop between DELIVERED and COMPLETED
strands the request at SHIPPED; an administrator may complete a SHIPPED request under way. Plate and address can be
cleared during a trip. A tenant may name any user as the driver of its own vehicle, also one who is on a trip for the
warehouse (`outboundDelivery.service.js:355`). Deleting a request that is under way deletes its delivery, and the driver
who holds the goods is left without a row (`outboundRequest.service.js:418`). A driver taken off with an empty string
leaves the delivery ASSIGNED. The region of the body's place is enough while the row's own place is not written. Nothing
reads `shipments`.

**Directory.** The suggested split of an area is rounded up and overshoots (170 m2 into 3 times 56.67). A zone may
have a negative area; a usable area of 0 counts as no limit. Resizing a zone does not ask its racks. Codes of zones
made in bulk collide after a deletion. `updateBin` may lower a capacity below the content. A rack whose bins ever held
goods passes its check and is refused by the foreign key. A user may be moved away from a place with open contracts.
BLOCKED to INACTIVE to ACTIVE avoids the check of the other administrator. A "one-time" password link works until it
expires. A code is spent even when the account is inactive. Codes are lost in a restart.

**Billing.** A tenant without an active administrator is not reminded of that month's rent, nor later when he has one
(`recurringRentReminder.service.js:87`); a contract whose total is edited to nothing is silently not billed, and never
for that month (`recurringInvoice.service.js:46`). A lease of n months is billed n + 1 months. `usedContractMonths` divides days by 30, so that a lease of 64
months or more (2023-05-01 is one start) is said at its end to have used one month more than it has
(`contractBilling.js:226`). A billing day without a run is never billed, and a failed
reminder never repeated. A late signature loses months. Nothing sets EXPIRED
(`docs/contract-billing-termination.md`). Refunds of a termination are always 0. Rent may be issued to a contract
terminated while the job runs, and a bill paid between the overdue query and the transaction still ends the
contract. A late approval can shorten a lease below 30 days. `toDateOnly` in UTC is off by a day. The schedule is
`5 1 * * *` in the code and `0 1 * * *` in the docs. Overlapping runs bill twice.

**Prices and boxes.** RESERVED_STORAGE is quoted by 30 days and invoiced by months. PRIVATE with premium is estimated at
240k without and 200k with a zone. An outbound invoice charges each piece as an LPN, an inbound one each box as MEDIUM,
while readiness prices the largest type (LARGE or EXTRA) at the price of the contract's line, so that the fee told and
the fee billed may differ; `FeesAgree` only bounds the first by the second where that price is a MEDIUM box's at most. The greedy choice puts 3.5 units into two MEDIUM boxes for 30k where one LARGE
costs 25k. A sized sku saved without a size counts at factor 1.

**Advice.** A bin that is FULL but empty is planned and then refused. A putaway by hand looks neither at the status of
zone and rack nor at weights and box types. First-fit may refuse although an assignment exists; "sufficient" is
necessary, not sufficient. A tenant without reservations is advised other tenants' dedicated bins. `recommended_bin_id`
is never set, nor `isApplied` by a putaway (`docs/request.md:1032`).

**Badges, mails, regions.** A contract that waits for payment without a bill of its own leaves the number of its tenant
as soon as he owes another bill (`adminNotification.service.js:447`). The number of a badge and the list below it differ for drivers, staff, tenants and
payments. Pending monthly invoices of ACTIVE contracts are counted and not listed. Operational invoices are on no badge
though they block approval. Nobody is told of an APPROVED transport request without a driver, of a self-delivered
arrival, of an outbound trip. The transport mail is sent again at every save. Failing mails are logged and lost. The
preview of a region sums *distinct* zone areas and ignores contracts waiting for payment.

## 7. What is left out

Listed per component in `PROJECT.json`. `recurringRentOverview`, which only reads, and edits of the dates or the
billing cycle of a running lease. Texts of language models, mail templates, OpenAPI documents, seeds and schema
scripts, error formatting, routing and validation bodies: nothing changes state there, and every call is taken to be
authenticated and well formed. List queries, names and phone numbers, weights, notes and dates that nothing decides on.
Races of inbound handlers, of storage handlers and of the directory: those modules are serial, and section 6 names the
races that were seen to break them. Updates and deletions of single LPNs and volumes are left out of `Putaway`.
`picking_tasks.status` and the picker, manual payments without an order code, and refusals of a wrong amount.

## 8. The plan

No safety property of a passing run is left to prove. What would say most if it were modelled next: inbound handlers statement by statement, as `Putaway` has it, so that a batch created while its request
is cancelled becomes a run; and the composition of `Outbound`'s shipments with `Putaway`'s.

## Running

`tlc -config <run>.cfg MC<module>.tla` checks a run; `PROJECT.json` lists which, with the mutant each property
is known to reject. `tlapm <module>Proofs.tla` checks the proofs of a module.
