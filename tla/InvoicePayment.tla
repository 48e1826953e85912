---------------------------- MODULE InvoicePayment ----------------------------
(***************************************************************************)
(* One invoice of a contract on its way from PENDING to PAID: PayOS links, *)
(* webhooks, the sync of the return page, the activation that a payment    *)
(* triggers, and the nightly job that terminates contracts with an overdue *)
(* invoice (payosPayment.service.js, contractInvoice.service.js,           *)
(* contractAppendixInvoice.service.js, invoiceOverdue.service.js), and the *)
(* two calls that end an appendix or its contract meanwhile                *)
(* (contractAppendix.service.js, contractTermination.service.js).          *)
(*                                                                         *)
(* Paying opens no transaction: each statement commits on its own, and     *)
(* each call to PayOS is an await.  Only the job and the two calls that    *)
(* end something write inside one.                                         *)
(***************************************************************************)
EXTENDS Integers, FiniteSets

CONSTANTS
    Handlers,    \* sessions that can be open at once
    MaxOrders,   \* bound on the payment rows of the invoice
    Categories,  \* invoiceCategory is INITIAL or APPENDIX_INITIAL
    Kinds,       \* the calls made: link, sync, webhook, manual, drop, end
    UrlChoices,  \* may the client of create-link send its own URLs?
    PayOSFails,  \* may calls to PayOS fail?
    MaxCrashes,  \* how many sessions may die between two statements
    Overdue      \* does the due date pass?

Orders == 1..MaxOrders
NoOrder == 0

ASSUME InvoicePaymentAssumption ==
    /\ MaxOrders \in Nat
    /\ Categories \subseteq {"INITIAL", "APPENDIX_INITIAL"}
    /\ Kinds \subseteq {"link", "sync", "webhook", "manual", "drop", "end"}
    /\ UrlChoices \subseteq BOOLEAN
    /\ PayOSFails \in BOOLEAN /\ MaxCrashes \in Nat /\ Overdue \in BOOLEAN

VARIABLES
    invoice,    \* payment_status of the invoice
    contract,   \* status of its contract
    appendix,   \* status of the appendix it is for, or NONE
    units,      \* storage reservations of the appendix
    payment,    \* payments rows: NONE, PENDING, SUCCESS or FAILED
    link,       \* the same orders at PayOS: NONE, PENDING, PAID or CLOSED
    job,        \* the overdue job: idle, selected or appendices
    crashes,    \* sessions that have died
    session

rows == <<invoice, contract, appendix, units, payment, link, job, crashes>>
vars == <<rows, session>>

\* An invoice without an appendix is the contract's first one.
Initial == appendix = "NONE"

Stages == {"idle", "find", "refresh", "cancel", "fail", "insert", "fetch", "make",
           "pick", "ask", "complete", "succeed", "mark", "paid", "activate",
           "appendix", "units", "drop", "end"}

\* call: which request this is; order: the payment it works on; urls: did the
\* client send URLs; again: is this the second attempt of the loop; saw: the
\* contract status it read.
Idle == [at |-> "idle", call |-> "none", order |-> NoOrder, urls |-> FALSE,
         again |-> FALSE, saw |-> "NONE"]

GoTo(h, stage) == session' = [session EXCEPT ![h].at = stage]
Close(h)       == session' = [session EXCEPT ![h] = Idle]

At(h, stage) == session[h].at = stage

Begin(h, call, order, urls, stage) ==
    /\ At(h, "idle")
    /\ call \in Kinds
    /\ session' = [session EXCEPT ![h] = [Idle EXCEPT !.call = call, !.at = stage,
                                                      !.order = order, !.urls = urls]]
    /\ UNCHANGED rows

\* PAYOS_TERMINAL_STATUSES; CLOSED stands for CANCELLED and EXPIRED.
Terminal == {"PAID", "CLOSED"}

\* Statuses of an appendix that ends with its contract.
OpenAppendix == {"PENDING_PAYMENT", "ACTIVE"}

\* Slip: the reservations stay.
NotCancelled(reservations) == reservations

\* storage_reservations of an ended contract or appendix.
Cancelled(reservations) == IF reservations = "ACTIVE" THEN "CANCELLED" ELSE reservations

\* Where the loop of createInvoicePayOSPaymentLink begins.
LoopHead(urls) == IF urls THEN "make" ELSE "fetch"

-------------------------------------------------------------------------------
(* POST /contracts/:id/invoices/:id/payos/create-link                        *)

\* A paid invoice is marked again, for its activation, and refused.
LinkStart(h) ==
    \E urls \in UrlChoices :
        Begin(h, "link", NoOrder, urls, IF invoice = "PAID" THEN "mark" ELSE "find")

\* findOne of a PENDING payment, in no particular order.
LinkFind(h) ==
    /\ At(h, "find")
    /\ \/ /\ \A k \in Orders : payment[k] # "PENDING"
          /\ GoTo(h, "insert")
       \/ \E k \in Orders :
             /\ payment[k] = "PENDING"
             /\ session' = [session EXCEPT ![h].at = "refresh", ![h].order = k]
    /\ UNCHANGED rows

\* A row that is kept, the completed one too, gets a new link when the client
\* sent URLs of its own.
LinkKeep(h) == GoTo(h, IF session[h].urls THEN "cancel" ELSE "fetch")

\* Slip: any terminal status counts as paid.
LinkRefreshTerminal(h) ==
    LET info == link[session[h].order] IN
    /\ At(h, "refresh")
    /\ \/ info \in Terminal /\ GoTo(h, "complete")
       \/ info = "PENDING" /\ LinkKeep(h)
       \/ (info = "NONE" \/ PayOSFails) /\ GoTo(h, "cancel")
    /\ UNCHANGED rows

\* refreshPendingPaymentAfterPayOSTerminal.  An order PayOS calls PAID is
\* completed and kept; one that is closed, or cannot be looked up, is retired.
LinkRefresh(h) ==
    LET info == link[session[h].order] IN
    /\ At(h, "refresh")
    /\ \/ info = "PAID" /\ GoTo(h, "complete")
       \/ info = "PENDING" /\ LinkKeep(h)
       \/ info \in {"CLOSED", "NONE"} /\ GoTo(h, "cancel")
       \/ PayOSFails /\ GoTo(h, "cancel")
    /\ UNCHANGED rows

\* Slip: the old link is left open at PayOS.
LinkCancelLocally(h) == At(h, "cancel") /\ GoTo(h, "fail") /\ UNCHANGED rows

\* retirePendingPayOSPayment: an open link is cancelled at PayOS, and a
\* failure to do so is ignored ...
LinkCancel(h) ==
    LET k == session[h].order IN
    /\ At(h, "cancel")
    /\ \/ link' = [link EXCEPT ![k] = IF @ = "PENDING" THEN "CLOSED" ELSE @]
       \/ PayOSFails /\ link' = link
    /\ GoTo(h, "fail")
    /\ UNCHANGED <<invoice, contract, appendix, units, payment, job, crashes>>

\* ... and the row is marked FAILED, whatever it was.
LinkFail(h) ==
    /\ At(h, "fail")
    /\ payment' = [payment EXCEPT ![session[h].order] = "FAILED"]
    /\ GoTo(h, "insert")
    /\ UNCHANGED <<invoice, contract, appendix, units, link, job, crashes>>

\* Slip: the row is not created before the link.
LinkInsertLater(h) ==
    \E k \in Orders :
        /\ At(h, "insert")
        /\ payment[k] = "NONE"
        /\ session' = [session EXCEPT ![h].order = k,
                                      ![h].at = LoopHead(session[h].urls)]
        /\ UNCHANGED rows

\* createNewPendingPaymentRow
LinkInsert(h) ==
    \E k \in Orders :
        /\ At(h, "insert")
        /\ payment[k] = "NONE"
        /\ \A j \in Orders : j < k => payment[j] # "NONE"
        /\ payment' = [payment EXCEPT ![k] = "PENDING"]
        /\ session' = [session EXCEPT ![h].order = k,
                                      ![h].at = LoopHead(session[h].urls)]
        /\ UNCHANGED <<invoice, contract, appendix, units, link, job, crashes>>

\* A link that cannot be paid is retired on the first attempt and refused on
\* the second.
NotPayable(h) ==
    IF session[h].again THEN Close(h)
    ELSE session' = [session EXCEPT ![h].at = "cancel", ![h].again = TRUE]

\* Without URLs of the client a link that exists is handed out again.
LinkFetch(h) ==
    LET info == link[session[h].order] IN
    /\ At(h, "fetch")
    /\ \/ info = "PENDING" /\ Close(h)
       \/ info \in Terminal /\ NotPayable(h)
       \/ (info = "NONE" \/ PayOSFails) /\ GoTo(h, "make")
    /\ UNCHANGED rows

\* createPayOSPaymentLinkAttempt; a reply that is lost leaves the link open.
LinkMake(h) ==
    LET k == session[h].order IN
    /\ At(h, "make")
    /\ \/ /\ link[k] = "NONE"
          /\ link' = [link EXCEPT ![k] = "PENDING"]
          /\ Close(h)
       \/ link[k] = "PENDING" /\ Close(h) /\ UNCHANGED link
       \/ link[k] \in Terminal /\ NotPayable(h) /\ UNCHANGED link
       \/ /\ PayOSFails
          /\ \/ UNCHANGED link
             \/ link[k] = "NONE" /\ link' = [link EXCEPT ![k] = "PENDING"]
          /\ Close(h)
    /\ UNCHANGED <<invoice, contract, appendix, units, payment, job, crashes>>

-------------------------------------------------------------------------------
(* POST .../payos/sync, POST /payos/webhook, POST .../mark-paid              *)

\* Slip: nothing is done for an invoice that is PAID already.
SyncStartUnpaid(h) == invoice # "PAID" /\ Begin(h, "sync", NoOrder, FALSE, "pick")

SyncStart(h) ==
    Begin(h, "sync", NoOrder, FALSE, IF invoice = "PAID" THEN "mark" ELSE "pick")

\* The newest PENDING payment, else the newest one; none is an error.
SyncPick(h) ==
    LET open  == {k \in Orders : payment[k] = "PENDING"}
        known == {k \in Orders : payment[k] # "NONE"}
        from  == IF open # {} THEN open ELSE known IN
    /\ At(h, "pick")
    /\ \/ from = {} /\ Close(h)
       \/ \E k \in from :
             /\ \A j \in from : j <= k
             /\ session' = [session EXCEPT ![h].at = "ask", ![h].order = k]
    /\ UNCHANGED rows

SyncAsk(h) ==
    /\ At(h, "ask")
    /\ \/ link[session[h].order] = "PAID" /\ GoTo(h, "complete")
       \/ (link[session[h].order] # "PAID" \/ PayOSFails) /\ Close(h)
    /\ UNCHANGED rows

\* Slip: payload.success is not looked at.
WebhookStartAny(h, k) ==
    /\ link[k] \in Terminal
    /\ Begin(h, "webhook", k, FALSE, "complete")

\* PayOS reports a paid order, as often as it likes and as late as it likes.
WebhookStart(h, k) ==
    /\ link[k] = "PAID"
    /\ Begin(h, "webhook", k, FALSE, "complete")

ManualStart(h) == Begin(h, "manual", NoOrder, FALSE, "mark")

-------------------------------------------------------------------------------
(* completePaymentByPayOSOrderCode and markInvoicePaid.                      *)

\* The caller goes on when the payment is complete.
Return(h) ==
    IF session[h].call = "link" /\ session[h].order # NoOrder THEN LinkKeep(h)
    ELSE Close(h)

\* So does create-link when it is not: it takes any error for an order that
\* PayOS has lost, and retires the payment.
Fails(h) ==
    IF session[h].call = "link" /\ session[h].order # NoOrder THEN GoTo(h, "cancel")
    ELSE Close(h)

\* Slip: a payment that is not PENDING is taken for complete.
CompletePendingOnly(h) ==
    /\ At(h, "complete")
    /\ IF payment[session[h].order] # "PENDING" THEN Return(h) ELSE GoTo(h, "succeed")
    /\ UNCHANGED rows

Complete(h) ==
    /\ At(h, "complete")
    /\ IF payment[session[h].order] = "SUCCESS" THEN Return(h) ELSE GoTo(h, "succeed")
    /\ UNCHANGED rows

Succeed(h) ==
    /\ At(h, "succeed")
    /\ payment' = [payment EXCEPT ![session[h].order] = "SUCCESS"]
    /\ GoTo(h, "mark")
    /\ UNCHANGED <<invoice, contract, appendix, units, link, job, crashes>>

ActivationStage == IF Initial THEN "activate" ELSE "appendix"

\* markInvoicePaid reads the contract and the invoice ...
Mark(h) ==
    /\ At(h, "mark")
    /\ session' = [session EXCEPT ![h].saw = contract,
                      ![h].at = IF invoice = "PAID" THEN ActivationStage ELSE "paid"]
    /\ UNCHANGED rows

\* ... marks the invoice ...
MarkPaid(h) ==
    /\ At(h, "paid")
    /\ invoice' = "PAID"
    /\ GoTo(h, ActivationStage)
    /\ UNCHANGED <<contract, appendix, units, payment, link, job, crashes>>

\* ... and activates the contract if it was waiting when it was read.
\* Slip: any contract is activated.
ActivateAnyContract(h) ==
    /\ At(h, "activate")
    /\ Initial
    /\ contract' = "ACTIVE"
    /\ Return(h)
    /\ UNCHANGED <<invoice, appendix, units, payment, link, job, crashes>>

ActivateContract(h) ==
    /\ At(h, "activate")
    /\ Initial
    /\ contract' = IF session[h].saw = "PENDING_PAYMENT" THEN "ACTIVE" ELSE contract
    /\ Return(h)
    /\ UNCHANGED <<invoice, appendix, units, payment, link, job, crashes>>

\* activateAppendixAfterPayment: the appendix is read, written, and then its
\* reservations are; an appendix that is neither waiting nor active is an error.
ReadAppendix(h) ==
    /\ At(h, "appendix")
    /\ CASE appendix = "PENDING_PAYMENT" -> GoTo(h, "activate")
         [] appendix = "ACTIVE"          -> Return(h)
         [] OTHER                        -> Fails(h)
    /\ UNCHANGED rows

\* Slip: the reservations are forgotten.
ActivateAppendixOnly(h) ==
    /\ At(h, "activate")
    /\ ~Initial
    /\ appendix' = "ACTIVE"
    /\ Return(h)
    /\ UNCHANGED <<invoice, contract, units, payment, link, job, crashes>>

ActivateAppendix(h) ==
    /\ At(h, "activate")
    /\ ~Initial
    /\ appendix' = "ACTIVE"
    /\ GoTo(h, "units")
    /\ UNCHANGED <<invoice, contract, units, payment, link, job, crashes>>

ActivateUnits(h) ==
    /\ At(h, "units")
    /\ units' = "ACTIVE"
    /\ Return(h)
    /\ UNCHANGED <<invoice, contract, appendix, payment, link, job, crashes>>

-------------------------------------------------------------------------------
(* POST .../appendices/:id/terminate, POST .../termination-requests/approve. *)

\* terminateContractAppendix looks at the status ...
DropStart(h) ==
    /\ appendix = "ACTIVE"
    /\ Begin(h, "drop", NoOrder, FALSE, "drop")

\* ... and ends the appendix and its storage in one transaction.
DropAppendix(h) ==
    /\ At(h, "drop")
    /\ appendix' = "TERMINATED"
    /\ units' = Cancelled(units)
    /\ Close(h)
    /\ UNCHANGED <<invoice, contract, payment, link, job, crashes>>

\* approveTerminationRequest does the same with the contract and everything
\* that is open on it.
EndStart(h) ==
    /\ contract = "ACTIVE"
    /\ Begin(h, "end", NoOrder, FALSE, "end")

\* Slip: the appendices are left alone.
EndContractOnly(h) ==
    /\ At(h, "end")
    /\ contract' = "TERMINATED"
    /\ units' = Cancelled(units)
    /\ Close(h)
    /\ UNCHANGED <<invoice, appendix, payment, link, job, crashes>>

EndContract(h) ==
    /\ At(h, "end")
    /\ contract' = "TERMINATED"
    /\ appendix' = IF appendix \in OpenAppendix THEN "TERMINATED" ELSE appendix
    /\ units' = Cancelled(units)
    /\ Close(h)
    /\ UNCHANGED <<invoice, payment, link, job, crashes>>

-------------------------------------------------------------------------------
(* processOverdueInvoices.                                                   *)

Terminable == {"ACTIVE", "PENDING_PAYMENT"}

\* The job lists the contracts with an invoice past its due date ...
JobSelect ==
    /\ Overdue
    /\ job = "idle"
    /\ invoice = "PENDING" /\ contract \in Terminable
    /\ job' = "selected"
    /\ UNCHANGED <<invoice, contract, appendix, units, payment, link, crashes, session>>

\* Slip: every invoice of the contract is marked OVERDUE.
JobTerminateAll ==
    /\ job = "selected"
    /\ contract \in Terminable
    /\ contract' = "TERMINATED"
    /\ units' = Cancelled(units)
    /\ invoice' = "OVERDUE"
    /\ job' = "appendices"
    /\ UNCHANGED <<appendix, payment, link, crashes, session>>

\* ... and for each reads the contract again, terminates it and cancels its
\* reservations in one transaction; the invoice is not looked at again except
\* to be marked OVERDUE.
JobTerminate ==
    /\ job = "selected"
    /\ contract \in Terminable
    /\ contract' = "TERMINATED"
    /\ units' = Cancelled(units)
    /\ invoice' = IF invoice = "PENDING" THEN "OVERDUE" ELSE invoice
    /\ job' = "appendices"
    /\ UNCHANGED <<appendix, payment, link, crashes, session>>

JobSkip ==
    /\ job = "selected"
    /\ contract \notin Terminable
    /\ job' = "idle"
    /\ UNCHANGED <<invoice, contract, appendix, units, payment, link, crashes, session>>

\* terminateAllAppendicesForContract(contractId): the function expects a client
\* first, so the call throws before its query, and the error is swallowed.
JobAppendices ==
    /\ job = "appendices"
    /\ job' = "idle"
    /\ UNCHANGED <<invoice, contract, appendix, units, payment, link, crashes, session>>

-------------------------------------------------------------------------------
(* PayOS, the tenant, and failures.                                          *)

\* The tenant pays, or closes, or lets expire, a link that is open.
PayLink(k) ==
    /\ link[k] = "PENDING"
    /\ \E end \in Terminal : link' = [link EXCEPT ![k] = end]
    /\ UNCHANGED <<invoice, contract, appendix, units, payment, job, crashes, session>>

\* A call fails before it has written anything.
Refuse(h) ==
    /\ session[h].at \in {"find", "insert"}
    /\ Close(h)
    /\ UNCHANGED rows

Crash(h) ==
    /\ crashes < MaxCrashes
    /\ ~At(h, "idle")
    /\ crashes' = crashes + 1
    /\ Close(h)
    /\ UNCHANGED <<invoice, contract, appendix, units, payment, link, job>>

-------------------------------------------------------------------------------
\* Where the appendix of an invoice of each category stands.
InitAppendix ==
    {IF c = "INITIAL" THEN "NONE" ELSE "PENDING_PAYMENT" : c \in Categories}

Init ==
    /\ invoice = "PENDING"
    /\ appendix \in InitAppendix
    /\ contract = IF Initial THEN "PENDING_PAYMENT" ELSE "ACTIVE"
    /\ units = IF Initial THEN "NONE" ELSE "CANCELLED"
    /\ payment = [k \in Orders |-> "NONE"]
    /\ link = [k \in Orders |-> "NONE"]
    /\ job = "idle"
    /\ crashes = 0
    /\ session = [h \in Handlers |-> Idle]

Starting(h) ==
    \/ LinkStart(h) \/ SyncStart(h) \/ ManualStart(h) \/ DropStart(h) \/ EndStart(h)
    \/ \E k \in Orders : WebhookStart(h, k)

Continuing(h) ==
    \/ LinkFind(h) \/ LinkRefresh(h) \/ LinkCancel(h) \/ LinkFail(h)
    \/ LinkInsert(h) \/ LinkFetch(h) \/ LinkMake(h)
    \/ SyncPick(h) \/ SyncAsk(h)
    \/ Complete(h) \/ Succeed(h) \/ Mark(h) \/ MarkPaid(h)
    \/ ActivateContract(h) \/ ReadAppendix(h) \/ ActivateAppendix(h) \/ ActivateUnits(h)
    \/ DropAppendix(h) \/ EndContract(h)
    \/ Refuse(h)

JobStep == JobSelect \/ JobTerminate \/ JobSkip \/ JobAppendices

Next ==
    \/ \E h \in Handlers : Starting(h) \/ Continuing(h) \/ Crash(h)
    \/ JobStep
    \/ \E k \in Orders : PayLink(k)

Spec == Init /\ [][Next]_vars

\* An open session goes on until it ends.  PayOS repeats a webhook, and the
\* tenant comes back to the return page, which syncs; both as often as needed.
Fairness ==
    /\ \A h \in Handlers : WF_vars(Continuing(h))
    /\ SF_vars(\E h \in Handlers : SyncStart(h))
    /\ \A k \in Orders : SF_vars(\E h \in Handlers : WebhookStart(h, k))

FairSpec == Spec /\ Fairness

-------------------------------------------------------------------------------
(* Properties that hold however sessions, PayOS and the job interleave.      *)

SessionType == [at : Stages, call : Kinds \cup {"none"},
                order : Orders \cup {NoOrder}, urls : BOOLEAN, again : BOOLEAN,
                saw : {"NONE", "PENDING_PAYMENT", "ACTIVE", "TERMINATED"}]

\* Columns and sessions keep their types, and a session that works on an order
\* has one.
TypeOK ==
    /\ invoice \in {"PENDING", "PAID", "OVERDUE"}
    /\ contract \in {"PENDING_PAYMENT", "ACTIVE", "TERMINATED"}
    /\ appendix \in {"NONE", "PENDING_PAYMENT", "ACTIVE", "TERMINATED"}
    /\ units \in {"NONE", "CANCELLED", "ACTIVE"}
    /\ payment \in [Orders -> {"NONE", "PENDING", "SUCCESS", "FAILED"}]
    /\ link \in [Orders -> {"NONE", "PENDING", "PAID", "CLOSED"}]
    /\ job \in {"idle", "selected", "appendices"}
    /\ crashes \in Nat
    /\ session \in [Handlers -> SessionType]
    /\ \A h \in Handlers :
          session[h].at \in {"refresh", "cancel", "fail", "fetch", "make", "ask",
                            "complete", "succeed"}
             => session[h].order \in Orders

\* Nothing is activated on credit: a contract or an appendix is ACTIVE only
\* when its first invoice is PAID, also when the overdue job and a payment of
\* the same invoice overlap.
ActiveNeedsPaid ==
    /\ Initial /\ contract = "ACTIVE" => invoice = "PAID"
    /\ appendix = "ACTIVE" => invoice = "PAID"

\* A payment is recorded as SUCCESS only for an order that PayOS was paid for.
SuccessNeedsPayment == \A k \in Orders : payment[k] = "SUCCESS" => link[k] = "PAID"

\* As long as nobody marks it by hand, an invoice is PAID only if PayOS was
\* paid for one of its orders, on every path: webhook, sync or create-link.
PaidNeedsPayment ==
    "manual" \notin Kinds /\ invoice = "PAID" => \E k \in Orders : link[k] = "PAID"

\* The tenant never sees a link that the database does not know, so that every
\* webhook finds its payment.
RowBeforeLink == \A k \in Orders : link[k] # "NONE" => payment[k] # "NONE"

\* Rows and sessions are well formed, and every step of a payment is backed by
\* the one before: row, link, money at PayOS, SUCCESS, PAID.
PaymentsAreBacked == TypeOK /\ RowBeforeLink /\ SuccessNeedsPayment /\ PaidNeedsPayment

\* Money is not lost: unless a session dies, an invoice that PayOS was paid for
\* ends PAID, however late, repeated or overlapping the news.
PaidIsRecordedUnlessCrash ==
    (\E k \in Orders : link[k] = "PAID") ~> (invoice = "PAID" \/ crashes > 0)

\* A PAID invoice activates its contract in the end, also when the session that
\* marked it died before the activation.
PaidIsActivated ==
    Initial /\ invoice = "PAID" ~> contract # "PENDING_PAYMENT"

-------------------------------------------------------------------------------
(* Properties that need sessions not to overlap, or nothing to fail.         *)

\* At most one link can be paid at a time.
OneOpenLink == \A j, k \in Orders : link[j] = "PENDING" /\ link[k] = "PENDING" => j = k

\* A contract that has ended is not revived, however often its PAID invoice is
\* marked again.
TerminatedIsFinal == [][contract = "TERMINATED" => contract' = "TERMINATED"]_contract

\* However an appendix or its contract ends, nothing of it stays: no appendix
\* of an ended contract is open, neither holds storage, and between calls an
\* appendix is ACTIVE exactly as long as it has its storage.
EndingTakesStorage ==
    /\ contract = "TERMINATED" /\ job = "idle" => appendix \notin OpenAppendix
    /\ contract = "TERMINATED" \/ appendix = "TERMINATED" => units # "ACTIVE"
    /\ (\A h \in Handlers : At(h, "idle")) => (appendix = "ACTIVE" <=> units = "ACTIVE")
==============================================================================
